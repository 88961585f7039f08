------------------------------ MODULE Interest ------------------------------
(***************************************************************************)
(* What a Want carries (dash-router-core/src/interest.rs, log.rs).         *)
(*                                                                         *)
(* An op is named by a cell <<channel, author, seq>>. A LogRanges, which   *)
(* the code keeps as sorted boundary lists per log, is the set of cells it *)
(* contains. An Interest maps channels to entries and is here a set of     *)
(* entries, at most one for each channel.                                  *)
(***************************************************************************)
EXTENDS Naturals

CONSTANTS
    Channel,    \* channels, ordered as the relay store keys them
    Author,     \* authors under a channel
    SeqNo,      \* sequence numbers that occur (u64 in the code)
    MaxPrefix,  \* the largest author prefix (u32::MAX in the code)
    Prefix      \* author_prefix, a function of the author alone

ASSUME IdsAssumption ==
    /\ Channel \subseteq Nat
    /\ Author \subseteq Nat
    /\ SeqNo \subseteq Nat

ASSUME PrefixAssumption ==
    /\ MaxPrefix \in Nat
    /\ Prefix \in [Author -> 0..MaxPrefix]

Cell == Channel \X Author \X SeqNo

ChannelOf(x) == x[1]

AuthorOf(x) == x[2]

-----------------------------------------------------------------------------
\* Entry: the emitter's have within the inclusive prefix interval lo..hi.
\* Entry::new drops empty ranges and refuses an inverted scope and an author
\* outside the scope.

InScope(e, a) == e.lo <= Prefix[a] /\ Prefix[a] <= e.hi

EntryRecord ==
    [ch : Channel, lo : 0..MaxPrefix, hi : 0..MaxPrefix, have : SUBSET Cell]

WellFormed(e) ==
    /\ e.lo <= e.hi
    /\ \A x \in e.have : ChannelOf(x) = e.ch /\ InScope(e, AuthorOf(x))

Entry == {e \in EntryRecord : WellFormed(e)}

\* An entry over the whole author space.
Whole(c, have) == [ch |-> c, lo |-> 0, hi |-> MaxPrefix, have |-> have]

\* Lists no author.
IsPure(e) == e.have = {}

\* What the entry asks for out of held: every held cell in scope that its
\* have does not list.
AskWithin(e, held) ==
    {x \in held : ChannelOf(x) = e.ch /\ InScope(e, AuthorOf(x)) /\ x \notin e.have}

-----------------------------------------------------------------------------
\* Entry::covered_by.  The code walks the seen scopes in sorted order; what
\* that walk decides is ScopesCover (module ScopeSweep is the walk itself).

Records(e, seen) == {r \in seen : r.ch = e.ch}

ScopesCover(e, rs) == \A p \in e.lo..e.hi : \E r \in rs : r.lo <= p /\ p <= r.hi

Listed(e) == {AuthorOf(x) : x \in e.have}

\* The intersection at author a of the haves of the entries whose scope
\* contains a; an unlisted author's have is empty.
Common(e, a, rs) ==
    {x \in Cell : /\ ChannelOf(x) = e.ch
                  /\ AuthorOf(x) = a
                  /\ \A r \in rs : InScope(r, a) => x \in r.have}

\* Mistake: only the authors the entry itself lists are looked at.
CoveredByOwnAuthors(e, seen) ==
    LET rs == Records(e, seen)
    IN  /\ rs # {}
        /\ ScopesCover(e, rs)
        /\ \A a \in Listed(e) :
              /\ \E r \in rs : InScope(r, a)
              /\ Common(e, a, rs) \subseteq e.have

CoveredBy(e, seen) ==
    LET rs == Records(e, seen)
        authors == Listed(e) \cup {a \in UNION {Listed(r) : r \in rs} : InScope(e, a)}
    IN  /\ rs # {}
        /\ ScopesCover(e, rs)
        /\ \A a \in authors :
              /\ \E r \in rs : InScope(r, a)
              /\ Common(e, a, rs) \subseteq e.have

-----------------------------------------------------------------------------
\* Interest: a map from channels to entries.

IsInterest(i) == i \subseteq Entry /\ \A e, f \in i : e.ch = f.ch => e = f

\* Interest::from_held: a whole-scope entry for each of the channels.
FromHeld(held, channels) ==
    {Whole(c, {x \in held : ChannelOf(x) = c}) : c \in channels}

\* Interest::ask_within.
AskOf(i, held) == UNION {AskWithin(e, held) : e \in i}

\* Interest::uncovered_by.
UncoveredBy(i, seen) == {e \in i : ~CoveredBy(e, seen)}

=============================================================================
