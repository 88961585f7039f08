------------------------------ MODULE PackWant ------------------------------
(***************************************************************************)
(* How a Want is split to fit a byte budget (dash-router/src/pack.rs,      *)
(* pack_want and slice_entry).  Entries are framed greedily; one that does *)
(* not fit a frame alone is cut between runs of authors of one prefix, and *)
(* a run that does not fit alone loses ranges until it does.  Haves are    *)
(* boundary lists here, for that is what is cut.  Bytes are counted in     *)
(* units: one for a frame, a channel, an author and a boundary, and Width  *)
(* for each bound of a scope.                                              *)
(***************************************************************************)
EXTENDS Interest, Ranges, FiniteSets

CONSTANTS
    Lists,      \* the boundary lists that occur in a have
    Width,      \* varint_len of a prefix
    MaxWidth,   \* the greatest width (5 in the code)
    WantInputs, \* the Wants packed, their entries by channel
    Limits      \* byte budgets

ASSUME PackAssumption ==
    /\ Lists \subseteq Boundaries \ {<<>>}
    /\ MaxWidth \in Nat
    /\ Width \in [0..MaxPrefix -> 1..MaxWidth]
    /\ Limits \subseteq Nat

\* What Entry::new takes: it refuses an author outside the scope.
Accepted(e) == e.lo <= e.hi /\ \A a \in DOMAIN e.have : InScope(e, a)

\* Every listing of some authors' ranges.
Listings == UNION {[authors -> Lists] : authors \in SUBSET Author}

NoListing == [a \in {} |-> <<>>]

WantEntry ==
    {e \in [ch : Channel, lo : 0..MaxPrefix, hi : 0..MaxPrefix, have : Listings] :
        Accepted(e) /\ IsFiniteSet(DOMAIN e.have)}

ASSUME WantsAssumption ==
    /\ WantInputs \subseteq Seq(WantEntry)
    /\ \A want \in WantInputs : \A j, k \in DOMAIN want : want[j].ch = want[k].ch => j = k

\* first = None.
NoPrefix == MaxPrefix + 1

\* One unit for an author and one for each boundary, one by one.
ListingBytes(have) == Cardinality(UNION {{a} \X (0..Len(have[a])) : a \in DOMAIN have})

EntryBytes(e) == 1 + Width[e.lo] + Width[e.hi] + ListingBytes(e.have)

WantBytes(entries) == 1 + Cardinality(UNION {{e} \X (1..EntryBytes(e)) : e \in entries})

VARIABLES
    interest,   \* the Want to send, its entries by channel
    budget,     \* max_wire_bytes
    todo,       \* the entries not packed yet
    frame,      \* cur of pack_want: whole entries
    msgs,       \* the messages made, each a set of entries
    cut,        \* the authors truncated
    phase,      \* entries, then for one of them: slicing or shrinking; sent
    runs,       \* prefixes of the listed authors still to slice
    piece,      \* cur of slice_entry: whole runs
    first,      \* the first prefix of the piece
    pieces,     \* the slices made: first prefix and listing
    touched     \* the authors of the shrinking run that lost something

packVars == <<interest, budget, todo, frame, msgs, cut, phase, runs, piece, first, pieces, touched>>

sliceVars == <<runs, piece, first, pieces, touched>>

PackStarts ==
    /\ interest \in WantInputs /\ todo = interest
    /\ budget \in Limits
    /\ frame = {} /\ msgs = <<>> /\ cut = 0
    /\ phase = "entries"
    /\ runs = {} /\ piece = NoListing /\ first = NoPrefix /\ pieces = <<>> /\ touched = {}

Flushed == IF frame = {} THEN msgs ELSE Append(msgs, frame)

\* A whole entry joins the frame, or the frame is sent and it starts the next.
FrameEntry ==
    /\ phase = "entries" /\ todo # <<>>
    /\ LET e == Head(todo) IN
          /\ WantBytes({e}) <= budget
          /\ IF WantBytes(frame \cup {e}) <= budget
             THEN frame' = frame \cup {e} /\ msgs' = msgs
             ELSE frame' = {e} /\ msgs' = Flushed
    /\ todo' = Tail(todo)
    /\ UNCHANGED <<interest, budget, cut, phase, sliceVars>>

\* An entry too large for a frame: the listed authors by prefix.
CutEntry ==
    /\ phase = "entries" /\ todo # <<>>
    /\ WantBytes({Head(todo)}) > budget
    /\ msgs' = Flushed /\ frame' = {}
    /\ phase' = "slicing"
    /\ runs' = {Prefix[a] : a \in DOMAIN Head(todo).have}
    /\ piece' = NoListing /\ first' = NoPrefix /\ pieces' = <<>> /\ touched' = {}
    /\ UNCHANGED <<interest, budget, todo, cut>>

\* Mistake: the slice is measured with the bounds of the entry it is cut from.
FitsAsCut(have) == WantBytes({[Head(todo) EXCEPT !.have = have]}) <= budget

\* A slice is measured with the widest bounds it may get.
Fits(have) ==
    LET e == Head(todo)
        slack == (MaxWidth - Width[e.lo]) + (MaxWidth - Width[e.hi])
    IN  WantBytes({[e EXCEPT !.have = have]}) + slack <= budget

\* The authors of one prefix: they stay together.
Run(p) ==
    LET have == Head(todo).have
    IN  [a \in {b \in DOMAIN have : Prefix[b] = p} |-> have[a]]

\* Runs are taken in the order of their prefixes.
FirstRun == CHOOSE p \in runs : \A q \in runs : p <= q

Joined(f, g) == [a \in DOMAIN f \cup DOMAIN g |-> IF a \in DOMAIN g THEN g[a] ELSE f[a]]

AddRun ==
    /\ phase = "slicing" /\ runs # {}
    /\ LET trial == Joined(piece, Run(FirstRun)) IN Fits(trial) /\ piece' = trial
    /\ first' = IF first = NoPrefix THEN FirstRun ELSE first
    /\ runs' = runs \ {FirstRun}
    /\ UNCHANGED <<interest, budget, todo, frame, msgs, cut, phase, pieces, touched>>

ClosedPieces ==
    IF first = NoPrefix THEN pieces ELSE Append(pieces, [first |-> first, have |-> piece])

\* The run does not fit the piece: it starts the next one, shrunk if need be.
StartPiece ==
    /\ phase = "slicing" /\ runs # {}
    /\ ~Fits(Joined(piece, Run(FirstRun)))
    /\ pieces' = ClosedPieces
    /\ piece' = Run(FirstRun) /\ first' = FirstRun
    /\ runs' = runs \ {FirstRun}
    /\ touched' = {}
    /\ phase' = "shrinking"
    /\ UNCHANGED <<interest, budget, todo, frame, msgs, cut>>

\* Without its open tail, or without its last closed range.
Shortened(b) == SubSeq(b, 1, IF IsOpen(b) THEN Len(b) - 1 ELSE Len(b) - 2)

LastAuthor == CHOOSE a \in DOMAIN piece : \A b \in DOMAIN piece : b <= a

\* Mistake: an author who has no range left stays in the run.
ShrinkRunKeepingAuthors ==
    /\ phase = "shrinking"
    /\ piece # NoListing /\ ~Fits(piece)
    /\ piece' = [piece EXCEPT ![LastAuthor] = Shortened(@)]
    /\ touched' = touched \cup {LastAuthor}
    /\ UNCHANGED <<interest, budget, todo, frame, msgs, cut, phase, runs, first, pieces>>

ShrinkRun ==
    /\ phase = "shrinking"
    /\ piece # NoListing /\ ~Fits(piece)
    /\ LET kept == Shortened(piece[LastAuthor])
       IN  piece' = IF kept = <<>> THEN [a \in DOMAIN piece \ {LastAuthor} |-> piece[a]]
                    ELSE [piece EXCEPT ![LastAuthor] = kept]
    /\ touched' = touched \cup {LastAuthor}
    /\ UNCHANGED <<interest, budget, todo, frame, msgs, cut, phase, runs, first, pieces>>

RunFits ==
    /\ phase = "shrinking"
    /\ piece = NoListing \/ Fits(piece)
    /\ cut' = cut + Cardinality(touched)
    /\ phase' = "slicing"
    /\ UNCHANGED <<interest, budget, todo, frame, msgs, sliceVars>>

\* Mistake: the first slice starts at its first author.
ScopedToFirst(e, all) == [k \in DOMAIN all |->
    {[e EXCEPT !.lo = all[k].first,
               !.hi = IF k = Len(all) THEN e.hi ELSE all[k + 1].first - 1,
               !.have = all[k].have]}]

\* Each slice is scoped from its first prefix to the next slice's.
Scoped(e, all) == [k \in DOMAIN all |->
    {[e EXCEPT !.lo = IF k = 1 THEN e.lo ELSE all[k].first,
               !.hi = IF k = Len(all) THEN e.hi ELSE all[k + 1].first - 1,
               !.have = all[k].have]}]

\* The slices; with none, a pure Want if that fits.
Remaining ==
    IF ClosedPieces # <<>> THEN ClosedPieces
    ELSE IF Fits(NoListing) THEN <<[first |-> Head(todo).lo, have |-> NoListing]>>
    ELSE <<>>

EmitSlices ==
    /\ phase = "slicing" /\ runs = {}
    /\ msgs' = msgs \o Scoped(Head(todo), Remaining)
    /\ cut' = IF Remaining = <<>> THEN cut + 1 ELSE cut
    /\ todo' = Tail(todo)
    /\ phase' = "entries"
    /\ piece' = NoListing /\ first' = NoPrefix /\ pieces' = <<>> /\ touched' = {}
    /\ UNCHANGED <<interest, budget, frame, runs>>

PackEnds ==
    /\ phase = "entries" /\ todo = <<>>
    /\ msgs' = Flushed /\ frame' = {}
    /\ phase' = "sent"
    /\ UNCHANGED <<interest, budget, todo, cut, sliceVars>>

PackNext ==
    FrameEntry \/ CutEntry \/ AddRun \/ StartPiece \/ ShrinkRun \/ RunFits \/ EmitSlices \/ PackEnds

PackSpec == PackStarts /\ [][PackNext]_packVars

-----------------------------------------------------------------------------
\* Properties.

\* Every Want made is one that its receiver's decoder accepts, and fits the
\* budget, though a slice is measured before its scope is known.
Fitting == \A k \in DOMAIN msgs :
    /\ WantBytes(msgs[k]) <= budget
    /\ \A e \in msgs[k] : Accepted(e)

\* A budget that takes a pure Want of any scope.
Workable == budget >= 2 + 2 * MaxWidth

WantsFit == Workable => Fitting

Wanted == {interest[k] : k \in DOMAIN interest}

HaveOf(e, a) == IF a \in DOMAIN e.have THEN {s \in Seqs : Has(e.have[a], s)} ELSE {}

\* The sent entries whose scope has prefix p, under the channel of e.
SlicesAt(e, p) ==
    {f \in UNION {msgs[k] : k \in DOMAIN msgs} : f.ch = e.ch /\ f.lo <= p /\ p <= f.hi}

\* The authors of whom fewer ops are claimed than the Want listed.
Underclaimed == {x \in Wanted \X Author :
    \E f \in SlicesAt(x[1], Prefix[x[2]]) : HaveOf(f, x[2]) # HaveOf(x[1], x[2])}

\* The messages ask for what the Want asks for: every prefix in an entry's
\* scope, of listed authors and of unlisted ones, falls in exactly one slice
\* and no other prefix in any, and no slice claims what is not held.  The
\* Want is over-answered only for the authors counted as truncated.
WantsAskAll ==
    phase = "sent" /\ Workable =>
        /\ \A e \in Wanted, p \in 0..MaxPrefix :
              Cardinality(SlicesAt(e, p)) = IF e.lo <= p /\ p <= e.hi THEN 1 ELSE 0
        /\ \A e \in Wanted, a \in Author : \A f \in SlicesAt(e, Prefix[a]) :
              HaveOf(f, a) \subseteq HaveOf(e, a)
        /\ cut = Cardinality(Underclaimed)

=============================================================================
