------------------------------- MODULE Router -------------------------------
(***************************************************************************)
(* The storage-less router (dash-router-core/src/router.rs).  Like the     *)
(* code's Machine it is a pure function: each operator takes a router      *)
(* state and returns the next one with the effects, and its guard is the   *)
(* operator of the same name with the suffix Enabled.                      *)
(*                                                                         *)
(* Records with a time to live.  The code keeps vectors of seen Wants and  *)
(* of relayed Haves, and reads only what their union contains.  A value    *)
(* added twice lives as long as its longest-lived record, and a new record *)
(* always has the full time to live, so the union is kept here directly:   *)
(* for each seen entry, and for each relayed cell, the time it has left    *)
(* (0: no live record).                                                    *)
(***************************************************************************)
EXTENDS Store, Integers

CONSTANTS
    NodeId,     \* node ids
    WantTTL,    \* RouterConfig: want_ttl, have_ttl, heard_ttl
    HaveTTL,
    HeardTTL

ASSUME TTLAssumption ==
    /\ WantTTL \in Nat \ {0}
    /\ HaveTTL \in Nat \ {0}
    /\ HeardTTL \in Nat \ {0}

NoTimer == -1

NoRecord == [ranges |-> {}, ttl |-> 0]

RouterState ==
    [held      : SUBSET Cell,
     seen      : SUBSET [entry : Entry, ttl : 1..WantTTL],
     heard     : [Channel -> 0..HeardTTL],
     haves     : [NodeId -> [ranges : SUBSET Cell, ttl : 0..HaveTTL]],
     relayed   : [Cell -> 0..HaveTTL],
     open      : SUBSET Channel,
     wantTimer : Nat \cup {NoTimer},
     haveTimer : Nat \cup {NoTimer}]

\* RouterState::new, with the channels the node glue opens.
NewRouter(held, open) ==
    [held |-> held, seen |-> {}, heard |-> [c \in Channel |-> 0],
     haves |-> [n \in NodeId |-> NoRecord], relayed |-> [x \in Cell |-> 0],
     open |-> open, wantTimer |-> NoTimer, haveTimer |-> NoTimer]

\* Effects of one transition: the Want to send, the ranges to Have, the
\* ranges to accept; each empty when the transition has no such effect.
NoFx == [want |-> {}, have |-> {}, accept |-> {}]

-----------------------------------------------------------------------------
\* Derived state.

SeenEntries(r) == {w.entry : w \in r.seen}

HoldsUnder(r, c) == \E x \in r.held : ChannelOf(x) = c

ChannelsOfInterest(r) ==
    r.open \cup {ChannelOf(x) : x \in r.held} \cup {c \in Channel : r.heard[c] > 0}

MyInterest(r) == FromHeld(r.held, ChannelsOfInterest(r))

NextWant(r) == UncoveredBy(MyInterest(r), SeenEntries(r))

NetworkAsk(r) == AskOf(SeenEntries(r), r.held)

RecentHaves(r) == UNION {r.haves[n].ranges : n \in NodeId}

NextHave(r) == NetworkAsk(r) \ RecentHaves(r)

RelayedRanges(r) == {x \in Cell : r.relayed[x] > 0}

-----------------------------------------------------------------------------
\* Book-keeping shared by the transitions.

NoteSeen(seen, interest) ==
    {w \in seen : w.entry \notin interest}
        \cup {[entry |-> e, ttl |-> WantTTL] : e \in interest}

NoteRelayed(relayed, ranges) ==
    [x \in Cell |-> IF x \in ranges THEN HaveTTL ELSE relayed[x]]

NoteHave(haves, key, ranges) ==
    [haves EXCEPT ![key] = [ranges |-> ranges, ttl |-> HaveTTL]]

\* Mistake: the clock runs on past the expiry.
AgeUnclamped(ttl, d) == ttl - d

Age(ttl, d) == IF d < ttl THEN ttl - d ELSE 0

-----------------------------------------------------------------------------
\* Time and timers.

WantDue(r) == r.wantTimer = 0

HaveDue(r) == r.haveTimer = 0

\* next_due: a tick never carries an armed timer past due.
TickEnabled(r, d) ==
    /\ d > 0
    /\ r.wantTimer # NoTimer => d <= r.wantTimer
    /\ r.haveTimer # NoTimer => d <= r.haveTimer

Tick(r, d) ==
    [r EXCEPT
        !.wantTimer = IF @ = NoTimer THEN NoTimer ELSE @ - d,
        !.haveTimer = IF @ = NoTimer THEN NoTimer ELSE @ - d,
        !.haves = [n \in NodeId |->
                      IF d < @[n].ttl
                      THEN [ranges |-> @[n].ranges, ttl |-> @[n].ttl - d]
                      ELSE NoRecord],
        !.relayed = [x \in Cell |-> Age(@[x], d)],
        !.seen = {[entry |-> w.entry, ttl |-> w.ttl - d] : w \in {v \in @ : d < v.ttl}},
        !.heard = [c \in Channel |-> Age(@[c], d)]]

ArmWantEnabled(r) == r.wantTimer = NoTimer

ArmWant(r, interval) == [r EXCEPT !.wantTimer = interval]

ArmHaveEnabled(r) == r.haveTimer = NoTimer /\ NetworkAsk(r) # {}

ArmHave(r, interval) == [r EXCEPT !.haveTimer = interval]

\* Mistake: the own emission is not noted as seen.
FireWantUnnoted(r) ==
    LET out == NextWant(r)
    IN  [st |-> [r EXCEPT !.wantTimer = NoTimer], fx |-> [NoFx EXCEPT !.want = out]]

\* FireWant: ask for what no seen Want already asks for, and note the own
\* emission as seen.
FireWant(r) ==
    LET out == NextWant(r)
    IN  [st |-> [r EXCEPT !.wantTimer = NoTimer, !.seen = NoteSeen(@, out)],
         fx |-> [NoFx EXCEPT !.want = out]]

\* FireHave: answer what some asker lacks and nobody recently sent.
FireHave(r, id) ==
    LET ranges == NextHave(r)
    IN  [st |-> [r EXCEPT
                    !.haveTimer = NoTimer,
                    !.haves = IF ranges = {} THEN @ ELSE NoteHave(@, id, ranges),
                    !.relayed = NoteRelayed(@, ranges)],
         fx |-> [NoFx EXCEPT !.have = ranges]]

-----------------------------------------------------------------------------
\* Inputs from the node glue.

PushEnabled(ranges) == ranges # {}

Push(r, id, ranges) ==
    LET relay == ranges \ RelayedRanges(r)
    IN  [st |-> [r EXCEPT
                    !.held = @ \cup ranges,
                    !.haves = IF relay = {} THEN @ ELSE NoteHave(@, id, relay),
                    !.relayed = NoteRelayed(@, relay)],
         fx |-> [NoFx EXCEPT !.have = relay]]

Held(r, ranges) == [r EXCEPT !.held = ranges]

Open(r, channels) == [r EXCEPT !.open = channels]

-----------------------------------------------------------------------------
\* Messages.

\* Mistake: a pure want is adopted too.
RecvWantAdoptingAll(r, interest) ==
    LET heard == {e.ch : e \in {f \in interest : ~HoldsUnder(r, f.ch)}}
    IN  [st |-> [r EXCEPT
                    !.heard = [c \in Channel |-> IF c \in heard THEN HeardTTL ELSE @[c]],
                    !.seen = NoteSeen(@, interest)],
         fx |-> [NoFx EXCEPT
                    !.want = IF UncoveredBy(interest, SeenEntries(r)) # {}
                             THEN interest ELSE {}]]

\* A Want is relayed whole on first sight, judged by the seen set before the
\* receipt; a channel wanted by a holder is adopted when nothing is held
\* under it.
RecvWant(r, interest) ==
    LET heard == {e.ch : e \in {f \in interest : ~IsPure(f) /\ ~HoldsUnder(r, f.ch)}}
    IN  [st |-> [r EXCEPT
                    !.heard = [c \in Channel |-> IF c \in heard THEN HeardTTL ELSE @[c]],
                    !.seen = NoteSeen(@, interest)],
         fx |-> [NoFx EXCEPT
                    !.want = IF UncoveredBy(interest, SeenEntries(r)) # {}
                             THEN interest ELSE {}]]

\* Mistake: only what is new to the node is relayed.
RecvHaveRelayingNews(r, from, ranges) ==
    LET novel == ranges \ r.held
        relay == novel \ RelayedRanges(r)
    IN  [st |-> [r EXCEPT
                    !.held = @ \cup novel,
                    !.relayed = NoteRelayed(@, relay),
                    !.haves = NoteHave(@, from, ranges)],
         fx |-> [NoFx EXCEPT !.accept = novel, !.have = relay]]

\* Mistake: whatever is received is relayed, relayed before or not.
RecvHaveRelayingAll(r, from, ranges) ==
    LET novel == ranges \ r.held
    IN  [st |-> [r EXCEPT
                    !.held = @ \cup novel,
                    !.relayed = NoteRelayed(@, ranges),
                    !.haves = NoteHave(@, from, ranges)],
         fx |-> [NoFx EXCEPT !.accept = novel, !.have = ranges]]

\* Every Have is relayed, new to the node or not, as far as it was not
\* relayed lately.
RecvHave(r, from, ranges) ==
    LET novel == ranges \ r.held
        relay == ranges \ RelayedRanges(r)
    IN  [st |-> [r EXCEPT
                    !.held = @ \cup novel,
                    !.relayed = NoteRelayed(@, relay),
                    !.haves = NoteHave(@, from, ranges)],
         fx |-> [NoFx EXCEPT !.accept = novel, !.have = relay]]

=============================================================================
