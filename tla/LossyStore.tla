----------------------------- MODULE LossyStore -----------------------------
(***************************************************************************)
(* What a relay store whose operations may fail promises its node          *)
(* (dash-router/src/disk.rs, the doc of DiskRelayStore): an error is       *)
(* indistinguishable from a shed or an eviction.  What the store shows     *)
(* changes by an ingest of one op, by losing ops, or, when the process     *)
(* restarts, by showing again ops it kept and did not show.  It never      *)
(* shows what it has not kept.                                             *)
(***************************************************************************)
EXTENDS Store

VARIABLES
    kept,   \* the ops a fetch can produce
    shown   \* the ops the store reports to hold

lossyVars == <<kept, shown>>

Within(o, p) == o.cells \subseteq p.cells /\ o.pay \subseteq p.pay

One(x, hasPayload) == [cells |-> {x}, pay |-> IF hasPayload THEN {x} ELSE {}]

Init ==
    /\ kept \in Ops
    /\ shown = kept

\* The op may be shed, kept without being shown, or kept and shown.
TakesOp(x, hasPayload) ==
    /\ kept' \in {kept, Ingest(kept, One(x, hasPayload))}
    /\ shown' \in Ops
    /\ Within(shown, shown')
    /\ Within(shown', Ingest(shown, One(x, hasPayload)))
    /\ Within(shown', kept')

\* Ops, or payloads, of one log go; more of that log may stop being shown,
\* and what is still kept of it may be shown again.
ShrinksLog(c, a) ==
    /\ kept' \in Ops /\ shown' \in Ops
    /\ Within(kept', kept)
    /\ Within(shown', kept')
    /\ \A x \in Cell :
          ChannelOf(x) # c \/ AuthorOf(x) # a
              => /\ x \in kept'.cells <=> x \in kept.cells
                 /\ x \in kept'.pay <=> x \in kept.pay
                 /\ x \in shown'.cells <=> x \in shown.cells
                 /\ x \in shown'.pay <=> x \in shown.pay

Restarts ==
    /\ UNCHANGED kept
    /\ shown' = kept

Next ==
    \/ \E x \in Cell, hasPayload \in BOOLEAN : TakesOp(x, hasPayload)
    \/ \E c \in Channel, a \in Author : ShrinksLog(c, a)
    \/ Restarts

Spec == Init /\ [][Next]_lossyVars

=============================================================================
