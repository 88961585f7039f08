------------------------------ MODULE MCSwarm -------------------------------
(***************************************************************************)
(* TLC instances of Swarm.                                                 *)
(***************************************************************************)
EXTENDS Swarm

MCPrefix == [a \in Author |-> 0]

\* Nodes in a line.
Path == [n \in NodeId |-> {m \in NodeId : m = n + 1 \/ n = m + 1}]

\* The ends subscribe, the middle relays.
EndsSubscribe == [n \in NodeId |-> IF n = 2 THEN {} ELSE Channel]

AtFirst == [x \in Cell |-> 1]

Losses == {[Untouched EXCEPT !.authors = 1, !.drops = 2]}

Triangle == [n \in NodeId |-> NodeId \ {n}]

OneSubscribes == [n \in NodeId |-> IF n = 1 THEN Channel ELSE {}]

Departures == {[Untouched EXCEPT !.authors = 1, !.changes = 2]}
=============================================================================
