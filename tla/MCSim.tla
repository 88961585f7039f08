------------------------------- MODULE MCSim --------------------------------
(***************************************************************************)
(* TLC instance of Sim: a writer and a reader, or with a third node that   *)
(* relays, in a line.                                                      *)
(***************************************************************************)
EXTENDS Sim

MCPrefix == [a \in Author |-> 0]

Path == [n \in NodeId |-> {m \in NodeId : m = n + 1 \/ n = m + 1}]

FirstNode == [x \in Cell |-> 1]

FirstTwoSubscribe == [n \in NodeId |-> IF n \in {1, 2} THEN Channel ELSE {}]

OneLoss == {[Untouched EXCEPT !.drops = 1]}
=============================================================================
