------------------------------- MODULE MCNet --------------------------------
(***************************************************************************)
(* TLC instances of Net.                                                   *)
(***************************************************************************)
EXTENDS Net

MCPrefix == [a \in Author |-> IF a = 1 THEN 0 ELSE MaxPrefix]

\* Three nodes that all hear each other.
Triangle == [n \in NodeId |-> NodeId \ {n}]

\* Nodes in a line.
Path == [n \in NodeId |-> {m \in NodeId : m = n + 1 \/ n = m + 1}]

\* The first author is at one end of the line, the others at the other.
AuthorsNode == [x \in Cell |-> IF AuthorOf(x) = 1 THEN 1 ELSE 3]

\* The ends subscribe, the middle relays.
EndsSubscribe == [n \in NodeId |-> IF n = 2 THEN {} ELSE Channel]

FloodBudget == [Untouched EXCEPT !.authors = 2, !.dups = 1, !.ticks = 1, !.changes = 1]

\* Wants that cross and an answer; and a Want or an answer that comes twice.
CrossingBudget == [Untouched EXCEPT !.authors = 1, !.fires = 3]

RepeatBudget == [Untouched EXCEPT !.authors = 1, !.fires = 2, !.dups = 1]

\* An op comes out of band before the flood or after it, or is given up.
ReclaimBudget == [Untouched EXCEPT !.authors = 1, !.syncs = 1, !.reclaims = 2, !.ticks = 1]

EveryBudget == {FloodBudget, CrossingBudget, RepeatBudget, ReclaimBudget}

\* Every author's first op.  No one has the second: whatever a node holds, its
\* Want still asks for something, as every Want does in the code.
FirstOps == {x \in Cell : x[3] = 0}

ASSUME InstanceAssumption == Connected /\ RelaysSuffice /\ LogsNeverEnd
=============================================================================
