----------------------------- MODULE MCNodeEnv ------------------------------
(***************************************************************************)
(* TLC instances of NodeEnv.                                               *)
(***************************************************************************)
EXTENDS NodeEnv

\* Two authors with the least and the greatest prefix.
MCPrefix == [a \in Author |-> IF a = 1 THEN 0 ELSE MaxPrefix]

First == <<1, 1, 0>>

Second == <<1, 2, 0>>

\* Every body: headers alone, payloads, and mixtures.
AnyBody == {o \in Ops : o.cells # {}}

\* The second op alone.
SecondBody == {[cells |-> {Second}, pay |-> {}]}

\* A pure want, a holder's want, and a want scoped to the first author.
SomeWants ==
    {{Whole(1, {})}, {Whole(1, {First})}, {[ch |-> 1, lo |-> 0, hi |-> 0, have |-> {}]}}

OnlyFirst == {First}
=============================================================================
