---------------------------- MODULE MCAlgorithms ----------------------------
(***************************************************************************)
(* TLC instance of Algorithms.                                             *)
(***************************************************************************)
EXTENDS Algorithms

\* Two authors share a prefix, and two prefixes have none.
MCPrefix == [a \in Author |-> IF a = 3 THEN 3 ELSE 1]

\* The upper half of the prefixes takes one unit more.
MCWidth == [p \in 0..MaxPrefix |-> IF p <= 1 THEN 1 ELSE 2]

ThreeLogs == {<<1, 1>>, <<1, 2>>, <<2, 1>>}

\* Open, closed, and both.
MCLists == {<<0>>, <<1, 3>>, <<0, 1, 2>>}

NoOne == [a \in {} |-> <<0>>]

\* An entry of every scope with every listing, and a small one after it.
WantPairs ==
    LET firsts == {e \in [ch : {1}, lo : 0..MaxPrefix, hi : 0..MaxPrefix, have : Listings] : Accepted(e)}
        seconds == {[ch |-> 2, lo |-> 0, hi |-> MaxPrefix, have |-> h] : h \in {NoOne, [a \in {1} |-> <<0>>]}}
    IN  {<<e, f>> : e \in firsts, f \in seconds}

MCItems == [log : {1, 2}, header : {1, 4}, payload : {0, 2, 5}]

\* Up to three ops, in the order of their logs.
OpLists == {s \in UNION {[1..n -> MCItems] : n \in 0..3} :
    \A k \in DOMAIN s : k + 1 \in DOMAIN s => s[k].log <= s[k + 1].log}
=============================================================================
