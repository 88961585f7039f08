------------------------------- MODULE Ranges -------------------------------
(***************************************************************************)
(* Sets of sequence numbers as lists of boundaries (dash-router-core/src/  *)
(* ranges.rs, Ranges): boundaries at odd positions start a range, those at *)
(* even positions end it, and a list of odd length is open-ended.          *)
(***************************************************************************)
EXTENDS Naturals, Sequences

CONSTANT MaxSeq     \* Seq::MAX

ASSUME MaxSeqAssumption == MaxSeq \in Nat

Seqs == 0..MaxSeq

Ascending(b) == \A j, k \in DOMAIN b : j < k => b[j] < b[k]

\* What from_boundaries accepts.
Boundaries == {b \in UNION {[1..n -> Seqs] : n \in 0..(MaxSeq + 1)} : Ascending(b)}

Odd(n) == n % 2 = 1

IsOpen(b) == Odd(Len(b))

\* n boundaries of b lie at or before s (partition_point).
Reached(b, s, n) == \A k \in DOMAIN b : k <= n <=> b[k] <= s

Has(b, s) == \E n \in 0..Len(b) : Reached(b, s, n) /\ Odd(n)

=============================================================================
