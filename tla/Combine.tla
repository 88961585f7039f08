------------------------------- MODULE Combine ------------------------------
(***************************************************************************)
(* The two loops that build every boundary list (dash-router-core/src/     *)
(* ranges.rs): combine sweeps the merged boundaries of two sets for union, *)
(* intersection, difference and complement, and from_seqs collects single  *)
(* sequence numbers.                                                       *)
(***************************************************************************)
EXTENDS Ranges

VARIABLES
    left, right,    \* the operands of combine
    op,             \* which of its callers runs
    doneL, doneR,   \* boundaries of left and of right that are behind the sweep
    inside,         \* whether the sweep is inside the result
    seqs,           \* what from_seqs is given, sorted and without duplicates
    taken,          \* how many of them it has looked at
    out             \* the list being built

sweptVars == <<left, right, op, doneL, doneR, inside>>
collectVars == <<seqs, taken>>
combineVars == <<left, right, op, doneL, doneR, inside, seqs, taken, out>>

-----------------------------------------------------------------------------
\* combine.

\* The function each caller passes; complement is the difference of Full.
Chosen(a, b) ==
    CASE op = "union"        -> a \/ b
      [] op = "intersection" -> a /\ b
      [] op = "difference"   -> a /\ ~b

Ahead(b, n) == {b[k] : k \in {m \in DOMAIN b : m > n}}

Unswept == Ahead(left, doneL) \cup Ahead(right, doneR)

\* How many boundaries of b are behind the sweep once it has passed p.
Passed(b, n, p) == IF n < Len(b) /\ b[n + 1] = p THEN n + 1 ELSE n

CombineStarts ==
    /\ left \in Boundaries /\ right \in Boundaries
    /\ op \in {"union", "intersection", "difference"}
    /\ doneL = 0 /\ doneR = 0 /\ inside = FALSE
    /\ seqs = <<>> /\ taken = 0
    /\ out = <<>>

\* One turn of the loop.  The lists ascend, so each has p at most once.
SweepBoundary == \E p \in Unswept :
    /\ \A q \in Unswept : p <= q
    /\ doneL' = Passed(left, doneL, p)
    /\ doneR' = Passed(right, doneR, p)
    /\ inside' = Chosen(Odd(doneL'), Odd(doneR'))
    /\ out' = IF inside' # inside THEN Append(out, p) ELSE out
    /\ UNCHANGED <<left, right, op, collectVars>>

-----------------------------------------------------------------------------
\* from_seqs.

CollectStarts ==
    /\ seqs \in Boundaries
    /\ taken = 0
    /\ left = <<>> /\ right = <<>> /\ op = "union"
    /\ doneL = 0 /\ doneR = 0 /\ inside = FALSE
    /\ out = <<>>

\* Mistake: the end of a range is computed with wrapping arithmetic.
ClosedWrapping(b, s) == Append(b, (s + 1) % (MaxSeq + 1))

\* checked_add: past Seq::MAX there is no end, and the range stays open.
Closed(b, s) == IF s = MaxSeq THEN b ELSE Append(b, s + 1)

CollectSeq ==
    /\ taken < Len(seqs)
    /\ LET s == seqs[taken + 1]
       IN  out' = IF out # <<>> /\ ~IsOpen(out) /\ out[Len(out)] = s
                  THEN Closed(SubSeq(out, 1, Len(out) - 1), s)
                  ELSE IF IsOpen(out) THEN out
                  ELSE Closed(Append(out, s), s)
    /\ taken' = taken + 1
    /\ UNCHANGED <<seqs, sweptVars>>

CombineInit == CombineStarts \/ CollectStarts

CombineNext == SweepBoundary \/ CollectSeq

CombineSpec == CombineInit /\ [][CombineNext]_combineVars

-----------------------------------------------------------------------------
\* Properties.

\* Whether s has been decided: a boundary not yet swept, or a number not yet
\* taken, may still concern it.
Decided(s) ==
    /\ \A p \in Unswept : s < p
    /\ \A k \in DOMAIN seqs : k > taken => s < seqs[k]

\* Membership as the operands, or the numbers given, have it.
Expected(s) ==
    \/ Chosen(Has(left, s), Has(right, s))
    \/ \E k \in DOMAIN seqs : seqs[k] = s

\* The list built is exact and canonical: at every turn of either loop it
\* ascends, so that from_boundaries would take it, and says of every number
\* already decided what the operation says of it; Seq::MAX, that has no
\* successor, is one of them.
RangesExact ==
    /\ Ascending(out)
    /\ \A s \in Seqs : Decided(s) => (Has(out, s) <=> Expected(s))

=============================================================================
