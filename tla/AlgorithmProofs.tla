-------------------------- MODULE AlgorithmProofs --------------------------
(***************************************************************************)
(* The sequential algorithms: the walk of covered_by over sorted scopes    *)
(* decides containment, for every prefix width, every target and every     *)
(* list of seen scopes; the boundary lists that combine and from_seqs      *)
(* build are exact and canonical, for every Seq::MAX and for operands of   *)
(* any length; the nested maps of a LogRanges are the flat sets they stand *)
(* for, whatever operations made them; the messages that Haves and Wants   *)
(* are packed into fit their budget and lose nothing unaccounted for,      *)
(* whatever is packed.                                                     *)
(***************************************************************************)
EXTENDS ScopeSweep, Combine, LogRanges, PackWant, PackHave, SequenceTheorems, FiniteSetTheorems, TLAPS

-----------------------------------------------------------------------------
\* The walk over scopes.

\* The invariant holds before the first turn of the walk.
LEMMA SweepInitInv == SweepInit => SweepInv
<1> SUFFICES ASSUME SweepInit PROVE SweepInv
  OBVIOUS
<1> USE PrefixAssumption, MaxScopesAssumption
<1>1. PICK n \in 1..MaxScopes : scopes \in [1..n -> Scope]
  BY DEF SweepInit
<1>2. scopes \in Seq(Scope) /\ Len(scopes) = n
  BY <1>1
<1>3. target \in Scope /\ target.lo \in 0..MaxPrefix /\ target.hi \in 0..MaxPrefix
      /\ target.lo <= target.hi
  BY DEF SweepInit, Scope
<1>4. SweepTypeOK
  <2>1. need \in {Satisfied} \cup (0..MaxPrefix)
    BY <1>3 DEF SweepInit
  <2>2. next \in 1..(Len(scopes) + 1) /\ Len(scopes) <= MaxScopes
    BY <1>1, <1>2 DEF SweepInit
  <2> QED
    BY <1>2, <1>3, <2>1, <2>2 DEF SweepInit, SweepTypeOK
<1>5. need = target.lo /\ need # Satisfied /\ next = 1 /\ ~done
  BY <1>3 DEF SweepInit, Satisfied
<1>6. \A j \in DOMAIN scopes : ~(j < next)
  BY <1>2, <1>5
<1> QED
  BY <1>3, <1>4, <1>5, <1>6 DEF SweepInv

\* A turn of the walk preserves the invariant.
LEMMA SweepAdvanceInv == SweepInv /\ Advance => SweepInv'
<1> SUFFICES ASSUME SweepInv, Advance PROVE SweepInv'
  OBVIOUS
<1> USE PrefixAssumption, MaxScopesAssumption
<1> DEFINE s == scopes[next]
<1>1. /\ next \in 1..Len(scopes) /\ next \in DOMAIN scopes
      /\ s \in Scope /\ s.lo \in 0..MaxPrefix /\ s.hi \in 0..MaxPrefix
      /\ target \in Scope /\ target.lo \in 0..MaxPrefix /\ target.hi \in 0..MaxPrefix
      /\ need \in 0..MaxPrefix /\ need # Satisfied /\ s.lo <= need
      /\ target.lo <= need /\ need <= target.hi
  BY DEF SweepInv, SweepTypeOK, Advance, Scope, Satisfied
<1>2. /\ target' = target /\ scopes' = scopes /\ done' = done /\ ~done
      /\ next' = next + 1 /\ SeenScopes' = SeenScopes /\ s \in SeenScopes
  BY <1>1 DEF Advance, SeenScopes
<1>3. \A p \in target.lo..(need - 1) : \E t \in SeenScopes : t.lo <= p /\ p <= t.hi
  BY <1>1 DEF SweepInv
<1>4. \A p \in need..s.hi : s.lo <= p /\ p <= s.hi
  BY <1>1
<1>5. SweepTypeOK'
  <2>1. need' \in {Satisfied} \cup (0..MaxPrefix)
    BY <1>1 DEF Advance
  <2>2. next' \in 1..(Len(scopes) + 1)
    BY <1>1, <1>2 DEF SweepInv, SweepTypeOK
  <2> QED
    BY <1>2, <2>1, <2>2 DEF SweepInv, SweepTypeOK, Sorted
<1>6. CASE s.hi < need
  <2>1. need' = need
    BY <1>6 DEF Advance
  <2>2. \A j \in DOMAIN scopes : j < next + 1 => scopes[j].hi < need
    BY <1>1, <1>6 DEF SweepInv
  <2> QED
    BY <1>1, <1>2, <1>3, <1>5, <2>1, <2>2 DEF SweepInv
<1>7. CASE ~(s.hi < need) /\ s.hi >= target.hi
  <2>1. need' = Satisfied
    BY <1>7 DEF Advance
  <2>2. \A p \in target.lo..target.hi : \E t \in SeenScopes : t.lo <= p /\ p <= t.hi
    <3> TAKE p \in target.lo..target.hi
    <3>1. CASE p < need
      BY <1>1, <1>3, <3>1
    <3>2. CASE p >= need
      BY <1>1, <1>2, <1>4, <1>7, <3>2
    <3> QED
      BY <1>1, <3>1, <3>2
  <2>3. ScopesCover(target, SeenScopes)'
    BY <1>2, <2>2 DEF ScopesCover
  <2> QED
    BY <1>5, <2>1, <2>3 DEF SweepInv
<1>8. CASE ~(s.hi < need) /\ ~(s.hi >= target.hi)
  <2>1. need' = s.hi + 1 /\ need' # Satisfied
    BY <1>1, <1>8 DEF Advance, Satisfied
  <2>2. target.lo <= need' /\ need' <= target.hi
    BY <1>1, <1>8, <2>1
  <2>3. \A j \in DOMAIN scopes : j < next + 1 => scopes[j].hi < need'
    <3> SUFFICES ASSUME NEW j \in DOMAIN scopes, j < next + 1
                 PROVE  scopes[j].hi < need'
      OBVIOUS
    <3>1. j \in 1..Len(scopes) /\ scopes[j] \in Scope /\ scopes[j].hi \in 0..MaxPrefix
      BY DEF SweepInv, SweepTypeOK, Scope
    <3>2. CASE j < next
      <4>1. scopes[j].hi < need
        BY <1>1, <3>2 DEF SweepInv
      <4> QED
        BY <1>1, <1>8, <2>1, <3>1, <4>1
    <3>3. CASE j = next
      BY <1>1, <2>1, <3>3
    <3> QED
      BY <1>1, <3>1, <3>2, <3>3
  <2>4. \A p \in target.lo..(need' - 1) : \E t \in SeenScopes : t.lo <= p /\ p <= t.hi
    <3> TAKE p \in target.lo..(need' - 1)
    <3>1. CASE p < need
      BY <1>1, <1>3, <3>1
    <3>2. CASE p >= need
      BY <1>1, <1>2, <1>4, <2>1, <3>2
    <3> QED
      BY <1>1, <2>1, <3>1, <3>2
  <2> QED
    BY <1>2, <1>5, <2>1, <2>2, <2>3, <2>4 DEF SweepInv
<1> QED
  BY <1>6, <1>7, <1>8

\* The end of the walk preserves the invariant.
LEMMA SweepStopInv == SweepInv /\ Stop => SweepInv'
<1> SUFFICES ASSUME SweepInv, Stop PROVE SweepInv'
  OBVIOUS
<1>1. /\ target' = target /\ scopes' = scopes /\ next' = next /\ need' = need
      /\ SeenScopes' = SeenScopes
  BY DEF Stop, SeenScopes
<1>2. SweepTypeOK'
  BY <1>1 DEF SweepInv, SweepTypeOK, Stop
<1>3. need = Satisfied => ScopesCover(target, SeenScopes)'
  BY <1>1 DEF SweepInv, ScopesCover
<1>4. need # Satisfied /\ next <= Len(scopes) => scopes[next].lo > need
  BY DEF Stop
<1> QED
  BY <1>1, <1>2, <1>3, <1>4 DEF SweepInv

\* At the end of the walk, an unsatisfied need is a prefix no scope contains.
LEMMA SweepInvDecides == SweepInv => SweepIsCover
<1> SUFFICES ASSUME SweepInv, done, need # Satisfied
             PROVE  ~ScopesCover(target, SeenScopes)
  BY DEF SweepInv, SweepIsCover
<1> USE PrefixAssumption
<1>1. /\ need \in 0..MaxPrefix /\ need \in target.lo..target.hi
      /\ next \in 1..(Len(scopes) + 1) /\ Len(scopes) \in Nat
      /\ DOMAIN scopes = 1..Len(scopes)
  BY DEF SweepInv, SweepTypeOK, Satisfied, Scope
<1>2. ASSUME NEW j \in DOMAIN scopes
      PROVE  ~(scopes[j].lo <= need /\ need <= scopes[j].hi)
  <2>1. scopes[j] \in Scope /\ scopes[j].lo \in 0..MaxPrefix /\ scopes[j].hi \in 0..MaxPrefix
    BY DEF SweepInv, SweepTypeOK, Scope
  <2>2. CASE j < next
    BY <1>1, <2>1, <2>2 DEF SweepInv
  <2>3. CASE j >= next
    <3>1. next \in DOMAIN scopes /\ next <= Len(scopes)
      BY <1>1, <2>3
    <3>2. scopes[next] \in Scope /\ scopes[next].lo \in 0..MaxPrefix
      BY <3>1 DEF SweepInv, SweepTypeOK, Scope
    <3>3. scopes[next].lo > need
      BY <3>1 DEF SweepInv
    <3>4. scopes[next].lo <= scopes[j].lo
      <4>1. CASE j = next
        BY <2>1, <4>1
      <4>2. CASE next < j
        <5>1. NotAfter(scopes[next], scopes[j])
          BY <3>1, <4>2 DEF SweepInv, SweepTypeOK, Sorted
        <5> QED
          BY <2>1, <3>2, <5>1 DEF NotAfter
      <4> QED
        BY <1>1, <2>3, <4>1, <4>2
    <3> QED
      BY <1>1, <2>1, <3>2, <3>3, <3>4
  <2> QED
    BY <1>1, <2>2, <2>3
<1> QED
  BY <1>1, <1>2 DEF ScopesCover, SeenScopes

\* The verdict of the walk is containment of scopes (interest.rs, step 1 of
\* covered_by), and the needed prefix never leaves the prefix width.
THEOREM SweepCorrect == SweepSpec => [](SweepTypeOK /\ SweepIsCover)
<1>1. SweepInv /\ UNCHANGED sweepVars => SweepInv'
  BY DEF SweepInv, SweepTypeOK, sweepVars, SeenScopes, ScopesCover
<1>2. SweepInv /\ [SweepNext]_sweepVars => SweepInv'
  BY <1>1, SweepAdvanceInv, SweepStopInv DEF SweepNext
<1>3. SweepInv => SweepTypeOK
  BY DEF SweepInv
<1> QED
  BY <1>2, <1>3, SweepInitInv, SweepInvDecides, PTL DEF SweepSpec

-----------------------------------------------------------------------------
\* Boundary lists.

\* A boundary list is a finite ascending list of sequence numbers.
LEMMA BoundariesAreLists ==
  ASSUME NEW b \in Boundaries
  PROVE  b \in Seq(Seqs) /\ Len(b) \in Nat /\ DOMAIN b = 1..Len(b) /\ Ascending(b)
<1>1. PICK n \in 0..(MaxSeq + 1) : b \in [1..n -> Seqs]
  BY DEF Boundaries
<1>2. n \in Nat
  BY MaxSeqAssumption
<1>3. b \in Seq(Seqs)
  BY <1>1, <1>2
<1> QED
  BY <1>3 DEF Boundaries

\* The empty list is one of them.
LEMMA EmptyIsBoundaries == <<>> \in Boundaries
<1>1. <<>> \in [1..0 -> Seqs] /\ 0 \in 0..(MaxSeq + 1)
  BY MaxSeqAssumption
<1> QED
  BY <1>1 DEF Boundaries, Ascending

\* The number of boundaries at or before s is unique.
LEMMA ReachedOnce ==
  ASSUME NEW b \in Seq(Seqs), NEW s \in Seqs,
         NEW n \in 0..Len(b), NEW m \in 0..Len(b), Reached(b, s, n), Reached(b, s, m)
  PROVE  n = m
<1>1. ~(n < m)
  <2> SUFFICES ASSUME n < m PROVE FALSE
    OBVIOUS
  <2>1. n + 1 \in DOMAIN b
    OBVIOUS
  <2> QED
    BY <2>1 DEF Reached
<1>2. ~(m < n)
  <2> SUFFICES ASSUME m < n PROVE FALSE
    OBVIOUS
  <2>1. m + 1 \in DOMAIN b
    OBVIOUS
  <2> QED
    BY <2>1 DEF Reached
<1> QED
  BY <1>1, <1>2

\* Where the sweep stands at s, the parity of what is behind it decides.
LEMMA HasByParity ==
  ASSUME NEW b \in Seq(Seqs), NEW s \in Seqs, NEW n \in 0..Len(b), Reached(b, s, n)
  PROVE  Has(b, s) <=> Odd(n)
  BY ReachedOnce DEF Has

\* A number at or past the last boundary is in the set if the set is open.
LEMMA HasAtEnd ==
  ASSUME NEW b \in Seq(Seqs), NEW s \in Seqs, \A k \in DOMAIN b : b[k] <= s
  PROVE  Has(b, s) <=> IsOpen(b)
<1>1. Len(b) \in 0..Len(b) /\ Reached(b, s, Len(b))
  BY DEF Reached
<1> QED
  BY <1>1, HasByParity DEF IsOpen

\* A number before the first boundary is not in the set.
LEMMA HasNotBefore ==
  ASSUME NEW b \in Seq(Seqs), NEW s \in Seqs, \A k \in DOMAIN b : s < b[k]
  PROVE  ~Has(b, s)
<1>1. \A k \in DOMAIN b : k \in Nat /\ ~(k <= 0) /\ b[k] \in Nat /\ ~(b[k] <= s)
  BY MaxSeqAssumption DEF Seqs
<1>2. 0 \in 0..Len(b) /\ Reached(b, s, 0)
  BY <1>1 DEF Reached
<1> QED
  BY <1>2, HasByParity DEF Odd

\* Another boundary at the end says nothing about the numbers before it.
LEMMA AppendSaysNothingBefore ==
  ASSUME NEW b \in Seq(Seqs), NEW p \in Seqs, NEW s \in Seqs, s < p
  PROVE  Has(Append(b, p), s) <=> Has(b, s)
<1> DEFINE c == Append(b, p)
<1>1. /\ c \in Seq(Seqs) /\ Len(c) = Len(b) + 1 /\ DOMAIN c = 1..Len(c)
      /\ \A k \in DOMAIN b : c[k] = b[k] /\ k \in DOMAIN c
      /\ c[Len(c)] = p
  BY AppendProperties
<1>2. \A n \in 0..Len(b) : Reached(c, s, n) <=> Reached(b, s, n)
  <2> SUFFICES ASSUME NEW n \in 0..Len(b) PROVE Reached(c, s, n) <=> Reached(b, s, n)
    OBVIOUS
  <2>1. \A k \in DOMAIN c : k \in DOMAIN b \/ k = Len(c)
    BY <1>1
  <2>2. ~(Len(c) <= n) /\ ~(c[Len(c)] <= s)
    BY <1>1 DEF Seqs
  <2> QED
    BY <1>1, <2>1, <2>2 DEF Reached
<1>3. ~Reached(c, s, Len(c))
  <2>1. Len(c) \in DOMAIN c /\ Len(c) <= Len(c) /\ ~(c[Len(c)] <= s)
    BY <1>1 DEF Seqs
  <2> QED
    BY <2>1 DEF Reached
<1>4. \A n \in 0..Len(c) : n \in 0..Len(b) \/ n = Len(c)
  BY <1>1
<1>5. 0..Len(b) \subseteq 0..Len(c)
  BY <1>1
<1> HIDE DEF c
<1> QED
  BY <1>2, <1>3, <1>4, <1>5 DEF Has, c

\* A boundary beyond all others keeps the list ascending.
LEMMA AppendAscends ==
  ASSUME NEW b \in Seq(Seqs), Ascending(b), NEW p \in Seqs, \A k \in DOMAIN b : b[k] < p
  PROVE  /\ Append(b, p) \in Seq(Seqs) /\ Ascending(Append(b, p))
         /\ Len(Append(b, p)) = Len(b) + 1
         /\ \A k \in DOMAIN Append(b, p) : Append(b, p)[k] <= p
<1> DEFINE c == Append(b, p)
<1>1. /\ c \in Seq(Seqs) /\ Len(c) = Len(b) + 1 /\ DOMAIN c = 1..Len(c)
      /\ \A k \in DOMAIN b : c[k] = b[k]
      /\ c[Len(c)] = p
  BY AppendProperties
<1>2. \A k \in DOMAIN c : k \in DOMAIN b \/ k = Len(c)
  BY <1>1
<1>3. \A j, k \in DOMAIN c : j < k => j \in DOMAIN b
  BY <1>1
<1>4. Ascending(c)
  BY <1>1, <1>2, <1>3 DEF Ascending
<1>5. \A k \in DOMAIN c : c[k] <= p
  BY <1>1, <1>2, MaxSeqAssumption DEF Seqs
<1> QED
  BY <1>1, <1>4, <1>5

\* The next number has the other parity.
LEMMA ParityTurns == ASSUME NEW n \in Nat PROVE Odd(n + 1) <=> ~Odd(n)
  BY DEF Odd

-----------------------------------------------------------------------------
\* The two loops.

\* combine: what is behind the sweep is smaller than what is ahead of it, and
\* the sweep is inside the result exactly when the list is open.
Sweeping ==
    /\ left \in Boundaries /\ right \in Boundaries
    /\ op \in {"union", "intersection", "difference"}
    /\ doneL \in 0..Len(left) /\ doneR \in 0..Len(right)
    /\ inside \in BOOLEAN
    /\ inside <=> IsOpen(out)
    /\ inside <=> Chosen(Odd(doneL), Odd(doneR))
    /\ \A p \in Unswept :
         /\ \A k \in 1..doneL : left[k] < p
         /\ \A k \in 1..doneR : right[k] < p
         /\ \A k \in DOMAIN out : out[k] < p
    /\ seqs = <<>> /\ taken = 0

\* from_seqs: what is built does not pass the next number, and only a list that
\* has Seq::MAX, the last there is, is open.
Collecting ==
    /\ left = <<>> /\ right = <<>> /\ op = "union" /\ doneL = 0 /\ doneR = 0
    /\ seqs \in Boundaries
    /\ taken \in 0..Len(seqs)
    /\ \A k \in DOMAIN out : \A j \in DOMAIN seqs : j > taken => out[k] <= seqs[j]
    /\ IsOpen(out) => taken = Len(seqs)

CombineInv ==
    /\ out \in Seq(Seqs)
    /\ Sweeping \/ Collecting
    /\ RangesExact

\* Each operation says of two memberships what it says of equal ones.
LEMMA ChosenAlike ==
  ASSUME op \in {"union", "intersection", "difference"},
         NEW a, NEW b, NEW c, NEW d, a <=> c, b <=> d
  PROVE  Chosen(a, b) <=> Chosen(c, d)
<1>1. CASE op = "union"
  BY <1>1 DEF Chosen
<1>2. CASE op = "intersection"
  BY <1>2 DEF Chosen
<1>3. CASE op = "difference"
  BY <1>3 DEF Chosen
<1> QED
  BY <1>1, <1>2, <1>3

\* None of them has what neither operand has: f(false, false) is false.
LEMMA ChosenOfNone ==
  ASSUME op \in {"union", "intersection", "difference"},
         NEW a, NEW b, ~a, ~b
  PROVE  ~Chosen(a, b)
<1>1. CASE op = "union"
  BY <1>1 DEF Chosen
<1>2. CASE op = "intersection"
  BY <1>2 DEF Chosen
<1>3. CASE op = "difference"
  BY <1>3 DEF Chosen
<1> QED
  BY <1>1, <1>2, <1>3

\* Nothing is in the empty list.
LEMMA HasNothing == ASSUME NEW s \in Seqs PROVE ~Has(<<>>, s)
<1>1. <<>> \in Seq(Seqs) /\ \A k \in DOMAIN <<>> : s < <<>>[k]
  OBVIOUS
<1> QED
  BY <1>1, HasNotBefore

\* Both loops start with the invariant.
LEMMA CombineInitInv == CombineInit => CombineInv
<1> SUFFICES ASSUME CombineInit PROVE CombineInv
  OBVIOUS
<1>1. out = <<>> /\ out \in Seq(Seqs) /\ Ascending(out) /\ ~IsOpen(out) /\ DOMAIN out = {}
  <2>1. out = <<>>
    BY DEF CombineInit, CombineStarts, CollectStarts
  <2>2. <<>> \in Seq(Seqs) /\ DOMAIN <<>> = {} /\ Len(<<>>) = 0
    OBVIOUS
  <2>3. ~Odd(0)
    BY DEF Odd
  <2>4. Ascending(<<>>)
    BY <2>2 DEF Ascending
  <2> QED
    BY <2>1, <2>2, <2>3, <2>4 DEF IsOpen
<1>2. CASE CombineStarts
  <2>1. /\ left \in Seq(Seqs) /\ right \in Seq(Seqs)
        /\ op \in {"union", "intersection", "difference"}
        /\ doneL = 0 /\ doneR = 0 /\ inside = FALSE /\ seqs = <<>>
    BY <1>2, BoundariesAreLists DEF CombineStarts
  <2>2. ~Odd(doneL) /\ ~Odd(doneR)
    BY <2>1 DEF Odd
  <2>3. Sweeping
    <3>1. ~Chosen(Odd(doneL), Odd(doneR))
      BY <2>1, <2>2, ChosenOfNone
    <3>2. doneL \in 0..Len(left) /\ doneR \in 0..Len(right) /\ 1..doneL = {} /\ 1..doneR = {}
      BY <2>1
    <3> QED
      BY <1>1, <1>2, <2>1, <3>1, <3>2 DEF Sweeping, CombineStarts
  <2>4. ASSUME NEW s \in Seqs, Decided(s) PROVE Has(out, s) <=> Expected(s)
    <3>1. \A k \in DOMAIN left : left[k] \in Unswept
      BY <2>1 DEF Unswept, Ahead
    <3>2. \A k \in DOMAIN right : right[k] \in Unswept
      BY <2>1 DEF Unswept, Ahead
    <3>3. ~Has(left, s) /\ ~Has(right, s)
      BY <2>1, <2>4, <3>1, <3>2, HasNotBefore DEF Decided
    <3>4. ~Chosen(Has(left, s), Has(right, s))
      BY <2>1, <3>3, ChosenOfNone
    <3> QED
      BY <1>1, <2>1, <3>4, HasNothing DEF Expected
  <2> QED
    BY <1>1, <2>3, <2>4 DEF CombineInv, RangesExact
<1>3. CASE CollectStarts
  <2>1. seqs \in Seq(Seqs) /\ taken = 0 /\ op = "union" /\ left = <<>> /\ right = <<>>
    BY <1>3, BoundariesAreLists DEF CollectStarts
  <2>2. Collecting
    BY <1>1, <1>3, <2>1 DEF Collecting, CollectStarts
  <2>3. ASSUME NEW s \in Seqs, Decided(s) PROVE Has(out, s) <=> Expected(s)
    <3>1. ~Chosen(Has(left, s), Has(right, s))
      BY <2>1, HasNothing, ChosenOfNone
    <3>2. \A k \in DOMAIN seqs : seqs[k] # s
      BY <2>1, <2>3, MaxSeqAssumption DEF Decided, Seqs
    <3> QED
      BY <1>1, <3>1, <3>2, HasNothing DEF Expected
  <2> QED
    BY <1>1, <2>2, <2>3 DEF CombineInv, RangesExact
<1> QED
  BY <1>2, <1>3 DEF CombineInit

\* One operand as the sweep passes p, the least boundary ahead of it: what is
\* then ahead is past p, what is behind is not.
LEMMA PassingBoundary ==
  ASSUME NEW b \in Boundaries, NEW n \in 0..Len(b), NEW p \in Seqs,
         \A q \in Ahead(b, n) : p <= q,
         \A k \in 1..n : b[k] < p
  PROVE  LET m == Passed(b, n, p)
         IN  /\ m \in 0..Len(b)
             /\ \A k \in 1..m : b[k] <= p
             /\ \A q \in Ahead(b, m) : p < q /\ q \in Ahead(b, n)
             /\ \A k \in DOMAIN b : k > m => p < b[k]
<1> DEFINE m == Passed(b, n, p)
<1>1. /\ b \in Seq(Seqs) /\ Len(b) \in Nat /\ DOMAIN b = 1..Len(b) /\ Ascending(b)
      /\ \A k \in DOMAIN b : b[k] \in Nat
  BY BoundariesAreLists, MaxSeqAssumption DEF Seqs
<1>2. p \in Nat /\ n \in Nat
  BY MaxSeqAssumption DEF Seqs
<1>3. \A k \in DOMAIN b : k > n => p <= b[k]
  BY DEF Ahead
<1>4. CASE n < Len(b) /\ b[n + 1] = p
  <2>1. m = n + 1 /\ n + 1 \in DOMAIN b
    BY <1>1, <1>2, <1>4 DEF Passed
  <2>2. \A k \in 1..m : b[k] <= p
    <3>1. \A k \in 1..m : k \in 1..n \/ k = n + 1
      BY <1>2, <2>1
    <3> QED
      BY <1>1, <1>2, <1>4, <2>1, <3>1
  <2>3. \A k \in DOMAIN b : k > m => p < b[k] /\ k > n
    BY <1>1, <1>2, <1>4, <2>1 DEF Ascending
  <2> QED
    BY <1>1, <1>2, <2>1, <2>2, <2>3 DEF Ahead
<1>5. CASE ~(n < Len(b) /\ b[n + 1] = p)
  <2>1. m = n
    BY <1>5 DEF Passed
  <2>2. \A k \in 1..m : b[k] <= p
    BY <1>1, <1>2, <2>1
  <2>3. ASSUME NEW k \in DOMAIN b, k > n PROVE p < b[k]
    <3>1. n < Len(b) /\ n + 1 \in DOMAIN b /\ k \in Nat
      BY <1>1, <1>2, <2>3
    <3>2. p <= b[n + 1] /\ b[n + 1] # p
      BY <1>2, <1>3, <1>5, <3>1
    <3>3. k = n + 1 \/ b[n + 1] < b[k]
      BY <1>1, <1>2, <2>3, <3>1 DEF Ascending
    <3> QED
      BY <1>1, <1>2, <3>1, <3>2, <3>3
  <2> QED
    BY <1>1, <1>2, <2>1, <2>2, <2>3 DEF Ahead
<1> QED
  BY <1>4, <1>5

\* What the parity behind the sweep says of a number at or past p and before
\* every boundary still ahead.
LEMMA HasBehindSweep ==
  ASSUME NEW b \in Seq(Seqs), NEW m \in 0..Len(b), NEW s \in Seqs,
         \A k \in 1..m : b[k] <= s,
         \A k \in DOMAIN b : k > m => s < b[k]
  PROVE  Has(b, s) <=> Odd(m)
<1>1. \A k \in DOMAIN b : k \in Nat /\ 1 <= k /\ b[k] \in Nat /\ s \in Nat
  BY MaxSeqAssumption DEF Seqs
<1>2. Reached(b, s, m)
  BY <1>1 DEF Reached
<1> QED
  BY <1>2, HasByParity

\* A turn of combine preserves the invariant.
LEMMA SweepBoundaryInv == CombineInv /\ SweepBoundary => CombineInv'
<1> SUFFICES ASSUME CombineInv, SweepBoundary PROVE CombineInv'
  OBVIOUS
<1>1. PICK p \in Unswept :
        /\ \A q \in Unswept : p <= q
        /\ doneL' = Passed(left, doneL, p)
        /\ doneR' = Passed(right, doneR, p)
        /\ inside' = Chosen(Odd(doneL'), Odd(doneR'))
        /\ out' = IF inside' # inside THEN Append(out, p) ELSE out
        /\ UNCHANGED <<left, right, op, seqs, taken>>
  BY DEF SweepBoundary, collectVars
<1>2. Sweeping
  <2>1. Collecting => Unswept = {}
    BY DEF Collecting, Unswept, Ahead
  <2> QED
    BY <1>1, <2>1 DEF CombineInv
<1>3. /\ left \in Seq(Seqs) /\ right \in Seq(Seqs) /\ left \in Boundaries /\ right \in Boundaries
      /\ doneL \in 0..Len(left) /\ doneR \in 0..Len(right)
      /\ out \in Seq(Seqs) /\ Ascending(out) /\ \A k \in DOMAIN out : out[k] < p
  BY <1>1, <1>2, BoundariesAreLists DEF Sweeping, CombineInv, RangesExact
<1>4. p \in Seqs /\ p \in Nat
  BY <1>3, MaxSeqAssumption DEF Unswept, Ahead, Seqs
<1>5. /\ doneL' \in 0..Len(left)
      /\ \A k \in 1..doneL' : left[k] <= p
      /\ \A q \in Ahead(left, doneL') : p < q /\ q \in Ahead(left, doneL)
      /\ \A k \in DOMAIN left : k > doneL' => p < left[k]
  BY <1>1, <1>2, <1>3, <1>4, PassingBoundary DEF Sweeping, Unswept
<1>6. /\ doneR' \in 0..Len(right)
      /\ \A k \in 1..doneR' : right[k] <= p
      /\ \A q \in Ahead(right, doneR') : p < q /\ q \in Ahead(right, doneR)
      /\ \A k \in DOMAIN right : k > doneR' => p < right[k]
  BY <1>1, <1>2, <1>3, <1>4, PassingBoundary DEF Sweeping, Unswept
<1>7. Unswept' = Ahead(left, doneL') \cup Ahead(right, doneR')
  BY <1>1 DEF Unswept, Ahead
<1>8. \A q \in Unswept' : p < q /\ q \in Unswept /\ q \in Nat
  <2>1. \A q \in Unswept : q \in Nat
    BY <1>3, MaxSeqAssumption DEF Unswept, Ahead, Seqs
  <2>2. \A q \in Unswept' : p < q /\ q \in Unswept
    BY <1>5, <1>6, <1>7 DEF Unswept
  <2> QED
    BY <2>1, <2>2
<1>9. /\ Append(out, p) \in Seq(Seqs) /\ Ascending(Append(out, p))
      /\ Len(Append(out, p)) = Len(out) + 1
      /\ \A k \in DOMAIN Append(out, p) : Append(out, p)[k] <= p
  BY <1>3, <1>4, AppendAscends
<1>10. /\ out' \in Seq(Seqs) /\ Ascending(out')
       /\ \A k \in DOMAIN out' : out'[k] <= p /\ out'[k] \in Nat
  <2>1. \A k \in DOMAIN out : out[k] <= p
    BY <1>3, <1>4, MaxSeqAssumption DEF Seqs
  <2>2. out' \in Seq(Seqs) /\ Ascending(out') /\ \A k \in DOMAIN out' : out'[k] <= p
    BY <1>1, <1>3, <1>9, <2>1
  <2> QED
    BY <2>2, MaxSeqAssumption DEF Seqs
<1>11. inside' \in BOOLEAN /\ (inside' <=> IsOpen(out'))
  <2>1. inside \in BOOLEAN /\ (inside <=> Odd(Len(out))) /\ Len(out) \in Nat
    BY <1>2, <1>3 DEF Sweeping, IsOpen
  <2>2. inside' \in BOOLEAN
    BY <1>1, <1>2 DEF Sweeping, Chosen
  <2>3. CASE inside' = inside
    BY <1>1, <2>1, <2>3 DEF IsOpen
  <2>4. CASE inside' # inside
    BY <1>1, <1>9, <2>1, <2>2, <2>4, ParityTurns DEF IsOpen
  <2> QED
    BY <2>2, <2>3, <2>4
<1>12. Sweeping'
  <2>1. \A q \in Unswept' : /\ \A k \in 1..doneL' : left[k] < q
                            /\ \A k \in 1..doneR' : right[k] < q
                            /\ \A k \in DOMAIN out' : out'[k] < q
    <3>1. \A k \in 1..doneL' : left[k] \in Nat
      BY <1>3, <1>5, MaxSeqAssumption DEF Seqs
    <3>2. \A k \in 1..doneR' : right[k] \in Nat
      BY <1>3, <1>6, MaxSeqAssumption DEF Seqs
    <3> QED
      BY <1>4, <1>5, <1>6, <1>8, <1>10, <3>1, <3>2
  <2>2. inside' <=> Chosen(Odd(doneL), Odd(doneR))'
    BY <1>1 DEF Chosen, Odd
  <2> QED
    BY <1>1, <1>2, <1>3, <1>5, <1>6, <1>11, <2>1, <2>2 DEF Sweeping
<1>13. ASSUME NEW s \in Seqs, Decided(s)' PROVE Has(out', s) <=> Expected(s)'
  <2>1. s \in Nat /\ \A q \in Unswept' : s < q
    BY <1>13, MaxSeqAssumption DEF Decided, Seqs
  <2>2. Expected(s)' <=> Chosen(Has(left, s), Has(right, s))
    BY <1>1, <1>2 DEF Expected, Sweeping, Chosen
  <2>3. CASE s < p
    <3>1. Decided(s)
      <4>1. \A q \in Unswept : q \in Nat
        BY <1>3, MaxSeqAssumption DEF Unswept, Ahead, Seqs
      <4>2. \A q \in Unswept : s < q
        BY <1>1, <1>4, <2>1, <2>3, <4>1
      <4>3. DOMAIN seqs = {}
        BY <1>2 DEF Sweeping
      <4> QED
        BY <4>2, <4>3 DEF Decided
    <3>2. Has(out, s) <=> Chosen(Has(left, s), Has(right, s))
      BY <1>2, <3>1 DEF CombineInv, RangesExact, Expected, Sweeping
    <3>3. Has(out', s) <=> Has(out, s)
      BY <1>1, <1>3, <1>4, <2>3, AppendSaysNothingBefore
    <3> QED
      BY <2>2, <3>2, <3>3
  <2>4. CASE p <= s
    <3>1. Has(left, s) <=> Odd(doneL')
      <4>1. \A k \in 1..doneL' : left[k] <= s
        BY <1>3, <1>4, <1>5, <2>1, <2>4, MaxSeqAssumption DEF Seqs
      <4>2. \A k \in DOMAIN left : k > doneL' => s < left[k]
        BY <1>7, <2>1 DEF Ahead
      <4> QED
        BY <1>3, <1>5, <4>1, <4>2, HasBehindSweep
    <3>2. Has(right, s) <=> Odd(doneR')
      <4>1. \A k \in 1..doneR' : right[k] <= s
        BY <1>3, <1>4, <1>6, <2>1, <2>4, MaxSeqAssumption DEF Seqs
      <4>2. \A k \in DOMAIN right : k > doneR' => s < right[k]
        BY <1>7, <2>1 DEF Ahead
      <4> QED
        BY <1>3, <1>6, <4>1, <4>2, HasBehindSweep
    <3>3. Has(out', s) <=> IsOpen(out')
      BY <1>4, <1>10, <2>1, <2>4, HasAtEnd
    <3>4. Chosen(Has(left, s), Has(right, s)) <=> Chosen(Odd(doneL'), Odd(doneR'))
      BY <1>2, <3>1, <3>2, ChosenAlike DEF Sweeping
    <3> QED
      BY <1>1, <1>11, <2>2, <3>3, <3>4
  <2> QED
    BY <1>4, <2>1, <2>3, <2>4
<1> QED
  BY <1>10, <1>12, <1>13 DEF CombineInv, RangesExact

\* A list without its last boundary; with it again it is the list.
LEMMA FrontOfList ==
  ASSUME NEW b \in Seq(Seqs), b # <<>>
  PROVE  LET f == SubSeq(b, 1, Len(b) - 1)
         IN  /\ f \in Seq(Seqs) /\ Len(b) = Len(f) + 1
             /\ \A k \in DOMAIN f : f[k] = b[k] /\ k \in DOMAIN b /\ k < Len(b)
             /\ b = Append(f, b[Len(b)])
<1> DEFINE f == SubSeq(b, 1, Len(b) - 1)
           c == Append(f, b[Len(b)])
<1>1. Len(b) \in Nat /\ Len(b) > 0 /\ b[Len(b)] \in Seqs
  OBVIOUS
<1>2. /\ f \in Seq(Seqs) /\ Len(f) = Len(b) - 1
      /\ \A k \in DOMAIN f : f[k] = b[k]
  <2>1. \A i \in 1..(Len(b) - 1) : b[i] \in Seqs
    BY <1>1
  <2>2. 1 \in Int /\ Len(b) - 1 \in Int
    BY <1>1
  <2>3. /\ f \in Seq(Seqs)
        /\ Len(f) = IF 1 <= Len(b) - 1 THEN (Len(b) - 1) - 1 + 1 ELSE 0
        /\ \A i \in 1..((Len(b) - 1) - 1 + 1) : f[i] = b[1 + i - 1]
    BY <2>1, <2>2, SubSeqProperties
  <2> HIDE DEF f
  <2>4. Len(f) = Len(b) - 1
    <3>1. \A n \in Nat : n > 0 => n - 1 = IF 1 <= n - 1 THEN (n - 1) - 1 + 1 ELSE 0
      OBVIOUS
    <3> QED
      BY <1>1, <2>3, <3>1
  <2>5. \A k \in 1..(Len(b) - 1) : k \in 1..((Len(b) - 1) - 1 + 1) /\ 1 + k - 1 = k
    BY <1>1
  <2>6. \A k \in DOMAIN f : k \in 1..(Len(b) - 1)
    BY <2>3, <2>4
  <2> QED
    BY <2>3, <2>4, <2>5, <2>6
<1>3. /\ c \in Seq(Seqs) /\ Len(c) = Len(b)
      /\ \A k \in DOMAIN f : c[k] = f[k]
      /\ c[Len(b)] = b[Len(b)]
  BY <1>1, <1>2, AppendProperties
<1>4. \A k \in 1..Len(b) : k \in DOMAIN f \/ k = Len(b)
  BY <1>1, <1>2
<1>5. \A k \in 1..Len(b) : c[k] = b[k]
  BY <1>2, <1>3, <1>4
<1>6. c = b
  BY <1>3, <1>5
<1> QED
  BY <1>1, <1>2, <1>6

\* The two branches of from_seqs that add s make of out a list that s starts
\* or continues, open for the moment, and close it after s.
LEMMA Opened ==
  ASSUME CombineInv, Collecting, taken < Len(seqs), NEW v, v = seqs[taken + 1],
         out' = IF out # <<>> /\ ~IsOpen(out) /\ out[Len(out)] = v
                THEN Closed(SubSeq(out, 1, Len(out) - 1), v)
                ELSE IF IsOpen(out) THEN out
                ELSE Closed(Append(out, v), v)
  PROVE  /\ v \in Seqs
         /\ \E f \in Seq(Seqs) :
              /\ out' = Closed(f, v)
              /\ Ascending(f) /\ IsOpen(f)
              /\ \A k \in DOMAIN f : f[k] <= v
              /\ \A s \in Seqs : s < v => (Has(f, s) <=> Has(out, s))
<1>1. /\ seqs \in Seq(Seqs) /\ taken \in Nat /\ taken + 1 \in DOMAIN seqs
      /\ out \in Seq(Seqs) /\ Ascending(out) /\ Len(out) \in Nat
  BY BoundariesAreLists DEF Collecting, CombineInv, RangesExact
<1>2. v \in Seqs /\ v \in Nat
  BY <1>1, MaxSeqAssumption DEF Seqs
<1>3. ~IsOpen(out) /\ \A k \in DOMAIN out : out[k] <= v
  BY <1>1 DEF Collecting
<1>4. CASE out # <<>> /\ out[Len(out)] = v
  <2> DEFINE f == SubSeq(out, 1, Len(out) - 1)
  <2>1. /\ f \in Seq(Seqs) /\ Len(out) = Len(f) + 1 /\ Len(f) \in Nat
        /\ \A k \in DOMAIN f : f[k] = out[k] /\ k \in DOMAIN out /\ k < Len(out)
        /\ out = Append(f, v)
    BY <1>1, <1>4, FrontOfList
  <2>2. out' = Closed(f, v)
    BY <1>3, <1>4
  <2> HIDE DEF f
  <2>3. Ascending(f)
    BY <1>1, <2>1 DEF Ascending
  <2>4. IsOpen(f)
    BY <1>3, <2>1, ParityTurns DEF IsOpen
  <2>5. \A k \in DOMAIN f : f[k] <= v
    BY <1>3, <2>1
  <2>6. \A s \in Seqs : s < v => (Has(f, s) <=> Has(out, s))
    BY <1>2, <2>1, AppendSaysNothingBefore
  <2> QED
    BY <1>2, <2>1, <2>2, <2>3, <2>4, <2>5, <2>6
<1>5. CASE ~(out # <<>> /\ out[Len(out)] = v)
  <2> DEFINE f == Append(out, v)
  <2>1. out' = Closed(f, v)
    BY <1>3, <1>5
  <2>2. \A k \in DOMAIN out : out[k] < v
    <3> SUFFICES ASSUME NEW k \in DOMAIN out PROVE out[k] < v
      OBVIOUS
    <3>1. Len(out) \in DOMAIN out /\ out # <<>> /\ k \in Nat /\ k <= Len(out)
      BY <1>1
    <3>2. out[Len(out)] <= v /\ out[Len(out)] # v /\ out[Len(out)] \in Nat /\ out[k] \in Nat
      BY <1>1, <1>3, <1>5, <3>1, MaxSeqAssumption DEF Seqs
    <3>3. k = Len(out) \/ out[k] < out[Len(out)]
      BY <1>1, <3>1 DEF Ascending
    <3> QED
      BY <1>2, <3>2, <3>3
  <2>3. /\ f \in Seq(Seqs) /\ Ascending(f) /\ Len(f) = Len(out) + 1
        /\ \A k \in DOMAIN f : f[k] <= v
    BY <1>1, <1>2, <2>2, AppendAscends
  <2>4. IsOpen(f)
    BY <1>1, <1>3, <2>3, ParityTurns DEF IsOpen
  <2>5. \A s \in Seqs : s < v => (Has(f, s) <=> Has(out, s))
    BY <1>1, <1>2, AppendSaysNothingBefore
  <2> HIDE DEF f
  <2> QED
    BY <1>2, <2>1, <2>3, <2>4, <2>5
<1> QED
  BY <1>4, <1>5

\* A turn of from_seqs preserves the invariant.
LEMMA CollectSeqInv == CombineInv /\ CollectSeq => CombineInv'
<1> SUFFICES ASSUME CombineInv, CollectSeq PROVE CombineInv'
  OBVIOUS
<1> DEFINE v == seqs[taken + 1]
<1>1. /\ taken < Len(seqs) /\ taken' = taken + 1 /\ seqs' = seqs
      /\ UNCHANGED <<left, right, op, doneL, doneR>>
  BY DEF CollectSeq, sweptVars
<1>2. Collecting
  <2>1. Sweeping => Len(seqs) = 0 /\ taken = 0
    BY DEF Sweeping
  <2> QED
    BY <1>1, <2>1 DEF CombineInv, Sweeping
<1>3. /\ seqs \in Seq(Seqs) /\ Ascending(seqs) /\ taken \in Nat /\ taken + 1 \in DOMAIN seqs
      /\ DOMAIN seqs = 1..Len(seqs) /\ Len(seqs) \in Nat
      /\ \A k \in DOMAIN seqs : seqs[k] \in Nat /\ seqs[k] <= MaxSeq
  BY <1>1, <1>2, BoundariesAreLists, MaxSeqAssumption DEF Collecting, Seqs
<1>4. \A k \in DOMAIN seqs : k > taken' => v < seqs[k]
  BY <1>1, <1>3 DEF Ascending
<1>5. PICK f \in Seq(Seqs) :
        /\ out' = Closed(f, v)
        /\ Ascending(f) /\ IsOpen(f)
        /\ \A k \in DOMAIN f : f[k] <= v
        /\ \A s \in Seqs : s < v => (Has(f, s) <=> Has(out, s))
  BY <1>1, <1>2, Opened DEF CollectSeq
<1>6. v \in Seqs /\ v \in Nat /\ v <= MaxSeq
  BY <1>3
<1> HIDE DEF v
<1>7. /\ out' \in Seq(Seqs) /\ Ascending(out')
      /\ v = MaxSeq => out' = f /\ taken' = Len(seqs)
      /\ v # MaxSeq => /\ out' = Append(f, v + 1) /\ v + 1 \in Seqs /\ ~IsOpen(out')
                       /\ \A k \in DOMAIN out' : out'[k] <= v + 1
  <2>1. CASE v = MaxSeq
    <3>1. out' = f
      BY <1>5, <2>1 DEF Closed
    <3>2. ~(taken' + 1 \in DOMAIN seqs)
      <4> SUFFICES ASSUME taken' + 1 \in DOMAIN seqs PROVE FALSE
        OBVIOUS
      <4>1. taken' + 1 > taken'
        BY <1>1, <1>3
      <4> QED
        BY <1>3, <1>4, <1>6, <2>1, <4>1
    <3>3. taken' = Len(seqs)
      <4>1. taken' \in Nat /\ taken' <= Len(seqs) /\ Len(seqs) \in Nat
        BY <1>1, <1>3
      <4>2. ~(taken' + 1 \in 1..Len(seqs))
        BY <1>3, <3>2
      <4>3. \A n, m \in Nat : n <= m /\ ~(n + 1 \in 1..m) => n = m
        OBVIOUS
      <4> QED
        BY <4>1, <4>2, <4>3
    <3> QED
      BY <1>5, <2>1, <3>1, <3>3
  <2>2. CASE v # MaxSeq
    <3>1. out' = Append(f, v + 1)
      BY <1>5, <2>2 DEF Closed
    <3>2. v + 1 \in Seqs
      BY <1>6, <2>2, MaxSeqAssumption DEF Seqs
    <3>3. \A k \in DOMAIN f : f[k] < v + 1
      BY <1>5, <1>6, MaxSeqAssumption DEF Seqs
    <3>4. /\ out' \in Seq(Seqs) /\ Ascending(out') /\ Len(out') = Len(f) + 1
          /\ \A k \in DOMAIN out' : out'[k] <= v + 1
      BY <1>5, <3>1, <3>2, <3>3, AppendAscends
    <3>5. ~IsOpen(out')
      BY <1>5, <3>4, ParityTurns DEF IsOpen
    <3> QED
      BY <2>2, <3>1, <3>2, <3>4, <3>5
  <2> QED
    BY <2>1, <2>2
<1>8. Collecting'
  <2>1. \A k \in DOMAIN out' : \A j \in DOMAIN seqs : j > taken' => out'[k] <= seqs[j]
    <3>1. CASE v = MaxSeq
      BY <1>1, <1>3, <1>7, <3>1
    <3>2. CASE v # MaxSeq
      <4>1. \A k \in DOMAIN out' : out'[k] \in Nat
        BY <1>7, MaxSeqAssumption DEF Seqs
      <4> QED
        BY <1>3, <1>4, <1>6, <1>7, <3>2, <4>1
    <3> QED
      BY <3>1, <3>2
  <2>2. IsOpen(out') => taken' = Len(seqs)
    BY <1>7
  <2>3. taken' \in 0..Len(seqs)
    BY <1>1, <1>3
  <2> QED
    BY <1>1, <1>2, <2>1, <2>2, <2>3 DEF Collecting
<1>9. ASSUME NEW s \in Seqs, Decided(s)' PROVE Has(out', s) <=> Expected(s)'
  <2>1. s \in Nat /\ \A k \in DOMAIN seqs : k > taken' => s < seqs[k]
    BY <1>1, <1>9, MaxSeqAssumption DEF Decided, Seqs
  <2>2. ~Chosen(Has(<<>>, s), Has(<<>>, s))
    BY <1>2, HasNothing, ChosenOfNone DEF Collecting
  <2>3. Expected(s)' <=> \E k \in DOMAIN seqs : seqs[k] = s
    BY <1>1, <1>2, <2>2 DEF Expected, Collecting, Chosen
  <2>4. Expected(s) <=> \E k \in DOMAIN seqs : seqs[k] = s
    BY <1>2, <2>2 DEF Expected, Collecting
  <2>5. CASE s < v
    <3>1. Decided(s)
      <4>1. Unswept = {}
        BY <1>2 DEF Collecting, Unswept, Ahead
      <4>2. \A k \in DOMAIN seqs : k > taken => k = taken + 1 \/ k > taken'
        BY <1>1, <1>3
      <4>3. s < seqs[taken + 1]
        BY <2>5 DEF v
      <4> QED
        BY <2>1, <4>1, <4>2, <4>3 DEF Decided
    <3>2. Has(out', s) <=> Has(f, s)
      <4>1. CASE v = MaxSeq
        BY <1>7, <4>1
      <4>2. CASE v # MaxSeq
        <5>1. s < v + 1
          BY <1>6, <2>1, <2>5
        <5> QED
          BY <1>7, <4>2, <5>1, AppendSaysNothingBefore
      <4> QED
        BY <4>1, <4>2
    <3> QED
      BY <1>5, <2>3, <2>4, <2>5, <3>1, <3>2 DEF CombineInv, RangesExact
  <2>6. CASE s = v
    <3>1. Has(f, v)
      BY <1>5, <1>6, HasAtEnd
    <3>2. Has(out', s)
      <4>1. CASE v = MaxSeq
        BY <1>7, <2>6, <3>1, <4>1
      <4>2. CASE v # MaxSeq
        <5>1. v < v + 1
          BY <1>6
        <5> QED
          BY <1>6, <1>7, <2>6, <3>1, <4>2, <5>1, AppendSaysNothingBefore
      <4> QED
        BY <4>1, <4>2
    <3> QED
      BY <1>3, <2>3, <2>6, <3>2 DEF v
  <2>7. CASE v < s
    <3>1. v # MaxSeq
      BY <1>6, <2>1, <2>7, MaxSeqAssumption DEF Seqs
    <3>2. \A k \in DOMAIN out' : out'[k] <= s
      <4>1. \A k \in DOMAIN out' : out'[k] \in Nat
        BY <1>7, MaxSeqAssumption DEF Seqs
      <4> QED
        BY <1>6, <1>7, <2>1, <2>7, <3>1, <4>1
    <3>3. ~Has(out', s)
      BY <1>7, <3>1, <3>2, HasAtEnd
    <3>4. \A k \in DOMAIN seqs : seqs[k] # s
      <4> SUFFICES ASSUME NEW k \in DOMAIN seqs PROVE seqs[k] # s
        OBVIOUS
      <4>1. k < taken + 1 \/ k = taken + 1 \/ k > taken'
        BY <1>1, <1>3
      <4>2. k < taken + 1 => seqs[k] < v
        BY <1>3 DEF Ascending, v
      <4>3. k = taken + 1 => seqs[k] = v
        BY DEF v
      <4> QED
        BY <1>3, <1>6, <2>1, <2>7, <4>1, <4>2, <4>3
    <3> QED
      BY <2>3, <3>3, <3>4
  <2> QED
    BY <1>6, <2>1, <2>5, <2>6, <2>7
<1> QED
  BY <1>7, <1>8, <1>9 DEF CombineInv, RangesExact

\* A step that changes nothing decides nothing.
LEMMA CombineStutters == CombineInv /\ UNCHANGED combineVars => CombineInv'
<1> SUFFICES ASSUME CombineInv, UNCHANGED combineVars PROVE CombineInv'
  OBVIOUS
<1> USE DEF combineVars
<1>1. Unswept' = Unswept
  BY DEF Unswept, Ahead
<1>2. Sweeping => Sweeping'
  BY <1>1 DEF Sweeping, Chosen
<1>3. Collecting => Collecting'
  BY DEF Collecting
<1>4. RangesExact'
  BY <1>1 DEF CombineInv, RangesExact, Decided, Expected, Chosen
<1> QED
  BY <1>2, <1>3, <1>4 DEF CombineInv

\* Union, intersection, difference and complement of any two sets, and from_seqs
\* of any numbers, build the list that denotes the result, ascending at every
\* turn, up to Seq::MAX and whatever it is.
THEOREM CombineCorrect == CombineSpec => []RangesExact
<1>1. CombineInv /\ [CombineNext]_combineVars => CombineInv'
  BY SweepBoundaryInv, CollectSeqInv, CombineStutters DEF CombineNext
<1>2. CombineInv => RangesExact
  BY DEF CombineInv
<1> QED
  BY CombineInitInv, <1>1, <1>2, PTL DEF CombineSpec

-----------------------------------------------------------------------------
\* Nested maps and flat sets.

\* The nested map m stands for the flat sets K of logs and X of cells.
Represents(m, K, X) ==
    /\ K \subseteq Channel \X Author
    /\ X \subseteq Cell
    /\ \A c, a : <<c, a>> \in K <=> c \in DOMAIN m /\ a \in DOMAIN m[c]
    /\ \A c \in DOMAIN m : DOMAIN m[c] # {}
    /\ \A c, a : <<c, a>> \in K =>
          m[c][a] \subseteq SeqNo /\ \A s : s \in m[c][a] <=> <<c, a, s>> \in X
    /\ \A c, a, s : <<c, a, s>> \in X => <<c, a>> \in K

MapsInv ==
    /\ DOMAIN maps = Register /\ DOMAIN known = Register /\ DOMAIN cells = Register
    /\ \A r \in Register : Represents(maps[r], known[r], cells[r])

\* The logs and the cells of a nested map, one by one.
LEMMA MapMembers ==
    ASSUME NEW m
    PROVE  /\ \A c, a : <<c, a>> \in LogsOf(m) <=> c \in DOMAIN m /\ a \in DOMAIN m[c]
           /\ \A c, a, s : <<c, a, s>> \in CellsOf(m)
                               <=> <<c, a>> \in LogsOf(m) /\ s \in m[c][a]
<1>1. ASSUME NEW c, NEW a, c \in DOMAIN m, a \in DOMAIN m[c] PROVE <<c, a>> \in LogsOf(m)
  BY <1>1 DEF LogsOf
<1>2. ASSUME NEW c, NEW a, <<c, a>> \in LogsOf(m) PROVE c \in DOMAIN m /\ a \in DOMAIN m[c]
  BY <1>2 DEF LogsOf
<1>3. ASSUME NEW c, NEW a, NEW s, <<c, a>> \in LogsOf(m), s \in m[c][a]
      PROVE  <<c, a, s>> \in CellsOf(m)
  <2> DEFINE log == <<c, a>>
  <2>1. log[1] = c /\ log[2] = a
    OBVIOUS
  <2>2. <<c, a, s>> \in {<<log[1], log[2], t>> : t \in m[log[1]][log[2]]}
    BY <1>3, <2>1
  <2> QED
    BY <1>3, <2>2 DEF CellsOf
<1>4. ASSUME NEW c, NEW a, NEW s, <<c, a, s>> \in CellsOf(m)
      PROVE  <<c, a>> \in LogsOf(m) /\ s \in m[c][a]
  <2>1. PICK log \in LogsOf(m) : <<c, a, s>> \in {<<log[1], log[2], t>> : t \in m[log[1]][log[2]]}
    BY <1>4 DEF CellsOf
  <2>2. log[1] = c /\ log[2] = a /\ s \in m[log[1]][log[2]]
    BY <2>1
  <2>3. log = <<log[1], log[2]>>
    BY DEF LogsOf
  <2> QED
    BY <2>2, <2>3
<1> QED
  BY <1>1, <1>2, <1>3, <1>4

\* A map that stands for flat sets is what MapsDenoteSets asks for.
LEMMA RepresentsDenotes ==
    ASSUME NEW m, NEW K, NEW X, Represents(m, K, X)
    PROVE  /\ LogsOf(m) = K
           /\ CellsOf(m) = X
           /\ IsEmptyMap(m) <=> X = {}
           /\ Decodes(m)
<1>1. LogsOf(m) = K
  <2>1. \A log \in LogsOf(m) : log = <<log[1], log[2]>>
    BY DEF LogsOf
  <2>2. \A log \in K : log = <<log[1], log[2]>>
    BY DEF Represents
  <2> QED
    BY <2>1, <2>2, MapMembers DEF Represents
<1>2. CellsOf(m) = X
  <2>1. \A x \in CellsOf(m) : x = <<x[1], x[2], x[3]>>
    BY DEF CellsOf
  <2>2. \A x \in X : x = <<x[1], x[2], x[3]>>
    BY DEF Represents, Cell
  <2>3. \A c, a, s : <<c, a, s>> \in CellsOf(m) <=> <<c, a, s>> \in X
    BY <1>1, MapMembers DEF Represents
  <2> QED
    BY <2>1, <2>2, <2>3
<1>3. IsEmptyMap(m) <=> X = {}
  <2>1. ASSUME NEW log \in LogsOf(m)
        PROVE  /\ At(m, log) = m[log[1]][log[2]]
               /\ log = <<log[1], log[2]>> /\ log \in K
    <3>1. log = <<log[1], log[2]>>
      BY DEF LogsOf
    <3>2. log[1] \in DOMAIN m
      BY <3>1, MapMembers
    <3> QED
      BY <1>1, <3>1, <3>2 DEF At, Under
  <2>2. ASSUME IsEmptyMap(m), NEW x \in X PROVE FALSE
    <3>1. x = <<x[1], x[2], x[3]>>
      BY DEF Represents, Cell
    <3> DEFINE log == <<x[1], x[2]>>
    <3>2. log \in LogsOf(m) /\ x[3] \in m[x[1]][x[2]]
      BY <1>1, <3>1 DEF Represents
    <3>3. log[1] = x[1] /\ log[2] = x[2]
      OBVIOUS
    <3> HIDE DEF log
    <3>4. At(m, log) = {}
      BY <2>2, <3>2 DEF IsEmptyMap
    <3> QED
      BY <2>1, <3>2, <3>3, <3>4
  <2>3. ASSUME X = {}, NEW log \in LogsOf(m) PROVE At(m, log) = {}
    BY <2>1, <2>3 DEF Represents
  <2> QED
    BY <2>2, <2>3 DEF IsEmptyMap
<1>4. Decodes(m)
  BY DEF Decodes, Represents
<1> QED
  BY <1>1, <1>2, <1>3, <1>4

\* insert replaces the numbers of one log.
LEMMA InsertRepresents ==
    ASSUME NEW m, NEW K, NEW X, Represents(m, K, X),
           NEW log \in Channel \X Author, NEW ns \in SUBSET SeqNo
    PROVE  Represents(Insert(m, log, ns), K \cup {log},
                      (X \ OfLog(log, SeqNo)) \cup OfLog(log, ns))
<1> DEFINE c0 == log[1]
           a0 == log[2]
           n == Insert(m, log, ns)
           inner == Update(Under(m, c0), a0, ns)
           K1 == K \cup {log}
           X1 == (X \ OfLog(log, SeqNo)) \cup OfLog(log, ns)
<1>1. log = <<c0, a0>> /\ c0 \in Channel /\ a0 \in Author
  OBVIOUS
<1>2. /\ DOMAIN n = DOMAIN m \cup {c0} /\ n[c0] = inner
      /\ \A c \in DOMAIN m : c # c0 => n[c] = m[c]
  BY DEF Insert, Update
<1>3. /\ DOMAIN inner = DOMAIN Under(m, c0) \cup {a0} /\ inner[a0] = ns
      /\ \A a \in DOMAIN Under(m, c0) : a # a0 => inner[a] = Under(m, c0)[a]
  BY DEF Update
<1>4. /\ c0 \in DOMAIN m => Under(m, c0) = m[c0]
      /\ c0 \notin DOMAIN m => DOMAIN Under(m, c0) = {}
  BY DEF Under, Nothing
<1>5. \A c, a, s : <<c, a, s>> \in X1
         <=> IF c = c0 /\ a = a0 THEN s \in ns ELSE <<c, a, s>> \in X
  <2>1. \A c, a, s, S : <<c, a, s>> \in OfLog(log, S) <=> c = c0 /\ a = a0 /\ s \in S
    BY DEF OfLog
  <2>2. \A c, a, s : <<c, a, s>> \in X => s \in SeqNo
    BY DEF Represents, Cell
  <2> QED
    BY <2>1, <2>2
<1>6. \A c, a : <<c, a>> \in K1 <=> <<c, a>> \in K \/ (c = c0 /\ a = a0)
  BY <1>1
<1>7. K1 \subseteq Channel \X Author /\ X1 \subseteq Cell
  <2>1. OfLog(log, ns) \subseteq Cell
    BY <1>1 DEF OfLog, Cell
  <2> QED
    BY <2>1 DEF Represents
<1> HIDE DEF n, inner, K1, X1, c0, a0
<1>8. \A c, a : <<c, a>> \in K1 <=> c \in DOMAIN n /\ a \in DOMAIN n[c]
  <2> SUFFICES ASSUME NEW c, NEW a
               PROVE  <<c, a>> \in K1 <=> c \in DOMAIN n /\ a \in DOMAIN n[c]
    OBVIOUS
  <2>0. <<c, a>> \in K <=> c \in DOMAIN m /\ a \in DOMAIN m[c]
    BY DEF Represents
  <2>1. CASE c = c0
    <3>1. a \in DOMAIN n[c] <=> a \in DOMAIN Under(m, c0) \/ a = a0
      BY <1>2, <1>3, <2>1
    <3>2. a \in DOMAIN Under(m, c0) <=> <<c, a>> \in K
      BY <1>4, <2>0, <2>1
    <3> QED
      BY <1>2, <1>6, <2>1, <3>1, <3>2
  <2>2. CASE c # c0
    BY <1>2, <1>6, <2>0, <2>2
  <2> QED
    BY <2>1, <2>2
<1>9. \A c \in DOMAIN n : DOMAIN n[c] # {}
  BY <1>2, <1>3 DEF Represents
<1>10. ASSUME NEW c, NEW a, <<c, a>> \in K1
       PROVE  n[c][a] \subseteq SeqNo /\ \A s : s \in n[c][a] <=> <<c, a, s>> \in X1
  <2>1. CASE c = c0 /\ a = a0
    BY <1>2, <1>3, <1>5, <2>1
  <2>2. CASE c # c0
    BY <1>2, <1>5, <1>6, <1>10, <2>2 DEF Represents
  <2>3. CASE c = c0 /\ a # a0
    <3>1. <<c, a>> \in K /\ c \in DOMAIN m /\ a \in DOMAIN m[c]
      BY <1>6, <1>10, <2>3 DEF Represents
    <3>2. n[c][a] = m[c][a]
      BY <1>2, <1>3, <1>4, <2>3, <3>1
    <3> QED
      BY <1>5, <2>3, <3>1, <3>2 DEF Represents
  <2> QED
    BY <2>1, <2>2, <2>3
<1>11. \A c, a, s : <<c, a, s>> \in X1 => <<c, a>> \in K1
  BY <1>5, <1>6 DEF Represents
<1>12. Represents(n, K1, X1)
  BY <1>7, <1>8, <1>9, <1>10, <1>11 DEF Represents
<1> QED
  BY <1>12 DEF n, K1, X1

\* remove forgets one log, and its channel with the last.
LEMMA RemoveRepresents ==
    ASSUME NEW m, NEW K, NEW X, Represents(m, K, X), NEW log \in Channel \X Author
    PROVE  Represents(Remove(m, log), K \ {log}, X \ OfLog(log, SeqNo))
<1> DEFINE c0 == log[1]
           a0 == log[2]
           n == Remove(m, log)
           remain == Without(m[c0], a0)
           K1 == K \ {log}
           X1 == X \ OfLog(log, SeqNo)
<1>1. log = <<c0, a0>>
  OBVIOUS
<1>2. \A c, a : <<c, a>> \in K1 <=> <<c, a>> \in K /\ ~(c = c0 /\ a = a0)
  BY <1>1
<1>3. \A c, a, s : <<c, a, s>> \in X1 <=> <<c, a, s>> \in X /\ ~(c = c0 /\ a = a0)
  <2>1. \A c, a, s, S : <<c, a, s>> \in OfLog(log, S) <=> c = c0 /\ a = a0 /\ s \in S
    BY DEF OfLog
  <2>2. \A c, a, s : <<c, a, s>> \in X => s \in SeqNo
    BY DEF Represents, Cell
  <2> QED
    BY <2>1, <2>2
<1>4. K1 \subseteq Channel \X Author /\ X1 \subseteq Cell
  BY DEF Represents
<1>5. DOMAIN remain = DOMAIN m[c0] \ {a0} /\ \A a \in DOMAIN remain : remain[a] = m[c0][a]
  BY DEF Without
<1>6. /\ c0 \notin DOMAIN m => n = m
      /\ c0 \in DOMAIN m /\ DOMAIN remain = {} =>
            DOMAIN n = DOMAIN m \ {c0} /\ \A c \in DOMAIN n : n[c] = m[c]
      /\ c0 \in DOMAIN m /\ DOMAIN remain # {} =>
            /\ DOMAIN n = DOMAIN m /\ n[c0] = remain
            /\ \A c \in DOMAIN m : c # c0 => n[c] = m[c]
  <2> HIDE DEF remain, c0, a0
  <2>1. c0 \notin DOMAIN m => n = m
    BY DEF Remove, c0
  <2>2. c0 \in DOMAIN m /\ DOMAIN remain = {} => n = Without(m, c0)
    BY DEF Remove, c0, a0, remain
  <2>3. c0 \in DOMAIN m /\ DOMAIN remain # {} => n = Update(m, c0, remain)
    BY DEF Remove, c0, a0, remain
  <2> HIDE DEF n
  <2> QED
    BY <2>1, <2>2, <2>3 DEF Without, Update
<1> HIDE DEF n, remain, K1, X1, c0, a0
<1>7. ASSUME NEW c, NEW a
      PROVE  /\ <<c, a>> \in K1 <=> c \in DOMAIN n /\ a \in DOMAIN n[c]
             /\ <<c, a>> \in K1 => n[c][a] = m[c][a]
  <2>1. <<c, a>> \in K <=> c \in DOMAIN m /\ a \in DOMAIN m[c]
    BY DEF Represents
  <2>2. CASE c # c0
    BY <1>2, <1>6, <2>1, <2>2
  <2>3. CASE c = c0 /\ c0 \notin DOMAIN m
    BY <1>2, <1>6, <2>1, <2>3
  <2>4. CASE c = c0 /\ c0 \in DOMAIN m /\ DOMAIN remain = {}
    BY <1>2, <1>5, <1>6, <2>1, <2>4
  <2>5. CASE c = c0 /\ c0 \in DOMAIN m /\ DOMAIN remain # {}
    BY <1>2, <1>5, <1>6, <2>1, <2>5
  <2> QED
    BY <2>2, <2>3, <2>4, <2>5
<1>8. \A c \in DOMAIN n : DOMAIN n[c] # {}
  BY <1>6 DEF Represents
<1>9. \A c, a : <<c, a>> \in K1 =>
         n[c][a] \subseteq SeqNo /\ \A s : s \in n[c][a] <=> <<c, a, s>> \in X1
  BY <1>2, <1>3, <1>7 DEF Represents
<1>10. \A c, a, s : <<c, a, s>> \in X1 => <<c, a>> \in K1
  BY <1>2, <1>3 DEF Represents
<1>11. Represents(n, K1, X1)
  BY <1>4, <1>7, <1>8, <1>9, <1>10 DEF Represents
<1> QED
  BY <1>11 DEF n, K1, X1

\* The numbers read of a log are those of its cells.
LEMMA ReadsCells ==
    ASSUME NEW m, NEW K, NEW X, Represents(m, K, X), NEW c, NEW a
    PROVE  /\ Read(m, <<c, a>>) \subseteq SeqNo
           /\ \A s : s \in Read(m, <<c, a>>) <=> <<c, a, s>> \in X
<1> DEFINE log == <<c, a>>
<1>1. log[1] = c /\ log[2] = a
  OBVIOUS
<1>2. LogsOf(m) = K
  BY RepresentsDenotes
<1> HIDE DEF log
<1>3. CASE log \in K
  <2>1. c \in DOMAIN m
    BY <1>3 DEF Represents, log
  <2>2. Read(m, log) = m[c][a]
    BY <1>1, <1>2, <1>3, <2>1 DEF Read, At, Under
  <2> QED
    BY <1>3, <2>2 DEF Represents, log
<1>4. CASE log \notin K
  <2>1. Read(m, log) = {}
    BY <1>2, <1>4 DEF Read
  <2> QED
    BY <1>4, <2>1 DEF Represents, log
<1> QED
  BY <1>3, <1>4

\* union knows and contains what either does.
LEMMA UnionRepresents ==
    ASSUME NEW m, NEW K, NEW X, Represents(m, K, X),
           NEW o, NEW L, NEW Y, Represents(o, L, Y)
    PROVE  Represents(Union(m, o), K \cup L, X \cup Y)
<1> DEFINE n == Union(m, o)
<1>1. /\ DOMAIN n = DOMAIN m \cup DOMAIN o
      /\ \A c \in DOMAIN n :
            /\ DOMAIN n[c] = DOMAIN Under(m, c) \cup DOMAIN Under(o, c)
            /\ \A a \in DOMAIN n[c] : n[c][a] = Read(m, <<c, a>>) \cup Read(o, <<c, a>>)
  BY DEF Union
<1>2. \A c : /\ c \in DOMAIN m => Under(m, c) = m[c]
             /\ c \notin DOMAIN m => DOMAIN Under(m, c) = {}
             /\ c \in DOMAIN o => Under(o, c) = o[c]
             /\ c \notin DOMAIN o => DOMAIN Under(o, c) = {}
  BY DEF Under, Nothing
<1> HIDE DEF n
<1>3. ASSUME NEW c, NEW a
      PROVE  <<c, a>> \in K \cup L <=> c \in DOMAIN n /\ a \in DOMAIN n[c]
  <2>1. /\ <<c, a>> \in K <=> c \in DOMAIN m /\ a \in DOMAIN m[c]
        /\ <<c, a>> \in L <=> c \in DOMAIN o /\ a \in DOMAIN o[c]
    BY DEF Represents
  <2> QED
    BY <1>1, <1>2, <2>1
<1>4. \A c \in DOMAIN n : DOMAIN n[c] # {}
  BY <1>1, <1>2 DEF Represents
<1>5. ASSUME NEW c, NEW a, <<c, a>> \in K \cup L
      PROVE  /\ n[c][a] \subseteq SeqNo
             /\ \A s : s \in n[c][a] <=> <<c, a, s>> \in X \cup Y
  <2>1. n[c][a] = Read(m, <<c, a>>) \cup Read(o, <<c, a>>)
    BY <1>1, <1>3, <1>5
  <2>2. /\ Read(m, <<c, a>>) \subseteq SeqNo /\ Read(o, <<c, a>>) \subseteq SeqNo
        /\ \A s : s \in Read(m, <<c, a>>) <=> <<c, a, s>> \in X
        /\ \A s : s \in Read(o, <<c, a>>) <=> <<c, a, s>> \in Y
    BY ReadsCells
  <2> QED
    BY <2>1, <2>2
<1>6. K \cup L \subseteq Channel \X Author /\ X \cup Y \subseteq Cell
  BY DEF Represents
<1>7. \A c, a, s : <<c, a, s>> \in X \cup Y => <<c, a>> \in K \cup L
  BY DEF Represents
<1>8. Represents(n, K \cup L, X \cup Y)
  BY <1>3, <1>4, <1>5, <1>6, <1>7 DEF Represents
<1> QED
  BY <1>8 DEF n

\* A map built entry by entry from the logs that have a cell stands for the
\* cells; what intersection and difference return is such a map.
LEMMA NestedRepresents ==
    ASSUME NEW Z \in SUBSET Cell, NEW n,
           DOMAIN n = {log[1] : log \in LogsWith(Z)},
           \A c \in DOMAIN n :
              /\ DOMAIN n[c] = {log[2] : log \in {l \in LogsWith(Z) : l[1] = c}}
              /\ \A a \in DOMAIN n[c] : \A s : s \in n[c][a] <=> <<c, a, s>> \in Z
    PROVE  Represents(n, LogsWith(Z), Z)
<1> DEFINE K == LogsWith(Z)
<1>1. \A x \in Z : x = <<ChannelOf(x), AuthorOf(x), x[3]>> /\ x[3] \in SeqNo
                   /\ ChannelOf(x) \in Channel /\ AuthorOf(x) \in Author
  BY DEF Cell, ChannelOf, AuthorOf
<1>2. K \subseteq Channel \X Author
  BY <1>1 DEF LogsWith
<1>3. \A log \in K : log = <<log[1], log[2]>>
  BY DEF LogsWith
<1>4. ASSUME NEW c, NEW a, <<c, a>> \in K PROVE c \in DOMAIN n /\ a \in DOMAIN n[c]
  <2>1. <<c, a>>[1] = c /\ <<c, a>>[2] = a
    OBVIOUS
  <2>2. c \in DOMAIN n
    BY <1>4, <2>1
  <2>3. <<c, a>> \in {l \in LogsWith(Z) : l[1] = c}
    BY <1>4, <2>1
  <2> QED
    BY <2>1, <2>2, <2>3
<1>5. ASSUME NEW c, NEW a, c \in DOMAIN n, a \in DOMAIN n[c] PROVE <<c, a>> \in K
  <2>1. PICK log \in K : log[1] = c /\ log[2] = a
    BY <1>5
  <2> QED
    BY <1>3, <2>1
<1>6. \A c \in DOMAIN n : DOMAIN n[c] # {}
  OBVIOUS
<1>7. ASSUME NEW c, NEW a, <<c, a>> \in K
      PROVE  n[c][a] \subseteq SeqNo /\ \A s : s \in n[c][a] <=> <<c, a, s>> \in Z
  <2>1. \A s : s \in n[c][a] <=> <<c, a, s>> \in Z
    BY <1>4, <1>7
  <2>2. \A s : <<c, a, s>> \in Z => s \in SeqNo
    BY DEF Cell
  <2> QED
    BY <2>1, <2>2
<1>8. ASSUME NEW c, NEW a, NEW s, <<c, a, s>> \in Z PROVE <<c, a>> \in K
  <2>1. ChannelOf(<<c, a, s>>) = c /\ AuthorOf(<<c, a, s>>) = a
    BY DEF ChannelOf, AuthorOf
  <2> QED
    BY <1>8, <2>1 DEF LogsWith
<1> HIDE DEF K
<1>9. Represents(n, K, Z)
  BY <1>2, <1>4, <1>5, <1>6, <1>7, <1>8 DEF Represents
<1> QED
  BY <1>9 DEF K

\* intersection and difference contain what the flat sets say, and know the
\* logs of which something is left.
LEMMA WireRepresents ==
    ASSUME NEW m, NEW K, NEW X, Represents(m, K, X),
           NEW o, NEW L, NEW Y, Represents(o, L, Y)
    PROVE  /\ Represents(Intersection(m, o), LogsWith(X \cap Y), X \cap Y)
           /\ Represents(Difference(m, o), LogsWith(X \ Y), X \ Y)
<1>1. ASSUME NEW Z \in SUBSET X, NEW v,
             \A c, a : <<c, a>> \in K => \A s : s \in v[<<c, a>>] <=> <<c, a, s>> \in Z
      PROVE  {log \in LogsOf(m) : v[log] # {}} = LogsWith(Z)
  <2>1. \A log \in K : log = <<log[1], log[2]>>
    BY DEF Represents
  <2>0. LogsOf(m) = K
    BY RepresentsDenotes
  <2>2. ASSUME NEW log \in K, v[log] # {} PROVE log \in LogsWith(Z)
    <3>1. PICK s : s \in v[<<log[1], log[2]>>]
      BY <2>1, <2>2
    <3>0. <<log[1], log[2]>> \in K
      BY <2>1
    <3>2. <<log[1], log[2], s>> \in Z
      BY <1>1, <3>0, <3>1
    <3>3. <<log[1], log[2]>> \in LogsWith(Z)
      BY <3>2 DEF LogsWith, ChannelOf, AuthorOf
    <3> QED
      BY <2>1, <3>3
  <2>3. ASSUME NEW x \in Z
        PROVE  <<ChannelOf(x), AuthorOf(x)>> \in K /\ v[<<ChannelOf(x), AuthorOf(x)>>] # {}
    <3>1. x = <<ChannelOf(x), AuthorOf(x), x[3]>>
      BY DEF Represents, Cell, ChannelOf, AuthorOf
    <3> QED
      BY <1>1, <3>1 DEF Represents
  <2> QED
    BY <2>0, <2>2, <2>3 DEF LogsWith
<1>2. \A c, a, s : /\ s \in Read(m, <<c, a>>) <=> <<c, a, s>> \in X
                   /\ s \in Read(o, <<c, a>>) <=> <<c, a, s>> \in Y
  BY ReadsCells
<1>3. \A log \in K : log = <<log[1], log[2]>>
  BY DEF Represents
<1>0. LogsOf(m) = K
  BY RepresentsDenotes
<1>4. Represents(Intersection(m, o), LogsWith(X \cap Y), X \cap Y)
  <2> DEFINE Z == X \cap Y
             v == [log \in K |-> Read(m, log) \cap Read(o, log)]
             n == Intersection(m, o)
             logs == {log \in LogsOf(m) : Read(m, log) \cap Read(o, log) # {}}
  <2>0. ASSUME NEW c, NEW a, NEW s
        PROVE  s \in Read(m, <<c, a>>) \cap Read(o, <<c, a>>) <=> <<c, a, s>> \in Z
    <3>1. /\ s \in Read(m, <<c, a>>) <=> <<c, a, s>> \in X
          /\ s \in Read(o, <<c, a>>) <=> <<c, a, s>> \in Y
      BY <1>2
    <3> QED
      BY <3>1
  <2>1. ASSUME NEW c, NEW a, <<c, a>> \in K
        PROVE  \A s : s \in v[<<c, a>>] <=> <<c, a, s>> \in Z
    <3>1. v[<<c, a>>] = Read(m, <<c, a>>) \cap Read(o, <<c, a>>)
      BY <2>1
    <3> HIDE DEF v, Z
    <3> QED
      BY <2>0, <3>1
  <2>2. {log \in LogsOf(m) : v[log] # {}} = LogsWith(Z)
    <3> HIDE DEF v
    <3> QED
      BY <1>1, <2>1
  <2>3. logs = LogsWith(Z)
    BY <1>0, <2>2
  <2>4. /\ DOMAIN n = {log[1] : log \in logs}
        /\ \A c \in DOMAIN n :
              /\ DOMAIN n[c] = {log[2] : log \in {l \in logs : l[1] = c}}
              /\ \A a \in DOMAIN n[c] : n[c][a] = Read(m, <<c, a>>) \cap Read(o, <<c, a>>)
    BY DEF Intersection, Nested
  <2> HIDE DEF n, logs, Z
  <2>5. \A c \in DOMAIN n : \A a \in DOMAIN n[c] : \A s : s \in n[c][a] <=> <<c, a, s>> \in Z
    BY <2>0, <2>4
  <2>6. Z \in SUBSET Cell
    BY DEF Represents, Z
  <2>7. Represents(n, LogsWith(Z), Z)
    BY <2>3, <2>4, <2>5, <2>6, NestedRepresents
  <2> QED
    BY <2>7 DEF n, Z
<1>5. Represents(Difference(m, o), LogsWith(X \ Y), X \ Y)
  <2> DEFINE Z == X \ Y
             v == [log \in K |-> Read(m, log) \ Read(o, log)]
             n == Difference(m, o)
             logs == {log \in LogsOf(m) : Read(m, log) \ Read(o, log) # {}}
  <2>0. ASSUME NEW c, NEW a, NEW s
        PROVE  s \in Read(m, <<c, a>>) \ Read(o, <<c, a>>) <=> <<c, a, s>> \in Z
    <3>1. /\ s \in Read(m, <<c, a>>) <=> <<c, a, s>> \in X
          /\ s \in Read(o, <<c, a>>) <=> <<c, a, s>> \in Y
      BY <1>2
    <3> QED
      BY <3>1
  <2>1. ASSUME NEW c, NEW a, <<c, a>> \in K
        PROVE  \A s : s \in v[<<c, a>>] <=> <<c, a, s>> \in Z
    <3>1. v[<<c, a>>] = Read(m, <<c, a>>) \ Read(o, <<c, a>>)
      BY <2>1
    <3> HIDE DEF v, Z
    <3> QED
      BY <2>0, <3>1
  <2>2. {log \in LogsOf(m) : v[log] # {}} = LogsWith(Z)
    <3> HIDE DEF v
    <3> QED
      BY <1>1, <2>1
  <2>3. logs = LogsWith(Z)
    BY <1>0, <2>2
  <2>4. /\ DOMAIN n = {log[1] : log \in logs}
        /\ \A c \in DOMAIN n :
              /\ DOMAIN n[c] = {log[2] : log \in {l \in logs : l[1] = c}}
              /\ \A a \in DOMAIN n[c] : n[c][a] = Read(m, <<c, a>>) \ Read(o, <<c, a>>)
    BY DEF Difference, Nested
  <2> HIDE DEF n, logs, Z
  <2>5. \A c \in DOMAIN n : \A a \in DOMAIN n[c] : \A s : s \in n[c][a] <=> <<c, a, s>> \in Z
    BY <2>0, <2>4
  <2>6. Z \in SUBSET Cell
    BY DEF Represents, Z
  <2>7. Represents(n, LogsWith(Z), Z)
    BY <2>3, <2>4, <2>5, <2>6, NestedRepresents
  <2> QED
    BY <2>7 DEF n, Z
<1> QED
  BY <1>4, <1>5

-----------------------------------------------------------------------------

\* Two maps that nothing was put into stand for nothing.
LEMMA MapsInitInv == LogsInit => MapsInv
<1> SUFFICES ASSUME LogsInit PROVE MapsInv
  OBVIOUS
<1>1. Represents(Nothing, {}, {})
  BY DEF Represents, Nothing
<1>2. \A r \in Register : maps[r] = Nothing /\ known[r] = {} /\ cells[r] = {}
  BY DEF LogsInit
<1>3. DOMAIN maps = Register /\ DOMAIN known = Register /\ DOMAIN cells = Register
  BY DEF LogsInit
<1> QED
  BY <1>1, <1>2, <1>3 DEF MapsInv

\* A register that comes to hold a map comes to stand for its flat sets, and
\* the other keeps its own.
LEMMA BecomesInv ==
    ASSUME MapsInv, NEW r \in Register, NEW m, NEW K, NEW X,
           Represents(m, K, X), Becomes(r, m, K, X)
    PROVE  MapsInv'
<1>1. /\ DOMAIN maps' = Register /\ DOMAIN known' = Register /\ DOMAIN cells' = Register
      /\ maps'[r] = m /\ known'[r] = K /\ cells'[r] = X
      /\ \A q \in Register : q # r =>
            maps'[q] = maps[q] /\ known'[q] = known[q] /\ cells'[q] = cells[q]
  BY DEF Becomes, MapsInv
<1>2. ASSUME NEW q \in Register PROVE Represents(maps'[q], known'[q], cells'[q])
  BY <1>1 DEF MapsInv
<1> QED
  BY <1>1, <1>2 DEF MapsInv

\* Every operation keeps the two maps standing for their flat sets.
LEMMA MapsNextInv == MapsInv /\ [LogsNext]_logsVars => MapsInv'
<1> SUFFICES ASSUME MapsInv, [LogsNext]_logsVars PROVE MapsInv'
  OBVIOUS
<1>1. CASE UNCHANGED logsVars
  BY <1>1 DEF MapsInv, logsVars
<1>2. ASSUME NEW r \in Register, InsertLog(r) PROVE MapsInv'
  <2>1. PICK log \in Logs, ns \in SUBSET SeqNo :
           Becomes(r, Insert(maps[r], log, ns), known[r] \cup {log},
                   (cells[r] \ OfLog(log, SeqNo)) \cup OfLog(log, ns))
    BY <1>2 DEF InsertLog
  <2>2. Represents(Insert(maps[r], log, ns), known[r] \cup {log},
                   (cells[r] \ OfLog(log, SeqNo)) \cup OfLog(log, ns))
    BY InsertRepresents, LogsAssumption DEF MapsInv
  <2> QED
    BY <2>1, <2>2, BecomesInv
<1>3. ASSUME NEW r \in Register, RemoveLog(r) PROVE MapsInv'
  <2>1. PICK log \in Logs :
           Becomes(r, Remove(maps[r], log), known[r] \ {log}, cells[r] \ OfLog(log, SeqNo))
    BY <1>3 DEF RemoveLog
  <2>2. Represents(Remove(maps[r], log), known[r] \ {log}, cells[r] \ OfLog(log, SeqNo))
    BY RemoveRepresents, LogsAssumption DEF MapsInv
  <2> QED
    BY <2>1, <2>2, BecomesInv
<1>4. ASSUME NEW r \in Register, CombineMaps(r) PROVE MapsInv'
  <2> DEFINE o == CHOOSE q \in Register : q # r
  <2>1. o \in Register
    BY DEF Register
  <2> HIDE DEF o
  <2>2. /\ Represents(maps[r], known[r], cells[r])
        /\ Represents(maps[o], known[o], cells[o])
    BY <2>1 DEF MapsInv
  <2>3. CASE Becomes(r, Union(maps[r], maps[o]), known[r] \cup known[o], cells[r] \cup cells[o])
    BY <2>2, <2>3, UnionRepresents, BecomesInv
  <2>4. CASE Becomes(r, Intersection(maps[r], maps[o]), LogsWith(cells[r] \cap cells[o]),
                     cells[r] \cap cells[o])
    <3>1. Represents(Intersection(maps[r], maps[o]), LogsWith(cells[r] \cap cells[o]),
                     cells[r] \cap cells[o])
      BY <2>2, WireRepresents
    <3> QED
      BY <2>4, <3>1, BecomesInv
  <2>5. CASE Becomes(r, Difference(maps[r], maps[o]), LogsWith(cells[r] \ cells[o]),
                     cells[r] \ cells[o])
    <3>1. Represents(Difference(maps[r], maps[o]), LogsWith(cells[r] \ cells[o]),
                     cells[r] \ cells[o])
      BY <2>2, WireRepresents
    <3> QED
      BY <2>5, <3>1, BecomesInv
  <2> QED
    BY <1>4, <2>3, <2>4, <2>5 DEF CombineMaps, o
<1> QED
  BY <1>1, <1>2, <1>3, <1>4 DEF LogsNext

\* LogRanges: whatever sequence of insert, remove, union, intersection and
\* difference made it, a nested map knows and contains exactly what flat sets
\* put through the same operations do, is empty iff they hold no cell, and is
\* accepted by its own decoder.
THEOREM MapsAreSets == LogsSpec => []MapsDenoteSets
<1>1. MapsInv => MapsDenoteSets
  BY RepresentsDenotes DEF MapsInv, MapsDenoteSets
<1> QED
  BY <1>1, MapsInitInv, MapsNextInv, PTL DEF LogsSpec

-----------------------------------------------------------------------------
\* The packing of Haves.

\* An op as it is sent: one of Items, or one without its payload.
Op == [log : Nat, header : Nat, payload : Nat]

\* The image of an interval under a function is finite.
LEMMA ImageFinite ==
    ASSUME NEW n \in Nat, NEW f, DOMAIN f = 1..n
    PROVE  IsFiniteSet({f[k] : k \in 1..n})
<1> DEFINE T == {f[k] : k \in 1..n}
           g == [k \in 1..n |-> f[k]]
<1>1. g \in Surjection(1..n, T)
  BY DEF Surjection
<1>2. IsFiniteSet(1..n)
  BY FS_Interval
<1> HIDE DEF g, T
<1>3. IsFiniteSet(T)
  BY <1>1, <1>2, FS_Surjection
<1> QED
  BY <1>3 DEF T

\* A list of ops has finitely many bytes.
LEMMA BytesFinite ==
    ASSUME NEW b \in Seq(Op)
    PROVE  /\ IsFiniteSet({b[k].log : k \in DOMAIN b})
           /\ IsFiniteSet(Content(b))
           /\ Cardinality({b[k].log : k \in DOMAIN b}) \in Nat
           /\ Cardinality(Content(b)) \in Nat
<1> DEFINE n == Len(b)
           logs == [k \in 1..n |-> b[k].log]
           parts == [k \in 1..n |-> {k} \X (1..(b[k].header + b[k].payload))]
<1>1. n \in Nat /\ DOMAIN b = 1..n
  OBVIOUS
<1>2. {b[k].log : k \in DOMAIN b} = {logs[k] : k \in 1..n}
  OBVIOUS
<1>3. Content(b) = UNION {parts[k] : k \in 1..n}
  BY DEF Content
<1>4. \A k \in 1..n : IsFiniteSet(parts[k])
  <2> TAKE k \in 1..n
  <2>1. b[k] \in Op
    OBVIOUS
  <2>2. b[k].header + b[k].payload \in Int
    BY <2>1 DEF Op
  <2> DEFINE size == b[k].header + b[k].payload
  <2>5. size \in Int
    BY <2>2
  <2> HIDE DEF size
  <2>6. IsFiniteSet(1..size)
    BY <2>5, FS_Interval
  <2>3. IsFiniteSet({k}) /\ IsFiniteSet(1..size)
    BY <2>6, FS_Singleton
  <2>4. IsFiniteSet({k} \X (1..size))
    BY <2>3, FS_Product
  <2> QED
    BY <2>4 DEF size
<1>5. DOMAIN logs = 1..n /\ DOMAIN parts = 1..n
  OBVIOUS
<1> HIDE DEF logs, parts, n
<1>6. IsFiniteSet({logs[k] : k \in 1..n}) /\ IsFiniteSet({parts[k] : k \in 1..n})
  BY <1>1, <1>5, ImageFinite
<1>7. \A T \in {parts[k] : k \in 1..n} : IsFiniteSet(T)
  BY <1>4
<1>8. IsFiniteSet(UNION {parts[k] : k \in 1..n})
  BY <1>6, <1>7, FS_UNION
<1> QED
  BY <1>2, <1>3, <1>6, <1>8, FS_CardinalityType

LEMMA BytesNat == ASSUME NEW b \in Seq(Op) PROVE Bytes(b) \in Nat
<1>1. Cardinality({b[k].log : k \in DOMAIN b}) \in Nat /\ Cardinality(Content(b)) \in Nat
  BY BytesFinite
<1> QED
  BY <1>1 DEF Bytes

\* What fits beside other ops fits alone.
LEMMA FitsAlone ==
    ASSUME NEW b \in Seq(Op), NEW x \in Op
    PROVE  Bytes(<<x>>) <= Bytes(Append(b, x))
<1> DEFINE c == Append(b, x)
           one == <<x>>
           n == Len(b) + 1
<1>1. c \in Seq(Op) /\ one \in Seq(Op)
  OBVIOUS
<1>2. /\ DOMAIN c = 1..n /\ c[n] = x /\ n \in 1..n
      /\ DOMAIN one = {1} /\ one[1] = x
  OBVIOUS
<1> HIDE DEF c, one, n
<1>3. {one[k].log : k \in DOMAIN one} \subseteq {c[k].log : k \in DOMAIN c}
  BY <1>2
<1>4. Cardinality({one[k].log : k \in DOMAIN one}) <= Cardinality({c[k].log : k \in DOMAIN c})
  BY <1>1, <1>3, BytesFinite, FS_Subset
<1>5. Cardinality(Content(one)) <= Cardinality(Content(c))
  <2> DEFINE size == x.header + x.payload
             f == [s \in Content(one) |-> <<n, s[2]>>]
  <2>1. Content(one) = {1} \X (1..size)
    BY <1>2 DEF Content
  <2>2. {n} \X (1..size) \subseteq Content(c)
    BY <1>2 DEF Content
  <2>3. f \in [Content(one) -> Content(c)]
    BY <2>1, <2>2
  <2>4. \A s, t \in Content(one) : f[s] = f[t] => s = t
    BY <2>1
  <2>5. f \in Injection(Content(one), Content(c))
    BY <2>3, <2>4 DEF Injection, IsInjective
  <2> HIDE DEF f, size
  <2> QED
    BY <1>1, <2>5, BytesFinite, FS_Injection
<1>6. /\ Cardinality({one[k].log : k \in DOMAIN one}) \in Nat
      /\ Cardinality({c[k].log : k \in DOMAIN c}) \in Nat
      /\ Cardinality(Content(one)) \in Nat /\ Cardinality(Content(c)) \in Nat
  BY <1>1, BytesFinite
<1>7. Bytes(one) <= Bytes(c)
  BY <1>4, <1>5, <1>6 DEF Bytes
<1> QED
  BY <1>7 DEF one, c

\* An op that fits alone fits without its payload.
LEMMA HeaderFits ==
    ASSUME NEW x \in Op, maxBytes \in Nat
    PROVE  HeaderOnly(x) \in Op /\ (Alone(x) => Alone(HeaderOnly(x)))
<1> DEFINE y == HeaderOnly(x)
           one == <<x>>
           bare == <<y>>
<1>1. y \in Op /\ y.log = x.log /\ y.header = x.header /\ y.payload = 0
  BY DEF HeaderOnly, Op
<1>2. x.header \in Nat /\ x.payload \in Nat
  BY DEF Op
<1> HIDE DEF y
<1>3. one \in Seq(Op) /\ bare \in Seq(Op)
  BY <1>1
<1>4. DOMAIN one = {1} /\ one[1] = x /\ DOMAIN bare = {1} /\ bare[1] = y
  OBVIOUS
<1> HIDE DEF one, bare
<1>5. {bare[k].log : k \in DOMAIN bare} = {one[k].log : k \in DOMAIN one}
  BY <1>1, <1>4
<1>6. Content(one) = {1} \X (1..(x.header + x.payload)) /\ Content(bare) = {1} \X (1..x.header)
  BY <1>1, <1>2, <1>4 DEF Content
<1>7. Content(bare) \subseteq Content(one)
  BY <1>2, <1>6
<1>8. Cardinality(Content(bare)) <= Cardinality(Content(one))
  BY <1>3, <1>7, BytesFinite, FS_Subset
<1>9. /\ Cardinality({one[k].log : k \in DOMAIN one}) \in Nat
      /\ Cardinality(Content(one)) \in Nat /\ Cardinality(Content(bare)) \in Nat
  BY <1>3, BytesFinite
<1>10. Bytes(one) <= maxBytes => Bytes(bare) <= maxBytes
  BY <1>5, <1>8, <1>9 DEF Bytes
<1> QED
  BY <1>1, <1>10 DEF Alone, y, one, bare

-----------------------------------------------------------------------------

\* The ops looked at so far, and the Haves with the one being filled.
LookedAt == Len(ops) - Len(rest)

Made == WithBatch(haves, batch)

\* Those of the first n ops that can be sent.
SendableTo(n) == {k \in Sendable : k <= n}

HaveTypeInv ==
    /\ ops \in Seq(Op) /\ rest \in Seq(Op) /\ batch \in Seq(Op)
    /\ haves \in Seq(Seq(Op)) /\ maxBytes \in Nat
    /\ Len(rest) <= Len(ops)
    /\ \A k \in 1..Len(rest) : rest[k] = ops[LookedAt + k]

HavesFit ==
    /\ \A k \in DOMAIN haves : haves[k] # <<>> /\ Bytes(haves[k]) <= maxBytes
    /\ batch # <<>> => Bytes(batch) <= maxBytes

\* What was looked at is in its place, or was dropped and counted.
HaveInv ==
    /\ HaveTypeInv
    /\ HavesFit
    /\ \E place \in [SendableTo(LookedAt) -> Slots(Made)] :
          Places(place, SendableTo(LookedAt), Made)
    /\ dropped = Cardinality((1..LookedAt) \ Sendable)
    /\ packed => rest = <<>> /\ batch = <<>>

\* The slots of the Haves with the one being filled.
LEMMA SlotsMade ==
    ASSUME NEW hs \in Seq(Seq(Op)), NEW b \in Seq(Op)
    PROVE  /\ Slots(WithBatch(hs, b)) = Slots(hs) \cup ({Len(hs) + 1} \X DOMAIN b)
           /\ \A s \in Slots(hs) : s[1] \in 1..Len(hs) /\ s[2] \in DOMAIN hs[s[1]]
                 /\ s = <<s[1], s[2]>> /\ s[2] \in Nat
                 /\ WithBatch(hs, b)[s[1]] = hs[s[1]]
           /\ b # <<>> => WithBatch(hs, b)[Len(hs) + 1] = b
           /\ WithBatch(hs, b) \in Seq(Seq(Op))
<1> DEFINE n == Len(hs) + 1
           all == WithBatch(hs, b)
<1>1. ASSUME NEW s \in Slots(hs)
      PROVE  s[1] \in 1..Len(hs) /\ s[2] \in DOMAIN hs[s[1]] /\ s = <<s[1], s[2]>> /\ s[2] \in Nat
  <2>1. PICK h \in DOMAIN hs : s \in {h} \X DOMAIN hs[h]
    BY DEF Slots
  <2>2. hs[h] \in Seq(Op)
    OBVIOUS
  <2>3. DOMAIN hs[h] = 1..Len(hs[h])
    BY <2>2
  <2>4. s[1] = h /\ s[2] \in DOMAIN hs[h] /\ s = <<s[1], s[2]>>
    BY <2>1
  <2> QED
    BY <2>3, <2>4
<1>2. CASE b = <<>>
  <2>1. all = hs /\ DOMAIN b = {}
    BY <1>2 DEF WithBatch
  <2> HIDE DEF all
  <2> QED
    BY <1>1, <1>2, <2>1 DEF all
<1>3. CASE b # <<>>
  <2>1. all = Append(hs, b)
    BY <1>3 DEF WithBatch
  <2>2. /\ DOMAIN all = DOMAIN hs \cup {n} /\ all[n] = b /\ all \in Seq(Seq(Op))
        /\ \A h \in DOMAIN hs : all[h] = hs[h]
    BY <2>1
  <2> HIDE DEF all, n
  <2>3. Slots(all) = Slots(hs) \cup ({n} \X DOMAIN b)
    BY <2>2 DEF Slots
  <2>4. \A s \in Slots(hs) : all[s[1]] = hs[s[1]]
    BY <1>1, <2>2
  <2> QED
    BY <1>1, <2>2, <2>3, <2>4 DEF all, n
<1> QED
  BY <1>2, <1>3

\* The ops of I are placed in some Haves, and others are these with op i in
\* a slot behind.
Another(place, I, list, more, slot, i) ==
    /\ place \in [I -> Slots(list)] /\ Places(place, I, list)
    /\ I \in SUBSET Nat /\ i \in Nat /\ \A k \in I : k < i
    /\ Slots(more) = Slots(list) \cup {slot}
    /\ \A s \in Slots(list) : Before(s, slot) /\ more[s[1]][s[2]] = list[s[1]][s[2]]
    /\ more[slot[1]][slot[2]] = IF Alone(ops[i]) THEN ops[i] ELSE HeaderOnly(ops[i])

\* One more op is placed behind the others.
LEMMA PlaceAnother ==
    ASSUME NEW place, NEW I, NEW all, NEW all2, NEW slot, NEW i,
           Another(place, I, all, all2, slot, i)
    PROVE  \E p \in [I \cup {i} -> Slots(all2)] : Places(p, I \cup {i}, all2)
<1> DEFINE p == [k \in I \cup {i} |-> IF k = i THEN slot ELSE place[k]]
<1>0. i \notin I
  BY DEF Another
<1>1. p[i] = slot /\ \A k \in I : p[k] = place[k] /\ place[k] \in Slots(all)
  BY <1>0 DEF Another
<1>2. p \in [I \cup {i} -> Slots(all2)]
  BY <1>0 DEF Another
<1> HIDE DEF p
<1>3. {p[k] : k \in I \cup {i}} = Slots(all2)
  <2>1. {place[k] : k \in I} = Slots(all)
    BY DEF Places, Another
  <2>2. {p[k] : k \in I \cup {i}} = {place[k] : k \in I} \cup {slot}
    BY <1>1
  <2> QED
    BY <2>1, <2>2 DEF Another
<1>4. ASSUME NEW j \in I \cup {i}, NEW k \in I \cup {i}, j < k PROVE Before(p[j], p[k])
  <2>1. j \in I
    BY <1>4 DEF Another
  <2>2. CASE k = i
    BY <1>1, <2>1, <2>2 DEF Another
  <2>3. CASE k \in I
    BY <1>1, <1>4, <2>1, <2>3 DEF Places, Another
  <2> QED
    BY <2>2, <2>3
<1>5. ASSUME NEW k \in I \cup {i}
      PROVE  all2[p[k][1]][p[k][2]] = IF Alone(ops[k]) THEN ops[k] ELSE HeaderOnly(ops[k])
  <2>1. CASE k = i
    BY <1>1, <2>1 DEF Another
  <2>2. CASE k \in I
    BY <1>1, <2>2 DEF Places, Another
  <2> QED
    BY <2>1, <2>2
<1>6. Places(p, I \cup {i}, all2)
  BY <1>3, <1>4, <1>5 DEF Places
<1> QED
  BY <1>2, <1>6

\* A placement stays one while the ops and the budget are kept.
LEMMA PlacesKept ==
    ASSUME NEW p, NEW I, NEW list, Places(p, I, list), ops' = ops, maxBytes' = maxBytes
    PROVE  Places(p, I, list)'
BY DEF Places, Alone

\* What Made and the indices become, by name.
LEMMA PlacedNext ==
    ASSUME NEW I, NEW list, ops' = ops, maxBytes' = maxBytes,
           SendableTo(LookedAt)' = I, Made' = list,
           \E p \in [I -> Slots(list)] : Places(p, I, list)
    PROVE  (\E place \in [SendableTo(LookedAt) -> Slots(Made)] :
               Places(place, SendableTo(LookedAt), Made))'
<1>1. PICK p \in [I -> Slots(list)] : Places(p, I, list)
  OBVIOUS
<1>2. Places(p, I, list)'
  BY <1>1, PlacesKept
<1> QED
  BY <1>1, <1>2 DEF Places, Slots

LEMMA HaveInitInv == HaveStarts => HaveInv
<1> SUFFICES ASSUME HaveStarts PROVE HaveInv
  OBVIOUS
<1>1. ops \in Seq(Op) /\ maxBytes \in Nat
  <2>1. ops \in Seq(Items) /\ maxBytes \in Nat
    BY ItemsAssumption DEF HaveStarts
  <2>2. Items \subseteq Op
    BY ItemsAssumption DEF Op
  <2> QED
    BY <2>1, <2>2, SeqMonotonic
<1>2. rest = ops /\ batch = <<>> /\ haves = <<>> /\ dropped = 0 /\ packed = FALSE
  BY DEF HaveStarts
<1>3. LookedAt = 0
  BY <1>1, <1>2 DEF LookedAt
<1>4. HaveTypeInv
  BY <1>1, <1>2, <1>3 DEF HaveTypeInv
<1>5. HavesFit
  BY <1>2 DEF HavesFit
<1>6. SendableTo(0) = {}
  BY <1>1 DEF SendableTo, Sendable
<1>7. Made = <<>> /\ Slots(<<>>) = {}
  BY <1>2 DEF Made, WithBatch, Slots
<1>8. \E place \in [{} -> {}] : Places(place, {}, <<>>)
  <2>1. [k \in {} |-> 0] \in [{} -> {}]
    OBVIOUS
  <2>2. Places([k \in {} |-> 0], {}, <<>>)
    BY <1>7 DEF Places
  <2> QED
    BY <2>1, <2>2
<1>9. (1..0) \ Sendable = {}
  OBVIOUS
<1>10. dropped = Cardinality((1..0) \ Sendable)
  BY <1>2, <1>9, FS_EmptySet
<1> QED
  BY <1>2, <1>3, <1>4, <1>5, <1>6, <1>7, <1>8, <1>10 DEF HaveInv

\* An op joins the batch, starts the next, or is dropped and counted.
LEMMA TakeOpInv == HaveInv /\ TakeOp => HaveInv'
<1> SUFFICES ASSUME HaveInv, TakeOp PROVE HaveInv'
  OBVIOUS
<1> DEFINE n == LookedAt
           i == n + 1
           x == Head(rest)
           open == {Len(haves) + 1} \X DOMAIN batch
<1>1. /\ ops \in Seq(Op) /\ rest \in Seq(Op) /\ batch \in Seq(Op)
      /\ haves \in Seq(Seq(Op)) /\ maxBytes \in Nat /\ Len(rest) <= Len(ops)
      /\ rest # <<>> /\ rest' = Tail(rest) /\ ops' = ops /\ maxBytes' = maxBytes
      /\ packed' = packed /\ packed = FALSE
  BY DEF HaveInv, HaveTypeInv, TakeOp
<1>2. /\ x \in Op /\ x = rest[1] /\ Len(rest) \in Nat /\ Len(rest) >= 1
      /\ rest' \in Seq(Op) /\ Len(rest') = Len(rest) - 1
      /\ \A k \in 1..(Len(rest) - 1) : rest'[k] = rest[k + 1]
  BY <1>1
<1>3. n \in Nat /\ i \in Nat /\ i \in 1..Len(ops) /\ x = ops[i] /\ LookedAt' = i
  BY <1>1, <1>2 DEF HaveInv, HaveTypeInv, LookedAt
<1>4. \A k \in 1..Len(rest') : rest'[k] = ops[i + k]
  <2> TAKE k \in 1..Len(rest')
  <2>1. rest'[k] = rest[k + 1] /\ k + 1 \in 1..Len(rest)
    BY <1>2
  <2>2. rest[k + 1] = ops[n + (k + 1)]
    BY <2>1 DEF HaveInv, HaveTypeInv
  <2> QED
    BY <1>3, <2>1, <2>2
<1>5. HeaderOnly(x) \in Op /\ (Alone(x) => Alone(HeaderOnly(x)))
  BY <1>1, <1>2, HeaderFits
<1>6. Sendable' = Sendable
  BY <1>1 DEF Sendable, Alone
<1>7. i \in Sendable <=> Alone(HeaderOnly(x))
  BY <1>1, <1>3 DEF Sendable
<1>8. /\ i \in Sendable => SendableTo(i) = SendableTo(n) \cup {i}
      /\ i \notin Sendable => SendableTo(i) = SendableTo(n)
  <2>1. \A k \in Sendable : k \in Nat /\ (k <= i <=> k <= n \/ k = i)
    BY <1>1, <1>3 DEF Sendable
  <2> HIDE DEF i, n
  <2> QED
    BY <1>3, <2>1 DEF SendableTo
<1>9. SendableTo(n) \in SUBSET Nat /\ \A k \in SendableTo(n) : k < i
  BY <1>1, <1>3 DEF SendableTo, Sendable
<1>10. PICK place \in [SendableTo(n) -> Slots(Made)] : Places(place, SendableTo(n), Made)
  BY DEF HaveInv
<1>11. /\ i \in Sendable => (1..i) \ Sendable = (1..n) \ Sendable
       /\ i \notin Sendable => Cardinality((1..i) \ Sendable) = Cardinality((1..n) \ Sendable) + 1
  <2>1. i \in Sendable => (1..i) \ Sendable = (1..n) \ Sendable
    BY <1>3
  <2>2. i \notin Sendable =>
           /\ (1..i) \ Sendable = ((1..n) \ Sendable) \cup {i}
           /\ i \notin (1..n) \ Sendable
    BY <1>3
  <2> HIDE DEF i, n
  <2>4. IsFiniteSet(1..n)
    BY <1>3, FS_Interval
  <2>3. IsFiniteSet((1..n) \ Sendable)
    BY <2>4, FS_Difference
  <2> QED
    BY <2>1, <2>2, <2>3, FS_AddElement
<1>12. /\ Slots(Made) = Slots(haves) \cup open
       /\ \A s \in Slots(haves) : s[1] \in 1..Len(haves) /\ s[2] \in DOMAIN haves[s[1]]
             /\ s = <<s[1], s[2]>> /\ s[2] \in Nat
             /\ Made[s[1]] = haves[s[1]]
       /\ batch # <<>> => Made[Len(haves) + 1] = batch
       /\ Made \in Seq(Seq(Op))
  BY <1>1, SlotsMade DEF Made
<1>13. \A k \in DOMAIN Made : Made[k] # <<>> /\ Bytes(Made[k]) <= maxBytes
  <2>1. CASE batch = <<>>
    BY <2>1 DEF Made, WithBatch, HaveInv, HavesFit
  <2>2. CASE batch # <<>>
    <3>1. Made = Append(haves, batch)
      BY <2>2 DEF Made, WithBatch
    <3>2. \A k \in DOMAIN Made : (k \in DOMAIN haves /\ Made[k] = haves[k]) \/ Made[k] = batch
      BY <1>1, <3>1
    <3> QED
      BY <2>2, <3>2 DEF HaveInv, HavesFit
  <2> QED
    BY <2>1, <2>2
<1>14. dropped = Cardinality((1..n) \ Sendable)
  BY DEF HaveInv
<1> HIDE DEF n, i, x, open
<1>17. SendableTo(LookedAt)' = SendableTo(i)
  BY <1>3, <1>6 DEF SendableTo
<1>15. CASE Bytes(Append(batch, x)) <= maxBytes
  <2> DEFINE b == Append(batch, x)
             slot == <<Len(haves) + 1, Len(batch) + 1>>
             all == WithBatch(haves, b)
  <2>1. batch' = b /\ haves' = haves /\ dropped' = dropped
    BY <1>15 DEF TakeOp, x
  <2>2. Alone(x) /\ i \in Sendable
    <3>1. Bytes(<<x>>) <= Bytes(b)
      BY <1>1, <1>2, FitsAlone
    <3>2. b \in Seq(Op) /\ <<x>> \in Seq(Op)
      BY <1>1, <1>2
    <3> HIDE DEF b
    <3>3. Bytes(b) \in Nat /\ Bytes(<<x>>) \in Nat
      BY <3>2, BytesNat
    <3>4. Bytes(<<x>>) <= maxBytes
      BY <1>1, <1>15, <3>1, <3>3 DEF b
    <3> QED
      BY <1>5, <1>7, <3>4 DEF Alone
  <2>3. b \in Seq(Op) /\ b # <<>> /\ DOMAIN b = DOMAIN batch \cup {Len(batch) + 1}
        /\ b[Len(batch) + 1] = x /\ \A k \in DOMAIN batch : b[k] = batch[k] /\ k < Len(batch) + 1
    <3> HIDE DEF n
    <3>1. Len(batch) \in Nat /\ DOMAIN batch = 1..Len(batch)
      BY <1>1
    <3>2. b \in Seq(Op) /\ Len(b) = Len(batch) + 1 /\ b[Len(batch) + 1] = x
      BY <1>1, <1>2
    <3>3. \A k \in 1..Len(batch) : b[k] = batch[k]
      BY <1>1, <1>2
    <3> HIDE DEF b
    <3>4. DOMAIN b = 1..Len(b)
      BY <3>2
    <3> QED
      BY <3>1, <3>2, <3>3, <3>4
  <2> HIDE DEF b
  <2>4. /\ Slots(all) = Slots(haves) \cup ({Len(haves) + 1} \X DOMAIN b)
        /\ \A s \in Slots(haves) : all[s[1]] = haves[s[1]]
        /\ all[Len(haves) + 1] = b
        /\ all \in Seq(Seq(Op))
    BY <1>1, <2>3, SlotsMade
  <2>5. all = Made'
    BY <2>1 DEF Made
  <2> HIDE DEF all
  <2>6. Slots(all) = Slots(Made) \cup {slot}
    BY <1>12, <2>3, <2>4 DEF open
  <2>7. all[slot[1]][slot[2]] = x
    BY <2>3, <2>4
  <2>8. ASSUME NEW s \in Slots(Made)
        PROVE  Before(s, slot) /\ all[s[1]][s[2]] = Made[s[1]][s[2]]
    <3>0. Len(haves) \in Nat
      BY <1>1
    <3>1. CASE s \in Slots(haves)
      <4>1. s[1] \in 1..Len(haves) /\ slot[1] = Len(haves) + 1
        BY <1>12, <3>1
      <4>2. s[1] < slot[1]
        BY <3>0, <4>1
      <4>3. all[s[1]] = Made[s[1]]
        BY <1>12, <2>4, <3>1
      <4> HIDE DEF slot
      <4> QED
        BY <4>2, <4>3 DEF Before
    <3>2. CASE s \in open
      <4>1. s[1] = Len(haves) + 1 /\ s[2] \in DOMAIN batch /\ batch # <<>>
        BY <3>2 DEF open
      <4> QED
        BY <1>12, <2>3, <2>4, <4>1 DEF Before
    <3> QED
      BY <1>12, <3>1, <3>2
  <2>9. all[slot[1]][slot[2]] = IF Alone(ops[i]) THEN ops[i] ELSE HeaderOnly(ops[i])
    BY <1>3, <2>2, <2>7
  <2>10. \E p \in [SendableTo(n) \cup {i} -> Slots(all)] : Places(p, SendableTo(n) \cup {i}, all)
    <3> DEFINE I == SendableTo(n)
                 hs == Made
    <3>1. Places(place, I, hs) /\ place \in [I -> Slots(hs)]
      BY <1>10
    <3>2. I \in SUBSET Nat /\ i \in Nat /\ \A k \in I : k < i
      BY <1>3, <1>9
    <3>3. Slots(all) = Slots(hs) \cup {slot}
      BY <2>6
    <3>4. \A s \in Slots(hs) : Before(s, slot) /\ all[s[1]][s[2]] = hs[s[1]][s[2]]
      BY <2>8
    <3> HIDE DEF slot, I, hs
    <3>5. all[slot[1]][slot[2]] = IF Alone(ops[i]) THEN ops[i] ELSE HeaderOnly(ops[i])
      BY <2>9
    <3>7. Another(place, I, hs, all, slot, i)
      BY <3>1, <3>2, <3>3, <3>4, <3>5 DEF Another
    <3>6. \E p \in [I \cup {i} -> Slots(all)] : Places(p, I \cup {i}, all)
      BY <3>7, PlaceAnother
    <3> QED
      BY <3>6 DEF I
  <2>11. \E p \in [SendableTo(i) -> Slots(all)] : Places(p, SendableTo(i), all)
    BY <1>8, <2>2, <2>10
  <2>12. HaveTypeInv'
    BY <1>1, <1>2, <1>3, <1>4, <2>1, <2>3 DEF HaveTypeInv
  <2>13. HavesFit'
    BY <1>1, <1>15, <2>1 DEF HavesFit, HaveInv, b
  <2>14. dropped' = Cardinality((1..i) \ Sendable)
    BY <1>11, <1>14, <2>1, <2>2
  <2>15. (\E p \in [SendableTo(LookedAt) -> Slots(Made)] :
             Places(p, SendableTo(LookedAt), Made))'
    BY <1>1, <1>17, <2>5, <2>11, PlacedNext
  <2> QED
    BY <1>1, <1>3, <1>6, <2>12, <2>13, <2>14, <2>15 DEF HaveInv
<1>16. CASE ~(Bytes(Append(batch, x)) <= maxBytes)
  <2> DEFINE b == Sent(x)
             y == IF Alone(x) THEN x ELSE HeaderOnly(x)
             slot == <<Len(Made) + 1, 1>>
             all == WithBatch(Made, b)
  <2>1. /\ batch' = b /\ haves' = Made
        /\ dropped' = IF b = <<>> THEN dropped + 1 ELSE dropped
    BY <1>16 DEF TakeOp, x, Made
  <2>2. CASE i \in Sendable
    <3>1. b = <<y>> /\ y \in Op /\ Bytes(b) <= maxBytes
      BY <1>2, <1>5, <1>7, <2>2 DEF Sent, Alone
    <3>2. b \in Seq(Op) /\ b # <<>> /\ DOMAIN b = {1} /\ b[1] = y
      BY <3>1
    <3> HIDE DEF b
    <3>3. /\ Slots(all) = Slots(Made) \cup ({Len(Made) + 1} \X DOMAIN b)
          /\ \A s \in Slots(Made) : s[1] \in 1..Len(Made) /\ s[2] \in Nat
                /\ all[s[1]] = Made[s[1]]
          /\ all[Len(Made) + 1] = b
          /\ all \in Seq(Seq(Op))
      BY <1>12, <3>2, SlotsMade
    <3>4. all = Made'
      BY <2>1 DEF Made
    <3> HIDE DEF all
    <3>5. Slots(all) = Slots(Made) \cup {slot}
      BY <3>2, <3>3
    <3>6. all[slot[1]][slot[2]] = IF Alone(ops[i]) THEN ops[i] ELSE HeaderOnly(ops[i])
      BY <1>3, <3>2, <3>3
    <3>7. ASSUME NEW s \in Slots(Made)
          PROVE  Before(s, slot) /\ all[s[1]][s[2]] = Made[s[1]][s[2]]
      <4>1. s[1] \in 1..Len(Made) /\ Len(Made) \in Nat /\ slot[1] = Len(Made) + 1
        BY <1>12, <3>3
      <4>2. s[1] < slot[1]
        BY <4>1
      <4> HIDE DEF slot
      <4> QED
        BY <3>3, <4>2 DEF Before
    <3>8. \E p \in [SendableTo(n) \cup {i} -> Slots(all)] : Places(p, SendableTo(n) \cup {i}, all)
      <4> DEFINE I == SendableTo(n)
                 hs == Made
      <4>1. Places(place, I, hs) /\ place \in [I -> Slots(hs)]
        BY <1>10
      <4>2. I \in SUBSET Nat /\ i \in Nat /\ \A k \in I : k < i
        BY <1>3, <1>9
      <4>3. Slots(all) = Slots(hs) \cup {slot}
        BY <3>5
      <4>4. \A s \in Slots(hs) : Before(s, slot) /\ all[s[1]][s[2]] = hs[s[1]][s[2]]
        BY <3>7
      <4> HIDE DEF slot, I, hs
      <4>5. all[slot[1]][slot[2]] = IF Alone(ops[i]) THEN ops[i] ELSE HeaderOnly(ops[i])
        BY <3>6
      <4>7. Another(place, I, hs, all, slot, i)
        BY <4>1, <4>2, <4>3, <4>4, <4>5 DEF Another
      <4>6. \E p \in [I \cup {i} -> Slots(all)] : Places(p, I \cup {i}, all)
        BY <4>7, PlaceAnother
      <4> QED
        BY <4>6 DEF I
    <3>9. \E p \in [SendableTo(i) -> Slots(all)] : Places(p, SendableTo(i), all)
      BY <1>8, <2>2, <3>8
    <3>10. HaveTypeInv'
      BY <1>1, <1>2, <1>3, <1>4, <1>12, <2>1, <3>2 DEF HaveTypeInv
    <3>11. HavesFit'
      BY <1>1, <1>13, <2>1, <3>1 DEF HavesFit
    <3>12. dropped' = Cardinality((1..i) \ Sendable)
      BY <1>11, <1>14, <2>1, <2>2, <3>2
    <3>13. (\E p \in [SendableTo(LookedAt) -> Slots(Made)] :
               Places(p, SendableTo(LookedAt), Made))'
      BY <1>1, <1>17, <3>4, <3>9, PlacedNext
    <3> QED
      BY <1>1, <1>3, <1>6, <3>10, <3>11, <3>12, <3>13 DEF HaveInv
  <2>3. CASE i \notin Sendable
    <3>1. b = <<>>
      BY <1>5, <1>7, <2>3 DEF Sent
    <3> HIDE DEF b
    <3>2. Made' = Made
      BY <2>1, <3>1 DEF Made, WithBatch
    <3>3. HaveTypeInv'
      BY <1>1, <1>2, <1>3, <1>4, <1>12, <2>1, <3>1 DEF HaveTypeInv
    <3>4. HavesFit'
      BY <1>1, <1>13, <2>1, <3>1 DEF HavesFit
    <3>5. dropped' = Cardinality((1..i) \ Sendable)
      BY <1>11, <1>14, <2>1, <2>3, <3>1
    <3>6. \E p \in [SendableTo(i) -> Slots(Made)] : Places(p, SendableTo(i), Made)
      BY <1>8, <1>10, <2>3
    <3>7. (\E p \in [SendableTo(LookedAt) -> Slots(Made)] :
              Places(p, SendableTo(LookedAt), Made))'
      BY <1>1, <1>17, <3>2, <3>6, PlacedNext
    <3> QED
      BY <1>1, <1>3, <1>6, <3>3, <3>4, <3>5, <3>7 DEF HaveInv
  <2> QED
    BY <2>2, <2>3
<1> QED
  BY <1>15, <1>16

\* The last batch is closed.
LEMMA HaveEndsInv == HaveInv /\ HaveEnds => HaveInv'
<1> SUFFICES ASSUME HaveInv, HaveEnds PROVE HaveInv'
  OBVIOUS
<1>1. /\ ops' = ops /\ rest' = rest /\ maxBytes' = maxBytes /\ dropped' = dropped
      /\ batch' = <<>> /\ rest = <<>> /\ haves' = Made
  BY DEF HaveEnds, Made
<1>2. LookedAt' = LookedAt /\ Sendable' = Sendable /\ Made' = Made
  BY <1>1 DEF LookedAt, Sendable, Alone, Made, WithBatch
<1>3. /\ ops \in Seq(Op) /\ rest \in Seq(Op) /\ batch \in Seq(Op)
      /\ haves \in Seq(Seq(Op)) /\ maxBytes \in Nat
  BY DEF HaveInv, HaveTypeInv
<1>4. Made \in Seq(Seq(Op))
  BY <1>3, SlotsMade DEF Made
<1>5. HaveTypeInv'
  BY <1>1, <1>2, <1>3, <1>4 DEF HaveInv, HaveTypeInv
<1>6. \A k \in DOMAIN Made : Made[k] # <<>> /\ Bytes(Made[k]) <= maxBytes
  <2>1. CASE batch = <<>>
    BY <2>1 DEF Made, WithBatch, HaveInv, HavesFit
  <2>2. CASE batch # <<>>
    <3>1. Made = Append(haves, batch)
      BY <2>2 DEF Made, WithBatch
    <3>2. \A k \in DOMAIN Made : (k \in DOMAIN haves /\ Made[k] = haves[k]) \/ Made[k] = batch
      BY <1>3, <3>1
    <3> QED
      BY <2>2, <3>2 DEF HaveInv, HavesFit
  <2> QED
    BY <2>1, <2>2
<1>7. HavesFit'
  BY <1>1, <1>6 DEF HavesFit
<1>8. (\E p \in [SendableTo(LookedAt) -> Slots(Made)] :
          Places(p, SendableTo(LookedAt), Made))'
  <2>1. SendableTo(LookedAt)' = SendableTo(LookedAt)
    BY <1>2 DEF SendableTo
  <2> QED
    BY <1>1, <1>2, <2>1, PlacedNext DEF HaveInv
<1> QED
  BY <1>1, <1>2, <1>5, <1>7, <1>8 DEF HaveInv

LEMMA HaveStutters == HaveInv /\ UNCHANGED haveVars => HaveInv'
<1> SUFFICES ASSUME HaveInv, UNCHANGED haveVars PROVE HaveInv'
  OBVIOUS
<1>1. /\ ops' = ops /\ rest' = rest /\ maxBytes' = maxBytes /\ dropped' = dropped
      /\ batch' = batch /\ haves' = haves /\ packed' = packed
  BY DEF haveVars
<1>2. LookedAt' = LookedAt /\ Sendable' = Sendable /\ Made' = Made
  BY <1>1 DEF LookedAt, Sendable, Alone, Made, WithBatch
<1>3. SendableTo(LookedAt)' = SendableTo(LookedAt)
  BY <1>2 DEF SendableTo
<1>4. (\E place \in [SendableTo(LookedAt) -> Slots(Made)] :
          Places(place, SendableTo(LookedAt), Made))'
  BY <1>1, <1>2, <1>3, PlacedNext DEF HaveInv
<1> QED
  BY <1>1, <1>2, <1>4 DEF HaveInv, HaveTypeInv, HavesFit

\* The invariant says that what was made is whole.
LEMMA HaveInvWhole == HaveInv => HavesWhole
<1> SUFFICES ASSUME HaveInv PROVE HavesWhole
  OBVIOUS
<1>1. ASSUME packed
      PROVE  /\ \E place \in [Sendable -> Slots(haves)] : Places(place, Sendable, haves)
             /\ dropped = Cardinality(DOMAIN ops \ Sendable)
  <2>1. rest = <<>> /\ batch = <<>> /\ ops \in Seq(Op)
    BY <1>1 DEF HaveInv, HaveTypeInv
  <2>2. LookedAt = Len(ops) /\ Made = haves /\ DOMAIN ops = 1..Len(ops)
    BY <2>1 DEF LookedAt, Made, WithBatch
  <2>3. SendableTo(Len(ops)) = Sendable
    BY <2>1 DEF SendableTo, Sendable
  <2> QED
    BY <2>2, <2>3 DEF HaveInv
<1> QED
  BY <1>1 DEF HavesWhole, HaveInv, HavesFit

\* pack_have: for every list of ops and every budget, each op that fits a Have
\* of its own is sent once, in order, with its payload if that fits; the
\* others are dropped and counted; and no Have is empty or exceeds the budget.
THEOREM PackedHavesAreWhole == HaveSpec => []HavesWhole
<1>1. HaveInv /\ [HaveNext]_haveVars => HaveInv'
  BY TakeOpInv, HaveEndsInv, HaveStutters DEF HaveNext
<1> QED
  BY <1>1, HaveInitInv, HaveInvWhole, PTL DEF HaveSpec

-----------------------------------------------------------------------------
\* The packing of Wants: what is counted and what is cut.

\* A listing of boundary lists, as a slice has one: what is shortened need
\* not be one of Lists.
Listing(have) ==
    /\ DOMAIN have \subseteq Author /\ IsFiniteSet(DOMAIN have)
    /\ have = [a \in DOMAIN have |-> have[a]]
    /\ \A a \in DOMAIN have : have[a] \in Boundaries \ {<<>>}

\* A nonempty finite set of naturals has a greatest element.
LEMMA GreatestOfFinite ==
    ASSUME NEW S \in SUBSET Nat, IsFiniteSet(S), S # {}
    PROVE  \E m \in S : \A y \in S : y <= m
<1> DEFINE After(m) == {y \in S : m < y}
           T == {After(m) : m \in S}
<1>1. T \subseteq FiniteSubsetsOf(S) /\ T # {}
  <2>1. FiniteSubsetsOf(S) = SUBSET S
    BY FS_FiniteSubsetsOfFinite
  <2>2. \A m \in S : After(m) \in SUBSET S
    OBVIOUS
  <2>3. T \subseteq SUBSET S
    BY <2>2
  <2>4. PICK m \in S : TRUE
    OBVIOUS
  <2>5. After(m) \in T
    OBVIOUS
  <2> HIDE DEF T
  <2> QED
    BY <2>1, <2>3, <2>5
<1>2. PICK A \in T : \A B \in T : <<B, A>> \notin StrictSubsetOrdering(S)
  BY <1>1, FS_StrictSubsetOrderingWellFounded, WFMin, Zenon
<1>3. PICK m \in S : A = After(m)
  OBVIOUS
<1>4. ASSUME NEW y \in S, m < y PROVE FALSE
  <2>0. \A z \in S : y < z => m < z
    <3> TAKE z \in S
    <3>1. y \in Nat /\ m \in Nat /\ z \in Nat
      OBVIOUS
    <3> QED
      BY <1>4, <3>1
  <2>1. After(y) \subseteq After(m)
    BY <2>0
  <2>2. y \in After(m) /\ y \notin After(y)
    BY <1>4
  <2>3. <<After(y), A>> \in StrictSubsetOrdering(S)
    BY <1>3, <2>1, <2>2 DEF StrictSubsetOrdering
  <2> QED
    BY <1>2, <2>3
<1>5. ASSUME NEW y \in S PROVE y <= m
  <2>1. y \in Nat /\ m \in Nat /\ ~(m < y)
    BY <1>4, <1>5
  <2> QED
    BY <2>1
<1> QED
  BY <1>5

\* A front of even length says less than the list: what is lost starts at the
\* boundary behind it.
LEMMA FrontSaysLess ==
    ASSUME NEW b \in Boundaries, NEW m \in Nat, m < Len(b), ~Odd(m)
    PROVE  /\ SubSeq(b, 1, m) \in Boundaries
           /\ {s \in Seqs : Has(SubSeq(b, 1, m), s)} \subseteq {s \in Seqs : Has(b, s)}
           /\ {s \in Seqs : Has(SubSeq(b, 1, m), s)} # {s \in Seqs : Has(b, s)}
<1> DEFINE c == SubSeq(b, 1, m)
           t == b[m + 1]
<1>1. /\ b \in Seq(Seqs) /\ Len(b) \in Nat /\ DOMAIN b = 1..Len(b) /\ Ascending(b)
      /\ Len(b) <= MaxSeq + 1
  <2>1. PICK n \in 0..(MaxSeq + 1) : b \in [1..n -> Seqs]
    BY DEF Boundaries
  <2>2. n \in Nat /\ n <= MaxSeq + 1
    BY MaxSeqAssumption
  <2>3. Len(b) = n
    BY <2>1, <2>2, BoundariesAreLists
  <2> QED
    BY <2>2, <2>3, BoundariesAreLists
<1>2. /\ c \in Seq(Seqs) /\ Len(c) = m /\ DOMAIN c = 1..m
      /\ \A k \in 1..m : c[k] = b[k] /\ c[k] \in Seqs
  BY <1>1
<1>3. t \in Seqs /\ m + 1 \in DOMAIN b
  BY <1>1
<1> HIDE DEF c
<1>4. c \in Boundaries
  <2>1. Ascending(c)
    BY <1>1, <1>2 DEF Ascending
  <2>2. c \in [1..m -> Seqs] /\ m \in 0..(MaxSeq + 1)
    BY <1>1, <1>2, MaxSeqAssumption
  <2> QED
    BY <2>1, <2>2 DEF Boundaries
<1>5. ASSUME NEW s \in Seqs, Has(c, s) PROVE Has(b, s)
  <2>1. PICK n \in 0..m : Reached(c, s, n) /\ Odd(n)
    BY <1>2, <1>5 DEF Has
  <2>2. n < m
    BY <2>1
  <2>3. n + 1 \in DOMAIN c /\ ~(b[n + 1] <= s)
    BY <1>2, <2>1, <2>2 DEF Reached
  <2>4. Reached(b, s, n)
    <3> SUFFICES ASSUME NEW k \in DOMAIN b PROVE k <= n <=> b[k] <= s
      BY DEF Reached
    <3>1. CASE k <= m
      BY <1>1, <1>2, <2>1, <3>1 DEF Reached
    <3>2. CASE ~(k <= m)
      <4>1. n + 1 < k /\ n + 1 \in DOMAIN b
        BY <1>1, <2>2, <3>2
      <4>2. b[n + 1] < b[k]
        BY <1>1, <4>1 DEF Ascending
      <4>3. b[n + 1] \in Nat /\ b[k] \in Nat /\ s \in Nat
        BY <1>1, <4>1, MaxSeqAssumption DEF Seqs
      <4>4. ~(b[k] <= s) /\ ~(k <= n)
        BY <1>1, <2>2, <2>3, <3>2, <4>2, <4>3
      <4> QED
        BY <4>4
    <3> QED
      BY <3>1, <3>2
  <2>5. n \in 0..Len(b)
    BY <1>1, <2>2
  <2> QED
    BY <2>1, <2>4, <2>5 DEF Has
<1>6. Has(b, t)
  <2>1. Reached(b, t, m + 1)
    <3> SUFFICES ASSUME NEW k \in DOMAIN b PROVE k <= m + 1 <=> b[k] <= t
      BY DEF Reached
    <3>0. k \in Nat /\ b[k] \in Nat /\ t \in Nat
      BY <1>1, <1>3, MaxSeqAssumption DEF Seqs
    <3>1. CASE k < m + 1
      <4>1. b[k] < t
        BY <1>1, <1>3, <3>1 DEF Ascending
      <4> QED
        BY <3>0, <3>1, <4>1
    <3>2. CASE k = m + 1
      BY <3>0, <3>2
    <3>3. CASE k > m + 1
      <4>1. t < b[k]
        BY <1>1, <1>3, <3>3 DEF Ascending
      <4> QED
        BY <3>0, <3>3, <4>1
    <3> QED
      BY <3>0, <3>1, <3>2, <3>3
  <2>2. m + 1 \in 0..Len(b) /\ Odd(m + 1)
    BY <1>1, ParityTurns
  <2> QED
    BY <2>1, <2>2 DEF Has
<1>7. ~Has(c, t)
  <2>1. Reached(c, t, m)
    <3> SUFFICES ASSUME NEW k \in DOMAIN c PROVE k <= m <=> c[k] <= t
      BY DEF Reached
    <3>1. k <= m /\ k \in DOMAIN b /\ k < m + 1 /\ c[k] = b[k]
      BY <1>1, <1>2
    <3>2. b[k] < t
      BY <1>1, <1>3, <3>1 DEF Ascending
    <3>3. b[k] \in Nat /\ t \in Nat
      BY <1>1, <1>3, <3>1, MaxSeqAssumption DEF Seqs
    <3> HIDE DEF t
    <3> QED
      BY <3>1, <3>2, <3>3
  <2>2. m \in 0..Len(c)
    BY <1>2
  <2> HIDE DEF t
  <2> QED
    BY <1>2, <1>3, <2>1, <2>2, HasByParity
<1> HIDE DEF t
<1>8. /\ {s \in Seqs : Has(c, s)} \subseteq {s \in Seqs : Has(b, s)}
      /\ {s \in Seqs : Has(c, s)} # {s \in Seqs : Has(b, s)}
  BY <1>3, <1>5, <1>6, <1>7
<1> QED
  BY <1>4, <1>8 DEF c

\* What is left of a list that was shortened says less.
LEMMA ShortenedSaysLess ==
    ASSUME NEW b \in Boundaries \ {<<>>}
    PROVE  /\ Shortened(b) \in Boundaries
           /\ {s \in Seqs : Has(Shortened(b), s)} \subseteq {s \in Seqs : Has(b, s)}
           /\ {s \in Seqs : Has(Shortened(b), s)} # {s \in Seqs : Has(b, s)}
<1> DEFINE m == IF IsOpen(b) THEN Len(b) - 1 ELSE Len(b) - 2
<1>1. b \in Seq(Seqs) /\ Len(b) \in Nat /\ Len(b) # 0
  BY BoundariesAreLists
<1>2. m \in Nat /\ m < Len(b) /\ ~Odd(m)
  <2>1. CASE IsOpen(b)
    <3>1. m = Len(b) - 1 /\ m \in Nat /\ m + 1 = Len(b)
      BY <1>1, <2>1
    <3> HIDE DEF m
    <3>2. Odd(m + 1) <=> ~Odd(m)
      BY <3>1, ParityTurns
    <3>3. Odd(Len(b))
      BY <2>1 DEF IsOpen
    <3> QED
      BY <1>1, <3>1, <3>2, <3>3
  <2>2. CASE ~IsOpen(b)
    <3>0. ~Odd(Len(b))
      BY <2>2 DEF IsOpen
    <3>6. ~Odd(0) /\ 0 + 1 = 1
      BY DEF Odd
    <3>1. Len(b) # 1
      BY <3>0, <3>6, ParityTurns
    <3>5. m = Len(b) - 2
      BY <2>2
    <3> HIDE DEF m
    <3>2. m = Len(b) - 2 /\ m \in Nat /\ m + 1 \in Nat /\ (m + 1) + 1 = Len(b)
      BY <1>1, <3>1, <3>5
    <3>3. Odd((m + 1) + 1) <=> ~Odd(m + 1)
      BY <3>2, ParityTurns
    <3>4. Odd(m + 1) <=> ~Odd(m)
      BY <3>2, ParityTurns
    <3> QED
      BY <1>1, <3>0, <3>2, <3>3, <3>4
  <2> QED
    BY <2>1, <2>2
<1> HIDE DEF m
<1>3. Shortened(b) = SubSeq(b, 1, m)
  BY DEF Shortened, m
<1> QED
  BY <1>2, <1>3, FrontSaysLess

\* A listing takes finitely many bytes.
LEMMA ListingBytesNat ==
    ASSUME NEW have, Listing(have)
    PROVE  ListingBytes(have) \in Nat
<1> DEFINE g == [a \in DOMAIN have |-> {a} \X (0..Len(have[a]))]
           T == {g[a] : a \in DOMAIN have}
<1>1. \A a \in DOMAIN have : IsFiniteSet(g[a])
  <2> TAKE a \in DOMAIN have
  <2>1. Len(have[a]) \in Int
    BY BoundariesAreLists DEF Listing
  <2>4. IsFiniteSet(0..Len(have[a]))
    BY <2>1, FS_Interval
  <2>2. IsFiniteSet(0..Len(have[a])) /\ IsFiniteSet({a})
    BY <2>4, FS_Singleton
  <2>3. IsFiniteSet({a} \X (0..Len(have[a])))
    BY <2>2, FS_Product
  <2> QED
    BY <2>3
<1>2. g \in Surjection(DOMAIN have, T)
  BY DEF Surjection
<1>3. UNION T = UNION {{a} \X (0..Len(have[a])) : a \in DOMAIN have}
  OBVIOUS
<1>4. \A U \in T : IsFiniteSet(U)
  BY <1>1
<1> HIDE DEF T, g
<1>5. IsFiniteSet(T)
  BY <1>2, FS_Surjection DEF Listing
<1>6. IsFiniteSet(UNION T)
  BY <1>4, <1>5, FS_UNION
<1> QED
  BY <1>3, <1>6, FS_CardinalityType DEF ListingBytes

\* A Want of one entry takes the frame's byte and the entry's.
LEMMA OneEntryBytes ==
    ASSUME NEW e, e.lo \in 0..MaxPrefix, e.hi \in 0..MaxPrefix, Listing(e.have)
    PROVE  /\ WantBytes({e}) = 2 + Width[e.lo] + Width[e.hi] + ListingBytes(e.have)
           /\ ListingBytes(e.have) \in Nat
           /\ Width[e.lo] \in Nat /\ Width[e.lo] <= MaxWidth
           /\ Width[e.hi] \in Nat /\ Width[e.hi] <= MaxWidth
<1> DEFINE n == EntryBytes(e)
<1>1. ListingBytes(e.have) \in Nat
  BY ListingBytesNat
<1>2. /\ Width[e.lo] \in Nat /\ Width[e.lo] <= MaxWidth
      /\ Width[e.hi] \in Nat /\ Width[e.hi] <= MaxWidth
  BY PackAssumption
<1>3. n = 1 + Width[e.lo] + Width[e.hi] + ListingBytes(e.have) /\ n \in Nat
  BY <1>1, <1>2 DEF EntryBytes
<1>4. UNION {{f} \X (1..EntryBytes(f)) : f \in {e}} = {e} \X (1..n)
  OBVIOUS
<1> HIDE DEF n
<1>5. IsFiniteSet({e}) /\ Cardinality({e}) = 1
  BY FS_Singleton
<1>6. IsFiniteSet(1..n) /\ Cardinality(1..n) = n
  BY <1>3, FS_Interval
<1>7. Cardinality({e} \X (1..n)) = n
  <2> DEFINE I == 1..n
             P == {e} \X I
  <2>1. IsFiniteSet(I) /\ Cardinality(I) = n
    BY <1>6
  <2> HIDE DEF I
  <2>2. Cardinality(P) = Cardinality({e}) * Cardinality(I)
    BY <1>5, <2>1, FS_Product
  <2> HIDE DEF P
  <2>3. Cardinality(P) = 1 * n
    BY <1>5, <2>1, <2>2
  <2>4. Cardinality(P) = n
    BY <1>3, <2>3
  <2> QED
    BY <2>4 DEF P, I
<1>8. WantBytes({e}) = 1 + n
  BY <1>3, <1>4, <1>7 DEF WantBytes
<1> QED
  BY <1>1, <1>2, <1>3, <1>8

-----------------------------------------------------------------------------
\* The slices of an entry.

\* A slice as slice_entry makes it, its scope still open.
Slice ==
    [first : 0..MaxPrefix,
     have : UNION {[authors -> Boundaries \ {<<>>}] : authors \in SUBSET Author}]

\* The listing of s is part of what e lists, and starts in its scope.
SliceOf(e, s) ==
    /\ s \in Slice /\ s.first \in e.lo..e.hi
    /\ Listing(s.have) /\ DOMAIN s.have \subseteq DOMAIN e.have
    /\ \A a \in DOMAIN s.have : s.first <= Prefix[a] /\ HaveOf(s, a) \subseteq HaveOf(e, a)

\* The slices all were cut from e, whose runs of the prefixes in waiting are
\* still to come: the authors of each are before the next and before those
\* waiting, and every prefix is at one of them.
Slicing(e, all, waiting) ==
    /\ all \in Seq(Slice)
    /\ waiting \subseteq {Prefix[a] : a \in DOMAIN e.have}
    /\ \A k \in DOMAIN all : SliceOf(e, all[k])
    /\ \A j, k \in DOMAIN all : j < k =>
          /\ all[j].first < all[k].first
          /\ \A a \in DOMAIN all[j].have : Prefix[a] < all[k].first
    /\ \A k \in DOMAIN all : \A q \in waiting :
          /\ all[k].first < q
          /\ \A a \in DOMAIN all[k].have : Prefix[a] < q
    /\ \A p \in 0..MaxPrefix : all # <<>> =>
          \E k \in DOMAIN all :
             /\ k = 1 \/ all[k].first <= p
             /\ k = Len(all) \/ p < all[k + 1].first

\* What some slices claim to hold of an author.
Claimed(all, a) == UNION {HaveOf(all[k], a) : k \in DOMAIN all}

\* The authors whose run was sliced and of whom less is claimed.
Lost(e, all, waiting) ==
    {a \in DOMAIN e.have : Prefix[a] \notin waiting /\ Claimed(all, a) # HaveOf(e, a)}

\* The run of one prefix, of an entry.
RunOf(e, p) == [a \in {b \in DOMAIN e.have : Prefix[b] = p} |-> e.have[a]]

\* What an entry that is packed looks like.
LEMMA EntryFacts ==
    ASSUME NEW e \in WantEntry
    PROVE  /\ e.ch \in Channel /\ e.lo \in 0..MaxPrefix /\ e.hi \in 0..MaxPrefix /\ e.lo <= e.hi
           /\ e = [ch |-> e.ch, lo |-> e.lo, hi |-> e.hi, have |-> e.have]
           /\ Listing(e.have)
           /\ \A a \in DOMAIN e.have : a \in Author /\ Prefix[a] \in e.lo..e.hi
<1>1. e \in [ch : Channel, lo : 0..MaxPrefix, hi : 0..MaxPrefix, have : Listings]
      /\ Accepted(e) /\ IsFiniteSet(DOMAIN e.have)
  BY DEF WantEntry
<1>2. PICK authors \in SUBSET Author : e.have \in [authors -> Lists]
  BY <1>1 DEF Listings
<1>3. DOMAIN e.have \subseteq Author /\ e.have = [a \in DOMAIN e.have |-> e.have[a]]
      /\ \A a \in DOMAIN e.have : e.have[a] \in Boundaries \ {<<>>}
  BY <1>2, PackAssumption
<1>4. Listing(e.have)
  BY <1>1, <1>3 DEF Listing
<1>5. \A a \in DOMAIN e.have : Prefix[a] \in e.lo..e.hi
  BY <1>1, <1>3, PrefixAssumption DEF Accepted, InScope
<1>6. e.ch \in Channel /\ e.lo \in 0..MaxPrefix /\ e.hi \in 0..MaxPrefix /\ e.lo <= e.hi
      /\ e = [ch |-> e.ch, lo |-> e.lo, hi |-> e.hi, have |-> e.have]
  BY <1>1 DEF Accepted
<1> QED
  BY <1>3, <1>4, <1>5, <1>6

\* A list with one element more.
LEMMA OneMore ==
    ASSUME NEW S, NEW init \in Seq(S), NEW x \in S
    PROVE  /\ Append(init, x) \in Seq(S) /\ Append(init, x) # <<>>
           /\ Len(init) \in Nat /\ Len(Append(init, x)) = Len(init) + 1
           /\ DOMAIN init = 1..Len(init)
           /\ DOMAIN Append(init, x) = 1..(Len(init) + 1)
           /\ \A k \in 1..Len(init) : Append(init, x)[k] = init[k]
           /\ Append(init, x)[Len(init) + 1] = x
  BY AppendProperties

\* What is claimed with one slice more.
LEMMA ClaimedWith ==
    ASSUME NEW init \in Seq(Slice), NEW x \in Slice, NEW a
    PROVE  Claimed(Append(init, x), a) = Claimed(init, a) \cup HaveOf(x, a)
<1> DEFINE c == Append(init, x)
           n == Len(init)
<1>1. /\ n \in Nat /\ DOMAIN init = 1..n /\ DOMAIN c = 1..(n + 1)
      /\ \A k \in 1..n : c[k] = init[k]
      /\ c[n + 1] = x
  BY OneMore
<1> HIDE DEF c, n
<1>2. DOMAIN c = DOMAIN init \cup {n + 1}
  BY <1>1
<1>3. Claimed(c, a) = Claimed(init, a) \cup HaveOf(x, a)
  BY <1>1, <1>2 DEF Claimed
<1> QED
  BY <1>3 DEF c

\* Of an author that a listing does not have, nothing is claimed.
LEMMA HaveOfOthers ==
    ASSUME NEW s, NEW t, NEW a,
           a \in DOMAIN s.have <=> a \in DOMAIN t.have,
           a \in DOMAIN s.have => s.have[a] = t.have[a]
    PROVE  HaveOf(s, a) = HaveOf(t, a)
BY DEF HaveOf

\* The prefix p waits, and none before it.
FirstOf(p, waiting) == p \in waiting /\ \A q \in waiting : p <= q

\* A slice is made of the next run.
LEMMA NewSlice ==
    ASSUME NEW e \in WantEntry, NEW all, NEW waiting, Slicing(e, all, waiting),
           NEW p, FirstOf(p, waiting)
    PROVE  LET new == [first |-> p, have |-> RunOf(e, p)] IN
           /\ SliceOf(e, new)
           /\ Slicing(e, Append(all, new), waiting \ {p})
           /\ Lost(e, Append(all, new), waiting \ {p}) = Lost(e, all, waiting)
           /\ \A a \in DOMAIN RunOf(e, p) : a \notin Lost(e, all, waiting)
<1> DEFINE new == [first |-> p, have |-> RunOf(e, p)]
           c == Append(all, new)
           n == Len(all)
           W == waiting \ {p}
           h == RunOf(e, p)
<1>0. /\ Listing(e.have) /\ e.lo \in 0..MaxPrefix /\ e.hi \in 0..MaxPrefix
      /\ \A a \in DOMAIN e.have : a \in Author /\ Prefix[a] \in e.lo..e.hi
  BY EntryFacts
<1>17. p \in waiting /\ \A q \in waiting : p <= q
  BY DEF FirstOf
<1>1. PICK b \in DOMAIN e.have : p = Prefix[b]
  BY <1>17 DEF Slicing
<1>2. p \in e.lo..e.hi /\ p \in 0..MaxPrefix /\ p \in Nat
  BY <1>0, <1>1, PrefixAssumption
<1>3. /\ DOMAIN h = {a \in DOMAIN e.have : Prefix[a] = p}
      /\ \A a \in DOMAIN h : h[a] = e.have[a]
      /\ h = [a \in DOMAIN h |-> h[a]]
  BY DEF RunOf
<1>4. new.first = p /\ new.have = h
  OBVIOUS
<1> HIDE DEF h
<1>5. Listing(h)
  <2>1. DOMAIN h \subseteq DOMAIN e.have
    BY <1>3
  <2>2. IsFiniteSet(DOMAIN h)
    BY <1>0, <2>1, FS_Subset DEF Listing
  <2> QED
    BY <1>0, <1>3, <2>1, <2>2 DEF Listing
<1>6. new \in Slice
  <2>1. h \in [DOMAIN h -> Boundaries \ {<<>>}] /\ DOMAIN h \in SUBSET Author
    BY <1>5 DEF Listing
  <2> HIDE DEF new
  <2>2. h \in UNION {[authors -> Boundaries \ {<<>>}] : authors \in SUBSET Author}
    BY <2>1
  <2> QED
    BY <1>2, <2>2 DEF Slice, new, h
<1> HIDE DEF new
<1>7. \A a \in DOMAIN h : HaveOf(new, a) = HaveOf(e, a)
  BY <1>3, <1>4, HaveOfOthers
<1>8. SliceOf(e, new)
  BY <1>2, <1>3, <1>4, <1>5, <1>6, <1>7 DEF SliceOf
<1>9. all \in Seq(Slice)
  BY DEF Slicing
<1>10. /\ c \in Seq(Slice) /\ c # <<>> /\ n \in Nat /\ Len(c) = n + 1
       /\ DOMAIN all = 1..n /\ DOMAIN c = 1..(n + 1)
       /\ \A k \in 1..n : c[k] = all[k]
       /\ c[n + 1] = new
  BY <1>6, <1>9, OneMore
<1>11. all # <<>> => n # 0
  BY <1>9
<1> HIDE DEF c, n
<1>12. \A k \in DOMAIN c : k \in 1..n \/ k = n + 1
  BY <1>10
<1>13. Slicing(e, c, W)
  <2>1. W \subseteq {Prefix[a] : a \in DOMAIN e.have}
    BY DEF Slicing
  <2>2. \A k \in DOMAIN c : SliceOf(e, c[k])
    BY <1>8, <1>10, <1>12 DEF Slicing
  <2>3. ASSUME NEW j \in DOMAIN c, NEW k \in DOMAIN c, j < k
        PROVE  c[j].first < c[k].first /\ \A a \in DOMAIN c[j].have : Prefix[a] < c[k].first
    <3>1. j \in 1..n
      BY <1>10, <2>3
    <3>2. CASE k \in 1..n
      BY <1>10, <2>3, <3>1, <3>2 DEF Slicing
    <3>3. CASE k = n + 1
      BY <1>4, <1>10, <1>17, <3>1, <3>3 DEF Slicing
    <3> QED
      BY <1>12, <3>2, <3>3
  <2>4. ASSUME NEW k \in DOMAIN c, NEW q \in W
        PROVE  c[k].first < q /\ \A a \in DOMAIN c[k].have : Prefix[a] < q
    <3>1. CASE k \in 1..n
      BY <1>10, <2>4, <3>1 DEF Slicing
    <3>2. CASE k = n + 1
      <4>1. p <= q /\ p # q /\ q \in Nat
        BY <1>0, <1>17, <2>4, PrefixAssumption DEF Slicing
      <4>2. p < q
        BY <1>2, <4>1
      <4> QED
        BY <1>3, <1>4, <1>10, <3>2, <4>2
    <3> QED
      BY <1>12, <3>1, <3>2
  <2>5. ASSUME NEW r \in 0..MaxPrefix
        PROVE  \E k \in DOMAIN c : /\ k = 1 \/ c[k].first <= r
                                   /\ k = Len(c) \/ r < c[k + 1].first
    <3>0. r \in Nat
      OBVIOUS
    <3>1. CASE all = <<>>
      <4>1. n + 1 = 1 /\ n + 1 \in DOMAIN c
        BY <1>10, <3>1 DEF n
      <4> QED
        BY <1>10, <4>1
    <3>2. CASE all # <<>> /\ p <= r
      BY <1>4, <1>10, <3>2
    <3>3. CASE all # <<>> /\ r < p
      <4>1. PICK k \in DOMAIN all : /\ k = 1 \/ all[k].first <= r
                                    /\ k = Len(all) \/ r < all[k + 1].first
        BY <2>5, <3>3 DEF Slicing
      <4>2. CASE k = Len(all)
        BY <1>4, <1>10, <3>3, <4>1, <4>2 DEF n
      <4>3. CASE k # Len(all)
        <5>1. k \in 1..n /\ k + 1 \in 1..n /\ k # Len(c)
          BY <1>10, <4>3 DEF n
        <5>2. c[k] = all[k] /\ c[k + 1] = all[k + 1] /\ k \in DOMAIN c
          BY <1>10, <5>1
        <5> QED
          BY <4>1, <4>3, <5>2
      <4> QED
        BY <4>2, <4>3
    <3> QED
      BY <1>2, <3>0, <3>1, <3>2, <3>3
  <2> HIDE DEF W
  <2> QED
    BY <1>10, <2>1, <2>2, <2>3, <2>4, <2>5 DEF Slicing
<1>14. ASSUME NEW a \in DOMAIN e.have
       PROVE  a \in Lost(e, c, W) <=> a \in Lost(e, all, waiting)
  <2>1. Claimed(c, a) = Claimed(all, a) \cup HaveOf(new, a)
    BY <1>6, <1>9, ClaimedWith DEF c
  <2>2. CASE Prefix[a] = p
    <3>1. HaveOf(new, a) = HaveOf(e, a)
      BY <1>3, <1>7, <2>2
    <3>2. \A k \in DOMAIN all : HaveOf(all[k], a) \subseteq HaveOf(e, a)
      BY DEF Slicing, SliceOf, HaveOf
    <3>3. Claimed(c, a) = HaveOf(e, a)
      BY <2>1, <3>1, <3>2 DEF Claimed
    <3> QED
      BY <1>17, <2>2, <3>3 DEF Lost
  <2>3. CASE Prefix[a] # p
    <3>1. a \notin DOMAIN new.have
      BY <1>3, <1>4, <2>3
    <3>2. HaveOf(new, a) = {}
      BY <3>1 DEF HaveOf
    <3> QED
      BY <2>1, <2>3, <3>2 DEF Lost
  <2> QED
    BY <2>2, <2>3
<1>15. Lost(e, c, W) = Lost(e, all, waiting)
  BY <1>14 DEF Lost
<1>16. \A a \in DOMAIN h : a \notin Lost(e, all, waiting)
  BY <1>3, <1>17 DEF Lost
<1> QED
  BY <1>8, <1>13, <1>15, <1>16 DEF new, c, W, h

\* The last slice is replaced: by one with the same first prefix whose
\* authors are before those still waiting.
LEMMA LastReplaced ==
    ASSUME NEW e \in WantEntry, NEW init \in Seq(Slice), NEW x \in Slice, NEW waiting,
           Slicing(e, Append(init, x), waiting),
           NEW y, SliceOf(e, y), y.first = x.first,
           NEW W \in SUBSET waiting, \A q \in W : \A a \in DOMAIN y.have : Prefix[a] < q
    PROVE  Slicing(e, Append(init, y), W)
<1> DEFINE b == Append(init, x)
           c == Append(init, y)
           n == Len(init)
<1>1. /\ b \in Seq(Slice) /\ b # <<>> /\ n \in Nat /\ Len(b) = n + 1
      /\ DOMAIN b = 1..(n + 1)
      /\ \A k \in 1..n : b[k] = init[k]
      /\ b[n + 1] = x
  BY OneMore
<1>2. /\ c \in Seq(Slice) /\ c # <<>> /\ Len(c) = n + 1
      /\ DOMAIN c = 1..(n + 1)
      /\ \A k \in 1..n : c[k] = init[k]
      /\ c[n + 1] = y
  BY OneMore DEF SliceOf
<1>3. Slicing(e, b, waiting)
  OBVIOUS
<1> HIDE DEF b, c, n
<1>4. \A k \in 1..(n + 1) : k \in 1..n \/ k = n + 1
  BY <1>1
<1>5. \A k \in 1..(n + 1) : c[k].first = b[k].first
  BY <1>1, <1>2, <1>4
<1>6. \A k \in 1..n : c[k] = b[k] /\ k \in 1..(n + 1)
  BY <1>1, <1>2
<1>7. \A k \in DOMAIN c : SliceOf(e, c[k])
  BY <1>1, <1>2, <1>3, <1>4, <1>6 DEF Slicing
<1>8. ASSUME NEW j \in DOMAIN c, NEW k \in DOMAIN c, j < k
      PROVE  c[j].first < c[k].first /\ \A a \in DOMAIN c[j].have : Prefix[a] < c[k].first
  <2>1. j \in 1..n
    BY <1>1, <1>2, <1>8
  <2> QED
    BY <1>1, <1>2, <1>3, <1>5, <1>6, <1>8, <2>1 DEF Slicing
<1>9. ASSUME NEW k \in DOMAIN c, NEW q \in W
      PROVE  c[k].first < q /\ \A a \in DOMAIN c[k].have : Prefix[a] < q
  <2>1. q \in waiting
    BY <1>9
  <2>2. c[k].first < q
    BY <1>1, <1>2, <1>3, <1>5, <2>1 DEF Slicing
  <2>3. CASE k \in 1..n
    BY <1>1, <1>3, <1>6, <2>1, <2>2, <2>3 DEF Slicing
  <2>4. CASE k = n + 1
    BY <1>2, <2>2, <2>4
  <2> QED
    BY <1>2, <1>4, <2>3, <2>4
<1>10. ASSUME NEW r \in 0..MaxPrefix
       PROVE  \E k \in DOMAIN c : /\ k = 1 \/ c[k].first <= r
                                  /\ k = Len(c) \/ r < c[k + 1].first
  <2>1. PICK k \in DOMAIN b : /\ k = 1 \/ b[k].first <= r
                              /\ k = Len(b) \/ r < b[k + 1].first
    BY <1>1, <1>3, <1>10 DEF Slicing
  <2>2. k \in 1..(n + 1) /\ (k # n + 1 => k + 1 \in 1..(n + 1))
    BY <1>1
  <2> QED
    BY <1>1, <1>2, <1>5, <2>1, <2>2
<1>11. W \subseteq {Prefix[a] : a \in DOMAIN e.have}
  BY <1>3 DEF Slicing
<1>12. Slicing(e, c, W)
  BY <1>2, <1>7, <1>8, <1>9, <1>10, <1>11 DEF Slicing
<1> QED
  BY <1>12 DEF c

\* The next run joins the last slice.
LEMMA LongerSlice ==
    ASSUME NEW e \in WantEntry, NEW init \in Seq(Slice), NEW x \in Slice, NEW waiting,
           Slicing(e, Append(init, x), waiting),
           NEW p, FirstOf(p, waiting)
    PROVE  LET y == [first |-> x.first, have |-> Joined(x.have, RunOf(e, p))] IN
           /\ SliceOf(e, y)
           /\ Slicing(e, Append(init, y), waiting \ {p})
           /\ Lost(e, Append(init, y), waiting \ {p}) = Lost(e, Append(init, x), waiting)
<1> DEFINE y == [first |-> x.first, have |-> Joined(x.have, RunOf(e, p))]
           b == Append(init, x)
           c == Append(init, y)
           W == waiting \ {p}
           h == RunOf(e, p)
           g == Joined(x.have, h)
<1>0. p \in waiting /\ \A q \in waiting : p <= q
  BY DEF FirstOf
<1>1. /\ Listing(e.have)
      /\ \A a \in DOMAIN e.have : a \in Author /\ Prefix[a] \in 0..MaxPrefix
  BY EntryFacts, PrefixAssumption
<1>2. /\ b # <<>> /\ Len(init) \in Nat /\ DOMAIN init = 1..Len(init)
      /\ DOMAIN b = 1..(Len(init) + 1) /\ b[Len(init) + 1] = x
      /\ \A k \in 1..Len(init) : b[k] = init[k]
  BY OneMore
<1>3. Slicing(e, b, waiting)
  OBVIOUS
<1> HIDE DEF b
<1>4. SliceOf(e, x) /\ x.first < p /\ \A a \in DOMAIN x.have : Prefix[a] < p
  BY <1>0, <1>2, <1>3 DEF Slicing
<1>5. p \in Nat /\ x.first \in Nat
  BY <1>0, <1>1, <1>3, <1>4, PrefixAssumption DEF Slicing, SliceOf, Slice
<1>6. /\ DOMAIN h = {a \in DOMAIN e.have : Prefix[a] = p}
      /\ \A a \in DOMAIN h : h[a] = e.have[a]
  BY DEF RunOf
<1> HIDE DEF h
<1>7. /\ DOMAIN g = DOMAIN x.have \cup DOMAIN h
      /\ g = [a \in DOMAIN g |-> g[a]]
      /\ \A a \in DOMAIN g : g[a] = IF a \in DOMAIN h THEN h[a] ELSE x.have[a]
  BY DEF Joined
<1>8. y.first = x.first /\ y.have = g
  BY DEF h
<1> HIDE DEF g
<1>9. Listing(g)
  <2>1. DOMAIN g \subseteq DOMAIN e.have
    BY <1>4, <1>6, <1>7 DEF SliceOf
  <2>2. IsFiniteSet(DOMAIN g)
    BY <1>1, <2>1, FS_Subset DEF Listing
  <2>3. \A a \in DOMAIN g : g[a] \in Boundaries \ {<<>>}
    BY <1>1, <1>4, <1>6, <1>7 DEF SliceOf, Listing
  <2> QED
    BY <1>1, <1>7, <2>1, <2>2, <2>3 DEF Listing
<1>10. y \in Slice
  <2>1. g \in [DOMAIN g -> Boundaries \ {<<>>}] /\ DOMAIN g \in SUBSET Author
    BY <1>9 DEF Listing
  <2>2. g \in UNION {[authors -> Boundaries \ {<<>>}] : authors \in SUBSET Author}
    BY <2>1
  <2>3. x.first \in 0..MaxPrefix
    BY DEF Slice
  <2> QED
    BY <2>2, <2>3 DEF Slice, g, h
<1> HIDE DEF y
<1>11. \A a \in DOMAIN h : HaveOf(y, a) = HaveOf(e, a)
  BY <1>6, <1>7, <1>8, HaveOfOthers
<1>12. ASSUME NEW a, a \notin DOMAIN h PROVE HaveOf(y, a) = HaveOf(x, a)
  <2>1. a \in DOMAIN y.have <=> a \in DOMAIN x.have
    BY <1>7, <1>8, <1>12
  <2>2. a \in DOMAIN y.have => y.have[a] = x.have[a]
    BY <1>7, <1>8, <1>12
  <2> QED
    BY <2>1, <2>2, HaveOfOthers
<1>13. SliceOf(e, y)
  <2>1. ASSUME NEW a \in DOMAIN g
        PROVE  a \in DOMAIN e.have /\ x.first <= Prefix[a] /\ HaveOf(y, a) \subseteq HaveOf(e, a)
    <3>1. CASE a \in DOMAIN h
      BY <1>4, <1>5, <1>6, <1>11, <3>1
    <3>2. CASE a \notin DOMAIN h
      BY <1>4, <1>7, <1>12, <2>1, <3>2 DEF SliceOf
    <3> QED
      BY <3>1, <3>2
  <2>2. DOMAIN g \subseteq DOMAIN e.have
    BY <2>1
  <2> QED
    BY <1>4, <1>8, <1>9, <1>10, <2>1, <2>2 DEF SliceOf
<1>14. Slicing(e, c, W)
  <2>1. ASSUME NEW q \in W, NEW a \in DOMAIN y.have PROVE Prefix[a] < q
    <3>1. q \in waiting /\ q \in Nat /\ p < q
      BY <1>0, <1>1, <1>3, <1>5, <2>1, PrefixAssumption DEF Slicing
    <3>2. CASE a \in DOMAIN h
      BY <1>6, <3>1, <3>2
    <3>3. CASE a \notin DOMAIN h
      BY <1>2, <1>3, <1>7, <1>8, <2>1, <3>1, <3>3 DEF Slicing
    <3> QED
      BY <3>2, <3>3
  <2>2. W \in SUBSET waiting
    OBVIOUS
  <2> HIDE DEF W
  <2> QED
    BY <1>3, <1>8, <1>13, <2>1, <2>2, LastReplaced DEF b
<1>15. ASSUME NEW a \in DOMAIN e.have
       PROVE  a \in Lost(e, c, W) <=> a \in Lost(e, b, waiting)
  <2>1. Claimed(c, a) = Claimed(init, a) \cup HaveOf(y, a)
    BY <1>10, ClaimedWith
  <2>2. Claimed(b, a) = Claimed(init, a) \cup HaveOf(x, a)
    BY ClaimedWith DEF b
  <2>3. CASE Prefix[a] = p
    <3>1. HaveOf(y, a) = HaveOf(e, a)
      BY <1>6, <1>11, <2>3
    <3>2. \A k \in DOMAIN init : SliceOf(e, init[k])
      BY <1>2, <1>3 DEF Slicing
    <3>3. \A k \in DOMAIN init : HaveOf(init[k], a) \subseteq HaveOf(e, a)
      BY <3>2 DEF SliceOf, HaveOf
    <3>4. Claimed(c, a) = HaveOf(e, a)
      BY <2>1, <3>1, <3>3 DEF Claimed
    <3> QED
      BY <1>0, <2>3, <3>4 DEF Lost
  <2>4. CASE Prefix[a] # p
    <3>1. HaveOf(y, a) = HaveOf(x, a)
      BY <1>6, <1>12, <2>4
    <3> QED
      BY <2>1, <2>2, <2>4, <3>1 DEF Lost
  <2> QED
    BY <2>3, <2>4
<1>16. Lost(e, c, W) = Lost(e, b, waiting)
  BY <1>15 DEF Lost
<1> QED
  BY <1>13, <1>14, <1>16 DEF y, c, b, W

\* A listing with one author claiming less, or not listed any more.
Shrunk(f, u) ==
    LET kept == Shortened(f[u])
    IN  IF kept = <<>> THEN [a \in DOMAIN f \ {u} |-> f[a]] ELSE [f EXCEPT ![u] = kept]

\* An author of the last slice claims less, or is not listed any more.
LEMMA ShorterSlice ==
    ASSUME NEW e \in WantEntry, NEW init \in Seq(Slice), NEW x \in Slice, NEW waiting,
           Slicing(e, Append(init, x), waiting),
           NEW u \in DOMAIN x.have, NEW h, h = Shrunk(x.have, u)
    PROVE  LET y == [first |-> x.first, have |-> h] IN
           /\ SliceOf(e, y)
           /\ Slicing(e, Append(init, y), waiting)
           /\ Lost(e, Append(init, y), waiting) = Lost(e, Append(init, x), waiting) \cup {u}
<1> DEFINE y == [first |-> x.first, have |-> h]
           b == Append(init, x)
           c == Append(init, y)
           f == x.have
           kept == Shortened(f[u])
<1>1. /\ Listing(e.have)
      /\ \A a \in DOMAIN e.have : a \in Author /\ Prefix[a] \in 0..MaxPrefix
  BY EntryFacts, PrefixAssumption
<1>2. /\ Len(init) \in Nat /\ DOMAIN init = 1..Len(init)
      /\ DOMAIN b = 1..(Len(init) + 1) /\ b[Len(init) + 1] = x
      /\ \A k \in 1..Len(init) : b[k] = init[k]
  BY OneMore
<1>3. Slicing(e, b, waiting)
  OBVIOUS
<1> HIDE DEF b
<1>4. SliceOf(e, x)
  BY <1>2, <1>3 DEF Slicing
<1>5. Listing(f) /\ f = [a \in DOMAIN f |-> f[a]] /\ f[u] \in Boundaries \ {<<>>}
  BY <1>4 DEF SliceOf, Listing
<1>6. /\ kept \in Boundaries
      /\ {s \in Seqs : Has(kept, s)} \subseteq {s \in Seqs : Has(f[u], s)}
      /\ {s \in Seqs : Has(kept, s)} # {s \in Seqs : Has(f[u], s)}
  BY <1>5, ShortenedSaysLess
<1>7. /\ h = [a \in DOMAIN h |-> h[a]]
      /\ DOMAIN h = IF kept = <<>> THEN DOMAIN f \ {u} ELSE DOMAIN f
      /\ \A a \in DOMAIN h : a # u => h[a] = f[a]
      /\ u \in DOMAIN h => h[u] = kept
  <2>1. h = IF kept = <<>> THEN [a \in DOMAIN f \ {u} |-> f[a]] ELSE [f EXCEPT ![u] = kept]
    BY DEF Shrunk
  <2> HIDE DEF kept
  <2>2. CASE kept = <<>>
    BY <2>1, <2>2
  <2>3. CASE kept # <<>>
    BY <1>5, <2>1, <2>3
  <2> QED
    BY <2>2, <2>3
<1> HIDE DEF kept
<1>8. Listing(h)
  <2>1. DOMAIN h \subseteq DOMAIN f
    BY <1>7
  <2>2. IsFiniteSet(DOMAIN h)
    BY <1>5, <2>1, FS_Subset DEF Listing
  <2>3. \A a \in DOMAIN h : h[a] \in Boundaries \ {<<>>}
    <3> TAKE a \in DOMAIN h
    <3>1. CASE a = u
      BY <1>6, <1>7, <3>1
    <3>2. CASE a # u
      BY <1>5, <1>7, <2>1, <3>2 DEF Listing
    <3> QED
      BY <3>1, <3>2
  <2> QED
    BY <1>5, <1>7, <2>1, <2>2, <2>3 DEF Listing
<1>9. y \in Slice
  <2>1. h \in [DOMAIN h -> Boundaries \ {<<>>}] /\ DOMAIN h \in SUBSET Author
    BY <1>8 DEF Listing
  <2>2. h \in UNION {[authors -> Boundaries \ {<<>>}] : authors \in SUBSET Author}
    BY <2>1
  <2>3. x.first \in 0..MaxPrefix
    BY DEF Slice
  <2> QED
    BY <2>2, <2>3 DEF Slice
<1>10. y.first = x.first /\ y.have = h
  OBVIOUS
<1> HIDE DEF y
<1>11. ASSUME NEW a, a # u PROVE HaveOf(y, a) = HaveOf(x, a)
  <2>1. a \in DOMAIN y.have <=> a \in DOMAIN x.have
    BY <1>7, <1>10, <1>11
  <2>2. a \in DOMAIN y.have => y.have[a] = x.have[a]
    BY <1>7, <1>10, <1>11
  <2> QED
    BY <2>1, <2>2, HaveOfOthers
<1>12. HaveOf(y, u) \subseteq HaveOf(x, u) /\ HaveOf(y, u) # HaveOf(x, u)
  <2>1. HaveOf(x, u) = {s \in Seqs : Has(f[u], s)}
    BY DEF HaveOf
  <2>2. CASE u \in DOMAIN h
    <3>1. HaveOf(y, u) = {s \in Seqs : Has(kept, s)}
      BY <1>7, <1>10, <2>2 DEF HaveOf
    <3> QED
      BY <1>6, <2>1, <3>1
  <2>3. CASE u \notin DOMAIN h
    <3>1. HaveOf(y, u) = {} /\ kept = <<>>
      BY <1>7, <1>10, <2>3 DEF HaveOf
    <3>2. {s \in Seqs : Has(kept, s)} = {}
      BY <3>1, HasNothing
    <3> QED
      BY <1>6, <2>1, <3>1, <3>2
  <2> QED
    BY <2>2, <2>3
<1>13. SliceOf(e, y)
  <2>1. ASSUME NEW a \in DOMAIN h PROVE HaveOf(y, a) \subseteq HaveOf(e, a)
    <3>1. a \in DOMAIN f /\ HaveOf(x, a) \subseteq HaveOf(e, a)
      BY <1>4, <1>7 DEF SliceOf
    <3> QED
      BY <1>11, <1>12, <3>1
  <2>2. DOMAIN h \subseteq DOMAIN f
    BY <1>7
  <2> QED
    BY <1>4, <1>8, <1>9, <1>10, <2>1, <2>2 DEF SliceOf
<1>14. Slicing(e, c, waiting)
  <2>1. ASSUME NEW q \in waiting, NEW a \in DOMAIN y.have PROVE Prefix[a] < q
    BY <1>2, <1>3, <1>7, <1>10, <2>1 DEF Slicing
  <2>2. waiting \in SUBSET waiting
    OBVIOUS
  <2> QED
    BY <1>3, <1>10, <1>13, <2>1, <2>2, LastReplaced DEF b
<1>15. ASSUME NEW a \in DOMAIN e.have, a # u
       PROVE  a \in Lost(e, c, waiting) <=> a \in Lost(e, b, waiting)
  <2>1. Claimed(c, a) = Claimed(init, a) \cup HaveOf(y, a)
    BY <1>9, ClaimedWith
  <2>2. Claimed(b, a) = Claimed(init, a) \cup HaveOf(x, a)
    BY ClaimedWith DEF b
  <2> QED
    BY <1>11, <1>15, <2>1, <2>2 DEF Lost
<1>16. u \in DOMAIN e.have /\ u \in Lost(e, c, waiting)
  <2>1. u \in DOMAIN e.have /\ HaveOf(x, u) \subseteq HaveOf(e, u) /\ x.first <= Prefix[u]
    BY <1>4 DEF SliceOf
  <2>2. ASSUME NEW k \in DOMAIN init PROVE HaveOf(init[k], u) = {}
    <3>1. k \in DOMAIN b /\ Len(init) + 1 \in DOMAIN b /\ k < Len(init) + 1 /\ b[k] = init[k]
      BY <1>2
    <3>2. \A a \in DOMAIN init[k].have : Prefix[a] < x.first
      BY <1>2, <1>3, <3>1 DEF Slicing
    <3>3. x.first \in Nat /\ Prefix[u] \in Nat
      BY <1>1, <2>1, PrefixAssumption DEF Slice
    <3>4. u \notin DOMAIN init[k].have
      BY <2>1, <3>2, <3>3
    <3> QED
      BY <3>4 DEF HaveOf
  <2>3. Claimed(c, u) = HaveOf(y, u)
    <3>1. Claimed(c, u) = Claimed(init, u) \cup HaveOf(y, u)
      BY <1>9, ClaimedWith
    <3> QED
      BY <2>2, <3>1 DEF Claimed
  <2>4. Claimed(c, u) # HaveOf(e, u)
    BY <1>12, <2>1, <2>3
  <2>5. Prefix[u] \notin waiting
    <3>1. \A q \in waiting : Prefix[u] < q
      BY <1>2, <1>3 DEF Slicing
    <3>2. Prefix[u] \in Nat
      BY <1>1, <2>1, PrefixAssumption
    <3> QED
      BY <3>1, <3>2
  <2> QED
    BY <2>1, <2>4, <2>5 DEF Lost
<1>17. Lost(e, c, waiting) = Lost(e, b, waiting) \cup {u}
  BY <1>15, <1>16 DEF Lost
<1> QED
  BY <1>13, <1>14, <1>17 DEF y, c, b

-----------------------------------------------------------------------------
\* What is sent for an entry.

\* The entries of sent under the channel of e whose scope has p.
SlicesIn(sent, e, p) == {f \in sent : f.ch = e.ch /\ f.lo <= p /\ p <= f.hi}

\* The authors of whom sent claims less than e lists.
ShortOf(e, sent) ==
    {a \in Author : \E f \in SlicesIn(sent, e, Prefix[a]) : HaveOf(f, a) # HaveOf(e, a)}

\* Every prefix in the scope of e is in one entry of sent, no other in any,
\* and nothing is claimed that e does not list.
Answers(e, sent) ==
    /\ \A f \in sent : f.ch = e.ch
    /\ \A p \in 0..MaxPrefix :
          Cardinality(SlicesIn(sent, e, p)) = IF e.lo <= p /\ p <= e.hi THEN 1 ELSE 0
    /\ \A a \in Author : \A f \in SlicesIn(sent, e, Prefix[a]) : HaveOf(f, a) \subseteq HaveOf(e, a)

\* Underclaimed, of some entries that were sent.
UnderIn(sent, entries) ==
    {x \in entries \X Author :
        \E f \in SlicesIn(sent, x[1], Prefix[x[2]]) : HaveOf(f, x[2]) # HaveOf(x[1], x[2])}

\* The entries of a channel.
Of(sent, e) == {f \in sent : f.ch = e.ch}

\* What was sent answers these entries and nothing else.
Settled(sent, entries) ==
    /\ \A f \in sent : \E e \in entries : f.ch = e.ch
    /\ \A e \in entries : Answers(e, Of(sent, e))
    /\ IsFiniteSet(UnderIn(sent, entries))

\* An entry of a channel that was not sent yet is settled by what answers it.
LEMMA SettleOne ==
    ASSUME NEW sent, NEW entries, Settled(sent, entries),
           NEW e, \A d \in entries : d.ch # e.ch,
           NEW F, Answers(e, F), IsFiniteSet(ShortOf(e, F))
    PROVE  /\ Settled(sent \cup F, entries \cup {e})
           /\ Cardinality(UnderIn(sent \cup F, entries \cup {e})) =
                 Cardinality(UnderIn(sent, entries)) + Cardinality(ShortOf(e, F))
<1> DEFINE S == sent \cup F
           D == entries \cup {e}
           U == UnderIn(sent, entries)
           V == {e} \X ShortOf(e, F)
<1>1. \A f \in F : f.ch = e.ch
  BY DEF Answers
<1>2. \A f \in sent : f.ch # e.ch
  BY DEF Settled
<1>3. Of(S, e) = F /\ \A d \in entries : Of(S, d) = Of(sent, d)
  BY <1>1, <1>2 DEF Of
<1>4. /\ \A p : SlicesIn(S, e, p) = SlicesIn(F, e, p)
      /\ \A d \in entries : \A p : SlicesIn(S, d, p) = SlicesIn(sent, d, p)
  BY <1>1, <1>2 DEF SlicesIn
<1> HIDE DEF S
<1>5. UnderIn(S, D) = U \cup V
  <2>1. ASSUME NEW d \in D, NEW a \in Author
        PROVE  <<d, a>> \in UnderIn(S, D) <=> <<d, a>> \in U \cup V
    <3>1. <<d, a>> \in UnderIn(S, D) <=>
             \E f \in SlicesIn(S, d, Prefix[a]) : HaveOf(f, a) # HaveOf(d, a)
      BY <2>1 DEF UnderIn
    <3>2. CASE d = e
      <4>1. e \notin entries
        OBVIOUS
      <4>2. <<e, a>> \in V <=> a \in ShortOf(e, F)
        OBVIOUS
      <4>3. <<e, a>> \notin U
        BY <4>1 DEF UnderIn
      <4> QED
        BY <1>4, <3>1, <3>2, <4>2, <4>3 DEF ShortOf
    <3>3. CASE d \in entries /\ d # e
      <4>1. <<d, a>> \notin V
        BY <3>3
      <4>2. <<d, a>> \in U <=>
               \E f \in SlicesIn(sent, d, Prefix[a]) : HaveOf(f, a) # HaveOf(d, a)
        BY <3>3 DEF UnderIn
      <4> QED
        BY <1>4, <3>1, <3>3, <4>1, <4>2
    <3> QED
      BY <3>2, <3>3
  <2>2. UnderIn(S, D) \subseteq D \X Author /\ U \subseteq D \X Author /\ V \subseteq D \X Author
    BY DEF UnderIn, ShortOf
  <2>3. \A x \in D \X Author : x = <<x[1], x[2]>> /\ x[1] \in D /\ x[2] \in Author
    OBVIOUS
  <2> HIDE DEF U, V, D
  <2> QED
    BY <2>1, <2>2, <2>3
<1>6. U \cap V = {}
  BY DEF UnderIn
<1>7. IsFiniteSet(U)
  BY DEF Settled
<1>8. IsFiniteSet(V) /\ Cardinality(V) = Cardinality(ShortOf(e, F))
  <2>1. IsFiniteSet({e}) /\ Cardinality({e}) = 1
    BY FS_Singleton
  <2>2. IsFiniteSet(V) /\ Cardinality(V) = 1 * Cardinality(ShortOf(e, F))
    BY <2>1, FS_Product
  <2>3. Cardinality(ShortOf(e, F)) \in Nat
    BY FS_CardinalityType
  <2> HIDE DEF V
  <2> QED
    BY <2>2, <2>3
<1> HIDE DEF U, V
<1>9. IsFiniteSet(U \cup V) /\ Cardinality(U \cup V) = Cardinality(U) + Cardinality(V)
  <2>1. /\ IsFiniteSet(U \cup V)
        /\ Cardinality(U \cup V) = Cardinality(U) + Cardinality(V) - Cardinality(U \cap V)
    BY <1>7, <1>8, FS_Union
  <2>2. Cardinality(U \cap V) = 0 /\ Cardinality(U) \in Nat /\ Cardinality(V) \in Nat
    BY <1>6, <1>7, <1>8, FS_EmptySet, FS_CardinalityType
  <2> QED
    BY <2>1, <2>2
<1>10. \A f \in S : \E d \in D : f.ch = d.ch
  BY <1>1 DEF Settled, S
<1>11. \A d \in D : Answers(d, Of(S, d))
  BY <1>3 DEF Settled
<1> HIDE DEF D
<1>12. Settled(S, D)
  BY <1>5, <1>9, <1>10, <1>11 DEF Settled
<1> QED
  BY <1>5, <1>8, <1>9, <1>12 DEF S, D, U

\* An entry answers itself, and claims all it lists.
LEMMA WholeEntryAnswers ==
    ASSUME NEW e \in WantEntry
    PROVE  Answers(e, {e}) /\ ShortOf(e, {e}) = {}
<1>1. e.lo \in 0..MaxPrefix /\ e.hi \in 0..MaxPrefix
  BY EntryFacts
<1>2. \A p : SlicesIn({e}, e, p) = IF e.lo <= p /\ p <= e.hi THEN {e} ELSE {}
  BY DEF SlicesIn
<1>3. Cardinality({e}) = 1 /\ Cardinality({}) = 0
  BY FS_Singleton, FS_EmptySet
<1>4. \A p \in 0..MaxPrefix :
         Cardinality(SlicesIn({e}, e, p)) = IF e.lo <= p /\ p <= e.hi THEN 1 ELSE 0
  BY <1>2, <1>3
<1>5. \A p : \A f \in SlicesIn({e}, e, p) : f = e
  BY DEF SlicesIn
<1> QED
  BY <1>4, <1>5 DEF Answers, ShortOf

\* Which slice a prefix is at.
AtSlice(all, k, p) ==
    /\ k = 1 \/ all[k].first <= p
    /\ k = Len(all) \/ p < all[k + 1].first

\* A prefix is at one slice at most.
LEMMA AtOneSlice ==
    ASSUME NEW e \in WantEntry, NEW all, NEW waiting, Slicing(e, all, waiting),
           NEW j \in DOMAIN all, NEW k \in DOMAIN all, NEW p \in 0..MaxPrefix,
           AtSlice(all, j, p), AtSlice(all, k, p)
    PROVE  j = k
<1>1. ASSUME NEW l \in DOMAIN all, NEW m \in DOMAIN all, l < m,
             AtSlice(all, l, p), AtSlice(all, m, p)
      PROVE  FALSE
  <2>1. all \in Seq(Slice) /\ DOMAIN all = 1..Len(all) /\ Len(all) \in Nat
    BY DEF Slicing
  <2>2. l + 1 \in DOMAIN all /\ l # Len(all) /\ m # 1
    BY <1>1, <2>1
  <2>3. p < all[l + 1].first /\ all[m].first <= p
    BY <1>1, <2>2 DEF AtSlice
  <2>7. all[l + 1] \in Slice /\ all[m] \in Slice
    BY <2>1, <2>2
  <2>4. all[l + 1].first \in Nat /\ all[m].first \in Nat /\ p \in Nat
    BY <2>7, PrefixAssumption DEF Slice
  <2>5. l + 1 = m \/ l + 1 < m
    BY <1>1, <2>1
  <2>6. l + 1 < m => all[l + 1].first < all[m].first
    BY <2>2 DEF Slicing
  <2> QED
    BY <2>3, <2>4, <2>5, <2>6
<1>2. j \in Nat /\ k \in Nat
  BY DEF Slicing
<1>3. ~(j < k) /\ ~(k < j)
  BY <1>1
<1> QED
  BY <1>2, <1>3

\* The listing of a slice is of authors whose prefix is at it.
LEMMA ListedAtSlice ==
    ASSUME NEW e \in WantEntry, NEW all, NEW waiting, Slicing(e, all, waiting),
           NEW k \in DOMAIN all, NEW a \in DOMAIN all[k].have
    PROVE  AtSlice(all, k, Prefix[a]) /\ a \in DOMAIN e.have
<1>1. all \in Seq(Slice) /\ DOMAIN all = 1..Len(all) /\ Len(all) \in Nat
  BY DEF Slicing
<1>2. SliceOf(e, all[k])
  BY DEF Slicing
<1>3. CASE k = Len(all)
  BY <1>2, <1>3 DEF AtSlice, SliceOf
<1>4. CASE k # Len(all)
  <2>1. k + 1 \in DOMAIN all /\ k < k + 1
    BY <1>1, <1>4
  <2>2. Prefix[a] < all[k + 1].first
    BY <2>1 DEF Slicing
  <2> QED
    BY <1>2, <2>2 DEF AtSlice, SliceOf
<1> QED
  BY <1>3, <1>4

\* What is sent: an entry whose listing may be cut.
SentEntry ==
    [ch : Channel, lo : 0..MaxPrefix, hi : 0..MaxPrefix,
     have : UNION {[authors -> Boundaries \ {<<>>}] : authors \in SUBSET Author}]

\* The slice of e that is sent for all[k].
ScopedSlice(e, all, k) ==
    [e EXCEPT !.lo = IF k = 1 THEN e.lo ELSE all[k].first,
              !.hi = IF k = Len(all) THEN e.hi ELSE all[k + 1].first - 1,
              !.have = all[k].have]

LEMMA ScopedIsSlices ==
    ASSUME NEW e, NEW all
    PROVE  Scoped(e, all) = [k \in DOMAIN all |-> {ScopedSlice(e, all, k)}]
BY DEF Scoped, ScopedSlice

\* A slice has the scope of the prefixes that are at it, within that of e.
LEMMA ScopeOfSlice ==
    ASSUME NEW e \in WantEntry, NEW all, NEW waiting, Slicing(e, all, waiting),
           NEW k \in DOMAIN all
    PROVE  LET f == ScopedSlice(e, all, k) IN
           /\ f.ch = e.ch /\ f.have = all[k].have /\ Listing(f.have)
           /\ f.lo \in 0..MaxPrefix /\ f.hi \in 0..MaxPrefix /\ f.lo <= f.hi
           /\ \A p \in 0..MaxPrefix :
                 f.lo <= p /\ p <= f.hi <=> AtSlice(all, k, p) /\ e.lo <= p /\ p <= e.hi
           /\ Accepted(f) /\ f \in SentEntry
<1> DEFINE f == ScopedSlice(e, all, k)
           lo == IF k = 1 THEN e.lo ELSE all[k].first
           hi == IF k = Len(all) THEN e.hi ELSE all[k + 1].first - 1
<1>1. /\ e.lo \in 0..MaxPrefix /\ e.hi \in 0..MaxPrefix /\ e.lo <= e.hi
      /\ e = [ch |-> e.ch, lo |-> e.lo, hi |-> e.hi, have |-> e.have]
      /\ \A a \in DOMAIN e.have : a \in Author /\ Prefix[a] \in e.lo..e.hi
      /\ e.ch \in Channel
  BY EntryFacts
<1>2. f = [ch |-> e.ch, lo |-> lo, hi |-> hi, have |-> all[k].have]
  <2> DEFINE r == [e EXCEPT !.lo = lo]
             t == [r EXCEPT !.hi = hi]
             g == [t EXCEPT !.have = all[k].have]
  <2>1. f = g
    BY Zenon DEF ScopedSlice
  <2> HIDE DEF f, lo, hi
  <2>2. r = [ch |-> e.ch, lo |-> lo, hi |-> e.hi, have |-> e.have]
    BY <1>1
  <2> HIDE DEF r
  <2>3. t = [ch |-> e.ch, lo |-> lo, hi |-> hi, have |-> e.have]
    BY <2>2
  <2> HIDE DEF t
  <2>4. g = [ch |-> e.ch, lo |-> lo, hi |-> hi, have |-> all[k].have]
    BY <2>3
  <2> HIDE DEF g
  <2> QED
    BY <2>1, <2>4
<1>3. f.ch = e.ch /\ f.lo = lo /\ f.hi = hi /\ f.have = all[k].have
  BY <1>2
<1> HIDE DEF f
<1>4. all \in Seq(Slice) /\ DOMAIN all = 1..Len(all) /\ Len(all) \in Nat
  BY DEF Slicing
<1>5. \A j \in DOMAIN all : all[j].first \in e.lo..e.hi /\ all[j].first \in Nat
  BY <1>1, PrefixAssumption DEF Slicing, SliceOf
<1>6. k # Len(all) => k + 1 \in DOMAIN all /\ all[k].first < all[k + 1].first
  <2>1. k # Len(all) => k + 1 \in DOMAIN all /\ k < k + 1
    BY <1>4
  <2> QED
    BY <2>1 DEF Slicing
<1>7. e.lo \in Nat /\ e.hi \in Nat /\ e.hi <= MaxPrefix
  BY <1>1, PrefixAssumption
<1>8. lo \in 0..MaxPrefix /\ lo \in Nat /\ e.lo <= lo /\ lo <= all[k].first
  BY <1>1, <1>5, <1>7, PrefixAssumption
<1>9. hi \in Nat /\ all[k].first <= hi /\ hi <= e.hi
  <2>1. CASE k = Len(all)
    BY <1>5, <1>7, <2>1
  <2>2. CASE k # Len(all)
    <3>1. all[k + 1].first \in e.lo..e.hi /\ all[k + 1].first \in Nat
          /\ all[k].first < all[k + 1].first /\ all[k].first \in Nat
      BY <1>5, <1>6, <2>2
    <3> QED
      BY <1>7, <2>2, <3>1
  <2> QED
    BY <2>1, <2>2
<1>10. hi \in 0..MaxPrefix /\ lo <= hi
  BY <1>5, <1>7, <1>8, <1>9, PrefixAssumption
<1>11. ASSUME NEW p \in 0..MaxPrefix
       PROVE  lo <= p /\ p <= hi <=> AtSlice(all, k, p) /\ e.lo <= p /\ p <= e.hi
  <2>0. p \in Nat
    OBVIOUS
  <2>1. lo <= p <=> (k = 1 \/ all[k].first <= p) /\ e.lo <= p
    BY <1>5, <1>7, <2>0
  <2>2. p <= hi <=> (k = Len(all) \/ p < all[k + 1].first) /\ p <= e.hi
    <3>1. CASE k = Len(all)
      BY <3>1
    <3>2. CASE k # Len(all)
      <4>1. all[k + 1].first \in e.lo..e.hi /\ all[k + 1].first \in Nat
        BY <1>5, <1>6, <3>2
      <4> QED
        BY <1>7, <2>0, <3>2, <4>1
    <3> QED
      BY <3>1, <3>2
  <2> HIDE DEF lo, hi
  <2> QED
    BY <2>1, <2>2 DEF AtSlice
<1>12. Listing(all[k].have)
  BY DEF Slicing, SliceOf
<1>13. ASSUME NEW a \in DOMAIN all[k].have PROVE lo <= Prefix[a] /\ Prefix[a] <= hi
  <2>1. AtSlice(all, k, Prefix[a]) /\ a \in DOMAIN e.have
    BY ListedAtSlice
  <2>2. Prefix[a] \in 0..MaxPrefix /\ e.lo <= Prefix[a] /\ Prefix[a] <= e.hi
    BY <1>1, <2>1, PrefixAssumption
  <2> HIDE DEF lo, hi
  <2> QED
    BY <1>11, <2>1, <2>2
<1> HIDE DEF lo, hi
<1>14. Accepted(f)
  BY <1>3, <1>10, <1>13 DEF Accepted, InScope
<1>15. f \in SentEntry
  <2>1. all[k] \in Slice
    BY <1>4
  <2> QED
    BY <1>1, <1>2, <1>8, <1>10, <2>1 DEF Slice, SentEntry
<1> QED
  BY <1>3, <1>8, <1>10, <1>11, <1>12, <1>14, <1>15 DEF f

\* The slices of an entry answer it, and claim less of the authors lost.
LEMMA SlicesAnswer ==
    ASSUME NEW e \in WantEntry, NEW all, Slicing(e, all, {}), all # <<>>
    PROVE  LET F == {ScopedSlice(e, all, k) : k \in DOMAIN all} IN
           Answers(e, F) /\ ShortOf(e, F) = Lost(e, all, {})
<1> DEFINE f(k) == ScopedSlice(e, all, k)
           F == {f(k) : k \in DOMAIN all}
<1>1. \A k \in DOMAIN all :
         /\ f(k).ch = e.ch /\ f(k).have = all[k].have
         /\ \A p \in 0..MaxPrefix :
               f(k).lo <= p /\ p <= f(k).hi <=> AtSlice(all, k, p) /\ e.lo <= p /\ p <= e.hi
  BY ScopeOfSlice
<1>2. \A k \in DOMAIN all : \A a : HaveOf(f(k), a) = HaveOf(all[k], a)
  <2> TAKE k \in DOMAIN all
  <2> TAKE a
  <2>1. f(k).have = all[k].have
    BY <1>1
  <2> HIDE DEF f
  <2> QED
    BY <2>1, HaveOfOthers
<1>3. \A p \in 0..MaxPrefix : \E k \in DOMAIN all : AtSlice(all, k, p)
  BY DEF Slicing, AtSlice
<1>4. \A p \in 0..MaxPrefix : \A j, k \in DOMAIN all :
         AtSlice(all, j, p) /\ AtSlice(all, k, p) => j = k
  BY AtOneSlice
<1> HIDE DEF f
<1>5. ASSUME NEW p \in 0..MaxPrefix, NEW k \in DOMAIN all, AtSlice(all, k, p)
      PROVE  SlicesIn(F, e, p) = IF e.lo <= p /\ p <= e.hi THEN {f(k)} ELSE {}
  BY <1>1, <1>4, <1>5 DEF SlicesIn
<1>6. \A p \in 0..MaxPrefix :
         Cardinality(SlicesIn(F, e, p)) = IF e.lo <= p /\ p <= e.hi THEN 1 ELSE 0
  <2> TAKE p \in 0..MaxPrefix
  <2>1. PICK k \in DOMAIN all : AtSlice(all, k, p)
    BY <1>3
  <2>2. Cardinality({f(k)}) = 1 /\ Cardinality({}) = 0
    BY FS_Singleton, FS_EmptySet
  <2> HIDE DEF F
  <2> QED
    BY <1>5, <2>1, <2>2
<1>7. \A k \in DOMAIN all : \A a : HaveOf(all[k], a) \subseteq HaveOf(e, a)
  BY DEF Slicing, SliceOf, HaveOf
<1>8. \A a \in Author : \A g \in SlicesIn(F, e, Prefix[a]) : HaveOf(g, a) \subseteq HaveOf(e, a)
  BY <1>2, <1>7 DEF SlicesIn
<1>9. Answers(e, F)
  BY <1>1, <1>6, <1>8 DEF Answers
<1>10. ASSUME NEW a \in DOMAIN e.have
       PROVE  a \in Author /\ (a \in ShortOf(e, F) <=> a \in Lost(e, all, {}))
  <2>1. a \in Author /\ Prefix[a] \in 0..MaxPrefix /\ e.lo <= Prefix[a] /\ Prefix[a] <= e.hi
    BY EntryFacts, PrefixAssumption
  <2>2. PICK k \in DOMAIN all : AtSlice(all, k, Prefix[a])
    BY <1>3, <2>1
  <2>3. SlicesIn(F, e, Prefix[a]) = {f(k)}
    BY <1>5, <2>1, <2>2
  <2>4. \A j \in DOMAIN all : j # k => HaveOf(all[j], a) = {}
    <3> TAKE j \in DOMAIN all
    <3>1. j # k => a \notin DOMAIN all[j].have
      BY <1>4, <2>1, <2>2, ListedAtSlice
    <3> QED
      BY <3>1 DEF HaveOf
  <2>5. Claimed(all, a) = HaveOf(all[k], a)
    BY <2>4 DEF Claimed
  <2> HIDE DEF F
  <2> QED
    BY <1>2, <2>1, <2>3, <2>5 DEF ShortOf, Lost
<1>11. ASSUME NEW a \in ShortOf(e, F) PROVE a \in DOMAIN e.have
  <2>1. PICK k \in DOMAIN all : HaveOf(all[k], a) # HaveOf(e, a)
    BY <1>2, <1>11 DEF ShortOf, SlicesIn
  <2>2. HaveOf(all[k], a) \subseteq HaveOf(e, a)
    BY <1>7
  <2> QED
    BY <2>1, <2>2 DEF HaveOf
<1>12. ShortOf(e, F) = Lost(e, all, {})
  <2> HIDE DEF F
  <2> QED
    BY <1>10, <1>11 DEF Lost
<1> QED
  BY <1>9, <1>12 DEF f

-----------------------------------------------------------------------------
\* The invariant of the packing.

\* The entries packed so far, and what was sent for them.
PackedSoFar == Len(interest) - Len(todo)

Done == {interest[j] : j \in 1..PackedSoFar}

AllSent == (UNION {msgs[k] : k \in DOMAIN msgs}) \cup frame

Small(entries) == WantBytes(entries) <= budget /\ \A e \in entries : Accepted(e)

\* The entries still to pack are the last of the Want.
TodoInv ==
    /\ interest \in Seq(WantEntry) /\ todo \in Seq(WantEntry) /\ budget \in Nat
    /\ \A j, k \in DOMAIN interest : interest[j].ch = interest[k].ch => j = k
    /\ Len(todo) <= Len(interest)
    /\ \A k \in 1..Len(todo) : todo[k] = interest[PackedSoFar + k]

\* What was sent fits, and answers the entries packed so far.
SentInv ==
    /\ msgs \in Seq(SUBSET SentEntry) /\ frame \in SUBSET SentEntry
    /\ \A k \in DOMAIN msgs : Small(msgs[k])
    /\ frame # {} => Small(frame)
    /\ Settled(AllSent, Done)

LostNow == Lost(Head(todo), ClosedPieces, runs)

\* The slices of the entry that is being cut; all but the last of them fit,
\* and it does too unless it is still being shrunk.
CutInv ==
    /\ todo # <<>> /\ frame = {}
    /\ pieces \in Seq(Slice)
    /\ Slicing(Head(todo), ClosedPieces, runs)
    /\ first = NoPrefix => pieces = <<>> /\ piece = NoListing
    /\ first # NoPrefix => [first |-> first, have |-> piece] \in Slice
    /\ \A k \in DOMAIN pieces : Fits(pieces[k].have)
    /\ phase = "slicing" /\ first # NoPrefix => Fits(piece)
    /\ phase = "shrinking" =>
          /\ first # NoPrefix
          /\ touched \subseteq LostNow /\ LostNow \cap DOMAIN piece \subseteq touched

\* The authors counted, with those of the run that is being shrunk, are those
\* of whom less was sent, with those of the entry that is being cut.
CountInv ==
    /\ cut \in Nat
    /\ cut + (IF phase = "shrinking" THEN Cardinality(touched) ELSE 0) =
          Cardinality(UnderIn(AllSent, Done)) +
          (IF phase \in {"slicing", "shrinking"} THEN Cardinality(LostNow) ELSE 0)

PhaseInv ==
    /\ phase \in {"entries", "slicing", "shrinking", "sent"}
    /\ phase = "sent" => todo = <<>> /\ frame = {}
    /\ phase \in {"slicing", "shrinking"} => CutInv

PackInv == TodoInv /\ SentInv /\ CountInv /\ PhaseInv

\* A whole entry can be sent as it is.
LEMMA WantEntryIsSent == ASSUME NEW e \in WantEntry PROVE e \in SentEntry
<1>1. /\ e.ch \in Channel /\ e.lo \in 0..MaxPrefix /\ e.hi \in 0..MaxPrefix
      /\ e = [ch |-> e.ch, lo |-> e.lo, hi |-> e.hi, have |-> e.have]
      /\ Listing(e.have)
  BY EntryFacts
<1>2. e.have \in [DOMAIN e.have -> Boundaries \ {<<>>}] /\ DOMAIN e.have \in SUBSET Author
  BY <1>1 DEF Listing
<1>3. e.have \in UNION {[authors -> Boundaries \ {<<>>}] : authors \in SUBSET Author}
  BY <1>2
<1> QED
  BY <1>1, <1>3 DEF SentEntry

\* The run taken first is one of those waiting, and none is before it.
LEMMA FirstRunLeast ==
    ASSUME runs \subseteq 0..MaxPrefix, runs # {}
    PROVE  FirstOf(FirstRun, runs)
<1> DEFINE T == {MaxPrefix - q : q \in runs}
<1>1. MaxPrefix \in Nat /\ \A q \in runs : q \in Nat /\ q <= MaxPrefix
  BY PrefixAssumption
<1>2. T \subseteq 0..MaxPrefix /\ T \in SUBSET Nat /\ T # {}
  <2>1. \A q \in runs : MaxPrefix - q \in 0..MaxPrefix
    BY <1>1
  <2>2. T \subseteq 0..MaxPrefix
    BY <2>1
  <2>3. 0..MaxPrefix \subseteq Nat
    OBVIOUS
  <2>4. PICK q \in runs : TRUE
    OBVIOUS
  <2>5. MaxPrefix - q \in T
    OBVIOUS
  <2> HIDE DEF T
  <2> QED
    BY <2>2, <2>3, <2>5
<1> HIDE DEF T
<1>3. IsFiniteSet(0..MaxPrefix)
  BY <1>1, FS_Interval
<1>4. IsFiniteSet(T)
  BY <1>2, <1>3, FS_Subset
<1>5. PICK t \in T : \A u \in T : u <= t
  BY <1>2, <1>4, GreatestOfFinite
<1>6. PICK p \in runs : t = MaxPrefix - p
  BY DEF T
<1>7. \A q \in runs : MaxPrefix - q <= MaxPrefix - p
  BY <1>5, <1>6 DEF T
<1>8. \A q \in runs : p <= q
  BY <1>1, <1>7
<1> QED
  BY <1>8 DEF FirstRun, FirstOf

\* The author that is shortened is one of the slice's.
LEMMA LastAuthorListed ==
    ASSUME Listing(piece), piece # NoListing
    PROVE  LastAuthor \in DOMAIN piece
<1>1. DOMAIN piece # {}
  BY DEF Listing, NoListing
<1>2. DOMAIN piece \in SUBSET Nat /\ IsFiniteSet(DOMAIN piece)
  BY IdsAssumption DEF Listing
<1>3. \E a \in DOMAIN piece : \A b \in DOMAIN piece : b <= a
  BY <1>1, <1>2, GreatestOfFinite
<1> QED
  BY <1>3 DEF LastAuthor

\* A budget that takes a pure Want of any scope takes an empty slice.
LEMMA EmptyFits ==
    ASSUME Workable, budget \in Nat, Head(todo) \in WantEntry
    PROVE  Fits(NoListing)
<1> DEFINE e == Head(todo)
           g == [e EXCEPT !.have = NoListing]
<1>1. /\ e.lo \in 0..MaxPrefix /\ e.hi \in 0..MaxPrefix
      /\ e = [ch |-> e.ch, lo |-> e.lo, hi |-> e.hi, have |-> e.have]
  BY EntryFacts
<1>2. g.lo = e.lo /\ g.hi = e.hi /\ g.have = NoListing
  BY <1>1
<1> HIDE DEF g, e
<1>3. DOMAIN NoListing = {} /\ NoListing = [a \in DOMAIN NoListing |-> NoListing[a]]
  BY DEF NoListing
<1>4. Listing(NoListing)
  BY <1>3, FS_EmptySet DEF Listing
<1>5. ListingBytes(NoListing) = 0
  <2>1. UNION {{a} \X (0..Len(NoListing[a])) : a \in DOMAIN NoListing} = {}
    BY <1>3
  <2> QED
    BY <2>1, FS_EmptySet DEF ListingBytes
<1>6. /\ WantBytes({g}) = 2 + Width[e.lo] + Width[e.hi] + 0
      /\ Width[e.lo] \in Nat /\ Width[e.hi] \in Nat
  BY <1>1, <1>2, <1>4, <1>5, OneEntryBytes
<1>7. WantBytes({g}) + ((MaxWidth - Width[e.lo]) + (MaxWidth - Width[e.hi])) <= budget
  BY <1>6, PackAssumption DEF Workable
<1> QED
  BY <1>7 DEF Fits, g, e

\* A slice that was measured with the widest bounds fits with its own.
LEMMA SliceFits ==
    ASSUME budget \in Nat, Head(todo) \in WantEntry, NEW all, NEW waiting,
           Slicing(Head(todo), all, waiting),
           NEW k \in DOMAIN all, Fits(all[k].have)
    PROVE  Small({ScopedSlice(Head(todo), all, k)})
<1> DEFINE e == Head(todo)
           f == ScopedSlice(e, all, k)
           h == all[k].have
           g == [e EXCEPT !.have = h]
<1>1. /\ e.lo \in 0..MaxPrefix /\ e.hi \in 0..MaxPrefix
      /\ e = [ch |-> e.ch, lo |-> e.lo, hi |-> e.hi, have |-> e.have]
  BY EntryFacts
<1>2. g.lo = e.lo /\ g.hi = e.hi /\ g.have = h
  BY <1>1
<1>3. WantBytes({g}) + ((MaxWidth - Width[e.lo]) + (MaxWidth - Width[e.hi])) <= budget
  BY DEF Fits
<1> HIDE DEF g
<1>4. /\ f.have = h /\ Listing(h) /\ f.lo \in 0..MaxPrefix /\ f.hi \in 0..MaxPrefix
      /\ Accepted(f)
  BY ScopeOfSlice
<1> HIDE DEF f, h, e
<1>5. /\ WantBytes({g}) = 2 + Width[e.lo] + Width[e.hi] + ListingBytes(h)
      /\ ListingBytes(h) \in Nat
      /\ Width[e.lo] \in Nat /\ Width[e.hi] \in Nat
  BY <1>1, <1>2, <1>4, OneEntryBytes
<1>6. /\ WantBytes({f}) = 2 + Width[f.lo] + Width[f.hi] + ListingBytes(h)
      /\ Width[f.lo] \in Nat /\ Width[f.lo] <= MaxWidth
      /\ Width[f.hi] \in Nat /\ Width[f.hi] <= MaxWidth
  BY <1>4, OneEntryBytes
<1>7. WantBytes({f}) <= budget
  <2> DEFINE of == WantBytes({f})
             as == WantBytes({g})
  <2>1. MaxWidth \in Nat
    BY PackAssumption
  <2>2. as + ((MaxWidth - Width[e.lo]) + (MaxWidth - Width[e.hi])) <= budget
    BY <1>3
  <2>3. as = 2 + Width[e.lo] + Width[e.hi] + ListingBytes(h)
    BY <1>5
  <2>4. of = 2 + Width[f.lo] + Width[f.hi] + ListingBytes(h)
    BY <1>6
  <2> HIDE DEF of, as
  <2>5. of <= budget
    BY <1>5, <1>6, <2>1, <2>2, <2>3, <2>4
  <2> QED
    BY <2>5 DEF of
<1> QED
  BY <1>4, <1>7 DEF Small, f, e

\* The head of what is to pack is the next entry of the Want.
LEMMA NextEntry ==
    ASSUME TodoInv, todo # <<>>, todo' = Tail(todo), interest' = interest, budget' = budget
    PROVE  /\ TodoInv'
           /\ Head(todo) \in WantEntry
           /\ Done' = Done \cup {Head(todo)}
           /\ \A d \in Done : d.ch # Head(todo).ch
<1> DEFINE n == PackedSoFar
           e == Head(todo)
<1>1. /\ interest \in Seq(WantEntry) /\ todo \in Seq(WantEntry)
      /\ Len(interest) \in Nat /\ Len(todo) \in Nat /\ Len(todo) >= 1 /\ Len(todo) <= Len(interest)
      /\ DOMAIN interest = 1..Len(interest)
  BY DEF TodoInv
<1>2. /\ e = todo[1] /\ e \in WantEntry
      /\ todo' \in Seq(WantEntry) /\ Len(todo') = Len(todo) - 1
      /\ \A k \in 1..(Len(todo) - 1) : todo'[k] = todo[k + 1]
  BY <1>1
<1>3. n \in Nat /\ n + 1 \in DOMAIN interest /\ e = interest[n + 1] /\ PackedSoFar' = n + 1
  <2>1. n \in Nat /\ n + 1 \in DOMAIN interest /\ PackedSoFar' = n + 1
    BY <1>1, <1>2 DEF PackedSoFar
  <2>2. 1 \in 1..Len(todo)
    BY <1>1
  <2>3. todo[1] = interest[n + 1]
    BY <2>2 DEF TodoInv
  <2> QED
    BY <1>2, <2>1, <2>3
<1>4. \A k \in 1..Len(todo') : todo'[k] = interest[(n + 1) + k]
  <2> TAKE k \in 1..Len(todo')
  <2>1. todo'[k] = todo[k + 1] /\ k + 1 \in 1..Len(todo) /\ k \in Nat
    BY <1>1, <1>2
  <2>2. todo[k + 1] = interest[n + (k + 1)]
    BY <2>1 DEF TodoInv
  <2>3. n + (k + 1) = (n + 1) + k
    BY <1>3, <2>1
  <2> HIDE DEF n
  <2> QED
    BY <2>1, <2>2, <2>3
<1> HIDE DEF n, e
<1>5. TodoInv'
  BY <1>1, <1>2, <1>3, <1>4 DEF TodoInv
<1>6. 1..(n + 1) = (1..n) \cup {n + 1}
  BY <1>3
<1>7. Done' = Done \cup {e}
  BY <1>3, <1>6 DEF Done, n
<1>8. ASSUME NEW j \in 1..n PROVE interest[j].ch # e.ch
  <2>1. j \in DOMAIN interest /\ j # n + 1
    BY <1>1, <1>3
  <2> QED
    BY <1>3, <2>1 DEF TodoInv
<1> QED
  BY <1>2, <1>5, <1>7, <1>8 DEF Done, n, e

\* A frame that is sent is one of the messages.
LEMMA FlushedSends ==
    ASSUME SentInv
    PROVE  /\ Flushed \in Seq(SUBSET SentEntry)
           /\ UNION {Flushed[k] : k \in DOMAIN Flushed} = AllSent
           /\ \A k \in DOMAIN Flushed : Small(Flushed[k])
<1>1. msgs \in Seq(SUBSET SentEntry) /\ frame \in SUBSET SentEntry
  BY DEF SentInv
<1>2. CASE frame = {}
  <2>1. Flushed = msgs
    BY <1>2 DEF Flushed
  <2> QED
    BY <1>2, <2>1 DEF SentInv, AllSent
<1>3. CASE frame # {}
  <2> DEFINE c == Append(msgs, frame)
  <2>1. Flushed = c
    BY <1>3 DEF Flushed
  <2>2. /\ c \in Seq(SUBSET SentEntry) /\ Len(msgs) \in Nat
        /\ DOMAIN msgs = 1..Len(msgs) /\ DOMAIN c = 1..(Len(msgs) + 1)
        /\ \A k \in 1..Len(msgs) : c[k] = msgs[k]
        /\ c[Len(msgs) + 1] = frame
    BY <1>1, OneMore
  <2> HIDE DEF c
  <2>3. DOMAIN c = DOMAIN msgs \cup {Len(msgs) + 1}
    BY <2>2
  <2>6. \A k \in DOMAIN msgs : c[k] = msgs[k]
    BY <2>2
  <2>7. UNION {c[k] : k \in DOMAIN c} = (UNION {msgs[k] : k \in DOMAIN msgs}) \cup frame
    <3> DEFINE A == {msgs[k] : k \in DOMAIN msgs}
               B == {c[k] : k \in DOMAIN c}
    <3>1. B = A \cup {frame}
      BY <2>2, <2>3, <2>6
    <3> HIDE DEF A, B
    <3>2. UNION B = (UNION A) \cup frame
      BY <3>1
    <3> QED
      BY <3>2 DEF A, B
  <2>4. UNION {c[k] : k \in DOMAIN c} = AllSent
    BY <2>7 DEF AllSent
  <2>5. \A k \in DOMAIN c : Small(c[k])
    BY <1>3, <2>2, <2>3 DEF SentInv
  <2> QED
    BY <2>1, <2>2, <2>4, <2>5
<1> QED
  BY <1>2, <1>3

-----------------------------------------------------------------------------
\* Every step keeps the invariant.

\* Nothing was packed at the start.
LEMMA PackInitInv == PackStarts => PackInv
<1> SUFFICES ASSUME PackStarts PROVE PackInv
  OBVIOUS
<1>1. /\ interest \in WantInputs /\ todo = interest /\ budget \in Limits
      /\ frame = {} /\ msgs = <<>> /\ cut = 0 /\ phase = "entries"
  BY DEF PackStarts
<1>2. interest \in Seq(WantEntry) /\ budget \in Nat
      /\ \A j, k \in DOMAIN interest : interest[j].ch = interest[k].ch => j = k
  BY <1>1, WantsAssumption, PackAssumption
<1>3. PackedSoFar = 0
  BY <1>1, <1>2 DEF PackedSoFar
<1>4. TodoInv
  BY <1>1, <1>2, <1>3 DEF TodoInv
<1>5. Done = {} /\ AllSent = {}
  BY <1>1, <1>3 DEF Done, AllSent
<1>6. UnderIn({}, {}) = {}
  BY DEF UnderIn
<1>7. Settled({}, {})
  BY <1>6, FS_EmptySet DEF Settled
<1>8. SentInv
  BY <1>1, <1>5, <1>7 DEF SentInv
<1>9. CountInv
  BY <1>1, <1>5, <1>6, FS_EmptySet DEF CountInv
<1>10. PhaseInv
  BY <1>1 DEF PhaseInv
<1> QED
  BY <1>4, <1>8, <1>9, <1>10 DEF PackInv

\* The prefixes that wait are prefixes.
LEMMA WaitingPrefixes ==
    ASSUME TodoInv, CutInv
    PROVE  Head(todo) \in WantEntry /\ runs \subseteq 0..MaxPrefix
<1>1. Head(todo) \in WantEntry
  BY DEF TodoInv, CutInv
<1>2. \A a \in DOMAIN Head(todo).have : Prefix[a] \in 0..MaxPrefix
  BY <1>1, EntryFacts, PrefixAssumption
<1> QED
  BY <1>1, <1>2 DEF CutInv, Slicing

\* A step within the cutting of an entry leaves what was sent alone.
LEMMA SentKept ==
    ASSUME TodoInv, SentInv, interest' = interest, budget' = budget, todo' = todo,
           frame' = frame, msgs' = msgs
    PROVE  /\ TodoInv' /\ SentInv' /\ AllSent' = AllSent /\ Done' = Done
           /\ UnderIn(AllSent, Done)' = UnderIn(AllSent, Done)
           /\ \A have : Fits(have)' <=> Fits(have)
<1>1. PackedSoFar' = PackedSoFar
  BY DEF PackedSoFar
<1>2. AllSent' = AllSent /\ Done' = Done
  BY <1>1 DEF AllSent, Done
<1>3. TodoInv'
  BY <1>1 DEF TodoInv
<1>4. SentInv'
  BY <1>2 DEF SentInv, Small
<1>5. \A have : Fits(have)' <=> Fits(have)
  BY DEF Fits
<1> QED
  BY <1>2, <1>3, <1>4, <1>5

\* A whole entry is sent as it is.
LEMMA FrameEntryInv == PackInv /\ FrameEntry => PackInv'
<1> SUFFICES ASSUME PackInv, FrameEntry PROVE PackInv'
  OBVIOUS
<1> DEFINE e == Head(todo)
<1>1. /\ phase = "entries" /\ phase' = phase /\ todo # <<>> /\ todo' = Tail(todo)
      /\ interest' = interest /\ budget' = budget /\ cut' = cut
      /\ WantBytes({e}) <= budget
  BY DEF FrameEntry
<1>2. TodoInv /\ SentInv /\ CountInv /\ PhaseInv
  BY DEF PackInv
<1>3. /\ TodoInv' /\ e \in WantEntry /\ Done' = Done \cup {e}
      /\ \A d \in Done : d.ch # e.ch
  BY <1>1, <1>2, NextEntry
<1>4. e \in SentEntry /\ Accepted(e)
  BY <1>3, WantEntryIsSent DEF WantEntry
<1>5. /\ Flushed \in Seq(SUBSET SentEntry)
      /\ UNION {Flushed[k] : k \in DOMAIN Flushed} = AllSent
      /\ \A k \in DOMAIN Flushed : Small(Flushed[k])
  BY <1>2, FlushedSends
<1>6. IF WantBytes(frame \cup {e}) <= budget
      THEN frame' = frame \cup {e} /\ msgs' = msgs
      ELSE frame' = {e} /\ msgs' = Flushed
  BY DEF FrameEntry
<1> HIDE DEF e
<1>7. AllSent' = AllSent \cup {e}
  <2> DEFINE made == UNION {msgs[k] : k \in DOMAIN msgs}
  <2>0. AllSent = made \cup frame /\ AllSent' = made' \cup frame'
    BY DEF AllSent
  <2>1. CASE WantBytes(frame \cup {e}) <= budget
    <3>1. frame' = frame \cup {e} /\ made' = made
      BY <1>6, <2>1
    <3> HIDE DEF made
    <3> QED
      BY <2>0, <3>1
  <2>2. CASE ~(WantBytes(frame \cup {e}) <= budget)
    <3>1. frame' = {e} /\ made' = AllSent
      BY <1>5, <1>6, <2>2
    <3> HIDE DEF made
    <3> QED
      BY <2>0, <3>1
  <2> QED
    BY <2>1, <2>2
<1>8. /\ Settled(AllSent \cup {e}, Done \cup {e})
      /\ Cardinality(UnderIn(AllSent \cup {e}, Done \cup {e})) = Cardinality(UnderIn(AllSent, Done))
  <2>1. Answers(e, {e}) /\ ShortOf(e, {e}) = {}
    BY <1>3, WholeEntryAnswers
  <2>2. IsFiniteSet({}) /\ Cardinality({}) = 0
    BY FS_EmptySet
  <2>3. Settled(AllSent, Done)
    BY <1>2 DEF SentInv
  <2>4. Cardinality(UnderIn(AllSent, Done)) \in Nat
    BY <2>3, FS_CardinalityType DEF Settled
  <2>5. IsFiniteSet(ShortOf(e, {e}))
    BY <2>1, <2>2
  <2>6. /\ Settled(AllSent \cup {e}, Done \cup {e})
        /\ Cardinality(UnderIn(AllSent \cup {e}, Done \cup {e})) =
              Cardinality(UnderIn(AllSent, Done)) + Cardinality(ShortOf(e, {e}))
    BY <1>3, <2>1, <2>3, <2>5, SettleOne
  <2> QED
    BY <2>1, <2>2, <2>4, <2>6
<1>9. SentInv'
  <2>1. Settled(AllSent, Done)'
    BY <1>3, <1>7, <1>8
  <2>2. CASE WantBytes(frame \cup {e}) <= budget
    <3>1. Small(frame \cup {e})
      BY <1>2, <1>4, <2>2 DEF SentInv, Small
    <3>2. /\ msgs' \in Seq(SUBSET SentEntry) /\ frame' \in SUBSET SentEntry
          /\ \A k \in DOMAIN msgs' : Small(msgs'[k])
      BY <1>2, <1>4, <1>6, <2>2 DEF SentInv
    <3> QED
      BY <1>1, <1>6, <2>1, <2>2, <3>1, <3>2 DEF SentInv, Small
  <2>3. CASE ~(WantBytes(frame \cup {e}) <= budget)
    <3>1. Small({e})
      BY <1>1, <1>4 DEF Small, e
    <3> QED
      BY <1>1, <1>4, <1>5, <1>6, <2>1, <2>3, <3>1 DEF SentInv, Small
  <2> QED
    BY <2>2, <2>3
<1>10. CountInv'
  BY <1>1, <1>2, <1>3, <1>7, <1>8 DEF CountInv
<1>11. PhaseInv'
  BY <1>1 DEF PhaseInv
<1> QED
  BY <1>3, <1>9, <1>10, <1>11 DEF PackInv

\* The frame is sent, and an entry is to be cut: all its runs wait.
LEMMA CutEntryInv == PackInv /\ CutEntry => PackInv'
<1> SUFFICES ASSUME PackInv, CutEntry PROVE PackInv'
  OBVIOUS
<1>1. /\ phase = "entries" /\ phase' = "slicing" /\ todo # <<>> /\ todo' = todo
      /\ interest' = interest /\ budget' = budget /\ cut' = cut
      /\ msgs' = Flushed /\ frame' = {}
      /\ runs' = {Prefix[a] : a \in DOMAIN Head(todo).have}
      /\ piece' = NoListing /\ first' = NoPrefix /\ pieces' = <<>> /\ touched' = {}
  BY DEF CutEntry
<1>2. TodoInv /\ SentInv /\ CountInv /\ PhaseInv
  BY DEF PackInv
<1>3. PackedSoFar' = PackedSoFar /\ Done' = Done
  BY <1>1 DEF PackedSoFar, Done
<1>4. TodoInv'
  BY <1>1, <1>2, <1>3 DEF TodoInv
<1>5. /\ Flushed \in Seq(SUBSET SentEntry)
      /\ UNION {Flushed[k] : k \in DOMAIN Flushed} = AllSent
      /\ \A k \in DOMAIN Flushed : Small(Flushed[k])
  BY <1>2, FlushedSends
<1>6. AllSent' = AllSent
  BY <1>1, <1>5 DEF AllSent
<1>7. SentInv'
  BY <1>1, <1>2, <1>3, <1>5, <1>6 DEF SentInv, Small
<1>8. ClosedPieces' = <<>>
  BY <1>1 DEF ClosedPieces
<1>9. Slicing(Head(todo), <<>>, {Prefix[a] : a \in DOMAIN Head(todo).have})
  BY DEF Slicing
<1>10. Lost(Head(todo), <<>>, {Prefix[a] : a \in DOMAIN Head(todo).have}) = {}
  BY DEF Lost
<1>11. LostNow' = {}
  BY <1>1, <1>8, <1>10 DEF LostNow
<1>12. CutInv'
  BY <1>1, <1>8, <1>9 DEF CutInv
<1>13. CountInv'
  <2>1. Cardinality(LostNow') = 0
    BY <1>11, FS_EmptySet
  <2>2. Cardinality(UnderIn(AllSent, Done)) \in Nat
    BY <1>2, FS_CardinalityType DEF SentInv, Settled
  <2>3. cut \in Nat /\ cut = Cardinality(UnderIn(AllSent, Done))
    BY <1>1, <1>2, <2>2 DEF CountInv
  <2> QED
    BY <1>1, <1>3, <1>6, <2>1, <2>2, <2>3 DEF CountInv
<1>14. PhaseInv'
  BY <1>1, <1>12 DEF PhaseInv
<1> QED
  BY <1>4, <1>7, <1>13, <1>14 DEF PackInv

\* The authors lost are finitely many.
LEMMA LostFinite ==
    ASSUME NEW e \in WantEntry, NEW all, NEW waiting
    PROVE  /\ IsFiniteSet(Lost(e, all, waiting))
           /\ Cardinality(Lost(e, all, waiting)) \in Nat
<1>1. IsFiniteSet(DOMAIN e.have)
  BY EntryFacts DEF Listing
<1>2. Lost(e, all, waiting) \in SUBSET DOMAIN e.have
  BY DEF Lost
<1>3. IsFiniteSet(Lost(e, all, waiting))
  BY <1>1, <1>2, FS_Subset
<1> QED
  BY <1>3, FS_CardinalityType

\* The next run joins the slice.
LEMMA AddRunInv == PackInv /\ AddRun => PackInv'
<1> SUFFICES ASSUME PackInv, AddRun PROVE PackInv'
  OBVIOUS
<1> DEFINE e == Head(todo)
           p == FirstRun
<1>1. /\ phase = "slicing" /\ phase' = phase /\ runs # {} /\ runs' = runs \ {p}
      /\ interest' = interest /\ budget' = budget /\ todo' = todo /\ frame' = frame
      /\ msgs' = msgs /\ cut' = cut /\ pieces' = pieces
      /\ piece' = Joined(piece, Run(p)) /\ Fits(Joined(piece, Run(p)))
      /\ first' = IF first = NoPrefix THEN p ELSE first
  BY DEF AddRun
<1>2. TodoInv /\ SentInv /\ CountInv /\ PhaseInv /\ CutInv
  BY <1>1 DEF PackInv, PhaseInv
<1>3. e \in WantEntry /\ runs \subseteq 0..MaxPrefix
  BY <1>2, WaitingPrefixes
<1>4. FirstOf(p, runs) /\ p \in runs
  BY <1>1, <1>3, FirstRunLeast DEF FirstOf
<1>5. p # NoPrefix /\ p \in 0..MaxPrefix
  BY <1>3, <1>4, PrefixAssumption DEF NoPrefix
<1>6. Run(p) = RunOf(e, p)
  BY DEF Run, RunOf
<1>7. /\ TodoInv' /\ SentInv' /\ AllSent' = AllSent /\ Done' = Done
      /\ UnderIn(AllSent, Done)' = UnderIn(AllSent, Done)
      /\ \A have : Fits(have)' <=> Fits(have)
  BY <1>1, <1>2, SentKept
<1>8. Fits(piece)'
  BY <1>1 DEF Fits
<1> HIDE DEF e, p
<1>9. /\ [first |-> first, have |-> piece]' \in Slice
      /\ Slicing(e, ClosedPieces', runs \ {p})
      /\ Lost(e, ClosedPieces', runs \ {p}) = LostNow
      /\ first' # NoPrefix
  <2>1. CASE first = NoPrefix
    <3> DEFINE new == [first |-> p, have |-> RunOf(e, p)]
    <3>1. pieces = <<>> /\ piece = NoListing /\ ClosedPieces = <<>>
      BY <1>2, <2>1 DEF CutInv, ClosedPieces
    <3>2. Joined(NoListing, RunOf(e, p)) = RunOf(e, p)
      BY DEF Joined, NoListing, RunOf
    <3>3. piece' = RunOf(e, p) /\ first' = p
      BY <1>1, <1>6, <2>1, <3>1, <3>2
    <3>4. ClosedPieces' = Append(<<>>, new)
      BY <1>1, <1>5, <3>1, <3>3 DEF ClosedPieces
    <3>5. Slicing(e, <<>>, runs) /\ LostNow = Lost(e, <<>>, runs)
      BY <1>2, <3>1 DEF CutInv, LostNow, e
    <3> DEFINE none == <<>>
    <3>7. Slicing(e, none, runs)
      BY <3>5
    <3> HIDE DEF none
    <3>6. /\ SliceOf(e, new)
          /\ Slicing(e, Append(none, new), runs \ {p})
          /\ Lost(e, Append(none, new), runs \ {p}) = Lost(e, none, runs)
      BY <1>3, <1>4, <3>7, NewSlice
    <3> USE DEF none
    <3> HIDE DEF new
    <3>8. SliceOf(e, new) /\ new \in Slice
      BY <3>6 DEF SliceOf
    <3>9. [first |-> first, have |-> piece]' = new
      BY <3>3 DEF new
    <3> QED
      BY <1>5, <3>8, <3>9, <3>3, <3>4, <3>5, <3>6 DEF SliceOf
  <2>2. CASE first # NoPrefix
    <3> DEFINE x == [first |-> first, have |-> piece]
               y == [first |-> x.first, have |-> Joined(x.have, RunOf(e, p))]
    <3>1. x \in Slice /\ pieces \in Seq(Slice) /\ ClosedPieces = Append(pieces, x)
      BY <1>2, <2>2 DEF CutInv, ClosedPieces
    <3>2. [first |-> first, have |-> piece]' = y
      BY <1>1, <1>6, <2>2
    <3>3. ClosedPieces' = Append(pieces, y)
      BY <1>1, <1>6, <2>2 DEF ClosedPieces
    <3>4. Slicing(e, Append(pieces, x), runs) /\ LostNow = Lost(e, Append(pieces, x), runs)
      BY <1>2, <3>1 DEF CutInv, LostNow, e
    <3> HIDE DEF x
    <3>5. /\ SliceOf(e, y)
          /\ Slicing(e, Append(pieces, y), runs \ {p})
          /\ Lost(e, Append(pieces, y), runs \ {p}) = Lost(e, Append(pieces, x), runs)
      BY <1>3, <1>4, <3>1, <3>4, LongerSlice
    <3> HIDE DEF y
    <3> QED
      BY <1>1, <2>2, <3>2, <3>3, <3>4, <3>5 DEF SliceOf
  <2> QED
    BY <2>1, <2>2
<1>10. LostNow' = LostNow
  BY <1>1, <1>9 DEF LostNow, e
<1>11. CutInv'
  <2>1. Slicing(Head(todo), ClosedPieces, runs)'
    BY <1>1, <1>9 DEF e
  <2> QED
    BY <1>1, <1>2, <1>7, <1>8, <1>9, <2>1 DEF CutInv
<1>12. CountInv'
  BY <1>1, <1>2, <1>7, <1>10 DEF CountInv
<1>13. PhaseInv'
  BY <1>1, <1>11 DEF PhaseInv
<1> QED
  BY <1>7, <1>12, <1>13 DEF PackInv

\* The run starts the next slice, which is shrunk if need be.
LEMMA StartPieceInv == PackInv /\ StartPiece => PackInv'
<1> SUFFICES ASSUME PackInv, StartPiece PROVE PackInv'
  OBVIOUS
<1> DEFINE e == Head(todo)
           p == FirstRun
           new == [first |-> p, have |-> RunOf(e, p)]
           all == ClosedPieces
<1>1. /\ phase = "slicing" /\ phase' = "shrinking" /\ runs # {} /\ runs' = runs \ {p}
      /\ interest' = interest /\ budget' = budget /\ todo' = todo /\ frame' = frame
      /\ msgs' = msgs /\ cut' = cut /\ pieces' = all /\ touched' = {}
      /\ piece' = Run(p) /\ first' = p
  BY DEF StartPiece
<1>2. TodoInv /\ SentInv /\ CountInv /\ PhaseInv /\ CutInv
  BY <1>1 DEF PackInv, PhaseInv
<1>3. e \in WantEntry /\ runs \subseteq 0..MaxPrefix
  BY <1>2, WaitingPrefixes
<1>4. FirstOf(p, runs) /\ p \in runs
  BY <1>1, <1>3, FirstRunLeast DEF FirstOf
<1>5. p # NoPrefix /\ p \in 0..MaxPrefix
  BY <1>3, <1>4, PrefixAssumption DEF NoPrefix
<1>6. Run(p) = RunOf(e, p)
  BY DEF Run, RunOf
<1>7. /\ TodoInv' /\ SentInv' /\ AllSent' = AllSent /\ Done' = Done
      /\ UnderIn(AllSent, Done)' = UnderIn(AllSent, Done)
      /\ \A have : Fits(have)' <=> Fits(have)
  BY <1>1, <1>2, SentKept
<1>8. Slicing(e, all, runs) /\ all \in Seq(Slice) /\ LostNow = Lost(e, all, runs)
  BY <1>2 DEF CutInv, Slicing, LostNow
<1>9. \A k \in DOMAIN all : Fits(all[k].have)
  <2> DEFINE x == [first |-> first, have |-> piece]
  <2>1. CASE first = NoPrefix
    BY <1>2, <2>1 DEF ClosedPieces, CutInv
  <2>2. CASE first # NoPrefix
    <3>1. x \in Slice /\ pieces \in Seq(Slice) /\ all = Append(pieces, x)
      BY <1>2, <2>2 DEF CutInv, ClosedPieces
    <3>2. Fits(x.have) /\ \A k \in DOMAIN pieces : Fits(pieces[k].have)
      BY <1>1, <1>2, <2>2 DEF CutInv
    <3> HIDE DEF x, all
    <3>3. /\ DOMAIN pieces = 1..Len(pieces) /\ DOMAIN all = 1..(Len(pieces) + 1)
          /\ Len(pieces) \in Nat
          /\ \A k \in 1..Len(pieces) : all[k] = pieces[k]
          /\ all[Len(pieces) + 1] = x
      BY <3>1, OneMore
    <3>4. \A k \in DOMAIN all : k \in DOMAIN pieces \/ k = Len(pieces) + 1
      BY <3>3
    <3> QED
      BY <3>2, <3>3, <3>4
  <2> QED
    BY <2>1, <2>2
<1> HIDE DEF e, p, all
<1>10. /\ SliceOf(e, new)
       /\ Slicing(e, Append(all, new), runs \ {p})
       /\ Lost(e, Append(all, new), runs \ {p}) = Lost(e, all, runs)
       /\ \A a \in DOMAIN RunOf(e, p) : a \notin Lost(e, all, runs)
  BY <1>3, <1>4, <1>8, NewSlice
<1>11. [first |-> first, have |-> piece]' = new
  BY <1>1, <1>6
<1> HIDE DEF new
<1>12. ClosedPieces' = Append(all, new)
  BY <1>1, <1>5, <1>11 DEF ClosedPieces
<1>13. LostNow' = LostNow
  BY <1>1, <1>8, <1>10, <1>12 DEF LostNow, e
<1>14. CutInv'
  <2>1. Slicing(Head(todo), ClosedPieces, runs)'
    BY <1>1, <1>10, <1>12 DEF e
  <2>2. ([first |-> first, have |-> piece] \in Slice)'
    BY <1>10, <1>11 DEF SliceOf
  <2>3. touched' \subseteq LostNow' /\ LostNow' \cap DOMAIN piece' \subseteq touched'
    BY <1>1, <1>6, <1>8, <1>10, <1>13
  <2>4. \A k \in DOMAIN pieces' : Fits(pieces[k].have)'
    BY <1>1, <1>7, <1>9 DEF Fits
  <2> QED
    BY <1>1, <1>2, <1>5, <1>8, <2>1, <2>2, <2>3, <2>4 DEF CutInv
<1>15. CountInv'
  <2>1. Cardinality(touched') = 0
    BY <1>1, FS_EmptySet
  <2>2. cut = Cardinality(UnderIn(AllSent, Done)) + Cardinality(LostNow) /\ cut \in Nat
    BY <1>1, <1>2 DEF CountInv
  <2> QED
    BY <1>1, <1>7, <1>13, <2>1, <2>2 DEF CountInv
<1>16. PhaseInv'
  BY <1>1, <1>14 DEF PhaseInv
<1> QED
  BY <1>7, <1>15, <1>16 DEF PackInv

\* The last author of the run loses a range.
LEMMA ShrinkRunInv == PackInv /\ ShrinkRun => PackInv'
<1> SUFFICES ASSUME PackInv, ShrinkRun PROVE PackInv'
  OBVIOUS
<1> DEFINE e == Head(todo)
           u == LastAuthor
           x == [first |-> first, have |-> piece]
           kept == Shortened(piece[u])
           h == IF kept = <<>> THEN [a \in DOMAIN piece \ {u} |-> piece[a]]
                ELSE [piece EXCEPT ![u] = kept]
           y == [first |-> x.first, have |-> h]
<1>1. /\ phase = "shrinking" /\ phase' = phase /\ runs' = runs /\ first' = first
      /\ interest' = interest /\ budget' = budget /\ todo' = todo /\ frame' = frame
      /\ msgs' = msgs /\ cut' = cut /\ pieces' = pieces
      /\ piece # NoListing /\ piece' = h /\ touched' = touched \cup {u}
  BY DEF ShrinkRun
<1>2. TodoInv /\ SentInv /\ CountInv /\ PhaseInv /\ CutInv
  BY <1>1 DEF PackInv, PhaseInv
<1>3. e \in WantEntry
  BY <1>2, WaitingPrefixes
<1>4. /\ TodoInv' /\ SentInv' /\ AllSent' = AllSent /\ Done' = Done
      /\ UnderIn(AllSent, Done)' = UnderIn(AllSent, Done)
      /\ \A have : Fits(have)' <=> Fits(have)
  BY <1>1, <1>2, SentKept
<1>5. /\ first # NoPrefix /\ x \in Slice /\ pieces \in Seq(Slice)
      /\ ClosedPieces = Append(pieces, x)
      /\ touched \subseteq LostNow /\ LostNow \cap DOMAIN piece \subseteq touched
  BY <1>1, <1>2 DEF CutInv, ClosedPieces
<1>6. Slicing(e, Append(pieces, x), runs) /\ LostNow = Lost(e, Append(pieces, x), runs)
  BY <1>2, <1>5 DEF CutInv, LostNow
<1>7. Listing(piece)
  <2>1. /\ DOMAIN Append(pieces, x) = 1..(Len(pieces) + 1)
        /\ Append(pieces, x)[Len(pieces) + 1] = x /\ Len(pieces) \in Nat
    BY <1>5, OneMore
  <2>2. x.have = piece
    OBVIOUS
  <2> HIDE DEF x
  <2>3. SliceOf(e, x)
    BY <1>6, <2>1 DEF Slicing
  <2> QED
    BY <2>2, <2>3 DEF SliceOf
<1>8. u \in DOMAIN piece /\ x.have = piece /\ x.first = first
  BY <1>1, <1>7, LastAuthorListed
<1>9. h = Shrunk(x.have, u)
  BY DEF Shrunk
<1>14. DOMAIN h \subseteq DOMAIN piece
  <2> HIDE DEF kept
  <2>1. CASE kept = <<>>
    BY <2>1
  <2>2. CASE kept # <<>>
    BY <2>2
  <2> QED
    BY <2>1, <2>2
<1> HIDE DEF e, u, h, x, kept
<1>10. /\ SliceOf(e, y)
       /\ Slicing(e, Append(pieces, y), runs)
       /\ Lost(e, Append(pieces, y), runs) = Lost(e, Append(pieces, x), runs) \cup {u}
  <2>1. u \in DOMAIN x.have
    BY <1>8
  <2> QED
    BY <1>3, <1>5, <1>6, <1>9, <2>1, ShorterSlice
<1>11. [first |-> first, have |-> piece]' = y
  BY <1>1, <1>8
<1> HIDE DEF y
<1>12. ClosedPieces' = Append(pieces, y)
  BY <1>1, <1>5, <1>11 DEF ClosedPieces
<1>13. LostNow' = LostNow \cup {u}
  BY <1>1, <1>6, <1>10, <1>12 DEF LostNow, e
<1>15. CutInv'
  <2>1. Slicing(Head(todo), ClosedPieces, runs)'
    BY <1>1, <1>10, <1>12 DEF e
  <2>2. ([first |-> first, have |-> piece] \in Slice)'
    BY <1>10, <1>11 DEF SliceOf
  <2>3. touched' \subseteq LostNow' /\ LostNow' \cap DOMAIN piece' \subseteq touched'
    BY <1>1, <1>5, <1>13, <1>14
  <2>4. \A k \in DOMAIN pieces' : Fits(pieces[k].have)'
    BY <1>1, <1>2, <1>4 DEF CutInv, Fits
  <2> QED
    BY <1>1, <1>2, <1>5, <2>1, <2>2, <2>3, <2>4 DEF CutInv
<1>16. CountInv'
  <2>1. IsFiniteSet(LostNow) /\ Cardinality(LostNow) \in Nat
    BY <1>3, <1>6, LostFinite
  <2>2. IsFiniteSet(touched) /\ Cardinality(touched) \in Nat
    BY <1>5, <2>1, FS_Subset, FS_CardinalityType
  <2>3. cut + Cardinality(touched) = Cardinality(UnderIn(AllSent, Done)) + Cardinality(LostNow)
        /\ cut \in Nat
    BY <1>1, <1>2 DEF CountInv
  <2>4. Cardinality(UnderIn(AllSent, Done)) \in Nat
    BY <1>2, FS_CardinalityType DEF SentInv, Settled
  <2>5. u \in touched <=> u \in LostNow
    BY <1>5, <1>8
  <2>6. CASE u \in touched
    <3>1. touched' = touched /\ LostNow' = LostNow
      BY <1>1, <1>13, <2>5, <2>6
    <3> QED
      BY <1>1, <1>4, <2>3, <3>1 DEF CountInv
  <2>7. CASE u \notin touched
    <3>1. Cardinality(touched') = Cardinality(touched) + 1
      BY <1>1, <2>2, <2>7, FS_AddElement
    <3>2. Cardinality(LostNow') = Cardinality(LostNow) + 1
      BY <1>13, <2>1, <2>5, <2>7, FS_AddElement
    <3> QED
      BY <1>1, <1>4, <2>1, <2>2, <2>3, <2>4, <3>1, <3>2 DEF CountInv
  <2> QED
    BY <2>6, <2>7
<1>17. PhaseInv'
  BY <1>1, <1>15 DEF PhaseInv
<1> QED
  BY <1>4, <1>16, <1>17 DEF PackInv

\* A run that lost what it had to is a slice that fits.
LEMMA RunFitsInv == Workable /\ PackInv /\ RunFits => PackInv'
<1> SUFFICES ASSUME Workable, PackInv, RunFits PROVE PackInv'
  OBVIOUS
<1>1. /\ phase = "shrinking" /\ phase' = "slicing" /\ runs' = runs /\ piece' = piece
      /\ first' = first /\ pieces' = pieces /\ touched' = touched
      /\ interest' = interest /\ budget' = budget /\ todo' = todo /\ frame' = frame
      /\ msgs' = msgs /\ cut' = cut + Cardinality(touched)
  BY DEF RunFits, sliceVars
<1>2. TodoInv /\ SentInv /\ CountInv /\ PhaseInv /\ CutInv
  BY <1>1 DEF PackInv, PhaseInv
<1>3. Head(todo) \in WantEntry
  BY <1>2, WaitingPrefixes
<1>4. /\ TodoInv' /\ SentInv' /\ AllSent' = AllSent /\ Done' = Done
      /\ UnderIn(AllSent, Done)' = UnderIn(AllSent, Done)
      /\ \A have : Fits(have)' <=> Fits(have)
  BY <1>1, <1>2, SentKept
<1>5. Fits(piece)
  <2>1. CASE piece = NoListing
    <3>1. Fits(NoListing)
      BY <1>2, <1>3, EmptyFits DEF TodoInv
    <3> QED
      BY <2>1, <3>1
  <2>2. CASE piece # NoListing
    BY <2>2 DEF RunFits
  <2> QED
    BY <2>1, <2>2
<1>6. ClosedPieces' = ClosedPieces
  BY <1>1 DEF ClosedPieces
<1>7. LostNow' = LostNow
  BY <1>1, <1>6 DEF LostNow
<1>8. CutInv'
  <2>1. Fits(piece)'
    BY <1>1, <1>5 DEF Fits
  <2>2. \A k \in DOMAIN pieces' : Fits(pieces[k].have)'
    BY <1>1, <1>2 DEF CutInv, Fits
  <2> QED
    BY <1>1, <1>2, <1>6, <2>1, <2>2 DEF CutInv
<1>9. CountInv'
  <2>1. IsFiniteSet(LostNow) /\ touched \subseteq LostNow
    BY <1>1, <1>2, <1>3, LostFinite DEF CutInv, LostNow
  <2>2. Cardinality(touched) \in Nat
    BY <2>1, FS_Subset, FS_CardinalityType
  <2>3. cut \in Nat
        /\ cut + Cardinality(touched) = Cardinality(UnderIn(AllSent, Done)) + Cardinality(LostNow)
    BY <1>1, <1>2 DEF CountInv
  <2>4. Cardinality(UnderIn(AllSent, Done)) \in Nat
    BY <1>2, FS_CardinalityType DEF SentInv, Settled
  <2>5. Cardinality(LostNow) \in Nat
    BY <2>1, FS_CardinalityType
  <2> HIDE DEF LostNow
  <2> QED
    BY <1>1, <1>4, <1>7, <2>2, <2>3, <2>4, <2>5 DEF CountInv
<1>10. PhaseInv'
  BY <1>1, <1>8 DEF PhaseInv
<1> QED
  BY <1>4, <1>9, <1>10 DEF PackInv

\* The slices that are sent for an entry: there is one at least, and all fit.
LEMMA RemainingSlices ==
    ASSUME Workable, TodoInv, CutInv, phase = "slicing", runs = {}
    PROVE  /\ Remaining # <<>>
           /\ Slicing(Head(todo), Remaining, {})
           /\ \A k \in DOMAIN Remaining : Fits(Remaining[k].have)
           /\ Lost(Head(todo), Remaining, {}) = LostNow
<1> DEFINE e == Head(todo)
           x == [first |-> first, have |-> piece]
<1>1. e \in WantEntry
  BY WaitingPrefixes
<1>2. CASE first # NoPrefix
  <2>1. x \in Slice /\ pieces \in Seq(Slice) /\ ClosedPieces = Append(pieces, x)
    BY <1>2 DEF CutInv, ClosedPieces
  <2>2. /\ Len(pieces) \in Nat /\ Append(pieces, x) # <<>>
        /\ DOMAIN pieces = 1..Len(pieces)
        /\ DOMAIN Append(pieces, x) = 1..(Len(pieces) + 1)
        /\ \A k \in 1..Len(pieces) : Append(pieces, x)[k] = pieces[k]
        /\ Append(pieces, x)[Len(pieces) + 1] = x
    BY <2>1, OneMore
  <2>3. Fits(x.have) /\ \A k \in DOMAIN pieces : Fits(pieces[k].have)
    BY <1>2 DEF CutInv
  <2> HIDE DEF x
  <2>4. Remaining = Append(pieces, x)
    BY <2>1, <2>2 DEF Remaining
  <2>5. \A k \in DOMAIN Remaining : k \in DOMAIN pieces \/ k = Len(pieces) + 1
    BY <2>2, <2>4
  <2>6. \A k \in DOMAIN Remaining : Fits(Remaining[k].have)
    BY <2>2, <2>3, <2>4, <2>5
  <2> QED
    BY <2>1, <2>2, <2>4, <2>6 DEF CutInv, LostNow
<1>3. CASE first = NoPrefix
  <2> DEFINE only == [first |-> e.lo, have |-> NoListing]
             all == <<only>>
  <2>1. ClosedPieces = <<>> /\ Slicing(e, <<>>, {})
    BY <1>3 DEF CutInv, ClosedPieces
  <2>2. Fits(NoListing)
    BY <1>1, EmptyFits DEF TodoInv
  <2>3. Remaining = all
    BY <2>1, <2>2 DEF Remaining
  <2>4. /\ e.lo \in 0..MaxPrefix /\ e.hi \in 0..MaxPrefix /\ e.lo <= e.hi
        /\ e.lo \in Nat /\ e.hi \in Nat
    BY <1>1, EntryFacts, PrefixAssumption
  <2>5. /\ DOMAIN NoListing = {}
        /\ NoListing = [a \in DOMAIN NoListing |-> NoListing[a]]
    BY DEF NoListing
  <2>6. Listing(NoListing)
    BY <2>5, FS_EmptySet DEF Listing
  <2>7. NoListing \in UNION {[authors -> Boundaries \ {<<>>}] : authors \in SUBSET Author}
    <3>1. NoListing \in [{} -> Boundaries \ {<<>>}] /\ {} \in SUBSET Author
      BY <2>5
    <3> QED
      BY <3>1
  <2>8. only \in Slice /\ only.first = e.lo /\ only.have = NoListing
    BY <2>4, <2>7 DEF Slice
  <2> HIDE DEF only
  <2>9. all \in Seq(Slice) /\ DOMAIN all = {1} /\ all[1] = only /\ Len(all) = 1 /\ all # <<>>
    BY <2>8
  <2>10. SliceOf(e, only)
    BY <2>4, <2>5, <2>6, <2>8 DEF SliceOf
  <2> HIDE DEF all
  <2>11. Slicing(e, all, {})
    BY <2>9, <2>10 DEF Slicing
  <2>12. \A a : Claimed(all, a) = Claimed(<<>>, a)
    <3>1. \A a : HaveOf(only, a) = {}
      BY <2>5, <2>8 DEF HaveOf
    <3>2. \A a : Claimed(<<>>, a) = {}
      BY DEF Claimed
    <3> QED
      BY <2>9, <3>1, <3>2 DEF Claimed
  <2>13. Lost(e, all, {}) = LostNow
    BY <2>1, <2>12 DEF LostNow, Lost
  <2> QED
    BY <2>2, <2>3, <2>8, <2>9, <2>11, <2>13
<1> QED
  BY <1>2, <1>3

\* The slices of an entry are sent in messages of their own.
LEMMA EmitSlicesInv == Workable /\ PackInv /\ EmitSlices => PackInv'
<1> SUFFICES ASSUME Workable, PackInv, EmitSlices PROVE PackInv'
  OBVIOUS
<1> DEFINE e == Head(todo)
           all == Remaining
           c == Scoped(e, all)
           F == {ScopedSlice(e, all, k) : k \in DOMAIN all}
<1>1. /\ phase = "slicing" /\ runs = {} /\ phase' = "entries" /\ todo' = Tail(todo)
      /\ interest' = interest /\ budget' = budget /\ frame' = frame
      /\ msgs' = msgs \o c
      /\ cut' = IF all = <<>> THEN cut + 1 ELSE cut
  BY DEF EmitSlices
<1>2. TodoInv /\ SentInv /\ CountInv /\ PhaseInv /\ CutInv
  BY <1>1 DEF PackInv, PhaseInv
<1>3. todo # <<>> /\ frame = {}
  BY <1>2 DEF CutInv
<1>4. /\ TodoInv' /\ e \in WantEntry /\ Done' = Done \cup {e}
      /\ \A d \in Done : d.ch # e.ch
  BY <1>1, <1>2, <1>3, NextEntry
<1>5. /\ all # <<>> /\ Slicing(e, all, {}) /\ Lost(e, all, {}) = LostNow
      /\ \A k \in DOMAIN all : Fits(all[k].have)
  BY <1>1, <1>2, RemainingSlices
<1>6. c = [k \in DOMAIN all |-> {ScopedSlice(e, all, k)}]
  BY ScopedIsSlices
<1>7. all \in Seq(Slice) /\ DOMAIN all = 1..Len(all) /\ Len(all) \in Nat
  BY <1>5 DEF Slicing
<1>8. \A k \in DOMAIN all : Small({ScopedSlice(e, all, k)})
  BY <1>2, <1>4, <1>5, SliceFits DEF TodoInv
<1> HIDE DEF e, all, c
<1>9. \A k \in DOMAIN all : ScopedSlice(e, all, k) \in SentEntry
  BY <1>4, <1>5, ScopeOfSlice
<1>10. c \in Seq(SUBSET SentEntry) /\ Len(c) = Len(all) /\ DOMAIN c = DOMAIN all
       /\ \A k \in DOMAIN all : c[k] = {ScopedSlice(e, all, k)}
  <2>1. \A k \in 1..Len(all) : {ScopedSlice(e, all, k)} \in SUBSET SentEntry
    BY <1>7, <1>9
  <2>2. c \in [1..Len(all) -> SUBSET SentEntry]
    BY <1>6, <1>7, <2>1
  <2> QED
    BY <1>6, <1>7, <2>2
<1>11. /\ msgs \in Seq(SUBSET SentEntry) /\ Len(msgs) \in Nat /\ DOMAIN msgs = 1..Len(msgs)
       /\ \A k \in DOMAIN msgs : Small(msgs[k])
  BY <1>2 DEF SentInv
<1>12. /\ msgs' \in Seq(SUBSET SentEntry) /\ DOMAIN msgs' = 1..(Len(msgs) + Len(c))
       /\ \A k \in 1..Len(msgs) : msgs'[k] = msgs[k]
       /\ \A k \in 1..Len(c) : msgs'[Len(msgs) + k] = c[k]
  <2> DEFINE m == msgs \o c
  <2>1. /\ m \in Seq(SUBSET SentEntry) /\ Len(m) = Len(msgs) + Len(c)
        /\ \A k \in 1..(Len(msgs) + Len(c)) :
              m[k] = IF k <= Len(msgs) THEN msgs[k] ELSE c[k - Len(msgs)]
    <3> DEFINE T == SUBSET SentEntry
    <3>1. msgs \in Seq(T) /\ c \in Seq(T)
      BY <1>10, <1>11
    <3> HIDE DEF T
    <3>2. /\ m \in Seq(T) /\ Len(m) = Len(msgs) + Len(c)
          /\ \A k \in 1..(Len(msgs) + Len(c)) :
                m[k] = IF k <= Len(msgs) THEN msgs[k] ELSE c[k - Len(msgs)]
      BY <3>1, ConcatProperties, Zenon
    <3> QED
      BY <3>2 DEF T
  <2>2. m = msgs' /\ Len(c) \in Nat
    BY <1>1, <1>7, <1>10
  <2> HIDE DEF m
  <2>3. DOMAIN m = 1..(Len(msgs) + Len(c))
    BY <2>1
  <2>4. ASSUME NEW k \in 1..Len(msgs) PROVE m[k] = msgs[k]
    <3>1. k \in 1..(Len(msgs) + Len(c)) /\ k <= Len(msgs)
      BY <1>11, <2>2
    <3> QED
      BY <2>1, <3>1
  <2>5. ASSUME NEW k \in 1..Len(c) PROVE m[Len(msgs) + k] = c[k]
    <3> DEFINE j == Len(msgs) + k
    <3>1. j \in 1..(Len(msgs) + Len(c)) /\ ~(j <= Len(msgs)) /\ j - Len(msgs) = k
      BY <1>11, <2>2
    <3> HIDE DEF j
    <3>2. m[j] = c[k]
      BY <2>1, <3>1
    <3> QED
      BY <3>2 DEF j
  <2> QED
    BY <2>1, <2>2, <2>3, <2>4, <2>5
<1>13. ASSUME NEW k \in DOMAIN msgs'
       PROVE  k \in DOMAIN msgs \/ \E j \in DOMAIN all : k = Len(msgs) + j
  <2>1. k \in Nat /\ 1 <= k /\ k <= Len(msgs) + Len(c)
    BY <1>7, <1>10, <1>11, <1>12
  <2>2. CASE k <= Len(msgs)
    BY <1>11, <2>1, <2>2
  <2>3. CASE ~(k <= Len(msgs))
    <3>1. k - Len(msgs) \in 1..Len(c) /\ k = Len(msgs) + (k - Len(msgs))
      BY <1>7, <1>10, <1>11, <2>1, <2>3
    <3> QED
      BY <1>7, <1>10, <3>1
  <2> QED
    BY <2>2, <2>3
<1>14. /\ \A k \in DOMAIN msgs : k \in DOMAIN msgs' /\ msgs'[k] = msgs[k]
       /\ \A j \in DOMAIN all : /\ Len(msgs) + j \in DOMAIN msgs'
                               /\ msgs'[Len(msgs) + j] = {ScopedSlice(e, all, j)}
  <2>1. \A k \in DOMAIN msgs : k \in DOMAIN msgs' /\ msgs'[k] = msgs[k]
    BY <1>7, <1>10, <1>11, <1>12
  <2>2. \A j \in 1..Len(c) : Len(msgs) + j \in 1..(Len(msgs) + Len(c))
    BY <1>7, <1>10, <1>11
  <2>3. \A j \in DOMAIN all : j \in 1..Len(c)
    BY <1>7, <1>10
  <2> QED
    BY <1>10, <1>12, <2>1, <2>2, <2>3
<1>15. AllSent' = AllSent \cup F
  <2> DEFINE made == UNION {msgs[k] : k \in DOMAIN msgs}
  <2>1. made' = made \cup F
    <3>1. ASSUME NEW f \in made' PROVE f \in made \cup F
      <4>1. PICK k \in DOMAIN msgs' : f \in msgs'[k]
        OBVIOUS
      <4> QED
        BY <1>13, <1>14, <4>1
    <3>2. ASSUME NEW f \in made PROVE f \in made'
      <4>1. PICK k \in DOMAIN msgs : f \in msgs[k]
        OBVIOUS
      <4> QED
        BY <1>14, <4>1
    <3>3. ASSUME NEW f \in F PROVE f \in made'
      <4>1. PICK j \in DOMAIN all : f = ScopedSlice(e, all, j)
        OBVIOUS
      <4> QED
        BY <1>14, <4>1
    <3> HIDE DEF made, F
    <3> QED
      BY <3>1, <3>2, <3>3
  <2>2. AllSent = made \cup frame /\ AllSent' = made' \cup frame'
    BY DEF AllSent
  <2> HIDE DEF made, F
  <2> QED
    BY <1>1, <1>3, <2>1, <2>2
<1>16. Answers(e, F) /\ ShortOf(e, F) = LostNow
  BY <1>4, <1>5, SlicesAnswer
<1>17. IsFiniteSet(ShortOf(e, F)) /\ Cardinality(LostNow) \in Nat
  BY <1>4, <1>5, <1>16, LostFinite
<1>18. Settled(AllSent, Done)
  BY <1>2 DEF SentInv
<1> HIDE DEF F, LostNow
<1>19. /\ Settled(AllSent \cup F, Done \cup {e})
       /\ Cardinality(UnderIn(AllSent \cup F, Done \cup {e})) =
             Cardinality(UnderIn(AllSent, Done)) + Cardinality(LostNow)
  BY <1>4, <1>16, <1>17, <1>18, SettleOne
<1>20. SentInv'
  <2>1. Settled(AllSent, Done)'
    BY <1>4, <1>15, <1>19
  <2>2. \A k \in DOMAIN msgs' : Small(msgs'[k])
    BY <1>8, <1>11, <1>13, <1>14
  <2>3. \A k \in DOMAIN msgs' : Small(msgs[k])'
    BY <1>1, <2>2 DEF Small
  <2> QED
    BY <1>1, <1>3, <1>12, <2>1, <2>3 DEF SentInv
<1>21. CountInv'
  <2>1. cut \in Nat /\ cut = Cardinality(UnderIn(AllSent, Done)) + Cardinality(LostNow)
    <3>1. Cardinality(UnderIn(AllSent, Done)) \in Nat
      BY <1>18, FS_CardinalityType DEF Settled
    <3> QED
      BY <1>1, <1>2, <1>17, <3>1 DEF CountInv
  <2>2. cut' = cut
    BY <1>1, <1>5
  <2>3. Cardinality(UnderIn(AllSent, Done)') = cut
    BY <1>4, <1>15, <1>19, <2>1
  <2> QED
    BY <1>1, <2>1, <2>2, <2>3 DEF CountInv
<1>22. PhaseInv'
  BY <1>1 DEF PhaseInv
<1> QED
  BY <1>4, <1>20, <1>21, <1>22 DEF PackInv

\* The last frame is sent.
LEMMA PackEndsInv == PackInv /\ PackEnds => PackInv'
<1> SUFFICES ASSUME PackInv, PackEnds PROVE PackInv'
  OBVIOUS
<1>1. /\ phase = "entries" /\ phase' = "sent" /\ todo = <<>> /\ todo' = todo
      /\ interest' = interest /\ budget' = budget /\ cut' = cut
      /\ msgs' = Flushed /\ frame' = {}
  BY DEF PackEnds
<1>2. TodoInv /\ SentInv /\ CountInv /\ PhaseInv
  BY DEF PackInv
<1>3. PackedSoFar' = PackedSoFar /\ Done' = Done
  BY <1>1 DEF PackedSoFar, Done
<1>4. TodoInv'
  BY <1>1, <1>2, <1>3 DEF TodoInv
<1>5. /\ Flushed \in Seq(SUBSET SentEntry)
      /\ UNION {Flushed[k] : k \in DOMAIN Flushed} = AllSent
      /\ \A k \in DOMAIN Flushed : Small(Flushed[k])
  BY <1>2, FlushedSends
<1>6. AllSent' = AllSent
  BY <1>1, <1>5 DEF AllSent
<1>7. SentInv'
  BY <1>1, <1>2, <1>3, <1>5, <1>6 DEF SentInv, Small
<1>8. CountInv'
  BY <1>1, <1>2, <1>3, <1>6 DEF CountInv
<1>9. PhaseInv'
  BY <1>1 DEF PhaseInv
<1> QED
  BY <1>4, <1>7, <1>8, <1>9 DEF PackInv

LEMMA PackStutters == PackInv /\ UNCHANGED packVars => PackInv'
<1> SUFFICES ASSUME PackInv, UNCHANGED packVars PROVE PackInv'
  OBVIOUS
<1>1. /\ phase' = phase /\ runs' = runs /\ piece' = piece
      /\ first' = first /\ pieces' = pieces /\ touched' = touched
      /\ interest' = interest /\ budget' = budget /\ todo' = todo /\ frame' = frame
      /\ msgs' = msgs /\ cut' = cut
  BY DEF packVars
<1>2. TodoInv /\ SentInv /\ CountInv /\ PhaseInv
  BY DEF PackInv
<1>3. /\ TodoInv' /\ SentInv' /\ AllSent' = AllSent /\ Done' = Done
      /\ UnderIn(AllSent, Done)' = UnderIn(AllSent, Done)
      /\ \A have : Fits(have)' <=> Fits(have)
  BY <1>1, <1>2, SentKept
<1>4. ClosedPieces' = ClosedPieces
  BY <1>1 DEF ClosedPieces
<1>5. LostNow' = LostNow
  BY <1>1, <1>4 DEF LostNow
<1>6. CountInv'
  BY <1>1, <1>2, <1>3, <1>5 DEF CountInv
<1>7. CutInv => CutInv'
  BY <1>1, <1>3, <1>4, <1>5 DEF CutInv, Fits
<1>8. PhaseInv'
  BY <1>1, <1>2, <1>7 DEF PhaseInv
<1> QED
  BY <1>3, <1>6, <1>8 DEF PackInv

\* A step of the packing keeps the invariant, whichever it is.
LEMMA PackStepInv == Workable /\ PackInv /\ [PackNext]_packVars => PackInv'
<1> SUFFICES ASSUME Workable, PackInv, [PackNext]_packVars PROVE PackInv'
  OBVIOUS
<1>1. CASE FrameEntry
  BY <1>1, FrameEntryInv
<1>2. CASE CutEntry
  BY <1>2, CutEntryInv
<1>3. CASE AddRun
  BY <1>3, AddRunInv
<1>4. CASE StartPiece
  BY <1>4, StartPieceInv
<1>5. CASE ShrinkRun
  BY <1>5, ShrinkRunInv
<1>6. CASE RunFits
  BY <1>6, RunFitsInv
<1>7. CASE EmitSlices
  BY <1>7, EmitSlicesInv
<1>8. CASE PackEnds
  BY <1>8, PackEndsInv
<1>9. CASE UNCHANGED packVars
  BY <1>9, PackStutters
<1> QED
  BY <1>1, <1>2, <1>3, <1>4, <1>5, <1>6, <1>7, <1>8, <1>9 DEF PackNext

\* The budget of a packing is what it was given.
LEMMA BudgetStays == [PackNext]_packVars => budget' = budget
BY DEF PackNext, packVars, FrameEntry, CutEntry, AddRun, StartPiece, ShrinkRun, RunFits,
       EmitSlices, PackEnds

\* The packing keeps its invariant whenever the budget takes a pure Want.
PackedWell == Workable => PackInv

LEMMA PackInductive == PackSpec => []PackedWell
<1>1. PackStarts => PackedWell
  BY PackInitInv DEF PackedWell
<1>2. PackedWell /\ [PackNext]_packVars => PackedWell'
  <2> SUFFICES ASSUME PackedWell, [PackNext]_packVars, Workable' PROVE PackInv'
    BY DEF PackedWell
  <2>1. Workable
    BY BudgetStays DEF Workable
  <2> QED
    BY <2>1, PackStepInv DEF PackedWell
<1> QED
  BY <1>1, <1>2, PTL DEF PackSpec

-----------------------------------------------------------------------------
\* The messages fit, and ask for what the Want asks for.

\* Of a packing with a budget that takes a pure Want of any scope, every
\* message fits the budget and every entry in it is one that the decoder
\* accepts, whatever the Want (pack_want and slice_entry: a slice is measured
\* before its scope is known).
THEOREM PackedWantsFit == PackSpec => []WantsFit
<1>1. PackedWell => WantsFit
  <2> SUFFICES ASSUME PackInv PROVE Fitting
    BY DEF PackedWell, WantsFit
  <2> QED
    BY DEF PackInv, SentInv, Small, Fitting
<1> QED
  BY <1>1, PackInductive, PTL

\* When a packing ends, and its budget takes a pure Want of any scope, the
\* messages ask for what the Want asks for: each prefix in an entry's scope is
\* in the scope of exactly one entry sent and no other prefix in any, nothing
\* is claimed that is not held, and the authors counted as truncated are those
\* of whom less is claimed (the fourth element of pack_want's result).
THEOREM PackedWantsAskAll == PackSpec => []WantsAskAll
<1>1. PackedWell => WantsAskAll
  <2> SUFFICES ASSUME PackInv, phase = "sent"
               PROVE  /\ \A e \in Wanted, p \in 0..MaxPrefix :
                            Cardinality(SlicesAt(e, p)) =
                               IF e.lo <= p /\ p <= e.hi THEN 1 ELSE 0
                      /\ \A e \in Wanted, a \in Author : \A f \in SlicesAt(e, Prefix[a]) :
                            HaveOf(f, a) \subseteq HaveOf(e, a)
                      /\ cut = Cardinality(Underclaimed)
    BY DEF PackedWell, WantsAskAll
  <2>1. TodoInv /\ SentInv /\ CountInv /\ todo = <<>> /\ frame = {}
    BY DEF PackInv, PhaseInv
  <2>2. Wanted = Done
    <3>1. PackedSoFar = Len(interest) /\ DOMAIN interest = 1..Len(interest)
      BY <2>1 DEF PackedSoFar, TodoInv
    <3> QED
      BY <3>1 DEF Wanted, Done
  <2>3. \A e, p : SlicesAt(e, p) = SlicesIn(AllSent, e, p)
    BY <2>1 DEF SlicesAt, SlicesIn, AllSent
  <2>4. \A e, p : SlicesIn(Of(AllSent, e), e, p) = SlicesIn(AllSent, e, p)
    BY DEF SlicesIn, Of
  <2>5. \A e \in Done : Answers(e, Of(AllSent, e))
    BY <2>1 DEF SentInv, Settled
  <2>6. \A e \in Wanted, p \in 0..MaxPrefix :
           Cardinality(SlicesAt(e, p)) = IF e.lo <= p /\ p <= e.hi THEN 1 ELSE 0
    BY <2>2, <2>3, <2>4, <2>5 DEF Answers
  <2>7. \A e \in Wanted, a \in Author : \A f \in SlicesAt(e, Prefix[a]) :
           HaveOf(f, a) \subseteq HaveOf(e, a)
    BY <2>2, <2>3, <2>4, <2>5 DEF Answers
  <2>8. Underclaimed = UnderIn(AllSent, Done)
    BY <2>2, <2>3 DEF Underclaimed, UnderIn
  <2>9. cut = Cardinality(Underclaimed)
    <3>1. Cardinality(UnderIn(AllSent, Done)) \in Nat
      BY <2>1, FS_CardinalityType DEF SentInv, Settled
    <3> QED
      BY <2>1, <2>8, <3>1 DEF CountInv
  <2> QED
    BY <2>6, <2>7, <2>9
<1> QED
  BY <1>1, PackInductive, PTL

=============================================================================
