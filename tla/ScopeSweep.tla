----------------------------- MODULE ScopeSweep -----------------------------
(***************************************************************************)
(* The walk by which Entry::covered_by decides, without enumerating        *)
(* prefixes, whether the seen scopes contain a scope (interest.rs, step 1  *)
(* of covered_by): over the scopes in sorted order it keeps the least      *)
(* prefix still needed, and stops at a gap.  Interest!ScopesCover is what  *)
(* the rest of the development uses in its place.                          *)
(***************************************************************************)
EXTENDS Interest, Integers, Sequences

CONSTANT MaxScopes   \* bound on the number of seen scopes

ASSUME MaxScopesAssumption == MaxScopes \in Nat \ {0}

Satisfied == -1     \* need = None

Scope == {s \in [lo : 0..MaxPrefix, hi : 0..MaxPrefix] : s.lo <= s.hi}

NotAfter(s, t) == s.lo < t.lo \/ (s.lo = t.lo /\ s.hi <= t.hi)

Sorted(q) == \A j, k \in DOMAIN q : j < k => NotAfter(q[j], q[k])

VARIABLES
    target,     \* the scope of the entry asked about
    scopes,     \* the seen scopes, sorted
    next,       \* position of the next scope to look at
    need,       \* least prefix of the target not known to be covered
    done        \* the loop has ended

sweepVars == <<target, scopes, next, need, done>>

SweepTypeOK ==
    /\ target \in Scope
    /\ scopes \in Seq(Scope) /\ Len(scopes) <= MaxScopes /\ Sorted(scopes)
    /\ next \in 1..(Len(scopes) + 1)
    /\ need \in {Satisfied} \cup (0..MaxPrefix)
    /\ done \in BOOLEAN

SweepInit ==
    /\ target \in Scope
    /\ \E n \in 1..MaxScopes : scopes \in [1..n -> Scope]
    /\ Sorted(scopes)
    /\ next = 1
    /\ need = target.lo
    /\ done = FALSE

\* Mistake: the next prefix needed is the last one covered.
AdvanceToHi ==
    /\ ~done
    /\ next <= Len(scopes)
    /\ need # Satisfied
    /\ scopes[next].lo <= need
    /\ need' = IF scopes[next].hi < need THEN need
               ELSE IF scopes[next].hi >= target.hi THEN Satisfied
               ELSE scopes[next].hi
    /\ next' = next + 1
    /\ UNCHANGED <<target, scopes, done>>

\* One turn of the loop.
Advance ==
    /\ ~done
    /\ next <= Len(scopes)
    /\ need # Satisfied
    /\ scopes[next].lo <= need
    /\ need' = IF scopes[next].hi < need THEN need
               ELSE IF scopes[next].hi >= target.hi THEN Satisfied
               ELSE scopes[next].hi + 1
    /\ next' = next + 1
    /\ UNCHANGED <<target, scopes, done>>

\* The scopes are exhausted, nothing is needed, or there is a gap at need.
Stop ==
    /\ ~done
    /\ next <= Len(scopes) => need = Satisfied \/ scopes[next].lo > need
    /\ done' = TRUE
    /\ UNCHANGED <<target, scopes, next, need>>

SweepNext == Advance \/ Stop

SweepSpec == SweepInit /\ [][SweepNext]_sweepVars

-----------------------------------------------------------------------------

SeenScopes == {scopes[j] : j \in DOMAIN scopes}

\* When the walk ends, need is None iff every prefix of the target lies in
\* some seen scope: sorting and the hi + 1 step neither skip a gap nor
\* invent one, and hi + 1 stays within the prefix width (SweepTypeOK).
SweepIsCover == done => (need = Satisfied <=> ScopesCover(target, SeenScopes))

\* The inductive invariant.  While a prefix is needed, every earlier prefix
\* of the target is covered and no scope passed so far reaches the needed
\* one; the walk stops early only at a scope that starts beyond it.
SweepInv ==
    /\ SweepTypeOK
    /\ need = Satisfied => ScopesCover(target, SeenScopes)
    /\ need # Satisfied =>
          /\ target.lo <= need /\ need <= target.hi
          /\ \A j \in DOMAIN scopes : j < next => scopes[j].hi < need
          /\ done /\ next <= Len(scopes) => scopes[next].lo > need
          /\ \A p \in target.lo..(need - 1) :
                \E s \in SeenScopes : s.lo <= p /\ p <= s.hi

=============================================================================
