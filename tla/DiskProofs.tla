------------------------------ MODULE DiskProofs ------------------------------
(***************************************************************************)
(* The disk store never reports what its table lost, hides nothing but     *)
(* what a failed rebuild hides, and implements LossyStore.                 *)
(***************************************************************************)
EXTENDS Disk, TLAPS

DiskInv == TypeOK /\ NeverOverReports /\ OnlyFailedRebuildsHide

\* A store shrinks to a store, and grows to a store.
LEMMA StoreOps ==
    /\ \A s, o \in Ops : Ingest(s, o) \in Ops
    /\ \A s \in Ops : \A R : Evict(s, R) \in Ops /\ EvictPayloads(s, R) \in Ops
    /\ \A x \in Cell, hasPayload \in BOOLEAN :
          [cells |-> {x}, pay |-> IF hasPayload THEN {x} ELSE {}] \in Ops
BY DEF Ops, Ingest, Evict, EvictPayloads

\* The invariant holds of a store just opened.
LEMMA DiskInitInv == Init => DiskInv
<1> SUFFICES ASSUME Init PROVE DiskInv
  OBVIOUS
<1>1. rows \in Ops /\ bad \subseteq rows.cells /\ held = rows.cells \ bad /\ payloads = rows.pay \ bad
  BY DEF Init, Readable
<1>2. TypeOK
  BY <1>1 DEF Init, TypeOK, Ops, Idle, Job, Act, Log
<1> QED
  BY <1>1, <1>2 DEF DiskInv, NeverOverReports, OnlyFailedRebuildsHide, Readable

\* Opening a store establishes the invariant, whatever the crash interrupted.
LEMMA ReopenInv == DiskInv /\ Reopen => DiskInv'
<1> SUFFICES ASSUME DiskInv, Reopen PROVE DiskInv'
  OBVIOUS
<1>1. rows \in Ops /\ bad \subseteq rows.cells /\ rows' = rows /\ bad' = bad
  BY DEF DiskInv, TypeOK, Reopen
<1>2. held' = rows.cells \ bad /\ payloads' = rows.pay \ bad
  BY DEF Reopen, Scanned, Readable
<1>3. TypeOK'
  BY <1>1, <1>2 DEF DiskInv, TypeOK, Reopen, Ops, Idle, Job, Act, Log
<1> QED
  BY <1>1, <1>2, <1>3 DEF DiskInv, NeverOverReports, OnlyFailedRebuildsHide, Readable

\* A committed ingest preserves the invariant.
LEMMA IngestsInv ==
    ASSUME DiskInv, NEW x \in Cell, NEW hasPayload \in BOOLEAN, Ingests(x, hasPayload)
    PROVE  DiskInv'
<1> DEFINE op == [cells |-> {x}, pay |-> IF hasPayload THEN {x} ELSE {}]
<1>1. rows \in Ops /\ rows' = Ingest(rows, op) /\ rows' \in Ops
  BY StoreOps DEF DiskInv, TypeOK, Ingests
<1>2. rows'.cells = rows.cells \cup {x}
  BY <1>1 DEF Ingest
<1>3. rows'.pay = IF hasPayload THEN rows.pay \cup {x} ELSE rows.pay
  BY <1>1 DEF Ingest, Ops
<1>4. /\ x \notin bad /\ bad' = bad /\ job' = job /\ degraded' = degraded
      /\ held' = IF x \in rows.cells THEN held ELSE held \cup {x}
      /\ payloads' = IF hasPayload /\ x \notin rows.pay THEN payloads \cup {x} ELSE payloads
      /\ act' = [op |-> "ingest", cells |-> {x}]
  BY DEF Ingests
<1>5. TypeOK'
  BY <1>1, <1>2, <1>4 DEF DiskInv, TypeOK, Act
<1>6. NeverOverReports'
  BY <1>2, <1>3, <1>4 DEF DiskInv, NeverOverReports, Readable
<1>7. OnlyFailedRebuildsHide'
  <2> SUFFICES ASSUME NEW y \in Cell, LogOf(y) \notin degraded'
               PROVE  /\ y \in held' <=> y \in Readable.cells'
                      /\ y \in payloads' <=> y \in Readable.pay'
    BY DEF OnlyFailedRebuildsHide
  <2>1. /\ y \in held <=> y \in rows.cells \ bad
        /\ y \in payloads <=> y \in rows.pay \ bad
    BY <1>4 DEF DiskInv, OnlyFailedRebuildsHide, Readable
  <2>2. Readable.cells' = rows'.cells \ bad' /\ Readable.pay' = rows'.pay \ bad'
    BY DEF Readable
  <2>3. y \in held' <=> y \in rows'.cells \ bad'
    BY <1>2, <1>4, <2>1
  <2>4. y \in payloads' <=> y \in rows'.pay \ bad'
    BY <1>3, <1>4, <2>1
  <2> QED
    BY <2>2, <2>3, <2>4
<1> QED
  BY <1>5, <1>6, <1>7 DEF DiskInv

\* Steps that touch neither the table nor the summary preserve it.
LEMMA IdleInv ==
    ASSUME DiskInv, UNCHANGED <<rows, bad, held, payloads, degraded>>,
           job' \in Job, act' \in Act
    PROVE  DiskInv'
BY DEF DiskInv, TypeOK, NeverOverReports, OnlyFailedRebuildsHide, Readable

\* What a turn of an eviction leaves of the job.
LEMMA TurnType ==
    ASSUME DiskInv, NEW l \in Log, Turn(l)
    PROVE  job' \in Job /\ act' \in Act
<1>1. job \in Job
  BY DEF DiskInv, TypeOK
<1>2. Under(job.ranges, l) \subseteq Cell
  BY <1>1 DEF Job, Under
<1> QED
  BY <1>1, <1>2 DEF Turn, Job, Act, Idle

\* What a committed transaction does to the table.
LEMMA CommitFacts ==
    ASSUME DiskInv, NEW l \in Log, EvictCommits(l)
    PROVE  /\ rows' \in Ops /\ bad' = bad /\ bad' \subseteq rows'.cells
           /\ rows'.cells \subseteq rows.cells /\ rows'.pay \subseteq rows.pay
           /\ \A x \in Cell : LogOf(x) # l => /\ x \in rows'.cells <=> x \in rows.cells
                                              /\ x \in rows'.pay <=> x \in rows.pay
<1> DEFINE R == Under(job.ranges, l)
<1>1. rows \in Ops /\ bad \subseteq rows.cells /\ R \cap bad = {} /\ bad' = bad
  BY DEF DiskInv, TypeOK, EvictCommits
<1>2. \A x \in R : LogOf(x) = l
  BY DEF Under
<1>3. rows' = Evict(rows, R) \/ rows' = EvictPayloads(rows, R)
  BY DEF EvictCommits
<1> HIDE DEF R
<1>4. rows' \in Ops
  BY <1>1, <1>3, StoreOps
<1>5. CASE rows' = Evict(rows, R)
  BY <1>1, <1>2, <1>4, <1>5 DEF Evict
<1>6. CASE rows' = EvictPayloads(rows, R)
  <2>1. rows'.cells = rows.cells /\ rows'.pay = rows.pay \ R
    BY <1>1, <1>6 DEF EvictPayloads, Ops
  <2> QED
    BY <1>1, <1>2, <1>4, <2>1
<1> QED
  BY <1>3, <1>5, <1>6

\* An eviction whose log is rebuilt preserves the invariant.
LEMMA RebuildInv ==
    ASSUME DiskInv, NEW l \in Log, EvictRebuilds(l)
    PROVE  DiskInv'
<1>1. /\ rows' \in Ops /\ bad' = bad /\ bad' \subseteq rows'.cells
      /\ rows'.cells \subseteq rows.cells /\ rows'.pay \subseteq rows.pay
      /\ \A x \in Cell : LogOf(x) # l => /\ x \in rows'.cells <=> x \in rows.cells
                                         /\ x \in rows'.pay <=> x \in rows.pay
  BY CommitFacts DEF EvictRebuilds
<1>2. job' \in Job /\ act' \in Act
  BY TurnType DEF EvictRebuilds, EvictCommits
<1>3. /\ degraded' = degraded
      /\ held' = (held \ Under(held, l)) \cup Under(rows'.cells, l)
      /\ payloads' = (payloads \ Under(payloads, l)) \cup Under(rows'.pay, l)
      /\ Under(bad, l) = {}
  BY DEF EvictRebuilds
<1>4. rows'.cells \subseteq Cell /\ rows'.pay \subseteq rows'.cells
  BY <1>1 DEF Ops
<1>5. \A x \in Cell : /\ x \in held' <=> IF LogOf(x) = l THEN x \in rows'.cells ELSE x \in held
                      /\ x \in payloads' <=> IF LogOf(x) = l THEN x \in rows'.pay ELSE x \in payloads
  BY <1>3 DEF Under
<1>6. held' \subseteq Cell /\ payloads' \subseteq Cell
  BY <1>3, <1>4 DEF DiskInv, TypeOK, Under
<1>7. \A x \in bad : LogOf(x) # l
  BY <1>3 DEF Under
<1>8. TypeOK'
  BY <1>1, <1>2, <1>3, <1>6 DEF DiskInv, TypeOK
<1>9. Readable.cells' = rows'.cells \ bad' /\ Readable.pay' = rows'.pay \ bad'
  BY DEF Readable
<1>10. \A x \in Cell : /\ x \in held => x \in rows.cells \ bad
                       /\ x \in payloads => x \in rows.pay \ bad
  BY DEF DiskInv, NeverOverReports, Readable
<1>11. NeverOverReports'
  BY <1>1, <1>5, <1>6, <1>7, <1>9, <1>10 DEF NeverOverReports
<1>12. \A x \in Cell : LogOf(x) \notin degraded =>
                          /\ x \in held <=> x \in rows.cells \ bad
                          /\ x \in payloads <=> x \in rows.pay \ bad
  BY DEF DiskInv, OnlyFailedRebuildsHide, Readable
<1>13. OnlyFailedRebuildsHide'
  BY <1>1, <1>3, <1>5, <1>7, <1>9, <1>12 DEF OnlyFailedRebuildsHide
<1> QED
  BY <1>8, <1>11, <1>13 DEF DiskInv

\* An eviction whose log is dropped from the summary preserves it.
LEMMA DropInv ==
    ASSUME DiskInv, NEW l \in Log, EvictDropsLog(l)
    PROVE  DiskInv'
<1>1. /\ rows' \in Ops /\ bad' = bad /\ bad' \subseteq rows'.cells
      /\ \A x \in Cell : LogOf(x) # l => /\ x \in rows'.cells <=> x \in rows.cells
                                         /\ x \in rows'.pay <=> x \in rows.pay
  BY CommitFacts DEF EvictDropsLog
<1>2. job' \in Job /\ act' \in Act
  BY TurnType DEF EvictDropsLog, EvictCommits
<1>3. degraded' = degraded \cup {l} /\ held' = held \ Under(held, l)
      /\ payloads' = payloads \ Under(payloads, l)
  BY DEF EvictDropsLog
<1>4. \A x \in Cell : /\ x \in held' <=> LogOf(x) # l /\ x \in held
                      /\ x \in payloads' <=> LogOf(x) # l /\ x \in payloads
  BY <1>3 DEF Under
<1>5. held' \subseteq Cell /\ payloads' \subseteq Cell
  BY <1>3 DEF DiskInv, TypeOK
<1>6. TypeOK'
  BY <1>1, <1>2, <1>3, <1>5 DEF DiskInv, TypeOK
<1>7. Readable.cells' = rows'.cells \ bad' /\ Readable.pay' = rows'.pay \ bad'
  BY DEF Readable
<1>8. \A x \in Cell : /\ x \in held => x \in rows.cells \ bad
                      /\ x \in payloads => x \in rows.pay \ bad
  BY DEF DiskInv, NeverOverReports, Readable
<1>9. NeverOverReports'
  BY <1>1, <1>4, <1>5, <1>7, <1>8 DEF NeverOverReports
<1>10. \A x \in Cell : LogOf(x) \notin degraded =>
                          /\ x \in held <=> x \in rows.cells \ bad
                          /\ x \in payloads <=> x \in rows.pay \ bad
  BY DEF DiskInv, OnlyFailedRebuildsHide, Readable
<1>11. OnlyFailedRebuildsHide'
  BY <1>1, <1>3, <1>4, <1>7, <1>10 DEF OnlyFailedRebuildsHide
<1> QED
  BY <1>6, <1>9, <1>11 DEF DiskInv

\* Every step preserves the invariant.
LEMMA DiskNextInv == DiskInv /\ [Next]_diskVars => DiskInv'
<1> SUFFICES ASSUME DiskInv, [Next]_diskVars PROVE DiskInv'
  OBVIOUS
<1>1. job \in Job /\ act \in Act
  BY DEF DiskInv, TypeOK
<1>2. CASE Reopen
  BY <1>2, ReopenInv
<1>3. ASSUME NEW x \in Cell, NEW hasPayload \in BOOLEAN, Ingests(x, hasPayload) PROVE DiskInv'
  BY <1>3, IngestsInv
<1>4. ASSUME NEW x \in Cell, NEW hasPayload \in BOOLEAN, Sheds(x, hasPayload) PROVE DiskInv'
  BY <1>1, <1>4, IdleInv DEF Sheds, Act
<1>5. ASSUME NEW kind \in {"evict", "evictPayloads"}, NEW R \in SUBSET Cell, StartsEvict(kind, R)
      PROVE  DiskInv'
  <2>1. \A x \in R : LogOf(x) \in Log
    BY DEF LogOf, Log, ChannelOf, AuthorOf, Cell
  <2>2. job' \in Job /\ act' \in Act
    BY <1>5, <2>1 DEF StartsEvict, Job, Act
  <2> QED
    BY <1>5, <2>2, IdleInv DEF StartsEvict
<1>6. ASSUME NEW l \in Log, EvictFails(l) PROVE DiskInv'
  BY <1>6, TurnType, IdleInv DEF EvictFails
<1>7. ASSUME NEW l \in Log, EvictRebuilds(l) PROVE DiskInv'
  BY <1>7, RebuildInv
<1>8. ASSUME NEW l \in Log, EvictDropsLog(l) PROVE DiskInv'
  BY <1>8, DropInv
<1>9. CASE UNCHANGED diskVars
  BY <1>1, <1>9, IdleInv DEF diskVars
<1> QED
  BY <1>2, <1>3, <1>4, <1>5, <1>6, <1>7, <1>8, <1>9 DEF Next

\* disk.rs: the cache never over-reports, and it is exact on every log whose
\* rebuild has not failed since the store was opened.
THEOREM DiskIsHonest == Spec => [](TypeOK /\ NeverOverReports /\ OnlyFailedRebuildsHide)
<1>1. Init => DiskInv
  BY DiskInitInv
<1>2. DiskInv /\ [Next]_diskVars => DiskInv'
  BY DiskNextInv
<1>3. DiskInv => TypeOK /\ NeverOverReports /\ OnlyFailedRebuildsHide
  BY DEF DiskInv
<1> QED
  BY <1>1, <1>2, <1>3, PTL DEF Spec

\* What is readable, and what is shown, of a good store is a store.
LEMMA ViewTypes ==
    ASSUME DiskInv
    PROVE  /\ Readable \in Ops /\ Shown \in Ops
           /\ Readable.cells = rows.cells \ bad /\ Readable.pay = rows.pay \ bad
           /\ Shown.cells = held /\ Shown.pay = payloads \cap held
           /\ held \subseteq rows.cells \ bad /\ payloads \subseteq rows.pay \ bad
<1>1. rows \in Ops /\ held \subseteq Cell
  BY DEF DiskInv, TypeOK
<1>2. /\ Readable.cells = rows.cells \ bad /\ Readable.pay = rows.pay \ bad
      /\ Shown.cells = held /\ Shown.pay = payloads \cap held
  BY DEF Readable, Shown
<1>3. Readable \in Ops /\ Shown \in Ops
  BY <1>1 DEF Ops, Readable, Shown
<1> QED
  BY <1>2, <1>3 DEF DiskInv, NeverOverReports

\* The same after a step.
LEMMA NextViewTypes ==
    ASSUME DiskInv'
    PROVE  /\ Readable' \in Ops /\ Shown' \in Ops
           /\ Readable'.cells = rows'.cells \ bad' /\ Readable'.pay = rows'.pay \ bad'
           /\ Shown'.cells = held' /\ Shown'.pay = payloads' \cap held'
           /\ held' \subseteq rows'.cells \ bad' /\ payloads' \subseteq rows'.pay \ bad'
<1>1. rows' \in Ops /\ held' \subseteq Cell
  BY DEF DiskInv, TypeOK
<1>2. /\ Readable'.cells = rows'.cells \ bad' /\ Readable'.pay = rows'.pay \ bad'
      /\ Shown'.cells = held' /\ Shown'.pay = payloads' \cap held'
  BY DEF Readable, Shown
<1>3. Readable' \in Ops /\ Shown' \in Ops
  BY <1>1 DEF Ops, Readable, Shown
<1> QED
  BY <1>2, <1>3 DEF DiskInv, NeverOverReports

\* The lossy store is about the same ops.
LEMMA PromiseOps ==
    /\ Promise!Cell = Cell
    /\ Promise!Ops = Ops
    /\ \A o, p : Promise!Ingest(o, p) = Ingest(o, p)
    /\ \A x : Promise!ChannelOf(x) = ChannelOf(x) /\ Promise!AuthorOf(x) = AuthorOf(x)
<1>1. Promise!Cell = Cell
  BY DEF Promise!Cell, Cell
<1>2. Promise!Ops = Ops
  BY <1>1 DEF Promise!Ops, Ops
<1> QED
  BY <1>1, <1>2 DEF Promise!Ingest, Ingest, Promise!ChannelOf, ChannelOf, Promise!AuthorOf, AuthorOf

\* A store just opened shows all it kept.
LEMMA PromiseInit == Init => Promise!Init
<1> SUFFICES ASSUME Init PROVE Promise!Init
  OBVIOUS
<1>1. Readable \in Ops
  BY DiskInitInv, ViewTypes
<1>2. held = Readable.cells /\ payloads = Readable.pay
  BY DEF Init
<1>3. payloads \subseteq held
  BY <1>1, <1>2 DEF Ops
<1>4. Shown = Readable
  BY <1>2, <1>3 DEF Shown, Readable
<1> QED
  BY <1>1, <1>4, PromiseOps DEF Promise!Init

\* Opening a store is a restart of the lossy store.
LEMMA PromiseReopen == DiskInv /\ Reopen => Promise!Restarts
<1> SUFFICES ASSUME DiskInv, Reopen PROVE Promise!Restarts
  OBVIOUS
<1>1. Readable' = Readable
  BY DEF Reopen, Readable
<1>2. Readable \in Ops
  BY ViewTypes
<1>3. held' = Readable.cells /\ payloads' = Readable.pay
  BY DEF Reopen, Scanned
<1>4. payloads' \subseteq held'
  BY <1>2, <1>3 DEF Ops
<1>5. Shown' = Readable
  BY <1>3, <1>4 DEF Shown, Readable
<1> QED
  BY <1>1, <1>5 DEF Promise!Restarts

\* A committed ingest takes the op.
LEMMA PromiseIngest ==
    ASSUME DiskInv, DiskInv', NEW x \in Cell, NEW hasPayload \in BOOLEAN, Ingests(x, hasPayload)
    PROVE  Promise!TakesOp(x, hasPayload)
<1> DEFINE op == [cells |-> {x}, pay |-> IF hasPayload THEN {x} ELSE {}]
<1>1. Promise!One(x, hasPayload) = op
  BY DEF Promise!One
<1>2. rows \in Ops /\ rows' = Ingest(rows, op)
  BY DEF DiskInv, TypeOK, Ingests
<1>3. rows'.cells = rows.cells \cup op.cells /\ rows'.pay = rows.pay \cup op.pay
  BY <1>2 DEF Ingest
<1>4. /\ x \notin bad /\ bad' = bad
      /\ held' = IF x \in rows.cells THEN held ELSE held \cup {x}
      /\ payloads' = IF hasPayload /\ x \notin rows.pay THEN payloads \cup {x} ELSE payloads
  BY DEF Ingests
<1>5. op.cells = {x} /\ op.pay = IF hasPayload THEN {x} ELSE {}
  OBVIOUS
<1>6. Readable' = Ingest(Readable, op)
  <2>1. /\ rows'.cells \ bad' = (rows.cells \ bad) \cup op.cells
        /\ rows'.pay \ bad' = (rows.pay \ bad) \cup op.pay
    BY <1>3, <1>4, <1>5
  <2> QED
    BY <2>1 DEF Readable, Ingest
<1>7. /\ Shown' \in Ops /\ Shown'.cells = held' /\ Shown'.pay = payloads' \cap held'
      /\ Readable'.cells = rows'.cells \ bad' /\ Readable'.pay = rows'.pay \ bad'
      /\ held' \subseteq rows'.cells \ bad' /\ payloads' \subseteq rows'.pay \ bad'
  BY NextViewTypes
<1>8. /\ Shown.cells = held /\ Shown.pay = payloads \cap held
      /\ held \subseteq rows.cells \ bad /\ payloads \subseteq rows.pay \ bad
  BY ViewTypes
<1>9. Promise!Within(Shown', Readable')
  BY <1>7 DEF Promise!Within
<1>10. Promise!Within(Shown, Shown')
  BY <1>4, <1>7, <1>8 DEF Promise!Within
<1>11. Promise!Within(Shown', Ingest(Shown, op))
  <2>1. /\ Ingest(Shown, op).cells = held \cup {x}
        /\ Ingest(Shown, op).pay = (payloads \cap held) \cup op.pay
    BY <1>5, <1>8 DEF Ingest
  <2>2. held' \subseteq held \cup {x}
    BY <1>4
  <2>3. x \in payloads => x \in rows.cells
    BY <1>2, <1>8 DEF Ops
  <2>4. payloads' \cap held' \subseteq (payloads \cap held) \cup op.pay
    BY <1>4, <1>5, <2>3
  <2> QED
    BY <1>7, <2>1, <2>2, <2>4 DEF Promise!Within
<1> QED
  BY <1>1, <1>6, <1>7, <1>9, <1>10, <1>11, PromiseOps DEF Promise!TakesOp

\* An eviction that commits, whatever becomes of the rebuild, shrinks a log.
LEMMA PromiseEvict ==
    ASSUME DiskInv, DiskInv', NEW l \in Log, EvictCommits(l),
           \A x \in Cell : LogOf(x) # l => /\ x \in held' <=> x \in held
                                           /\ x \in payloads' <=> x \in payloads
    PROVE  Promise!ShrinksLog(l[1], l[2])
<1>1. /\ bad' = bad /\ rows'.cells \subseteq rows.cells /\ rows'.pay \subseteq rows.pay
      /\ \A x \in Cell : LogOf(x) # l => /\ x \in rows'.cells <=> x \in rows.cells
                                         /\ x \in rows'.pay <=> x \in rows.pay
  BY CommitFacts
<1>2. /\ Readable' \in Ops /\ Shown' \in Ops
      /\ Readable'.cells = rows'.cells \ bad' /\ Readable'.pay = rows'.pay \ bad'
      /\ Shown'.cells = held' /\ Shown'.pay = payloads' \cap held'
      /\ held' \subseteq rows'.cells \ bad' /\ payloads' \subseteq rows'.pay \ bad'
  BY NextViewTypes
<1>3. /\ Readable.cells = rows.cells \ bad /\ Readable.pay = rows.pay \ bad
      /\ Shown.cells = held /\ Shown.pay = payloads \cap held
  BY ViewTypes
<1>4. Promise!Within(Readable', Readable) /\ Promise!Within(Shown', Readable')
  BY <1>1, <1>2, <1>3 DEF Promise!Within
<1>5. ASSUME NEW x \in Cell, ChannelOf(x) # l[1] \/ AuthorOf(x) # l[2]
      PROVE  /\ x \in Readable'.cells <=> x \in Readable.cells
             /\ x \in Readable'.pay <=> x \in Readable.pay
             /\ x \in Shown'.cells <=> x \in Shown.cells
             /\ x \in Shown'.pay <=> x \in Shown.pay
  <2>1. LogOf(x) # l
    BY <1>5 DEF LogOf
  <2> QED
    BY <1>1, <1>2, <1>3, <2>1
<1> QED
  BY <1>2, <1>4, <1>5, PromiseOps DEF Promise!ShrinksLog

\* Every step of the disk store is a step of the lossy store, or a stutter.
LEMMA PromiseNext == DiskInv /\ DiskInv' /\ [Next]_diskVars => [Promise!Next]_(Promise!lossyVars)
<1> SUFFICES ASSUME DiskInv, DiskInv', [Next]_diskVars
             PROVE  Promise!Next \/ UNCHANGED Promise!lossyVars
  OBVIOUS
<1>1. ASSUME UNCHANGED <<rows, bad, held, payloads>> PROVE UNCHANGED Promise!lossyVars
  BY <1>1 DEF Promise!lossyVars, Readable, Shown
<1>2. CASE Reopen
  BY <1>2, PromiseReopen DEF Promise!Next
<1>3. ASSUME NEW x \in Cell, NEW hasPayload \in BOOLEAN, Ingests(x, hasPayload) PROVE Promise!Next
  BY <1>3, PromiseIngest, PromiseOps DEF Promise!Next
<1>4. ASSUME NEW x \in Cell, NEW hasPayload \in BOOLEAN, Sheds(x, hasPayload)
      PROVE  UNCHANGED Promise!lossyVars
  BY <1>1, <1>4 DEF Sheds
<1>5. ASSUME NEW kind, NEW R, StartsEvict(kind, R) PROVE UNCHANGED Promise!lossyVars
  BY <1>1, <1>5 DEF StartsEvict
<1>6. ASSUME NEW l \in Log, EvictFails(l) PROVE UNCHANGED Promise!lossyVars
  BY <1>1, <1>6 DEF EvictFails
<1>7. ASSUME NEW l \in Log, EvictRebuilds(l) \/ EvictDropsLog(l) PROVE Promise!Next
  <2>1. \A x \in Cell : LogOf(x) # l => /\ x \in held' <=> x \in held
                                        /\ x \in payloads' <=> x \in payloads
    BY <1>7 DEF EvictRebuilds, EvictDropsLog, Under
  <2>2. EvictCommits(l)
    BY <1>7 DEF EvictRebuilds, EvictDropsLog
  <2>3. l[1] \in Channel /\ l[2] \in Author
    BY DEF Log
  <2> QED
    BY <2>1, <2>2, <2>3, PromiseEvict DEF Promise!Next
<1>8. CASE UNCHANGED diskVars
  BY <1>1, <1>8 DEF diskVars
<1> QED
  BY <1>2, <1>3, <1>4, <1>5, <1>6, <1>7, <1>8 DEF Next

\* disk.rs: an error is indistinguishable from a shed or an eviction.
THEOREM DiskIsLossyStore == Spec => KeepsPromise
<1>1. Init => DiskInv /\ Promise!Init
  BY DiskInitInv, PromiseInit
<1>2. DiskInv /\ [Next]_diskVars => DiskInv'
  BY DiskNextInv
<1>3. DiskInv /\ DiskInv' /\ [Next]_diskVars => [Promise!Next]_(Promise!lossyVars)
  BY PromiseNext
<1> QED
  BY <1>1, <1>2, <1>3, PTL DEF Spec, KeepsPromise, Promise!Spec

=============================================================================
