-------------------------------- MODULE Disk --------------------------------
(***************************************************************************)
(* The relay's disk cache (dash-router/src/disk.rs): a table of rows in a  *)
(* transactional database, and a summary of it in memory that serves every *)
(* report.  Any database call may fail; a transaction commits as a whole   *)
(* or not at all.  An eviction handles its logs one by one, each in a      *)
(* transaction of its own followed by a scan that rebuilds the summary of  *)
(* the log.  The process may die at any time and open the store again.     *)
(***************************************************************************)
EXTENDS Store

VARIABLES
    rows,       \* the table: the ops it has a row of
    bad,        \* cells whose row does not decode
    held,       \* the summary: DiskRelayStore::held and payloads
    payloads,
    job,        \* the evict or evict_payloads in progress
    degraded,   \* ghost: the logs whose rebuild failed since the store was opened
    act         \* ghost: the operation last completed

diskVars == <<rows, bad, held, payloads, job, degraded, act>>

Log == Channel \X Author

LogOf(x) == <<ChannelOf(x), AuthorOf(x)>>

LogBefore(l, m) == l[1] < m[1] \/ (l[1] = m[1] /\ l[2] < m[2])

Under(R, l) == {x \in R : LogOf(x) = l}

Idle == [kind |-> "none", ranges |-> {}, logs |-> {}]

Job == [kind : {"none", "evict", "evictPayloads"}, ranges : SUBSET Cell, logs : SUBSET Log]

Act == [op : {"open", "start", "ingest", "shed", "evictLog"}, cells : SUBSET Cell]

TypeOK ==
    /\ rows \in Ops
    /\ bad \subseteq rows.cells
    /\ held \subseteq Cell /\ payloads \subseteq Cell
    /\ job \in Job
    /\ degraded \subseteq Log
    /\ act \in Act

\* What a fetch without errors can produce.
Readable == [cells |-> rows.cells \ bad, pay |-> rows.pay \ bad]

\* usage and ingest_delta are served from the summary.
SummaryUsage == Cardinality(held) + Cardinality(payloads)

IngestDelta(x, hasPayload) ==
    IF x \notin held THEN IF hasPayload THEN 2 ELSE 1
    ELSE IF hasPayload /\ x \notin payloads THEN 1 ELSE 0

-----------------------------------------------------------------------------

\* open: the summary is a full scan that skips the rows it cannot decode.
Scanned ==
    /\ held' = Readable.cells
    /\ payloads' = Readable.pay

\* A file as an earlier run of the program left it.
Init ==
    /\ rows \in Ops /\ Usage(rows) <= Cap
    /\ bad \in SUBSET rows.cells
    /\ held = Readable.cells
    /\ payloads = Readable.pay
    /\ job = Idle
    /\ degraded = {}
    /\ act = [op |-> "open", cells |-> {}]

\* The process dies, in the midst of an eviction perhaps, and restarts.
Reopen ==
    /\ Scanned
    /\ job' = Idle
    /\ degraded' = {}
    /\ act' = [op |-> "open", cells |-> {}]
    /\ UNCHANGED <<rows, bad>>

\* The node offers an op only if usage + ingest_delta stays within the cap.
Offered(x, hasPayload) ==
    /\ job = Idle
    /\ SummaryUsage + IngestDelta(x, hasPayload) <= Cap

\* Mistake: an upgrade is not noted in the summary.
IngestsUnnoted(x, hasPayload) ==
    /\ Offered(x, hasPayload)
    /\ x \notin bad
    /\ rows' = Ingest(rows, [cells |-> {x}, pay |-> IF hasPayload THEN {x} ELSE {}])
    /\ held' = IF x \in rows.cells THEN held ELSE held \cup {x}
    /\ payloads' = IF hasPayload /\ x \notin rows.cells THEN payloads \cup {x} ELSE payloads
    /\ act' = [op |-> "ingest", cells |-> {x}]
    /\ UNCHANGED <<bad, job, degraded>>

\* ingest, committed: a new row, an upgrade of a header-only row, or a
\* duplicate, judged by the table; the summary follows what was written.
Ingests(x, hasPayload) ==
    /\ Offered(x, hasPayload)
    /\ x \notin bad
    /\ rows' = Ingest(rows, [cells |-> {x}, pay |-> IF hasPayload THEN {x} ELSE {}])
    /\ held' = IF x \in rows.cells THEN held ELSE held \cup {x}
    /\ payloads' = IF hasPayload /\ x \notin rows.pay THEN payloads \cup {x} ELSE payloads
    /\ act' = [op |-> "ingest", cells |-> {x}]
    /\ UNCHANGED <<bad, job, degraded>>

\* ingest, failed: always so over a row that does not decode.
Sheds(x, hasPayload) ==
    /\ Offered(x, hasPayload)
    /\ act' = [op |-> "shed", cells |-> {x}]
    /\ UNCHANGED <<rows, bad, held, payloads, job, degraded>>

\* evict and evict_payloads.
StartsEvict(kind, R) ==
    /\ job = Idle
    /\ job' = [kind |-> kind, ranges |-> R, logs |-> {LogOf(x) : x \in R}]
    /\ act' = [op |-> "start", cells |-> R]
    /\ UNCHANGED <<rows, bad, held, payloads, degraded>>

\* The log whose turn it is, and what remains once it is done.
Turn(l) ==
    /\ l \in job.logs
    /\ \A m \in job.logs \ {l} : LogBefore(l, m)
    /\ job' = IF job.logs = {l} THEN Idle ELSE [job EXCEPT !.logs = @ \ {l}]
    /\ act' = [op |-> "evictLog", cells |-> Under(job.ranges, l)]

\* The transaction fails: always so over a row that does not decode.
EvictFails(l) ==
    /\ Turn(l)
    /\ UNCHANGED <<rows, bad, held, payloads, degraded>>

\* The transaction commits, having decoded every row in range.
EvictCommits(l) ==
    /\ Turn(l)
    /\ Under(job.ranges, l) \cap bad = {}
    /\ rows' = IF job.kind = "evict" THEN Evict(rows, Under(job.ranges, l))
               ELSE EvictPayloads(rows, Under(job.ranges, l))
    /\ UNCHANGED bad

\* rebuild_log: a fresh scan of the log, which fails on a bad row.
EvictRebuilds(l) ==
    /\ EvictCommits(l)
    /\ Under(bad, l) = {}
    /\ held' = (held \ Under(held, l)) \cup Under(rows'.cells, l)
    /\ payloads' = (payloads \ Under(payloads, l)) \cup Under(rows'.pay, l)
    /\ UNCHANGED degraded

\* Mistake: the summary is left as it was before the eviction.
EvictKeepsLog(l) ==
    /\ EvictCommits(l)
    /\ UNCHANGED <<held, payloads>>
    /\ degraded' = degraded \cup {l}

\* Mistake: every log of the channel is dropped.
EvictDropsChannel(l) ==
    /\ EvictCommits(l)
    /\ held' = {x \in held : ChannelOf(x) # l[1]}
    /\ payloads' = {x \in payloads : ChannelOf(x) # l[1]}
    /\ degraded' = degraded \cup (Channel \X Author)

\* The scan fails: drop_log_from_cache.
EvictDropsLog(l) ==
    /\ EvictCommits(l)
    /\ held' = held \ Under(held, l)
    /\ payloads' = payloads \ Under(payloads, l)
    /\ degraded' = degraded \cup {l}

Next ==
    \/ Reopen
    \/ \E x \in Cell, hasPayload \in BOOLEAN : Ingests(x, hasPayload) \/ Sheds(x, hasPayload)
    \/ \E kind \in {"evict", "evictPayloads"}, R \in SUBSET Cell \ {{}} : StartsEvict(kind, R)
    \/ \E l \in Log : EvictFails(l) \/ EvictRebuilds(l) \/ EvictDropsLog(l)

Spec == Init /\ [][Next]_diskVars

-----------------------------------------------------------------------------
\* Properties.

\* disk.rs: "after any degraded operation the cache may under-report ... but
\* must never over-report": what the summary claims, the table can produce,
\* also between two logs of an eviction and after any sequence of failures.
NeverOverReports ==
    /\ held \subseteq Readable.cells
    /\ payloads \subseteq Readable.pay

\* What the store shows: a payload without its op is not reported.
Shown == [cells |-> held, pay |-> payloads \cap held]

\* Errors are indistinguishable from sheds and evictions: the store is a
\* lossy store whose table is what it kept.
Promise == INSTANCE LossyStore WITH kept <- Readable, shown <- Shown

KeepsPromise == Promise!Spec

\* Reports are exact on every log whose rebuild has not failed since the
\* store was opened, also where shed writes, upgrades, duplicates, failed
\* evictions and rows that do not decode were met: only a failed rebuild
\* hides ops.
OnlyFailedRebuildsHide ==
    \A x \in Cell :
        LogOf(x) \notin degraded => /\ x \in held <=> x \in Readable.cells
                                    /\ x \in payloads <=> x \in Readable.pay

\* disk.rs:150: what the cache under-reports, the protocol "repairs ...
\* through the normal want/have cycle or the next reopen's full scan": an op
\* received again and stored without an error is reported again.
RepairedByIngest == [][act'.op = "ingest" => act'.cells \subseteq held']_diskVars

=============================================================================
