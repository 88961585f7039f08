----------------------------- MODULE LogRanges ------------------------------
(***************************************************************************)
(* Ranges across several logs, nested by channel then author (dash-router- *)
(* core/src/ranges.rs, LogRanges).  A log that is absent is unknown; one   *)
(* that is present with no numbers is known to exist.  The rest of this    *)
(* development keeps a LogRanges as a flat set of cells (Interest!Cell);   *)
(* here the nested maps are run beside the flat sets they stand for.       *)
(* Ranges are the sets that module Ranges shows their boundaries denote.   *)
(***************************************************************************)
EXTENDS Interest

CONSTANT Logs   \* the logs that occur, <<channel, author>>

ASSUME LogsAssumption == Logs \subseteq Channel \X Author

Register == {"mine", "theirs"}

VARIABLES
    maps,   \* two LogRanges, each as nested maps
    known,  \* ghost: the logs each of them knows
    cells   \* ghost: the cells each of them contains

logsVars == <<maps, known, cells>>

\* A map without its key k.
Without(f, k) == [x \in DOMAIN f \ {k} |-> f[x]]

Update(f, k, v) == [x \in DOMAIN f \cup {k} |-> IF x = k THEN v ELSE f[x]]

Nothing == [x \in {} |-> {}]

\* The map of authors under a channel.
Under(m, c) == IF c \in DOMAIN m THEN m[c] ELSE Nothing

\* iter: the logs of a nested map.
LogsOf(m) == UNION {{<<c, a>> : a \in DOMAIN m[c]} : c \in DOMAIN m}

CellsOf(m) == UNION {{<<log[1], log[2], s>> : s \in m[log[1]][log[2]]} : log \in LogsOf(m)}

\* A nested map built entry by entry: a channel appears with its first log.
Nested(logs, Value(_)) ==
    [c \in {log[1] : log \in logs} |->
        [a \in {log[2] : log \in {l \in logs : l[1] = c}} |-> Value(<<c, a>>)]]

At(m, log) == Under(m, log[1])[log[2]]

\* The numbers of a log; none when it is unknown.
Read(m, log) == IF log \in LogsOf(m) THEN At(m, log) ELSE {}

-----------------------------------------------------------------------------
\* The operations of LogRanges.

Insert(m, log, r) == Update(m, log[1], Update(Under(m, log[1]), log[2], r))

\* Mistake: a channel whose last log goes is kept.
RemoveUnpruned(m, log) ==
    IF log[1] \notin DOMAIN m THEN m
    ELSE Update(m, log[1], Without(m[log[1]], log[2]))

\* remove: a channel whose last log goes is forgotten too.
Remove(m, log) ==
    IF log[1] \notin DOMAIN m THEN m
    ELSE LET rest == Without(m[log[1]], log[2])
         IN  IF DOMAIN rest = {} THEN Without(m, log[1]) ELSE Update(m, log[1], rest)

\* union keeps the keys of both, with or without numbers.
Union(m, o) ==
    [c \in DOMAIN m \cup DOMAIN o |->
        [a \in DOMAIN Under(m, c) \cup DOMAIN Under(o, c) |->
            Read(m, <<c, a>>) \cup Read(o, <<c, a>>)]]

\* intersection and difference keep the logs with a result.
Intersection(m, o) ==
    LET both(log) == Read(m, log) \cap Read(o, log)
    IN  Nested({log \in LogsOf(m) : both(log) # {}}, both)

Difference(m, o) ==
    LET rest(log) == Read(m, log) \ Read(o, log)
    IN  Nested({log \in LogsOf(m) : rest(log) # {}}, rest)

IsEmptyMap(m) == \A log \in LogsOf(m) : At(m, log) = {}

\* The decoder refuses a channel with no logs.
Decodes(m) == \A c \in DOMAIN m : DOMAIN m[c] # {}

-----------------------------------------------------------------------------

LogsInit ==
    /\ maps = [r \in Register |-> Nothing]
    /\ known = [r \in Register |-> {}]
    /\ cells = [r \in Register |-> {}]

\* The flat sets that a register comes to stand for.
Becomes(r, m, logs, xs) ==
    /\ maps' = [maps EXCEPT ![r] = m]
    /\ known' = [known EXCEPT ![r] = logs]
    /\ cells' = [cells EXCEPT ![r] = xs]

OfLog(log, ns) == {<<log[1], log[2], s>> : s \in ns}

InsertLog(r) == \E log \in Logs, ns \in SUBSET SeqNo :
    Becomes(r, Insert(maps[r], log, ns), known[r] \cup {log},
            (cells[r] \ OfLog(log, SeqNo)) \cup OfLog(log, ns))

RemoveLog(r) == \E log \in Logs :
    Becomes(r, Remove(maps[r], log), known[r] \ {log}, cells[r] \ OfLog(log, SeqNo))

\* The logs with at least one of the cells.
LogsWith(xs) == {<<ChannelOf(x), AuthorOf(x)>> : x \in xs}

CombineMaps(r) == LET o == CHOOSE q \in Register : q # r IN
    \/ Becomes(r, Union(maps[r], maps[o]), known[r] \cup known[o], cells[r] \cup cells[o])
    \/ LET xs == cells[r] \cap cells[o]
       IN  Becomes(r, Intersection(maps[r], maps[o]), LogsWith(xs), xs)
    \/ LET xs == cells[r] \ cells[o]
       IN  Becomes(r, Difference(maps[r], maps[o]), LogsWith(xs), xs)

LogsNext == \E r \in Register : InsertLog(r) \/ RemoveLog(r) \/ CombineMaps(r)

LogsSpec == LogsInit /\ [][LogsNext]_logsVars

-----------------------------------------------------------------------------
\* Properties.

\* Nested maps are flat sets: whatever operations made it, a LogRanges knows
\* and contains exactly what the flat sets say (the operations that make wire
\* content drop the logs they empty, the others never lose one), it is empty
\* iff there is no cell, and its own decoder accepts it.
MapsDenoteSets == \A r \in Register :
    /\ LogsOf(maps[r]) = known[r]
    /\ CellsOf(maps[r]) = cells[r]
    /\ IsEmptyMap(maps[r]) <=> cells[r] = {}
    /\ Decodes(maps[r])

=============================================================================
