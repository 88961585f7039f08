----------------------------- MODULE Algorithms -----------------------------
(***************************************************************************)
(* The sequential algorithms of the router that have loops of their own:   *)
(* the scope walk of covered_by, the boundary sweeps of Ranges, the maps   *)
(* of LogRanges and the packing of Wants and Haves.  A behaviour runs one  *)
(* of them; the others rest in a state in which they have ended.           *)
(***************************************************************************)
EXTENDS ScopeSweep, Combine, LogRanges, PackWant, PackHave

VARIABLE job    \* the algorithm that runs

algorithmVars == <<job, sweepVars, combineVars, logsVars, packVars, haveVars>>

SweepRests ==
    /\ target = [lo |-> 0, hi |-> 0] /\ scopes = <<target>>
    /\ next = 2 /\ need = Satisfied /\ done = TRUE

CombineRests ==
    /\ left = <<>> /\ right = <<>> /\ op = "union" /\ doneL = 0 /\ doneR = 0
    /\ inside = FALSE /\ seqs = <<>> /\ taken = 0 /\ out = <<>>

PackRests ==
    /\ interest = <<>> /\ todo = <<>> /\ budget = 0 /\ frame = {} /\ msgs = <<>> /\ cut = 0
    /\ phase = "sent"
    /\ runs = {} /\ piece = NoListing /\ first = NoPrefix /\ pieces = <<>> /\ touched = {}

HaveRests ==
    /\ ops = <<>> /\ rest = <<>> /\ maxBytes = 0
    /\ batch = <<>> /\ haves = <<>> /\ dropped = 0 /\ packed = TRUE

Init ==
    \/ job = "sweep" /\ SweepInit /\ CombineRests /\ LogsInit /\ PackRests /\ HaveRests
    \/ job = "combine" /\ SweepRests /\ CombineInit /\ LogsInit /\ PackRests /\ HaveRests
    \/ job = "maps" /\ SweepRests /\ CombineRests /\ LogsInit /\ PackRests /\ HaveRests
    \/ /\ job = "want" /\ SweepRests /\ CombineRests /\ LogsInit /\ HaveRests
       /\ PackStarts
    \/ /\ job = "have" /\ SweepRests /\ CombineRests /\ LogsInit /\ PackRests
       /\ HaveStarts

LoopTurns ==
    /\ \/ SweepNext /\ UNCHANGED <<combineVars, logsVars, packVars, haveVars>>
       \/ CombineNext /\ UNCHANGED <<sweepVars, logsVars, packVars, haveVars>>
       \/ PackNext /\ UNCHANGED <<sweepVars, combineVars, logsVars, haveVars>>
       \/ HaveNext /\ UNCHANGED <<sweepVars, combineVars, logsVars, packVars>>
    /\ UNCHANGED job

MapsChange ==
    /\ job = "maps"
    /\ LogsNext
    /\ UNCHANGED <<job, sweepVars, combineVars, packVars, haveVars>>

Next == LoopTurns \/ MapsChange

\* A loop that can take another turn takes it.
Spec == Init /\ [][Next]_algorithmVars /\ WF_algorithmVars(LoopTurns)

-----------------------------------------------------------------------------
\* Properties.

\* The two loops that nothing but their own bodies bounds come to an end, for
\* every input: the sweep over the boundaries of two lists (combine), and the
\* shrinking of a run of authors that does not fit a frame (slice_entry),
\* every turn of which must drop a range or an author, down to the last one,
\* so that the Want is sent whatever the budget.
LoopsEnd == <>(Unswept = {} /\ phase = "sent")

=============================================================================
