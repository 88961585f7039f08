# A TLA+ model of the dash router

The dash router floods operations (ops) among the nodes of a local network.
Nodes say what they hold in *Wants* and send ops in *Haves*; a node keeps ops
of the channels it subscribes to in the application's store (*ext*) and ops of
other channels in a capped cache (*relay*), so that it can pass them on.

This directory models the code under `src/crates`, checks the models with TLC
and proves, with TLAPS, every safety property that the runs check (of the node, its
shell and stores, its task, the network and the simulator) for every value of the
constants.

## 1. Inventory

| part | code | state | operations |
|---|---|---|---|
| Interest | `dash-router-core/src/interest.rs`, `log.rs` | an entry per channel: a scope of author prefixes and what is held within it | `ask_within`, `covered_by`, `from_held`, `uncovered_by` |
| Ranges | `dash-router-core/src/ranges.rs` | sorted boundaries; nested maps of them per log | union, intersection, difference, complement, from numbers; insert, remove |
| Stores | `dash-router-core/src/storage.rs` | ops by log and sequence number | ingest, fetch, evict, evict payloads, usage, cap |
| Router | `dash-router-core/src/router.rs` | held, seen Wants, heard channels, recent Haves, relayed Haves, open channels, two timers | `RouterAction` |
| Node glue | `dash-router-core/src/node.rs` | router, relay, ext, subscriptions | `NodeAction` |
| Network model | `dash-router-net-model` | nodes, messages in flight | deliver, drop, duplicate |
| Shell | `dash-router/src/shell.rs` | a node behind fallible async stores, a debounced push, a clock | `on_wire`, `on_append`, `on_subscribe`, `on_unsubscribe`, `on_hint`, `on_maintain`, `advance_to` |
| Disk store | `dash-router/src/disk.rs` | rows in redb, a cache of what they hold | open, ingest, fetch, evict, evict payloads |
| Packing | `dash-router/src/pack.rs` | the frame or slice being filled | split a Have or a Want under a byte budget |
| Task and handle | `shell.rs` `spawn`, `route_outs`, `handle.rs` | a bounded command queue, a bounded event stream, a reply for each call | append, subscribe, unsubscribe, stats, relay_held, shutdown |
| Transports | `transport.rs`, `panda.rs`, `lan.rs` | sockets and library handles | broadcast, receive |
| Policy | `dash-router-policy` | none | random intervals, debounce deadline |
| Simulator | `dash-router-sim` | one clock, a queue of events, a clock per node, coverage | deliver, drop, fire, append, maintain, native sync, GC, quantum |
| Visualiser | `dash-router-viz` | none of its own | draws simulations |

How they interact: the shell (or the network model, or the simulator) hands one
action at a time to the node glue; the glue runs the router, a pure function
from a state and an action to a state and effects, then applies the effects to
the stores and hydrates Haves from them. Nothing but messages connects nodes:
broadcast to the neighbours, best effort, with no acknowledgement. Reliability
comes from the Wants that every node repeats.

What is hard here: `router.held` is a cache of two stores that change behind
it; messages are lost, duplicated and reordered and every node relays what it
hears, so floods must cover the network and yet end; records expire one by one
on clocks of their own, and suppression (cancelling a Want that others cover,
not answering what was just sent) must not lose a question or an answer; a full
relay stores part of a batch; storage calls fail; the disk store's cache must
survive failed operations; slices of a Want must ask for neither more nor less
than the Want; a caller's answer must be true though the task that gives it may
end at any point; the simulator proposes several actions at once, judged by the
state before the first of them. Section 4 lists what each part must get right, as
properties; `PROJECT.json` ("hazards") lists the hazards at their lines.

## 2. Modules

| module | stands for |
|---|---|
| `Interest`, `Store`, `Router`, `Node` | the pure core, one operator per operation. No variables: as in the code, a machine is a function from state and input to state and effects |
| `NodeEnv` | one node against an arbitrary environment |
| `ScopeSweep` | the loop of `Entry::covered_by` that decides scope coverage, turn by turn |
| `Ranges`, `Combine` | boundary lists, and the loops of `combine` and `from_seqs` that build them |
| `LogRanges` | the nested maps of ranges, run beside the flat sets of cells that stand for them everywhere else |
| `PackWant`, `PackHave` | the loops that split a Want and a list of ops under a byte budget |
| `Algorithms` | the five of these, one of which runs in a behaviour |
| `Net` | the network of `dash-router-net-model` |
| `Swarm` | `Net` with the nodes driven as the shell drives them (time, timers) |
| `LossyStore` | what a store whose calls may fail promises its node |
| `Disk` | the disk relay store: rows, summary, evictions log by log, failures, crash and reopen; it implements `LossyStore` |
| `Shell` | the shell of one node: commands over stores whose calls may fail, shared with the application |
| `Handle` | callers, the command queue, the task of `spawn` and the event stream; what a command does inside the core is `Shell` |
| `Sim` | the simulator over `Net`: its events, its proposals, the fate of each message, the coverage that ends a run |
| `MC*` | instances for TLC |
| `RouterProofs` | lemmas about interests and every router operation, the basis of the next four |
| `NodeProofs` | theorems about `NodeEnv`: its invariant, its action properties |
| `ShellProofs` | theorems about `Shell` |
| `NetProofs` | theorems about `Net` |
| `SimProofs` | theorems about `Sim` |
| `AlgorithmProofs` | theorems about `ScopeSweep`, `Combine`, `LogRanges`, `PackWant` and `PackHave` |
| `DiskProofs`, `HandleProofs` | theorems about `Disk` and `Handle` |

Correspondence and abstractions:

* An op is named by a *cell* `<<channel, author, seq>>`; a `LogRanges` is the
  set of cells it contains. Store contents, and the body of a Have, are a record
  of the cells with a header and of those that also have a payload. The code's
  open ranges (a Want lists the whole complement) are sets over the finite
  `SeqNo`. Empty markers (a log that is present with no range) are abstracted:
  nothing the router decides reads them.
* A router keeps vectors of records with a remaining time. `RouterState` keeps
  for each seen entry, and each relayed cell, the longest remaining time: a new
  record always has the full time to live, so the union over the vector, which
  is all the code reads, is the same.
* `KeptSets` is the loop of `ingest_parked` in closed form: the set that the
  loop keeps is the one solution of its equation, because each op is judged by
  the ops kept before it.
* In `NodeEnv` the ghost `act` names the last transition and `out` its effects.
* In `Net` each node has a clock of its own (a node may tick alone), in units of 1;
  a timer is armed with an interval of 0, because how long it runs matters only in
  `Swarm`, where clocks run together and a message takes less than one unit of time,
  which is the setting in which the shell's intervals make sense. Every `NodeAction`
  is an action of `Net`. Its inputs are narrower in three ways: an op is authored by
  its home node, with its payload, when nobody has it; one that arrives out of band
  (`NodeSyncs`) carries its payload, and may come before the flood or after it; and
  the application deletes (`NodeCollects`) and the relay evicts (`NodeEvicts`) any
  cells or payloads that are there. The ghost `said` records what each node has
  broadcast, `spent` the bounded actions.
* In `Swarm` the debounce of the push has a window of 0: an append is pushed at once,
  no push is ever pending, and `Due` is of the two timers only. So `router.held` is
  what the stores hold, which is how `Forgotten` reads it; with a longer window it
  may for a while list an op that the application has deleted. Module `Shell` has
  the debounce, its deadlines and the push that comes late. A broadcast that finds
  the network full is lost, as for a receiver that lags behind the hub
  (`RecvError::Lagged`). Out-of-band arrivals are not actions of `Swarm`.
* In `Net` nobody holds the ops with sequence number 1, so that every Want asks
  for something, as each does in the code, where a Want asks for all that its have
  does not list and nobody has a log to its last number. `LogsNeverEnd` states
  this; `Connected` and `RelaysSuffice` (a relay can hold whatever is authored) are
  the other two conditions of the network properties. `MCNet` assumes all three, so
  TLC evaluates them on the instance that it checks.
* `Net!Speaks` tells a message that was said from a flight that was duplicated: a
  flight was added and some node changed.
* In `Disk` a row that does not decode is a member of `bad`; a database call
  that fails is a disjunct (`Sheds`, `EvictFails`, `EvictDropsLog`). A
  transaction commits as a whole or not at all, which is what the database
  promises and the code relies on. Ingests are those the node offers: within
  the cap by the store's own report.
* `Shell` extends `Node` as the code's `NodeCore` repeats `NodeMachine`. A command
  is a sequence of steps: it begins (a branch of `select!`), catches up with the
  clock (`FlushesPush`, `FiresWant`, `FiresHave`, `Answers`, `Ticks`), runs its
  body and ends, when its outputs leave the node (`Ends`, `route_outs`). A step
  reaches from one call on ext to the next, because between those the
  application may change ext; the relay belongs to the task, so its calls need no
  steps of their own. A call that fails may have taken effect or not, which is
  what the traits leave open. The application's changes leave hints; a hint may
  be lost in a full channel, which the shell then treats as "anything changed".
  A message dropped by `on_wire` is indistinguishable from a timer command, and
  is not repeated as one. `budget` counts down
  the commands, ticks, changes by the application and errors of a run, from one of
  `Budgets`; `stale`, `deleted` and `wire` record
  the past for the properties. A fired Have is hydrated from both stores in one
  step although relay and ext are read by two calls: nothing changes between
  them but ext, and the change may as well come before.
* `Ranges` counts sequence numbers up to `MaxSeq`, which stands for
  `Seq::MAX`: the end of a range is exclusive, so the last number has none and its
  range stays open. `LogRanges` takes a range as the set that `Combine` shows it to
  denote, and keeps the flat sets in ghosts, so that the invariant compares the two.
* `PackWant` counts bytes in units: one for a frame, a channel, an author and a
  boundary, `Width` for each bound of a scope (`varint_len`; here one or two units
  where the code has one to five bytes). `PackHave` takes the bytes of a header and
  a payload from its items. Bytes are counted one by one, as the elements of a
  set, so that sizes can be reasoned about. The runs that an entry is cut at are
  prefixes, taken in their order. Both keep each loop's turn as one action, and the
  `phase` is the place in the code between two turns.
* In `Handle` each caller makes one call with a handle of its own; a caller that
  goes away drops the future of its call, and its command stays queued. Messages,
  hints, timers and the maintenance tick are one action (`Wakes`), because the task
  treats their outputs alike. A transport may fail at any use of it, and any step
  of the core but an append ends the task when it fails (`?`). An append or a read of
  the relay may be answered with an error (`Refuses`), and the task goes on. A panic is not
  modelled.
* In `Sim` what the driver draws at random (intervals, latencies, losses, writers)
  is a choice from finite sets. A tick is one action: the driver proposes network
  actions judged by the state before the tick (unprimed `nodes`), and `Propose`
  carries them out one after the other, noting in `refused` that one of them was
  not enabled or had no room in flight. The queue is a set of events with
  their times. The order of simultaneous events is the order in which they were
  scheduled: a tick gives what it schedules places behind all that is pending, and
  afterwards the events are numbered afresh (`Numbered`), which keeps that order
  and bounds the numbers, where the code counts on. The fates of a broadcast
  follow the order of its receivers. An author counts as covered only if it
  subscribes, as in `Metrics::authored`. Losses are bounded by a budget, authored
  ops by `Authorable`; samples only observe and are left out. `Sim` does not keep
  `said`, which only a property of the bare network reads.
* Deliberate mistakes, marked `Mistake:`, stand beside the operators they
  replace. `PROJECT.json` ("mutants") pairs each with the property that finds it.

## 3. Runs

| run | bounds | shows |
|---|---|---|
| `node_storage` | two channels, one op each, every body, relay cap 3 | the storage glue |
| `node_routing` | one channel, two authors with distinct prefixes, three kinds of foreign Want, Want records live two units | suppression of Wants |
| `algorithms` | scopes: four prefixes, up to three scopes. Ranges: numbers 0 to 3, all pairs of lists. Maps: two registers, three logs. Wants: every scope and listing of three authors, two of one prefix, then a small entry, eight budgets. Haves: up to three ops of twelve kinds, four budgets | the sequential algorithms are right on all of these inputs, and end |
| `net` | a line of three nodes, the middle one only relays; either two ops, one duplicate, one tick, one subscription change, or one op and three firings, or one op, two firings and a duplicate, or one op, one arrival out of band, two deletions or evictions and a tick | floods cover, Wants reach all, nothing is said twice |
| `converge` | the line, one op, two losses, room for twelve messages, intervals of 1 or 2, Want records live 3 units | losses are repaired |
| `die_out` | a cycle, one op, one subscriber that may leave, two changes, timers for ever, relays that take two units and evict from one on, room for eight messages | dead channels are forgotten, floods of Wants and Haves end |
| `disk_store` | two logs of two ops, cap 5, any rows undecodable at the start | the disk store is honest and lossy at worst |
| `disk_repair` | as `disk_store`, smaller | finding, section 6 |
| `shell` | two channels of one op, a Want and a Have that may arrive, one op to append, again too, the header of the other left in the relay; a quiet window of two units and a latency of three; three commands and two ticks with one change by the application or one failed call, or two commands with both, or a steady four commands and four ticks | the shell |
| `shell_append` | as the second of these, only appends fail | finding, section 6 |
| `handle` | two callers, one place in either queue, outputs of an event, a broadcast and an event, one wake with something to say | calls, replies and events |
| `simulate` | two subscribers and a relay in a line, two ops, three messages in flight, fine time or a quantum of two, one loss, runs of three units and as many to drain | the simulator |

The bounds make the interesting cases occur: a cap of three units lets a batch
of two ops with payloads fit in part; two prefixes make entries of different
scope; a node in the middle of a line that subscribes to nothing must forward
from its relay; three nodes in a cycle are the least network in which a message
can come back by another way, and with one subscriber the other two relay what
they hear to each other. Three commands let an op be parked, its channel be
subscribed to and the op be announced again; two ticks outlast every time to live;
one failed call and one change by the application, each at any step, cover every
pair of interruptions that a command can meet, with one command before or after it.
Several failures in one run are not checked, but proved about (section 5). The push of an append is due when the window has been quiet or when
its latency is over: three appends, each before the window of the one before it is
quiet, put it off until the latency decides, so a steady stream takes three appends,
a fourth command to find it due and four ticks.
Budgets of the `algorithms` run begin below the least frame, where nothing can be
sent, and end above the largest input, where nothing is split. A stream of one
place makes the task wait in the midst of its outputs with a caller queued behind
it and another waiting to enqueue, which is the worst the two queues of 64 places
can come to. Three messages in flight make the middle node of the line defer
deliveries, drop them by force and put off its fires.

## 4. Properties

One node (`NodeEnv`): `HeldIsUnion`, `RelayWithinCap`, `SubscribedNotInRelay`,
`BroadcastBestCopy`, `DeliverExactlyNew`, `NothingLost`, `EveryLackAsked`.
Algorithms: `SweepIsCover`, `RangesExact`, `MapsDenoteSets`, `WantsFit`,
`WantsAskAll`, `HavesWhole`, `LoopsEnd`.
Network: `FloodCovers`, `WantsReachAll`, `NothingSaidTwice`.
Driven network: `Converges`, `WantsDieOut`, `FloodsEnd`. Disk store:
`NeverOverReports`, `OnlyFailedRebuildsHide`, `KeepsPromise`. Shell:
`CacheFollows`, `RelayWithinCap`, `DeliveredInExt`, `PushWithinLatency`,
`OnlyFailedAppendsMute`, `NothingVanishes`. Handle: `RepliesTruthful`,
`EventsInOrder`, `EveryCallReturns`. Simulator: `NeverRefused`,
`FatesMatchFlights`, `TimersHaveEvents`, `HeldMeansCovered`, `RunEnds`. Each is
stated in words in its module.

### Fairness

`SwarmSpec` assumes weak fairness of `Runs`: the nodes' loops
keep running, and a message that is not lost arrives. `Fairness` says so in a form
that TLC evaluates ten times faster: again and again either no step of `Runs` would
change anything (`Idle`), or there is a step that is not bounded (`UNCHANGED spent`),
and these are the steps of `Runs`. Nothing makes the application act. `Converges` needs a Have
interval below `want_ttl`: with an interval equal to it a Want record can expire
each time just before the answer is due, and TLC finds that starvation. The
losses are bounded (two), which stands for a network that does not lose for ever.
`FloodsEnd` says that the network falls silent again and again although the timers
fire for ever and evicted copies are asked for and flooded anew.

`Algorithms` assumes that a loop that can take another turn takes it. `LoopsEnd` is
about the two loops that nothing but their own bodies bounds: the `while` of
`combine` and the one in `slice_entry` that shortens a run. The others, the walk of
`covered_by` among them, are `for` loops over finite lists.

`Handle` assumes that the runtime runs a task that is ready (weak fairness of
`Starts` and of handing on outputs), that a command that waits is taken though
messages and timers are ready too (strong fairness: `select!` polls its ready
branches in random order), and that the queue gives a free place to its senders
in turn (strong fairness of `CallStep`: the queue is a fair semaphore). The last
assumption is about the embedder: it drains its event stream, or drops it, while
its callers wait. Without it `EveryCallReturns` fails: `route_outs` awaits room in
the stream, so an embedder that awaits a reply and only then reads its events
waits for a task that waits for it.

`Sim` assumes that `run` takes another step as long as `step` finds one.

## 5. Proofs

TLAPS proves the following for all values of the constants. A theorem of the form
`Spec => []P` rests on an inductive invariant, given here with what each part is
for; the proof has one lemma or step for each operation.

**One router** (`RouterProofs`).
* `CoveredAskIsAsked`: a covered entry asks for nothing that the entries which
  cover it do not ask for; suppression loses no question.
* `UncoveredAsksMore`: an entry that is not covered asks for something new, or
  reaches a prefix nobody reaches; every relayed Want makes progress.

**One node** (`NodeProofs`).
* `NodeInvariant`: `TypeOK`, `HeldIsUnion`, `SubscribedNotInRelay` and
  `BroadcastBestCopy`. The four are inductive together: the best copy needs
  `HeldIsUnion` (a fired Have is a part of `held`), and migration preserves it only
  if the relay holds nothing subscribed.
* `DeliveredIsNew` (`DeliverExactlyNew`) and `LackIsAsked` (`EveryLackAsked`) are
  action properties from that invariant; `LackIsAsked` rests on `CoveredAskIsAsked`.
* `RelayIsCapped` (`RelayWithinCap`): the relay is finite and within its cap.
  `KeptFits` goes by the greatest parked op that is kept, which exists because a
  body is finite.
* `OnlyReclaimLoses` (`NothingLost`): nothing but eviction and GC takes an op or a
  payload away.

**The shell** (`ShellProofs`).
* `ShellInvariant`: all six invariants of the `shell` run, whatever calls fail and
  whatever the application does to ext between two calls. None of them is inductive:
  a command stops at every call, and in between the caches are behind the stores.
  `ShellInv` says how far behind. `StageInv` says which command can be in which
  stage and which logs it has settled by then; `BatchInv`, that whatever a batch has
  still to store or to take from the relay lies in a log that the command has still
  to reconcile, so that `CacheFollows` survives a failure at any call; `AppendInv`,
  that what is to be pushed is in ext or was deleted there; `PushInv`, that an empty
  push has no age; `DeliverInv`, that each subscribed op of a Have is in ext, still to
  be ingested, or refused by ext; `MoveInv`, that what is about to leave the relay is
  in ext as good as in the relay; `AskInv`, that a finished command's questions were
  asked. `RelayWithinCap` needs the relay to be finite, so the invariant includes
  that.
* `ShellLosesNothing` (`NothingVanishes`): the action property, from `ShellInv`.
  `MoveInv` is what makes an eviction at the end of a migration harmless.

**The network** (`NetProofs`). Each action is a `Move` of one node (it takes flights
that were for it, and adds its broadcast), the loss of a flight or a second copy of
one (`NetStep`), and one lemma per node operation says what a move comes to
(`NetOutcome`).
* `NetworkIsWellFormed`: `[]NetInv`. Nodes have their types, routers hold what the
  stores hold, everything held or sent was authored, entries have whole scopes. The
  last is why an entry of which nothing new can be asked is covered.
* `NothingIsSaidTwice` (`NothingSaidTwice`), under `LogsNeverEnd`: whatever the
  topology and whatever is lost, duplicated or reordered.
* `FloodCoversNetwork` (`FloodCovers`), under `Connected` and `RelaysSuffice`. That
  an op is held somewhere does not send it anywhere: it may have come out of band, or
  every other copy may be gone. The theorem is about what was broadcast, and says of
  it that every node broadcast it in turn, and holds it where nothing was deleted or
  evicted. The inductive part is `FloodInv`, of three facts: what a node has broadcast
  each neighbour has broadcast or has in flight towards it, as long as nothing was
  lost; what a node notes as passed on it did broadcast, which is needed for a node
  that receives what it passed on already and therefore says nothing; and a node
  holds what it broadcast, as long as nothing was deleted or evicted. At rest the
  set of nodes that have broadcast an op is closed under neighbours, which by
  `Connected` is everybody.
* `NoQuestionIsLost` (`WantsReachAll`), under `Connected`: the same argument with
  `AskInv`, about what seen sets ask for; as long as no clock moves these sets only
  grow (`LastingOutcome`).

A theorem of this group whose statement says `ASSUME` is about the networks that
satisfy the hypothesis. Where a relay is too small the flood does not cover (the
code sheds, section 6); where the network falls apart nothing can; and a Want for a
channel all of which is held would ask for nothing, which sequence numbers rule out.

**The simulator** (`SimProofs`), for any network, intervals, latencies, quantum,
bounds and losses. A tick carries a draft from action to action, and `DraftInv` is
what every draft satisfies: nodes are as in `NetInv` and hold only authored ops,
what is held where it is subscribed to is covered (`Upright`), no clock is ahead of
the driver and no pending event behind it (`QueueFits`), each copy in flight has one
fate (`AirFits`) and each armed timer one event, not before it is due (`TimersFit`).
In the course of a tick the last two are false: an event was taken, and what it
stood for is settled only later in the tick. So `DraftInv` has two more arguments,
the message and the timer that are still owed an event. Taking an event makes a debt
(`TakenFits`), delivering, dropping, firing or scheduling again pays it, and
`BecomesInv` shows that the fates given to what was sent pay for the flights added.
There is one lemma for each kind of event.
* `NoProposalIsRefused` (`NeverRefused`). An event is never late, therefore a clock
  ticks only up to the driver's time and never past a timer; a Want that survives
  the tick still asks for what is held, so that the Have timer may be armed; and a
  tick sends one message at most (`SentFits`), for which there was room.
* `EveryFlightHasItsFate` (`FatesMatchFlights`). The copies in flight are counted by
  a cardinality, and the events by another; numbering afresh keeps every event
  (`NumberedFacts`), because no two of them share a place.
* `EveryTimerHasItsEvent` (`TimersHaveEvents`).
* `WhatIsHeldIsCovered` (`HeldMeansCovered`): what enters ext from a message is
  announced, and announcements are counted; authoring and native sync announce
  nothing and are counted by themselves, each for an op that is on the books.

**Disk** (`DiskProofs`).
* `DiskIsHonest`: `TypeOK`, `NeverOverReports` and `OnlyFailedRebuildsHide`,
  inductive together: where a log is not degraded the summary is exact, and where
  it is, it is a subset of what can be fetched.
* `DiskIsLossyStore` (`KeepsPromise`): each step of `Disk` is a step of `LossyStore`
  or a stutter, with `kept` the rows that decode and `shown` the summary without
  payloads of ops it does not list; the mapping uses `NeverOverReports`.

**Task and handle** (`HandleProofs`), for any number of callers and any capacities.
* `HandleTruthful` (`RepliesTruthful`). The invariant adds that a caller is in the
  queue at most once and with a command not yet carried out, and that until its
  reply comes nothing was done for a caller that waits.
* `HandleInOrder` (`EventsInOrder`). What the embedder has taken and then what waits
  in its stream are numbered from one without a gap (`Numbered`), and as long as the
  task runs they are exactly the events issued but those in the outputs it still
  holds. When the task ends in the midst of its outputs, those are lost and the
  rest keeps its order.

**Sequential algorithms** (`AlgorithmProofs`).
* `SweepCorrect`: the loop of `covered_by` decides `ScopesCover`, from `SweepInv`;
  for any number of scopes.
* `CombineCorrect` (`RangesExact`), for every `Seq::MAX` and operands of any length.
  In `CombineInv` the sweep has what is behind it below what is ahead, and is inside
  the result exactly when the list built is open; so at a boundary the parities of the
  three lists decide membership (`HasByParity`). For `from_seqs` it says that only a
  list with `Seq::MAX` is open, and then nothing is left to take.
* `MapsAreSets` (`MapsDenoteSets`), for any number of logs. `Represents` says of a
  map, entry by entry, which sets it stands for, and there is one lemma for each of
  insert, remove, union, and intersection with difference.
* `PackedHavesAreWhole` (`HavesWhole`), for any ops and any budget. `HaveInv` keeps
  an assignment of the ops taken so far to the messages made: it grows by one place
  in each turn, and what each message was assigned fits.
* `PackedWantsFit` (`WantsFit`) and `PackedWantsAskAll` (`WantsAskAll`), for any Want
  and any budget that takes a pure Want. The inductive invariant is
  `Workable => PackInv`. `TodoInv` says that what is still to pack is the rest of
  the Want; `SentInv`, that the messages made answer the entries packed so far
  (`Settled`): exactly one slice at each prefix of an entry, none at any other;
  `PhaseInv`, for the entry that is being cut (`CutInv`), that its slices begin at
  increasing prefixes and list only authors from there up to the next, so that the
  scopes they are given later part the entry's; `CountInv`, that the authors counted
  are those of whom less is claimed than listed. A slice fits although it is
  measured before its scope is known, because it is measured with the widest bounds
  (`SliceFits`).

The assumptions are those named in the modules: identifiers are naturals, prefixes
are within their width, times to live are positive, bodies that arrive are finite
(they are decoded from a frame), and so is the relay that a shell finds when it
starts (it is read from a database). Ext needs no such bound. A simulated network has
finitely many nodes, numbered, and its intervals and latencies are positive
(`SimAssumption`).

Only model-checked: liveness (`Converges`, `WantsDieOut`, `FloodsEnd`, `LoopsEnd`,
`EveryCallReturns`, `RunEnds`), which is out of the prover's reach, and the two
findings of section 6, which are counterexamples.

## 6. Where the code and its documentation differ

* `shell_append`: `on_append` catches up with the clock before it ingests, and a
  failed ingest drops what catching up had to say (`shell.rs:380-384`). A Want
  among it stays in the router's seen set though nobody asked it
  (`router.rs:90`), and cancels the node's own questions for `want_ttl`; a push
  or an answer among it is lost in the same way.
* `disk_repair`: an op hidden by a failed rebuild is not repaired by receiving it
  again (`disk.rs:150`); only a reopen repairs it, and until then the node asks
  for it with every Want.

Smaller ones, seen on the way and not given a run: an op that a full relay sheds
counts as relayed though nothing of it was sent (`router.rs:118`, `:452`), so
such a node forwards nothing that it has no room for; a node's own Want record
asks for what the node receives after emitting it (`router.rs:91`), which may arm
its Have timer; an answer may carry recently
received ops, because only the last Have of each sender is remembered
(`DESIGN.md:171` says the union of recent Haves is subtracted); after a log was
hidden, an upgrade lists a payload of an op that is not listed as held
(`storage.rs:40`), and what the summary misses counts as room under the cap
(`DESIGN.md:188`); under a budget too small for a pure Want, `slice_entry` sends
slices that exceed it, because a run that was shrunk to nothing still makes a
slice, although a channel whose pure Want does not fit "cannot be asked about in
this budget at all" (`pack.rs:226`). `WantsFit` therefore takes budgets that hold a
pure Want; the budgets of real transports are far above that.

## 7. Plan

Done: the core, the network, the driven network, the disk store, the shell, the
sequential algorithms, the task with its handle and the simulator are modelled and
checked; every safety property that a run checks is a theorem.

To do: that a `Swarm` is a `Net` whose nodes are driven, so that `NetProofs` applies
to it; that without failures and changes by the application a command of `Shell` is
steps of `NodeEnv` (refinement).

Not modelled:

* the visualiser, which draws simulations and decides nothing;
* the transports themselves (loopback hub, gossip adapters, LAN filter): sockets
  and library calls. What the node relies on, best-effort broadcast, is `Net`, and
  that a transport may fail or end is `Handle`;
* the encoding of messages (postcard) beyond what it refuses and how long it is;
* the scenario files, the replay and the metrics of the simulator that no decision
  depends on.
