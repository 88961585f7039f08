-------------------------------- MODULE Sim ---------------------------------
(***************************************************************************)
(* The simulator (dash-router-sim/src/behavior.rs and sim.rs, with the     *)
(* coverage that metered.rs and metrics.rs keep): a driver with one clock  *)
(* and one queue of events over the network of Net.  A tick takes the      *)
(* first event and proposes network actions for it; the network carries    *)
(* them out one after the other, and what they put in flight is given its  *)
(* fate.  What the driver draws at random is a choice here; its samples,   *)
(* which only observe, are left out.                                       *)
(***************************************************************************)
EXTENDS Net

CONSTANTS
    Duration,       \* appends stop then; nothing lasts longer than twice that
    Latencies,      \* LatencySpec, in units of time
    Gaps,           \* between appends
    SyncGaps,       \* between native syncs; only {0} for none
    WantIntervals,  \* the policies
    HaveIntervals,
    Backoff,        \* BACKOFF
    MaxDeferrals,   \* MAX_DEFERRALS
    Quanta,         \* coarse time to choose from; 1 is fine time
    Maintain,       \* maintain_interval, or 0 for none
    EvictFrom,      \* evict_at * relay_cap
    GcInterval,     \* app_gc, or 0 for none
    KeepLast

ASSUME SimAssumption ==
    /\ Latencies \cup Gaps \cup WantIntervals \cup HaveIntervals \cup Quanta \subseteq Nat \ {0}
    /\ Latencies # {} /\ Gaps # {} /\ WantIntervals # {} /\ HaveIntervals # {} /\ Quanta # {}
    /\ Backoff \in Nat \ {0} /\ EvictFrom \in Nat \ {0}
    /\ {Duration, MaxDeferrals, Maintain, GcInterval, KeepLast} \subseteq Nat
    /\ SyncGaps # {} /\ (SyncGaps = {0} \/ SyncGaps \subseteq Nat \ {0})
    /\ NodeId \subseteq Nat /\ IsFiniteSet(NodeId)
    /\ \A x \in Authorable : Home[x] \in NodeId

VARIABLES
    now,        \* SimBehavior::now
    clock,      \* per node, how far it has ticked
    queue,      \* pending events, [at, seq, ev]
    quantum,    \* SimParams::quantum
    covered,    \* per authored op, the nodes that count as having it (Metrics::ops)
    phase,      \* new, running or over
    refused     \* whether the network refused a proposal: the run has failed

simVars == <<netVars, now, clock, queue, quantum, covered, phase, refused>>

-----------------------------------------------------------------------------
\* Events.

FireWantEv(n) == [kind |-> "fire_want", node |-> n]
FireHaveEv(n) == [kind |-> "fire_have", node |-> n]
MaintainEv(n) == [kind |-> "maintain", node |-> n]
DropEv(f) == [kind |-> "drop", flight |-> f]
DeliverEv(f, deferrals) == [kind |-> "deliver", flight |-> f, deferrals |-> deferrals]
Plain(kind) == [kind |-> kind]

IsFate(ev) == ev.kind \in {"deliver", "drop"}

IsTraffic(ev) == IsFate(ev) \/ ev.kind = "append"

\* at rounded up to a quantum boundary.
Quantize(at) == ((at + quantum - 1) \div quantum) * quantum

\* Entry, in the order in which events happen.  The code counts them as they
\* are scheduled; here seq is a slot in the tick that schedules them, and in
\* the slot the node concerned.
EventAt(at, slot, n, ev) == [at |-> at, seq |-> <<slot, n>>, ev |-> ev]

Before(e, o) ==
    \/ e.at < o.at
    \/ e.at = o.at /\ e.seq[1] < o.seq[1]
    \/ e.at = o.at /\ e.seq[1] = o.seq[1] /\ e.seq[2] < o.seq[2]

\* Only the order of simultaneous events matters: they are numbered afresh
\* after every tick.
Numbered(events) ==
    {EventAt(e.at, Cardinality({o \in events : o.at = e.at /\ Before(o, e)}), 0, e.ev) :
        e \in events}

\* BinaryHeap::peek.
IsFirst(e) == \A o \in queue : o = e \/ Before(e, o)

-----------------------------------------------------------------------------
\* A tick in the making: the network and the driver's books after each of
\* the actions it proposes.

\* The state as the tick of e finds it, with e taken.
Taken(e) ==
    [nodes |-> nodes, inflight |-> inflight, queue |-> queue \ {e}, clock |-> clock,
     covered |-> covered, refused |-> FALSE, sent |-> {}, at |-> Quantize(e.at)]

\* schedule, after whatever is pending.
Schedule(w, delay, ev) ==
    [w EXCEPT !.queue = @ \cup {EventAt(w.at + delay, Cardinality(queue), 0, ev)}]

\* Metrics::delivered.
Cover(books, n, cells) ==
    [x \in DOMAIN books |->
        IF x \in cells /\ ChannelOf(x) \in Subs[n] THEN books[x] \cup {n} ELSE books[x]]

\* One action of node n, refused unless it is enabled and its flights fit.
Propose(w, n, enabled, res) ==
    LET flights == Flights(n, res.fx.send)
    IN  [nodes |-> [w.nodes EXCEPT ![n] = res.st], inflight |-> w.inflight (+) flights,
         queue |-> w.queue, clock |-> w.clock,
         covered |-> Cover(w.covered, n, res.fx.deliver),
         refused |-> w.refused \/ ~enabled \/ FlightCount(w.inflight (+) flights) > K,
         sent |-> w.sent \cup BagToSet(flights), at |-> w.at]

\* The message leaves the network.
Without(w, f) == [w EXCEPT !.inflight = @ (-) SetToBag({f})]

HasRoom(w, n) == K - FlightCount(w.inflight) >= Cardinality(Neighbor[n])

Until(timer, d) == IF timer # NoTimer /\ timer < d THEN timer ELSE d

\* How far node n may tick: to the driver's time, or to a timer that is due first.
Lag(w, n) ==
    LET router == w.nodes[n].router
    IN  Until(router.wantTimer, Until(router.haveTimer, w.at - w.clock[n]))

\* advance.
Advance(w, n) ==
    LET d == Lag(w, n)
    IN  IF d = 0 THEN w
        ELSE [Propose(w, n, TickEnabled(w.nodes[n].router, d), NodeTick(w.nodes[n], d))
                 EXCEPT !.clock[n] = @ + d]

\* When a timer armed now is due by the driver's time.
DueIn(w, n, interval) ==
    IF w.clock[n] + interval > w.at THEN w.clock[n] + interval - w.at ELSE 0

ArmsWant(w, n, i) ==
    Schedule(Propose(w, n, ArmWantEnabled(w.nodes[n].router), NodeArmWant(w.nodes[n], i)),
             DueIn(w, n, i), FireWantEv(n))

ArmsHave(w, n, i) ==
    Schedule(Propose(w, n, ArmHaveEnabled(w.nodes[n].router), NodeArmHave(w.nodes[n], i)),
             DueIn(w, n, i), FireHaveEv(n))

\* Mistake: a message that is lost is forgotten, and stays in flight.
FatesOfArrivals(w, lost, latency) ==
    {EventAt(w.at + latency[f.to], Cardinality(queue) + 1, f.to, DeliverEv(f, 0)) :
        f \in w.sent \ lost}

\* handle_fx: every flight is given its fate; the flights of a broadcast are
\* taken in the order of their receivers.
Fates(w, lost, latency) ==
    {EventAt(w.at + latency[f.to], Cardinality(queue) + 1, f.to,
           IF f \in lost THEN DropEv(f) ELSE DeliverEv(f, 0)) : f \in w.sent}

\* The tick comes to res.  (Only properties of the bare network read said.)
Becomes(res) == \E w \in {res} :
    /\ nodes' = w.nodes /\ inflight' = w.inflight
    /\ now' = w.at /\ clock' = w.clock
    /\ covered' = w.covered /\ refused' = w.refused
    /\ \E lost \in SUBSET w.sent, latency \in [{f.to : f \in w.sent} -> Latencies] :
          /\ spent.used.drops + Cardinality(lost) <= spent.limit.drops
          /\ spent' = [spent EXCEPT !.used.drops = @ + Cardinality(lost)]
          /\ queue' = Numbered(w.queue \cup Fates(w, lost, latency))
    /\ UNCHANGED <<said, quantum, phase>>

-----------------------------------------------------------------------------
\* Ticks.

SimInit ==
    /\ Init
    /\ now = 0 /\ clock = [n \in NodeId |-> 0]
    /\ queue = {} /\ covered = [x \in {} |-> {}]
    /\ quantum \in Quanta
    /\ phase = "new" /\ refused = FALSE

\* The first tick arms every node's Want timer and schedules the first of
\* everything that recurs.
Begins == \E start \in [NodeId -> WantIntervals], gap \in Gaps, syncGap \in SyncGaps :
    /\ phase = "new"
    /\ LET first(delay, slot, n, ev) == IF delay = 0 THEN {} ELSE {EventAt(delay, slot, n, ev)}
       IN  queue' = Numbered(
               (UNION {first(start[n], 1, n, FireWantEv(n)) : n \in NodeId})
               \cup first(gap, 2, 0, Plain("append"))
               \cup first(IF quantum = 1 THEN 0 ELSE quantum, 3, 0, Plain("quantum"))
               \cup (UNION {first(Maintain, 4, n, MaintainEv(n)) : n \in NodeId})
               \cup first(syncGap, 5, 0, Plain("native_sync"))
               \cup first(GcInterval, 6, 0, Plain("app_gc")))
    /\ nodes' = [n \in NodeId |-> NodeArmWant(nodes[n], start[n]).st]
    /\ refused' = \E n \in NodeId : ~ArmWantEnabled(nodes[n].router)
    /\ phase' = "running"
    /\ UNCHANGED <<inflight, spent, said, now, clock, covered, quantum>>

\* The nodes that should get an op.
Expected(x) == {n \in NodeId : ChannelOf(x) \in Subs[n]}

AllCovered == \A x \in DOMAIN covered : covered[x] = Expected(x)

\* Simulation::step: the run is over when the drain window has passed with
\* nothing left to do, and at twice the duration in any case.
IsOverBy(at) ==
    \/ at > 2 * Duration
    \/ /\ at > Duration
       /\ \A e \in queue : ~IsTraffic(e.ev)
       /\ inflight = EmptyBag
       /\ AllCovered

Ends ==
    /\ phase = "running"
    /\ queue = {} \/ \E e \in queue : IsFirst(e) /\ IsOverBy(e.at)
    /\ phase' = "over"
    /\ UNCHANGED <<netVars, now, clock, queue, quantum, covered, refused>>

\* Any other step takes the first event and does what it amounts to.
Pops(e) == phase = "running" /\ ~refused /\ IsFirst(e) /\ ~IsOverBy(e.at)

\* Mistake: the Wants that are about to expire count too.
HelpfulIgnoringExpiry(r, interest, d) == AskOf(interest \cup SeenEntries(r), r.held) # {}

\* Whether the Have timer can be armed after a tick of d: some Want that
\* survives it, or the one that has just come, asks for what the node holds.
Helpful(r, interest, d) ==
    AskOf(interest \cup {v.entry : v \in {u \in r.seen : d < u.ttl}}, r.held) # {}

\* Deliver, with room for the flood it may cause.
Delivers(t, ev) == \E i \in HaveIntervals :
    /\ ev.kind = "deliver" /\ HasRoom(t, ev.flight.to)
    /\ \E f \in {ev.flight}, w \in {Advance(t, ev.flight.to)} :
       \E res \in IF f.message.kind = "want"
                  THEN {NodeRecvWant(w.nodes[f.to], f.to, f.message)}
                  ELSE {NodeRecvHave(w.nodes[f.to], f.to, f.message, kept) :
                           kept \in KeptSets(w.nodes[f.to], f.message.ops)} :
       \E after \in {Propose(Without(w, f), f.to, BagIn(f, inflight), res)} :
          Becomes(IF /\ f.message.kind = "want" /\ nodes[f.to].router.haveTimer = NoTimer
                     /\ Helpful(nodes[f.to].router, f.message.interest, Lag(t, f.to))
                  THEN ArmsHave(after, f.to, i) ELSE after)

\* Mistake: a message that cannot be delivered is tried again at once.
DefersForever(t, ev) ==
    /\ ev.kind = "deliver" /\ ~HasRoom(t, ev.flight.to)
    /\ Becomes(IF ev.deferrals >= MaxDeferrals
               THEN Schedule(t, 0, ev)
               ELSE Schedule(t, Backoff, DeliverEv(ev.flight, ev.deferrals + 1)))

\* Deliver, without: later, or not at all.
Defers(t, ev) ==
    /\ ev.kind = "deliver" /\ ~HasRoom(t, ev.flight.to)
    /\ Becomes(IF ev.deferrals >= MaxDeferrals
               THEN Schedule(t, 0, DropEv(ev.flight))
               ELSE Schedule(t, Backoff, DeliverEv(ev.flight, ev.deferrals + 1)))

Loses(t, ev) ==
    /\ ev.kind = "drop"
    /\ Becomes([Without(t, ev.flight) EXCEPT !.refused = ~BagIn(ev.flight, inflight)])

FiresWant(t, ev) == \E i \in WantIntervals :
    /\ ev.kind = "fire_want"
    /\ \E n \in {ev.node}, w \in {Advance(t, ev.node)} :
          /\ WantDue(w.nodes[n].router) /\ HasRoom(w, n)
          /\ \E fired \in {Propose(w, n, TRUE, NodeFireWant(w.nodes[n], n))} :
                Becomes(ArmsWant(fired, n, i))

FiresHave(t, ev) == \E i \in HaveIntervals :
    /\ ev.kind = "fire_have"
    /\ \E n \in {ev.node}, w \in {Advance(t, ev.node)} :
          /\ HaveDue(w.nodes[n].router) /\ HasRoom(w, n)
          /\ \E fired \in {Propose(w, n, TRUE, NodeFireHave(w.nodes[n], n))} :
                Becomes(IF Helpful(nodes[n].router, {}, Lag(t, n))
                        THEN ArmsHave(fired, n, i) ELSE fired)

\* Mistake: a timer that is not due yet is forgotten.
WaitsOnlyForRoom(w, ev, left) ==
    IF left = 0 THEN Schedule(w, Backoff, ev) ELSE w

\* A fire that cannot be: for want of room, because the node's clock lags, or
\* because the timer is no longer armed.
Waits(w, ev, left) ==
    IF left = NoTimer THEN w
    ELSE Schedule(w, IF left = 0 THEN Backoff ELSE left, ev)

FireWaits(t, ev) ==
    /\ ev.kind = "fire_want" \/ ev.kind = "fire_have"
    /\ \E n \in {ev.node}, w \in {Advance(t, ev.node)} :
          LET router == w.nodes[n].router
              left == IF ev.kind = "fire_want" THEN router.wantTimer ELSE router.haveTimer
          IN  /\ left = 0 => ~HasRoom(w, n)
              /\ Becomes(Waits(w, ev, left))

\* The next op of a writer; the writers stop when everything in Authorable
\* is authored.
NextOps == {x \in Authorable \ DOMAIN covered :
               \A y \in Authorable \ DOMAIN covered : Home[y] = Home[x] => x[3] <= y[3]}

\* Metrics::authored: the writer has it from birth, and is counted if it
\* subscribes.
Noted(w, x, n) ==
    [w EXCEPT !.covered = [y \in DOMAIN w.covered \cup {x} |->
        IF y # x THEN w.covered[y] ELSE IF ChannelOf(x) \in Subs[n] THEN {n} ELSE {}]]

\* The op is appended if there is room for its flood, and shed otherwise.
Writes(t, x) ==
    LET n == Home[x]
        w == Noted(Advance(t, n), x, n)
    IN  IF HasRoom(t, n) THEN Propose(w, n, TRUE, Authored(w.nodes[n], n, x, TRUE)) ELSE t

Appends(t, ev) == \E gap \in Gaps :
    /\ ev.kind = "append"
    /\ IF t.at > Duration \/ NextOps = {} THEN Becomes(t)
       ELSE \E x \in NextOps : Becomes(Schedule(Writes(t, x), gap, ev))

\* What is due every so often goes on until time is up.
Again(w, delay, ev, until) == IF w.at < until THEN Schedule(w, delay, ev) ELSE w

\* Payloads go first, then what nobody asks for.
Sheds(t, n) ==
    LET w == Advance(t, n)
        candidates == EvictionCandidates(nodes[n])
        full == nodes[n].relay.cells \ NetworkAsk(nodes[n].router)
    IN  IF Usage(nodes[n].relay) < EvictFrom THEN t
        ELSE IF candidates # {} THEN Propose(w, n, TRUE, RelayEvictPayloads(w.nodes[n], candidates))
        ELSE IF full # {} THEN Propose(w, n, TRUE, RelayEvict(w.nodes[n], full))
        ELSE t

Maintains(t, ev) ==
    /\ ev.kind = "maintain"
    /\ Becomes(Again(Sheds(t, ev.node), Maintain, ev, 2 * Duration))

\* Mistake: an op that arrives out of band does not count as delivered.
SyncedUncounted(w, n, x) ==
    Propose(w, n, TRUE, NativeSync(w.nodes[n], [cells |-> {x}, pay |-> {x}]))

Synced(w, n, x) ==
    LET counted == [w EXCEPT !.covered = Cover(@, n, {x})]
    IN  Propose(counted, n, TRUE, NativeSync(w.nodes[n], [cells |-> {x}, pay |-> {x}]))

\* A subscriber gets an op that was authored, out of band.
Arrivals(t) ==
    IF DOMAIN covered = {} THEN {t}
    ELSE UNION {IF Expected(x) = {} THEN {t}
                ELSE {Synced(Advance(t, n), n, x) : n \in Expected(x)} : x \in DOMAIN covered}

NativeSyncs(t, ev) == \E gap \in SyncGaps :
    /\ ev.kind = "native_sync"
    /\ IF t.at > Duration THEN Becomes(t)
       ELSE \E w \in Arrivals(t) : Becomes(Schedule(w, gap, ev))

\* Each node has a tick of its own, and leaves the others alone.
EachNode(t, after) ==
    [nodes |-> [n \in NodeId |-> after[n].nodes[n]], inflight |-> t.inflight,
     queue |-> t.queue, clock |-> [n \in NodeId |-> after[n].clock[n]],
     covered |-> t.covered, refused |-> \E n \in NodeId : after[n].refused,
     sent |-> t.sent, at |-> t.at]

\* Per log the newest KeepLast ops stay.
Outdated(node) ==
    {x \in Cell : /\ ChannelOf(x) \in node.subs
                  /\ \E y \in node.ext.cells : y[1] = x[1] /\ y[2] = x[2] /\ y[3] >= x[3] + KeepLast}

Collects(t, n) ==
    LET w == Advance(t, n)
    IN  IF Outdated(nodes[n]) = {} THEN t
        ELSE Propose(w, n, TRUE, AppGc(w.nodes[n], Outdated(nodes[n])))

AppGcs(t, ev) ==
    /\ ev.kind = "app_gc"
    /\ Becomes(Again(EachNode(t, [n \in NodeId |-> Collects(t, n)]), GcInterval, ev, Duration))

\* Every node's clock catches up.
CatchesUp(t, ev) ==
    /\ ev.kind = "quantum"
    /\ Becomes(Again(EachNode(t, [n \in NodeId |-> Advance(t, n)]), quantum, ev, 2 * Duration))

Ticks(t, ev) ==
    \/ Delivers(t, ev) \/ Defers(t, ev) \/ Loses(t, ev)
    \/ FiresWant(t, ev) \/ FiresHave(t, ev) \/ FireWaits(t, ev)
    \/ Appends(t, ev) \/ Maintains(t, ev) \/ NativeSyncs(t, ev)
    \/ AppGcs(t, ev) \/ CatchesUp(t, ev)

SimNext ==
    \/ Begins \/ Ends
    \/ \E e \in queue : Pops(e) /\ \E t \in {Taken(e)} : Ticks(t, e.ev)

\* Simulation::run steps until the run is over.
SimSpec == SimInit /\ [][SimNext]_simVars /\ WF_simVars(SimNext)

-----------------------------------------------------------------------------
\* Properties.

\* The driver proposes only what is enabled and fits in flight, though it
\* judges every proposal by the state before the tick: whether a Want asks
\* for something is judged before the node's clock moves, which timer is due
\* is judged by its own record of the clocks, and the room is judged before
\* the message that is delivered leaves it.
NeverRefused == ~refused

\* Every message in flight has exactly one fate pending, and no fate lacks
\* its message, through losses, deferrals, forced drops and identical
\* copies.  Otherwise a delivery would fail, or the network would never be
\* empty and the run would not end before its limit.
FatesOf(f) == {e \in queue : IsFate(e.ev) /\ e.ev.flight = f}

CopiesOf(bag, f) == IF BagIn(f, bag) THEN bag[f] ELSE 0

FatesMatchFlights ==
    \A f \in BagToSet(inflight) \cup {e.ev.flight : e \in {o \in queue : IsFate(o.ev)}} :
        CopiesOf(inflight, f) = Cardinality(FatesOf(f))

\* Every armed timer has exactly one event pending, never for a time before
\* the timer is due, and a timer that is not armed has none, although clocks
\* stand still while a fire waits for room.  Two events would fire a timer
\* early, and a timer without one would never fire: the node would fall
\* silent.
HasEvent(n, timer, ev) ==
    LET pending == {e \in queue : e.ev = ev}
    IN  /\ Cardinality(pending) = IF timer = NoTimer THEN 0 ELSE 1
        /\ \A e \in pending : e.at >= clock[n] + timer

TimersHaveEvents == \A n \in NodeId :
    /\ HasEvent(n, nodes[n].router.wantTimer, FireWantEv(n))
    /\ HasEvent(n, nodes[n].router.haveTimer, FireHaveEv(n))

\* What a subscriber's application has counts as covered there, however it
\* came.  A run ends early only when everything is covered, so an op that
\* does not count keeps the run going to its limit and is reported missed.
HeldMeansCovered ==
    \A n \in NodeId : \A x \in nodes[n].ext.cells : ChannelOf(x) \in Subs[n] => n \in covered[x]

\* Every run ends: no event is put off forever, and time moves on.
RunEnds == <>(phase = "over")

=============================================================================
