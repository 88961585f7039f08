------------------------------- MODULE Shell --------------------------------
(***************************************************************************)
(* The shell of one node (dash-router/src/shell.rs, NodeCore and its task):*)
(* the glue of Node over asynchronous stores.  A store call may fail, and  *)
(* between two calls on ext the application may change it, sending a hint. *)
(* A command first catches up with the clock (advance_to), then runs its   *)
(* body; what it has to say is collected in out and handed to transport    *)
(* and embedder when it ends.  Only the task uses the relay, so a step     *)
(* extends from one call on ext to the next, relay calls included.         *)
(***************************************************************************)
EXTENDS Node

CONSTANTS
    Id,             \* this node
    Incoming,       \* the messages that may arrive
    Authorable,     \* the cells that may be appended
    Intervals,      \* what IntervalSource may return
    Window,         \* PushDebouncePolicy: window_ms, max_latency_ms
    MaxLatency,
    EvictAt,        \* evict_at * relay_cap
    FoundRelay,     \* what an earlier run may have left in the stores
    FoundExt,
    Fallible,       \* the calls that may fail: any of "append", "ext", "relay"
    Budgets         \* bounds on each kind of thing: a run draws on one of them

\* The kinds of thing that are bounded.
Bounded == {"commands", "ticks", "appChanges", "errors"}

ASSUME ShellAssumption ==
    /\ Id \in NodeId
    /\ Incoming \subseteq {m \in WireMessage : m.sender # Id}
    /\ Authorable \subseteq Cell
    /\ Intervals \subseteq Nat \ {0} /\ Intervals # {}
    /\ Window \in Nat /\ MaxLatency \in Nat
    /\ EvictAt \in Nat \ {0}
    /\ FoundRelay \subseteq {o \in Ops : IsFiniteSet(o.cells) /\ Usage(o) <= Cap}
    /\ FoundExt \subseteq Ops
    /\ Budgets \subseteq [Bounded -> Nat] /\ Budgets # {}

VARIABLES
    node,       \* router, relay, ext, subscriptions
    cache,      \* held_cache
    push,       \* pending_push, and the ages of its oldest and latest append
    task,       \* the command in progress and how far it has come
    out,        \* the outputs it has collected
    hints,      \* logs for which a change hint waits
    budget,     \* ghost: how often each bounded thing may still happen
    stale,      \* ghost: logs whose last reconcile failed
    deleted,    \* ghost: what the application has deleted
    wire        \* ghost: Want entries received or sent, and those lost with a failed append

shellVars == <<node, cache, push, task, out, hints, budget, stale, deleted, wire>>

Log == Channel \X Author

LogOf(x) == <<ChannelOf(x), AuthorOf(x)>>

Under(R, logs) == {x \in R : LogOf(x) \in logs}

LogsOf(R) == {LogOf(x) : x \in R}

Unknown == -1

NoPush == [cells |-> {}, oldest |-> 0, latest |-> 0]

NoOut == [send |-> {}, deliver |-> {}]

Command ==
    [kind : {"init", "timer", "maintain"}]
        \cup [kind : {"wire"}, msg : Incoming]
        \cup [kind : {"append"}, cell : Authorable]
        \cup [kind : {"subscribe", "unsubscribe"}, channel : Channel]
        \cup [kind : {"hint"}, logs : SUBSET Log]

\* todo, failed: the ops still to ingest and those that ext did not take.
\* usage: the tracked relay usage.  fx: what the router decided.  logs: what
\* the command has yet to reconcile.
Task ==
    [stage : {"idle", "advance", "answer", "ingest", "migrate", "reconcile", "route"},
     cmd : Command, todo : Ops, failed : SUBSET Cell, usage : Nat \cup {Unknown},
     fx : [want : SUBSET Entry, have : SUBSET Cell, accept : SUBSET Cell],
     logs : SUBSET Log]

IdleTask ==
    [stage |-> "idle", cmd |-> [kind |-> "timer"], todo |-> NoOps, failed |-> {},
     usage |-> Unknown, fx |-> NoFx, logs |-> {}]

TypeOK ==
    /\ node \in NodeState
    /\ cache \subseteq Cell
    /\ push \in [cells : SUBSET Cell, oldest : Nat, latest : Nat]
    /\ task \in Task
    /\ out.send \subseteq WireMessage /\ out.deliver \subseteq Cell
    /\ hints \subseteq Log /\ stale \subseteq Log
    /\ deleted \subseteq Cell
    /\ wire \in [asked : SUBSET Entry, lost : SUBSET Entry]
    /\ budget \in [Bounded -> Nat]

\* Count bounded things.
Spend(kind) ==
    /\ budget[kind] > 0
    /\ budget' = [budget EXCEPT ![kind] = @ - 1]

\* A call of this kind fails.
Fails(kind) == kind \in Fallible /\ Spend("errors")

-----------------------------------------------------------------------------
\* The life of a command.

\* spawn: stores as an earlier run left them, in the relay logs perhaps that
\* are now subscribed to; then init.
Init ==
    /\ \E subs \in SUBSET Channel, relay \in FoundRelay, ext \in FoundExt :
          node = [router |-> NewRouter({}, subs), relay |-> relay, ext |-> ext, subs |-> subs]
    /\ cache = {}
    /\ push = NoPush
    /\ task = [IdleTask EXCEPT !.stage = "reconcile", !.cmd = [kind |-> "init"], !.logs = Log]
    /\ out = NoOut
    /\ hints = {} /\ stale = {} /\ deleted = {}
    /\ wire = [asked |-> {}, lost |-> {}]
    /\ budget \in Budgets

\* One branch of select!.  An op may be appended again, as by a caller whose
\* first attempt was reported as failed.
Begins(cmd) ==
    /\ task.stage = "idle"
    /\ task' = [IdleTask EXCEPT !.stage = "advance", !.cmd = cmd,
                                !.logs = IF cmd.kind = "hint" THEN cmd.logs ELSE {}]
    /\ out' = NoOut
    /\ Spend("commands")
    /\ UNCHANGED <<node, cache, push, stale, deleted, wire>>

BeginsCommand ==
    /\ task.stage = "idle"
    /\ \E cmd \in Command : cmd.kind \notin {"init", "hint"} /\ Begins(cmd)
    /\ UNCHANGED hints

\* A hint, or word that hints were lost in the channel: that stands for all.
BeginsHint ==
    /\ hints # {}
    /\ \/ \E l \in hints : Begins([kind |-> "hint", logs |-> {l}]) /\ hints' = hints \ {l}
       \/ \E kept \in SUBSET hints : Begins([kind |-> "hint", logs |-> Log]) /\ hints' = kept

Asked(messages) == UNION {m.interest : m \in messages}

Heard == IF task.cmd.kind = "wire" THEN task.cmd.msg.interest ELSE {}

\* Mistake: what was said while catching up is not handed on.
EndsAfresh(outputs) ==
    /\ task' = IdleTask
    /\ out' = NoOut
    /\ wire' = [wire EXCEPT !.asked = @ \cup Heard]

\* route_outs: the outputs of the finished command leave the node.
Ends(outputs) ==
    /\ task' = IdleTask
    /\ out' = outputs
    /\ wire' = [wire EXCEPT !.asked = @ \cup Heard \cup Asked(outputs.send)]

Goes(stage) == task' = [task EXCEPT !.stage = stage] /\ UNCHANGED <<out, wire>>

-----------------------------------------------------------------------------
\* advance_to.

\* Mistake: every append starts the wait anew.
FlushDueWhenQuiet == push.cells # {} /\ push.latest >= Window

FlushDue == push.cells # {} /\ (push.latest >= Window \/ push.oldest >= MaxLatency)

\* Arm the Have timer if that is possible.
Rearmed(router, interval) ==
    IF ArmHaveEnabled(router) THEN ArmHave(router, interval) ELSE router

\* The router has decided on fx; the Want goes out, the Have is hydrated in
\* the next step.
Decides(res, stage) ==
    /\ node' = [node EXCEPT !.router = res.st]
    /\ task' = [task EXCEPT !.stage = stage, !.fx = res.fx]
    /\ out' = [out EXCEPT !.send = @ \cup {WantMessage(Id, i) : i \in {res.fx.want} \ {{}}}]

FlushesPush ==
    /\ task.stage = "advance"
    /\ FlushDue
    /\ Decides(Push(node.router, Id, push.cells), "answer")
    /\ push' = NoPush
    /\ UNCHANGED <<cache, hints, budget, stale, deleted, wire>>

FiresWant == \E i \in Intervals :
    /\ task.stage = "advance"
    /\ ~FlushDue
    /\ WantDue(node.router)
    /\ LET res == FireWant(node.router)
       IN  Decides([res EXCEPT !.st = ArmWant(@, i)], "advance")
    /\ UNCHANGED <<cache, push, hints, budget, stale, deleted, wire>>

FiresHave == \E i \in Intervals :
    /\ task.stage = "advance"
    /\ ~FlushDue /\ ~WantDue(node.router)
    /\ HaveDue(node.router)
    /\ LET res == FireHave(node.router, Id)
       IN  Decides([res EXCEPT !.st = Rearmed(@, i)], "answer")
    /\ UNCHANGED <<cache, push, hints, budget, stale, deleted, wire>>

NothingDue == ~FlushDue /\ ~WantDue(node.router) /\ ~HaveDue(node.router)

Ticks ==
    /\ task.stage = "advance"
    /\ NothingDue
    /\ node' = [node EXCEPT !.router = Tick(@, 1)]
    /\ push' = IF push.cells = {} THEN NoPush
               ELSE [push EXCEPT !.oldest = @ + 1, !.latest = @ + 1]
    /\ Spend("ticks")
    /\ UNCHANGED <<cache, task, out, hints, stale, deleted, wire>>

\* hydrate: both copies of an op, the one with the payload first; a store
\* that fails contributes nothing, or what it could read.
Hydrates(ops) ==
    \/ ops = Hydrate(node, task.fx.have) /\ UNCHANGED budget
    \/ /\ Fails("relay")
       /\ \E R \in SUBSET task.fx.have :
             ops = Fetch(Ingest(Fetch(node.relay, R), node.ext), task.fx.have)
    \/ Fails("ext") /\ ops = Fetch(node.relay, task.fx.have)

Said(ops) == [out EXCEPT !.send = @ \cup {HaveMessage(Id, o) : o \in {ops} \ {NoOps}}]

Answers ==
    /\ task.stage = "answer"
    /\ \E ops \in Ops : Hydrates(ops) /\ out' = Said(ops)
    /\ task' = [task EXCEPT !.stage = "advance", !.fx = NoFx]
    /\ UNCHANGED <<node, cache, push, hints, stale, deleted, wire>>

\* The command is caught up with the clock and has the next step.
CaughtUp(kind) == task.stage = "advance" /\ task.cmd.kind = kind /\ NothingDue

-----------------------------------------------------------------------------
\* Bodies without store calls.

\* The sleep branch; a message that on_wire drops comes to the same.
EndsTimer ==
    /\ CaughtUp("timer")
    /\ Ends(out)
    /\ UNCHANGED <<node, cache, push, hints, budget, stale, deleted>>

\* on_wire, a Want.
HandlesWant == \E i \in Intervals :
    /\ CaughtUp("wire")
    /\ task.cmd.msg.kind = "want"
    /\ LET res == RecvWant(node.router, task.cmd.msg.interest)
       IN  /\ node' = [node EXCEPT !.router = Rearmed(res.st, i)]
           /\ Ends([out EXCEPT !.send = @ \cup {WantMessage(Id, j) : j \in {res.fx.want} \ {{}}}])
    /\ UNCHANGED <<cache, push, hints, budget, stale, deleted>>

-----------------------------------------------------------------------------
\* on_wire, a Have: the router decides, the ops are ingested one by one, the
\* logs are reconciled, then the decisions are carried out.

HandlesHave ==
    /\ CaughtUp("wire")
    /\ task.cmd.msg.kind = "have"
    /\ LET ops == task.cmd.msg.ops
           res == RecvHave(node.router, task.cmd.msg.sender, ops.cells)
       IN  /\ node' = [node EXCEPT !.router = res.st]
           /\ task' = [task EXCEPT !.stage = "ingest", !.todo = ops, !.fx = res.fx,
                                   !.logs = LogsOf(ops.cells)]
    /\ UNCHANGED <<cache, push, out, hints, budget, stale, deleted, wire>>

\* x is the op whose turn it is.
First(x) == x \in task.todo.cells /\ \A y \in task.todo.cells \ {x} : Precedes(x, y)

Rest(x) == Fetch(task.todo, task.todo.cells \ {x})

\* ext may hint at a write of the shell's own.
MayHint(x) == hints' \in {hints, hints \cup {LogOf(x)}}

\* A call that fails may have taken effect nevertheless.
IngestsExt == \E x \in Cell :
    LET ext == Ingest(node.ext, Fetch(task.todo, {x}))
    IN  /\ task.stage = "ingest" /\ First(x) /\ IsSubscribed(node, x)
        /\ MayHint(x)
        /\ \/ /\ node' = [node EXCEPT !.ext = ext]
              /\ task' = [task EXCEPT !.todo = Rest(x)]
              /\ UNCHANGED budget
           \/ /\ Fails("ext")
              /\ node' \in {node, [node EXCEPT !.ext = ext]}
              /\ task' = [task EXCEPT !.todo = Rest(x), !.failed = @ \cup {x}]
        /\ UNCHANGED <<cache, push, out, stale, deleted, wire>>

\* The relay's usage as the batch knows it: read anew where it is unknown.
Current == IF task.usage = Unknown THEN Usage(node.relay) ELSE task.usage

\* Mistake: a failed ingest is counted as if nothing had been stored.
ParkFailsCounted(x, relay) ==
    /\ Fails("relay")
    /\ node' \in {node, [node EXCEPT !.relay = relay]}
    /\ task' = [task EXCEPT !.todo = Rest(x), !.usage = Current]

\* A relay call fails: the op is given up, and the usage is unknown.
ParkFails(x, relay) ==
    /\ Fails("relay")
    /\ node' \in {node, [node EXCEPT !.relay = relay]}
    /\ task' = [task EXCEPT !.todo = Rest(x), !.usage = Unknown]

Parks == \E x \in Cell :
    LET relay == Ingest(node.relay, Fetch(task.todo, {x}))
        units == Current + Usage(relay) - Usage(node.relay)
    IN  /\ task.stage = "ingest" /\ First(x) /\ ~IsSubscribed(node, x)
        /\ \/ /\ units <= Cap
              /\ node' = [node EXCEPT !.relay = relay]
              /\ task' = [task EXCEPT !.todo = Rest(x), !.usage = units]
              /\ UNCHANGED budget
           \/ /\ units > Cap
              /\ task' = [task EXCEPT !.todo = Rest(x), !.usage = Current]
              /\ UNCHANGED <<node, budget>>
           \/ ParkFails(x, IF units <= Cap THEN relay ELSE node.relay)
        /\ UNCHANGED <<cache, push, out, hints, stale, deleted, wire>>

Ingested ==
    /\ task.stage = "ingest" /\ task.todo.cells = {}
    /\ Goes("reconcile")
    /\ UNCHANGED <<node, cache, push, hints, budget, stale, deleted>>

\* Mistake: the ops that ext did not take are announced too.
AnnouncedAll == task.fx.accept \cap {x \in task.cmd.msg.ops.cells : IsSubscribed(node, x)}

\* route_fx: what is announced, which is not what ext did not take.
Announced ==
    (task.fx.accept \cap {x \in task.cmd.msg.ops.cells : IsSubscribed(node, x)}) \ task.failed

Routes ==
    /\ task.stage = "route"
    /\ \E ops \in Ops :
          Hydrates(ops) /\ Ends([Said(ops) EXCEPT !.deliver = @ \cup Announced])
    /\ UNCHANGED <<node, cache, push, hints, stale, deleted>>

-----------------------------------------------------------------------------
\* reconcile_held, and what follows it.

\* Mistake: what is gone from the stores stays in the cache.
ReconciledByUnion(c) == c \cup Under(HeldUnion(node), task.logs)

\* The cache follows the stores in these logs, and the router the cache.
Reconciled(c) == (c \ Under(c, task.logs)) \cup Under(HeldUnion(node), task.logs)

AfterReconcile(router) ==
    CASE task.cmd.kind = "init" -> \E i \in Intervals :
            /\ node' = [node EXCEPT !.router = ArmWant(router, i)]
            /\ Ends(out)
            /\ UNCHANGED push
      [] task.cmd.kind = "append" ->
            /\ node' = [node EXCEPT !.router = router]
            /\ push' = [cells |-> push.cells \cup {task.cmd.cell}, oldest |-> push.oldest,
                        latest |-> 0]
            /\ Ends(out)
      [] task.cmd.kind = "wire" ->
            /\ node' = [node EXCEPT !.router = router]
            /\ task' = [task EXCEPT !.stage = "route", !.logs = {}]
            /\ UNCHANGED <<push, out, wire>>
      [] OTHER ->
            /\ node' = [node EXCEPT !.router = router]
            /\ Ends(out)
            /\ UNCHANGED push

Reconciles ==
    /\ task.stage = "reconcile"
    /\ cache' = Reconciled(cache)
    /\ AfterReconcile(Held(node.router, cache'))
    /\ stale' = stale \ task.logs
    /\ UNCHANGED <<hints, budget, deleted>>

\* A store cannot say what it holds: what was known stands.
ReconcileFails ==
    /\ task.stage = "reconcile"
    /\ Fails("ext") \/ Fails("relay")
    /\ AfterReconcile(node.router)
    /\ stale' = stale \cup task.logs
    /\ UNCHANGED <<cache, hints, deleted>>

ReconcilesHint ==
    /\ CaughtUp("hint")
    /\ Goes("reconcile")
    /\ UNCHANGED <<node, cache, push, hints, budget, stale, deleted>>

-----------------------------------------------------------------------------
\* on_append.

Appends ==
    /\ CaughtUp("append")
    /\ LET x == task.cmd.cell
       IN  /\ node' = [node EXCEPT !.ext = Ingest(@, [cells |-> {x}, pay |-> {x}])]
           /\ task' = [task EXCEPT !.stage = "reconcile", !.logs = {LogOf(x)}]
           /\ MayHint(x)
    /\ UNCHANGED <<cache, push, out, budget, stale, deleted, wire>>

\* ext reports a failure: the command ends there, and what it had to say is lost.
AppendFails ==
    /\ CaughtUp("append")
    /\ Fails("append")
    /\ LET x == task.cmd.cell
       IN  /\ node' \in {node, [node EXCEPT !.ext = Ingest(@, [cells |-> {x}, pay |-> {x}])]}
           /\ stale' = stale \cup {LogOf(x)}
    /\ task' = IdleTask
    /\ out' = NoOut
    /\ wire' = [wire EXCEPT !.lost = @ \cup Asked(out.send)]
    /\ UNCHANGED <<cache, push, hints, deleted>>

-----------------------------------------------------------------------------
\* on_subscribe: what the relay holds under the channel moves to ext.

\* The relay may fail to list what it holds of the channel, or to read it all.
Subscribes ==
    /\ CaughtUp("subscribe")
    /\ \E listed, read \in SUBSET Cell :
          /\ LET under == {x \in node.relay.cells : ChannelOf(x) = task.cmd.channel}
             IN  \/ listed = under /\ read = under /\ UNCHANGED budget
                 \/ listed \in {{}, under} /\ read \subseteq listed /\ Fails("relay")
          /\ task' = [task EXCEPT !.stage = "migrate", !.todo = Fetch(node.relay, read),
                                  !.logs = LogsOf(listed)]
    /\ node' = [node EXCEPT !.subs = @ \cup {task.cmd.channel}]
    /\ UNCHANGED <<cache, push, out, hints, stale, deleted, wire>>

Migrates == \E x \in Cell :
    LET ext == Ingest(node.ext, Fetch(task.todo, {x}))
    IN  /\ task.stage = "migrate" /\ First(x)
        /\ MayHint(x)
        /\ \/ /\ node' = [node EXCEPT !.ext = ext]
              /\ task' = [task EXCEPT !.todo = Rest(x), !.fx.accept = @ \cup {x}]
              /\ UNCHANGED budget
           \/ /\ Fails("ext")
              /\ node' \in {node, [node EXCEPT !.ext = ext]}
              /\ task' = [task EXCEPT !.todo = Rest(x), !.failed = @ \cup {x}]
        /\ UNCHANGED <<cache, push, out, stale, deleted, wire>>

\* Mistake: everything under the channel that was listed is evicted.
MovedAll == Under(node.relay.cells, task.logs)

\* What provably landed in ext (kept in fx.accept until here) may leave the relay.
Moved == task.fx.accept

Migrated ==
    /\ task.stage = "migrate" /\ task.todo.cells = {}
    /\ LET opened == [node EXCEPT !.router = Open(@, node.subs)]
       IN  \/ /\ node' = [opened EXCEPT !.relay = Evict(@, Moved)]
              /\ UNCHANGED budget
           \/ Moved # {} /\ Fails("relay") /\ node' = opened
    /\ task' = [task EXCEPT !.stage = "reconcile", !.fx = NoFx]
    /\ UNCHANGED <<cache, push, out, hints, stale, deleted, wire>>

Unsubscribes ==
    /\ CaughtUp("unsubscribe")
    /\ LET subs == node.subs \ {task.cmd.channel}
       IN  node' = [node EXCEPT !.subs = subs, !.router = Open(@, subs)]
    /\ task' = [task EXCEPT !.stage = "reconcile", !.logs = Log]
    /\ UNCHANGED <<cache, push, out, hints, budget, stale, deleted, wire>>

-----------------------------------------------------------------------------
\* on_maintain: above the threshold, payloads that nobody asks for go, or
\* else whole ops.  A failing call ends it;
\* a failing eviction may have taken effect nevertheless.

Unasked(R) == R \ NetworkAsk(node.router)

MaintainsNothing ==
    /\ CaughtUp("maintain")
    /\ \/ Usage(node.relay) < EvictAt /\ UNCHANGED budget
       \/ Unasked(node.relay.cells) = {} /\ UNCHANGED budget
       \/ Fails("relay")
    /\ Ends(out)
    /\ UNCHANGED <<node, cache, push, hints, stale, deleted>>

EvictsPayloads ==
    /\ CaughtUp("maintain")
    /\ Usage(node.relay) >= EvictAt
    /\ Unasked(node.relay.pay) # {}
    /\ node' = [node EXCEPT !.relay = EvictPayloads(@, Unasked(node.relay.pay))]
    /\ UNCHANGED budget \/ Fails("relay")
    /\ Ends(out)
    /\ UNCHANGED <<cache, push, hints, stale, deleted>>

EvictsOps ==
    /\ CaughtUp("maintain")
    /\ Usage(node.relay) >= EvictAt
    /\ Unasked(node.relay.pay) = {} /\ Unasked(node.relay.cells) # {}
    /\ node' = [node EXCEPT !.relay = Evict(@, Unasked(node.relay.cells))]
    /\ LET logs == LogsOf(Unasked(node.relay.cells))
       IN  \/ /\ task' = [task EXCEPT !.stage = "reconcile", !.logs = logs]
              /\ UNCHANGED <<out, budget, stale, wire>>
           \/ /\ Fails("relay")
              /\ Ends(out)
              /\ stale' = stale \cup logs
    /\ UNCHANGED <<cache, push, hints, deleted>>

-----------------------------------------------------------------------------
\* The application, at any moment.

AppSyncs == \E x \in Cell :
    /\ x \notin node.ext.cells
    /\ node' = [node EXCEPT !.ext = Ingest(@, [cells |-> {x}, pay |-> {x}])]
    /\ hints' = hints \cup {LogOf(x)}
    /\ Spend("appChanges")
    /\ UNCHANGED <<cache, push, task, out, stale, deleted, wire>>

AppDeletes == \E x \in node.ext.cells :
    /\ node' = [node EXCEPT !.ext = Evict(@, {x})]
    /\ hints' = hints \cup {LogOf(x)}
    /\ deleted' = deleted \cup {x}
    /\ Spend("appChanges")
    /\ UNCHANGED <<cache, push, task, out, stale, wire>>

Advances == FlushesPush \/ FiresWant \/ FiresHave \/ Answers \/ Ticks

HandlesWire == HandlesWant \/ HandlesHave \/ IngestsExt \/ Parks \/ Ingested \/ Routes

Maintains == MaintainsNothing \/ EvictsPayloads \/ EvictsOps

Next ==
    \/ BeginsCommand \/ BeginsHint
    \/ Advances
    \/ EndsTimer
    \/ HandlesWire
    \/ Reconciles \/ ReconcileFails \/ ReconcilesHint
    \/ Appends \/ AppendFails
    \/ Subscribes \/ Migrates \/ Migrated \/ Unsubscribes
    \/ Maintains
    \/ AppSyncs \/ AppDeletes

Spec == Init /\ [][Next]_shellVars

-----------------------------------------------------------------------------
\* Properties.

\* Logs of which the node may not know what is held: a hint waits, a reconcile
\* failed, or a command has yet to reconcile them.
Unsettled == hints \cup stale \cup task.logs

\* held_cache is the last known union of the stores, and no interleaving of
\* the application's changes with a command's steps makes it miss a change
\* that no hint stands for; the router never denies what a store holds, and
\* so never asks for it, and claims no more than that but what the application
\* has deleted, which a debounced push may claim again.
CacheFollows ==
    \A x \in Cell :
        LogOf(x) \notin Unsettled =>
            /\ x \in cache <=> x \in HeldUnion(node)
            /\ x \in HeldUnion(node) => x \in node.router.held
            /\ x \in node.router.held => x \in HeldUnion(node) \cup deleted

\* The usage tracked over a batch never under-counts, not even after failed
\* calls: the relay stays within its cap.
RelayWithinCap ==
    /\ Usage(node.relay) <= Cap
    /\ task.usage # Unknown => Usage(node.relay) <= task.usage

\* Delivered does not lie: what was announced is in the application's store,
\* unless the application has deleted it since.
DeliveredInExt == out.deliver \subseteq node.ext.cells \cup deleted

\* policy lib.rs: "a steady append stream still pushes instead of re-arming
\* forever".
PushWithinLatency == push.cells # {} => push.oldest <= MaxLatency

\* router.rs:90: a seen Want is "a Want seen on the wire or emitted by this
\* node": whatever suppresses this node's questions was really asked.
SeenWasAsked ==
    \A w \in node.router.seen : w.entry \in wire.asked \cup Asked(out.send)

\* Only a failed append makes a node believe in questions that nobody asked.
OnlyFailedAppendsMute ==
    \A w \in node.router.seen : w.entry \in wire.asked \cup wire.lost \cup Asked(out.send)

\* Bytes survive in one store instead of vanishing from both: whatever call
\* fails, an op or a payload leaves the node only by the relay's maintenance
\* or where the application has deleted it.
NothingVanishes ==
    [][\A x \in Cell \ deleted' :
          \/ task.cmd.kind = "maintain" /\ x \in node.relay.cells
          \/ /\ x \in HeldUnion(node) => x \in HeldUnion(node)'
             /\ x \in node.relay.pay \cup node.ext.pay
                    => x \in node'.relay.pay \cup node'.ext.pay]_shellVars

=============================================================================
