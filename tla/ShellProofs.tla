---------------------------- MODULE ShellProofs ----------------------------
(***************************************************************************)
(* Invariants of the shell of one node, for every universe of cells, every *)
(* cap, window and time to live, whatever calls fail and whatever the      *)
(* application does between two of them.                                   *)
(***************************************************************************)
EXTENDS Shell, RouterProofs

-----------------------------------------------------------------------------
\* The inductive invariant.

OutType == [send : SUBSET WireMessage, deliver : SUBSET Cell]

BudgetOK == budget \in [Bounded -> Nat]

\* TypeOK, with the shape of the records, and a relay that can be counted.
TypeInv ==
    /\ node \in NodeState /\ IsFiniteSet(node.relay.cells)
    /\ cache \subseteq Cell
    /\ push \in [cells : SUBSET Cell, oldest : Nat, latest : Nat]
    /\ task \in Task
    /\ out \in OutType
    /\ hints \subseteq Log /\ stale \subseteq Log
    /\ deleted \subseteq Cell
    /\ wire \in [asked : SUBSET Entry, lost : SUBSET Entry]
    /\ BudgetOK

\* Which command is in which stage, and what it has settled by then.
StageInv ==
    /\ task.stage \in {"idle", "route"} => task.logs = {}
    /\ task.stage \in {"advance", "answer"} /\ task.cmd.kind # "hint" => task.logs = {}
    /\ task.stage \in {"advance", "answer"} => task.fx.accept = {}
    /\ task.stage \in {"ingest", "route"} => task.cmd.kind = "wire"
    /\ task.stage = "migrate" => task.cmd.kind = "subscribe"

\* What a batch has still to store, or to take from the relay, is in logs that
\* the command has still to reconcile.
BatchInv ==
    /\ task.stage \in {"ingest", "migrate"} => LogsOf(task.todo.cells) \subseteq task.logs
    /\ task.stage = "migrate" => LogsOf(task.fx.accept) \subseteq task.logs

\* What was appended, and is to be pushed, is in ext or was deleted there.
AppendInv ==
    /\ push.cells \subseteq node.ext.cells \cup deleted
    /\ task.stage = "reconcile" /\ task.cmd.kind = "append"
          => task.cmd.cell \in node.ext.cells \cup deleted

PushInv == PushWithinLatency /\ (push.cells = {} => push.oldest = 0)

\* What a subscribed op of a received Have is due: to be in ext, or still to
\* be ingested, or refused by ext.
DeliverInv ==
    /\ DeliveredInExt
    /\ task.cmd.kind = "wire" /\ task.stage \in {"reconcile", "route"} => task.todo.cells = {}
    /\ task.cmd.kind = "wire" /\ task.stage \in {"ingest", "reconcile", "route"} =>
          \A x \in task.cmd.msg.ops.cells :
             IsSubscribed(node, x)
                => x \in task.todo.cells \cup task.failed \cup node.ext.cells \cup deleted

\* What is about to leave the relay is in ext as good as in the relay.
MoveInv ==
    task.stage = "migrate" =>
        /\ \A x \in task.todo.cells : x \in node.relay.pay => x \in task.todo.pay
        /\ \A x \in task.fx.accept \ deleted :
              x \in node.ext.cells /\ (x \in node.relay.pay => x \in node.ext.pay)

\* What the outputs of a finished command ask was asked.
AskInv == OnlyFailedAppendsMute /\ (task.stage = "idle" => Asked(out.send) \subseteq wire.asked)

ShellInv ==
    /\ TypeInv /\ StageInv /\ BatchInv /\ AppendInv /\ PushInv
    /\ RelayWithinCap /\ CacheFollows /\ DeliverInv /\ MoveInv /\ AskInv

-----------------------------------------------------------------------------
\* Types.

\* What each kind of command carries.
LEMMA CommandFields ==
    ASSUME NEW cmd \in Command
    PROVE  /\ cmd.kind = "wire" => cmd.msg \in Incoming
           /\ cmd.kind = "append" => cmd.cell \in Authorable
           /\ cmd.kind \in {"subscribe", "unsubscribe"} => cmd.channel \in Channel
           /\ cmd.kind = "hint" => cmd.logs \subseteq Log
BY DEF Command

\* What a message carries.
LEMMA MessageFields ==
    /\ \A m \in Incoming : m \in WireMessage
    /\ \A m \in WireMessage : /\ m.kind \in {"want", "have"} /\ m.sender \in NodeId
                              /\ m.interest \subseteq Entry /\ m.ops \in Ops
    /\ \A i \in SUBSET Entry : WantMessage(Id, i) \in WireMessage
                               /\ WantMessage(Id, i).interest = i
    /\ \A o \in Ops : HaveMessage(Id, o) \in WireMessage /\ HaveMessage(Id, o).interest = {}
<1>1. Id \in NodeId /\ NoOps \in Ops /\ \A m \in Incoming : m \in WireMessage
  BY ShellAssumption, OpsTypes
<1> QED
  BY <1>1 DEF WireMessage, WantMessage, HaveMessage

\* What Heard and Asked return are entries.
LEMMA AskedTypes ==
    /\ \A s \in SUBSET WireMessage : Asked(s) \subseteq Entry
    /\ task \in Task => Heard \subseteq Entry
<1>1. \A s \in SUBSET WireMessage : Asked(s) \subseteq Entry
  BY MessageFields DEF Asked
<1>2. task \in Task => Heard \subseteq Entry
  <2>1. task \in Task => task.cmd \in Command
    BY DEF Task
  <2> QED
    BY <2>1, CommandFields, MessageFields DEF Heard
<1> QED
  BY <1>1, <1>2

\* Counting keeps the counts natural.
LEMMA SpendType ==
    ASSUME BudgetOK, NEW kind \in Bounded, Spend(kind) \/ UNCHANGED budget
    PROVE  BudgetOK'
<1>1. CASE UNCHANGED budget
  BY <1>1 DEF BudgetOK
<1>2. CASE Spend(kind)
  <2>1. /\ budget[kind] \in Nat /\ budget[kind] > 0
        /\ budget' = [budget EXCEPT ![kind] = budget[kind] - 1]
    BY <1>2 DEF Spend, BudgetOK
  <2>2. budget[kind] - 1 \in Nat
    BY <2>1
  <2> QED
    BY <2>1, <2>2 DEF BudgetOK
<1> QED
  BY <1>1, <1>2

\* A failing call is counted too.
LEMMA FailsType ==
    ASSUME BudgetOK, NEW kind, Fails(kind) \/ UNCHANGED budget
    PROVE  BudgetOK'
<1>1. "errors" \in Bounded
  BY DEF Bounded
<1> QED
  BY <1>1, SpendType DEF Fails

\* A command ends with outputs.
LEMMA EndsType ==
    ASSUME TypeInv, NEW o \in OutType, Ends(o)
    PROVE  /\ task' \in Task /\ out' \in OutType
           /\ wire' \in [asked : SUBSET Entry, lost : SUBSET Entry]
<1>1. IdleTask \in Task
  BY OpsTypes DEF IdleTask, Task, Command, NoFx
<1>2. Heard \subseteq Entry /\ Asked(o.send) \subseteq Entry
  BY AskedTypes DEF TypeInv, OutType
<1>3. wire' \in [asked : SUBSET Entry, lost : SUBSET Entry]
  BY <1>2 DEF Ends, TypeInv
<1> QED
  BY <1>1, <1>3 DEF Ends

\* The router decides, and its Want goes out.
LEMMA DecidesType ==
    ASSUME TypeInv, NEW res, res.st \in RouterState, res.fx \in RouterFx,
           NEW stage \in {"advance", "answer"}, Decides(res, stage)
    PROVE  /\ node' \in NodeState /\ node'.relay = node.relay
           /\ task' \in Task /\ out' \in OutType
<1>1. node' \in NodeState /\ node'.relay = node.relay
  BY DEF Decides, NodeState, TypeInv
<1>2. task' \in Task
  BY DEF Decides, Task, RouterFx, TypeInv
<1>3. {WantMessage(Id, i) : i \in {res.fx.want} \ {{}}} \subseteq WireMessage
  BY MessageFields DEF RouterFx
<1>4. out' \in OutType
  BY <1>3 DEF Decides, OutType, TypeInv
<1> QED
  BY <1>1, <1>2, <1>4

\* What hydration returns is part of the stores.
LEMMA SaidType ==
    ASSUME out \in OutType, NEW ops \in Ops
    PROVE  Said(ops) \in OutType /\ Said(ops).deliver = out.deliver
<1>1. {HaveMessage(Id, o) : o \in {ops} \ {NoOps}} \subseteq WireMessage
  BY MessageFields
<1> QED
  BY <1>1 DEF Said, OutType

\* Catching up with the clock preserves the types.
LEMMA AdvancesType == TypeInv /\ Advances => TypeInv'
<1> SUFFICES ASSUME TypeInv, Advances PROVE TypeInv'
  OBVIOUS
<1>0. node.router \in RouterState /\ push.cells \in SUBSET Cell /\ Id \in NodeId
  BY ShellAssumption DEF TypeInv, NodeState
<1>1. CASE FlushesPush
  <2>1. /\ node' \in NodeState /\ node'.relay = node.relay
        /\ task' \in Task /\ out' \in OutType
    BY <1>0, <1>1, PushType, DecidesType DEF FlushesPush
  <2> QED
    BY <1>1, <2>1 DEF FlushesPush, TypeInv, BudgetOK, NoPush
<1>2. CASE FiresWant
  <2>1. PICK i \in Intervals :
           LET res == FireWant(node.router)
           IN  Decides([res EXCEPT !.st = ArmWant(@, i)], "advance")
    BY <1>2 DEF FiresWant
  <2> DEFINE res == [FireWant(node.router) EXCEPT !.st = ArmWant(@, i)]
  <2>2. res.st \in RouterState /\ res.fx \in RouterFx
    <3>1. i \in Nat
      BY ShellAssumption
    <3>2. FireWant(node.router).st \in RouterState /\ FireWant(node.router).fx \in RouterFx
      BY <1>0, FireWantType
    <3>3. res.st = ArmWant(FireWant(node.router).st, i) /\ res.fx = FireWant(node.router).fx
      BY DEF FireWant
    <3> QED
      BY <3>1, <3>2, <3>3, ArmTypes
  <2> HIDE DEF res
  <2>3. /\ node' \in NodeState /\ node'.relay = node.relay
        /\ task' \in Task /\ out' \in OutType
    BY <2>1, <2>2, DecidesType DEF res
  <2> QED
    BY <1>2, <2>3 DEF FiresWant, TypeInv, BudgetOK
<1>3. CASE FiresHave
  <2>1. PICK i \in Intervals :
           LET res == FireHave(node.router, Id)
           IN  Decides([res EXCEPT !.st = Rearmed(@, i)], "answer")
    BY <1>3 DEF FiresHave
  <2> DEFINE res == [FireHave(node.router, Id) EXCEPT !.st = Rearmed(@, i)]
  <2>2. res.st \in RouterState /\ res.fx \in RouterFx
    <3>1. i \in Nat
      BY ShellAssumption
    <3>2. /\ FireHave(node.router, Id).st \in RouterState
          /\ FireHave(node.router, Id).fx \in RouterFx
      BY <1>0, FireHaveType
    <3>3. /\ res.st = Rearmed(FireHave(node.router, Id).st, i)
          /\ res.fx = FireHave(node.router, Id).fx
      BY DEF FireHave
    <3> QED
      BY <3>1, <3>2, <3>3, ArmTypes DEF Rearmed
  <2> HIDE DEF res
  <2>3. /\ node' \in NodeState /\ node'.relay = node.relay
        /\ task' \in Task /\ out' \in OutType
    BY <2>1, <2>2, DecidesType DEF res
  <2> QED
    BY <1>3, <2>3 DEF FiresHave, TypeInv, BudgetOK
<1>4. CASE Answers
  <2>1. PICK ops \in Ops : Hydrates(ops) /\ out' = Said(ops)
    BY <1>4 DEF Answers
  <2>2. out' \in OutType
    BY <2>1, SaidType DEF TypeInv
  <2>3. task' \in Task
    BY <1>4 DEF Answers, Task, NoFx, TypeInv
  <2>4. BudgetOK'
    BY <2>1, FailsType DEF Hydrates, TypeInv
  <2> QED
    BY <1>4, <2>2, <2>3, <2>4 DEF Answers, TypeInv
<1>5. CASE Ticks
  <2>1. TickEnabled(node.router, 1)
    BY <1>0, <1>5 DEF Ticks, NothingDue, WantDue, HaveDue, TickEnabled, RouterState, NoTimer
  <2>2. node' \in NodeState /\ node'.relay = node.relay
    BY <1>0, <1>5, <2>1, TickType DEF Ticks, TypeInv, NodeState
  <2>3. push' \in [cells : SUBSET Cell, oldest : Nat, latest : Nat]
    <3>1. push.oldest + 1 \in Nat /\ push.latest + 1 \in Nat
      BY DEF TypeInv
    <3>2. [push EXCEPT !.oldest = push.oldest + 1, !.latest = push.latest + 1]
             \in [cells : SUBSET Cell, oldest : Nat, latest : Nat]
      BY <3>1 DEF TypeInv
    <3> QED
      BY <1>5, <3>2 DEF Ticks, NoPush
  <2>4. BudgetOK'
    <3>1. "ticks" \in Bounded
      BY DEF Bounded
    <3> QED
      BY <1>5, <3>1, SpendType DEF Ticks, TypeInv
  <2> QED
    BY <1>5, <2>2, <2>3, <2>4 DEF Ticks, TypeInv
<1> QED
  BY <1>1, <1>2, <1>3, <1>4, <1>5 DEF Advances

\* Beginning a command preserves the types.
LEMMA BeginsType ==
    ASSUME TypeInv, NEW cmd \in Command, Begins(cmd), hints' \subseteq Log
    PROVE  TypeInv'
<1>1. task' \in Task
  <2>1. (IF cmd.kind = "hint" THEN cmd.logs ELSE {}) \subseteq Log
    BY CommandFields
  <2>2. IdleTask \in Task
    BY OpsTypes DEF IdleTask, Task, Command, NoFx
  <2> QED
    BY <2>1, <2>2 DEF Begins, Task
<1>2. "commands" \in Bounded
  BY DEF Bounded
<1>3. BudgetOK'
  BY <1>2, SpendType DEF Begins, TypeInv
<1> QED
  BY <1>1, <1>3 DEF Begins, TypeInv, NoOut, OutType

\* Handling a Want, and ending with nothing done, preserve the types.
LEMMA SimpleEndsType ==
    TypeInv /\ (EndsTimer \/ HandlesWant \/ MaintainsNothing) => TypeInv'
<1> SUFFICES ASSUME TypeInv, EndsTimer \/ HandlesWant \/ MaintainsNothing PROVE TypeInv'
  OBVIOUS
<1>0. out \in OutType /\ node.router \in RouterState
  BY DEF TypeInv, NodeState
<1>1. CASE EndsTimer
  BY <1>0, <1>1, EndsType DEF EndsTimer, TypeInv, BudgetOK
<1>2. CASE MaintainsNothing
  <2>1. BudgetOK'
    BY <1>2, FailsType DEF MaintainsNothing, TypeInv
  <2>2. Ends(out)
    BY <1>2 DEF MaintainsNothing
  <2> QED
    BY <1>0, <1>2, <2>1, <2>2, EndsType DEF MaintainsNothing, TypeInv
<1>3. CASE HandlesWant
  <2> DEFINE res == RecvWant(node.router, task.cmd.msg.interest)
             said == [out EXCEPT !.send = @ \cup {WantMessage(Id, j) : j \in {res.fx.want} \ {{}}}]
  <2>1. PICK i \in Intervals :
           node' = [node EXCEPT !.router = Rearmed(res.st, i)] /\ Ends(said)
    BY <1>3 DEF HandlesWant
  <2>2. task.cmd.msg.interest \subseteq Entry
    BY <1>3, CommandFields, MessageFields DEF HandlesWant, CaughtUp, TypeInv, Task
  <2>3. res.st \in RouterState /\ res.fx \in RouterFx
    BY <1>0, <2>2, RecvWantType
  <2> HIDE DEF res
  <2>4. i \in Nat
    BY ShellAssumption
  <2>5. Rearmed(res.st, i) \in RouterState
    BY <2>3, <2>4, ArmTypes DEF Rearmed
  <2>6. {WantMessage(Id, j) : j \in {res.fx.want} \ {{}}} \subseteq WireMessage
    BY <2>3, MessageFields DEF RouterFx
  <2>7. said \in OutType
    BY <1>0, <2>6 DEF OutType
  <2> HIDE DEF said
  <2>8. node' \in NodeState /\ node'.relay = node.relay
    BY <2>1, <2>5 DEF TypeInv, NodeState
  <2> QED
    BY <1>3, <2>1, <2>7, <2>8, EndsType DEF HandlesWant, TypeInv, BudgetOK
<1> QED
  BY <1>1, <1>2, <1>3

\* What is left of a batch is a batch.
LEMMA RestType ==
    ASSUME TypeInv, NEW x
    PROVE  /\ task.todo \in Ops /\ Rest(x) \in Ops
           /\ Rest(x).cells = task.todo.cells \ {x}
           /\ Fetch(task.todo, {x}) \in Ops
<1>1. task.todo \in Ops
  BY DEF TypeInv, Task
<1> QED
  BY <1>1, OpsTypes DEF Rest, Fetch

\* One ingest into ext, from a Have or from the relay, preserves the types.
LEMMA IngestsType == TypeInv /\ (IngestsExt \/ Migrates) => TypeInv'
<1> SUFFICES ASSUME TypeInv, IngestsExt \/ Migrates PROVE TypeInv'
  OBVIOUS
<1>1. PICK x \in Cell :
        LET ext == Ingest(node.ext, Fetch(task.todo, {x}))
        IN  /\ MayHint(x) /\ First(x)
            /\ node' \in {node, [node EXCEPT !.ext = ext]}
            /\ \/ task' = [task EXCEPT !.todo = Rest(x)]
               \/ task' = [task EXCEPT !.todo = Rest(x), !.failed = @ \cup {x}]
               \/ task' = [task EXCEPT !.todo = Rest(x), !.fx.accept = @ \cup {x}]
            /\ Fails("ext") \/ UNCHANGED budget
  BY DEF IngestsExt, Migrates
<1>2. UNCHANGED <<cache, push, out, stale, deleted, wire>>
  BY DEF IngestsExt, Migrates
<1> DEFINE ext == Ingest(node.ext, Fetch(task.todo, {x}))
<1>3. ext \in Ops
  BY RestType, OpsTypes DEF TypeInv, NodeState
<1> HIDE DEF ext
<1>4. node' \in NodeState /\ node'.relay = node.relay
  BY <1>1, <1>3 DEF TypeInv, NodeState, ext
<1>5. task' \in Task
  <2>1. Rest(x) \in Ops /\ task \in Task
    BY RestType DEF TypeInv
  <2>2. CASE task' = [task EXCEPT !.todo = Rest(x)]
    BY <2>1, <2>2 DEF Task
  <2>3. CASE task' = [task EXCEPT !.todo = Rest(x), !.failed = @ \cup {x}]
    BY <2>1, <2>3 DEF Task
  <2>4. CASE task' = [task EXCEPT !.todo = Rest(x), !.fx.accept = @ \cup {x}]
    <3>1. [task.fx EXCEPT !.accept = @ \cup {x}] \in RouterFx
      BY <2>1 DEF Task, RouterFx
    <3>2. task' = [task EXCEPT !.todo = Rest(x), !.fx = [task.fx EXCEPT !.accept = @ \cup {x}]]
      BY <2>4
    <3> QED
      BY <2>1, <3>1, <3>2 DEF Task, RouterFx
  <2> QED
    BY <1>1, <2>2, <2>3, <2>4
<1>6. hints' \subseteq Log
  BY <1>1 DEF MayHint, TypeInv, LogOf, Log, Cell, ChannelOf, AuthorOf
<1>7. BudgetOK'
  BY <1>1, FailsType DEF TypeInv
<1> QED
  BY <1>2, <1>4, <1>5, <1>6, <1>7 DEF TypeInv

\* Receiving a Have preserves the types.
LEMMA HandlesHaveType == TypeInv /\ HandlesHave => TypeInv'
<1> SUFFICES ASSUME TypeInv, HandlesHave PROVE TypeInv'
  OBVIOUS
<1> DEFINE msg == task.cmd.msg
           res == RecvHave(node.router, msg.sender, msg.ops.cells)
<1>1. /\ node' = [node EXCEPT !.router = res.st]
      /\ task' = [task EXCEPT !.stage = "ingest", !.todo = msg.ops, !.fx = res.fx,
                              !.logs = LogsOf(msg.ops.cells)]
      /\ UNCHANGED <<cache, push, out, hints, budget, stale, deleted, wire>>
  BY DEF HandlesHave
<1>2. msg \in WireMessage /\ msg.ops \in Ops /\ msg.sender \in NodeId
  BY CommandFields, MessageFields DEF HandlesHave, CaughtUp, TypeInv, Task
<1>3. res.st \in RouterState /\ res.fx \in RouterFx
  BY <1>2, RecvHaveType, OpsTypes DEF TypeInv, NodeState
<1>4. LogsOf(msg.ops.cells) \subseteq Log
  BY <1>2, OpsTypes DEF LogsOf, LogOf, Log, Cell, ChannelOf, AuthorOf
<1> HIDE DEF msg, res
<1>5. node' \in NodeState /\ node'.relay = node.relay
  BY <1>1, <1>3 DEF TypeInv, NodeState
<1>6. task' \in Task
  BY <1>1, <1>2, <1>3, <1>4 DEF TypeInv, Task, RouterFx
<1> QED
  BY <1>1, <1>5, <1>6 DEF TypeInv, BudgetOK

\* The relay with one more op of the batch, and the usage tracked for it.
ParkedRelay(x) == Ingest(node.relay, Fetch(task.todo, {x}))

ParkedUnits(x) == Current + Usage(ParkedRelay(x)) - Usage(node.relay)

\* What parking one op does to the usage.
LEMMA ParkedUsage ==
    ASSUME TypeInv, NEW x
    PROVE  /\ ParkedRelay(x) \in Ops /\ IsFiniteSet(ParkedRelay(x).cells)
           /\ Usage(ParkedRelay(x)) \in Nat /\ Usage(node.relay) \in Nat
           /\ Usage(node.relay) <= Usage(ParkedRelay(x))
           /\ Current \in Nat /\ ParkedUnits(x) \in Nat
<1> DEFINE relay == ParkedRelay(x)
<1>1. node.relay \in Ops /\ relay \in Ops
  BY RestType, OpsTypes DEF TypeInv, NodeState, ParkedRelay
<1>2. node.relay.cells \subseteq relay.cells /\ node.relay.pay \subseteq relay.pay
  BY DEF Ingest, ParkedRelay
<1>3. IsFiniteSet(relay.cells)
  <2>1. IsFiniteSet({x}) /\ IsFiniteSet(node.relay.cells)
    BY FS_Singleton DEF TypeInv
  <2>2. IsFiniteSet(node.relay.cells \cup {x})
    BY <2>1, FS_Union
  <2>3. relay.cells \subseteq node.relay.cells \cup {x}
    BY DEF Ingest, Fetch, ParkedRelay
  <2> QED
    BY <2>2, <2>3, FS_Subset
<1>4. Usage(relay) \in Nat /\ Usage(node.relay) \in Nat /\ Usage(node.relay) <= Usage(relay)
  BY <1>1, <1>2, <1>3, UsageOfPart
<1>5. Current \in Nat
  BY <1>4 DEF Current, TypeInv, Task
<1>6. ParkedUnits(x) \in Nat
  <2>1. \A n, u, v \in Nat : u <= v => n + v - u \in Nat
    OBVIOUS
  <2> QED
    BY <1>4, <1>5, <2>1 DEF ParkedUnits
<1> QED
  BY <1>1, <1>3, <1>4, <1>5, <1>6

\* The outcomes of parking one op: it is kept, shed, or given up.
LEMMA ParksFacts ==
    ASSUME TypeInv, Parks
    PROVE  /\ task.stage = "ingest"
           /\ UNCHANGED <<cache, push, out, hints, stale, deleted, wire>>
           /\ Fails("relay") \/ UNCHANGED budget
           /\ \E x \in Cell :
                /\ First(x) /\ ~IsSubscribed(node, x)
                /\ \/ /\ ParkedUnits(x) <= Cap
                      /\ node' = [node EXCEPT !.relay = ParkedRelay(x)]
                      /\ task' = [task EXCEPT !.todo = Rest(x), !.usage = ParkedUnits(x)]
                   \/ node' = node /\ task' = [task EXCEPT !.todo = Rest(x), !.usage = Current]
                   \/ /\ \/ node' = node
                         \/ /\ ParkedUnits(x) <= Cap
                            /\ node' = [node EXCEPT !.relay = ParkedRelay(x)]
                      /\ task' = [task EXCEPT !.todo = Rest(x), !.usage = Unknown]
<1>1. PICK x \in Cell :
        /\ task.stage = "ingest" /\ First(x) /\ ~IsSubscribed(node, x)
        /\ \/ /\ ParkedUnits(x) <= Cap
              /\ node' = [node EXCEPT !.relay = ParkedRelay(x)]
              /\ task' = [task EXCEPT !.todo = Rest(x), !.usage = ParkedUnits(x)]
              /\ UNCHANGED budget
           \/ /\ ParkedUnits(x) > Cap
              /\ task' = [task EXCEPT !.todo = Rest(x), !.usage = Current]
              /\ UNCHANGED <<node, budget>>
           \/ ParkFails(x, IF ParkedUnits(x) <= Cap THEN ParkedRelay(x) ELSE node.relay)
        /\ UNCHANGED <<cache, push, out, hints, stale, deleted, wire>>
  BY Zenon DEF Parks, ParkedRelay, ParkedUnits
<1>2. CASE ParkFails(x, IF ParkedUnits(x) <= Cap THEN ParkedRelay(x) ELSE node.relay)
  <2>1. [node EXCEPT !.relay = node.relay] = node
    BY DEF TypeInv, NodeState
  <2>2. \/ node' = node
        \/ ParkedUnits(x) <= Cap /\ node' = [node EXCEPT !.relay = ParkedRelay(x)]
    BY <1>2, <2>1 DEF ParkFails
  <2> QED
    BY <1>1, <1>2, <2>2 DEF ParkFails
<1> QED
  BY <1>1, <1>2

\* Parking preserves the types.
LEMMA ParksType == TypeInv /\ Parks => TypeInv'
<1> SUFFICES ASSUME TypeInv, Parks PROVE TypeInv'
  OBVIOUS
<1>1. PICK x \in Cell :
        /\ node' = node \/ node' = [node EXCEPT !.relay = ParkedRelay(x)]
        /\ \E u \in {ParkedUnits(x), Current, Unknown} :
              task' = [task EXCEPT !.todo = Rest(x), !.usage = u]
  BY ParksFacts
<1>2. node' \in NodeState /\ IsFiniteSet(node'.relay.cells)
  BY <1>1, ParkedUsage DEF TypeInv, NodeState
<1>3. task' \in Task
  <2>1. PICK u \in {ParkedUnits(x), Current, Unknown} :
           task' = [task EXCEPT !.todo = Rest(x), !.usage = u]
    BY <1>1
  <2>2. u \in Nat \cup {Unknown}
    BY ParkedUsage
  <2>3. Rest(x) \in Ops /\ task \in Task
    BY RestType DEF TypeInv
  <2> QED
    BY <2>1, <2>2, <2>3 DEF Task
<1>4. BudgetOK'
  BY ParksFacts, FailsType DEF TypeInv
<1> QED
  BY <1>2, <1>3, <1>4, ParksFacts DEF TypeInv

\* The end of a batch, and what follows it, preserve the types.
LEMMA IngestedType == TypeInv /\ (Ingested \/ Routes \/ ReconcilesHint) => TypeInv'
<1> SUFFICES ASSUME TypeInv, Ingested \/ Routes \/ ReconcilesHint PROVE TypeInv'
  OBVIOUS
<1>1. CASE Ingested \/ ReconcilesHint
  <2>1. task' \in Task
    BY <1>1 DEF Ingested, ReconcilesHint, Goes, TypeInv, Task
  <2> QED
    BY <1>1, <2>1 DEF Ingested, ReconcilesHint, Goes, TypeInv, BudgetOK
<1>2. CASE Routes
  <2>1. PICK ops \in Ops :
           Hydrates(ops) /\ Ends([Said(ops) EXCEPT !.deliver = @ \cup Announced])
    BY <1>2 DEF Routes
  <2>2. Announced \subseteq Cell
    BY DEF Announced, TypeInv, Task
  <2>3. [Said(ops) EXCEPT !.deliver = @ \cup Announced] \in OutType
    <3>1. Said(ops) \in OutType
      BY SaidType DEF TypeInv
    <3> QED
      BY <2>2, <3>1 DEF OutType
  <2>4. BudgetOK'
    BY <2>1, FailsType DEF Hydrates, TypeInv
  <2> QED
    BY <1>2, <2>1, <2>3, <2>4, EndsType DEF Routes, TypeInv
<1> QED
  BY <1>1, <1>2

\* What follows reconciliation, by the command that asked for it.
LEMMA AfterReconcileFacts ==
    ASSUME TypeInv, NEW router \in RouterState, AfterReconcile(router)
    PROVE  /\ \/ node' = [node EXCEPT !.router = router]
              \/ \E i \in Intervals : node' = [node EXCEPT !.router = ArmWant(router, i)]
           /\ \/ push' = push
              \/ /\ task.cmd.kind = "append"
                 /\ push' = [cells |-> push.cells \cup {task.cmd.cell},
                             oldest |-> push.oldest, latest |-> 0]
           /\ \/ Ends(out)
              \/ /\ task.cmd.kind = "wire"
                 /\ task' = [task EXCEPT !.stage = "route", !.logs = {}]
                 /\ UNCHANGED <<out, wire>>
<1>1. CASE task.cmd.kind = "init"
  BY <1>1 DEF AfterReconcile
<1>2. CASE task.cmd.kind = "append"
  BY <1>2 DEF AfterReconcile
<1>3. CASE task.cmd.kind = "wire"
  BY <1>3 DEF AfterReconcile
<1>4. CASE task.cmd.kind \notin {"init", "append", "wire"}
  BY <1>4 DEF AfterReconcile
<1> QED
  BY <1>1, <1>2, <1>3, <1>4

\* The router and the two stores after it.
LEMMA ReconciledNode ==
    ASSUME TypeInv, NEW router \in RouterState, AfterReconcile(router)
    PROVE  /\ node' \in NodeState
           /\ node'.relay = node.relay /\ node'.ext = node.ext /\ node'.subs = node.subs
           /\ node'.router.held = router.held
           /\ SeenEntries(node'.router) = SeenEntries(router)
<1>1. CASE node' = [node EXCEPT !.router = router]
  BY <1>1 DEF TypeInv, NodeState
<1>2. CASE \E i \in Intervals : node' = [node EXCEPT !.router = ArmWant(router, i)]
  <2>1. PICK i \in Intervals : node' = [node EXCEPT !.router = ArmWant(router, i)]
    BY <1>2
  <2>2. i \in Nat
    BY ShellAssumption
  <2>3. /\ ArmWant(router, i) \in RouterState /\ ArmWant(router, i).held = router.held
        /\ SeenEntries(ArmWant(router, i)) = SeenEntries(router)
    BY <2>2, ArmTypes, SeenAfter
  <2> QED
    BY <2>1, <2>3 DEF TypeInv, NodeState
<1> QED
  BY <1>1, <1>2, AfterReconcileFacts

\* Reconciling, or failing to, preserves the types.
LEMMA ReconcilesType == TypeInv /\ (Reconciles \/ ReconcileFails) => TypeInv'
<1> SUFFICES ASSUME TypeInv, Reconciles \/ ReconcileFails PROVE TypeInv'
  OBVIOUS
<1>1. ASSUME NEW router \in RouterState, AfterReconcile(router)
      PROVE  /\ node' \in NodeState /\ IsFiniteSet(node'.relay.cells)
             /\ push' \in [cells : SUBSET Cell, oldest : Nat, latest : Nat]
             /\ task' \in Task /\ out' \in OutType
             /\ wire' \in [asked : SUBSET Entry, lost : SUBSET Entry]
  <2>1. node' \in NodeState /\ IsFiniteSet(node'.relay.cells)
    BY <1>1, ReconciledNode DEF TypeInv
  <2>2. push' \in [cells : SUBSET Cell, oldest : Nat, latest : Nat]
    <3>1. task.cmd.kind = "append" => task.cmd.cell \in Cell
      BY CommandFields, ShellAssumption DEF TypeInv, Task
    <3>2. push \in [cells : SUBSET Cell, oldest : Nat, latest : Nat]
      BY DEF TypeInv
    <3> QED
      BY <1>1, <3>1, <3>2, AfterReconcileFacts
  <2>3. CASE Ends(out)
    BY <2>1, <2>2, <2>3, EndsType DEF TypeInv
  <2>4. CASE task' = [task EXCEPT !.stage = "route", !.logs = {}] /\ UNCHANGED <<out, wire>>
    BY <2>1, <2>2, <2>4 DEF TypeInv, Task
  <2> QED
    BY <1>1, <2>3, <2>4, AfterReconcileFacts
<1>2. task.logs \subseteq Log
  BY DEF TypeInv, Task
<1>3. CASE Reconciles
  <2>1. HeldUnion(node) \subseteq Cell
    BY OpsTypes DEF TypeInv, NodeState, HeldUnion
  <2>2. cache' \in SUBSET Cell
    BY <1>3, <2>1 DEF Reconciles, Reconciled, Under, TypeInv
  <2>3. Held(node.router, cache') \in RouterState
    BY <2>2 DEF Held, TypeInv, NodeState, RouterState
  <2> QED
    BY <1>1, <1>3, <2>2, <2>3 DEF Reconciles, TypeInv, BudgetOK
<1>4. CASE ReconcileFails
  <2>1. BudgetOK'
    BY <1>4, FailsType DEF ReconcileFails, TypeInv
  <2>2. node.router \in RouterState
    BY DEF TypeInv, NodeState
  <2> QED
    BY <1>1, <1>2, <1>4, <2>1, <2>2 DEF ReconcileFails, TypeInv
<1> QED
  BY <1>3, <1>4

\* The log of a cell is a log.
LEMMA LogTypes ==
    /\ \A x \in Cell : LogOf(x) \in Log
    /\ \A R \in SUBSET Cell : LogsOf(R) \subseteq Log
BY DEF LogOf, LogsOf, Log, Cell, ChannelOf, AuthorOf

\* One op alone is a body.
LEMMA OneOp ==
    ASSUME TypeInv, NEW x \in Cell
    PROVE  Ingest(node.ext, [cells |-> {x}, pay |-> {x}]) \in Ops
<1>1. [cells |-> {x}, pay |-> {x}] \in Ops /\ node.ext \in Ops
  BY DEF Ops, TypeInv, NodeState
<1> QED
  BY <1>1, OpsTypes

\* Appending, or failing to, preserves the types.
LEMMA AppendsType == TypeInv /\ (Appends \/ AppendFails) => TypeInv'
<1> SUFFICES ASSUME TypeInv, Appends \/ AppendFails PROVE TypeInv'
  OBVIOUS
<1> DEFINE x == task.cmd.cell
           ext == Ingest(node.ext, [cells |-> {x}, pay |-> {x}])
<1>1. x \in Cell
  BY CommandFields, ShellAssumption DEF Appends, AppendFails, CaughtUp, TypeInv, Task
<1>2. ext \in Ops /\ LogOf(x) \in Log
  BY <1>1, OneOp, LogTypes
<1>3. node' \in {node, [node EXCEPT !.ext = ext]}
  BY DEF Appends, AppendFails
<1>4. node' \in NodeState /\ node'.relay = node.relay
  <2> HIDE DEF ext
  <2> QED
    BY <1>2, <1>3 DEF TypeInv, NodeState
<1>5. CASE Appends
  <2>1. task' \in Task
    BY <1>2, <1>5 DEF Appends, TypeInv, Task
  <2>2. hints' \subseteq Log
    BY <1>2, <1>5 DEF Appends, MayHint, TypeInv
  <2> QED
    BY <1>4, <1>5, <2>1, <2>2 DEF Appends, TypeInv, BudgetOK
<1>6. CASE AppendFails
  <2>1. IdleTask \in Task /\ NoOut \in OutType
    BY OpsTypes DEF IdleTask, Task, Command, NoFx, NoOut, OutType
  <2>2. wire' \in [asked : SUBSET Entry, lost : SUBSET Entry]
    <3>1. Asked(out.send) \subseteq Entry
      BY AskedTypes DEF TypeInv, OutType
    <3> QED
      BY <1>6, <3>1 DEF AppendFails, TypeInv
  <2>3. BudgetOK'
    BY <1>6, FailsType DEF AppendFails, TypeInv
  <2> QED
    BY <1>2, <1>4, <1>6, <2>1, <2>2, <2>3 DEF AppendFails, TypeInv
<1> QED
  BY <1>5, <1>6

\* The steps of a subscription preserve the types.
LEMMA SubscribesType == TypeInv /\ (Subscribes \/ Migrated \/ Unsubscribes) => TypeInv'
<1> SUFFICES ASSUME TypeInv, Subscribes \/ Migrated \/ Unsubscribes PROVE TypeInv'
  OBVIOUS
<1>0. /\ node \in NodeState /\ task \in Task
      /\ node.router \in RouterState /\ node.relay \in Ops /\ node.subs \subseteq Channel
  BY DEF TypeInv, NodeState
<1>1. CASE Subscribes
  <2>1. PICK listed \in SUBSET Cell, read \in SUBSET Cell :
          /\ task' = [task EXCEPT !.stage = "migrate", !.todo = Fetch(node.relay, read),
                                  !.logs = LogsOf(listed)]
          /\ Fails("relay") \/ UNCHANGED budget
    BY <1>1 DEF Subscribes
  <2>2. Fetch(node.relay, read) \in Ops /\ LogsOf(listed) \subseteq Log
    BY <1>0, OpsTypes, LogTypes
  <2>3. task' \in Task
    BY <1>0, <2>1, <2>2 DEF Task
  <2>4. task.cmd.channel \in Channel
    BY <1>0, <1>1, CommandFields DEF Subscribes, CaughtUp, Task
  <2>5. node' \in NodeState /\ node'.relay = node.relay
    BY <1>0, <1>1, <2>4 DEF Subscribes, NodeState
  <2>6. BudgetOK'
    BY <2>1, FailsType DEF TypeInv
  <2> QED
    BY <1>1, <2>3, <2>5, <2>6 DEF Subscribes, TypeInv
<1>2. CASE Migrated
  <2> DEFINE opened == [node EXCEPT !.router = Open(node.router, node.subs)]
  <2>1. opened \in NodeState /\ opened.relay = node.relay
    BY <1>0 DEF NodeState, Open, RouterState
  <2>2. node' \in {opened, [opened EXCEPT !.relay = Evict(@, Moved)]}
    BY <1>2 DEF Migrated
  <2>3. Evict(node.relay, Moved) \in Ops /\ IsFiniteSet(Evict(node.relay, Moved).cells)
    <3>1. Evict(node.relay, Moved).cells \subseteq node.relay.cells
      BY DEF Evict
    <3> QED
      BY <1>0, <3>1, OpsTypes, FS_Subset DEF TypeInv
  <2> HIDE DEF opened
  <2>4. node' \in NodeState /\ IsFiniteSet(node'.relay.cells)
    BY <2>1, <2>2, <2>3 DEF NodeState, TypeInv
  <2>5. task' \in Task
    BY <1>0, <1>2 DEF Migrated, Task, NoFx
  <2>6. BudgetOK'
    BY <1>2, FailsType DEF Migrated, TypeInv
  <2> QED
    BY <1>2, <2>4, <2>5, <2>6 DEF Migrated, TypeInv
<1>3. CASE Unsubscribes
  <2> DEFINE subs == node.subs \ {task.cmd.channel}
  <2>1. Open(node.router, subs) \in RouterState /\ subs \subseteq Channel
    BY <1>0 DEF Open, RouterState
  <2>2. node' = [node EXCEPT !.subs = subs, !.router = Open(node.router, subs)]
    BY <1>3 DEF Unsubscribes
  <2> HIDE DEF subs
  <2>3. node' \in NodeState /\ node'.relay = node.relay
    BY <1>0, <2>1, <2>2 DEF NodeState
  <2>4. task' \in Task
    BY <1>0, <1>3 DEF Unsubscribes, Task
  <2> QED
    BY <1>3, <2>3, <2>4 DEF Unsubscribes, TypeInv, BudgetOK
<1> QED
  BY <1>1, <1>2, <1>3

\* Maintenance preserves the types.
LEMMA MaintainsType == TypeInv /\ (EvictsPayloads \/ EvictsOps) => TypeInv'
<1> SUFFICES ASSUME TypeInv, EvictsPayloads \/ EvictsOps PROVE TypeInv'
  OBVIOUS
<1>0. /\ node \in NodeState /\ node.relay \in Ops /\ task \in Task /\ out \in OutType
  BY DEF TypeInv, NodeState
<1>1. CASE EvictsPayloads
  <2> DEFINE relay == EvictPayloads(node.relay, Unasked(node.relay.pay))
  <2>1. relay \in Ops /\ relay.cells = node.relay.cells
    BY <1>0, OpsTypes
  <2>2. node' = [node EXCEPT !.relay = relay] /\ Ends(out) /\ (Fails("relay") \/ UNCHANGED budget)
    BY <1>1 DEF EvictsPayloads
  <2> HIDE DEF relay
  <2>3. node' \in NodeState /\ IsFiniteSet(node'.relay.cells)
    BY <1>0, <2>1, <2>2 DEF NodeState, TypeInv
  <2>4. BudgetOK'
    BY <2>2, FailsType DEF TypeInv
  <2> QED
    BY <1>0, <1>1, <2>2, <2>3, <2>4, EndsType DEF EvictsPayloads, TypeInv
<1>2. CASE EvictsOps
  <2> DEFINE relay == Evict(node.relay, Unasked(node.relay.cells))
             logs == LogsOf(Unasked(node.relay.cells))
  <2>1. relay \in Ops /\ IsFiniteSet(relay.cells)
    <3>1. relay.cells \subseteq node.relay.cells
      BY DEF Evict
    <3> QED
      BY <1>0, <3>1, OpsTypes, FS_Subset DEF TypeInv
  <2>2. logs \subseteq Log
    BY <1>0, OpsTypes, LogTypes DEF Unasked
  <2>3. /\ node' = [node EXCEPT !.relay = relay]
        /\ \/ /\ task' = [task EXCEPT !.stage = "reconcile", !.logs = logs]
              /\ UNCHANGED <<out, budget, stale, wire>>
           \/ Fails("relay") /\ Ends(out) /\ stale' = stale \cup logs
    BY <1>2 DEF EvictsOps
  <2> HIDE DEF relay, logs
  <2>4. node' \in NodeState /\ IsFiniteSet(node'.relay.cells)
    BY <1>0, <2>1, <2>3 DEF NodeState
  <2>5. BudgetOK'
    BY <2>3, FailsType DEF TypeInv
  <2>6. CASE /\ task' = [task EXCEPT !.stage = "reconcile", !.logs = logs]
             /\ UNCHANGED <<out, budget, stale, wire>>
    <3>1. task' \in Task
      BY <1>0, <2>2, <2>6 DEF Task
    <3> QED
      BY <1>2, <2>4, <2>5, <2>6, <3>1 DEF EvictsOps, TypeInv
  <2>7. CASE Ends(out) /\ stale' = stale \cup logs
    BY <1>0, <1>2, <2>2, <2>4, <2>5, <2>7, EndsType DEF EvictsOps, TypeInv
  <2> QED
    BY <2>3, <2>6, <2>7
<1> QED
  BY <1>1, <1>2

\* What the application does preserves the types.
LEMMA AppType == TypeInv /\ (AppSyncs \/ AppDeletes) => TypeInv'
<1> SUFFICES ASSUME TypeInv, AppSyncs \/ AppDeletes PROVE TypeInv'
  OBVIOUS
<1>0. /\ node \in NodeState /\ node.ext \in Ops /\ node.ext.cells \subseteq Cell
  BY OpsTypes DEF TypeInv, NodeState
<1>1. PICK x \in Cell, ext \in Ops :
        /\ node' = [node EXCEPT !.ext = ext]
        /\ hints' = hints \cup {LogOf(x)}
        /\ deleted' \in {deleted, deleted \cup {x}}
  <2>1. CASE AppSyncs
    BY <2>1, OneOp DEF AppSyncs
  <2>2. CASE AppDeletes
    BY <1>0, <2>2, OpsTypes DEF AppDeletes
  <2> QED
    BY <2>1, <2>2
<1>2. node' \in NodeState /\ node'.relay = node.relay
  BY <1>0, <1>1 DEF NodeState
<1>3. hints' \subseteq Log
  BY <1>1, LogTypes DEF TypeInv
<1>4. BudgetOK'
  <2>1. "appChanges" \in Bounded
    BY DEF Bounded
  <2> QED
    BY <2>1, SpendType DEF AppSyncs, AppDeletes, TypeInv
<1> QED
  BY <1>1, <1>2, <1>3, <1>4 DEF AppSyncs, AppDeletes, TypeInv

\* Every step preserves the types.
LEMMA ShellNextType == TypeInv /\ [Next]_shellVars => TypeInv'
<1> SUFFICES ASSUME TypeInv, [Next]_shellVars PROVE TypeInv'
  OBVIOUS
<1>1. CASE BeginsCommand
  <2>1. PICK cmd \in Command : Begins(cmd)
    BY <1>1 DEF BeginsCommand
  <2> QED
    BY <1>1, <2>1, BeginsType DEF BeginsCommand, TypeInv
<1>2. CASE BeginsHint
  <2>1. \A logs \in SUBSET Log : [kind |-> "hint", logs |-> logs] \in Command
    BY DEF Command
  <2>2. \E logs \in SUBSET Log : Begins([kind |-> "hint", logs |-> logs])
    BY <1>2 DEF BeginsHint, TypeInv
  <2>3. hints' \subseteq Log
    BY <1>2 DEF BeginsHint, TypeInv
  <2> QED
    BY <2>1, <2>2, <2>3, BeginsType
<1>3. CASE UNCHANGED shellVars
  BY <1>3 DEF shellVars, TypeInv, BudgetOK
<1> QED
  BY <1>1, <1>2, <1>3, AdvancesType, SimpleEndsType, HandlesHaveType, IngestsType, ParksType,
     IngestedType, ReconcilesType, AppendsType, SubscribesType, MaintainsType, AppType
     DEF Next, HandlesWire, Maintains

\* The stores an earlier run left are well typed, and so is all else.
LEMMA ShellInitType == Init => TypeInv
<1> SUFFICES ASSUME Init PROVE TypeInv
  OBVIOUS
<1> USE TTLAssumption
<1>1. PICK subs \in SUBSET Channel, relay \in FoundRelay, ext \in FoundExt :
        node = [router |-> NewRouter({}, subs), relay |-> relay, ext |-> ext, subs |-> subs]
  BY DEF Init
<1>2. relay \in Ops /\ IsFiniteSet(relay.cells) /\ ext \in Ops
  BY ShellAssumption
<1>3. NewRouter({}, subs) \in RouterState
  <2>1. [n \in NodeId |-> NoRecord] \in HavesType
    BY DEF HavesType, NoRecord
  <2> QED
    BY <2>1 DEF NewRouter, RouterState, HavesType, NoTimer
<1>4. node \in NodeState /\ IsFiniteSet(node.relay.cells)
  BY <1>1, <1>2, <1>3 DEF NodeState
<1>5. task \in Task
  BY OpsTypes DEF Init, IdleTask, Task, Command, NoFx
<1>6. BudgetOK
  BY ShellAssumption DEF Init, BudgetOK
<1> QED
  BY <1>4, <1>5, <1>6 DEF Init, TypeInv, NoPush, NoOut, OutType

-----------------------------------------------------------------------------
\* The life of a command.

\* Ingesting one op into ext: it lands there, or it is known to have failed.
LEMMA IngestFacts ==
    ASSUME TypeInv, IngestsExt \/ Migrates
    PROVE  \E x \in task.todo.cells :
             LET ext == Ingest(node.ext, Fetch(task.todo, {x})) IN
             /\ MayHint(x)
             /\ UNCHANGED <<cache, push, out, stale, deleted, wire>>
             /\ task'.stage = task.stage /\ task'.cmd = task.cmd /\ task'.logs = task.logs
             /\ task'.usage = task.usage /\ task'.todo = Rest(x)
             /\ \/ /\ node' = [node EXCEPT !.ext = ext] /\ task'.failed = task.failed
                   /\ task'.fx.accept = IF task.stage = "migrate" THEN task.fx.accept \cup {x}
                                                                  ELSE task.fx.accept
                \/ /\ node' \in {node, [node EXCEPT !.ext = ext]}
                   /\ task'.failed = task.failed \cup {x}
                   /\ task'.fx.accept = task.fx.accept
<1>0. task \in Task
  BY DEF TypeInv
<1>1. CASE IngestsExt
  <2>1. PICK x \in Cell :
          LET ext == Ingest(node.ext, Fetch(task.todo, {x})) IN
          /\ task.stage = "ingest" /\ First(x)
          /\ MayHint(x)
          /\ \/ /\ node' = [node EXCEPT !.ext = ext]
                /\ task' = [task EXCEPT !.todo = Rest(x)]
             \/ /\ node' \in {node, [node EXCEPT !.ext = ext]}
                /\ task' = [task EXCEPT !.todo = Rest(x), !.failed = @ \cup {x}]
          /\ UNCHANGED <<cache, push, out, stale, deleted, wire>>
    BY <1>1 DEF IngestsExt
  <2>2. x \in task.todo.cells
    BY <2>1 DEF First
  <2>3. CASE task' = [task EXCEPT !.todo = Rest(x)]
    BY <1>0, <2>1, <2>2, <2>3 DEF Task
  <2>4. CASE task' = [task EXCEPT !.todo = Rest(x), !.failed = @ \cup {x}]
    BY <1>0, <2>1, <2>2, <2>4 DEF Task
  <2> QED
    BY <2>1, <2>3, <2>4
<1>2. CASE Migrates
  <2>1. PICK x \in Cell :
          LET ext == Ingest(node.ext, Fetch(task.todo, {x})) IN
          /\ task.stage = "migrate" /\ First(x)
          /\ MayHint(x)
          /\ \/ /\ node' = [node EXCEPT !.ext = ext]
                /\ task' = [task EXCEPT !.todo = Rest(x), !.fx.accept = @ \cup {x}]
             \/ /\ node' \in {node, [node EXCEPT !.ext = ext]}
                /\ task' = [task EXCEPT !.todo = Rest(x), !.failed = @ \cup {x}]
          /\ UNCHANGED <<cache, push, out, stale, deleted, wire>>
    BY <1>2 DEF Migrates
  <2>2. x \in task.todo.cells
    BY <2>1 DEF First
  <2>3. CASE /\ node' = [node EXCEPT !.ext = Ingest(node.ext, Fetch(task.todo, {x}))]
             /\ task' = [task EXCEPT !.todo = Rest(x), !.fx.accept = @ \cup {x}]
    <3>1. task' = [task EXCEPT !.todo = Rest(x),
                               !.fx = [task.fx EXCEPT !.accept = task.fx.accept \cup {x}]]
      BY <2>3
    <3>2. task'.fx.accept = task.fx.accept \cup {x}
      BY <1>0, <3>1 DEF Task
    <3>3. /\ task'.stage = task.stage /\ task'.cmd = task.cmd /\ task'.logs = task.logs
          /\ task'.usage = task.usage /\ task'.todo = Rest(x) /\ task'.failed = task.failed
      BY <1>0, <3>1 DEF Task
    <3> QED
      BY <2>1, <2>2, <2>3, <3>2, <3>3
  <2>4. CASE task' = [task EXCEPT !.todo = Rest(x), !.failed = @ \cup {x}]
    BY <1>0, <2>1, <2>2, <2>4 DEF Task
  <2> QED
    BY <2>1, <2>3, <2>4
<1> QED
  BY <1>1, <1>2

\* The idle task has settled everything.
LEMMA IdleStage ==
    ASSUME task' = IdleTask
    PROVE  StageInv' /\ BatchInv'
BY DEF StageInv, BatchInv, IdleTask, NoFx

\* Each stage of a command follows the ones it can follow.
LEMMA StageNext == TypeInv /\ StageInv /\ [Next]_shellVars => StageInv'
<1> SUFFICES ASSUME TypeInv, StageInv, [Next]_shellVars PROVE StageInv'
  OBVIOUS
<1> USE DEF StageInv
<1>0. task \in Task
  BY DEF TypeInv
<1>1. ASSUME NEW cmd, Begins(cmd) PROVE StageInv'
  BY <1>1 DEF Begins, IdleTask, NoFx
<1>2. ASSUME NEW o, Ends(o) PROVE StageInv'
  BY <1>2, IdleStage DEF Ends
<1>3. CASE FlushesPush
  BY <1>0, <1>3 DEF FlushesPush, Decides, Push, NoFx, Task
<1>4. CASE FiresWant
  BY <1>0, <1>4 DEF FiresWant, Decides, FireWant, NoFx, Task
<1>5. CASE FiresHave
  BY <1>0, <1>5 DEF FiresHave, Decides, FireHave, NoFx, Task
<1>6. CASE Answers \/ Ticks
  <2>1. CASE Answers
    <3>1. /\ task'.stage = "advance" /\ task'.cmd = task.cmd /\ task'.logs = task.logs
          /\ task'.fx = NoFx /\ task.stage = "answer"
      BY <1>0, <2>1 DEF Answers, Task
    <3> QED
      BY <3>1 DEF NoFx
  <2>2. CASE Ticks
    BY <2>2 DEF Ticks
  <2> QED
    BY <1>6, <2>1, <2>2
<1>7. CASE HandlesHave
  <2>1. task'.stage = "ingest" /\ task'.cmd = task.cmd /\ task.cmd.kind = "wire"
    BY <1>0, <1>7 DEF HandlesHave, CaughtUp, Task
  <2> QED
    BY <2>1
<1>8. CASE IngestsExt \/ Migrates
  <2>1. task'.stage = task.stage /\ task'.cmd = task.cmd /\ task.stage \in {"ingest", "migrate"}
    BY <1>0, <1>8 DEF IngestsExt, Migrates, Task
  <2> QED
    BY <2>1
<1>9. CASE Parks
  <2>1. task'.stage = task.stage /\ task'.cmd = task.cmd /\ task.stage = "ingest"
    BY <1>0, <1>9, ParksFacts DEF Task
  <2> QED
    BY <2>1
<1>10. CASE Ingested \/ ReconcilesHint
  BY <1>0, <1>10 DEF Ingested, ReconcilesHint, Goes, Task
<1>11. CASE Reconciles \/ ReconcileFails
  <2>1. \E router : AfterReconcile(router)
    BY <1>11 DEF Reconciles, ReconcileFails
  <2>2. \/ task' = IdleTask
        \/ task.cmd.kind = "wire" /\ task' = [task EXCEPT !.stage = "route", !.logs = {}]
    BY <2>1 DEF AfterReconcile, Ends
  <2> QED
    BY <1>0, <2>2, IdleStage DEF Task
<1>12. CASE Appends \/ AppendFails
  BY <1>0, <1>12, IdleStage DEF Appends, AppendFails, CaughtUp, Task
<1>13. CASE Subscribes \/ Migrated \/ Unsubscribes
  BY <1>0, <1>13 DEF Subscribes, Migrated, Unsubscribes, CaughtUp, Task
<1>14. CASE EvictsOps
  BY <1>0, <1>2, <1>14 DEF EvictsOps, Task
<1>15. CASE AppSyncs \/ AppDeletes \/ UNCHANGED shellVars
  BY <1>15 DEF AppSyncs, AppDeletes, shellVars
<1> QED
  BY <1>1, <1>2, <1>3, <1>4, <1>5, <1>6, <1>7, <1>8, <1>9, <1>10, <1>11, <1>12, <1>13, <1>14,
     <1>15 DEF Next, Advances, HandlesWire, Maintains, BeginsCommand, BeginsHint, EndsTimer,
               HandlesWant, Routes, MaintainsNothing, EvictsPayloads

\* What a command has still to store is in logs it has still to reconcile.
LEMMA BatchNext == TypeInv /\ StageInv /\ BatchInv /\ [Next]_shellVars => BatchInv'
<1> SUFFICES ASSUME TypeInv, StageInv, BatchInv, [Next]_shellVars PROVE BatchInv'
  OBVIOUS
<1> USE DEF BatchInv
<1>0. task \in Task
  BY DEF TypeInv
<1>1. CASE task'.stage \notin {"ingest", "migrate"}
  BY <1>1
<1>2. CASE HandlesHave
  BY <1>0, <1>2 DEF HandlesHave, Task
<1>3. CASE IngestsExt \/ Migrates
  <2>1. PICK x \in task.todo.cells :
          /\ task'.stage = task.stage /\ task'.logs = task.logs
          /\ task'.todo = Rest(x)
          /\ task'.fx.accept \subseteq task.fx.accept \cup {x}
    BY <1>3, IngestFacts
  <2>2. task'.todo.cells \subseteq task.todo.cells
    BY <2>1, RestType
  <2>3. /\ task.stage \in {"ingest", "migrate"} => LogsOf(task'.todo.cells) \subseteq task.logs
        /\ task.stage = "migrate" => LogsOf(task'.fx.accept) \subseteq task.logs
    BY <2>1, <2>2 DEF LogsOf
  <2> QED
    BY <2>1, <2>3 DEF LogsOf
<1>4. CASE Parks
  <2>1. PICK x : /\ task'.stage = task.stage /\ task'.logs = task.logs /\ task.stage = "ingest"
                 /\ task'.todo = Rest(x)
    BY <1>0, <1>4, ParksFacts DEF Task
  <2>2. task'.todo.cells \subseteq task.todo.cells
    BY <2>1, RestType
  <2> QED
    BY <2>1, <2>2 DEF LogsOf
<1>5. CASE Subscribes
  <2>1. PICK listed \in SUBSET Cell, read \in SUBSET Cell :
          /\ read \subseteq listed
          /\ task' = [task EXCEPT !.stage = "migrate", !.todo = Fetch(node.relay, read),
                                  !.logs = LogsOf(listed)]
    BY <1>5 DEF Subscribes
  <2>2. task.fx.accept = {}
    BY <1>5 DEF StageInv, Subscribes, CaughtUp
  <2> QED
    BY <1>0, <2>1, <2>2 DEF Task, LogsOf, Fetch
<1>6. ASSUME NEW o, Ends(o) PROVE BatchInv'
  BY <1>6, IdleStage DEF Ends
<1>7. CASE AppSyncs \/ AppDeletes \/ UNCHANGED shellVars
  BY <1>7 DEF AppSyncs, AppDeletes, shellVars
<1>8. CASE Advances
  <2>1. task'.stage \in {"advance", "answer"}
    BY <1>0, <1>8 DEF Advances, FlushesPush, FiresWant, FiresHave, Answers, Ticks, Decides, Task
  <2> QED
    BY <1>1, <2>1
<1>9. CASE Reconciles \/ ReconcileFails
  <2>1. \E router : AfterReconcile(router)
    BY <1>9 DEF Reconciles, ReconcileFails
  <2>2. \/ task' = IdleTask
        \/ task.cmd.kind = "wire" /\ task' = [task EXCEPT !.stage = "route", !.logs = {}]
    BY <2>1 DEF AfterReconcile, Ends
  <2> QED
    BY <1>0, <1>1, <2>2, IdleStage DEF Task
<1>10. CASE Ingested \/ ReconcilesHint \/ Appends \/ Migrated \/ Unsubscribes
  BY <1>0, <1>1, <1>10 DEF Ingested, ReconcilesHint, Goes, Appends, Migrated, Unsubscribes, Task
<1>11. CASE AppendFails
  BY <1>11, IdleStage DEF AppendFails
<1>12. CASE BeginsCommand \/ BeginsHint
  <2>1. task'.stage = "advance"
    BY <1>12 DEF BeginsCommand, BeginsHint, Begins, IdleTask
  <2> QED
    BY <1>1, <2>1
<1>13. CASE EvictsOps
  BY <1>0, <1>1, <1>6, <1>13 DEF EvictsOps, Task
<1> QED
  BY <1>2, <1>3, <1>4, <1>5, <1>6, <1>7, <1>8, <1>9, <1>10, <1>11, <1>12, <1>13
     DEF Next, HandlesWire, Maintains, EndsTimer, HandlesWant, Routes, MaintainsNothing,
         EvictsPayloads

-----------------------------------------------------------------------------
\* What the steps do to the node.

\* Timers and Wants touch nothing that the node holds.
LEMMA RouterSteps ==
    ASSUME TypeInv, FiresWant \/ FiresHave \/ Ticks \/ HandlesWant
    PROVE  /\ node'.relay = node.relay /\ node'.ext = node.ext /\ node'.subs = node.subs
           /\ node'.router.held = node.router.held
<1>0. node.router \in RouterState /\ node \in NodeState /\ Id \in NodeId
  BY ShellAssumption DEF TypeInv, NodeState
<1>1. \E r : node' = [node EXCEPT !.router = r] /\ r.held = node.router.held
  <2>1. CASE FiresWant
    <3>1. PICK i \in Intervals : node' = [node EXCEPT !.router = ArmWant(FireWant(node.router).st, i)]
      BY <2>1 DEF FiresWant, Decides, FireWant
    <3>2. i \in Nat
      BY ShellAssumption
    <3>3. ArmWant(FireWant(node.router).st, i).held = node.router.held
      BY <1>0, <3>2, FireWantType, ArmTypes
    <3> QED
      BY <3>1, <3>3
  <2>2. CASE FiresHave
    <3>1. PICK i \in Intervals :
            node' = [node EXCEPT !.router = Rearmed(FireHave(node.router, Id).st, i)]
      BY <2>2 DEF FiresHave, Decides, FireHave
    <3>2. i \in Nat
      BY ShellAssumption
    <3>3. Rearmed(FireHave(node.router, Id).st, i).held = node.router.held
      BY <1>0, <3>2, FireHaveType, ArmTypes DEF Rearmed
    <3> QED
      BY <3>1, <3>3
  <2>3. CASE Ticks
    <3>1. node' = [node EXCEPT !.router = Tick(node.router, 1)]
      BY <2>3 DEF Ticks
    <3>2. Tick(node.router, 1).held = node.router.held
      BY <1>0 DEF Tick, RouterState
    <3> QED
      BY <3>1, <3>2
  <2>4. CASE HandlesWant
    <3>1. PICK i \in Intervals :
            node' = [node EXCEPT !.router =
                        Rearmed(RecvWant(node.router, task.cmd.msg.interest).st, i)]
      BY <2>4 DEF HandlesWant
    <3>2. i \in Nat
      BY ShellAssumption
    <3>3. task.cmd.msg.interest \subseteq Entry
      BY <2>4, CommandFields, MessageFields DEF HandlesWant, CaughtUp, TypeInv, Task
    <3>4. Rearmed(RecvWant(node.router, task.cmd.msg.interest).st, i).held = node.router.held
      BY <1>0, <3>2, <3>3, RecvWantType, ArmTypes DEF Rearmed
    <3> QED
      BY <3>1, <3>4
  <2> QED
    BY <2>1, <2>2, <2>3, <2>4
<1> QED
  BY <1>0, <1>1 DEF NodeState

\* A flushed push claims its cells, a received Have those of its body.
LEMMA ClaimSteps ==
    ASSUME TypeInv, FlushesPush \/ HandlesHave
    PROVE  /\ node'.relay = node.relay /\ node'.ext = node.ext /\ node'.subs = node.subs
           /\ FlushesPush => node'.router.held = node.router.held \cup push.cells
           /\ HandlesHave => node'.router.held = node.router.held \cup task.cmd.msg.ops.cells
<1>0. node.router \in RouterState /\ node \in NodeState
  BY DEF TypeInv, NodeState
<1>1. CASE FlushesPush
  <2>1. node' = [node EXCEPT !.router = Push(node.router, Id, push.cells).st]
    BY <1>1 DEF FlushesPush, Decides
  <2>2. Push(node.router, Id, push.cells).st.held = node.router.held \cup push.cells
    BY <1>0 DEF Push, RouterState
  <2>3. ~HandlesHave
    BY <1>1 DEF FlushesPush, HandlesHave, CaughtUp, NothingDue
  <2> QED
    BY <1>0, <2>1, <2>2, <2>3 DEF NodeState
<1>2. CASE HandlesHave
  <2> DEFINE res == RecvHave(node.router, task.cmd.msg.sender, task.cmd.msg.ops.cells)
  <2>1. node' = [node EXCEPT !.router = res.st]
    BY <1>2 DEF HandlesHave
  <2>2. res.st.held = node.router.held \cup task.cmd.msg.ops.cells
    BY <1>0 DEF RecvHave, RouterState
  <2>3. ~FlushesPush
    BY <1>2 DEF FlushesPush, HandlesHave, CaughtUp, NothingDue
  <2> HIDE DEF res
  <2> QED
    BY <1>0, <2>1, <2>2, <2>3 DEF NodeState
<1> QED
  BY <1>1, <1>2

\* Opening channels touches nothing that the node holds.
LEMMA OpenSteps ==
    ASSUME TypeInv, Subscribes \/ Unsubscribes
    PROVE  /\ node'.relay = node.relay /\ node'.ext = node.ext
           /\ node'.router.held = node.router.held
<1>0. node.router \in RouterState /\ node \in NodeState
  BY DEF TypeInv, NodeState
<1>1. \A C : Open(node.router, C).held = node.router.held
  BY <1>0 DEF Open, RouterState
<1>2. CASE Subscribes
  BY <1>0, <1>2 DEF Subscribes, NodeState
<1>3. CASE Unsubscribes
  BY <1>0, <1>1, <1>3 DEF Unsubscribes, NodeState
<1> QED
  BY <1>2, <1>3

\* What has moved leaves the relay, or the relay fails and it stays.
LEMMA MigratedNode ==
    ASSUME TypeInv, Migrated
    PROVE  /\ node'.relay \in {node.relay, Evict(node.relay, task.fx.accept)}
           /\ node'.ext = node.ext /\ node'.subs = node.subs
           /\ node'.router.held = node.router.held
<1>0. node.router \in RouterState /\ node \in NodeState
  BY DEF TypeInv, NodeState
<1>1. Open(node.router, node.subs).held = node.router.held
  BY <1>0 DEF Open, RouterState
<1> QED
  BY <1>0, <1>1 DEF Migrated, Moved, NodeState

\* Steps of the stores leave the router and the subscriptions alone.
LEMMA StoreSteps ==
    ASSUME TypeInv, \/ IngestsExt \/ Parks \/ Migrates \/ Appends \/ AppendFails
                    \/ EvictsPayloads \/ EvictsOps \/ AppSyncs \/ AppDeletes
    PROVE  node'.router = node.router /\ node'.subs = node.subs
<1>0. node \in NodeState
  BY DEF TypeInv
<1>1. CASE IngestsExt \/ Migrates
  BY <1>0, <1>1, IngestFacts DEF NodeState
<1>2. CASE Parks
  BY <1>0, <1>2, ParksFacts DEF NodeState
<1>3. CASE Appends \/ AppendFails
  BY <1>0, <1>3 DEF Appends, AppendFails, NodeState
<1>4. CASE EvictsPayloads \/ EvictsOps
  BY <1>0, <1>4 DEF EvictsPayloads, EvictsOps, NodeState
<1>5. CASE AppSyncs \/ AppDeletes
  BY <1>0, <1>5 DEF AppSyncs, AppDeletes, NodeState
<1> QED
  BY <1>1, <1>2, <1>3, <1>4, <1>5

\* Steps that leave the whole node alone.
LEMMA IdleSteps ==
    ASSUME \/ BeginsCommand \/ BeginsHint \/ Answers \/ EndsTimer \/ Ingested \/ Routes
           \/ ReconcilesHint \/ MaintainsNothing \/ UNCHANGED shellVars
    PROVE  node' = node
BY DEF BeginsCommand, BeginsHint, Begins, Answers, EndsTimer, Ingested, Routes, ReconcilesHint,
       MaintainsNothing, shellVars

\* Reconciling leaves the stores alone: the router follows the cache, or knows
\* what it knew.  Then the command ends, or a Have is routed.
LEMMA ReconcileSteps ==
    ASSUME TypeInv, Reconciles \/ ReconcileFails
    PROVE  /\ node'.relay = node.relay /\ node'.ext = node.ext /\ node'.subs = node.subs
           /\ SeenEntries(node'.router) = SeenEntries(node.router)
           /\ Reconciles => node'.router.held = cache'
           /\ ReconcileFails => node'.router.held = node.router.held
           /\ \/ push' = push
              \/ /\ task.cmd.kind = "append"
                 /\ push' = [cells |-> push.cells \cup {task.cmd.cell},
                             oldest |-> push.oldest, latest |-> 0]
           /\ \/ Ends(out)
              \/ /\ task.cmd.kind = "wire"
                 /\ task' = [task EXCEPT !.stage = "route", !.logs = {}]
                 /\ UNCHANGED <<out, wire>>
<1>0. node.router \in RouterState
  BY DEF TypeInv, NodeState
<1>1. CASE Reconciles
  <2>1. cache' \subseteq Cell
    BY <1>1, ReconcilesType DEF TypeInv
  <2>2. /\ Held(node.router, cache') \in RouterState
        /\ Held(node.router, cache').held = cache'
    BY <1>0, <2>1 DEF Held, RouterState
  <2>3. SeenEntries(Held(node.router, cache')) = SeenEntries(node.router)
    BY <1>0, SeenAfter
  <2>4. AfterReconcile(Held(node.router, cache'))
    BY <1>1 DEF Reconciles
  <2>5. ReconcileFails => cache' = cache
    BY DEF ReconcileFails
  <2>6. CASE ~ReconcileFails
    BY <2>2, <2>3, <2>4, <2>6, ReconciledNode, AfterReconcileFacts
  <2>7. CASE ReconcileFails
    <3>1. AfterReconcile(node.router)
      BY <2>7 DEF ReconcileFails
    <3> QED
      BY <1>0, <2>2, <2>3, <2>4, <3>1, ReconciledNode, AfterReconcileFacts
  <2> QED
    BY <2>6, <2>7
<1>2. CASE ~Reconciles /\ ReconcileFails
  <2>1. AfterReconcile(node.router)
    BY <1>2 DEF ReconcileFails
  <2> QED
    BY <1>0, <1>2, <2>1, ReconciledNode, AfterReconcileFacts
<1> QED
  BY <1>1, <1>2

\* Nothing leaves ext but what the application deletes.
LEMMA ExtKeeps ==
    ASSUME TypeInv, [Next]_shellVars
    PROVE  /\ deleted \subseteq deleted'
           /\ node.ext.cells \ deleted' \subseteq node'.ext.cells
           /\ node.ext.pay \ deleted' \subseteq node'.ext.pay
<1>0. node \in NodeState
  BY DEF TypeInv
<1>1. deleted \subseteq deleted'
  BY DEF Next, Advances, HandlesWire, Maintains, BeginsCommand, BeginsHint, Begins, FlushesPush,
         FiresWant, FiresHave, Answers, Ticks, EndsTimer, HandlesWant, HandlesHave, IngestsExt,
         Parks, Ingested, Routes, Reconciles, ReconcileFails, ReconcilesHint, Appends,
         AppendFails, Subscribes, Migrates, Migrated, Unsubscribes, MaintainsNothing,
         EvictsPayloads, EvictsOps, AppSyncs, AppDeletes, shellVars
<1>2. CASE IngestsExt \/ Migrates
  <2>1. PICK x : node' = node \/ node' = [node EXCEPT !.ext = Ingest(node.ext, Fetch(task.todo, {x}))]
    BY <1>2, IngestFacts
  <2> QED
    BY <1>0, <1>1, <2>1 DEF NodeState, Ingest
<1>3. CASE Appends \/ AppendFails
  <2>1. PICK x : node' = node \/ node' = [node EXCEPT !.ext = Ingest(node.ext, [cells |-> {x}, pay |-> {x}])]
    BY <1>3 DEF Appends, AppendFails
  <2> QED
    BY <1>0, <1>1, <2>1 DEF NodeState, Ingest
<1>4. CASE AppSyncs
  BY <1>0, <1>4 DEF AppSyncs, NodeState, Ingest
<1>5. CASE AppDeletes
  BY <1>0, <1>5 DEF AppDeletes, NodeState, Evict
<1>6. CASE Parks \/ EvictsPayloads \/ EvictsOps
  BY <1>0, <1>6, ParksFacts DEF EvictsPayloads, EvictsOps, NodeState
<1> QED
  BY <1>1, <1>2, <1>3, <1>4, <1>5, <1>6, IdleSteps, RouterSteps, ClaimSteps, OpenSteps,
     MigratedNode, ReconcileSteps DEF Next, Advances, HandlesWire, Maintains

\* Only commands about subscriptions change them.
LEMMA SubsKept ==
    ASSUME TypeInv, [Next]_shellVars, ~Subscribes, ~Unsubscribes
    PROVE  node'.subs = node.subs
BY IdleSteps, RouterSteps, ClaimSteps, MigratedNode, ReconcileSteps, StoreSteps
   DEF Next, Advances, HandlesWire, Maintains

-----------------------------------------------------------------------------
\* RelayWithinCap and PushWithinLatency.

\* Steps other than parking only take from the relay, and forget the usage or
\* leave it.
LEMMA RelayShrinks ==
    ASSUME TypeInv, [Next]_shellVars, ~Parks
    PROVE  /\ node'.relay.cells \subseteq node.relay.cells
           /\ node'.relay.pay \subseteq node.relay.pay
           /\ task'.usage \in {Unknown, task.usage}
<1>0. task \in Task /\ node \in NodeState
  BY DEF TypeInv
<1>1. ASSUME NEW o, Ends(o) PROVE task'.usage = Unknown
  BY <1>1 DEF Ends, IdleTask
<1>2. ASSUME NEW cmd, Begins(cmd) PROVE task'.usage = Unknown
  BY <1>2 DEF Begins, IdleTask
<1>3. CASE BeginsCommand \/ BeginsHint
  BY <1>2, <1>3, IdleSteps DEF BeginsCommand, BeginsHint
<1>4. CASE FlushesPush \/ FiresWant \/ FiresHave
  <2>1. task'.usage = task.usage
    BY <1>0, <1>4 DEF FlushesPush, FiresWant, FiresHave, Decides, Task
  <2> QED
    BY <1>4, <2>1, RouterSteps, ClaimSteps
<1>5. CASE Answers \/ Ingested \/ ReconcilesHint
  <2>1. task'.usage = task.usage
    BY <1>0, <1>5 DEF Answers, Ingested, ReconcilesHint, Goes, Task
  <2> QED
    BY <1>5, <2>1, IdleSteps
<1>6. CASE Ticks
  BY <1>6, RouterSteps DEF Ticks
<1>7. CASE HandlesWant
  BY <1>1, <1>7, RouterSteps DEF HandlesWant
<1>8. CASE EndsTimer \/ Routes \/ MaintainsNothing
  BY <1>1, <1>8, IdleSteps DEF EndsTimer, Routes, MaintainsNothing
<1>9. CASE HandlesHave
  <2>1. task'.usage = task.usage
    BY <1>0, <1>9 DEF HandlesHave, Task
  <2> QED
    BY <1>9, <2>1, ClaimSteps
<1>10. CASE IngestsExt \/ Migrates
  <2>1. node'.relay = node.relay /\ task'.usage = task.usage
    BY <1>0, <1>10, IngestFacts DEF NodeState
  <2> QED
    BY <2>1
<1>11. CASE Reconciles \/ ReconcileFails
  <2>1. task'.usage \in {Unknown, task.usage}
    BY <1>0, <1>1, <1>11, ReconcileSteps DEF Task
  <2> QED
    BY <1>11, <2>1, ReconcileSteps
<1>12. CASE Appends \/ AppendFails
  <2>1. node'.relay = node.relay
    BY <1>0, <1>12 DEF Appends, AppendFails, NodeState
  <2>2. Appends => task'.usage = task.usage
    BY <1>0 DEF Appends, Task
  <2>3. AppendFails => task'.usage = Unknown
    BY DEF AppendFails, IdleTask
  <2> QED
    BY <1>12, <2>1, <2>2, <2>3
<1>13. CASE Subscribes \/ Unsubscribes
  <2>1. task'.usage = task.usage
    BY <1>0, <1>13 DEF Subscribes, Unsubscribes, Task
  <2> QED
    BY <1>13, <2>1, OpenSteps
<1>14. CASE Migrated
  <2>1. task'.usage = task.usage
    BY <1>0, <1>14 DEF Migrated, Task
  <2> QED
    BY <1>14, <2>1, MigratedNode DEF Evict
<1>15. CASE EvictsPayloads \/ EvictsOps
  <2>1. /\ node'.relay.cells \subseteq node.relay.cells
        /\ node'.relay.pay \subseteq node.relay.pay
    <3>1. node'.relay \in {EvictPayloads(node.relay, Unasked(node.relay.pay)),
                           Evict(node.relay, Unasked(node.relay.cells))}
      BY <1>0, <1>15 DEF EvictsPayloads, EvictsOps, NodeState
    <3> QED
      BY <1>0, <3>1 DEF Evict, EvictPayloads, NodeState, Ops
  <2>2. task'.usage \in {Unknown, task.usage}
    BY <1>0, <1>1, <1>15 DEF EvictsPayloads, EvictsOps, Task
  <2> QED
    BY <2>1, <2>2
<1>16. CASE AppSyncs \/ AppDeletes
  BY <1>0, <1>16 DEF AppSyncs, AppDeletes, NodeState
<1>17. CASE UNCHANGED shellVars
  BY <1>17 DEF shellVars
<1> QED
  BY <1>3, <1>4, <1>5, <1>6, <1>7, <1>8, <1>9, <1>10, <1>11, <1>12, <1>13, <1>14, <1>15, <1>16,
     <1>17 DEF Next, Advances, HandlesWire, Maintains

\* The tracked usage never under-counts, whichever calls fail.
LEMMA CapNext == TypeInv /\ RelayWithinCap /\ [Next]_shellVars => RelayWithinCap'
<1> SUFFICES ASSUME TypeInv, RelayWithinCap, [Next]_shellVars PROVE RelayWithinCap'
  OBVIOUS
<1>1. CASE ~Parks
  <2>1. /\ node.relay \in Ops /\ node'.relay \in Ops /\ IsFiniteSet(node.relay.cells)
        /\ task.usage \in Nat \cup {Unknown}
    BY ShellNextType DEF TypeInv, NodeState, Task
  <2>2. /\ Usage(node'.relay) \in Nat /\ Usage(node.relay) \in Nat
        /\ Usage(node'.relay) <= Usage(node.relay)
    BY <1>1, <2>1, RelayShrinks, UsageOfPart
  <2>3. \A m, n, c \in Nat : m <= n /\ n <= c => m <= c
    OBVIOUS
  <2>4. Usage(node'.relay) <= Cap
    BY <2>2, <2>3, CapAssumption DEF RelayWithinCap
  <2>5. task'.usage # Unknown => Usage(node'.relay) <= task'.usage
    BY <1>1, <2>1, <2>2, <2>3, RelayShrinks DEF RelayWithinCap
  <2> QED
    BY <2>4, <2>5 DEF RelayWithinCap, Usage
<1>2. CASE Parks
  <2>1. PICK x \in Cell :
          \/ /\ ParkedUnits(x) <= Cap
             /\ node' = [node EXCEPT !.relay = ParkedRelay(x)]
             /\ task' = [task EXCEPT !.todo = Rest(x), !.usage = ParkedUnits(x)]
          \/ node' = node /\ task' = [task EXCEPT !.todo = Rest(x), !.usage = Current]
          \/ /\ \/ node' = node
                \/ /\ ParkedUnits(x) <= Cap
                   /\ node' = [node EXCEPT !.relay = ParkedRelay(x)]
             /\ task' = [task EXCEPT !.todo = Rest(x), !.usage = Unknown]
    BY <1>2, ParksFacts
  <2>2. Usage(node.relay) <= Current
    <3>1. Usage(node.relay) \in Nat
      BY ParkedUsage
    <3> QED
      BY <3>1 DEF Current, RelayWithinCap
  <2>3. Usage(ParkedRelay(x)) <= ParkedUnits(x)
    <3>1. \A n, u, v \in Nat : u <= n => v <= n + v - u
      OBVIOUS
    <3> QED
      BY <2>2, <3>1, ParkedUsage DEF ParkedUnits
  <2>4. node \in NodeState /\ task \in Task
    BY DEF TypeInv
  <2>5. \A m, n, c \in Nat : m <= n /\ n <= c => m <= c
    OBVIOUS
  <2>6. ParkedUnits(x) <= Cap => Usage(ParkedRelay(x)) <= Cap
    BY <2>3, <2>5, ParkedUsage, CapAssumption
  <2>7. Usage(node'.relay) <= Cap
    BY <2>1, <2>4, <2>6 DEF RelayWithinCap, NodeState
  <2>8. task'.usage # Unknown => Usage(node'.relay) <= task'.usage
    BY <2>1, <2>2, <2>3, <2>4 DEF Task, NodeState
  <2> QED
    BY <2>7, <2>8 DEF RelayWithinCap, Usage
<1> QED
  BY <1>1, <1>2

\* A push does not wait longer than its latency: time passes only while it is
\* not due.
LEMMA PushNext == TypeInv /\ PushInv /\ [Next]_shellVars => PushInv'
<1> SUFFICES ASSUME TypeInv, PushInv, [Next]_shellVars PROVE PushInv'
  OBVIOUS
<1> USE DEF PushInv, PushWithinLatency
<1>0. push \in [cells : SUBSET Cell, oldest : Nat, latest : Nat] /\ MaxLatency \in Nat
  BY ShellAssumption DEF TypeInv
<1>1. CASE UNCHANGED push
  BY <1>1
<1>2. CASE FlushesPush
  BY <1>2 DEF FlushesPush, NoPush
<1>3. CASE Ticks
  <2>1. CASE push.cells = {}
    BY <1>3, <2>1 DEF Ticks, NoPush
  <2>2. CASE push.cells # {}
    <3>1. /\ push'.cells = push.cells /\ push'.oldest = push.oldest + 1
      BY <1>0, <1>3, <2>2 DEF Ticks
    <3>2. ~(push.oldest >= MaxLatency)
      BY <1>3, <2>2 DEF Ticks, NothingDue, FlushDue
    <3> QED
      BY <1>0, <2>2, <3>1, <3>2
  <2> QED
    BY <2>1, <2>2
<1>4. CASE Reconciles \/ ReconcileFails
  <2>1. \E router : AfterReconcile(router)
    BY <1>4 DEF Reconciles, ReconcileFails
  <2>2. \/ UNCHANGED push
        \/ push' = [cells |-> push.cells \cup {task.cmd.cell}, oldest |-> push.oldest,
                    latest |-> 0]
    BY <2>1 DEF AfterReconcile
  <2> QED
    BY <1>0, <1>1, <2>2
<1> QED
  BY <1>1, <1>2, <1>3, <1>4
     DEF Next, Advances, HandlesWire, Maintains, BeginsCommand, BeginsHint, Begins, FiresWant,
         FiresHave, Answers, EndsTimer, HandlesWant, HandlesHave, IngestsExt, Parks, Ingested,
         Routes, ReconcilesHint, Appends, AppendFails, Subscribes, Migrates, Migrated,
         Unsubscribes, MaintainsNothing, EvictsPayloads, EvictsOps, AppSyncs, AppDeletes,
         shellVars

-----------------------------------------------------------------------------
\* DeliveredInExt.

\* How a command comes to reconcile.
LEMMA ReconcileEntry ==
    ASSUME TypeInv, StageInv, [Next]_shellVars, task'.stage = "reconcile"
    PROVE  \/ task' = task /\ (AppSyncs \/ AppDeletes \/ UNCHANGED shellVars)
           \/ /\ task'.cmd = task.cmd
              /\ \/ Ingested /\ task.cmd.kind = "wire" /\ task'.todo = task.todo
                              /\ task'.failed = task.failed
                 \/ Appends /\ task.cmd.kind = "append"
                 \/ /\ ReconcilesHint \/ Migrated \/ Unsubscribes \/ EvictsOps
                    /\ task.cmd.kind \notin {"append", "wire"}
<1>0. task \in Task
  BY DEF TypeInv
<1>1. ASSUME NEW cmd PROVE ~Begins(cmd)
  BY DEF Begins, IdleTask
<1>2. ASSUME NEW o PROVE ~Ends(o)
  BY DEF Ends, IdleTask
<1>3. ~Advances
  BY <1>0 DEF Advances, FlushesPush, FiresWant, FiresHave, Answers, Ticks, Decides, Task
<1>4. ~HandlesHave
  BY <1>0 DEF HandlesHave, Task
<1>5. ~IngestsExt /\ ~Migrates
  BY IngestFacts DEF IngestsExt, Migrates
<1>6. ~Parks
  <2>1. Parks => task'.stage = task.stage /\ task.stage = "ingest"
    BY <1>0, ParksFacts DEF Task
  <2> QED
    BY <2>1
<1>7. ~Reconciles /\ ~ReconcileFails
  <2>1. Reconciles \/ ReconcileFails => task'.stage = "route"
    BY <1>0, <1>2, ReconcileSteps DEF Task
  <2> QED
    BY <2>1
<1>8. ~AppendFails /\ ~Subscribes
  <2>1. AppendFails => task'.stage = "idle"
    BY DEF AppendFails, IdleTask
  <2>2. Subscribes => task'.stage = "migrate"
    BY <1>0 DEF Subscribes, Task
  <2> QED
    BY <2>1, <2>2
<1>9. CASE Ingested
  <2>1. /\ task'.cmd = task.cmd /\ task'.todo = task.todo /\ task'.failed = task.failed
        /\ task.stage = "ingest"
    BY <1>0, <1>9 DEF Ingested, Goes, Task
  <2> QED
    BY <1>9, <2>1 DEF StageInv
<1>10. CASE Appends
  BY <1>0, <1>10 DEF Appends, CaughtUp, Task
<1>11. CASE Migrated
  <2>1. task'.cmd = task.cmd /\ task.stage = "migrate"
    BY <1>0, <1>11 DEF Migrated, Task
  <2> QED
    BY <1>11, <2>1 DEF StageInv
<1>12. CASE ReconcilesHint \/ Unsubscribes
  BY <1>0, <1>12 DEF ReconcilesHint, Unsubscribes, Goes, CaughtUp, Task
<1>13. CASE EvictsOps
  BY <1>0, <1>2, <1>13 DEF EvictsOps, CaughtUp, Task
<1>14. CASE AppSyncs \/ AppDeletes \/ UNCHANGED shellVars
  BY <1>14 DEF AppSyncs, AppDeletes, shellVars
<1> QED
  BY <1>1, <1>2, <1>3, <1>4, <1>5, <1>6, <1>7, <1>8, <1>9, <1>10, <1>11, <1>12, <1>13, <1>14
     DEF Next, HandlesWire, Maintains, BeginsCommand, BeginsHint, EndsTimer, HandlesWant,
         Routes, MaintainsNothing, EvictsPayloads

\* What was appended is in ext, or was deleted there.
LEMMA AppendNext == TypeInv /\ StageInv /\ AppendInv /\ [Next]_shellVars => AppendInv'
<1> SUFFICES ASSUME TypeInv, StageInv, AppendInv, [Next]_shellVars PROVE AppendInv'
  OBVIOUS
<1> DEFINE kept == node.ext.cells \cup deleted
<1>0. kept \subseteq node'.ext.cells \cup deleted' /\ task \in Task /\ node \in NodeState
  BY ExtKeeps DEF TypeInv
<1>1. push'.cells \subseteq node'.ext.cells \cup deleted'
  <2>1. CASE push'.cells \subseteq push.cells
    BY <1>0, <2>1 DEF AppendInv
  <2>2. CASE Reconciles \/ ReconcileFails
    <3>1. task.stage = "reconcile"
      BY <2>2 DEF Reconciles, ReconcileFails
    <3>2. \/ push' = push
          \/ /\ task.cmd.kind = "append"
             /\ push'.cells = push.cells \cup {task.cmd.cell}
      BY <2>2, ReconcileSteps
    <3> QED
      BY <1>0, <3>1, <3>2 DEF AppendInv
  <2>3. push \in [cells : SUBSET Cell, oldest : Nat, latest : Nat]
    BY DEF TypeInv
  <2>4. CASE FlushesPush
    BY <2>1, <2>4 DEF FlushesPush, NoPush
  <2>5. CASE Ticks
    <3>1. CASE push.cells = {}
      BY <2>1, <2>5, <3>1 DEF Ticks, NoPush
    <3>2. CASE push.cells # {}
      <4>1. push'.cells = push.cells
        BY <2>3, <2>5, <3>2 DEF Ticks
      <4> QED
        BY <2>1, <4>1
    <3> QED
      BY <3>1, <3>2
  <2> QED
    BY <2>1, <2>2, <2>4, <2>5
       DEF Next, Advances, HandlesWire, Maintains, BeginsCommand, BeginsHint, Begins, FiresWant,
           FiresHave, Answers, EndsTimer, HandlesWant, HandlesHave, IngestsExt, Parks, Ingested,
           Routes, ReconcilesHint, Appends, AppendFails, Subscribes, Migrates, Migrated,
           Unsubscribes, MaintainsNothing, EvictsPayloads, EvictsOps, AppSyncs, AppDeletes,
           shellVars
<1>2. ASSUME task'.stage = "reconcile", task'.cmd.kind = "append"
      PROVE  task'.cmd.cell \in node'.ext.cells \cup deleted'
  <2>1. CASE Appends
    <3>1. task'.cmd = task.cmd
      BY <1>0, <2>1 DEF Appends, Task
    <3>2. node'.ext = Ingest(node.ext, [cells |-> {task.cmd.cell}, pay |-> {task.cmd.cell}])
      BY <1>0, <2>1 DEF Appends, NodeState
    <3> QED
      BY <3>1, <3>2 DEF Ingest
  <2>2. CASE task' = task
    BY <1>0, <1>2, <2>2 DEF AppendInv
  <2> QED
    BY <1>2, <2>1, <2>2, ReconcileEntry
<1> QED
  BY <1>1, <1>2 DEF AppendInv

\* How a command comes to ingest, and to route.
LEMMA IngestEntry ==
    ASSUME TypeInv, [Next]_shellVars, task'.stage \in {"ingest", "route"}
    PROVE  \/ task' = task /\ (AppSyncs \/ AppDeletes \/ UNCHANGED shellVars)
           \/ HandlesHave /\ task'.stage = "ingest"
           \/ (IngestsExt \/ Parks) /\ task'.stage = "ingest"
           \/ /\ Reconciles \/ ReconcileFails
              /\ task'.stage = "route"
              /\ task.cmd.kind = "wire"
              /\ task'.cmd = task.cmd /\ task'.todo = task.todo /\ task'.failed = task.failed
<1>0. task \in Task
  BY DEF TypeInv
<1>1. ASSUME NEW cmd PROVE ~Begins(cmd)
  BY DEF Begins, IdleTask
<1>2. ASSUME NEW o PROVE ~Ends(o)
  BY DEF Ends, IdleTask
<1>3. ~Advances
  BY <1>0 DEF Advances, FlushesPush, FiresWant, FiresHave, Answers, Ticks, Decides, Task
<1>4. ~AppendFails /\ ~Appends /\ ~Ingested /\ ~ReconcilesHint
  <2>1. AppendFails => task'.stage = "idle"
    BY DEF AppendFails, IdleTask
  <2>2. Appends \/ Ingested \/ ReconcilesHint => task'.stage = "reconcile"
    BY <1>0 DEF Appends, Ingested, ReconcilesHint, Goes, Task
  <2> QED
    BY <2>1, <2>2
<1>5. ~Subscribes /\ ~Migrated
  BY <1>0 DEF Subscribes, Migrated, Task
<1>6. ~Unsubscribes
  BY <1>0 DEF Unsubscribes, Task
<1>7. ~Migrates
  BY IngestFacts DEF Migrates
<1>8. ~EvictsOps
  BY <1>0, <1>2 DEF EvictsOps, Task
<1>9. CASE Reconciles \/ ReconcileFails
  <2>1. task.cmd.kind = "wire" /\ task' = [task EXCEPT !.stage = "route", !.logs = {}]
    BY <1>2, <1>9, ReconcileSteps
  <2>2. /\ task'.stage = "route" /\ task'.cmd = task.cmd /\ task'.todo = task.todo
        /\ task'.failed = task.failed
    BY <1>0, <2>1 DEF Task
  <2> QED
    BY <1>9, <2>1, <2>2
<1>10. CASE HandlesHave
  BY <1>0, <1>10 DEF HandlesHave, Task
<1>11. CASE IngestsExt
  BY <1>11, IngestFacts DEF IngestsExt
<1>12. CASE Parks
  <2>1. task'.stage = task.stage /\ task.stage = "ingest"
    BY <1>0, <1>12, ParksFacts DEF Task
  <2> QED
    BY <1>12, <2>1
<1>13. CASE AppSyncs \/ AppDeletes \/ UNCHANGED shellVars
  BY <1>13 DEF AppSyncs, AppDeletes, shellVars
<1> QED
  BY <1>1, <1>2, <1>3, <1>4, <1>5, <1>6, <1>7, <1>8, <1>9, <1>10, <1>11, <1>12, <1>13
     DEF Next, HandlesWire, Maintains, BeginsCommand, BeginsHint, EndsTimer, HandlesWant,
         Routes, MaintainsNothing, EvictsPayloads

\* Only the routing of a Have announces anything.
LEMMA DeliverSteps ==
    ASSUME TypeInv, [Next]_shellVars
    PROVE  \/ out'.deliver \subseteq out.deliver
           \/ Routes /\ out'.deliver = out.deliver \cup Announced
<1>0. out \in OutType
  BY DEF TypeInv
<1>1. ASSUME NEW cmd, Begins(cmd) PROVE out'.deliver \subseteq out.deliver
  BY <1>1 DEF Begins, NoOut
<1>2. CASE UNCHANGED out
  BY <1>2
<1>3. CASE FlushesPush \/ FiresWant \/ FiresHave
  BY <1>0, <1>3 DEF FlushesPush, FiresWant, FiresHave, Decides, OutType
<1>4. CASE Answers
  BY <1>0, <1>4, SaidType DEF Answers
<1>5. CASE HandlesWant
  BY <1>0, <1>5 DEF HandlesWant, Ends, OutType
<1>6. CASE Routes
  <2>1. PICK ops \in Ops : Ends([Said(ops) EXCEPT !.deliver = @ \cup Announced])
    BY <1>6 DEF Routes
  <2>2. Said(ops) \in OutType /\ Said(ops).deliver = out.deliver
    BY <1>0, SaidType
  <2> QED
    BY <1>6, <2>1, <2>2 DEF Ends, OutType
<1>7. CASE AppendFails
  BY <1>7 DEF AppendFails, NoOut
<1>8. CASE Reconciles \/ ReconcileFails
  BY <1>8, ReconcileSteps DEF Ends
<1>9. CASE Ends(out)
  BY <1>9 DEF Ends
<1>10. CASE EvictsOps
  BY <1>2, <1>9, <1>10 DEF EvictsOps
<1>11. CASE BeginsCommand \/ BeginsHint
  BY <1>1, <1>11 DEF BeginsCommand, BeginsHint
<1>12. CASE EndsTimer \/ MaintainsNothing \/ EvictsPayloads
  BY <1>9, <1>12 DEF EndsTimer, MaintainsNothing, EvictsPayloads
<1>13. CASE \/ Ticks \/ HandlesHave \/ IngestsExt \/ Parks \/ Ingested \/ ReconcilesHint
            \/ Appends \/ Subscribes \/ Migrates \/ Migrated \/ Unsubscribes
            \/ AppSyncs \/ AppDeletes \/ UNCHANGED shellVars
  BY <1>2, <1>13
     DEF Ticks, HandlesHave, IngestsExt, Parks, Ingested, ReconcilesHint, Goes, Appends,
         Subscribes, Migrates, Migrated, Unsubscribes, AppSyncs, AppDeletes, shellVars
<1> QED
  BY <1>3, <1>4, <1>5, <1>6, <1>7, <1>8, <1>10, <1>11, <1>12, <1>13
     DEF Next, Advances, HandlesWire, Maintains

\* What is announced is in ext, or was deleted there.
LEMMA DeliverNext ==
    TypeInv /\ StageInv /\ DeliverInv /\ [Next]_shellVars => DeliverInv'
<1> SUFFICES ASSUME TypeInv, StageInv, DeliverInv, [Next]_shellVars PROVE DeliverInv'
  OBVIOUS
<1>0. /\ task \in Task /\ node \in NodeState
      /\ node.ext.cells \cup deleted \subseteq node'.ext.cells \cup deleted'
  BY ExtKeeps DEF TypeInv
<1>1. DeliveredInExt'
  <2>1. CASE out'.deliver \subseteq out.deliver
    BY <1>0, <2>1 DEF DeliverInv, DeliveredInExt
  <2>2. CASE Routes /\ out'.deliver = out.deliver \cup Announced
    <3>1. task.stage = "route" /\ task.cmd.kind = "wire"
      BY <2>2 DEF Routes, StageInv
    <3>2. Announced \subseteq node.ext.cells \cup deleted
      BY <3>1 DEF Announced, DeliverInv
    <3> QED
      BY <1>0, <2>2, <3>2 DEF DeliverInv, DeliveredInExt
  <2> QED
    BY <2>1, <2>2, DeliverSteps
<1> DEFINE due(x, t) == x \in t.todo.cells \cup t.failed
<1>2. ASSUME task'.stage \in {"ingest", "route", "reconcile"}, task'.cmd.kind = "wire"
      PROVE  \/ HandlesHave \/ IngestsExt \/ Parks
             \/ /\ task.cmd.kind = "wire" /\ task.stage \in {"ingest", "reconcile", "route"}
                /\ task'.cmd = task.cmd
                /\ task'.todo = task.todo /\ task'.failed = task.failed
                /\ task'.stage \in {"reconcile", "route"} => task.todo.cells = {}
                /\ ~Subscribes /\ ~Unsubscribes
  <2>1. CASE task' = task
    <3>1. ~Subscribes /\ ~Unsubscribes
      BY <1>2, <2>1 DEF Subscribes, Unsubscribes, CaughtUp
    <3> QED
      BY <1>2, <2>1, <3>1 DEF DeliverInv
  <2>2. CASE Ingested
    <3>1. task.stage = "ingest" /\ task.todo.cells = {} /\ ~Subscribes /\ ~Unsubscribes
      BY <2>2 DEF Ingested, Subscribes, Unsubscribes, CaughtUp
    <3>2. task'.cmd = task.cmd /\ task'.todo = task.todo /\ task'.failed = task.failed
      BY <1>0, <2>2 DEF Ingested, Goes, Task
    <3> QED
      BY <1>2, <3>1, <3>2
  <2>3. CASE Reconciles \/ ReconcileFails
    <3>1. task.stage = "reconcile" /\ ~Subscribes /\ ~Unsubscribes
      BY <2>3 DEF Reconciles, ReconcileFails, Subscribes, Unsubscribes, CaughtUp
    <3>2. /\ task.cmd.kind = "wire"
          /\ task'.cmd = task.cmd /\ task'.todo = task.todo /\ task'.failed = task.failed
      <4>1. \A o : ~Ends(o)
        BY <1>2 DEF Ends, IdleTask
      <4> QED
        BY <1>0, <2>3, <4>1, ReconcileSteps DEF Task
    <3> QED
      BY <1>2, <3>1, <3>2 DEF DeliverInv
  <2> QED
    BY <1>2, <2>1, <2>2, <2>3, IngestEntry, ReconcileEntry
<1>3. ASSUME task'.stage \in {"reconcile", "route"}, task'.cmd.kind = "wire"
      PROVE  task'.todo.cells = {}
  <2>1. task'.stage # "ingest"
    BY <1>3
  <2>2. ~HandlesHave
    BY <1>0, <2>1 DEF HandlesHave, Task
  <2>3. ~IngestsExt
    BY <2>1, IngestFacts DEF IngestsExt
  <2>4. ~Parks
    <3>1. Parks => task'.stage = "ingest"
      BY <1>0, ParksFacts DEF Task
    <3> QED
      BY <2>1, <3>1
  <2> QED
    BY <1>2, <1>3, <2>2, <2>3, <2>4
<1>4. ASSUME task'.stage \in {"ingest", "reconcile", "route"}, task'.cmd.kind = "wire",
             NEW x \in task'.cmd.msg.ops.cells, IsSubscribed(node', x)
      PROVE  x \in task'.todo.cells \cup task'.failed \cup node'.ext.cells \cup deleted'
  <2>1. CASE HandlesHave
    <3>1. task'.cmd = task.cmd /\ task'.todo = task.cmd.msg.ops
      BY <1>0, <2>1 DEF HandlesHave, Task
    <3> QED
      BY <1>4, <3>1
  <2>2. CASE IngestsExt
    <3>1. /\ task.stage = "ingest" /\ task.cmd.kind = "wire" /\ task'.cmd = task.cmd
          /\ node'.subs = node.subs
      BY <2>2, IngestFacts, StoreSteps DEF IngestsExt, StageInv
    <3>2. x \in task.todo.cells \cup task.failed \cup node.ext.cells \cup deleted
      BY <1>4, <3>1 DEF DeliverInv, IsSubscribed
    <3>3. PICK y \in task.todo.cells :
            /\ task'.todo = Rest(y)
            /\ \/ /\ node' = [node EXCEPT !.ext = Ingest(node.ext, Fetch(task.todo, {y}))]
                  /\ task'.failed = task.failed
               \/ task'.failed = task.failed \cup {y}
      BY <2>2, IngestFacts
    <3>4. task'.todo.cells = task.todo.cells \ {y}
      BY <3>3, RestType
    <3>5. y \in task'.failed \cup node'.ext.cells
      <4>1. y \in Ingest(node.ext, Fetch(task.todo, {y})).cells
        BY DEF Ingest, Fetch
      <4> QED
        BY <1>0, <3>3, <4>1 DEF NodeState
    <3> QED
      BY <1>0, <3>2, <3>3, <3>4, <3>5
  <2>3. CASE Parks
    <3>1. PICK y : /\ task'.todo = Rest(y) /\ ~IsSubscribed(node, y)
                   /\ task'.cmd = task.cmd /\ task'.failed = task.failed
                   /\ task.stage = "ingest"
      BY <1>0, <2>3, ParksFacts DEF Task
    <3>2. task'.todo.cells = task.todo.cells \ {y} /\ node'.subs = node.subs
      BY <2>3, <3>1, RestType, StoreSteps
    <3>3. x # y
      BY <1>4, <3>1, <3>2 DEF IsSubscribed
    <3>4. x \in task.todo.cells \cup task.failed \cup node.ext.cells \cup deleted
      BY <1>4, <3>1, <3>2 DEF DeliverInv, IsSubscribed, StageInv
    <3> QED
      BY <1>0, <3>1, <3>2, <3>3, <3>4
  <2>4. CASE /\ task.cmd.kind = "wire" /\ task.stage \in {"ingest", "reconcile", "route"}
             /\ task'.cmd = task.cmd
             /\ task'.todo = task.todo /\ task'.failed = task.failed
             /\ ~Subscribes /\ ~Unsubscribes
    <3>1. node'.subs = node.subs
      BY <2>4, SubsKept
    <3>2. x \in task.todo.cells \cup task.failed \cup node.ext.cells \cup deleted
      BY <1>4, <2>4, <3>1 DEF DeliverInv, IsSubscribed
    <3> QED
      BY <1>0, <2>4, <3>2
  <2> QED
    BY <1>2, <1>4, <2>1, <2>2, <2>3, <2>4
<1> QED
  BY <1>1, <1>3, <1>4 DEF DeliverInv

-----------------------------------------------------------------------------
\* NothingVanishes.

\* How a command comes to migrate.
LEMMA MigrateEntry ==
    ASSUME TypeInv, [Next]_shellVars, task'.stage = "migrate"
    PROVE  \/ task' = task /\ (AppSyncs \/ AppDeletes \/ UNCHANGED shellVars)
           \/ Subscribes \/ Migrates
<1>0. task \in Task
  BY DEF TypeInv
<1>1. ASSUME NEW cmd PROVE ~Begins(cmd)
  BY DEF Begins, IdleTask
<1>2. ASSUME NEW o PROVE ~Ends(o)
  BY DEF Ends, IdleTask
<1>3. ~Advances
  BY <1>0 DEF Advances, FlushesPush, FiresWant, FiresHave, Answers, Ticks, Decides, Task
<1>4. ~AppendFails /\ ~Appends /\ ~Ingested /\ ~ReconcilesHint /\ ~Migrated /\ ~Unsubscribes
  <2>1. AppendFails => task'.stage = "idle"
    BY DEF AppendFails, IdleTask
  <2>2. \/ Appends \/ Ingested \/ ReconcilesHint \/ Migrated \/ Unsubscribes
        => task'.stage = "reconcile"
    BY <1>0 DEF Appends, Ingested, ReconcilesHint, Goes, Migrated, Unsubscribes, Task
  <2> QED
    BY <2>1, <2>2
<1>5. ~HandlesHave
  BY <1>0 DEF HandlesHave, Task
<1>6. ~IngestsExt
  BY IngestFacts DEF IngestsExt
<1>7. ~Parks
  <2>1. Parks => task'.stage = "ingest"
    BY <1>0, ParksFacts DEF Task
  <2> QED
    BY <2>1
<1>8. ~EvictsOps
  BY <1>0, <1>2 DEF EvictsOps, Task
<1>9. ~Reconciles /\ ~ReconcileFails
  <2>1. Reconciles \/ ReconcileFails => task'.stage = "route"
    BY <1>0, <1>2, ReconcileSteps DEF Task
  <2> QED
    BY <2>1
<1>10. CASE AppSyncs \/ AppDeletes \/ UNCHANGED shellVars
  BY <1>10 DEF AppSyncs, AppDeletes, shellVars
<1> QED
  BY <1>1, <1>2, <1>3, <1>4, <1>5, <1>6, <1>7, <1>8, <1>9, <1>10
     DEF Next, HandlesWire, Maintains, BeginsCommand, BeginsHint, EndsTimer, HandlesWant,
         Routes, MaintainsNothing, EvictsPayloads

\* What is about to leave the relay is in ext as good as in the relay.
LEMMA MoveNext == TypeInv /\ StageInv /\ MoveInv /\ [Next]_shellVars => MoveInv'
<1> SUFFICES ASSUME TypeInv, StageInv, MoveInv, [Next]_shellVars, task'.stage = "migrate"
             PROVE  /\ \A x \in task'.todo.cells : x \in node'.relay.pay => x \in task'.todo.pay
                    /\ \A x \in task'.fx.accept \ deleted' :
                          /\ x \in node'.ext.cells
                          /\ x \in node'.relay.pay => x \in node'.ext.pay
  BY DEF MoveInv
<1>0. /\ task \in Task /\ node \in NodeState
      /\ deleted \subseteq deleted'
      /\ node.ext.cells \ deleted' \subseteq node'.ext.cells
      /\ node.ext.pay \ deleted' \subseteq node'.ext.pay
  BY ExtKeeps DEF TypeInv
<1>1. CASE Subscribes
  <2>1. PICK read \in SUBSET Cell : task'.todo = Fetch(node.relay, read)
    BY <1>0, <1>1 DEF Subscribes, Task
  <2>2. node'.relay = node.relay
    BY <1>1, OpenSteps
  <2>3. task'.fx.accept = {}
    BY <1>0, <1>1 DEF Subscribes, CaughtUp, StageInv, Task
  <2> QED
    BY <2>1, <2>2, <2>3 DEF Fetch
<1>2. CASE Migrates
  <2>1. PICK x \in task.todo.cells :
          /\ task'.todo = Rest(x)
          /\ \/ /\ node' = [node EXCEPT !.ext = Ingest(node.ext, Fetch(task.todo, {x}))]
                /\ task'.fx.accept = task.fx.accept \cup {x}
             \/ /\ node' \in {node, [node EXCEPT !.ext = Ingest(node.ext, Fetch(task.todo, {x}))]}
                /\ task'.fx.accept = task.fx.accept
    BY <1>2, IngestFacts DEF Migrates
  <2>2. node'.relay = node.relay /\ task.stage = "migrate"
    BY <1>0, <1>2, <2>1 DEF NodeState, Migrates
  <2>3. task'.todo.cells = task.todo.cells \ {x} /\ task'.todo.pay = task.todo.pay \cap task'.todo.cells
    BY <2>1, RestType DEF Rest, Fetch
  <2>4. \A y \in task'.todo.cells : y \in node'.relay.pay => y \in task'.todo.pay
    BY <2>2, <2>3 DEF MoveInv
  <2>5. ASSUME NEW y \in task.fx.accept \ deleted'
        PROVE  y \in node'.ext.cells /\ (y \in node'.relay.pay => y \in node'.ext.pay)
    BY <1>0, <2>2, <2>5 DEF MoveInv
  <2>6. ASSUME node' = [node EXCEPT !.ext = Ingest(node.ext, Fetch(task.todo, {x}))]
        PROVE  x \in node'.ext.cells /\ (x \in node'.relay.pay => x \in node'.ext.pay)
    <3>1. node'.ext = Ingest(node.ext, Fetch(task.todo, {x}))
      BY <1>0, <2>6 DEF NodeState
    <3>2. x \in node.relay.pay => x \in task.todo.pay
      BY <2>1, <2>2 DEF MoveInv
    <3> QED
      BY <2>1, <2>2, <3>1, <3>2 DEF Ingest, Fetch
  <2> QED
    BY <2>1, <2>4, <2>5, <2>6
<1>3. CASE task' = task /\ (AppSyncs \/ AppDeletes \/ UNCHANGED shellVars)
  <2>1. node'.relay = node.relay
    BY <1>0, <1>3 DEF AppSyncs, AppDeletes, NodeState, shellVars
  <2> QED
    BY <1>0, <1>3, <2>1 DEF MoveInv
<1> QED
  BY <1>1, <1>2, <1>3, MigrateEntry

\* Only migration and maintenance take anything from the relay.
LEMMA RelayKeeps ==
    ASSUME TypeInv, [Next]_shellVars, ~Migrated, ~EvictsPayloads, ~EvictsOps
    PROVE  /\ node.relay.cells \subseteq node'.relay.cells
           /\ node.relay.pay \subseteq node'.relay.pay
<1>0. node \in NodeState
  BY DEF TypeInv
<1>1. CASE IngestsExt \/ Migrates
  BY <1>0, <1>1, IngestFacts DEF NodeState
<1>2. CASE Parks
  <2>1. node' = node \/ \E x : node' = [node EXCEPT !.relay = ParkedRelay(x)]
    BY <1>2, ParksFacts
  <2>2. ASSUME NEW x, node' = [node EXCEPT !.relay = ParkedRelay(x)]
        PROVE  /\ node.relay.cells \subseteq node'.relay.cells
               /\ node.relay.pay \subseteq node'.relay.pay
    <3>1. node'.relay = ParkedRelay(x)
      BY <1>0, <2>2 DEF NodeState
    <3> QED
      BY <3>1 DEF ParkedRelay, Ingest
  <2> QED
    BY <2>1, <2>2
<1>3. CASE Appends \/ AppendFails \/ AppSyncs \/ AppDeletes
  BY <1>0, <1>3 DEF Appends, AppendFails, AppSyncs, AppDeletes, NodeState
<1> QED
  BY <1>1, <1>2, <1>3, IdleSteps, RouterSteps, ClaimSteps, OpenSteps, ReconcileSteps
     DEF Next, Advances, HandlesWire, Maintains

\* What one step may lose: what maintenance evicts, and what the application
\* deletes.
LEMMA VanishStep ==
    ASSUME TypeInv, MoveInv, [Next]_shellVars, NEW x \in Cell \ deleted'
    PROVE  \/ task.cmd.kind = "maintain" /\ x \in node.relay.cells
           \/ /\ x \in HeldUnion(node) => x \in HeldUnion(node)'
              /\ x \in node.relay.pay \cup node.ext.pay
                     => x \in node'.relay.pay \cup node'.ext.pay
<1>0. /\ node.relay \in Ops
      /\ x \in node.ext.cells => x \in node'.ext.cells
      /\ x \in node.ext.pay => x \in node'.ext.pay
  BY ExtKeeps DEF TypeInv, NodeState
<1>1. CASE ~Migrated /\ ~EvictsPayloads /\ ~EvictsOps
  BY <1>0, <1>1, RelayKeeps DEF HeldUnion
<1>2. CASE EvictsPayloads \/ EvictsOps
  <2>1. task.cmd.kind = "maintain"
    BY <1>2 DEF EvictsPayloads, EvictsOps, CaughtUp
  <2>2. x \in node.relay.pay => x \in node.relay.cells
    BY <1>0 DEF Ops
  <2> QED
    BY <1>0, <2>1, <2>2 DEF HeldUnion
<1>3. CASE Migrated
  <2>1. node'.relay \in {node.relay, Evict(node.relay, task.fx.accept)}
    BY <1>3, MigratedNode
  <2>2. x \notin deleted /\ task.stage = "migrate"
    BY <1>3 DEF Migrated
  <2>3. CASE x \notin task.fx.accept
    BY <1>0, <2>1, <2>3 DEF HeldUnion, Evict
  <2>4. CASE x \in task.fx.accept
    BY <1>0, <2>2, <2>4 DEF HeldUnion, MoveInv
  <2> QED
    BY <2>3, <2>4
<1> QED
  BY <1>1, <1>2, <1>3

-----------------------------------------------------------------------------
\* OnlyFailedAppendsMute.

\* What more messages ask is more.
LEMMA AskedMore ==
    /\ \A s, t : s \subseteq t => Asked(s) \subseteq Asked(t)
    /\ Asked({}) = {}
    /\ \A s : \A i \in SUBSET Entry :
          i \subseteq Asked(s \cup {WantMessage(Id, j) : j \in {i} \ {{}}})
<1>1. \A s, t : s \subseteq t => Asked(s) \subseteq Asked(t)
  BY DEF Asked
<1>2. Asked({}) = {}
  BY DEF Asked
<1>3. ASSUME NEW s, NEW i \in SUBSET Entry
      PROVE  i \subseteq Asked(s \cup {WantMessage(Id, j) : j \in {i} \ {{}}})
  <2>1. i # {} => WantMessage(Id, i) \in s \cup {WantMessage(Id, j) : j \in {i} \ {{}}}
    OBVIOUS
  <2>2. WantMessage(Id, i).interest = i
    BY MessageFields
  <2> QED
    BY <2>1, <2>2 DEF Asked
<1> QED
  BY <1>1, <1>2, <1>3

\* Arming the Have timer leaves the seen set alone.
LEMMA SeenRearmed ==
    ASSUME NEW r \in RouterState, NEW i
    PROVE  SeenEntries(Rearmed(r, i)) = SeenEntries(r)
<1>1. CASE ArmHaveEnabled(r)
  BY <1>1, SeenAfter DEF Rearmed
<1>2. CASE ~ArmHaveEnabled(r)
  BY <1>2 DEF Rearmed
<1> QED
  BY <1>1, <1>2

\* AskInv as a statement about sets.
LEMMA AskInvSets ==
    /\ AskInv <=> /\ SeenEntries(node.router) \subseteq wire.asked \cup wire.lost \cup Asked(out.send)
                  /\ task.stage = "idle" => Asked(out.send) \subseteq wire.asked
    /\ AskInv' <=> /\ SeenEntries(node'.router)
                         \subseteq wire'.asked \cup wire'.lost \cup Asked(out'.send)
                   /\ task'.stage = "idle" => Asked(out'.send) \subseteq wire'.asked
BY DEF AskInv, OnlyFailedAppendsMute, SeenEntries, Asked

\* A command that ends with at least the outputs it had.
LEMMA AskEnds ==
    ASSUME TypeInv, AskInv, NEW o, Ends(o), out.send \subseteq o.send,
           SeenEntries(node'.router)
              \subseteq SeenEntries(node.router) \cup Heard \cup Asked(o.send)
    PROVE  AskInv'
<1>1. /\ out' = o /\ wire'.lost = wire.lost
      /\ wire'.asked = wire.asked \cup Heard \cup Asked(o.send)
  BY DEF Ends, TypeInv
<1> QED
  BY <1>1, AskedMore, AskInvSets

\* A command that goes on with at least the outputs it had.
LEMMA AskGoesOn ==
    ASSUME TypeInv, AskInv, wire' = wire, out.send \subseteq out'.send,
           task'.stage # "idle" \/ (out' = out /\ task'.stage = task.stage),
           SeenEntries(node'.router) \subseteq SeenEntries(node.router) \cup Asked(out'.send)
    PROVE  AskInv'
BY AskedMore, AskInvSets

\* Whatever suppresses this node's questions was asked, or was lost with a
\* failed append.
LEMMA AskNext == TypeInv /\ StageInv /\ AskInv /\ [Next]_shellVars => AskInv'
<1> SUFFICES ASSUME TypeInv, StageInv, AskInv, [Next]_shellVars PROVE AskInv'
  OBVIOUS
<1>0. /\ task \in Task /\ out \in OutType /\ node \in NodeState
      /\ node.router \in RouterState
  BY DEF TypeInv, NodeState
<1>1. ASSUME Ends(out), SeenEntries(node'.router) \subseteq SeenEntries(node.router)
      PROVE  AskInv'
  BY <1>1, AskEnds
<1>2. ASSUME NEW cmd, Begins(cmd) PROVE AskInv'
  <2>1. /\ task.stage = "idle" /\ task'.stage = "advance" /\ out' = NoOut
        /\ wire' = wire /\ node' = node
    BY <1>2 DEF Begins, IdleTask
  <2>2. Asked(out.send) \subseteq wire.asked
    BY <2>1, AskInvSets
  <2>3. SeenEntries(node.router) \subseteq wire.asked \cup wire.lost
    BY <2>2, AskInvSets
  <2> QED
    BY <2>1, <2>3, AskInvSets
<1>3. ASSUME NEW res, NEW stage \in {"advance", "answer"}, Decides(res, stage),
             res.fx \in RouterFx, wire' = wire,
             SeenEntries(res.st) \subseteq SeenEntries(node.router) \cup res.fx.want
      PROVE  AskInv'
  <2>1. /\ task'.stage = stage /\ node'.router = res.st
        /\ out'.send = out.send \cup {WantMessage(Id, i) : i \in {res.fx.want} \ {{}}}
    BY <1>0, <1>3 DEF Decides, Task, OutType, NodeState
  <2>2. res.fx.want \subseteq Asked(out'.send)
    <3>1. res.fx.want \in SUBSET Entry
      BY <1>3 DEF RouterFx
    <3>2. res.fx.want
             \subseteq Asked(out.send \cup {WantMessage(Id, j) : j \in {res.fx.want} \ {{}}})
      BY <3>1, AskedMore, Zenon
    <3> QED
      BY <2>1, <3>2
  <2> QED
    BY <1>3, <2>1, <2>2, AskGoesOn
<1>4. CASE BeginsCommand \/ BeginsHint
  BY <1>2, <1>4 DEF BeginsCommand, BeginsHint
<1>5. CASE FlushesPush
  <2>1. /\ Decides(Push(node.router, Id, push.cells), "answer") /\ wire' = wire
        /\ push.cells \in SUBSET Cell
    BY <1>5 DEF FlushesPush, TypeInv
  <2>2. Push(node.router, Id, push.cells).fx \in RouterFx
    BY <1>0, <2>1, PushType, ShellAssumption
  <2>3. SeenEntries(Push(node.router, Id, push.cells).st) = SeenEntries(node.router)
    BY <1>0, SeenAfter
  <2> QED
    BY <1>3, <2>1, <2>2, <2>3
<1>6. CASE FiresWant
  <2>1. PICK i \in Intervals :
          Decides([FireWant(node.router) EXCEPT !.st = ArmWant(@, i)], "advance")
    BY <1>6 DEF FiresWant
  <2> DEFINE res == [FireWant(node.router) EXCEPT !.st = ArmWant(@, i)]
  <2>2. /\ res.st = ArmWant(FireWant(node.router).st, i)
        /\ res.fx = FireWant(node.router).fx
    BY DEF FireWant
  <2>3. FireWant(node.router).st \in RouterState /\ FireWant(node.router).fx \in RouterFx
    BY <1>0, FireWantType
  <2>4. SeenEntries(res.st) = SeenEntries(node.router) \cup res.fx.want
    <3>1. SeenEntries(res.st) = SeenEntries(FireWant(node.router).st)
      BY <2>2, <2>3, SeenAfter
    <3>2. SeenEntries(FireWant(node.router).st)
             = SeenEntries(node.router) \cup FireWant(node.router).fx.want
      BY <1>0, SeenAfter
    <3> QED
      BY <2>2, <3>1, <3>2
  <2>5. Decides(res, "advance") /\ wire' = wire
    BY <1>6, <2>1 DEF FiresWant
  <2> HIDE DEF res
  <2> QED
    BY <1>3, <2>2, <2>3, <2>4, <2>5
<1>7. CASE FiresHave
  <2>1. PICK i \in Intervals :
          Decides([FireHave(node.router, Id) EXCEPT !.st = Rearmed(@, i)], "answer")
    BY <1>7 DEF FiresHave
  <2> DEFINE res == [FireHave(node.router, Id) EXCEPT !.st = Rearmed(@, i)]
  <2>2. /\ res.st = Rearmed(FireHave(node.router, Id).st, i)
        /\ res.fx = FireHave(node.router, Id).fx
    BY DEF FireHave
  <2>3. /\ FireHave(node.router, Id).st \in RouterState
        /\ FireHave(node.router, Id).fx \in RouterFx
    BY <1>0, FireHaveType, ShellAssumption
  <2>4. SeenEntries(res.st) = SeenEntries(node.router)
    <3>1. SeenEntries(res.st) = SeenEntries(FireHave(node.router, Id).st)
      BY <2>2, <2>3, SeenRearmed
    <3>2. SeenEntries(FireHave(node.router, Id).st) = SeenEntries(node.router)
      BY <1>0, SeenAfter
    <3> QED
      BY <3>1, <3>2
  <2>5. Decides(res, "answer") /\ wire' = wire
    BY <1>7, <2>1 DEF FiresHave
  <2> HIDE DEF res
  <2> QED
    BY <1>3, <2>2, <2>3, <2>4, <2>5
<1>8. CASE Answers
  <2>1. task'.stage = "advance" /\ node' = node /\ wire' = wire
    BY <1>0, <1>8 DEF Answers, Task
  <2>2. out.send \subseteq out'.send
    BY <1>0, <1>8 DEF Answers, Said, OutType
  <2> QED
    BY <2>1, <2>2, AskGoesOn
<1>9. CASE Ticks
  <2>1. SeenEntries(Tick(node.router, 1)) \subseteq SeenEntries(node.router)
    BY <1>0, SeenAfter
  <2>2. node'.router = Tick(node.router, 1) /\ UNCHANGED <<task, out, wire>>
    BY <1>0, <1>9 DEF Ticks, NodeState
  <2> QED
    BY <2>1, <2>2, AskGoesOn
<1>10. CASE EndsTimer \/ MaintainsNothing \/ EvictsPayloads
  <2>1. node'.router = node.router /\ Ends(out)
    BY <1>10, IdleSteps, StoreSteps DEF EndsTimer, MaintainsNothing, EvictsPayloads
  <2> QED
    BY <1>1, <2>1
<1>11. CASE HandlesWant
  <2> DEFINE res == RecvWant(node.router, task.cmd.msg.interest)
             said == [out EXCEPT !.send = @ \cup {WantMessage(Id, j) : j \in {res.fx.want} \ {{}}}]
  <2>1. PICK i \in Intervals :
           node' = [node EXCEPT !.router = Rearmed(res.st, i)] /\ Ends(said)
    BY <1>11 DEF HandlesWant
  <2>2. task.cmd.msg.interest \subseteq Entry /\ Heard = task.cmd.msg.interest
    BY <1>0, <1>11, CommandFields, MessageFields DEF HandlesWant, CaughtUp, Task, Heard
  <2>3. res.st \in RouterState
    BY <1>0, <2>2, RecvWantType
  <2>4. SeenEntries(res.st) = SeenEntries(node.router) \cup Heard
    BY <1>0, <2>2, SeenAfter
  <2>5. out.send \subseteq said.send
    BY <1>0 DEF OutType
  <2> HIDE DEF res, said
  <2>6. SeenEntries(node'.router) = SeenEntries(node.router) \cup Heard
    <3>1. SeenEntries(Rearmed(res.st, i)) = SeenEntries(res.st)
      BY <2>3, SeenRearmed
    <3>2. node'.router = Rearmed(res.st, i)
      BY <1>0, <2>1 DEF NodeState
    <3> QED
      BY <2>4, <3>1, <3>2
  <2> QED
    BY <2>1, <2>5, <2>6, AskEnds
<1>12. CASE HandlesHave
  <2>1. /\ task'.stage = "ingest" /\ UNCHANGED <<out, wire>>
        /\ node'.router = RecvHave(node.router, task.cmd.msg.sender, task.cmd.msg.ops.cells).st
    BY <1>0, <1>12 DEF HandlesHave, Task, NodeState
  <2> QED
    BY <1>0, <2>1, SeenAfter, AskGoesOn
<1>13. CASE IngestsExt \/ Migrates
  <2>1. task'.stage = task.stage /\ UNCHANGED <<out, wire>> /\ node'.router = node.router
    BY <1>13, IngestFacts, StoreSteps
  <2> QED
    BY <2>1, AskGoesOn
<1>14. CASE Parks
  <2>1. task'.stage = task.stage
    BY <1>0, <1>14, ParksFacts DEF Task
  <2>2. UNCHANGED <<out, wire>> /\ node'.router = node.router
    BY <1>14, ParksFacts, StoreSteps
  <2> QED
    BY <2>1, <2>2, AskGoesOn
<1>15. CASE Ingested \/ ReconcilesHint
  <2>1. task'.stage = "reconcile" /\ UNCHANGED <<node, out, wire>>
    BY <1>0, <1>15 DEF Ingested, ReconcilesHint, Goes, Task
  <2> QED
    BY <2>1, AskGoesOn
<1>16. CASE Routes
  <2>1. PICK ops \in Ops : Ends([Said(ops) EXCEPT !.deliver = @ \cup Announced])
    BY <1>16 DEF Routes
  <2>2. out.send \subseteq [Said(ops) EXCEPT !.deliver = @ \cup Announced].send
    BY <1>0 DEF Said, OutType
  <2>3. node' = node
    BY <1>16, IdleSteps
  <2> QED
    BY <2>1, <2>2, <2>3, AskEnds
<1>17. CASE Reconciles \/ ReconcileFails
  <2>1. SeenEntries(node'.router) = SeenEntries(node.router)
    BY <1>17, ReconcileSteps
  <2>2. CASE Ends(out)
    BY <1>1, <2>1, <2>2
  <2>3. CASE task' = [task EXCEPT !.stage = "route", !.logs = {}] /\ UNCHANGED <<out, wire>>
    <3>1. task'.stage = "route"
      BY <1>0, <2>3 DEF Task
    <3> QED
      BY <2>1, <2>3, <3>1, AskGoesOn
  <2> QED
    BY <1>17, <2>2, <2>3, ReconcileSteps
<1>18. CASE Appends
  <2>1. task'.stage = "reconcile" /\ UNCHANGED <<out, wire>> /\ node'.router = node.router
    BY <1>0, <1>18, StoreSteps DEF Appends, Task
  <2> QED
    BY <2>1, AskGoesOn
<1>19. CASE AppendFails
  <2>1. /\ out'.send = {} /\ node'.router = node.router
        /\ wire'.asked = wire.asked /\ wire'.lost = wire.lost \cup Asked(out.send)
    BY <1>19, StoreSteps DEF AppendFails, NoOut, TypeInv
  <2> QED
    BY <2>1, AskedMore, AskInvSets
<1>20. CASE Subscribes
  <2>1. /\ task'.stage = "migrate" /\ UNCHANGED <<out, wire>> /\ node'.router = node.router
    BY <1>0, <1>20 DEF Subscribes, Task, NodeState
  <2> QED
    BY <2>1, AskGoesOn
<1>21. CASE Migrated \/ Unsubscribes
  <2>1. task'.stage = "reconcile" /\ UNCHANGED <<out, wire>>
    BY <1>0, <1>21 DEF Migrated, Unsubscribes, Task
  <2>2. \E C : node'.router = Open(node.router, C)
    <3>1. CASE Migrated
      BY <1>0, <3>1 DEF Migrated, NodeState
    <3>2. CASE Unsubscribes
      BY <1>0, <3>2 DEF Unsubscribes, NodeState
    <3> QED
      BY <1>21, <3>1, <3>2
  <2>3. SeenEntries(node'.router) = SeenEntries(node.router)
    BY <1>0, <2>2, SeenAfter
  <2> QED
    BY <2>1, <2>3, AskGoesOn
<1>22. CASE EvictsOps
  <2>1. node'.router = node.router
    BY <1>22, StoreSteps
  <2>2. CASE Ends(out)
    BY <1>1, <2>1, <2>2
  <2>3. CASE ~Ends(out)
    <3>1. task'.stage = "reconcile" /\ UNCHANGED <<out, wire>>
      BY <1>0, <1>22, <2>3 DEF EvictsOps, Task
    <3> QED
      BY <2>1, <3>1, AskGoesOn
  <2> QED
    BY <2>2, <2>3
<1>23. CASE AppSyncs \/ AppDeletes \/ UNCHANGED shellVars
  <2>1. UNCHANGED <<task, out, wire>>
    BY <1>23 DEF AppSyncs, AppDeletes, shellVars
  <2>2. node'.router = node.router
    BY <1>23, StoreSteps DEF shellVars
  <2> QED
    BY <2>1, <2>2, AskGoesOn
<1> QED
  BY <1>4, <1>5, <1>6, <1>7, <1>8, <1>9, <1>10, <1>11, <1>12, <1>13, <1>14, <1>15, <1>16, <1>17,
     <1>18, <1>19, <1>20, <1>21, <1>22, <1>23 DEF Next, Advances, HandlesWire, Maintains

-----------------------------------------------------------------------------
\* CacheFollows.

\* What CacheFollows says of one cell: the cache knows what is there, and the
\* router denies nothing of it and claims no more.
Follows(x) ==
    /\ x \in cache <=> x \in HeldUnion(node)
    /\ x \in HeldUnion(node) => x \in node.router.held
    /\ x \in node.router.held => x \in HeldUnion(node) \cup deleted

\* A step that touches neither the cell nor what is known of it.
LEMMA Undisturbed ==
    ASSUME NEW x, Follows(x), deleted \subseteq deleted',
           x \in cache' <=> x \in cache,
           x \in HeldUnion(node') <=> x \in HeldUnion(node),
           x \in node'.router.held <=> x \in node.router.held
    PROVE  Follows(x)'
BY DEF Follows

\* A command begins in no log, or where a hint has told it to.
LEMMA FollowBegins ==
    ASSUME TypeInv, StageInv, BeginsCommand \/ BeginsHint,
           NEW x \in Cell, LogOf(x) \notin Unsettled'
    PROVE  LogOf(x) \notin Unsettled /\ UNCHANGED <<node, cache, deleted>>
<1>1. \E cmd : Begins(cmd)
  BY DEF BeginsCommand, BeginsHint
<1>2. task.logs = {} /\ UNCHANGED <<node, cache, stale, deleted>>
  BY <1>1 DEF Begins, StageInv
<1>3. LogOf(x) \in Log
  BY LogTypes
<1>4. LogOf(x) \notin hints
  <2>1. CASE BeginsCommand
    BY <2>1 DEF BeginsCommand, Unsettled
  <2>2. CASE BeginsHint
    <3>1. PICK l \in hints :
             \/ Begins([kind |-> "hint", logs |-> {l}]) /\ hints' = hints \ {l}
             \/ Begins([kind |-> "hint", logs |-> Log])
      BY <2>2 DEF BeginsHint
    <3>2. \/ task'.logs = {l} /\ hints' = hints \ {l}
          \/ task'.logs = Log
      BY <3>1 DEF Begins, IdleTask
    <3> QED
      BY <1>3, <3>2 DEF Unsettled
  <2> QED
    BY <2>1, <2>2
<1> QED
  BY <1>2, <1>4 DEF Unsettled

\* A command that has not touched a store may end: it had nothing to reconcile.
LEMMA FollowEnds ==
    ASSUME TypeInv, StageInv, EndsTimer \/ HandlesWant \/ Routes \/ MaintainsNothing \/ EvictsPayloads,
           NEW x \in Cell, LogOf(x) \notin Unsettled'
    PROVE  /\ LogOf(x) \notin Unsettled /\ UNCHANGED <<cache, deleted>>
           /\ HeldUnion(node') = HeldUnion(node) /\ node'.router.held = node.router.held
<1>1. task.logs = {} /\ UNCHANGED <<cache, hints, stale, deleted>>
  BY DEF EndsTimer, HandlesWant, Routes, MaintainsNothing, EvictsPayloads, CaughtUp, StageInv
<1>2. CASE EvictsPayloads
  <2>1. node'.relay.cells = node.relay.cells /\ node'.ext = node.ext
    BY <1>2 DEF EvictsPayloads, EvictPayloads, TypeInv, NodeState, Ops
  <2>2. node'.router = node.router
    BY <1>2, StoreSteps
  <2> QED
    BY <1>1, <2>1, <2>2 DEF Unsettled, HeldUnion
<1> QED
  BY <1>1, <1>2, IdleSteps, RouterSteps DEF Unsettled, HeldUnion

\* Every other step of a command that does not reconcile: what it changes in
\* the stores, and what it claims, is in logs that it will reconcile.
LEMMA FollowStores ==
    ASSUME TypeInv, BatchInv, IngestsExt \/ Migrates \/ Parks \/ Migrated,
           NEW x \in Cell, LogOf(x) \notin Unsettled'
    PROVE  /\ LogOf(x) \notin Unsettled /\ UNCHANGED <<cache, deleted>>
           /\ x \in HeldUnion(node') <=> x \in HeldUnion(node)
           /\ node'.router.held = node.router.held
<1>0. task \in Task /\ node \in NodeState
  BY DEF TypeInv
<1>1. CASE IngestsExt \/ Migrates
  <2>1. PICK y \in task.todo.cells :
          /\ MayHint(y) /\ UNCHANGED <<cache, stale, deleted>> /\ task'.logs = task.logs
          /\ node' \in {node, [node EXCEPT !.ext = Ingest(node.ext, Fetch(task.todo, {y}))]}
    BY <1>1, IngestFacts
  <2>2. LogOf(x) \notin Unsettled
    BY <2>1 DEF Unsettled, MayHint
  <2>3. LogOf(y) \in task.logs
    BY <1>1, <2>1 DEF BatchInv, IngestsExt, Migrates, LogsOf
  <2>4. x # y
    BY <2>2, <2>3 DEF Unsettled
  <2>5. node'.relay = node.relay /\ (x \in node'.ext.cells <=> x \in node.ext.cells)
    <3>1. CASE node' = node
      BY <3>1
    <3>2. CASE node' = [node EXCEPT !.ext = Ingest(node.ext, Fetch(task.todo, {y}))]
      <4>1. /\ node'.relay = node.relay
            /\ node'.ext = Ingest(node.ext, Fetch(task.todo, {y}))
        BY <1>0, <3>2 DEF NodeState
      <4> QED
        BY <2>4, <4>1 DEF Ingest, Fetch
    <3> QED
      BY <2>1, <3>1, <3>2
  <2> QED
    BY <1>1, <2>1, <2>2, <2>5, StoreSteps DEF HeldUnion
<1>2. CASE Parks
  <2>1. PICK y : /\ First(y)
                 /\ node' \in {node, [node EXCEPT !.relay = ParkedRelay(y)]}
                 /\ task'.logs = task.logs
    BY <1>0, <1>2, ParksFacts DEF Task
  <2>2. LogOf(x) \notin Unsettled /\ UNCHANGED <<cache, deleted>> /\ task.stage = "ingest"
    BY <1>2, <2>1, ParksFacts DEF Unsettled
  <2>3. LogOf(y) \in task.logs
    BY <2>1, <2>2 DEF First, BatchInv, LogsOf
  <2>4. x # y
    BY <2>2, <2>3 DEF Unsettled
  <2>5. node'.ext = node.ext /\ (x \in node'.relay.cells <=> x \in node.relay.cells)
    <3>1. CASE node' = node
      BY <3>1
    <3>2. CASE node' = [node EXCEPT !.relay = ParkedRelay(y)]
      <4>1. node'.ext = node.ext /\ node'.relay = ParkedRelay(y)
        BY <1>0, <3>2 DEF NodeState
      <4> QED
        BY <2>4, <4>1 DEF ParkedRelay, Ingest, Fetch
    <3> QED
      BY <2>1, <3>1, <3>2
  <2> QED
    BY <1>2, <2>2, <2>5, StoreSteps DEF HeldUnion
<1>3. CASE Migrated
  <2>1. /\ task'.logs = task.logs /\ UNCHANGED <<cache, hints, stale, deleted>>
        /\ task.stage = "migrate"
    BY <1>0, <1>3 DEF Migrated, Task
  <2>2. LogOf(x) \notin Unsettled /\ x \notin task.fx.accept
    BY <2>1 DEF Unsettled, BatchInv, LogsOf
  <2>3. x \in node'.relay.cells <=> x \in node.relay.cells
    BY <1>3, <2>2, MigratedNode DEF Evict
  <2> QED
    BY <1>3, <2>1, <2>2, <2>3, MigratedNode DEF HeldUnion
<1> QED
  BY <1>1, <1>2, <1>3

\* The steps that add to the logs to reconcile what they touch.
LEMMA FollowTouches ==
    ASSUME TypeInv, StageInv, \/ Appends \/ AppendFails \/ EvictsOps \/ AppSyncs \/ AppDeletes
                              \/ Subscribes \/ Unsubscribes,
           NEW x \in Cell, LogOf(x) \notin Unsettled'
    PROVE  /\ LogOf(x) \notin Unsettled /\ cache' = cache /\ deleted \subseteq deleted'
           /\ x \in HeldUnion(node') <=> x \in HeldUnion(node)
           /\ node'.router.held = node.router.held
<1>0. task \in Task /\ node \in NodeState /\ LogOf(x) \in Log
  BY LogTypes DEF TypeInv
<1>1. CASE Appends \/ AppendFails
  <2> DEFINE y == task.cmd.cell
  <2>1. task.logs = {} /\ cache' = cache /\ deleted' = deleted
    BY <1>1 DEF Appends, AppendFails, CaughtUp, StageInv
  <2>2. hints \subseteq hints' /\ stale \subseteq stale' /\ LogOf(y) \in task'.logs \cup stale'
    <3>1. CASE Appends
      BY <1>0, <3>1 DEF Appends, MayHint, Task
    <3>2. CASE AppendFails
      BY <3>2 DEF AppendFails
    <3> QED
      BY <1>1, <3>1, <3>2
  <2>3. LogOf(x) \notin Unsettled /\ x # y
    BY <2>1, <2>2 DEF Unsettled
  <2>4. node' \in {node, [node EXCEPT !.ext = Ingest(node.ext, [cells |-> {y}, pay |-> {y}])]}
    BY <1>1 DEF Appends, AppendFails
  <2> HIDE DEF y
  <2>5. node'.relay = node.relay /\ (x \in node'.ext.cells <=> x \in node.ext.cells)
    BY <1>0, <2>3, <2>4 DEF NodeState, Ingest
  <2> QED
    BY <1>1, <2>1, <2>3, <2>5, StoreSteps DEF HeldUnion
<1>2. CASE EvictsOps
  <2> DEFINE R == Unasked(node.relay.cells)
  <2>1. task.logs = {} /\ cache' = cache /\ deleted' = deleted /\ hints' = hints
    BY <1>2 DEF EvictsOps, CaughtUp, StageInv
  <2>2. stale \subseteq stale' /\ LogsOf(R) \subseteq task'.logs \cup stale'
    BY <1>0, <1>2 DEF EvictsOps, Task
  <2>3. LogOf(x) \notin Unsettled /\ x \notin R
    BY <2>1, <2>2 DEF Unsettled, LogsOf
  <2>4. node'.relay = Evict(node.relay, R) /\ node'.ext = node.ext
    BY <1>0, <1>2 DEF EvictsOps, NodeState
  <2> HIDE DEF R
  <2> QED
    BY <1>2, <2>1, <2>3, <2>4, StoreSteps DEF HeldUnion, Evict
<1>3. CASE AppSyncs \/ AppDeletes
  <2>1. PICK y : /\ hints' = hints \cup {LogOf(y)}
                 /\ node' \in {[node EXCEPT !.ext = Ingest(node.ext, [cells |-> {y}, pay |-> {y}])],
                               [node EXCEPT !.ext = Evict(node.ext, {y})]}
    BY <1>3 DEF AppSyncs, AppDeletes
  <2>2. UNCHANGED <<cache, task, stale>> /\ deleted \subseteq deleted'
    BY <1>3 DEF AppSyncs, AppDeletes
  <2>3. LogOf(x) \notin Unsettled /\ x # y
    BY <2>1, <2>2 DEF Unsettled
  <2>4. node'.relay = node.relay /\ (x \in node'.ext.cells <=> x \in node.ext.cells)
    <3>1. /\ node'.relay = node.relay
          /\ node'.ext \in {Ingest(node.ext, [cells |-> {y}, pay |-> {y}]), Evict(node.ext, {y})}
      BY <1>0, <2>1 DEF NodeState
    <3> QED
      BY <2>3, <3>1 DEF Ingest, Evict
  <2> QED
    BY <1>3, <2>2, <2>3, <2>4, StoreSteps DEF HeldUnion
<1>4. CASE Subscribes \/ Unsubscribes
  <2>1. task.logs = {} /\ UNCHANGED <<cache, hints, stale, deleted>>
    BY <1>4 DEF Subscribes, Unsubscribes, CaughtUp, StageInv
  <2> QED
    BY <1>4, <2>1, OpenSteps DEF Unsettled, HeldUnion
<1> QED
  BY <1>1, <1>2, <1>3, <1>4

\* Catching up, and going from stage to stage.
LEMMA FollowGoes ==
    ASSUME TypeInv, FiresWant \/ FiresHave \/ Answers \/ Ticks \/ Ingested \/ ReconcilesHint
                    \/ UNCHANGED shellVars,
           NEW x \in Cell, LogOf(x) \notin Unsettled'
    PROVE  /\ LogOf(x) \notin Unsettled /\ UNCHANGED <<cache, deleted>>
           /\ HeldUnion(node') = HeldUnion(node) /\ node'.router.held = node.router.held
<1>0. task \in Task
  BY DEF TypeInv
<1>1. task'.logs = task.logs
  <2>1. CASE FiresWant \/ FiresHave
    BY <1>0, <2>1 DEF FiresWant, FiresHave, Decides, Task
  <2>2. CASE Answers \/ Ingested \/ ReconcilesHint
    BY <1>0, <2>2 DEF Answers, Ingested, ReconcilesHint, Goes, Task
  <2>3. CASE Ticks \/ UNCHANGED shellVars
    BY <2>3 DEF Ticks, shellVars
  <2> QED
    BY <2>1, <2>2, <2>3
<1>2. UNCHANGED <<cache, hints, stale, deleted>>
  BY DEF FiresWant, FiresHave, Answers, Ticks, Ingested, ReconcilesHint, shellVars
<1> QED
  BY <1>1, <1>2, IdleSteps, RouterSteps DEF Unsettled, HeldUnion

\* The cache follows the stores, whatever calls fail and whatever the
\* application does meanwhile.
LEMMA FollowNext ==
    /\ TypeInv /\ StageInv /\ BatchInv /\ AppendInv /\ CacheFollows
    /\ [Next]_shellVars
    => CacheFollows'
<1> SUFFICES ASSUME TypeInv, StageInv, BatchInv, AppendInv, CacheFollows, [Next]_shellVars,
                    NEW x \in Cell, LogOf(x) \notin Unsettled'
             PROVE  Follows(x)'
  BY DEF CacheFollows, Follows
<1>0. LogOf(x) \notin Unsettled => Follows(x)
  BY DEF CacheFollows, Follows
<1>1. task \in Task /\ node \in NodeState /\ deleted \subseteq deleted'
  BY ExtKeeps DEF TypeInv
<1>2. CASE BeginsCommand \/ BeginsHint
  BY <1>0, <1>2, FollowBegins, Undisturbed
<1>3. CASE EndsTimer \/ HandlesWant \/ Routes \/ MaintainsNothing \/ EvictsPayloads
  BY <1>0, <1>3, FollowEnds, Undisturbed
<1>4. CASE IngestsExt \/ Migrates \/ Parks \/ Migrated
  BY <1>0, <1>4, FollowStores, Undisturbed
<1>5. CASE \/ Appends \/ AppendFails \/ EvictsOps \/ AppSyncs \/ AppDeletes
           \/ Subscribes \/ Unsubscribes
  BY <1>0, <1>5, FollowTouches, Undisturbed
<1>6. CASE FiresWant \/ FiresHave \/ Answers \/ Ticks \/ Ingested \/ ReconcilesHint
           \/ UNCHANGED shellVars
  BY <1>0, <1>6, FollowGoes, Undisturbed
<1>7. CASE FlushesPush
  <2>1. task'.logs = task.logs /\ UNCHANGED <<cache, hints, stale, deleted>>
    BY <1>1, <1>7 DEF FlushesPush, Decides, Task
  <2>2. Follows(x)
    BY <1>0, <2>1 DEF Unsettled
  <2>3. push.cells \subseteq HeldUnion(node) \cup deleted
    BY DEF AppendInv, HeldUnion
  <2>4. HeldUnion(node') = HeldUnion(node) /\ node'.router.held = node.router.held \cup push.cells
    BY <1>7, ClaimSteps DEF HeldUnion
  <2> QED
    BY <2>1, <2>2, <2>3, <2>4 DEF Follows
<1>8. CASE HandlesHave
  <2>1. /\ task.logs = {} /\ task'.logs = LogsOf(task.cmd.msg.ops.cells)
        /\ UNCHANGED <<cache, hints, stale, deleted>>
    BY <1>1, <1>8 DEF HandlesHave, CaughtUp, StageInv, Task
  <2>2. Follows(x) /\ x \notin task.cmd.msg.ops.cells
    BY <1>0, <2>1 DEF Unsettled, LogsOf
  <2>3. /\ HeldUnion(node') = HeldUnion(node)
        /\ node'.router.held = node.router.held \cup task.cmd.msg.ops.cells
    BY <1>8, ClaimSteps DEF HeldUnion
  <2> QED
    BY <1>1, <2>1, <2>2, <2>3, Undisturbed
<1>9. CASE Reconciles \/ ReconcileFails
  <2>1. HeldUnion(node') = HeldUnion(node) /\ deleted' = deleted /\ hints' = hints
    BY <1>9, ReconcileSteps DEF Reconciles, ReconcileFails, HeldUnion
  <2>2. CASE Reconciles
    <3>1. /\ cache' = Reconciled(cache) /\ stale' = stale \ task.logs
          /\ node'.router.held = cache'
      BY <2>2, ReconcileSteps DEF Reconciles
    <3>2. x \in cache' <=> x \in HeldUnion(node)
      <4>1. CASE LogOf(x) \in task.logs
        BY <3>1, <4>1 DEF Reconciled, Under
      <4>2. CASE LogOf(x) \notin task.logs
        <5>1. Follows(x)
          BY <1>0, <2>1, <3>1, <4>2 DEF Unsettled
        <5> QED
          BY <3>1, <4>2, <5>1 DEF Reconciled, Under, Follows
      <4> QED
        BY <4>1, <4>2
    <3> QED
      BY <2>1, <3>1, <3>2 DEF Follows
  <2>3. CASE ReconcileFails
    <3>1. cache' = cache /\ stale' = stale \cup task.logs /\ node'.router.held = node.router.held
      BY <2>3, ReconcileSteps DEF ReconcileFails
    <3>2. Follows(x)
      BY <1>0, <2>1, <3>1 DEF Unsettled
    <3> QED
      BY <2>1, <3>1, <3>2, Undisturbed
  <2> QED
    BY <1>9, <2>2, <2>3
<1> QED
  BY <1>2, <1>3, <1>4, <1>5, <1>6, <1>7, <1>8, <1>9 DEF Next, Advances, HandlesWire, Maintains

-----------------------------------------------------------------------------
\* The theorems.

\* The node starts with everything unsettled, and with nothing said.
LEMMA ShellInit == Init => ShellInv
<1> SUFFICES ASSUME Init PROVE ShellInv
  OBVIOUS
<1>1. TypeInv
  BY ShellInitType
<1>2. StageInv /\ BatchInv /\ AppendInv /\ PushInv
  BY DEF Init, StageInv, BatchInv, AppendInv, PushInv, PushWithinLatency, IdleTask, NoPush, NoFx
<1>3. RelayWithinCap
  <2>1. Usage(node.relay) <= Cap
    BY ShellAssumption DEF Init
  <2> QED
    BY <2>1 DEF Init, IdleTask, RelayWithinCap
<1>4. CacheFollows
  BY LogTypes DEF Init, CacheFollows, Unsettled
<1>5. DeliverInv /\ MoveInv
  BY DEF Init, DeliverInv, DeliveredInExt, MoveInv, IdleTask, NoOut
<1>6. AskInv
  BY DEF Init, AskInv, OnlyFailedAppendsMute, NewRouter, IdleTask, NoOut
<1> QED
  BY <1>1, <1>2, <1>3, <1>4, <1>5, <1>6 DEF ShellInv

\* The inductive step.
LEMMA ShellNext == ShellInv /\ [Next]_shellVars => ShellInv'
BY ShellNextType, StageNext, BatchNext, AppendNext, PushNext, CapNext, FollowNext, DeliverNext,
   MoveNext, AskNext DEF ShellInv

LEMMA ShellInductive == Spec => []ShellInv
<1>1. Init => ShellInv
  BY ShellInit
<1>2. ShellInv /\ [Next]_shellVars => ShellInv'
  BY ShellNext
<1> QED
  BY <1>1, <1>2, PTL DEF Spec

\* The shell keeps its relay within the cap although it only tracks the usage,
\* its cache follows stores that fail and change under it, what it announces
\* is in ext, a push is not put off forever, and only failed appends mute it.
THEOREM ShellInvariant ==
    Spec => [](/\ TypeOK /\ CacheFollows /\ RelayWithinCap /\ DeliveredInExt
               /\ PushWithinLatency /\ OnlyFailedAppendsMute)
<1>1. ShellInv => /\ TypeOK /\ CacheFollows /\ RelayWithinCap /\ DeliveredInExt
                  /\ PushWithinLatency /\ OnlyFailedAppendsMute
  BY DEF ShellInv, TypeInv, TypeOK, OutType, BudgetOK, DeliverInv, PushInv, AskInv
<1> QED
  BY <1>1, ShellInductive, PTL

\* Whatever call fails, nothing leaves a node but by the relay's maintenance
\* or where the application has deleted it.
THEOREM ShellLosesNothing == Spec => NothingVanishes
<1>1. ShellInv /\ [Next]_shellVars =>
        [\A x \in Cell \ deleted' :
            \/ task.cmd.kind = "maintain" /\ x \in node.relay.cells
            \/ /\ x \in HeldUnion(node) => x \in HeldUnion(node)'
               /\ x \in node.relay.pay \cup node.ext.pay
                      => x \in node'.relay.pay \cup node'.ext.pay]_shellVars
  BY VanishStep DEF ShellInv
<1> QED
  BY <1>1, ShellInductive, PTL DEF Spec, NothingVanishes

=============================================================================
