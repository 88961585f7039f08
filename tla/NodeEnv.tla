------------------------------ MODULE NodeEnv -------------------------------
(***************************************************************************)
(* One node against an arbitrary environment: peers that send it any Want  *)
(* or Have at any time, an application that appends, syncs natively, GCs   *)
(* and changes its subscriptions, a relay policy that evicts anything.     *)
(* Whatever holds here holds for a node in every network.                  *)
(***************************************************************************)
EXTENDS Node

CONSTANTS
    Me,             \* the node
    Wants,          \* interests its peers may send
    Bodies,         \* Have bodies its peers may send
    Local,          \* cells its application may append or sync natively
    Durations,      \* durations of a Tick
    WantIntervals,  \* intervals the driver may arm the timers with
    HaveIntervals

ASSUME EnvAssumption ==
    /\ Me \in NodeId
    /\ Wants \subseteq {i \in SUBSET Entry : IsInterest(i)}
    /\ Bodies \subseteq Ops /\ \A o \in Bodies : IsFiniteSet(o.cells)
    /\ Local \subseteq Cell
    /\ Durations \subseteq Nat
    /\ WantIntervals \subseteq Nat
    /\ HaveIntervals \subseteq Nat

VARIABLES
    node,   \* NodeState of Me
    out,    \* effects of the last transition
    act     \* ghost: the NodeAction last taken

vars == <<node, out, act>>

Effects == [send : SUBSET WireMessage, deliver : SUBSET Cell]

Acts == {"new", "router", "fireWant", "fireHave", "recvWant", "recvHave", "local", "reclaim"}

TypeOK ==
    /\ node \in NodeState
    /\ out \in Effects
    /\ act \in Acts

Init ==
    /\ \E subs \in SUBSET Channel : node = NewNode(subs)
    /\ out = [send |-> {}, deliver |-> {}]
    /\ act = "new"

\* Adopt the outcome of a node transition.
Becomes(res, a) ==
    /\ node' = res.st
    /\ out' = res.fx
    /\ act' = a

TickAction == \E d \in Durations :
    /\ TickEnabled(node.router, d)
    /\ Becomes(NodeTick(node, d), "router")

ArmWantAction == \E i \in WantIntervals :
    /\ ArmWantEnabled(node.router)
    /\ Becomes(NodeArmWant(node, i), "router")

ArmHaveAction == \E i \in HaveIntervals :
    /\ ArmHaveEnabled(node.router)
    /\ Becomes(NodeArmHave(node, i), "router")

FireWantAction ==
    /\ WantDue(node.router)
    /\ Becomes(NodeFireWant(node, Me), "fireWant")

FireHaveAction ==
    /\ HaveDue(node.router)
    /\ Becomes(NodeFireHave(node, Me), "fireHave")

RecvWantAction == \E from \in NodeId \ {Me}, i \in Wants :
    Becomes(NodeRecvWant(node, Me, WantMessage(from, i)), "recvWant")

RecvHaveAction == \E from \in NodeId \ {Me}, o \in Bodies :
    \E kept \in KeptSets(node, o) :
        Becomes(NodeRecvHave(node, Me, HaveMessage(from, o), kept), "recvHave")

AuthoredAction == \E x \in Local, hasPayload \in BOOLEAN :
    Becomes(Authored(node, Me, x, hasPayload), "local")

SubscribeAction == \E c \in Channel : Becomes(Subscribe(node, c), "local")

UnsubscribeAction == \E c \in Channel : Becomes(Unsubscribe(node, c), "local")

NativeSyncAction == \E x \in Local, hasPayload \in BOOLEAN :
    Becomes(NativeSync(node, [cells |-> {x}, pay |-> IF hasPayload THEN {x} ELSE {}]), "local")

AppGcAction == \E R \in SUBSET node.ext.cells : Becomes(AppGc(node, R), "reclaim")

RelayEvictAction == \E R \in SUBSET node.relay.cells : Becomes(RelayEvict(node, R), "reclaim")

RelayEvictPayloadsAction == \E R \in SUBSET node.relay.pay :
    Becomes(RelayEvictPayloads(node, R), "reclaim")

Next ==
    \/ TickAction \/ ArmWantAction \/ ArmHaveAction
    \/ FireWantAction \/ FireHaveAction
    \/ RecvWantAction \/ RecvHaveAction
    \/ AuthoredAction \/ SubscribeAction \/ UnsubscribeAction
    \/ NativeSyncAction \/ AppGcAction
    \/ RelayEvictAction \/ RelayEvictPayloadsAction

Spec == Init /\ [][Next]_vars

-----------------------------------------------------------------------------
\* Properties.

\* What the router believes it holds is exactly what the two stores hold,
\* after every transition: held is written by Push, RecvHave and
\* reconcile_held, and ops can be shed, migrated, evicted or GC'd in between.
HeldIsUnion == node.router.held = HeldUnion(node)

\* The relay never holds more than its cap, however a batch of parked ops,
\* payload upgrades and evictions interleave (node.rs ingest_parked).
RelayWithinCap == Usage(node.relay) <= Cap

\* Ops of a subscribed channel are never left in the evictable relay:
\* Subscribe migrates what is there and a later Have goes to ext.
SubscribedNotInRelay == \A x \in node.relay.cells : ~IsSubscribed(node, x)

\* A broadcast Have carries only ops the node stores, each with its payload
\* if either store has one: "it must not be the degraded one".
BroadcastBestCopy ==
    \A m \in out.send :
        /\ m.sender = Me
        /\ m.ops.cells \subseteq HeldUnion(node)
        /\ m.ops.pay = m.ops.cells \cap (node.relay.pay \cup node.ext.pay)

\* A received Have announces to the application exactly the ops that it
\* brought into ext and that the node held nowhere before; nothing else is
\* ever announced.
DeliverExactlyNew ==
    [][out'.deliver =
          IF act' = "recvHave" THEN node'.ext.cells \ HeldUnion(node) ELSE {}]_vars

\* Nothing but eviction and the application's GC takes an op or a payload
\* from the node: a header-only Have never degrades a stored op, and
\* migration on Subscribe carries every op and payload over.
NothingLost ==
    [][ \/ act' = "reclaim"
        \/ /\ HeldUnion(node) \subseteq HeldUnion(node')
           /\ node.relay.pay \cup node.ext.pay \subseteq node'.relay.pay \cup node'.ext.pay]_vars

\* After a Want fires, every op the node lacks under a channel it cares
\* about is asked for by some Want in its seen set: cancelling the entries
\* that others already cover never leaves an op unasked.
EveryLackAsked ==
    [][act' = "fireWant" =>
          \A x \in Cell :
              ChannelOf(x) \in ChannelsOfInterest(node.router) /\ x \notin node.router.held
                  => x \in AskOf(SeenEntries(node'.router), Cell)]_vars

=============================================================================
