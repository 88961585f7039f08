----------------------------- MODULE NodeProofs -----------------------------
(***************************************************************************)
(* Invariants of one node in an arbitrary environment, for every universe  *)
(* of cells, every cap and every time to live; and what no step of it may  *)
(* do: announce an op it should not, leave an op that it lacks unasked for *)
(* when it fires a Want, take the relay beyond its cap, or lose an op or a *)
(* payload.                                                                *)
(***************************************************************************)
EXTENDS NodeEnv, RouterProofs, WellFoundedInduction

-----------------------------------------------------------------------------
\* The node: what every transition establishes.

GoodNode(s) ==
    /\ s \in NodeState
    /\ s.router.held = HeldUnion(s)
    /\ \A x \in s.relay.cells : ~IsSubscribed(s, x)

BestCopy(s, send) ==
    \A m \in send :
        /\ m.sender = Me
        /\ m.ops.cells \subseteq HeldUnion(s)
        /\ m.ops.pay = m.ops.cells \cap (s.relay.pay \cup s.ext.pay)

GoodOutcome(res) ==
    /\ GoodNode(res.st)
    /\ res.fx \in Effects
    /\ BestCopy(res.st, res.fx.send)

\* Reconciling makes a node good once no subscribed op is left in the relay.
LEMMA ReconcileGood ==
    ASSUME NEW s \in NodeState, \A x \in s.relay.cells : ~IsSubscribed(s, x)
    PROVE  GoodNode(ReconcileHeld(s))
BY ReconcileFacts DEF GoodNode, IsSubscribed

\* A transition without effects is good if the node it leaves is.
LEMMA QuietGood ==
    ASSUME NEW s, GoodNode(s)
    PROVE  GoodOutcome(Quiet(s))
BY DEF GoodOutcome, Quiet, Effects, BestCopy

\* route_router_fx sends messages of this node, with the best copy of each
\* op, and announces cells.
LEMMA RouteFxFacts ==
    ASSUME NEW s \in NodeState, NEW fx \in RouterFx, NEW parked \in Ops
    PROVE  /\ RouteFx(s, Me, fx, parked) \in Effects
           /\ BestCopy(s, RouteFx(s, Me, fx, parked).send)
<1> DEFINE ops == Hydrate(s, fx.have)
           send == {WantMessage(Me, i) : i \in {fx.want} \ {{}}}
                      \cup {HaveMessage(Me, o) : o \in {ops} \ {NoOps}}
           deliver == {x \in fx.accept \cap parked.cells : IsSubscribed(s, x)}
<1>1. ops \in Ops
  BY OpsTypes DEF Hydrate, NodeState
<1>2. ops.cells \subseteq HeldUnion(s) /\ ops.pay = ops.cells \cap (s.relay.pay \cup s.ext.pay)
  BY OpsTypes DEF Hydrate, Fetch, Ingest, HeldUnion, NodeState
<1>3. ASSUME NEW m \in send
      PROVE  /\ m \in WireMessage /\ m.sender = Me
             /\ m.ops.cells \subseteq HeldUnion(s)
             /\ m.ops.pay = m.ops.cells \cap (s.relay.pay \cup s.ext.pay)
  <2>1. CASE m = WantMessage(Me, fx.want)
    BY <2>1, OpsTypes, EnvAssumption DEF WantMessage, WireMessage, NoOps, RouterFx
  <2>2. CASE m = HaveMessage(Me, ops)
    <3> HIDE DEF ops
    <3> QED
      BY <1>1, <1>2, <2>2, EnvAssumption DEF HaveMessage, WireMessage
  <2> QED
    BY <2>1, <2>2
<1>4. deliver \subseteq Cell
  BY DEF RouterFx
<1>5. RouteFx(s, Me, fx, parked) = [send |-> send, deliver |-> deliver]
  BY DEF RouteFx
<1> HIDE DEF send, deliver
<1> QED
  BY <1>3, <1>4, <1>5 DEF Effects, BestCopy

\* A transition that changes the router only, and not what it holds.
LEMMA RouterOnlyGood ==
    ASSUME NEW s, GoodNode(s), NEW r \in RouterState, r.held = s.router.held,
           NEW fx \in RouterFx
    PROVE  /\ GoodNode([s EXCEPT !.router = r])
           /\ GoodOutcome(Outcome([s EXCEPT !.router = r], Me, fx))
<1> DEFINE t == [s EXCEPT !.router = r]
<1>1. t \in NodeState /\ t.router = r /\ t.relay = s.relay /\ t.ext = s.ext /\ t.subs = s.subs
  BY DEF GoodNode, NodeState
<1>2. GoodNode(t)
  BY <1>1 DEF GoodNode, HeldUnion, IsSubscribed
<1>3. RouteFx(t, Me, fx, NoOps) \in Effects /\ BestCopy(t, RouteFx(t, Me, fx, NoOps).send)
  BY <1>1, OpsTypes, RouteFxFacts
<1> HIDE DEF t
<1> QED
  BY <1>2, <1>3 DEF GoodOutcome, Outcome, t

\* Ticks, arming and firing are good transitions.
LEMMA TimersGood ==
    ASSUME NEW s, GoodNode(s), NEW d \in Nat
    PROVE  /\ TickEnabled(s.router, d) => GoodOutcome(NodeTick(s, d))
           /\ GoodOutcome(NodeArmWant(s, d))
           /\ GoodOutcome(NodeArmHave(s, d))
           /\ GoodOutcome(NodeFireWant(s, Me))
           /\ GoodOutcome(NodeFireHave(s, Me))
<1>1. s.router \in RouterState /\ Me \in NodeId
  BY EnvAssumption DEF GoodNode, NodeState
<1>2. NoFx \in RouterFx
  BY DEF NoFx, RouterFx
<1>3. TickEnabled(s.router, d) => GoodOutcome(NodeTick(s, d))
  BY <1>1, <1>2, TickType, RouterOnlyGood, QuietGood DEF NodeTick
<1>4. GoodOutcome(NodeArmWant(s, d)) /\ GoodOutcome(NodeArmHave(s, d))
  BY <1>1, <1>2, ArmTypes, RouterOnlyGood, QuietGood DEF NodeArmWant, NodeArmHave
<1>5. GoodOutcome(NodeFireWant(s, Me))
  BY <1>1, FireWantType, RouterOnlyGood DEF NodeFireWant
<1>6. GoodOutcome(NodeFireHave(s, Me))
  BY <1>1, FireHaveType, RouterOnlyGood DEF NodeFireHave
<1> QED
  BY <1>3, <1>4, <1>5, <1>6

\* Receiving a Want is a good transition.
LEMMA RecvWantGood ==
    ASSUME NEW s, GoodNode(s), NEW from, NEW i \in SUBSET Entry
    PROVE  GoodOutcome(NodeRecvWant(s, Me, WantMessage(from, i)))
<1>1. s.router \in RouterState
  BY DEF GoodNode, NodeState
<1>2. WantMessage(from, i).interest = i
  BY DEF WantMessage
<1> QED
  BY <1>1, <1>2, RecvWantType, RouterOnlyGood DEF NodeRecvWant

\* Parking a Have keeps subscribed ops out of the relay.
LEMMA IngestParkedFacts ==
    ASSUME NEW s \in NodeState, \A x \in s.relay.cells : ~IsSubscribed(s, x),
           NEW parked \in Ops, NEW kept \in KeptSets(s, parked)
    PROVE  LET t == IngestParked(s, parked, kept)
           IN  /\ t \in NodeState /\ t.router = s.router /\ t.subs = s.subs
               /\ \A x \in t.relay.cells : ~IsSubscribed(t, x)
               /\ t.relay = Ingest(s.relay, Fetch(parked, kept))
               /\ t.ext = Ingest(s.ext, Fetch(parked, {x \in parked.cells : IsSubscribed(s, x)}))
<1> DEFINE t == IngestParked(s, parked, kept)
<1>1. /\ Ingest(s.ext, Fetch(parked, {x \in parked.cells : IsSubscribed(s, x)})) \in Ops
      /\ Ingest(s.relay, Fetch(parked, kept)) \in Ops
  BY OpsTypes DEF NodeState
<1>2. /\ t \in NodeState /\ t.router = s.router /\ t.subs = s.subs
      /\ t.relay = Ingest(s.relay, Fetch(parked, kept))
      /\ t.ext = Ingest(s.ext, Fetch(parked, {x \in parked.cells : IsSubscribed(s, x)}))
  BY <1>1 DEF NodeState, IngestParked
<1>3. \A x \in kept : ~IsSubscribed(s, x)
  BY DEF KeptSets
<1>4. t.relay.cells \subseteq s.relay.cells \cup kept
  BY <1>2 DEF Ingest, Fetch
<1>5. \A x \in t.relay.cells : ~IsSubscribed(t, x)
  BY <1>2, <1>3, <1>4 DEF IsSubscribed
<1> QED
  BY <1>2, <1>5

\* Receiving a Have is a good transition, whatever of it is kept.
LEMMA RecvHaveGood ==
    ASSUME NEW s, GoodNode(s), NEW from \in NodeId, NEW o \in Ops, NEW kept \in KeptSets(s, o)
    PROVE  GoodOutcome(NodeRecvHave(s, Me, HaveMessage(from, o), kept))
<1> DEFINE res == RecvHave(s.router, from, o.cells)
           s1 == [s EXCEPT !.router = res.st]
           s2 == IngestParked(s1, o, kept)
           s3 == ReconcileHeld(s2)
<1>1. s \in NodeState /\ s.router \in RouterState /\ o.cells \in SUBSET Cell
  BY OpsTypes DEF GoodNode, NodeState
<1>2. res.st \in RouterState /\ res.fx \in RouterFx
  BY <1>1, RecvHaveType
<1>3. s1 \in NodeState /\ s1.relay = s.relay /\ s1.ext = s.ext /\ s1.subs = s.subs
  BY <1>1, <1>2 DEF NodeState
<1>4. KeptSets(s1, o) = KeptSets(s, o)
  BY <1>3 DEF KeptSets, IsSubscribed
<1>5. \A x \in s1.relay.cells : ~IsSubscribed(s1, x)
  BY <1>3 DEF GoodNode, IsSubscribed
<1>6. s2 \in NodeState /\ \A x \in s2.relay.cells : ~IsSubscribed(s2, x)
  BY <1>3, <1>4, <1>5, IngestParkedFacts
<1>7. GoodNode(s3)
  BY <1>6, ReconcileGood
<1>8. RouteFx(s3, Me, res.fx, o) \in Effects /\ BestCopy(s3, RouteFx(s3, Me, res.fx, o).send)
  BY <1>2, <1>7, RouteFxFacts DEF GoodNode
<1>9. NodeRecvHave(s, Me, HaveMessage(from, o), kept)
         = [st |-> s3, fx |-> RouteFx(s3, Me, res.fx, o)]
  BY DEF NodeRecvHave, HaveMessage
<1> HIDE DEF s3, res
<1> QED
  BY <1>7, <1>8, <1>9 DEF GoodOutcome

\* Appending an op is a good transition.
LEMMA AuthoredGood ==
    ASSUME NEW s, GoodNode(s), NEW x \in Cell, NEW hasPayload \in BOOLEAN
    PROVE  GoodOutcome(Authored(s, Me, x, hasPayload))
<1> DEFINE op == [cells |-> {x}, pay |-> IF hasPayload THEN {x} ELSE {}]
           s1 == [s EXCEPT !.ext = Ingest(@, op)]
           s2 == ReconcileHeld(s1)
           res == Push(s2.router, Me, {x})
           s3 == [s2 EXCEPT !.router = res.st]
<1>1. op \in Ops /\ op.cells = {x}
  BY DEF Ops
<1>2. s1 \in NodeState /\ s1.relay = s.relay /\ s1.subs = s.subs /\ x \in s1.ext.cells
  <2> HIDE DEF op
  <2>1. Ingest(s.ext, op) \in Ops /\ x \in Ingest(s.ext, op).cells
    BY <1>1, OpsTypes DEF GoodNode, NodeState, Ingest
  <2> QED
    BY <2>1 DEF GoodNode, NodeState
<1>3. GoodNode(s2) /\ x \in HeldUnion(s2) /\ s2.router \in RouterState
  <2>1. \A y \in s1.relay.cells : ~IsSubscribed(s1, y)
    BY <1>2 DEF GoodNode, IsSubscribed
  <2> QED
    BY <1>2, <2>1, ReconcileGood, ReconcileFacts DEF HeldUnion, GoodNode, NodeState
<1>4. res.st \in RouterState /\ res.st.held = s2.router.held /\ res.fx \in RouterFx
  <2>1. {x} \in SUBSET Cell /\ x \in s2.router.held
    BY <1>3 DEF GoodNode
  <2>2. Me \in NodeId /\ s2.router.held \cup {x} = s2.router.held
    BY <2>1, EnvAssumption
  <2> HIDE DEF s2
  <2>3. /\ Push(s2.router, Me, {x}).st \in RouterState
        /\ Push(s2.router, Me, {x}).st.held = s2.router.held \cup {x}
        /\ Push(s2.router, Me, {x}).fx \in RouterFx
    BY <1>3, <2>1, <2>2, PushType
  <2> QED
    BY <2>2, <2>3
<1>5. Authored(s, Me, x, hasPayload) = Outcome(s3, Me, res.fx)
  BY DEF Authored
<1> HIDE DEF s2, res
<1> QED
  BY <1>3, <1>4, <1>5, RouterOnlyGood

\* Migration on Subscribe leaves nothing of the channel in the relay, and
\* neither store of a node loses or gains an op that the other does not.
LEMMA SubscribeGood ==
    ASSUME NEW s, GoodNode(s), NEW c \in Channel
    PROVE  /\ GoodOutcome(Subscribe(s, c))
           /\ HeldUnion(Subscribe(s, c).st) = HeldUnion(s)
           /\ Subscribe(s, c).st.relay.pay \cup Subscribe(s, c).st.ext.pay
                 = s.relay.pay \cup s.ext.pay
           /\ Subscribe(s, c).st.relay.cells \subseteq s.relay.cells
           /\ Subscribe(s, c).st.relay.pay \subseteq s.relay.pay
<1> DEFINE under == {x \in s.relay.cells : ChannelOf(x) = c}
           subs == s.subs \cup {c}
           ext == Ingest(s.ext, Fetch(s.relay, under))
           relay == Evict(s.relay, under)
           s1 == [s EXCEPT !.subs = subs, !.ext = ext, !.relay = relay,
                           !.router = Open(s.router, subs)]
<1>1. s.relay \in Ops /\ s.ext \in Ops /\ s.router \in RouterState /\ s.subs \subseteq Channel
  BY DEF GoodNode, NodeState
<1>2. ext \in Ops /\ relay \in Ops
  BY <1>1, OpsTypes
<1>3. /\ relay.cells = s.relay.cells \ under
      /\ relay.pay = s.relay.pay \ under
      /\ ext.cells = s.ext.cells \cup under
      /\ ext.pay = s.ext.pay \cup (s.relay.pay \cap under)
  BY DEF Evict, Ingest, Fetch
<1>4. Open(s.router, subs) \in RouterState
  BY <1>1 DEF Open, RouterState
<1>5. s1 \in NodeState /\ s1.relay = relay /\ s1.ext = ext /\ s1.subs = subs
  <2> HIDE DEF ext, relay
  <2> QED
    BY <1>1, <1>2, <1>4 DEF GoodNode, NodeState
<1>6. \A x \in s1.relay.cells : ~IsSubscribed(s1, x)
  BY <1>3, <1>5 DEF GoodNode, IsSubscribed
<1>7. Subscribe(s, c) = Quiet(ReconcileHeld(s1))
  BY DEF Subscribe
<1>8. GoodOutcome(Subscribe(s, c))
  BY <1>5, <1>6, <1>7, ReconcileGood, QuietGood
<1>9. /\ Subscribe(s, c).st.relay = relay /\ Subscribe(s, c).st.ext = ext
  <2> HIDE DEF s1, relay, ext
  <2>1. Subscribe(s, c).st = ReconcileHeld(s1)
    BY <1>7 DEF Quiet
  <2> QED
    BY <1>5, <2>1, ReconcileFacts
<1> QED
  BY <1>3, <1>8, <1>9 DEF HeldUnion

\* Unsubscribing is a good transition.
LEMMA UnsubscribeGood ==
    ASSUME NEW s, GoodNode(s), NEW c \in Channel
    PROVE  /\ GoodOutcome(Unsubscribe(s, c))
           /\ Unsubscribe(s, c).st.relay = s.relay /\ Unsubscribe(s, c).st.ext = s.ext
<1> DEFINE subs == s.subs \ {c}
           s1 == [s EXCEPT !.subs = @ \ {c}, !.router = Open(@, s.subs \ {c})]
<1>1. Open(s.router, subs) \in RouterState
  BY DEF GoodNode, NodeState, Open, RouterState
<1>2. s1 \in NodeState /\ s1.relay = s.relay /\ s1.ext = s.ext /\ s1.subs = subs
  BY <1>1 DEF GoodNode, NodeState
<1>3. \A x \in s1.relay.cells : ~IsSubscribed(s1, x)
  BY <1>2 DEF GoodNode, IsSubscribed
<1>4. Unsubscribe(s, c) = Quiet(ReconcileHeld(s1))
  BY DEF Unsubscribe
<1> HIDE DEF s1
<1>5. Unsubscribe(s, c).st = ReconcileHeld(s1)
  BY <1>4 DEF Quiet
<1>6. GoodOutcome(Unsubscribe(s, c))
  BY <1>2, <1>3, <1>4, ReconcileGood, QuietGood
<1> QED
  BY <1>2, <1>5, <1>6, ReconcileFacts

\* A change of the stores alone: of ext to anything, of the relay to a
\* sub-store of it.
LEMMA StoresGood ==
    ASSUME NEW s, GoodNode(s), NEW ext \in Ops, NEW relay \in Ops,
           relay.cells \subseteq s.relay.cells
    PROVE  /\ GoodOutcome(Quiet(ReconcileHeld([s EXCEPT !.ext = ext])))
           /\ GoodOutcome(Quiet(ReconcileHeld([s EXCEPT !.relay = relay])))
           /\ ReconcileHeld([s EXCEPT !.ext = ext]).ext = ext
           /\ ReconcileHeld([s EXCEPT !.ext = ext]).relay = s.relay
           /\ ReconcileHeld([s EXCEPT !.relay = relay]).relay = relay
           /\ ReconcileHeld([s EXCEPT !.relay = relay]).ext = s.ext
<1> DEFINE s1 == [s EXCEPT !.ext = ext]
           s2 == [s EXCEPT !.relay = relay]
<1>1. /\ s1 \in NodeState /\ s1.relay = s.relay /\ s1.ext = ext /\ s1.subs = s.subs
      /\ s2 \in NodeState /\ s2.relay = relay /\ s2.ext = s.ext /\ s2.subs = s.subs
  BY DEF GoodNode, NodeState
<1>2. /\ \A x \in s1.relay.cells : ~IsSubscribed(s1, x)
      /\ \A x \in s2.relay.cells : ~IsSubscribed(s2, x)
  BY <1>1 DEF GoodNode, IsSubscribed
<1> HIDE DEF s1, s2
<1> QED
  BY <1>1, <1>2, ReconcileGood, ReconcileFacts, QuietGood DEF s1, s2

-----------------------------------------------------------------------------
\* The invariant and its preservation.

NodeInv ==
    /\ GoodNode(node)
    /\ out \in Effects
    /\ act \in Acts
    /\ BestCopy(node, out.send)

\* Adopting a good outcome establishes the invariant.
LEMMA BecomesInv ==
    ASSUME NEW res, NEW a \in Acts, Becomes(res, a), GoodOutcome(res)
    PROVE  NodeInv'
<1>1. node' = res.st /\ out' = res.fx /\ act' = a
  BY DEF Becomes
<1>2. GoodNode(node') /\ out' \in Effects /\ act' \in Acts /\ BestCopy(node', out'.send)
  BY <1>1 DEF GoodOutcome
<1> QED
  BY <1>2 DEF NodeInv, GoodNode, NodeState, BestCopy, HeldUnion, IsSubscribed

\* The invariant holds of a new node.
LEMMA NodeInitInv == Init => NodeInv
<1> SUFFICES ASSUME NEW subs \in SUBSET Channel, node = NewNode(subs), Init
             PROVE  NodeInv
  BY DEF Init
<1> USE TTLAssumption
<1>1. NewRouter({}, subs) \in RouterState
  <2>1. [n \in NodeId |-> NoRecord] \in HavesType
    BY DEF HavesType, NoRecord
  <2> QED
    BY <2>1 DEF NewRouter, RouterState, HavesType, NoTimer
<1>2. node \in NodeState /\ node.relay = NoOps /\ node.ext = NoOps /\ node.router.held = {}
  BY <1>1, OpsTypes DEF NewNode, NodeState, NewRouter
<1>3. GoodNode(node)
  BY <1>2 DEF GoodNode, HeldUnion, NoOps
<1> QED
  BY <1>3 DEF Init, NodeInv, Acts, Effects, BestCopy

\* Every node action preserves the invariant.
LEMMA NodeNextInv == NodeInv /\ [Next]_vars => NodeInv'
<1> SUFFICES ASSUME NodeInv, [Next]_vars PROVE NodeInv'
  OBVIOUS
<1> DEFINE s == node
<1>0. GoodNode(s) /\ s.relay \in Ops /\ s.ext \in Ops
  BY DEF NodeInv, GoodNode, NodeState
<1>1. CASE TickAction
  <2>1. PICK d \in Durations : TickEnabled(s.router, d) /\ Becomes(NodeTick(s, d), "router")
    BY <1>1 DEF TickAction
  <2>2. d \in Nat
    BY EnvAssumption
  <2> QED
    BY <1>0, <2>1, <2>2, TimersGood, BecomesInv DEF Acts
<1>2. CASE ArmWantAction \/ ArmHaveAction
  <2>1. PICK i \in Nat : \/ Becomes(NodeArmWant(s, i), "router")
                         \/ Becomes(NodeArmHave(s, i), "router")
    BY <1>2, EnvAssumption DEF ArmWantAction, ArmHaveAction
  <2> QED
    BY <1>0, <2>1, TimersGood, BecomesInv DEF Acts
<1>3. CASE FireWantAction \/ FireHaveAction
  <2>1. 0 \in Nat
    OBVIOUS
  <2> QED
    BY <1>0, <1>3, <2>1, TimersGood, BecomesInv DEF Acts, FireWantAction, FireHaveAction
<1>4. CASE RecvWantAction
  <2>1. PICK from \in NodeId \ {Me}, i \in Wants : Becomes(NodeRecvWant(s, Me, WantMessage(from, i)), "recvWant")
    BY <1>4 DEF RecvWantAction
  <2>2. i \in SUBSET Entry
    BY EnvAssumption
  <2> QED
    BY <1>0, <2>1, <2>2, RecvWantGood, BecomesInv DEF Acts
<1>5. CASE RecvHaveAction
  <2>1. PICK from \in NodeId, o \in Bodies :
           \E kept \in KeptSets(s, o) :
              Becomes(NodeRecvHave(s, Me, HaveMessage(from, o), kept), "recvHave")
    BY <1>5 DEF RecvHaveAction
  <2>2. o \in Ops
    BY EnvAssumption
  <2> QED
    BY <1>0, <2>1, <2>2, RecvHaveGood, BecomesInv DEF Acts
<1>6. CASE AuthoredAction
  <2>1. PICK x \in Cell, hasPayload \in BOOLEAN :
           Becomes(Authored(s, Me, x, hasPayload), "local")
    BY <1>6, EnvAssumption DEF AuthoredAction
  <2> QED
    BY <1>0, <2>1, AuthoredGood, BecomesInv DEF Acts
<1>7. CASE SubscribeAction \/ UnsubscribeAction
  BY <1>0, <1>7, SubscribeGood, UnsubscribeGood, BecomesInv
     DEF Acts, SubscribeAction, UnsubscribeAction
<1>8. CASE NativeSyncAction
  <2>1. PICK x \in Cell, hasPayload \in BOOLEAN :
           Becomes(NativeSync(s, [cells |-> {x}, pay |-> IF hasPayload THEN {x} ELSE {}]),
                   "local")
    BY <1>8, EnvAssumption DEF NativeSyncAction
  <2> DEFINE o == [cells |-> {x}, pay |-> IF hasPayload THEN {x} ELSE {}]
  <2>2. o \in Ops
    BY DEF Ops
  <2> HIDE DEF o
  <2>3. Ingest(s.ext, o) \in Ops
    BY <1>0, <2>2, OpsTypes
  <2> QED
    BY <1>0, <2>1, <2>3, StoresGood, BecomesInv DEF Acts, NativeSync, o
<1>9. CASE AppGcAction
  <2>1. PICK R : Becomes(AppGc(s, R), "reclaim")
    BY <1>9 DEF AppGcAction
  <2>2. Evict(s.ext, R) \in Ops
    BY <1>0, OpsTypes
  <2> QED
    BY <1>0, <2>1, <2>2, StoresGood, BecomesInv DEF Acts, AppGc
<1>10. CASE RelayEvictAction \/ RelayEvictPayloadsAction
  <2>1. PICK R : Becomes(RelayEvict(s, R), "reclaim") \/ Becomes(RelayEvictPayloads(s, R), "reclaim")
    BY <1>10 DEF RelayEvictAction, RelayEvictPayloadsAction
  <2>2. /\ Evict(s.relay, R) \in Ops /\ Evict(s.relay, R).cells \subseteq s.relay.cells
        /\ EvictPayloads(s.relay, R) \in Ops
        /\ EvictPayloads(s.relay, R).cells \subseteq s.relay.cells
    BY <1>0, OpsTypes DEF Evict
  <2> QED
    BY <1>0, <2>1, <2>2, StoresGood, BecomesInv DEF Acts, RelayEvict, RelayEvictPayloads
<1>11. CASE UNCHANGED vars
  BY <1>11 DEF vars, NodeInv, GoodNode, NodeState, BestCopy, HeldUnion, IsSubscribed
<1> QED
  BY <1>1, <1>2, <1>3, <1>4, <1>5, <1>6, <1>7, <1>8, <1>9, <1>10, <1>11 DEF Next

\* Every reachable state of a node is well typed, its router knows exactly
\* what the stores hold, no subscribed op sits in the evictable relay, and
\* every broadcast Have carries stored ops in their best copy.
THEOREM NodeInvariant ==
    Spec => [](TypeOK /\ HeldIsUnion /\ SubscribedNotInRelay /\ BroadcastBestCopy)
<1>1. NodeInv => TypeOK /\ HeldIsUnion /\ SubscribedNotInRelay /\ BroadcastBestCopy
  BY DEF NodeInv, GoodNode, TypeOK, HeldIsUnion, SubscribedNotInRelay, BroadcastBestCopy, BestCopy
<1> QED
  BY <1>1, NodeInitInv, NodeNextInv, PTL DEF Spec


-----------------------------------------------------------------------------
\* DeliverExactlyNew.

\* A transition that parks no op announces nothing.
LEMMA NothingDelivered ==
    ASSUME NEW s, NEW id, NEW fx
    PROVE  Outcome(s, id, fx).fx.deliver = {} /\ Quiet(s).fx.deliver = {}
BY DEF Outcome, Quiet, RouteFx, NoOps

\* A Have announces the subscribed ops of its body that no store held.
LEMMA DeliveredByHave ==
    ASSUME NEW s, GoodNode(s), NEW from \in NodeId, NEW o \in Ops, NEW kept \in KeptSets(s, o)
    PROVE  LET res == NodeRecvHave(s, Me, HaveMessage(from, o), kept)
           IN  res.fx.deliver = res.st.ext.cells \ HeldUnion(s)
<1> DEFINE r == RecvHave(s.router, from, o.cells)
           s1 == [s EXCEPT !.router = r.st]
           s2 == IngestParked(s1, o, kept)
           s3 == ReconcileHeld(s2)
           mine == {x \in o.cells : IsSubscribed(s, x)}
<1>1. s \in NodeState /\ s.router \in RouterState /\ o.cells \in SUBSET Cell
  BY OpsTypes DEF GoodNode, NodeState
<1>2. r.st \in RouterState /\ r.fx.accept = o.cells \ HeldUnion(s)
  BY <1>1, RecvHaveType DEF GoodNode
<1>3. s1 \in NodeState /\ s1.relay = s.relay /\ s1.ext = s.ext /\ s1.subs = s.subs
  BY <1>1, <1>2 DEF NodeState
<1>4. KeptSets(s1, o) = KeptSets(s, o)
  BY <1>3 DEF KeptSets, IsSubscribed
<1>5. \A x \in s1.relay.cells : ~IsSubscribed(s1, x)
  BY <1>3 DEF GoodNode, IsSubscribed
<1>6. /\ s2 \in NodeState /\ s2.subs = s1.subs
      /\ s2.ext = Ingest(s1.ext, Fetch(o, {x \in o.cells : IsSubscribed(s1, x)}))
  <2> HIDE DEF s1
  <2>1. kept \in KeptSets(s1, o)
    BY <1>4
  <2> QED
    BY <1>3, <1>5, <2>1, IngestParkedFacts
<1>7. s2.subs = s.subs /\ s2.ext.cells = s.ext.cells \cup mine
  BY <1>3, <1>6 DEF Ingest, Fetch, IsSubscribed
<1>8. s3.subs = s.subs /\ s3.ext.cells = s.ext.cells \cup mine
  BY <1>6, <1>7, ReconcileFacts
<1>9. NodeRecvHave(s, Me, HaveMessage(from, o), kept)
         = [st |-> s3, fx |-> RouteFx(s3, Me, r.fx, o)]
  BY DEF NodeRecvHave, HaveMessage
<1> HIDE DEF s3, r
<1>10. RouteFx(s3, Me, r.fx, o).deliver = mine \ HeldUnion(s)
  BY <1>2, <1>8 DEF RouteFx, IsSubscribed
<1> QED
  BY <1>8, <1>9, <1>10 DEF HeldUnion

\* Whatever the interleaving, a node announces exactly the ops that a Have
\* brought into ext and that it held nowhere before.
THEOREM DeliveredIsNew == Spec => DeliverExactlyNew
<1>1. NodeInv /\ [Next]_vars
         => [out'.deliver = IF act' = "recvHave" THEN node'.ext.cells \ HeldUnion(node)
                                                 ELSE {}]_vars
  <2> SUFFICES ASSUME NodeInv, Next
               PROVE  out'.deliver = IF act' = "recvHave"
                                     THEN node'.ext.cells \ HeldUnion(node) ELSE {}
    OBVIOUS
  <2>1. CASE RecvHaveAction
    <3>0. PICK from \in NodeId, o \in Bodies : \E kept \in KeptSets(node, o) :
             Becomes(NodeRecvHave(node, Me, HaveMessage(from, o), kept), "recvHave")
      BY <2>1 DEF RecvHaveAction
    <3>1. PICK kept \in KeptSets(node, o) :
             Becomes(NodeRecvHave(node, Me, HaveMessage(from, o), kept), "recvHave")
      BY <3>0
    <3>2. o \in Ops /\ GoodNode(node)
      BY EnvAssumption DEF NodeInv
    <3>3. /\ node' = NodeRecvHave(node, Me, HaveMessage(from, o), kept).st
          /\ out' = NodeRecvHave(node, Me, HaveMessage(from, o), kept).fx
          /\ act' = "recvHave"
      BY <3>1 DEF Becomes
    <3> QED
      BY <3>2, <3>3, DeliveredByHave
  <2>2. ASSUME NEW s, NEW id, NEW fx, NEW a \in Acts \ {"recvHave"},
               Becomes(Quiet(s), a) \/ Becomes(Outcome(s, id, fx), a)
        PROVE  out'.deliver = {} /\ act' # "recvHave"
    BY <2>2, NothingDelivered DEF Becomes
  <2>3. CASE TickAction \/ ArmWantAction \/ ArmHaveAction
    BY <2>2, <2>3 DEF TickAction, ArmWantAction, ArmHaveAction, NodeTick, NodeArmWant,
                      NodeArmHave, Acts
  <2>4. CASE FireWantAction
    BY <2>2, <2>4 DEF FireWantAction, NodeFireWant, Acts
  <2>5. CASE FireHaveAction
    BY <2>2, <2>5 DEF FireHaveAction, NodeFireHave, Acts
  <2>6. CASE RecvWantAction
    BY <2>2, <2>6 DEF RecvWantAction, NodeRecvWant, Acts
  <2>7. CASE AuthoredAction
    BY <2>2, <2>7 DEF AuthoredAction, Authored, Acts
  <2>8. CASE SubscribeAction \/ UnsubscribeAction
    BY <2>2, <2>8 DEF SubscribeAction, UnsubscribeAction, Subscribe, Unsubscribe, Acts
  <2>9. CASE NativeSyncAction \/ AppGcAction
    BY <2>2, <2>9 DEF NativeSyncAction, AppGcAction, NativeSync, AppGc, Acts
  <2>10. CASE RelayEvictAction \/ RelayEvictPayloadsAction
    BY <2>2, <2>10 DEF RelayEvictAction, RelayEvictPayloadsAction, RelayEvict,
                       RelayEvictPayloads, Acts
  <2> QED
    BY <2>1, <2>3, <2>4, <2>5, <2>6, <2>7, <2>8, <2>9, <2>10 DEF Next
<1> QED
  BY <1>1, NodeInitInv, NodeNextInv, PTL DEF Spec, DeliverExactlyNew

-----------------------------------------------------------------------------
\* EveryLackAsked.

\* The seen set after a Want fires asks for whatever an own entry asks for:
\* an uncovered entry was added to it, a covered one is asked for already.
LEMMA FiredIsAsked ==
    ASSUME NEW r \in RouterState, NEW e \in MyInterest(r), NEW x \in AskWithin(e, Cell)
    PROVE  x \in AskOf(SeenEntries(FireWant(r).st), Cell)
<1> DEFINE seen == NoteSeen(r.seen, NextWant(r))
<1>1. e \in Entry /\ SeenEntries(r) \in SUBSET Entry
  BY InterestTypes
<1>2. FireWant(r).st.seen = seen
  BY DEF FireWant, RouterState
<1>3. SeenEntries(r) \cup NextWant(r) \subseteq SeenEntries(FireWant(r).st)
  <2>1. ASSUME NEW w \in r.seen
        PROVE  w.entry \in SeenEntries(FireWant(r).st)
    <3>1. CASE w.entry \in NextWant(r)
      <4>1. [entry |-> w.entry, ttl |-> WantTTL] \in seen
        BY <3>1 DEF NoteSeen
      <4> QED
        BY <1>2, <4>1 DEF SeenEntries
    <3>2. CASE w.entry \notin NextWant(r)
      BY <1>2, <3>2 DEF SeenEntries, NoteSeen
    <3> QED
      BY <3>1, <3>2
  <2>2. ASSUME NEW f \in NextWant(r)
        PROVE  f \in SeenEntries(FireWant(r).st)
    <3>1. [entry |-> f, ttl |-> WantTTL] \in seen
      BY DEF NoteSeen
    <3> QED
      BY <1>2, <3>1 DEF SeenEntries
  <2> QED
    BY <2>1, <2>2 DEF SeenEntries
<1>4. CASE CoveredBy(e, SeenEntries(r))
  <2>1. PICK f \in SeenEntries(r) : x \in AskWithin(f, Cell)
    BY <1>1, <1>4, CoveredAskIsAsked
  <2> QED
    BY <1>3, <2>1 DEF AskOf
<1>5. CASE ~CoveredBy(e, SeenEntries(r))
  <2>1. e \in NextWant(r)
    BY <1>5 DEF NextWant, UncoveredBy
  <2> QED
    BY <1>3, <2>1 DEF AskOf
<1> QED
  BY <1>4, <1>5

\* Cancellation never leaves an op unasked.
THEOREM LackIsAsked == Spec => EveryLackAsked
<1>1. NodeInv /\ [Next]_vars
         => [act' = "fireWant" =>
               \A x \in Cell :
                  ChannelOf(x) \in ChannelsOfInterest(node.router) /\ x \notin node.router.held
                     => x \in AskOf(SeenEntries(node'.router), Cell)]_vars
  <2> SUFFICES ASSUME NodeInv, Next, act' = "fireWant", NEW x \in Cell,
                      ChannelOf(x) \in ChannelsOfInterest(node.router),
                      x \notin node.router.held
               PROVE  x \in AskOf(SeenEntries(node'.router), Cell)
    OBVIOUS
  <2> DEFINE r == node.router
             c == ChannelOf(x)
             e == Whole(c, {y \in r.held : ChannelOf(y) = c})
  <2>1. r \in RouterState
    BY DEF NodeInv, GoodNode, NodeState
  <2>2. FireWantAction
    BY DEF Next, TickAction, ArmWantAction, ArmHaveAction, FireHaveAction, RecvWantAction,
           RecvHaveAction, AuthoredAction, SubscribeAction, UnsubscribeAction,
           NativeSyncAction, AppGcAction, RelayEvictAction, RelayEvictPayloadsAction, Becomes
  <2>3. node'.router = FireWant(r).st
    BY <2>2 DEF FireWantAction, Becomes, NodeFireWant, Outcome, NodeInv, GoodNode, NodeState
  <2>4. e \in MyInterest(r)
    BY DEF MyInterest, FromHeld
  <2>5. InScope(e, AuthorOf(x))
    <3>1. Prefix[AuthorOf(x)] \in 0..MaxPrefix
      BY PrefixAssumption DEF Cell, AuthorOf
    <3> QED
      BY <3>1 DEF InScope, Whole
  <2>6. x \in AskWithin(e, Cell)
    BY <2>5, AskMember DEF Whole
  <2> QED
    BY <2>1, <2>3, <2>4, <2>6, FiredIsAsked
<1> QED
  BY <1>1, NodeInitInv, NodeNextInv, PTL DEF Spec, EveryLackAsked

-----------------------------------------------------------------------------
\* The order in which parked ops are visited.

\* The order in which parked ops are visited is a strict total order.
LEMMA PrecedesOrder ==
    /\ \A x \in Cell : ~Precedes(x, x)
    /\ \A x, y, z \in Cell : Precedes(x, y) /\ Precedes(y, z) => Precedes(x, z)
    /\ \A x, y \in Cell : x # y => Precedes(x, y) \/ Precedes(y, x)
<1>1. \A x \in Cell : x[1] \in Nat /\ x[2] \in Nat /\ x[3] \in Nat
  BY IdsAssumption DEF Cell
<1>2. ASSUME NEW x \in Cell, NEW y \in Cell, x[1] = y[1], x[2] = y[2], x[3] = y[3]
      PROVE  x = y
  BY <1>2 DEF Cell
<1>3. \A x, y \in Cell : x # y => Precedes(x, y) \/ Precedes(y, x)
  BY <1>1, <1>2 DEF Precedes
<1> QED
  BY <1>1, <1>3 DEF Precedes

\* A finite set of cells that is not empty has a last one.
LEMMA LastOfFinite ==
    ASSUME NEW S \in SUBSET Cell, IsFiniteSet(S), S # {}
    PROVE  \E m \in S : \A y \in S : y = m \/ Precedes(y, m)
<1> DEFINE After(m) == {y \in S : Precedes(m, y)}
           T == {After(m) : m \in S}
<1>1. T \subseteq FiniteSubsetsOf(S) /\ T # {}
  <2>1. FiniteSubsetsOf(S) = SUBSET S
    BY FS_FiniteSubsetsOfFinite
  <2>2. \A m \in S : After(m) \in SUBSET S
    OBVIOUS
  <2>3. T \subseteq SUBSET S
    BY <2>2
  <2>4. PICK m \in S : TRUE
    OBVIOUS
  <2>5. After(m) \in T
    OBVIOUS
  <2> HIDE DEF T
  <2> QED
    BY <2>1, <2>3, <2>5
<1>2. PICK A \in T : \A B \in T : <<B, A>> \notin StrictSubsetOrdering(S)
  BY <1>1, FS_StrictSubsetOrderingWellFounded, WFMin, Zenon
<1>3. PICK m \in S : A = After(m)
  OBVIOUS
<1>4. ASSUME NEW y \in S, Precedes(m, y) PROVE FALSE
  <2>1. After(y) \subseteq After(m)
    BY <1>4, PrecedesOrder
  <2>2. y \in After(m) /\ y \notin After(y)
    BY <1>4, PrecedesOrder
  <2>3. <<After(y), A>> \in StrictSubsetOrdering(S)
    BY <1>3, <2>1, <2>2 DEF StrictSubsetOrdering
  <2> QED
    BY <1>2, <2>3
<1> QED
  BY <1>4, PrecedesOrder

-----------------------------------------------------------------------------
\* RelayWithinCap.

\* What ingest_parked keeps fits: the last op it keeps was checked beside all
\* the others.
LEMMA KeptFits ==
    ASSUME NEW s \in NodeState, SmallStore(s.relay),
           NEW parked \in Ops, IsFiniteSet(parked.cells), NEW kept \in KeptSets(s, parked)
    PROVE  SmallStore(Ingest(s.relay, Fetch(parked, kept)))
<1>1. kept \subseteq parked.cells /\ kept \subseteq Cell /\ IsFiniteSet(kept)
  BY FS_Subset, OpsTypes DEF KeptSets
<1>2. Ingest(s.relay, Fetch(parked, kept)).cells = s.relay.cells \cup kept
  BY <1>1 DEF Ingest, Fetch
<1>3. IsFiniteSet(s.relay.cells \cup kept)
  BY <1>1, FS_Union DEF SmallStore
<1>4. CASE kept = {}
  <2>1. Fetch(parked, kept) = NoOps
    BY <1>4 DEF Fetch, NoOps
  <2>2. Ingest(s.relay, NoOps) = s.relay
    BY DEF Ingest, NoOps, NodeState, Ops
  <2> QED
    BY <2>1, <2>2
<1>5. CASE kept # {}
  <2>1. PICK m \in kept : \A y \in kept : y = m \/ Precedes(y, m)
    BY <1>1, <1>5, LastOfFinite
  <2>2. kept = {y \in kept : Precedes(y, m)} \cup {m}
    BY <2>1
  <2>3. Fits(s.relay, Fetch(parked, {y \in kept : Precedes(y, m)} \cup {m}))
    BY DEF KeptSets
  <2>4. Fits(s.relay, Fetch(parked, kept))
    BY <2>2, <2>3
  <2> QED
    BY <1>2, <1>3, <2>4 DEF Fits, SmallStore
<1> QED
  BY <1>4, <1>5

-----------------------------------------------------------------------------
\* What each step does to the stores.

\* s is t but for what the transition of res took from the relay.
RelayShrinks(s, res) ==
    res.st.relay.cells \subseteq s.relay.cells /\ res.st.relay.pay \subseteq s.relay.pay

\* No op and no payload of s is missing in the outcome.
Keeps(s, res) ==
    /\ HeldUnion(s) \subseteq HeldUnion(res.st)
    /\ s.relay.pay \cup s.ext.pay \subseteq res.st.relay.pay \cup res.st.ext.pay

\* Router-only transitions leave both stores alone.
LEMMA RouterKeepsStores ==
    ASSUME NEW s, GoodNode(s), NEW d, NEW msg
    PROVE  \A res \in {NodeTick(s, d), NodeArmWant(s, d), NodeArmHave(s, d),
                       NodeFireWant(s, Me), NodeFireHave(s, Me), NodeRecvWant(s, Me, msg)} :
              RelayShrinks(s, res) /\ Keeps(s, res)
<1>1. \A r : [s EXCEPT !.router = r].relay = s.relay /\ [s EXCEPT !.router = r].ext = s.ext
  BY DEF GoodNode, NodeState
<1>2. ASSUME NEW r, NEW fx
      PROVE  LET t == [s EXCEPT !.router = r]
             IN  /\ RelayShrinks(s, Outcome(t, Me, fx)) /\ Keeps(s, Outcome(t, Me, fx))
                 /\ RelayShrinks(s, Quiet(t)) /\ Keeps(s, Quiet(t))
  BY <1>1 DEF RelayShrinks, Keeps, Outcome, Quiet, HeldUnion
<1> QED
  BY <1>2 DEF NodeTick, NodeArmWant, NodeArmHave, NodeFireWant, NodeFireHave, NodeRecvWant

\* What a received Have does to the two stores.
LEMMA RecvHaveStores ==
    ASSUME NEW s, GoodNode(s), NEW from \in NodeId, NEW o \in Ops, NEW kept \in KeptSets(s, o)
    PROVE  LET res == NodeRecvHave(s, Me, HaveMessage(from, o), kept)
           IN  Keeps(s, res) /\ res.st.relay = Ingest(s.relay, Fetch(o, kept))
<1> DEFINE r == RecvHave(s.router, from, o.cells)
           s1 == [s EXCEPT !.router = r.st]
           s2 == IngestParked(s1, o, kept)
           s3 == ReconcileHeld(s2)
<1>1. s \in NodeState /\ s.router \in RouterState /\ o.cells \in SUBSET Cell
  BY OpsTypes DEF GoodNode, NodeState
<1>2. r.st \in RouterState
  BY <1>1, RecvHaveType
<1>3. s1 \in NodeState /\ s1.relay = s.relay /\ s1.ext = s.ext /\ s1.subs = s.subs
  BY <1>1, <1>2 DEF NodeState
<1>4. kept \in KeptSets(s1, o)
  BY <1>3 DEF KeptSets, IsSubscribed
<1>5. \A x \in s1.relay.cells : ~IsSubscribed(s1, x)
  BY <1>3 DEF GoodNode, IsSubscribed
<1>6. /\ s2 \in NodeState
      /\ s2.relay = Ingest(s1.relay, Fetch(o, kept))
      /\ s2.ext = Ingest(s1.ext, Fetch(o, {x \in o.cells : IsSubscribed(s1, x)}))
  <2> HIDE DEF s1
  <2>1. s2 \in NodeState
    BY <1>3, <1>4, <1>5, IngestParkedFacts
  <2>2. s2.relay = Ingest(s1.relay, Fetch(o, kept))
    BY DEF IngestParked
  <2>3. s2.ext = Ingest(s1.ext, Fetch(o, {x \in o.cells : IsSubscribed(s1, x)}))
    BY DEF IngestParked
  <2> QED
    BY <2>1, <2>2, <2>3
<1>7. s3.relay = s2.relay /\ s3.ext = s2.ext
  BY <1>6, ReconcileFacts
<1>8. NodeRecvHave(s, Me, HaveMessage(from, o), kept).st = s3
  BY DEF NodeRecvHave, HaveMessage
<1>9. /\ s3.relay = Ingest(s.relay, Fetch(o, kept))
      /\ s.relay.cells \subseteq s3.relay.cells /\ s.relay.pay \subseteq s3.relay.pay
      /\ s.ext.cells \subseteq s3.ext.cells /\ s.ext.pay \subseteq s3.ext.pay
  <2> HIDE DEF s3, s2, s1
  <2> QED
    BY <1>3, <1>6, <1>7 DEF Ingest
<1> HIDE DEF s3
<1> QED
  BY <1>8, <1>9 DEF Keeps, HeldUnion

\* Ingesting into ext keeps the relay and loses nothing.
LEMMA IngestExtStores ==
    ASSUME NEW s, GoodNode(s), NEW o \in Ops, NEW t, t = [s EXCEPT !.ext = Ingest(s.ext, o)]
    PROVE  /\ ReconcileHeld(t).relay = s.relay
           /\ ReconcileHeld(t).ext = Ingest(s.ext, o)
           /\ ReconcileHeld(t) \in NodeState
           /\ RelayShrinks(s, Quiet(ReconcileHeld(t))) /\ Keeps(s, Quiet(ReconcileHeld(t)))
<1>1. Ingest(s.ext, o) \in Ops
  BY OpsTypes DEF GoodNode, NodeState
<1>2. t \in NodeState /\ t.relay = s.relay /\ t.ext = Ingest(s.ext, o)
  BY <1>1 DEF GoodNode, NodeState
<1>3. /\ ReconcileHeld(t).relay = s.relay /\ ReconcileHeld(t).ext = Ingest(s.ext, o)
      /\ ReconcileHeld(t) \in NodeState
  BY <1>2, ReconcileFacts
<1> DEFINE u == ReconcileHeld(t)
<1>4. Quiet(u).st = u
  BY DEF Quiet
<1>5. /\ u.relay = s.relay
      /\ s.ext.cells \subseteq u.ext.cells /\ s.ext.pay \subseteq u.ext.pay
  <2>1. /\ Ingest(s.ext, o).cells = s.ext.cells \cup o.cells
        /\ Ingest(s.ext, o).pay = s.ext.pay \cup o.pay
    BY DEF Ingest
  <2>2. u.relay = s.relay /\ u.ext = Ingest(s.ext, o)
    BY <1>3
  <2> HIDE DEF u
  <2> QED
    BY <2>1, <2>2
<1> HIDE DEF u
<1>6. RelayShrinks(s, Quiet(u)) /\ Keeps(s, Quiet(u))
  BY <1>4, <1>5 DEF RelayShrinks, Keeps, HeldUnion
<1> QED
  BY <1>3, <1>6 DEF u

\* What an append does to the two stores.
LEMMA AuthoredStores ==
    ASSUME NEW s, GoodNode(s), NEW x \in Cell, NEW hasPayload \in BOOLEAN
    PROVE  /\ RelayShrinks(s, Authored(s, Me, x, hasPayload))
           /\ Keeps(s, Authored(s, Me, x, hasPayload))
<1> DEFINE op == [cells |-> {x}, pay |-> IF hasPayload THEN {x} ELSE {}]
           t == ReconcileHeld([s EXCEPT !.ext = Ingest(@, op)])
           res == Push(t.router, Me, {x})
           u == [t EXCEPT !.router = res.st]
<1>1. op \in Ops
  BY DEF Ops
<1>2. t.relay = s.relay /\ t.ext = Ingest(s.ext, op) /\ t \in NodeState
  <2> HIDE DEF op
  <2> QED
    BY <1>1, IngestExtStores
<1>3. Authored(s, Me, x, hasPayload).st = u
  BY DEF Authored, Outcome
<1>4. u.relay = s.relay /\ u.ext = Ingest(s.ext, op)
  <2> HIDE DEF t, op, res
  <2> QED
    BY <1>2 DEF NodeState
<1> HIDE DEF u
<1> QED
  BY <1>3, <1>4 DEF RelayShrinks, Keeps, HeldUnion, Ingest

-----------------------------------------------------------------------------

\* The step relation of the stores: a received Have adds what fits; every
\* other step leaves the relay as it is or takes from it; and only a step
\* that reclaims space loses anything.
LEMMA StoreSteps ==
    ASSUME NodeInv, Next
    PROVE  /\ \/ node'.relay.cells \subseteq node.relay.cells /\ node'.relay.pay \subseteq node.relay.pay
              \/ \E o \in Bodies : \E kept \in KeptSets(node, o) :
                    node'.relay = Ingest(node.relay, Fetch(o, kept))
           /\ \/ act' = "reclaim"
              \/ /\ HeldUnion(node) \subseteq HeldUnion(node')
                 /\ node.relay.pay \cup node.ext.pay \subseteq node'.relay.pay \cup node'.ext.pay
<1> DEFINE Small == node'.relay.cells \subseteq node.relay.cells /\ node'.relay.pay \subseteq node.relay.pay
           Kept == /\ HeldUnion(node) \subseteq HeldUnion(node')
                   /\ node.relay.pay \cup node.ext.pay \subseteq node'.relay.pay \cup node'.ext.pay
<1>0. GoodNode(node) /\ node.relay \in Ops /\ node.ext \in Ops /\ Me \in NodeId
  BY EnvAssumption DEF NodeInv, GoodNode, NodeState
<1>1. ASSUME NEW res, NEW a, Becomes(res, a), RelayShrinks(node, res), Keeps(node, res)
      PROVE  Small /\ Kept
  BY <1>1 DEF Becomes, RelayShrinks, Keeps, HeldUnion
<1>2. CASE TickAction \/ ArmWantAction \/ ArmHaveAction
  BY <1>0, <1>1, <1>2, RouterKeepsStores DEF TickAction, ArmWantAction, ArmHaveAction
<1>3. CASE FireWantAction \/ FireHaveAction \/ RecvWantAction
  BY <1>0, <1>1, <1>3, RouterKeepsStores DEF FireWantAction, FireHaveAction, RecvWantAction
<1>4. CASE RecvHaveAction
  <2>1. PICK from \in NodeId, o \in Bodies : \E kept \in KeptSets(node, o) :
           Becomes(NodeRecvHave(node, Me, HaveMessage(from, o), kept), "recvHave")
    BY <1>4 DEF RecvHaveAction
  <2>2. PICK kept \in KeptSets(node, o) :
           Becomes(NodeRecvHave(node, Me, HaveMessage(from, o), kept), "recvHave")
    BY <2>1
  <2>3. o \in Ops
    BY EnvAssumption
  <2>4. node' = NodeRecvHave(node, Me, HaveMessage(from, o), kept).st
    BY <2>2 DEF Becomes
  <2> QED
    BY <1>0, <2>3, <2>4, RecvHaveStores DEF Keeps, HeldUnion
<1>5. CASE AuthoredAction
  <2>1. PICK x \in Cell, hasPayload \in BOOLEAN :
           Becomes(Authored(node, Me, x, hasPayload), "local")
    BY <1>5, EnvAssumption DEF AuthoredAction
  <2> QED
    BY <1>0, <1>1, <2>1, AuthoredStores
<1>6. CASE SubscribeAction
  <2>1. PICK c \in Channel : Becomes(Subscribe(node, c), "local")
    BY <1>6 DEF SubscribeAction
  <2>2. RelayShrinks(node, Subscribe(node, c)) /\ Keeps(node, Subscribe(node, c))
    BY <1>0, SubscribeGood DEF RelayShrinks, Keeps
  <2> QED
    BY <1>1, <2>1, <2>2
<1>7. CASE UnsubscribeAction
  <2>1. PICK c \in Channel : Becomes(Unsubscribe(node, c), "local")
    BY <1>7 DEF UnsubscribeAction
  <2>2. RelayShrinks(node, Unsubscribe(node, c)) /\ Keeps(node, Unsubscribe(node, c))
    BY <1>0, UnsubscribeGood DEF RelayShrinks, Keeps, HeldUnion
  <2> QED
    BY <1>1, <2>1, <2>2
<1>8. CASE NativeSyncAction
  <2>1. PICK x \in Cell, hasPayload \in BOOLEAN :
           Becomes(NativeSync(node, [cells |-> {x}, pay |-> IF hasPayload THEN {x} ELSE {}]),
                   "local")
    BY <1>8, EnvAssumption DEF NativeSyncAction
  <2> DEFINE o == [cells |-> {x}, pay |-> IF hasPayload THEN {x} ELSE {}]
  <2>2. o \in Ops
    BY DEF Ops
  <2>3. Becomes(NativeSync(node, o), "local")
    BY <2>1
  <2> HIDE DEF o
  <2>4. RelayShrinks(node, NativeSync(node, o)) /\ Keeps(node, NativeSync(node, o))
    BY <1>0, <2>2, IngestExtStores DEF NativeSync
  <2> QED
    BY <1>1, <2>3, <2>4
<1>9. CASE AppGcAction
  <2>1. PICK R : Becomes(AppGc(node, R), "reclaim")
    BY <1>9 DEF AppGcAction
  <2>2. Evict(node.ext, R) \in Ops
    BY <1>0, OpsTypes
  <2>3. AppGc(node, R).st.relay = node.relay
    BY <1>0, <2>2, StoresGood DEF AppGc, Quiet
  <2> QED
    BY <2>1, <2>3 DEF Becomes
<1>10. CASE RelayEvictAction \/ RelayEvictPayloadsAction
  <2>1. PICK R : Becomes(RelayEvict(node, R), "reclaim") \/ Becomes(RelayEvictPayloads(node, R), "reclaim")
    BY <1>10 DEF RelayEvictAction, RelayEvictPayloadsAction
  <2>2. /\ Evict(node.relay, R) \in Ops /\ EvictPayloads(node.relay, R) \in Ops
        /\ Evict(node.relay, R).cells \subseteq node.relay.cells
        /\ EvictPayloads(node.relay, R).cells \subseteq node.relay.cells
        /\ Evict(node.relay, R).pay \subseteq node.relay.pay
        /\ EvictPayloads(node.relay, R).pay \subseteq node.relay.pay
    BY <1>0, OpsTypes DEF Evict, EvictPayloads, Ops
  <2>3. ASSUME NEW relay \in Ops, relay.cells \subseteq node.relay.cells
        PROVE  Quiet(ReconcileHeld([node EXCEPT !.relay = relay])).st.relay = relay
    BY <1>0, <2>3, StoresGood DEF Quiet
  <2>4. /\ RelayEvict(node, R).st.relay = Evict(node.relay, R)
        /\ RelayEvictPayloads(node, R).st.relay = EvictPayloads(node.relay, R)
    BY <2>2, <2>3 DEF RelayEvict, RelayEvictPayloads
  <2> QED
    BY <2>1, <2>2, <2>4 DEF Becomes
<1> QED
  BY <1>2, <1>3, <1>4, <1>5, <1>6, <1>7, <1>8, <1>9, <1>10 DEF Next

\* The relay never exceeds its cap.
THEOREM RelayIsCapped == Spec => []RelayWithinCap
<1> DEFINE CapInv == NodeInv /\ SmallStore(node.relay)
<1>1. Init => SmallStore(node.relay)
  <2> SUFFICES ASSUME NEW subs, node = NewNode(subs)
               PROVE  SmallStore(node.relay)
    BY DEF Init
  <2>1. node.relay.cells = {} /\ node.relay.pay = {}
    BY DEF NewNode, NoOps
  <2> QED
    BY <2>1, FS_EmptySet, CapAssumption DEF SmallStore, Usage
<1>2. CapInv /\ [Next]_vars => SmallStore(node.relay)'
  <2>1. CASE UNCHANGED vars
    BY <2>1 DEF vars, SmallStore, Usage
  <2>2. ASSUME CapInv, Next PROVE SmallStore(node.relay)'
    <3>1. node.relay \in Ops /\ node \in NodeState
      BY <2>2 DEF NodeInv, GoodNode, NodeState
    <3>2. NodeInv'
      BY <2>2, NodeNextInv
    <3>3. node'.relay \in Ops
      BY <3>2 DEF NodeInv, GoodNode, NodeState
    <3>4. CASE node'.relay.cells \subseteq node.relay.cells /\ node'.relay.pay \subseteq node.relay.pay
      BY <2>2, <3>1, <3>3, <3>4, SmallerStore DEF SmallStore, Usage
    <3>5. ASSUME NEW o \in Bodies, NEW kept \in KeptSets(node, o),
                 node'.relay = Ingest(node.relay, Fetch(o, kept))
          PROVE  SmallStore(node.relay)'
      <4>1. o \in Ops /\ IsFiniteSet(o.cells)
        BY EnvAssumption
      <4>2. SmallStore(Ingest(node.relay, Fetch(o, kept)))
        BY <2>2, <3>1, <4>1, KeptFits
      <4> QED
        BY <3>5, <4>2 DEF SmallStore, Usage
    <3> QED
      BY <2>2, <3>4, <3>5, StoreSteps
  <2> QED
    BY <2>1, <2>2
<1>3. CapInv => RelayWithinCap
  BY DEF SmallStore, RelayWithinCap
<1> HIDE DEF CapInv
<1>4. Init => CapInv
  BY <1>1, NodeInitInv DEF CapInv
<1>5. CapInv /\ [Next]_vars => CapInv'
  BY <1>2, NodeNextInv DEF CapInv
<1> QED
  BY <1>3, <1>4, <1>5, PTL DEF Spec

\* Only eviction and the application's GC take an op or a payload away.
THEOREM OnlyReclaimLoses == Spec => NothingLost
<1>1. NodeInv /\ [Next]_vars
         => [ \/ act' = "reclaim"
              \/ /\ HeldUnion(node) \subseteq HeldUnion(node')
                 /\ node.relay.pay \cup node.ext.pay \subseteq node'.relay.pay \cup node'.ext.pay]_vars
  BY StoreSteps
<1> QED
  BY <1>1, NodeInitInv, NodeNextInv, PTL DEF Spec, NothingLost

=============================================================================
