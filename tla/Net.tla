-------------------------------- MODULE Net ---------------------------------
(***************************************************************************)
(* The network (dash-router-net-model/src/net.rs): nodes on a fixed        *)
(* topology, and the messages in flight between them.  A broadcast becomes *)
(* one flight for each neighbour of the sender; any flight may arrive      *)
(* next, be lost or be duplicated.  Each node has a clock of its own.      *)
(***************************************************************************)
EXTENDS Node, Bags

CONSTANTS
    Neighbor,   \* Topology: the nodes that hear each node
    K,          \* most messages in flight
    Authorable, \* cells that may be authored, or arrive out of band
    Home,       \* the node that authors a cell
    Subs,       \* the subscriptions each node starts with
    Budgets     \* bounds on each kind of action: a run draws on one of them

ASSUME TopologyAssumption ==
    /\ Neighbor \in [NodeId -> SUBSET NodeId]
    /\ \A n, m \in NodeId : m \in Neighbor[n] <=> n \in Neighbor[m]
    /\ \A n \in NodeId : n \notin Neighbor[n]
    /\ K \in Nat

\* The kinds of action that are bounded.
Kind == {"ticks", "drops", "dups", "fires", "authors", "changes", "syncs", "reclaims"}

ASSUME BudgetsAssumption == Budgets \subseteq [Kind -> Nat] /\ Budgets # {}

ASSUME InputsAssumption ==
    /\ Authorable \subseteq Cell
    /\ Subs \in [NodeId -> SUBSET Channel]

VARIABLES
    nodes,      \* NetState::nodes
    inflight,   \* NetState::inflight, a bag of flights
    spent,      \* ghost: the bounds of this run, and what was used of them
    said        \* ghost: the cells each node has broadcast in its Haves

netVars == <<nodes, inflight, spent, said>>

Flight == [to : NodeId, message : WireMessage]

\* Each copy in flight, and how many they are: inflight.len().
Copies(bag) == UNION {{f} \X (1..bag[f]) : f \in DOMAIN bag}

FlightCount(bag) == Cardinality(Copies(bag))

Untouched == [k \in Kind |-> 0]

TypeOK ==
    /\ nodes \in [NodeId -> NodeState]
    /\ IsABag(inflight) /\ BagToSet(inflight) \subseteq Flight
    /\ FlightCount(inflight) <= K
    /\ spent.limit \in Budgets
    /\ \A k \in Kind : spent.used[k] \in 0..spent.limit[k]
    /\ said \in [NodeId -> SUBSET Cell]

Init ==
    /\ nodes = [n \in NodeId |-> NewNode(Subs[n])]
    /\ inflight = EmptyBag
    /\ \E b \in Budgets : spent = [limit |-> b, used |-> Untouched]
    /\ said = [n \in NodeId |-> {}]

-----------------------------------------------------------------------------

\* The flights of a broadcast by n.
Flights(n, send) == SetToBag({[to |-> m, message |-> msg] : m \in Neighbor[n], msg \in send})

\* The cells that a broadcast carries.
Spoken(send) == UNION {msg.ops.cells : msg \in send}

\* Run a node transition on n, over the flights that remain.
Apply(n, res, remaining) == \E r \in {res} :
    /\ nodes' = [nodes EXCEPT ![n] = r.st]
    /\ inflight' = remaining (+) Flights(n, r.fx.send)
    /\ FlightCount(inflight') <= K
    /\ said' = [said EXCEPT ![n] = @ \cup Spoken(r.fx.send)]

\* Count a bounded action.
Spend(kind) ==
    /\ spent.used[kind] < spent.limit[kind]
    /\ spent' = [spent EXCEPT !.used[kind] = @ + 1]

NodeTicks(n) ==
    /\ TickEnabled(nodes[n].router, 1)
    /\ Apply(n, NodeTick(nodes[n], 1), inflight)
    /\ Spend("ticks")

NodeArmsWant(n) ==
    /\ ArmWantEnabled(nodes[n].router)
    /\ Apply(n, NodeArmWant(nodes[n], 0), inflight)
    /\ Spend("fires")

NodeFiresWant(n) ==
    /\ WantDue(nodes[n].router)
    /\ Apply(n, NodeFireWant(nodes[n], n), inflight)
    /\ UNCHANGED spent

NodeArmsHave(n) ==
    /\ ArmHaveEnabled(nodes[n].router)
    /\ Apply(n, NodeArmHave(nodes[n], 0), inflight)
    /\ Spend("fires")

NodeFiresHave(n) ==
    /\ HaveDue(nodes[n].router)
    /\ Apply(n, NodeFireHave(nodes[n], n), inflight)
    /\ UNCHANGED spent

\* An op that nobody has is authored by its home node, with its payload.
NodeAuthors(n) == \E x \in Authorable :
    /\ Home[x] = n
    /\ \A m \in NodeId : x \notin HeldUnion(nodes[m])
    /\ Apply(n, Authored(nodes[n], n, x, TRUE), inflight)
    /\ Spend("authors")

\* An op reaches the application out of band (NativeSync).
NodeSyncs(n) == \E x \in Authorable :
    /\ Apply(n, NativeSync(nodes[n], [cells |-> {x}, pay |-> {x}]), inflight)
    /\ Spend("syncs")

\* AppGc: the application deletes what it likes.
NodeCollects(n) == \E R \in (SUBSET nodes[n].ext.cells) \ {{}} :
    /\ Apply(n, AppGc(nodes[n], R), inflight)
    /\ Spend("reclaims")

\* RelayEvict, RelayEvictPayloads: the relay evicts whatever it likes.
NodeEvicts(n) ==
    /\ \/ \E R \in (SUBSET nodes[n].relay.cells) \ {{}} :
              Apply(n, RelayEvict(nodes[n], R), inflight)
       \/ \E R \in (SUBSET nodes[n].relay.pay) \ {{}} :
              Apply(n, RelayEvictPayloads(nodes[n], R), inflight)
    /\ Spend("reclaims")

NodeChangesSubs(n) == \E c \in Channel :
    /\ \/ Apply(n, Subscribe(nodes[n], c), inflight)
       \/ Apply(n, Unsubscribe(nodes[n], c), inflight)
    /\ Spend("changes")

\* NetAction::Node: anything but Recv.
NodeActs(n) ==
    \/ NodeTicks(n) \/ NodeArmsWant(n) \/ NodeFiresWant(n)
    \/ NodeArmsHave(n) \/ NodeFiresHave(n)
    \/ NodeAuthors(n) \/ NodeChangesSubs(n)
    \/ NodeSyncs(n) \/ NodeCollects(n) \/ NodeEvicts(n)

\* What the receipt of flight f may come to.
Receipts(f) ==
    LET s == nodes[f.to]
    IN  IF f.message.kind = "want"
        THEN {NodeRecvWant(s, f.to, f.message)}
        ELSE {NodeRecvHave(s, f.to, f.message, kept) : kept \in KeptSets(s, f.message.ops)}

Deliver == \E f \in BagToSet(inflight) : \E res \in Receipts(f) :
    /\ Apply(f.to, res, inflight (-) SetToBag({f}))
    /\ UNCHANGED spent

Drop == \E f \in BagToSet(inflight) :
    /\ inflight' = inflight (-) SetToBag({f})
    /\ Spend("drops")
    /\ UNCHANGED <<nodes, said>>

Duplicate == \E f \in BagToSet(inflight) :
    /\ FlightCount(inflight) < K
    /\ inflight' = inflight (+) SetToBag({f})
    /\ Spend("dups")
    /\ UNCHANGED <<nodes, said>>

Next == (\E n \in NodeId : NodeActs(n)) \/ Deliver \/ Drop \/ Duplicate

Spec == Init /\ [][Next]_netVars

-----------------------------------------------------------------------------
\* What the properties below take for granted.

\* No set of nodes is cut off from the others.
Connected ==
    \A S \in SUBSET NodeId : S # {} /\ (\A n \in S : Neighbor[n] \subseteq S) => S = NodeId

\* A relay can hold whatever there is, and sheds nothing.
RelaysSuffice == IsFiniteSet(Authorable) /\ 2 * Cardinality(Authorable) <= Cap

\* Nobody has all of a channel, so whoever wants it asks for something: in
\* the code a Want asks for all sequence numbers that its have does not list.
LogsNeverEnd == \A c \in Channel : \E x \in Cell : ChannelOf(x) = c /\ x \notin Authorable

-----------------------------------------------------------------------------
\* Properties.

Quiescent == inflight = EmptyBag

Everywhere(x) == \A n \in NodeId : x \in HeldUnion(nodes[n])

\* A flood covers the network: once a network that has lost nothing is
\* quiet, every op that any node has broadcast has reached every node and
\* was broadcast by it in turn, although the node may have had it out of
\* band before the flood came, and although applications delete and relays
\* evict as they like; and where nothing was deleted or evicted, every node
\* holds it.
FloodCovers ==
    Quiescent /\ spent.used.drops = 0 =>
        \A n, m \in NodeId : \A x \in said[n] :
            /\ x \in said[m]
            /\ spent.used.reclaims = 0 => x \in HeldUnion(nodes[m])

\* Suppressing covered Wants loses no question: once a network that has lost
\* nothing is quiet, and before any clock has moved, every node's seen set
\* asks for the same ops.  A node relays a Want only when its seen set does
\* not cover it, and emits only its own uncovered entries.
WantsReachAll ==
    Quiescent /\ spent.used.drops = 0 /\ spent.used.ticks = 0 =>
        \A n, m \in NodeId :
            AskOf(SeenEntries(nodes[n].router), Cell) = AskOf(SeenEntries(nodes[m].router), Cell)

\* Nothing is said twice: whoever puts a message in flight thereby comes to
\* ask for an op it saw nobody ask for, or to pass on an op it has not passed
\* on, unless it answers a Want.  This is why every flood ends, on any
\* topology, whatever is duplicated or reordered.
Asked(n) == AskOf(SeenEntries(nodes[n].router), Cell)

Passed(n) == RelayedRanges(nodes[n].router)

Speaks ==
    /\ nodes' # nodes
    /\ \E f \in BagToSet(inflight') : BagIn(f, inflight) => inflight'[f] > inflight[f]

NothingSaidTwice ==
    [][Speaks => \E n \in NodeId :
          \/ ~(Asked(n)' \subseteq Asked(n))
          \/ ~(Passed(n)' \subseteq Passed(n))
          \/ HaveDue(nodes[n].router) /\ ~HaveDue(nodes'[n].router)]_netVars

=============================================================================
