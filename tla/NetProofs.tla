----------------------------- MODULE NetProofs ------------------------------
(***************************************************************************)
(* The network, for every topology, universe of cells, cap and time to     *)
(* live, and for any number of nodes and messages: nothing is said twice,  *)
(* a flood covers a connected network, and suppressing covered Wants loses *)
(* no question.                                                            *)
(***************************************************************************)
EXTENDS Net, RouterProofs

-----------------------------------------------------------------------------
\* Bags of flights.

\* What a union of bags and a difference of bags contain, and how often.
LEMMA BagFacts ==
    ASSUME NEW A, NEW B, IsABag(A), IsABag(B)
    PROVE  /\ IsABag(A (+) B) /\ BagToSet(A (+) B) = BagToSet(A) \cup BagToSet(B)
           /\ IsABag(A (-) B) /\ BagToSet(A (-) B) \subseteq BagToSet(A)
           /\ BagToSet(A) \ BagToSet(B) \subseteq BagToSet(A (-) B)
           /\ BagToSet(B) = {} => A (+) B = A
           /\ \A f \in BagToSet(A (-) B) : (A (-) B)[f] <= A[f]
<1>1. /\ \A f \in DOMAIN A : A[f] \in Nat /\ A[f] > 0
      /\ \A f \in DOMAIN B : B[f] \in Nat /\ B[f] > 0
  BY DEF IsABag
<1>2. /\ DOMAIN (A (+) B) = DOMAIN A \cup DOMAIN B
      /\ \A f \in DOMAIN A \cup DOMAIN B :
            (A (+) B)[f] = (IF f \in DOMAIN A THEN A[f] ELSE 0)
                              + (IF f \in DOMAIN B THEN B[f] ELSE 0)
  BY DEF (+)
<1>3. IsABag(A (+) B)
  <2>1. A (+) B = [f \in DOMAIN (A (+) B) |-> (A (+) B)[f]]
    BY DEF (+)
  <2>2. \A f \in DOMAIN (A (+) B) : (A (+) B)[f] \in {n \in Nat : n > 0}
    BY <1>1, <1>2
  <2> QED
    BY <2>1, <2>2 DEF IsABag
<1> DEFINE D == {f \in DOMAIN A : (IF f \in DOMAIN B THEN A[f] - B[f] ELSE A[f]) > 0}
<1>4. A (-) B = [f \in D |-> IF f \in DOMAIN B THEN A[f] - B[f] ELSE A[f]]
  BY DEF (-)
<1>5. IsABag(A (-) B)
  BY <1>1, <1>4 DEF IsABag
<1>6. DOMAIN A \ DOMAIN B \subseteq D
  BY <1>1
<1>7. ASSUME DOMAIN B = {} PROVE A (+) B = A
  <2>1. DOMAIN (A (+) B) = DOMAIN A /\ \A f \in DOMAIN A : (A (+) B)[f] = A[f]
    BY <1>1, <1>2, <1>7
  <2>2. A = [f \in DOMAIN A |-> A[f]] /\ A (+) B = [f \in DOMAIN (A (+) B) |-> (A (+) B)[f]]
    BY <1>3 DEF IsABag
  <2> QED
    BY <2>1, <2>2
<1>8. ASSUME NEW f \in DOMAIN (A (-) B) PROVE (A (-) B)[f] <= A[f]
  <2>1. f \in DOMAIN A /\ (A (-) B)[f] = IF f \in DOMAIN B THEN A[f] - B[f] ELSE A[f]
    BY <1>4
  <2> QED
    BY <1>1, <2>1
<1> QED
  BY <1>2, <1>3, <1>4, <1>5, <1>6, <1>7, <1>8 DEF BagToSet

\* A broadcast puts one flight in the air for each neighbour and message.
LEMMA FlightsFacts ==
    ASSUME NEW n \in NodeId, NEW send
    PROVE  /\ IsABag(Flights(n, send))
           /\ BagToSet(Flights(n, send))
                 = {[to |-> m, message |-> msg] : m \in Neighbor[n], msg \in send}
           /\ send = {} => BagToSet(Flights(n, send)) = {}
BY DEF Flights, SetToBag, IsABag, BagToSet

LEMMA OneFlight == \A f : IsABag(SetToBag({f})) /\ BagToSet(SetToBag({f})) = {f}
BY DEF SetToBag, IsABag, BagToSet

-----------------------------------------------------------------------------
\* What the nodes of a network know, and what they say.

\* The entries that occur: whole scopes, of which only authored cells are held.
WholeEntry == {e \in Entry : e.lo = 0 /\ e.hi = MaxPrefix /\ e.have \subseteq Authorable}

NetNode(s) ==
    /\ s \in NodeState
    /\ s.router.held = HeldUnion(s)
    /\ HeldUnion(s) \subseteq Authorable
    /\ SeenEntries(s.router) \subseteq WholeEntry

NetMessage(m) ==
    /\ m \in WireMessage
    /\ m.interest \subseteq WholeEntry
    /\ m.ops.cells \subseteq Authorable
    /\ m.kind = "want" => m.ops.cells = {}

\* What a node asks for, and what it has passed on.
AskedBy(s) == AskOf(SeenEntries(s.router), Cell)

PassedBy(s) == RelayedRanges(s.router)

\* From s to t the node comes to ask for something new, passes on something
\* new, or answers.
SaysNews(s, t) ==
    \/ ~(AskedBy(t) \subseteq AskedBy(s))
    \/ ~(PassedBy(t) \subseteq PassedBy(s))
    \/ HaveDue(s.router) /\ ~HaveDue(t.router)

\* What the node comes to ask for, it asks its neighbours.
AsksOn(s, res) ==
    \A x \in AskedBy(res.st) \ AskedBy(s) :
        \E m \in res.fx.send : m.kind = "want" /\ x \in AskOf(m.interest, Cell)

\* What the node notes as passed on, it passes on, and it has what it passes
\* on.
PassesOn(s, res) ==
    /\ PassedBy(res.st) \subseteq PassedBy(s) \cup Spoken(res.fx.send)
    /\ Spoken(res.fx.send) \subseteq HeldUnion(res.st)

NetOutcome(s, res) ==
    /\ NetNode(res.st)
    /\ \A m \in res.fx.send : NetMessage(m)
    /\ LogsNeverEnd /\ res.fx.send # {} => SaysNews(s, res.st)
    /\ RelaysSuffice => PassesOn(s, res)
    /\ AsksOn(s, res)

\* Only time makes a node ask for less, and only deleting and evicting make
\* it hold less.
LastingOutcome(s, res) ==
    /\ NetOutcome(s, res)
    /\ AskedBy(s) \subseteq AskedBy(res.st)
    /\ HeldUnion(s) \subseteq HeldUnion(res.st)

\* An entry that is not covered asks for something that nobody seen asks for.
LEMMA UncoveredIsNews ==
    ASSUME NEW e \in WholeEntry, NEW seen \in SUBSET WholeEntry,
           ~CoveredBy(e, seen), LogsNeverEnd
    PROVE  \E x \in Cell : x \in AskWithin(e, Cell) /\ x \notin AskOf(seen, Cell)
<1>1. e \in Entry /\ seen \in SUBSET Entry
  BY DEF WholeEntry
<1>2. CASE Records(e, seen) = {}
  <2>1. e.ch \in Channel
    BY <1>1 DEF Entry, EntryRecord
  <2>2. PICK x \in Cell : ChannelOf(x) = e.ch /\ x \notin Authorable
    BY <2>1 DEF LogsNeverEnd
  <2>3. AuthorOf(x) \in Author
    BY DEF Cell, AuthorOf
  <2>4. InScope(e, AuthorOf(x))
    BY <2>3, PrefixAssumption DEF InScope, WholeEntry
  <2>5. x \in AskWithin(e, Cell)
    BY <2>2, <2>4, AskMember DEF WholeEntry
  <2>6. \A r \in seen : x \notin AskWithin(r, Cell)
    BY <1>2, <2>2, AskMember DEF Records
  <2> QED
    BY <2>5, <2>6 DEF AskOf
<1>3. CASE Records(e, seen) # {}
  <2>1. ScopesCover(e, Records(e, seen))
    BY <1>3 DEF ScopesCover, Records, WholeEntry
  <2>2. PICK x \in AskWithin(e, Cell) : \A r \in seen : x \notin AskWithin(r, Cell)
    BY <1>1, <2>1, UncoveredAsksMore
  <2>3. x \in Cell
    BY <2>2 DEF AskWithin
  <2> QED
    BY <2>2, <2>3 DEF AskOf
<1> QED
  BY <1>2, <1>3

\* A node's own interest lists what it holds, over whole scopes.
LEMMA OwnInterestIsWhole ==
    ASSUME NEW r \in RouterState, r.held \subseteq Authorable
    PROVE  MyInterest(r) \subseteq WholeEntry
<1> SUFFICES ASSUME NEW c \in ChannelsOfInterest(r)
             PROVE  Whole(c, {x \in r.held : ChannelOf(x) = c}) \in WholeEntry
  BY DEF MyInterest, FromHeld
<1>1. Whole(c, {x \in r.held : ChannelOf(x) = c}) \in Entry
  BY InterestTypes DEF MyInterest, FromHeld
<1> QED
  BY <1>1 DEF Whole, WholeEntry

-----------------------------------------------------------------------------
\* The transitions of a node in a network.

\* More entries ask for more (Interest::ask_within).
LEMMA AskGrows ==
    ASSUME NEW i, NEW j, NEW held
    PROVE  /\ i \subseteq j => AskOf(i, held) \subseteq AskOf(j, held)
           /\ AskOf(i \cup j, held) = AskOf(i, held) \cup AskOf(j, held)
BY DEF AskOf

\* What the transitions do to the record of relayed ranges: time shrinks it,
\* and whatever is noted is added.
LEMMA RelayedAfter ==
    ASSUME NEW r \in RouterState
    PROVE  /\ \A d \in Nat : RelayedRanges(Tick(r, d)) \subseteq RelayedRanges(r)
           /\ \A i : RelayedRanges(ArmWant(r, i)) = RelayedRanges(r)
           /\ \A i : RelayedRanges(ArmHave(r, i)) = RelayedRanges(r)
           /\ RelayedRanges(FireWant(r).st) = RelayedRanges(r)
           /\ \A id : RelayedRanges(FireHave(r, id).st) = RelayedRanges(r) \cup NextHave(r)
           /\ \A id : \A R \in SUBSET Cell :
                 RelayedRanges(Push(r, id, R).st) = RelayedRanges(r) \cup R
           /\ \A R : RelayedRanges(Held(r, R)) = RelayedRanges(r)
           /\ \A C : RelayedRanges(Open(r, C)) = RelayedRanges(r)
           /\ \A i : RelayedRanges(RecvWant(r, i).st) = RelayedRanges(r)
           /\ \A from : \A R \in SUBSET Cell :
                 RelayedRanges(RecvHave(r, from, R).st) = RelayedRanges(r) \cup R
<1>1. ASSUME NEW d \in Nat PROVE RelayedRanges(Tick(r, d)) \subseteq RelayedRanges(r)
  <2>1. \A x \in Cell : Tick(r, d).relayed[x] = Age(r.relayed[x], d) /\ r.relayed[x] \in Nat
    BY TTLAssumption DEF Tick, RouterState
  <2> QED
    BY <2>1 DEF RelayedRanges, Age
<1>2. ASSUME NEW R \in SUBSET Cell
      PROVE  {x \in Cell : NoteRelayed(r.relayed, R)[x] > 0} = RelayedRanges(r) \cup R
  BY TTLAssumption DEF NoteRelayed, RelayedRanges
<1>3. ASSUME NEW id PROVE RelayedRanges(FireHave(r, id).st) = RelayedRanges(r) \cup NextHave(r)
  <2>1. FireHave(r, id).st.relayed = NoteRelayed(r.relayed, NextHave(r))
    BY DEF FireHave, RouterState
  <2>2. NextHave(r) \in SUBSET Cell
    BY InterestTypes
  <2>3. RelayedRanges(FireHave(r, id).st)
           = {x \in Cell : NoteRelayed(r.relayed, NextHave(r))[x] > 0}
    BY <2>1 DEF RelayedRanges
  <2> QED
    BY <1>2, <2>2, <2>3
<1>4. ASSUME NEW id, NEW R \in SUBSET Cell
      PROVE  RelayedRanges(Push(r, id, R).st) = RelayedRanges(r) \cup R
  <2> DEFINE relay == R \ RelayedRanges(r)
  <2>1. Push(r, id, R).st.relayed = NoteRelayed(r.relayed, relay)
    BY DEF Push, RouterState
  <2>2. RelayedRanges(Push(r, id, R).st) = {x \in Cell : NoteRelayed(r.relayed, relay)[x] > 0}
    BY <2>1 DEF RelayedRanges
  <2> QED
    BY <1>2, <2>2
<1>5. ASSUME NEW from, NEW R \in SUBSET Cell
      PROVE  RelayedRanges(RecvHave(r, from, R).st) = RelayedRanges(r) \cup R
  <2> DEFINE relay == R \ RelayedRanges(r)
  <2>1. RecvHave(r, from, R).st.relayed = NoteRelayed(r.relayed, relay)
    BY DEF RecvHave, RouterState
  <2>2. RelayedRanges(RecvHave(r, from, R).st)
           = {x \in Cell : NoteRelayed(r.relayed, relay)[x] > 0}
    BY <2>1 DEF RelayedRanges
  <2> QED
    BY <1>2, <2>2
<1>6. /\ \A i : ArmWant(r, i).relayed = r.relayed /\ ArmHave(r, i).relayed = r.relayed
      /\ \A R : Held(r, R).relayed = r.relayed /\ Open(r, R).relayed = r.relayed
      /\ FireWant(r).st.relayed = r.relayed
      /\ \A i : RecvWant(r, i).st.relayed = r.relayed
  BY DEF ArmWant, ArmHave, Held, Open, FireWant, RecvWant, RouterState
<1> QED
  BY <1>1, <1>3, <1>4, <1>5, <1>6 DEF RelayedRanges

\* A transition without effects that adds no record.
LEMMA QuietOutcome ==
    ASSUME NEW s, NetNode(s), NEW t \in NodeState,
           t.router.held = HeldUnion(t), HeldUnion(t) \subseteq Authorable,
           SeenEntries(t.router) \subseteq SeenEntries(s.router),
           PassedBy(t) \subseteq PassedBy(s)
    PROVE  /\ NetOutcome(s, Quiet(t))
           /\ SeenEntries(t.router) = SeenEntries(s.router)
                  => AskedBy(s) \subseteq AskedBy(Quiet(t).st)
           /\ SeenEntries(t.router) = SeenEntries(s.router) /\ HeldUnion(s) \subseteq HeldUnion(t)
                  => LastingOutcome(s, Quiet(t))
<1>1. NetNode(t)
  BY DEF NetNode
<1>2. AskedBy(t) \subseteq AskedBy(s)
  BY AskGrows DEF AskedBy
<1>3. Quiet(t).st = t /\ Quiet(t).fx.send = {} /\ Spoken({}) = {}
  BY DEF Quiet, Spoken
<1> HIDE DEF HeldUnion
<1>4. NetOutcome(s, Quiet(t))
  BY <1>1, <1>2, <1>3 DEF NetOutcome, PassesOn, AsksOn
<1>5. SeenEntries(t.router) = SeenEntries(s.router) => AskedBy(s) = AskedBy(t)
  BY DEF AskedBy
<1> QED
  BY <1>3, <1>4, <1>5 DEF LastingOutcome

\* A transition of the router alone.
LEMMA RouterOnlyFacts ==
    ASSUME NEW s, NetNode(s), NEW r \in RouterState, r.held = s.router.held
    PROVE  LET t == [s EXCEPT !.router = r]
           IN  /\ t \in NodeState /\ t.router = r
               /\ t.relay = s.relay /\ t.ext = s.ext /\ t.subs = s.subs
               /\ HeldUnion(t) = HeldUnion(s) /\ t.router.held = HeldUnion(t)
<1> DEFINE t == [s EXCEPT !.router = r]
<1>1. t \in NodeState /\ t.router = r /\ t.relay = s.relay /\ t.ext = s.ext /\ t.subs = s.subs
  BY DEF NetNode, NodeState
<1> QED
  BY <1>1 DEF NetNode, HeldUnion

\* Time and arming: what a node says it says when a timer fires.
LEMMA TimersOutcome ==
    ASSUME NEW s, NetNode(s), NEW i \in Nat
    PROVE  /\ TickEnabled(s.router, i) =>
                  NetOutcome(s, NodeTick(s, i)) /\ HeldUnion(NodeTick(s, i).st) = HeldUnion(s)
           /\ LastingOutcome(s, NodeArmWant(s, i))
           /\ LastingOutcome(s, NodeArmHave(s, i))
<1> DEFINE r == s.router
<1>1. r \in RouterState
  BY DEF NetNode, NodeState
<1>2. ASSUME NEW q \in RouterState, q.held = r.held, SeenEntries(q) \subseteq SeenEntries(r),
             RelayedRanges(q) \subseteq RelayedRanges(r)
      PROVE  /\ NetOutcome(s, Quiet([s EXCEPT !.router = q]))
             /\ HeldUnion(Quiet([s EXCEPT !.router = q]).st) = HeldUnion(s)
             /\ SeenEntries(q) = SeenEntries(r)
                   => LastingOutcome(s, Quiet([s EXCEPT !.router = q]))
  <2> DEFINE t == [s EXCEPT !.router = q]
  <2>1. /\ t \in NodeState /\ t.router = q /\ HeldUnion(t) = HeldUnion(s)
        /\ t.router.held = HeldUnion(t)
    BY <1>2, RouterOnlyFacts
  <2> HIDE DEF t
  <2>2. PassedBy(t) \subseteq PassedBy(s) /\ SeenEntries(t.router) \subseteq SeenEntries(s.router)
    BY <1>2, <2>1 DEF PassedBy
  <2>3. /\ NetOutcome(s, Quiet(t))
        /\ SeenEntries(q) = SeenEntries(r) => LastingOutcome(s, Quiet(t))
    BY <2>1, <2>2, QuietOutcome DEF NetNode
  <2>4. Quiet(t).st = t
    BY DEF Quiet
  <2> QED
    BY <2>1, <2>3, <2>4 DEF t
<1>3. TickEnabled(r, i) =>
         NetOutcome(s, NodeTick(s, i)) /\ HeldUnion(NodeTick(s, i).st) = HeldUnion(s)
  BY <1>1, <1>2, TickType, SeenAfter, RelayedAfter DEF NodeTick
<1>4. LastingOutcome(s, NodeArmWant(s, i))
  BY <1>1, <1>2, ArmTypes, SeenAfter, RelayedAfter DEF NodeArmWant
<1>5. LastingOutcome(s, NodeArmHave(s, i))
  BY <1>1, <1>2, ArmTypes, SeenAfter, RelayedAfter DEF NodeArmHave
<1> QED
  BY <1>3, <1>4, <1>5

\* What route_router_fx broadcasts: the Want of the transition, and a Have of
\* what is stored of its ranges.
LEMMA SpokenFacts ==
    ASSUME NEW t \in NodeState, NEW id \in NodeId, NEW fx \in RouterFx, NEW parked \in Ops,
           fx.want \subseteq WholeEntry, HeldUnion(t) \subseteq Authorable
    PROVE  LET send == RouteFx(t, id, fx, parked).send
           IN  /\ \A m \in send : NetMessage(m)
               /\ fx.want = {} /\ fx.have = {} => send = {}
               /\ fx.want # {} => \E m \in send : m.kind = "want" /\ m.interest = fx.want
               /\ Spoken(send) = fx.have \cap HeldUnion(t)
<1> DEFINE ops == Hydrate(t, fx.have)
           send == {WantMessage(id, i) : i \in {fx.want} \ {{}}}
                      \cup {HaveMessage(id, o) : o \in {ops} \ {NoOps}}
<1>1. ops \in Ops
  BY OpsTypes DEF Hydrate, NodeState
<1>2. ops.cells = fx.have \cap HeldUnion(t)
  BY DEF Hydrate, Fetch, Ingest, HeldUnion
<1>3. fx.have = {} => ops = NoOps
  <2>1. ops.pay \subseteq ops.cells /\ ops = [cells |-> ops.cells, pay |-> ops.pay]
    BY <1>1 DEF Ops
  <2> QED
    BY <1>2, <2>1 DEF NoOps
<1>4. ASSUME NEW m \in send PROVE NetMessage(m)
  <2>1. CASE m = WantMessage(id, fx.want)
    BY <2>1, OpsTypes DEF WantMessage, WireMessage, NoOps, RouterFx, NetMessage
  <2>2. CASE m = HaveMessage(id, ops)
    <3> HIDE DEF ops
    <3> QED
      BY <1>1, <1>2, <2>2 DEF HaveMessage, WireMessage, NetMessage
  <2> QED
    BY <2>1, <2>2
<1>5. fx.want # {} => WantMessage(id, fx.want) \in send
  OBVIOUS
<1>6. Spoken(send) = ops.cells
  <2>1. \A m \in send : m.ops.cells \subseteq ops.cells
    BY DEF WantMessage, HaveMessage, NoOps
  <2>2. ops.cells # {} => HaveMessage(id, ops) \in send
    <3>1. ops.cells # {} => ops # NoOps
      BY DEF NoOps
    <3> HIDE DEF ops
    <3> QED
      BY <3>1
  <2>3. HaveMessage(id, ops).ops = ops
    BY DEF HaveMessage
  <2> HIDE DEF send, ops
  <2> QED
    BY <2>1, <2>2, <2>3 DEF Spoken
<1>7. RouteFx(t, id, fx, parked).send = send
  BY DEF RouteFx
<1>8. fx.want = {} /\ fx.have = {} => send = {}
  BY <1>3
<1> HIDE DEF send, ops
<1>9. fx.want # {} => \E m \in send : m.kind = "want" /\ m.interest = fx.want
  BY <1>5 DEF WantMessage
<1> QED
  BY <1>2, <1>4, <1>6, <1>7, <1>8, <1>9

\* A Want noted as seen, and broadcast exactly when some entry of it is not
\* covered: what is new in it is asked onwards, and something is.
LEMMA WantOutcome ==
    ASSUME NEW s, NetNode(s), NEW id \in NodeId,
           NEW q \in RouterState, q.held = s.router.held,
           RelayedRanges(q) = RelayedRanges(s.router),
           NEW i \in SUBSET WholeEntry, SeenEntries(q) = SeenEntries(s.router) \cup i,
           NEW fx \in RouterFx, fx.have = {},
           fx.want = IF UncoveredBy(i, SeenEntries(s.router)) # {} THEN i ELSE {}
    PROVE  LastingOutcome(s, Outcome([s EXCEPT !.router = q], id, fx))
<1> DEFINE t == [s EXCEPT !.router = q]
           seen == SeenEntries(s.router)
           send == RouteFx(t, id, fx, NoOps).send
<1>1. /\ t \in NodeState /\ t.router = q
      /\ HeldUnion(t) = HeldUnion(s) /\ t.router.held = HeldUnion(t)
  BY RouterOnlyFacts
<1> HIDE DEF t
<1>2. NetNode(t)
  BY <1>1 DEF NetNode
<1>3. fx.want \subseteq WholeEntry /\ HeldUnion(t) \subseteq Authorable /\ NoOps \in Ops
  BY <1>2, OpsTypes DEF NetNode
<1>4. /\ \A m \in send : NetMessage(m)
      /\ fx.want = {} /\ fx.have = {} => send = {}
      /\ fx.want # {} => \E m \in send : m.kind = "want" /\ m.interest = fx.want
      /\ Spoken(send) = {}
  BY <1>1, <1>3, SpokenFacts
<1>5. AskedBy(t) = AskOf(seen, Cell) \cup AskOf(i, Cell) /\ AskedBy(s) = AskOf(seen, Cell)
  BY <1>1, AskGrows DEF AskedBy
<1>6. PassedBy(t) = PassedBy(s)
  BY <1>1 DEF PassedBy
<1>7. ASSUME LogsNeverEnd, send # {} PROVE SaysNews(s, t)
  <2>1. PICK e \in i : ~CoveredBy(e, seen)
    BY <1>4, <1>7 DEF UncoveredBy
  <2>2. seen \in SUBSET WholeEntry
    BY DEF NetNode
  <2>3. PICK x \in Cell : x \in AskWithin(e, Cell) /\ x \notin AskOf(seen, Cell)
    BY <1>7, <2>1, <2>2, UncoveredIsNews
  <2>4. x \in AskOf(i, Cell)
    BY <2>3 DEF AskOf
  <2> QED
    BY <1>5, <2>3, <2>4 DEF SaysNews
<1>8. ASSUME NEW x \in AskedBy(t) \ AskedBy(s)
      PROVE  \E m \in send : m.kind = "want" /\ x \in AskOf(m.interest, Cell)
  <2>1. PICK e \in i : x \in AskWithin(e, Cell)
    BY <1>5 DEF AskOf
  <2>2. ~CoveredBy(e, seen)
    <3> SUFFICES ASSUME CoveredBy(e, seen) PROVE FALSE
      OBVIOUS
    <3>1. e \in Entry /\ seen \in SUBSET Entry
      BY DEF WholeEntry, NetNode
    <3>2. \E r \in seen : x \in AskWithin(r, Cell)
      BY <2>1, <3>1, CoveredAskIsAsked
    <3> QED
      BY <1>5, <3>2 DEF AskOf
  <2>3. fx.want = i /\ i # {}
    BY <2>2 DEF UncoveredBy
  <2>4. PICK m \in send : m.kind = "want" /\ m.interest = i
    BY <1>4, <2>3
  <2> QED
    BY <1>5, <2>4
<1>9. Outcome(t, id, fx).st = t /\ Outcome(t, id, fx).fx.send = send
  BY DEF Outcome
<1> HIDE DEF send
<1>10. PassesOn(s, Outcome(t, id, fx))
  BY <1>4, <1>6, <1>9 DEF PassesOn
<1>11. AsksOn(s, Outcome(t, id, fx))
  BY <1>8, <1>9 DEF AsksOn
<1>12. LastingOutcome(s, Outcome(t, id, fx))
  BY <1>1, <1>2, <1>4, <1>5, <1>7, <1>9, <1>10, <1>11 DEF NetOutcome, LastingOutcome
<1> QED
  BY <1>12 DEF t

\* FireWant says only what no seen Want asks for already.
LEMMA FireWantOutcome ==
    ASSUME NEW s, NetNode(s), NEW id \in NodeId
    PROVE  LastingOutcome(s, NodeFireWant(s, id))
<1> DEFINE r == s.router
           res == FireWant(r)
<1>1. r \in RouterState /\ r.held \subseteq Authorable
  BY DEF NetNode, NodeState
<1>2. res.st \in RouterState /\ res.st.held = r.held /\ res.fx \in RouterFx
  BY <1>1, FireWantType
<1>3. res.fx.want = NextWant(r) /\ res.fx.have = {}
  BY DEF FireWant, NoFx
<1>4. NextWant(r) \in SUBSET WholeEntry
  BY <1>1, OwnInterestIsWhole DEF NextWant, UncoveredBy
<1>5. res.fx.want = IF UncoveredBy(NextWant(r), SeenEntries(r)) # {} THEN NextWant(r) ELSE {}
  BY <1>3 DEF NextWant, UncoveredBy
<1>6. SeenEntries(res.st) = SeenEntries(r) \cup NextWant(r)
  BY <1>1, <1>3, SeenAfter
<1>7. RelayedRanges(res.st) = RelayedRanges(r)
  BY <1>1, RelayedAfter
<1> HIDE DEF res
<1> QED
  BY <1>2, <1>3, <1>4, <1>5, <1>6, <1>7, WantOutcome DEF NodeFireWant, res

\* A received Want is relayed when it asks for something new, and from then
\* on its receiver asks for all that it asks for.
LEMMA RecvWantOutcome ==
    ASSUME NEW s, NetNode(s), NEW id \in NodeId, NEW m, NetMessage(m)
    PROVE  /\ LastingOutcome(s, NodeRecvWant(s, id, m))
           /\ AskOf(m.interest, Cell) \subseteq AskedBy(NodeRecvWant(s, id, m).st)
<1> DEFINE r == s.router
           i == m.interest
           res == RecvWant(r, i)
           t == [s EXCEPT !.router = res.st]
<1>1. r \in RouterState /\ i \in SUBSET WholeEntry /\ i \in SUBSET Entry
  BY DEF NetNode, NodeState, NetMessage, WholeEntry
<1>2. res.st \in RouterState /\ res.st.held = r.held /\ res.fx \in RouterFx
  BY <1>1, RecvWantType
<1>3. /\ res.fx.have = {}
      /\ res.fx.want = IF UncoveredBy(i, SeenEntries(r)) # {} THEN i ELSE {}
  BY DEF RecvWant, NoFx
<1>4. SeenEntries(res.st) = SeenEntries(r) \cup i
  BY <1>1, SeenAfter
<1>5. RelayedRanges(res.st) = RelayedRanges(r)
  BY <1>1, RelayedAfter
<1>6. t.router = res.st
  BY DEF NetNode, NodeState
<1>7. NodeRecvWant(s, id, m) = Outcome(t, id, res.fx)
  BY DEF NodeRecvWant
<1> HIDE DEF res, i
<1>8. LastingOutcome(s, NodeRecvWant(s, id, m))
  BY <1>1, <1>2, <1>3, <1>4, <1>5, <1>7, WantOutcome
<1> HIDE DEF t
<1>9. NodeRecvWant(s, id, m).st.router = res.st
  BY <1>6, <1>7 DEF Outcome
<1>10. AskOf(i, Cell) \subseteq AskedBy(NodeRecvWant(s, id, m).st)
  BY <1>4, <1>9, AskGrows DEF AskedBy
<1> QED
  BY <1>8, <1>10 DEF i

\* Ranges noted as relayed, and of which what is stored is broadcast: what
\* the node comes to hold by them is passed on, and if anything is said then
\* some range was not passed on before.
LEMMA HaveOutcome ==
    ASSUME NEW s, NetNode(s), NEW id \in NodeId, NEW t, NetNode(t),
           SeenEntries(t.router) = SeenEntries(s.router),
           NEW R \in SUBSET Cell, PassedBy(t) = PassedBy(s) \cup R,
           HeldUnion(s) \subseteq HeldUnion(t), HeldUnion(t) \subseteq HeldUnion(s) \cup R,
           NEW fx \in RouterFx, fx.want = {}, fx.have = R \ PassedBy(s),
           NEW parked \in Ops,
           RelaysSuffice => R \subseteq HeldUnion(t)
    PROVE  LastingOutcome(s, [st |-> t, fx |-> RouteFx(t, id, fx, parked)])
<1> DEFINE res == [st |-> t, fx |-> RouteFx(t, id, fx, parked)]
           send == RouteFx(t, id, fx, parked).send
<1>1. t \in NodeState /\ HeldUnion(t) \subseteq Authorable /\ fx.want \subseteq WholeEntry
  BY DEF NetNode
<1>2. /\ \A m \in send : NetMessage(m)
      /\ fx.want = {} /\ fx.have = {} => send = {}
      /\ Spoken(send) = fx.have \cap HeldUnion(t)
  BY <1>1, SpokenFacts
<1>3. res.st = t /\ res.fx.send = send
  OBVIOUS
<1> HIDE DEF send, res, HeldUnion, PassedBy
<1>4. send # {} => SaysNews(s, t)
  BY <1>2 DEF SaysNews
<1>5. AskedBy(t) = AskedBy(s)
  BY DEF AskedBy
<1>6. RelaysSuffice => PassesOn(s, res)
  BY <1>2, <1>3 DEF PassesOn
<1>7. AsksOn(s, res)
  BY <1>3, <1>5 DEF AsksOn
<1> QED
  BY <1>2, <1>3, <1>4, <1>5, <1>6, <1>7 DEF NetOutcome, LastingOutcome, res

\* FireHave answers from what the node holds, once for each timer.
LEMMA FireHaveOutcome ==
    ASSUME NEW s, NetNode(s), NEW id \in NodeId, HaveDue(s.router)
    PROVE  LastingOutcome(s, NodeFireHave(s, id))
<1> DEFINE r == s.router
           res == FireHave(r, id)
           t == [s EXCEPT !.router = res.st]
           send == RouteFx(t, id, res.fx, NoOps).send
<1>1. r \in RouterState /\ SeenEntries(r) \subseteq WholeEntry
  BY DEF NetNode, NodeState
<1>2. res.st \in RouterState /\ res.st.held = r.held /\ res.fx \in RouterFx
  BY <1>1, FireHaveType
<1>3. res.fx.want = {} /\ res.fx.have = NextHave(r) /\ res.st.haveTimer = NoTimer
  BY <1>1 DEF FireHave, NoFx, RouterState
<1>4. SeenEntries(res.st) = SeenEntries(r) /\ RelayedRanges(res.st) = RelayedRanges(r) \cup NextHave(r)
  BY <1>1, SeenAfter, RelayedAfter
<1>5. NextHave(r) \subseteq HeldUnion(s)
  BY <1>1, InterestTypes DEF NextHave, NetNode
<1> HIDE DEF res
<1>6. /\ t \in NodeState /\ t.router = res.st
      /\ HeldUnion(t) = HeldUnion(s) /\ t.router.held = HeldUnion(t)
  BY <1>2, RouterOnlyFacts
<1> HIDE DEF t
<1>7. NetNode(t)
  BY <1>1, <1>4, <1>6 DEF NetNode
<1>8. (\A m \in send : NetMessage(m)) /\ Spoken(send) = NextHave(r) \cap HeldUnion(t)
  <2>1. res.fx.want \subseteq WholeEntry /\ HeldUnion(t) \subseteq Authorable /\ NoOps \in Ops
    BY <1>3, <1>7, OpsTypes DEF NetNode
  <2> QED
    BY <1>2, <1>3, <1>6, <2>1, SpokenFacts
<1> HIDE DEF send
<1>9. SaysNews(s, t)
  BY <1>3, <1>6 DEF SaysNews, HaveDue, NoTimer
<1>10. PassesOn(s, [st |-> t, fx |-> [send |-> send]])
  BY <1>4, <1>5, <1>6, <1>8 DEF PassesOn, PassedBy
<1>11. AskedBy(t) = AskedBy(s)
  BY <1>4, <1>6 DEF AskedBy
<1>12. Outcome(t, id, res.fx).st = t /\ Outcome(t, id, res.fx).fx.send = send
  BY DEF Outcome, send
<1>13. PassesOn(s, Outcome(t, id, res.fx)) /\ AsksOn(s, Outcome(t, id, res.fx))
  BY <1>10, <1>11, <1>12 DEF PassesOn, AsksOn
<1>14. LastingOutcome(s, Outcome(t, id, res.fx))
  BY <1>6, <1>7, <1>8, <1>9, <1>11, <1>12, <1>13 DEF NetOutcome, LastingOutcome
<1> QED
  BY <1>14 DEF NodeFireHave, t, res

\* A relay that could hold everything keeps all that it is offered
\* (ingest_parked).
LEMMA NothingIsShed ==
    ASSUME NEW s, NetNode(s), NEW o \in Ops, o.cells \subseteq Authorable,
           NEW kept \in KeptSets(s, o), RelaysSuffice
    PROVE  kept = {x \in o.cells : ~IsSubscribed(s, x)}
<1>1. IsFiniteSet(Authorable) /\ Cardinality(Authorable) \in Nat
  BY FS_CardinalityType DEF RelaysSuffice
<1>2. ASSUME NEW Y PROVE Fits(s.relay, Fetch(o, Y))
  <2> DEFINE p == Ingest(s.relay, Fetch(o, Y))
  <2>1. p \in Ops
    BY OpsTypes DEF NetNode, NodeState
  <2>2. p.cells \subseteq Authorable /\ p.pay \subseteq Authorable
    <3>1. s.relay \in Ops /\ s.relay.cells \subseteq Authorable
      BY DEF NetNode, NodeState, HeldUnion
    <3>2. p.cells \subseteq Authorable
      BY <3>1 DEF Ingest, Fetch
    <3> QED
      BY <2>1, <3>2, OpsTypes
  <2> HIDE DEF p
  <2>3. Cardinality(p.cells) <= Cardinality(Authorable) /\ Cardinality(p.cells) \in Nat
    BY <1>1, <2>2, FS_Subset, FS_CardinalityType
  <2>4. Cardinality(p.pay) <= Cardinality(Authorable) /\ Cardinality(p.pay) \in Nat
    BY <1>1, <2>2, FS_Subset, FS_CardinalityType
  <2>5. Usage(p) <= Cap
    BY <1>1, <2>3, <2>4, CapAssumption DEF Usage, RelaysSuffice
  <2> QED
    BY <2>5 DEF Fits, p
<1> QED
  BY <1>2 DEF KeptSets

\* What is parked is stored, less what is shed.
LEMMA ParkedFacts ==
    ASSUME NEW s \in NodeState, NEW o \in Ops, NEW kept \in KeptSets(s, o)
    PROVE  LET t == IngestParked(s, o, kept)
           IN  /\ t \in NodeState /\ t.router = s.router
               /\ HeldUnion(t)
                     = HeldUnion(s) \cup {x \in o.cells : IsSubscribed(s, x)} \cup kept
<1> DEFINE t == IngestParked(s, o, kept)
           ext == Ingest(s.ext, Fetch(o, {x \in o.cells : IsSubscribed(s, x)}))
           relay == Ingest(s.relay, Fetch(o, kept))
<1>1. ext \in Ops /\ relay \in Ops
  BY OpsTypes DEF NodeState
<1>2. /\ ext.cells = s.ext.cells \cup {x \in o.cells : IsSubscribed(s, x)}
      /\ relay.cells = s.relay.cells \cup kept
  BY DEF Ingest, Fetch, KeptSets
<1>3. t = [s EXCEPT !.ext = ext, !.relay = relay]
  BY DEF IngestParked
<1> HIDE DEF t, ext, relay
<1>4. t \in NodeState /\ t.router = s.router /\ t.ext = ext /\ t.relay = relay
  BY <1>1, <1>3 DEF NodeState
<1> QED
  BY <1>2, <1>4 DEF HeldUnion, t

\* Reconciling a node that stores only what is authored.
LEMMA ReconcileNet ==
    ASSUME NEW s \in NodeState, HeldUnion(s) \subseteq Authorable,
           SeenEntries(s.router) \subseteq WholeEntry
    PROVE  /\ NetNode(ReconcileHeld(s))
           /\ HeldUnion(ReconcileHeld(s)) = HeldUnion(s)
           /\ SeenEntries(ReconcileHeld(s).router) = SeenEntries(s.router)
           /\ PassedBy(ReconcileHeld(s)) = PassedBy(s)
<1>1. ReconcileHeld(s).router = Held(s.router, HeldUnion(s)) /\ s.router \in RouterState
  BY DEF ReconcileHeld, NodeState
<1>2. /\ SeenEntries(ReconcileHeld(s).router) = SeenEntries(s.router)
      /\ RelayedRanges(ReconcileHeld(s).router) = RelayedRanges(s.router)
  BY <1>1, SeenAfter, RelayedAfter
<1> QED
  BY <1>2, ReconcileFacts DEF NetNode, PassedBy

\* A received Have is relayed as far as it is stored and was not before; a
\* relay with room stores all of it.
LEMMA RecvHaveOutcome ==
    ASSUME NEW s, NetNode(s), NEW id \in NodeId, NEW m, NetMessage(m),
           NEW kept \in KeptSets(s, m.ops)
    PROVE  /\ LastingOutcome(s, NodeRecvHave(s, id, m, kept))
           /\ m.ops.cells \subseteq PassedBy(NodeRecvHave(s, id, m, kept).st)
<1> DEFINE o == m.ops
           r == s.router
           res == RecvHave(r, m.sender, o.cells)
           s1 == [s EXCEPT !.router = res.st]
           s2 == IngestParked(s1, o, kept)
           t == ReconcileHeld(s2)
<1>1. s \in NodeState /\ r \in RouterState /\ SeenEntries(r) \subseteq WholeEntry
  BY DEF NetNode, NodeState
<1>2. o \in Ops /\ o.cells \subseteq Authorable /\ o.cells \in SUBSET Cell /\ m.sender \in NodeId
  BY OpsTypes DEF NetMessage, WireMessage
<1>3. /\ res.st \in RouterState /\ res.fx \in RouterFx /\ res.fx.want = {}
      /\ res.fx.have = o.cells \ RelayedRanges(r)
  BY <1>1, <1>2, RecvHaveType DEF RecvHave, NoFx
<1>4. /\ SeenEntries(res.st) = SeenEntries(r)
      /\ RelayedRanges(res.st) = RelayedRanges(r) \cup o.cells
  <2> HIDE DEF o
  <2>1. SeenEntries(RecvHave(r, m.sender, o.cells).st) = SeenEntries(r)
    BY <1>1, SeenAfter
  <2>2. \A R \in SUBSET Cell :
           RelayedRanges(RecvHave(r, m.sender, R).st) = RelayedRanges(r) \cup R
    BY <1>1, RelayedAfter
  <2> QED
    BY <1>2, <2>1, <2>2
<1> HIDE DEF res, o
<1>5. /\ s1 \in NodeState /\ s1.router = res.st
      /\ s1.relay = s.relay /\ s1.ext = s.ext /\ s1.subs = s.subs
  BY <1>1, <1>3 DEF NodeState
<1>6. kept \in KeptSets(s1, o) /\ kept \in KeptSets(s, o)
  BY <1>5 DEF KeptSets, IsSubscribed, o
<1>7. kept \subseteq o.cells
  BY <1>6 DEF KeptSets
<1> HIDE DEF s1
<1>8. /\ s2 \in NodeState /\ s2.router = res.st
      /\ HeldUnion(s2) = HeldUnion(s1) \cup {x \in o.cells : IsSubscribed(s1, x)} \cup kept
  BY <1>2, <1>5, <1>6, ParkedFacts
<1>9. HeldUnion(s1) = HeldUnion(s) /\ \A x : IsSubscribed(s1, x) <=> IsSubscribed(s, x)
  BY <1>5 DEF HeldUnion, IsSubscribed
<1>10. /\ HeldUnion(s) \subseteq HeldUnion(s2) /\ HeldUnion(s2) \subseteq HeldUnion(s) \cup o.cells
       /\ HeldUnion(s2) \subseteq Authorable
  BY <1>2, <1>7, <1>8, <1>9 DEF NetNode
<1>11. RelaysSuffice => o.cells \subseteq HeldUnion(s2)
  BY <1>2, <1>6, <1>8, <1>9, NothingIsShed
<1> HIDE DEF s2
<1>12. /\ NetNode(t) /\ HeldUnion(t) = HeldUnion(s2)
       /\ SeenEntries(t.router) = SeenEntries(s2.router) /\ PassedBy(t) = PassedBy(s2)
  BY <1>1, <1>4, <1>8, <1>10, ReconcileNet
<1>13. NodeRecvHave(s, id, m, kept) = [st |-> t, fx |-> RouteFx(t, id, res.fx, o)]
  BY DEF NodeRecvHave, t, s2, s1, res, o
<1> HIDE DEF t
<1>14. PassedBy(t) = PassedBy(s) \cup o.cells
  BY <1>4, <1>8, <1>12 DEF PassedBy
<1>15. LastingOutcome(s, [st |-> t, fx |-> RouteFx(t, id, res.fx, o)])
  BY <1>2, <1>3, <1>4, <1>8, <1>10, <1>11, <1>12, <1>14, HaveOutcome DEF PassedBy
<1> QED
  BY <1>13, <1>14, <1>15 DEF o

\* An op that is authored is held and passed on at once.
LEMMA AuthoredOutcome ==
    ASSUME NEW s, NetNode(s), NEW id \in NodeId, NEW x \in Authorable
    PROVE  LastingOutcome(s, Authored(s, id, x, TRUE))
<1> DEFINE op == [cells |-> {x}, pay |-> {x}]
           R == {x}
           s1 == [s EXCEPT !.ext = Ingest(@, op)]
           s2 == ReconcileHeld(s1)
           res == Push(s2.router, id, R)
           t == [s2 EXCEPT !.router = res.st]
<1>1. op \in Ops /\ op.cells = {x} /\ R \in SUBSET Cell /\ R \subseteq Authorable
  BY InputsAssumption DEF Ops
<1>2. s1 \in NodeState /\ s1.router = s.router /\ HeldUnion(s1) = HeldUnion(s) \cup R
  <2> HIDE DEF op
  <2>1. Ingest(s.ext, op) \in Ops /\ Ingest(s.ext, op).cells = s.ext.cells \cup {x}
    BY <1>1, OpsTypes DEF NetNode, NodeState, Ingest
  <2>2. s1 \in NodeState /\ s1.router = s.router /\ s1.relay = s.relay /\ s1.ext = Ingest(s.ext, op)
    BY <2>1 DEF NetNode, NodeState
  <2> QED
    BY <2>1, <2>2 DEF HeldUnion
<1> HIDE DEF s1
<1>3. /\ NetNode(s2) /\ HeldUnion(s2) = HeldUnion(s) \cup R
      /\ SeenEntries(s2.router) = SeenEntries(s.router) /\ PassedBy(s2) = PassedBy(s)
  BY <1>1, <1>2, ReconcileNet DEF NetNode, PassedBy
<1> HIDE DEF s2, R
<1>4. s2.router \in RouterState /\ s2.router.held = HeldUnion(s2)
  BY <1>3 DEF NetNode, NodeState
<1>5. /\ res.st \in RouterState /\ res.st.held = s2.router.held \cup R /\ res.fx \in RouterFx
      /\ res.fx.want = {} /\ res.fx.have = R \ RelayedRanges(s2.router)
  <2>1. /\ res.st \in RouterState /\ res.st.held = s2.router.held \cup R
        /\ res.fx \in RouterFx
    BY <1>1, <1>4, PushType
  <2>2. res.fx.want = {} /\ res.fx.have = R \ RelayedRanges(s2.router)
    BY DEF Push, NoFx
  <2> QED
    BY <2>1, <2>2
<1>6. /\ SeenEntries(res.st) = SeenEntries(s2.router)
      /\ RelayedRanges(res.st) = RelayedRanges(s2.router) \cup R
  <2>1. SeenEntries(Push(s2.router, id, R).st) = SeenEntries(s2.router)
    BY <1>4, SeenAfter
  <2>2. \A Q \in SUBSET Cell :
           RelayedRanges(Push(s2.router, id, Q).st) = RelayedRanges(s2.router) \cup Q
    BY <1>4, RelayedAfter
  <2> QED
    BY <1>1, <2>1, <2>2
<1>7. res.st.held = s2.router.held
  BY <1>3, <1>4, <1>5
<1> HIDE DEF res
<1>8. /\ t \in NodeState /\ t.router = res.st
      /\ HeldUnion(t) = HeldUnion(s2) /\ t.router.held = HeldUnion(t)
  BY <1>3, <1>5, <1>7, RouterOnlyFacts
<1> HIDE DEF t
<1>9. NetNode(t)
  BY <1>3, <1>6, <1>8 DEF NetNode
<1>10. PassedBy(t) = PassedBy(s) \cup R /\ res.fx.have = R \ PassedBy(s)
  BY <1>3, <1>5, <1>6, <1>8 DEF PassedBy
<1>11. NoOps \in Ops
  BY OpsTypes
<1>12. LastingOutcome(s, [st |-> t, fx |-> RouteFx(t, id, res.fx, NoOps)])
  BY <1>1, <1>3, <1>5, <1>6, <1>8, <1>9, <1>10, <1>11, HaveOutcome
<1> QED
  BY <1>12 DEF Authored, Outcome, t, res, s2, s1, op, R

\* Subscribing and unsubscribing move ops between the stores and say nothing.
LEMMA SubsOutcome ==
    ASSUME NEW s, NetNode(s), NEW c \in Channel
    PROVE  LastingOutcome(s, Subscribe(s, c)) /\ LastingOutcome(s, Unsubscribe(s, c))
<1>1. s.relay \in Ops /\ s.ext \in Ops /\ s.router \in RouterState /\ s.subs \subseteq Channel
  BY DEF NetNode, NodeState
<1>2. ASSUME NEW t \in NodeState, HeldUnion(t) = HeldUnion(s), NEW C, t.router = Open(s.router, C)
      PROVE  LastingOutcome(s, Quiet(ReconcileHeld(t)))
  <2>1. SeenEntries(t.router) = SeenEntries(s.router) /\ PassedBy(t) = PassedBy(s)
    BY <1>1, <1>2, SeenAfter, RelayedAfter DEF PassedBy
  <2>2. HeldUnion(t) \subseteq Authorable /\ SeenEntries(t.router) \subseteq WholeEntry
    BY <1>2, <2>1 DEF NetNode
  <2>3. /\ NetNode(ReconcileHeld(t)) /\ HeldUnion(ReconcileHeld(t)) = HeldUnion(s)
        /\ SeenEntries(ReconcileHeld(t).router) = SeenEntries(s.router)
        /\ PassedBy(ReconcileHeld(t)) = PassedBy(s)
    BY <1>2, <2>1, <2>2, ReconcileNet
  <2> QED
    BY <2>3, QuietOutcome DEF NetNode
<1>3. LastingOutcome(s, Subscribe(s, c))
  <2> DEFINE under == {x \in s.relay.cells : ChannelOf(x) = c}
             subs == s.subs \cup {c}
             ext == Ingest(s.ext, Fetch(s.relay, under))
             relay == Evict(s.relay, under)
             t == [s EXCEPT !.subs = subs, !.ext = ext, !.relay = relay,
                            !.router = Open(s.router, subs)]
  <2>1. ext \in Ops /\ relay \in Ops /\ Open(s.router, subs) \in RouterState
    BY <1>1, OpsTypes DEF Open, RouterState
  <2>2. relay.cells = s.relay.cells \ under /\ ext.cells = s.ext.cells \cup under
    BY DEF Evict, Ingest, Fetch
  <2>3. Subscribe(s, c) = Quiet(ReconcileHeld(t))
    BY DEF Subscribe
  <2>4. /\ t \in NodeState /\ t.relay = relay /\ t.ext = ext
        /\ t.router = Open(s.router, subs)
    <3> HIDE DEF ext, relay
    <3> QED
      BY <1>1, <2>1 DEF NetNode, NodeState
  <2>5. HeldUnion(t) = HeldUnion(s)
    BY <2>2, <2>4 DEF HeldUnion
  <2> HIDE DEF t
  <2> QED
    BY <1>2, <2>3, <2>4, <2>5
<1>4. LastingOutcome(s, Unsubscribe(s, c))
  <2> DEFINE subs == s.subs \ {c}
             t == [s EXCEPT !.subs = @ \ {c}, !.router = Open(@, s.subs \ {c})]
  <2>1. Open(s.router, subs) \in RouterState
    BY <1>1 DEF Open, RouterState
  <2>2. /\ t \in NodeState /\ t.relay = s.relay /\ t.ext = s.ext
        /\ t.router = Open(s.router, subs)
    BY <1>1, <2>1 DEF NetNode, NodeState
  <2>3. HeldUnion(t) = HeldUnion(s)
    BY <2>2 DEF HeldUnion
  <2>4. Unsubscribe(s, c) = Quiet(ReconcileHeld(t))
    BY DEF Unsubscribe
  <2> HIDE DEF t
  <2> QED
    BY <1>2, <2>2, <2>3, <2>4
<1> QED
  BY <1>3, <1>4

\* Deleting, evicting and native sync say nothing.  What a node has said it
\* has said, whatever becomes of its copy.
LEMMA StorageOutcome ==
    ASSUME NEW s, NetNode(s), NEW R, NEW x \in Authorable
    PROVE  /\ LastingOutcome(s, NativeSync(s, [cells |-> {x}, pay |-> {x}]))
           /\ \A res \in {AppGc(s, R), RelayEvict(s, R), RelayEvictPayloads(s, R)} :
                 NetOutcome(s, res) /\ AskedBy(s) \subseteq AskedBy(res.st)
<1>1. s.relay \in Ops /\ s.ext \in Ops /\ s.router \in RouterState
  BY DEF NetNode, NodeState
<1>2. ASSUME NEW ext \in Ops, NEW relay \in Ops, ext.cells \cup relay.cells \subseteq Authorable,
             NEW t, t = [s EXCEPT !.ext = ext, !.relay = relay]
      PROVE  /\ NetOutcome(s, Quiet(ReconcileHeld(t)))
             /\ AskedBy(s) \subseteq AskedBy(Quiet(ReconcileHeld(t)).st)
             /\ s.ext.cells \subseteq ext.cells /\ s.relay.cells \subseteq relay.cells
                    => LastingOutcome(s, Quiet(ReconcileHeld(t)))
  <2>1. /\ t \in NodeState /\ t.router = s.router
        /\ HeldUnion(t) = relay.cells \cup ext.cells
    BY <1>2 DEF NetNode, NodeState, HeldUnion
  <2>2. HeldUnion(t) \subseteq Authorable /\ SeenEntries(t.router) \subseteq WholeEntry
    BY <1>2, <2>1 DEF NetNode
  <2>3. /\ NetNode(ReconcileHeld(t)) /\ HeldUnion(ReconcileHeld(t)) = HeldUnion(t)
        /\ SeenEntries(ReconcileHeld(t).router) = SeenEntries(s.router)
        /\ PassedBy(ReconcileHeld(t)) = PassedBy(s)
    BY <2>1, <2>2, ReconcileNet DEF PassedBy
  <2>4. s.ext.cells \subseteq ext.cells /\ s.relay.cells \subseteq relay.cells
            => HeldUnion(s) \subseteq HeldUnion(t)
    BY <2>1 DEF HeldUnion
  <2> QED
    BY <2>3, <2>4, QuietOutcome DEF NetNode
<1>3. s.ext.cells \subseteq Authorable /\ s.relay.cells \subseteq Authorable
  BY DEF NetNode, HeldUnion
<1>4. LastingOutcome(s, NativeSync(s, [cells |-> {x}, pay |-> {x}]))
  <2> DEFINE o == [cells |-> {x}, pay |-> {x}]
             ext == Ingest(s.ext, o)
  <2>1. o \in Ops /\ o.cells = {x}
    BY InputsAssumption DEF Ops
  <2> HIDE DEF o
  <2>2. ext \in Ops /\ ext.cells = s.ext.cells \cup {x}
    BY <1>1, <2>1, OpsTypes DEF Ingest
  <2>3. [s EXCEPT !.ext = ext] = [s EXCEPT !.ext = ext, !.relay = s.relay]
    BY DEF NetNode, NodeState
  <2>4. NativeSync(s, o) = Quiet(ReconcileHeld([s EXCEPT !.ext = ext]))
    BY DEF NativeSync
  <2>5. ext.cells \cup s.relay.cells \subseteq Authorable /\ s.ext.cells \subseteq ext.cells
    BY <1>3, <2>2
  <2> HIDE DEF ext
  <2>6. LastingOutcome(s, Quiet(ReconcileHeld([s EXCEPT !.ext = ext])))
    BY <1>1, <1>2, <2>2, <2>3, <2>5
  <2> QED
    BY <2>4, <2>6 DEF o
<1>5. NetOutcome(s, AppGc(s, R)) /\ AskedBy(s) \subseteq AskedBy(AppGc(s, R).st)
  <2> DEFINE ext == Evict(s.ext, R)
  <2>1. ext \in Ops /\ ext.cells \subseteq s.ext.cells
    BY <1>1, OpsTypes DEF Evict
  <2>2. [s EXCEPT !.ext = ext] = [s EXCEPT !.ext = ext, !.relay = s.relay]
    BY DEF NetNode, NodeState
  <2>3. AppGc(s, R) = Quiet(ReconcileHeld([s EXCEPT !.ext = ext]))
    BY DEF AppGc
  <2> HIDE DEF ext
  <2> QED
    BY <1>1, <1>2, <1>3, <2>1, <2>2, <2>3
<1>6. ASSUME NEW relay \in Ops, relay.cells \subseteq s.relay.cells,
             NEW res, res = Quiet(ReconcileHeld([s EXCEPT !.relay = relay]))
      PROVE  NetOutcome(s, res) /\ AskedBy(s) \subseteq AskedBy(res.st)
  <2>1. [s EXCEPT !.relay = relay] = [s EXCEPT !.ext = s.ext, !.relay = relay]
    BY DEF NetNode, NodeState
  <2> QED
    BY <1>1, <1>2, <1>3, <1>6, <2>1
<1>7. /\ Evict(s.relay, R) \in Ops /\ Evict(s.relay, R).cells \subseteq s.relay.cells
      /\ EvictPayloads(s.relay, R) \in Ops
      /\ EvictPayloads(s.relay, R).cells \subseteq s.relay.cells
  BY <1>1, OpsTypes DEF Evict, EvictPayloads, Ops
<1>8. /\ RelayEvict(s, R) = Quiet(ReconcileHeld([s EXCEPT !.relay = Evict(s.relay, R)]))
      /\ RelayEvictPayloads(s, R)
             = Quiet(ReconcileHeld([s EXCEPT !.relay = EvictPayloads(s.relay, R)]))
  BY DEF RelayEvict, RelayEvictPayloads
<1> QED
  BY <1>4, <1>5, <1>6, <1>7, <1>8

-----------------------------------------------------------------------------
\* The network.

NetInv ==
    /\ nodes \in [NodeId -> NodeState]
    /\ \A n \in NodeId : NetNode(nodes[n])
    /\ IsABag(inflight)
    /\ \A f \in BagToSet(inflight) : f \in Flight /\ NetMessage(f.message)
    /\ spent \in [limit : [Kind -> Nat], used : [Kind -> Nat]]

\* A node's move: the flights that remain are those it did not take, and
\* what it took it has made its own.
Takes(t, f) ==
    /\ f.message.kind = "want" => AskOf(f.message.interest, Cell) \subseteq AskedBy(t)
    /\ f.message.ops.cells \subseteq PassedBy(t)

SpendsMore ==
    /\ spent' \in [limit : [Kind -> Nat], used : [Kind -> Nat]]
    /\ \A k \in Kind : spent.used[k] <= spent'.used[k]

Move(n, res, remaining) ==
    /\ NetOutcome(nodes[n], res)
    /\ nodes' = [nodes EXCEPT ![n] = res.st]
    /\ inflight' = remaining (+) Flights(n, res.fx.send)
    /\ IsABag(remaining) /\ BagToSet(remaining) \subseteq BagToSet(inflight)
    /\ \A f \in BagToSet(remaining) : remaining[f] <= inflight[f]
    /\ \A f \in BagToSet(inflight) \ BagToSet(remaining) : f.to = n /\ Takes(res.st, f)
    /\ said' = [said EXCEPT ![n] = @ \cup Spoken(res.fx.send)]
    /\ SpendsMore
    /\ spent'.used["ticks"] = 0 => AskedBy(nodes[n]) \subseteq AskedBy(res.st)
    /\ spent'.used["reclaims"] = 0 => HeldUnion(nodes[n]) \subseteq HeldUnion(res.st)

\* Counting a bounded action.
LEMMA SpendFacts ==
    ASSUME NetInv, NEW k \in Kind
    PROVE  /\ Spend(k) => SpendsMore /\ spent'.used[k] # 0
           /\ UNCHANGED spent => SpendsMore
<1>1. /\ spent = [limit |-> spent.limit, used |-> spent.used]
      /\ spent.limit \in [Kind -> Nat] /\ spent.used \in [Kind -> Nat]
  BY DEF NetInv
<1>2. ASSUME Spend(k) PROVE SpendsMore /\ spent'.used[k] # 0
  <2>1. spent' = [limit |-> spent.limit, used |-> [spent.used EXCEPT ![k] = @ + 1]]
    BY <1>1, <1>2 DEF Spend
  <2> QED
    BY <1>1, <2>1 DEF SpendsMore
<1>3. ASSUME UNCHANGED spent PROVE SpendsMore
  BY <1>1, <1>3 DEF SpendsMore
<1> QED
  BY <1>2, <1>3

\* What is not drawn on was not drawn on before.
LEMMA NothingSpent ==
    ASSUME NetInv, SpendsMore, NEW k \in Kind, spent'.used[k] = 0
    PROVE  spent.used[k] = 0
<1>1. spent.used[k] \in Nat /\ spent.used[k] <= spent'.used[k]
  BY DEF NetInv, SpendsMore
<1> QED
  BY <1>1

\* An application of a good outcome is a move.
LEMMA ApplyMoves ==
    ASSUME NetInv, NEW n \in NodeId, NEW res, LastingOutcome(nodes[n], res), SpendsMore
    PROVE  /\ Apply(n, res, inflight) => Move(n, res, inflight)
           /\ \A f \in BagToSet(inflight) :
                 /\ f.to = n
                 /\ Takes(res.st, f)
                 /\ Apply(n, res, inflight (-) SetToBag({f}))
                 => Move(n, res, inflight (-) SetToBag({f}))
<1>1. IsABag(inflight)
  BY DEF NetInv
<1>2. ASSUME Apply(n, res, inflight) PROVE Move(n, res, inflight)
  <2>1. \A f \in BagToSet(inflight) : inflight[f] <= inflight[f]
    BY <1>1 DEF IsABag, BagToSet
  <2> QED
    BY <1>1, <1>2, <2>1 DEF Apply, Move, LastingOutcome
<1>3. ASSUME NEW f \in BagToSet(inflight), f.to = n, Takes(res.st, f),
             Apply(n, res, inflight (-) SetToBag({f}))
      PROVE  Move(n, res, inflight (-) SetToBag({f}))
  <2> DEFINE remaining == inflight (-) SetToBag({f})
  <2>1. /\ IsABag(remaining) /\ BagToSet(remaining) \subseteq BagToSet(inflight)
        /\ BagToSet(inflight) \ {f} \subseteq BagToSet(remaining)
        /\ \A g \in BagToSet(remaining) : remaining[g] <= inflight[g]
    BY <1>1, BagFacts, OneFlight
  <2>2. Apply(n, res, remaining)
    BY <1>3
  <2> HIDE DEF remaining
  <2>3. Move(n, res, remaining)
    BY <1>3, <2>1, <2>2 DEF Apply, Move, LastingOutcome
  <2> QED
    BY <2>3 DEF remaining
<1> QED
  BY <1>2, <1>3

\* Every action of the network is a move of one node, the loss of a message
\* or a second copy of one.
LEMMA NetStep ==
    ASSUME NetInv, Next
    PROVE  \/ \E n \in NodeId : \E res, remaining : Move(n, res, remaining)
           \/ Drop
           \/ Duplicate
<1>1. ASSUME NEW n \in NodeId, NodeActs(n)
      PROVE  \E res, remaining : Move(n, res, remaining)
  <2> DEFINE s == nodes[n]
  <2>0. NetNode(s) /\ {"ticks", "drops", "dups", "fires", "authors", "changes", "syncs", "reclaims"} = Kind
    BY DEF NetInv, Kind
  <2>1. CASE NodeTicks(n)
    <3>1. NetOutcome(s, NodeTick(s, 1)) /\ HeldUnion(NodeTick(s, 1).st) = HeldUnion(s)
      BY <2>0, <2>1, TimersOutcome DEF NodeTicks
    <3>2. SpendsMore /\ spent'.used["ticks"] # 0
      BY <2>0, <2>1, SpendFacts DEF NodeTicks
    <3>3. /\ nodes' = [nodes EXCEPT ![n] = NodeTick(s, 1).st]
          /\ inflight' = inflight (+) Flights(n, NodeTick(s, 1).fx.send)
          /\ said' = [said EXCEPT ![n] = @ \cup Spoken(NodeTick(s, 1).fx.send)]
      BY <2>1 DEF NodeTicks, Apply
    <3>4. IsABag(inflight) /\ \A f \in BagToSet(inflight) : inflight[f] <= inflight[f]
      BY DEF NetInv, IsABag, BagToSet
    <3>5. Move(n, NodeTick(s, 1), inflight)
      BY <3>1, <3>2, <3>3, <3>4 DEF Move
    <3> QED
      BY <3>5
  <2>2. CASE NodeArmsWant(n)
    <3>1. LastingOutcome(s, NodeArmWant(s, 0))
      BY <2>0, TimersOutcome
    <3> QED
      BY <2>0, <2>2, <3>1, SpendFacts, ApplyMoves DEF NodeArmsWant
  <2>3. CASE NodeFiresWant(n)
    <3>1. LastingOutcome(s, NodeFireWant(s, n))
      BY <2>0, FireWantOutcome
    <3> QED
      BY <2>0, <2>3, <3>1, SpendFacts, ApplyMoves DEF NodeFiresWant
  <2>4. CASE NodeArmsHave(n)
    <3>1. LastingOutcome(s, NodeArmHave(s, 0))
      BY <2>0, TimersOutcome
    <3> QED
      BY <2>0, <2>4, <3>1, SpendFacts, ApplyMoves DEF NodeArmsHave
  <2>5. CASE NodeFiresHave(n)
    <3>1. LastingOutcome(s, NodeFireHave(s, n))
      BY <2>0, <2>5, FireHaveOutcome DEF NodeFiresHave
    <3> QED
      BY <2>0, <2>5, <3>1, SpendFacts, ApplyMoves DEF NodeFiresHave
  <2>6. CASE NodeAuthors(n)
    <3>1. PICK x \in Authorable : Apply(n, Authored(s, n, x, TRUE), inflight) /\ Spend("authors")
      BY <2>6 DEF NodeAuthors
    <3>2. LastingOutcome(s, Authored(s, n, x, TRUE))
      BY <2>0, AuthoredOutcome
    <3> QED
      BY <2>0, <3>1, <3>2, SpendFacts, ApplyMoves
  <2>7. CASE NodeChangesSubs(n)
    <3>1. PICK c \in Channel : /\ \/ Apply(n, Subscribe(s, c), inflight)
                                  \/ Apply(n, Unsubscribe(s, c), inflight)
                               /\ Spend("changes")
      BY <2>7 DEF NodeChangesSubs
    <3>2. LastingOutcome(s, Subscribe(s, c)) /\ LastingOutcome(s, Unsubscribe(s, c))
      BY <2>0, SubsOutcome
    <3> QED
      BY <2>0, <3>1, <3>2, SpendFacts, ApplyMoves
  <2>8. CASE NodeSyncs(n)
    <3> DEFINE synced(x) == NativeSync(s, [cells |-> {x}, pay |-> {x}])
    <3>1. PICK x \in Authorable : Apply(n, synced(x), inflight) /\ Spend("syncs")
      BY <2>8 DEF NodeSyncs
    <3>2. LastingOutcome(s, synced(x))
      BY <2>0, StorageOutcome
    <3> QED
      BY <2>0, <3>1, <3>2, SpendFacts, ApplyMoves
  <2>9. ASSUME NEW res, NetOutcome(s, res), AskedBy(s) \subseteq AskedBy(res.st),
               Apply(n, res, inflight), Spend("reclaims")
        PROVE  Move(n, res, inflight)
    <3>1. SpendsMore /\ spent'.used["reclaims"] # 0
      BY <2>0, <2>9, SpendFacts
    <3>2. IsABag(inflight) /\ \A f \in BagToSet(inflight) : inflight[f] <= inflight[f]
      BY DEF NetInv, IsABag, BagToSet
    <3> QED
      BY <2>9, <3>1, <3>2 DEF Move, Apply
  <2>10. CASE NodeCollects(n) \/ NodeEvicts(n)
    <3>1. Authorable # {}
      <4>1. PICK R : \/ R \in (SUBSET s.ext.cells) \ {{}}
                     \/ R \in (SUBSET s.relay.cells) \ {{}}
                     \/ R \in (SUBSET s.relay.pay) \ {{}}
        BY <2>10 DEF NodeCollects, NodeEvicts
      <4>2. R # {} /\ R \subseteq s.ext.cells \cup s.relay.cells \cup s.relay.pay
        BY <4>1
      <4>3. s.relay.pay \subseteq s.relay.cells
        BY <2>0 DEF NetNode, NodeState, Ops
      <4> QED
        BY <2>0, <4>2, <4>3 DEF NetNode, HeldUnion
    <3>2. \E R : \E res \in {AppGc(s, R), RelayEvict(s, R), RelayEvictPayloads(s, R)} :
             Apply(n, res, inflight) /\ Spend("reclaims")
      BY <2>10 DEF NodeCollects, NodeEvicts
    <3>3. PICK R : \E res \in {AppGc(s, R), RelayEvict(s, R), RelayEvictPayloads(s, R)} :
             Apply(n, res, inflight) /\ Spend("reclaims")
      BY <3>2
    <3>4. PICK res \in {AppGc(s, R), RelayEvict(s, R), RelayEvictPayloads(s, R)} :
             Apply(n, res, inflight) /\ Spend("reclaims")
      BY <3>3
    <3>5. NetOutcome(s, res) /\ AskedBy(s) \subseteq AskedBy(res.st)
      BY <2>0, <3>1, StorageOutcome
    <3> QED
      BY <2>9, <3>4, <3>5
  <2> QED
    BY <1>1, <2>1, <2>2, <2>3, <2>4, <2>5, <2>6, <2>7, <2>8, <2>10 DEF NodeActs
<1>2. ASSUME Deliver PROVE \E n \in NodeId : \E res, remaining : Move(n, res, remaining)
  <2>0. PICK f \in BagToSet(inflight) : \E res \in Receipts(f) :
           Apply(f.to, res, inflight (-) SetToBag({f})) /\ UNCHANGED spent
    BY <1>2 DEF Deliver
  <2>1. PICK res \in Receipts(f) :
           Apply(f.to, res, inflight (-) SetToBag({f})) /\ UNCHANGED spent
    BY <2>0
  <2> DEFINE s == nodes[f.to]
             m == f.message
  <2>2. f.to \in NodeId /\ NetMessage(m) /\ m.kind \in {"want", "have"} /\ NetNode(s)
    BY DEF NetInv, Flight, WireMessage
  <2>3. LastingOutcome(s, res) /\ Takes(res.st, f)
    <3>1. CASE m.kind = "want"
      <4>1. res = NodeRecvWant(s, f.to, m)
        BY <3>1 DEF Receipts
      <4> HIDE DEF s, m
      <4>2. LastingOutcome(s, res) /\ AskOf(m.interest, Cell) \subseteq AskedBy(res.st)
        BY <2>2, <4>1, RecvWantOutcome
      <4>3. m.ops.cells = {}
        BY <2>2, <3>1 DEF NetMessage, m
      <4> QED
        BY <3>1, <4>2, <4>3 DEF Takes, m
    <3>2. CASE m.kind = "have"
      <4>1. PICK kept \in KeptSets(s, m.ops) : res = NodeRecvHave(s, f.to, m, kept)
        BY <3>2 DEF Receipts
      <4> HIDE DEF s, m
      <4>2. /\ LastingOutcome(s, res)
            /\ m.ops.cells \subseteq PassedBy(res.st)
        BY <2>2, <4>1, RecvHaveOutcome
      <4> QED
        BY <3>2, <4>2 DEF Takes, m
    <3> QED
      BY <2>2, <3>1, <3>2
  <2>4. SpendsMore
    BY <2>1, SpendFacts DEF Kind
  <2>5. Move(f.to, res, inflight (-) SetToBag({f}))
    BY <2>1, <2>2, <2>3, <2>4, ApplyMoves
  <2> QED
    BY <2>2, <2>5
<1> QED
  BY <1>1, <1>2 DEF Next

\* What a move puts in flight: what remains, and the node's messages to its
\* neighbours.
LEMMA MoveFlights ==
    ASSUME NetInv, NEW n \in NodeId, NEW res, NEW remaining, Move(n, res, remaining)
    PROVE  /\ IsABag(inflight')
           /\ BagToSet(inflight') = BagToSet(remaining)
                 \cup {[to |-> m, message |-> msg] : m \in Neighbor[n], msg \in res.fx.send}
           /\ res.fx.send = {} => inflight' = remaining
<1>1. /\ IsABag(Flights(n, res.fx.send))
      /\ BagToSet(Flights(n, res.fx.send))
            = {[to |-> m, message |-> msg] : m \in Neighbor[n], msg \in res.fx.send}
      /\ res.fx.send = {} => BagToSet(Flights(n, res.fx.send)) = {}
  BY FlightsFacts
<1>2. IsABag(remaining) /\ inflight' = remaining (+) Flights(n, res.fx.send)
  BY DEF Move
<1> QED
  BY <1>1, <1>2, BagFacts

\* The node that moves, and the others.
LEMMA MoveNodes ==
    ASSUME NetInv, NEW n \in NodeId, NEW res, NEW remaining, Move(n, res, remaining)
    PROVE  /\ nodes' \in [NodeId -> NodeState]
           /\ nodes'[n] = res.st
           /\ \A m \in NodeId : m # n => nodes'[m] = nodes[m]
BY DEF NetInv, Move, NetOutcome, NetNode

LEMMA NetInitInv == Init => NetInv
<1> SUFFICES ASSUME Init PROVE NetInv
  OBVIOUS
<1>1. ASSUME NEW n \in NodeId
      PROVE  /\ NewNode(Subs[n]) \in NodeState /\ NetNode(NewNode(Subs[n]))
  <2> DEFINE s == NewNode(Subs[n])
  <2>1. Subs[n] \subseteq Channel
    BY InputsAssumption
  <2>2. NewRouter({}, Subs[n]) \in RouterState
    <3>1. [k \in NodeId |-> NoRecord] \in HavesType
      BY TTLAssumption DEF HavesType, NoRecord
    <3> QED
      BY <2>1, <3>1, TTLAssumption DEF NewRouter, RouterState, HavesType, NoTimer
  <2>3. /\ s \in NodeState /\ s.relay = NoOps /\ s.ext = NoOps
        /\ s.router.held = {} /\ s.router.seen = {}
    BY <2>1, <2>2, OpsTypes DEF NewNode, NodeState, NewRouter
  <2> QED
    BY <2>3 DEF NetNode, HeldUnion, NoOps, SeenEntries
<1>2. IsABag(EmptyBag) /\ BagToSet(EmptyBag) = {}
  BY DEF EmptyBag, SetToBag, IsABag, BagToSet
<1>3. spent \in [limit : [Kind -> Nat], used : [Kind -> Nat]]
  BY BudgetsAssumption DEF Init, Untouched
<1> QED
  BY <1>1, <1>2, <1>3 DEF Init, NetInv

LEMMA NetNextInv == NetInv /\ [Next]_netVars => NetInv'
<1> SUFFICES ASSUME NetInv, [Next]_netVars PROVE NetInv'
  OBVIOUS
<1>1. ASSUME NEW n \in NodeId, NEW res, NEW remaining, Move(n, res, remaining)
      PROVE  NetInv'
  <2>1. nodes' \in [NodeId -> NodeState] /\ nodes'[n] = res.st
        /\ \A m \in NodeId : m # n => nodes'[m] = nodes[m]
    BY <1>1, MoveNodes
  <2>2. NetNode(res.st) /\ (\A m \in res.fx.send : NetMessage(m)) /\ SpendsMore
    BY <1>1 DEF Move, NetOutcome
  <2>3. ASSUME NEW m \in NodeId PROVE NetNode(nodes'[m])
    <3>1. CASE m = n
      BY <2>1, <2>2, <3>1
    <3>2. CASE m # n
      BY <2>1, <3>2 DEF NetInv
    <3> QED
      BY <3>1, <3>2
  <2>4. /\ IsABag(inflight')
        /\ BagToSet(inflight') = BagToSet(remaining)
              \cup {[to |-> m, message |-> msg] : m \in Neighbor[n], msg \in res.fx.send}
    BY <1>1, MoveFlights
  <2>5. ASSUME NEW f \in BagToSet(inflight') PROVE f \in Flight /\ NetMessage(f.message)
    <3>1. CASE f \in BagToSet(remaining)
      BY <1>1, <3>1 DEF Move, NetInv
    <3>2. CASE f \notin BagToSet(remaining)
      <4>1. PICK m \in Neighbor[n], msg \in res.fx.send : f = [to |-> m, message |-> msg]
        BY <2>4, <3>2
      <4>2. m \in NodeId
        BY TopologyAssumption
      <4> QED
        BY <2>2, <4>1, <4>2 DEF Flight, NetMessage
    <3> QED
      BY <3>1, <3>2
  <2> QED
    BY <2>1, <2>2, <2>3, <2>4, <2>5 DEF NetInv, SpendsMore, NetNode, SeenEntries, HeldUnion
<1>2. ASSUME UNCHANGED nodes, IsABag(inflight'), BagToSet(inflight') \subseteq BagToSet(inflight),
             spent' \in [limit : [Kind -> Nat], used : [Kind -> Nat]]
      PROVE  NetInv'
  BY <1>2 DEF NetInv, NetNode, SeenEntries, HeldUnion
<1>3. CASE Drop
  <2>1. PICK f \in BagToSet(inflight) : inflight' = inflight (-) SetToBag({f})
    BY <1>3 DEF Drop
  <2>2. IsABag(inflight') /\ BagToSet(inflight') \subseteq BagToSet(inflight)
    BY <2>1, BagFacts, OneFlight DEF NetInv
  <2> QED
    BY <1>2, <1>3, <2>2, SpendFacts DEF Drop, Kind, SpendsMore
<1>4. CASE Duplicate
  <2>1. PICK f \in BagToSet(inflight) : inflight' = inflight (+) SetToBag({f})
    BY <1>4 DEF Duplicate
  <2>2. IsABag(inflight') /\ BagToSet(inflight') \subseteq BagToSet(inflight)
    <3>1. IsABag(inflight) /\ IsABag(SetToBag({f})) /\ BagToSet(SetToBag({f})) = {f}
      BY OneFlight DEF NetInv
    <3>2. /\ IsABag(inflight (+) SetToBag({f}))
          /\ BagToSet(inflight (+) SetToBag({f})) = BagToSet(inflight) \cup {f}
      BY <3>1, BagFacts
    <3> QED
      BY <2>1, <3>2
  <2> QED
    BY <1>2, <1>4, <2>2, SpendFacts DEF Duplicate, Kind, SpendsMore
<1>5. CASE UNCHANGED netVars
  BY <1>5 DEF netVars, NetInv, NetNode, SeenEntries, HeldUnion
<1> QED
  BY <1>1, <1>3, <1>4, <1>5, NetStep

-----------------------------------------------------------------------------
\* Nothing is said twice.

\* Whoever puts a message in flight comes to ask for an op that it saw nobody
\* ask for, or passes on an op that it has not passed on, or answers a Want;
\* on every topology, whatever is lost, duplicated or reordered, provided
\* that nobody ever has all of a channel.
THEOREM NothingIsSaidTwice ==
    ASSUME LogsNeverEnd
    PROVE  Spec => NothingSaidTwice
<1> DEFINE News == \E n \in NodeId :
               \/ ~(Asked(n)' \subseteq Asked(n))
               \/ ~(Passed(n)' \subseteq Passed(n))
               \/ HaveDue(nodes[n].router) /\ ~HaveDue(nodes'[n].router)
<1>1. ASSUME NetInv, Next, Speaks PROVE News
  <2>1. ASSUME NEW n \in NodeId, NEW res, NEW remaining, Move(n, res, remaining)
        PROVE  News
    <3>1. PICK f \in BagToSet(inflight') : BagIn(f, inflight) => inflight'[f] > inflight[f]
      BY <1>1 DEF Speaks
    <3>2. res.fx.send # {}
      <4> SUFFICES ASSUME res.fx.send = {} PROVE FALSE
        OBVIOUS
      <4>1. inflight' = remaining
        BY <1>1, <2>1, MoveFlights
      <4>2. f \in BagToSet(inflight) /\ remaining[f] <= inflight[f]
        BY <2>1, <3>1, <4>1 DEF Move
      <4>3. inflight[f] \in Nat /\ remaining[f] \in Nat
        BY <1>1, <2>1, <3>1, <4>1, <4>2 DEF Move, NetInv, IsABag, BagToSet
      <4> QED
        BY <3>1, <4>1, <4>2, <4>3 DEF BagIn
    <3>3. SaysNews(nodes[n], res.st)
      BY <2>1, <3>2 DEF Move, NetOutcome
    <3>4. nodes'[n] = res.st
      BY <1>1, <2>1, MoveNodes
    <3>5. /\ Asked(n) = AskedBy(nodes[n]) /\ Asked(n)' = AskedBy(nodes'[n])
          /\ Passed(n) = PassedBy(nodes[n]) /\ Passed(n)' = PassedBy(nodes'[n])
      BY DEF Asked, Passed, AskedBy, PassedBy, SeenEntries, RelayedRanges
    <3> QED
      BY <3>3, <3>4, <3>5 DEF SaysNews
  <2>2. ~Drop /\ ~Duplicate
    BY <1>1 DEF Drop, Duplicate, Speaks
  <2> QED
    BY <1>1, <2>1, <2>2, NetStep
<1>2. NetInv /\ [Next]_netVars => [Speaks => News]_netVars
  BY <1>1
<1> QED
  BY <1>2, NetInitInv, NetNextInv, PTL DEF Spec, NothingSaidTwice

-----------------------------------------------------------------------------
\* A flood covers the network.

\* Node m has broadcast the op, or a message that carries it is on its way
\* there.
GetsOp(m, x) ==
    \/ x \in said[m]
    \/ \E f \in BagToSet(inflight) : f.to = m /\ x \in f.message.ops.cells

\* What a node notes as passed on it did broadcast, which is why a node that
\* stays silent about a Have need not speak; what it broadcast its neighbours
\* broadcast or get, as long as nothing is lost; and it holds what it
\* broadcast, as long as nothing is deleted or evicted.
FloodFacts ==
    /\ \A n \in NodeId : PassedBy(nodes[n]) \subseteq said[n]
    /\ spent.used["drops"] = 0 =>
          \A n \in NodeId : \A m \in Neighbor[n] : \A x \in said[n] : GetsOp(m, x)
    /\ spent.used["reclaims"] = 0 => \A n \in NodeId : said[n] \subseteq HeldUnion(nodes[n])

FloodInv ==
    /\ said \in [NodeId -> SUBSET Cell]
    /\ RelaysSuffice => FloodFacts

\* A move adds to what a node has said what it says now.
LEMMA MoveSays ==
    ASSUME NetInv, NEW n \in NodeId, NEW res, NEW remaining, Move(n, res, remaining),
           said \in [NodeId -> SUBSET Cell]
    PROVE  /\ said' \in [NodeId -> SUBSET Cell]
           /\ said'[n] = said[n] \cup Spoken(res.fx.send)
           /\ \A k \in NodeId : k # n => said'[k] = said[k]
<1>1. \A m \in res.fx.send : m.ops.cells \subseteq Cell
  BY InputsAssumption DEF Move, NetOutcome, NetMessage
<1>2. Spoken(res.fx.send) \subseteq Cell
  BY <1>1 DEF Spoken
<1>3. said' = [said EXCEPT ![n] = said[n] \cup Spoken(res.fx.send)]
  BY DEF Move
<1> QED
  BY <1>2, <1>3

\* A move takes nothing back that was said, and no message out of the air
\* whose ops the node it is for does not pass on.
LEMMA MoveKeepsOps ==
    ASSUME NetInv, NEW n \in NodeId, NEW res, NEW remaining, Move(n, res, remaining),
           FloodInv, RelaysSuffice, NEW m \in NodeId, NEW x, GetsOp(m, x)
    PROVE  GetsOp(m, x)'
<1>1. /\ said'[n] = said[n] \cup Spoken(res.fx.send)
      /\ \A k \in NodeId : k # n => said'[k] = said[k]
  BY MoveSays DEF FloodInv
<1>2. BagToSet(remaining) \subseteq BagToSet(inflight')
  BY MoveFlights
<1>3. CASE x \in said[m]
  BY <1>1, <1>3 DEF GetsOp
<1>4. CASE x \notin said[m]
  <2>1. PICK f \in BagToSet(inflight) : f.to = m /\ x \in f.message.ops.cells
    BY <1>4 DEF GetsOp
  <2>2. CASE f \in BagToSet(remaining)
    BY <1>2, <2>1, <2>2 DEF GetsOp
  <2>3. CASE f \notin BagToSet(remaining)
    <3>1. m = n /\ x \in PassedBy(res.st)
      BY <2>1, <2>3 DEF Move, Takes
    <3>2. PassedBy(res.st) \subseteq PassedBy(nodes[n]) \cup Spoken(res.fx.send)
      BY DEF Move, NetOutcome, PassesOn
    <3>3. PassedBy(nodes[n]) \subseteq said[n]
      BY DEF FloodInv, FloodFacts
    <3>4. x \in said'[m]
      BY <1>1, <3>1, <3>2, <3>3
    <3> QED
      BY <3>4 DEF GetsOp
  <2> QED
    BY <2>2, <2>3
<1> QED
  BY <1>3, <1>4

LEMMA FloodMove ==
    ASSUME NetInv, NEW n \in NodeId, NEW res, NEW remaining, Move(n, res, remaining), FloodInv
    PROVE  FloodInv'
<1>1. nodes'[n] = res.st /\ \A k \in NodeId : k # n => nodes'[k] = nodes[k]
  BY MoveNodes
<1>2. /\ said' \in [NodeId -> SUBSET Cell]
      /\ said'[n] = said[n] \cup Spoken(res.fx.send)
      /\ \A k \in NodeId : k # n => said'[k] = said[k]
  BY MoveSays DEF FloodInv
<1> SUFFICES ASSUME RelaysSuffice PROVE FloodFacts'
  BY <1>2 DEF FloodInv
<1>3. PassesOn(nodes[n], res) /\ SpendsMore
  BY DEF Move, NetOutcome
<1>4. ASSUME NEW k \in NodeId PROVE PassedBy(nodes'[k]) \subseteq said'[k]
  BY <1>1, <1>2, <1>3 DEF PassesOn, FloodInv, FloodFacts
<1>5. ASSUME spent'.used["drops"] = 0, NEW k \in NodeId, NEW m \in Neighbor[k], NEW x \in said'[k]
      PROVE  GetsOp(m, x)'
  <2>1. spent.used["drops"] = 0 /\ m \in NodeId
    BY <1>3, <1>5, TopologyAssumption, NothingSpent DEF Kind
  <2>2. CASE x \in said[k]
    <3>1. GetsOp(m, x)
      BY <2>1, <2>2 DEF FloodInv, FloodFacts
    <3> QED
      BY <2>1, <3>1, MoveKeepsOps
  <2>3. CASE x \notin said[k]
    <3>1. k = n /\ x \in Spoken(res.fx.send)
      BY <1>2, <1>5, <2>3
    <3>2. PICK msg \in res.fx.send : x \in msg.ops.cells
      BY <3>1 DEF Spoken
    <3>3. [to |-> m, message |-> msg] \in BagToSet(inflight')
      BY <3>1, MoveFlights
    <3> QED
      BY <3>2, <3>3 DEF GetsOp
  <2> QED
    BY <2>2, <2>3
<1>6. ASSUME spent'.used["reclaims"] = 0, NEW k \in NodeId
      PROVE  said'[k] \subseteq HeldUnion(nodes'[k])
  <2>1. spent.used["reclaims"] = 0
    BY <1>3, <1>6, NothingSpent DEF Kind
  <2>2. said[k] \subseteq HeldUnion(nodes[k])
    BY <2>1 DEF FloodInv, FloodFacts
  <2>3. CASE k = n
    <3>1. HeldUnion(nodes[n]) \subseteq HeldUnion(res.st)
      BY <1>6 DEF Move
    <3> QED
      BY <1>1, <1>2, <1>3, <2>2, <2>3, <3>1 DEF PassesOn
  <2>4. CASE k # n
    BY <1>1, <1>2, <2>2, <2>4
  <2> QED
    BY <2>3, <2>4
<1> QED
  BY <1>4, <1>5, <1>6 DEF FloodFacts, PassedBy, RelayedRanges, HeldUnion

LEMMA FloodInitInv == Init => FloodInv
<1> SUFFICES ASSUME Init PROVE FloodInv
  OBVIOUS
<1>1. /\ \A n \in NodeId : nodes[n] = NewNode(Subs[n]) /\ said[n] = {}
      /\ said \in [NodeId -> SUBSET Cell]
  BY DEF Init
<1>2. ASSUME NEW n \in NodeId PROVE PassedBy(nodes[n]) = {}
  <2> DEFINE s == NewNode(Subs[n])
  <2>1. \A x \in Cell : s.router.relayed[x] = 0
    BY DEF NewNode, NewRouter
  <2> HIDE DEF s
  <2>2. PassedBy(s) = {}
    BY <2>1 DEF PassedBy, RelayedRanges
  <2> QED
    BY <1>1, <2>2 DEF s
<1> QED
  BY <1>1, <1>2 DEF FloodInv, FloodFacts

LEMMA FloodNextInv == NetInv /\ FloodInv /\ [Next]_netVars => FloodInv'
<1> SUFFICES ASSUME NetInv, FloodInv, [Next]_netVars PROVE FloodInv'
  OBVIOUS
\* The nodes stand still, and what is in flight may be lost only where that
\* is counted.
<1>1. ASSUME UNCHANGED <<nodes, said>>, SpendsMore,
             spent'.used["drops"] = 0 => BagToSet(inflight) \subseteq BagToSet(inflight')
      PROVE  FloodInv'
  <2> SUFFICES ASSUME RelaysSuffice PROVE FloodFacts'
    BY <1>1 DEF FloodInv
  <2>1. FloodFacts
    BY DEF FloodInv
  <2>2. ASSUME spent'.used["drops"] = 0, NEW k \in NodeId, NEW m \in Neighbor[k], NEW x \in said[k]
        PROVE  GetsOp(m, x)'
    <3>1. spent.used["drops"] = 0
      BY <1>1, <2>2, NothingSpent DEF Kind
    <3>2. GetsOp(m, x)
      BY <2>1, <2>2, <3>1 DEF FloodFacts
    <3> QED
      BY <1>1, <2>2, <3>2 DEF GetsOp
  <2>3. spent'.used["reclaims"] = 0 => spent.used["reclaims"] = 0
    BY <1>1, NothingSpent DEF Kind
  <2> QED
    BY <1>1, <2>1, <2>2, <2>3 DEF FloodFacts, PassedBy, RelayedRanges, HeldUnion
<1>2. CASE Drop
  <2>1. SpendsMore /\ spent'.used["drops"] # 0
    BY <1>2, SpendFacts DEF Drop, Kind
  <2> QED
    BY <1>1, <1>2, <2>1 DEF Drop
<1>3. CASE Duplicate
  <2>1. PICK f \in BagToSet(inflight) : inflight' = inflight (+) SetToBag({f})
    BY <1>3 DEF Duplicate
  <2>2. IsABag(inflight) /\ IsABag(SetToBag({f}))
    BY OneFlight DEF NetInv
  <2>3. BagToSet(inflight) \subseteq BagToSet(inflight')
    BY <2>1, <2>2, BagFacts
  <2>4. SpendsMore
    BY <1>3, SpendFacts DEF Duplicate, Kind
  <2> QED
    BY <1>1, <1>3, <2>3, <2>4 DEF Duplicate
<1>4. CASE UNCHANGED netVars
  <2>1. SpendsMore
    BY <1>4, SpendFacts DEF netVars, Kind
  <2> QED
    BY <1>1, <1>4, <2>1 DEF netVars
<1> QED
  BY <1>2, <1>3, <1>4, NetStep, FloodMove

\* In a connected network whose relays have room, once a network that has
\* lost nothing is quiet, every op that any node has broadcast has reached
\* every node and was broadcast by it in turn, and where nothing was deleted
\* or evicted every node holds it: for any number of nodes and any connected
\* topology, in whatever order the copies, duplicates and Haves of other
\* floods arrive, whatever comes out of band, and however the clocks run.
THEOREM FloodCoversNetwork ==
    ASSUME Connected, RelaysSuffice
    PROVE  Spec => []FloodCovers
<1>1. FloodInv => FloodCovers
  <2> SUFFICES ASSUME FloodInv, Quiescent, spent.used["drops"] = 0,
                      NEW n \in NodeId, NEW m \in NodeId, NEW x \in said[n]
               PROVE  /\ x \in said[m]
                      /\ spent.used["reclaims"] = 0 => x \in HeldUnion(nodes[m])
    BY DEF FloodCovers
  <2> DEFINE S == {k \in NodeId : x \in said[k]}
  <2>1. BagToSet(inflight) = {}
    BY DEF Quiescent, EmptyBag, SetToBag, BagToSet
  <2>2. ASSUME NEW k \in S, NEW l \in Neighbor[k] PROVE l \in S
    <3>1. l \in NodeId
      BY TopologyAssumption
    <3>2. GetsOp(l, x)
      BY DEF FloodInv, FloodFacts
    <3> QED
      BY <2>1, <3>1, <3>2 DEF GetsOp
  <2>3. S \in SUBSET NodeId /\ S # {}
    OBVIOUS
  <2> HIDE DEF S
  <2>4. S = NodeId
    BY <2>2, <2>3 DEF Connected
  <2>5. x \in said[m]
    BY <2>4 DEF S
  <2> QED
    BY <2>5 DEF FloodInv, FloodFacts
<1> QED
  BY <1>1, NetInitInv, NetNextInv, FloodInitInv, FloodNextInv, PTL DEF Spec

-----------------------------------------------------------------------------
\* Suppressing covered Wants loses no question.

\* Node m asks for the op, or a Want that asks for it is on its way there.
HearsAsk(m, x) ==
    \/ x \in AskedBy(nodes[m])
    \/ \E f \in BagToSet(inflight) :
          f.to = m /\ f.message.kind = "want" /\ x \in AskOf(f.message.interest, Cell)

\* What a node asks for its neighbours ask for or are told, as long as
\* nothing is lost and nothing seen has expired.
AskInv == spent.used["drops"] = 0 /\ spent.used["ticks"] = 0 =>
    \A n \in NodeId : \A m \in Neighbor[n] : \A x \in AskedBy(nodes[n]) : HearsAsk(m, x)

\* A move that is not a tick takes no question from a node, and no Want out of
\* the air that has not come to the node it is for.
LEMMA MoveKeepsAsks ==
    ASSUME NetInv, NEW n \in NodeId, NEW res, NEW remaining, Move(n, res, remaining),
           spent'.used["ticks"] = 0, NEW m \in NodeId, NEW x, HearsAsk(m, x)
    PROVE  HearsAsk(m, x)'
<1>1. /\ nodes'[n] = res.st /\ \A k \in NodeId : k # n => nodes'[k] = nodes[k]
      /\ AskedBy(nodes[n]) \subseteq AskedBy(res.st)
  BY MoveNodes DEF Move
<1>2. BagToSet(remaining) \subseteq BagToSet(inflight')
  BY MoveFlights
<1>3. CASE x \in AskedBy(nodes[m])
  <2>1. x \in AskedBy(nodes'[m])
    BY <1>1, <1>3
  <2> QED
    BY <2>1 DEF HearsAsk, AskedBy, SeenEntries
<1>4. CASE x \notin AskedBy(nodes[m])
  <2>1. PICK f \in BagToSet(inflight) :
           f.to = m /\ f.message.kind = "want" /\ x \in AskOf(f.message.interest, Cell)
    BY <1>4 DEF HearsAsk
  <2>2. CASE f \in BagToSet(remaining)
    BY <1>2, <2>1, <2>2 DEF HearsAsk
  <2>3. CASE f \notin BagToSet(remaining)
    <3>1. m = n /\ x \in AskedBy(res.st)
      BY <2>1, <2>3 DEF Move, Takes
    <3>2. x \in AskedBy(nodes'[m])
      BY <1>1, <3>1
    <3> QED
      BY <3>2 DEF HearsAsk, AskedBy, SeenEntries
  <2> QED
    BY <2>2, <2>3
<1> QED
  BY <1>3, <1>4

LEMMA AskMove ==
    ASSUME NetInv, NEW n \in NodeId, NEW res, NEW remaining, Move(n, res, remaining),
           AskInv, spent'.used["drops"] = 0, spent'.used["ticks"] = 0,
           NEW k \in NodeId, NEW m \in Neighbor[k], NEW x \in AskedBy(nodes'[k])
    PROVE  HearsAsk(m, x)'
<1>1. nodes'[n] = res.st /\ \A j \in NodeId : j # n => nodes'[j] = nodes[j]
  BY MoveNodes
<1>2. spent.used["drops"] = 0 /\ spent.used["ticks"] = 0
  BY NothingSpent DEF Move, Kind
<1>3. m \in NodeId
  BY TopologyAssumption
<1>4. CASE x \in AskedBy(nodes[k])
  <2>1. HearsAsk(m, x)
    BY <1>2, <1>4 DEF AskInv
  <2> QED
    BY <1>3, <2>1, MoveKeepsAsks
<1>5. CASE x \notin AskedBy(nodes[k])
  <2>1. k = n /\ x \in AskedBy(res.st) \ AskedBy(nodes[n])
    BY <1>1, <1>5
  <2>2. PICK msg \in res.fx.send : msg.kind = "want" /\ x \in AskOf(msg.interest, Cell)
    BY <2>1 DEF Move, NetOutcome, AsksOn
  <2>3. [to |-> m, message |-> msg] \in BagToSet(inflight')
    BY <2>1, MoveFlights
  <2> QED
    BY <2>2, <2>3 DEF HearsAsk
<1> QED
  BY <1>4, <1>5

LEMMA AskInitInv == Init => AskInv
<1> SUFFICES ASSUME Init PROVE AskInv
  OBVIOUS
<1>1. \A n \in NodeId : nodes[n] = NewNode(Subs[n])
  BY DEF Init
<1>2. ASSUME NEW n \in NodeId PROVE AskedBy(nodes[n]) = {}
  <2> DEFINE s == NewNode(Subs[n])
  <2>1. s.router.seen = {}
    BY DEF NewNode, NewRouter
  <2> HIDE DEF s
  <2>2. AskedBy(s) = {}
    BY <2>1 DEF AskedBy, SeenEntries, AskOf
  <2> QED
    BY <1>1, <2>2 DEF s
<1> QED
  BY <1>2 DEF AskInv

LEMMA AskNextInv == NetInv /\ AskInv /\ [Next]_netVars => AskInv'
<1> SUFFICES ASSUME NetInv, AskInv, [Next]_netVars,
                    spent'.used["drops"] = 0, spent'.used["ticks"] = 0,
                    NEW k \in NodeId, NEW m \in Neighbor[k], NEW x \in AskedBy(nodes'[k])
             PROVE  HearsAsk(m, x)'
  BY DEF AskInv, AskedBy, SeenEntries
<1>1. ASSUME UNCHANGED nodes, BagToSet(inflight) \subseteq BagToSet(inflight'),
             spent.used["drops"] = 0, spent.used["ticks"] = 0
      PROVE  HearsAsk(m, x)'
  <2>1. x \in AskedBy(nodes[k])
    BY <1>1
  <2>2. HearsAsk(m, x)
    BY <1>1, <2>1 DEF AskInv
  <2> QED
    BY <1>1, <2>2 DEF HearsAsk, AskedBy, SeenEntries
<1>2. CASE Drop
  BY <1>2, SpendFacts DEF Drop, Kind
<1>3. CASE Duplicate
  <2>1. PICK f \in BagToSet(inflight) : inflight' = inflight (+) SetToBag({f})
    BY <1>3 DEF Duplicate
  <2>2. IsABag(inflight) /\ IsABag(SetToBag({f}))
    BY OneFlight DEF NetInv
  <2>3. BagToSet(inflight) \subseteq BagToSet(inflight')
    BY <2>1, <2>2, BagFacts
  <2>4. SpendsMore /\ UNCHANGED nodes
    BY <1>3, SpendFacts DEF Duplicate, Kind
  <2>5. spent.used["drops"] = 0 /\ spent.used["ticks"] = 0
    BY <2>4, NothingSpent DEF Kind
  <2> QED
    BY <1>1, <2>3, <2>4, <2>5
<1>4. CASE UNCHANGED netVars
  BY <1>1, <1>4 DEF netVars
<1> QED
  BY <1>2, <1>3, <1>4, NetStep, AskMove

\* In a connected network, once a network that has lost nothing is quiet and
\* before any clock has moved, every node's seen set asks for the same ops,
\* although every Want that is covered is suppressed.
THEOREM NoQuestionIsLost ==
    ASSUME Connected
    PROVE  Spec => []WantsReachAll
<1>1. AskInv => WantsReachAll
  <2> SUFFICES ASSUME AskInv, Quiescent, spent.used["drops"] = 0, spent.used["ticks"] = 0,
                      NEW a \in NodeId, NEW b \in NodeId, NEW x \in AskedBy(nodes[a])
               PROVE  x \in AskedBy(nodes[b])
    BY DEF WantsReachAll, AskedBy
  <2> DEFINE S == {n \in NodeId : x \in AskedBy(nodes[n])}
  <2>1. BagToSet(inflight) = {}
    BY DEF Quiescent, EmptyBag, SetToBag, BagToSet
  <2>2. ASSUME NEW n \in S, NEW m \in Neighbor[n] PROVE m \in S
    <3>1. m \in NodeId
      BY TopologyAssumption
    <3>2. HearsAsk(m, x)
      BY DEF AskInv
    <3> QED
      BY <2>1, <3>1, <3>2 DEF HearsAsk
  <2>3. S \in SUBSET NodeId /\ S # {}
    OBVIOUS
  <2> HIDE DEF S
  <2>4. S = NodeId
    BY <2>2, <2>3 DEF Connected
  <2> QED
    BY <2>4 DEF S
<1> QED
  BY <1>1, NetInitInv, NetNextInv, AskInitInv, AskNextInv, PTL DEF Spec

\* Every node of a network is in a state of its type, its router holds what
\* its stores hold and only what was authored, and every message in flight is
\* well formed, for a node that exists.
THEOREM NetworkIsWellFormed == Spec => []NetInv
BY NetInitInv, NetNextInv, PTL DEF Spec

=============================================================================
