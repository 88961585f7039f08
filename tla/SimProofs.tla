------------------------------ MODULE SimProofs ------------------------------
(***************************************************************************)
(* The simulator, for every network, policy, latency, quantum and bound:   *)
(* the driver proposes nothing that the network refuses, every message in  *)
(* flight has one fate, every armed timer one event, and what a subscriber *)
(* has counts as covered.                                                  *)
(***************************************************************************)
EXTENDS Sim, NetProofs

-----------------------------------------------------------------------------
\* The queue.

Happening ==
    [kind : {"fire_want", "fire_have", "maintain"}, node : NodeId]
        \cup [kind : {"deliver"}, flight : Flight, deferrals : Nat]
        \cup [kind : {"drop"}, flight : Flight]
        \cup [kind : {"append", "quantum", "native_sync", "app_gc"}]

Pendings == [at : Nat, seq : Nat \X Nat, ev : Happening]

\* No two events share their place.
Keyed(q) == \A e, o \in q : e.at = o.at /\ e.seq = o.seq => e = o

Fated(q, f) == {e \in q : IsFate(e.ev) /\ e.ev.flight = f}

\* The order of events is a strict one, and two events that share no place
\* are ordered by it.
LEMMA BeforeFacts ==
    ASSUME NEW e \in Pendings, NEW o \in Pendings, NEW p \in Pendings
    PROVE  /\ ~Before(e, e)
           /\ Before(e, o) /\ Before(o, p) => Before(e, p)
           /\ Before(e, o) \/ Before(o, e) \/ (e.at = o.at /\ e.seq = o.seq)
<1>1. /\ e.at \in Nat /\ e.seq \in Nat \X Nat /\ o.at \in Nat /\ o.seq \in Nat \X Nat
      /\ p.at \in Nat /\ p.seq \in Nat \X Nat
  BY DEF Pendings
<1>2. /\ e.seq[1] \in Nat /\ e.seq[2] \in Nat /\ e.seq = <<e.seq[1], e.seq[2]>>
      /\ o.seq[1] \in Nat /\ o.seq[2] \in Nat /\ o.seq = <<o.seq[1], o.seq[2]>>
      /\ p.seq[1] \in Nat /\ p.seq[2] \in Nat
  BY <1>1
<1> QED
  BY <1>1, <1>2 DEF Before

\* An event's new place among the simultaneous ones, and the event there.
Rank(q, e) == Cardinality({o \in q : o.at = e.at /\ Before(o, e)})

Afresh(q, e) == EventAt(e.at, Rank(q, e), 0, e.ev)

LEMMA RankFacts ==
    ASSUME NEW q \in SUBSET Pendings, IsFiniteSet(q), Keyed(q),
           NEW e \in q, NEW o \in q
    PROVE  /\ Rank(q, e) \in Nat /\ Rank(q, e) < Cardinality(q)
           /\ e # o /\ e.at = o.at => Rank(q, e) # Rank(q, o)
<1> DEFINE Earlier(x) == {p \in q : p.at = x.at /\ Before(p, x)}
<1>1. ASSUME NEW x \in q PROVE x \notin Earlier(x) /\ Earlier(x) \subseteq q
  BY BeforeFacts
<1>2. ASSUME NEW x \in q
      PROVE  /\ Cardinality(Earlier(x)) \in Nat
             /\ Cardinality(Earlier(x)) < Cardinality(q) /\ IsFiniteSet(Earlier(x))
  <2>1. Earlier(x) \subseteq q /\ Earlier(x) # q
    BY <1>1
  <2> HIDE DEF Earlier
  <2> QED
    BY <2>1, FS_Subset, FS_CardinalityType
<1>3. ASSUME NEW x \in q, NEW y \in q, Before(x, y), x.at = y.at
      PROVE  Cardinality(Earlier(x)) < Cardinality(Earlier(y))
  <2>1. x \in Earlier(y)
    BY <1>3
  <2>2. Earlier(x) \subseteq Earlier(y)
    BY <1>3, BeforeFacts
  <2>3. Earlier(x) # Earlier(y)
    BY <1>1, <2>1
  <2>4. /\ IsFiniteSet(Earlier(y))
        /\ Cardinality(Earlier(x)) \in Nat /\ Cardinality(Earlier(y)) \in Nat
    BY <1>2
  <2> HIDE DEF Earlier
  <2>5. /\ Cardinality(Earlier(x)) <= Cardinality(Earlier(y))
        /\ Cardinality(Earlier(x)) # Cardinality(Earlier(y))
    BY <2>2, <2>3, <2>4, FS_Subset
  <2> QED
    BY <2>4, <2>5
<1>4. e # o /\ e.at = o.at => Before(e, o) \/ Before(o, e)
  BY BeforeFacts DEF Keyed
<1>5. \A x \in q : Rank(q, x) = Cardinality(Earlier(x))
  BY DEF Rank
<1> HIDE DEF Earlier
<1>6. e # o /\ e.at = o.at => Cardinality(Earlier(e)) # Cardinality(Earlier(o))
  <2>1. Cardinality(Earlier(e)) \in Nat /\ Cardinality(Earlier(o)) \in Nat
    BY <1>2
  <2> QED
    BY <1>3, <1>4, <2>1
<1> QED
  BY <1>2, <1>5, <1>6

\* Numbering keeps every event and its time, one for one.
LEMMA NumberedFacts ==
    ASSUME NEW q \in SUBSET Pendings, IsFiniteSet(q), Keyed(q)
    PROVE  /\ Numbered(q) \subseteq Pendings /\ IsFiniteSet(Numbered(q)) /\ Keyed(Numbered(q))
           /\ \A e \in Numbered(q) : e.seq[1] < Cardinality(Numbered(q))
           /\ \A e \in Numbered(q) : \E o \in q : o.at = e.at /\ o.ev = e.ev
           /\ \A f : Cardinality(Fated(Numbered(q), f)) = Cardinality(Fated(q, f))
           /\ \A ev : (\A e \in q : e.ev # ev) => \A e \in Numbered(q) : e.ev # ev
           /\ \A ev : \A e : {o \in q : o.ev = ev} = {e}
                => {o \in Numbered(q) : o.ev = ev} = {Afresh(q, e)}
<1>1. Numbered(q) = {Afresh(q, e) : e \in q}
  BY DEF Numbered, Afresh, Rank
<1>2. ASSUME NEW e \in q
      PROVE  /\ Afresh(q, e) \in Pendings
             /\ Afresh(q, e).at = e.at /\ Afresh(q, e).ev = e.ev
             /\ Afresh(q, e).seq = <<Rank(q, e), 0>> /\ Afresh(q, e).seq[1] = Rank(q, e)
  <2>1. Rank(q, e) \in Nat
    BY RankFacts
  <2> QED
    BY <2>1 DEF Afresh, EventAt, Pendings
<1>3. ASSUME NEW e \in q, NEW o \in q, e # o PROVE Afresh(q, e) # Afresh(q, o)
  BY <1>2, <1>3, RankFacts
<1>4. Keyed(Numbered(q))
  BY <1>1, <1>2, RankFacts DEF Keyed
<1>5. ASSUME NEW S \in SUBSET q
      PROVE  /\ IsFiniteSet({Afresh(q, e) : e \in S})
             /\ Cardinality({Afresh(q, e) : e \in S}) = Cardinality(S)
  <2> DEFINE g == [e \in S |-> Afresh(q, e)]
             R == {Afresh(q, e) : e \in S}
  <2>1. g \in Bijection(S, R)
    <3>1. g \in [S -> R] /\ \A r \in R : \E e \in S : g[e] = r
      OBVIOUS
    <3>2. \A e, o \in S : g[e] = g[o] => e = o
      BY <1>3
    <3> HIDE DEF g, R
    <3> QED
      BY <3>1, <3>2 DEF Bijection, Injection, Surjection, IsInjective
  <2>2. IsFiniteSet(S)
    BY FS_Subset
  <2> HIDE DEF R, g
  <2>3. ExistsBijection(S, R)
    BY <2>1 DEF ExistsBijection
  <2>4. IsFiniteSet(R) /\ Cardinality(R) = Cardinality(S)
    BY <2>2, <2>3, FS_Bijection
  <2> QED
    BY <2>4 DEF R
<1>6. IsFiniteSet(Numbered(q)) /\ Cardinality(Numbered(q)) = Cardinality(q)
  BY <1>1, <1>5
<1>7. ASSUME NEW f PROVE Cardinality(Fated(Numbered(q), f)) = Cardinality(Fated(q, f))
  <2>1. Fated(Numbered(q), f) = {Afresh(q, e) : e \in Fated(q, f)}
    BY <1>1, <1>2 DEF Fated
  <2>2. Fated(q, f) \in SUBSET q
    BY DEF Fated
  <2> QED
    BY <1>5, <2>1, <2>2
<1>8. \A e \in Numbered(q) : e.seq[1] < Cardinality(Numbered(q))
  BY <1>1, <1>2, <1>6, RankFacts
<1>9. \A e \in Numbered(q) : \E o \in q : o.at = e.at /\ o.ev = e.ev
  BY <1>1, <1>2
<1>10. ASSUME NEW ev, NEW e, {o \in q : o.ev = ev} = {e}
       PROVE  {o \in Numbered(q) : o.ev = ev} = {Afresh(q, e)}
  BY <1>1, <1>2, <1>10
<1> QED
  BY <1>1, <1>2, <1>4, <1>6, <1>7, <1>8, <1>9, <1>10

\* Rounding up to the quantum.
LEMMA QuantizeFacts ==
    ASSUME quantum \in Nat \ {0}, NEW a \in Nat, NEW b \in Nat
    PROVE  /\ Quantize(a) \in Nat /\ a <= Quantize(a)
           /\ a <= b => Quantize(a) <= Quantize(b)
<1> DEFINE d(x) == (x + quantum - 1) \div quantum
<1>1. ASSUME NEW x \in Nat
      PROVE  d(x) \in Nat /\ x <= d(x) * quantum /\ d(x) * quantum <= x + quantum - 1
  OBVIOUS
<1> QED
  BY <1>1 DEF Quantize

-----------------------------------------------------------------------------
\* What is in flight.

LEMMA CopiesOfFacts ==
    ASSUME NEW bag, IsABag(bag), NEW f
    PROVE  /\ CopiesOf(bag, f) \in Nat
           /\ f \in BagToSet(bag) <=> CopiesOf(bag, f) > 0
BY DEF IsABag, BagToSet, CopiesOf, BagIn

\* A broadcast adds a copy of each of its flights.
LEMMA CopiesAdded ==
    ASSUME NEW bag, IsABag(bag), NEW S, NEW f
    PROVE  CopiesOf(bag (+) SetToBag(S), f) = CopiesOf(bag, f) + (IF f \in S THEN 1 ELSE 0)
<1>1. /\ DOMAIN SetToBag(S) = S /\ \A g \in S : SetToBag(S)[g] = 1
      /\ \A g \in DOMAIN bag : bag[g] \in Nat
  BY DEF SetToBag, IsABag
<1>2. /\ DOMAIN (bag (+) SetToBag(S)) = DOMAIN bag \cup S
      /\ \A g \in DOMAIN bag \cup S :
            (bag (+) SetToBag(S))[g] = (IF g \in DOMAIN bag THEN bag[g] ELSE 0)
                                          + (IF g \in S THEN 1 ELSE 0)
  BY <1>1 DEF (+)
<1> QED
  BY <1>1, <1>2 DEF CopiesOf, BagIn, BagToSet

\* A message that leaves the network takes one copy with it.
LEMMA CopiesRemoved ==
    ASSUME NEW bag, IsABag(bag), NEW g \in BagToSet(bag), NEW f
    PROVE  CopiesOf(bag (-) SetToBag({g}), f) = CopiesOf(bag, f) - (IF f = g THEN 1 ELSE 0)
<1> DEFINE B == SetToBag({g})
           D == {d \in DOMAIN bag : (IF d \in DOMAIN B THEN bag[d] - B[d] ELSE bag[d]) > 0}
<1>1. /\ DOMAIN B = {g} /\ B[g] = 1 /\ g \in DOMAIN bag
      /\ \A d \in DOMAIN bag : bag[d] \in Nat /\ bag[d] > 0
  BY DEF SetToBag, IsABag, BagToSet
<1>2. bag (-) B = [d \in D |-> IF d \in DOMAIN B THEN bag[d] - B[d] ELSE bag[d]]
  BY DEF (-)
<1>3. /\ DOMAIN (bag (-) B) = D
      /\ \A d \in D : (bag (-) B)[d] = IF d = g THEN bag[d] - 1 ELSE bag[d]
  BY <1>1, <1>2
<1>4. \A d : d \in D <=> d \in DOMAIN bag /\ (IF d = g THEN bag[d] - 1 ELSE bag[d]) > 0
  BY <1>1
<1> HIDE DEF B, D
<1>5. CopiesOf(bag (-) B, f) = CopiesOf(bag, f) - (IF f = g THEN 1 ELSE 0)
  BY <1>1, <1>3, <1>4 DEF CopiesOf, BagIn, BagToSet
<1> QED
  BY <1>5 DEF B

\* How many messages are in flight, after fewer and after a broadcast.
LEMMA FlightsFewer ==
    ASSUME NEW bag, IsABag(bag), IsFiniteSet(Copies(bag)), NEW g
    PROVE  LET less == bag (-) SetToBag({g})
           IN  IsFiniteSet(Copies(less)) /\ FlightCount(less) <= FlightCount(bag)
<1> DEFINE less == bag (-) SetToBag({g})
<1>1. /\ IsABag(less) /\ DOMAIN less \subseteq DOMAIN bag
      /\ \A f \in DOMAIN less : less[f] <= bag[f]
  BY BagFacts, OneFlight DEF BagToSet
<1>2. \A f \in DOMAIN less : less[f] \in Nat /\ bag[f] \in Nat
  BY <1>1 DEF IsABag
<1> HIDE DEF less
<1>3. \A f \in DOMAIN less : 1..less[f] \subseteq 1..bag[f]
  BY <1>1, <1>2
<1>4. Copies(less) \subseteq Copies(bag)
  BY <1>1, <1>3 DEF Copies
<1>5. IsFiniteSet(Copies(less)) /\ Cardinality(Copies(less)) <= Cardinality(Copies(bag))
  BY <1>4, FS_Subset
<1> QED
  BY <1>5 DEF FlightCount, less

LEMMA FlightsMore ==
    ASSUME NEW bag, IsABag(bag), IsFiniteSet(Copies(bag)), NEW S, IsFiniteSet(S)
    PROVE  LET more == bag (+) SetToBag(S)
           IN  /\ IsFiniteSet(Copies(more))
               /\ FlightCount(more) <= FlightCount(bag) + Cardinality(S)
               /\ FlightCount(more) \in Nat /\ FlightCount(bag) \in Nat
<1> DEFINE more == bag (+) SetToBag(S)
           new == {<<f, more[f]>> : f \in S}
           c == [f \in S |-> <<f, more[f]>>]
<1>1. /\ DOMAIN more = DOMAIN bag \cup S
      /\ \A f \in DOMAIN bag : bag[f] \in Nat
      /\ \A f \in S \cap DOMAIN bag : more[f] = bag[f] + 1
      /\ \A f \in S \ DOMAIN bag : more[f] = 1
      /\ \A f \in DOMAIN bag \ S : more[f] = bag[f]
  <2>1. DOMAIN SetToBag(S) = S /\ \A f \in S : SetToBag(S)[f] = 1
    BY DEF SetToBag
  <2>2. \A f \in DOMAIN bag : bag[f] \in Nat
    BY DEF IsABag
  <2> QED
    BY <2>1, <2>2 DEF (+)
<1>2. c \in Surjection(S, new)
  BY DEF Surjection
<1> HIDE DEF more, new, c
<1>3. IsFiniteSet(new) /\ Cardinality(new) <= Cardinality(S)
  BY <1>2, FS_Surjection
<1>4. Copies(more) \subseteq Copies(bag) \cup new
  <2> SUFFICES ASSUME NEW f \in DOMAIN more, NEW k \in 1..more[f]
               PROVE  <<f, k>> \in Copies(bag) \cup new
    BY DEF Copies
  <2>1. CASE f \in DOMAIN bag /\ k \in 1..bag[f]
    BY <2>1 DEF Copies
  <2>2. CASE ~(f \in DOMAIN bag /\ k \in 1..bag[f])
    <3>1. f \in S /\ k = more[f]
      BY <1>1, <2>2
    <3> QED
      BY <3>1 DEF new
  <2> QED
    BY <2>1, <2>2
<1>5. /\ IsFiniteSet(Copies(bag) \cup new)
      /\ Cardinality(Copies(bag) \cup new)
            = Cardinality(Copies(bag)) + Cardinality(new) - Cardinality(Copies(bag) \cap new)
  BY <1>3, FS_Union
<1>6. /\ Cardinality(Copies(bag)) \in Nat /\ Cardinality(new) \in Nat /\ Cardinality(S) \in Nat
      /\ Cardinality(Copies(bag) \cap new) \in Nat
  <2>1. IsFiniteSet(Copies(bag) \cap new)
    BY <1>3, FS_Subset
  <2> QED
    BY <1>3, <2>1, FS_CardinalityType
<1>7. /\ IsFiniteSet(Copies(more)) /\ Cardinality(Copies(more)) \in Nat
      /\ Cardinality(Copies(more)) <= Cardinality(Copies(bag) \cup new)
  BY <1>4, <1>5, FS_Subset, FS_CardinalityType
<1>8. Cardinality(Copies(more)) <= Cardinality(Copies(bag)) + Cardinality(S)
  BY <1>3, <1>5, <1>6, <1>7
<1> QED
  BY <1>6, <1>7, <1>8 DEF FlightCount, more

-----------------------------------------------------------------------------
\* What a node does, and what counts as covered.

BooksFit(books) ==
    /\ books = [x \in DOMAIN books |-> books[x]]
    /\ DOMAIN books \subseteq Authorable

\* A node with its initial subscriptions, whose relay holds nothing that it
\* subscribes to, and all of whose ops are known and counted.
Upright(n, s, books) ==
    /\ NetNode(s) /\ s.subs = Subs[n]
    /\ \A x \in s.relay.cells : ChannelOf(x) \notin Subs[n]
    /\ HeldUnion(s) \subseteq DOMAIN books
    /\ \A x \in s.ext.cells : ChannelOf(x) \in Subs[n] => n \in books[x]

\* What a transition of n leaves behind: its timers, at most one message, of
\* known ops, and a count of what it delivered.
Behaves(n, books, res, want, have) ==
    /\ Upright(n, res.st, Cover(books, n, res.fx.deliver))
    /\ res.st.router.wantTimer = want /\ res.st.router.haveTimer = have
    /\ \A m \in res.fx.send : NetMessage(m) /\ m.ops.cells \subseteq DOMAIN books
    /\ \A m, o \in res.fx.send : m = o

\* Counting an op only adds to what is counted.
LEMMA CoverFacts ==
    ASSUME NEW books, BooksFit(books), NEW n, NEW cells
    PROVE  /\ BooksFit(Cover(books, n, cells)) /\ DOMAIN Cover(books, n, cells) = DOMAIN books
           /\ \A x \in DOMAIN books : books[x] \subseteq Cover(books, n, cells)[x]
           /\ \A x \in DOMAIN books \cap cells :
                 ChannelOf(x) \in Subs[n] => n \in Cover(books, n, cells)[x]
           /\ Cover(books, n, {}) = books
BY DEF Cover, BooksFit

LEMMA UprightStays ==
    ASSUME NEW n, NEW s, NEW books, Upright(n, s, books), NEW more,
           DOMAIN books \subseteq DOMAIN more,
           \A x \in DOMAIN books : books[x] \subseteq more[x]
    PROVE  Upright(n, s, more)
<1>1. s.ext.cells \subseteq DOMAIN books
  BY DEF Upright, HeldUnion
<1> QED
  BY <1>1 DEF Upright

\* A transition may take ops, add foreign ones to the relay, and add to ext
\* what it announces or what is counted already.
LEMMA UprightAfter ==
    ASSUME NEW n, NEW s, NEW books, BooksFit(books), Upright(n, s, books),
           NEW t, NetNode(t), t.subs = s.subs,
           \A x \in t.relay.cells \ s.relay.cells : ChannelOf(x) \notin Subs[n],
           HeldUnion(t) \subseteq DOMAIN books, NEW cells,
           \A x \in t.ext.cells \ s.ext.cells :
               ChannelOf(x) \in Subs[n] => x \in cells \/ n \in books[x]
    PROVE  Upright(n, t, Cover(books, n, cells))
<1> DEFINE more == Cover(books, n, cells)
<1>1. /\ DOMAIN more = DOMAIN books /\ \A x \in DOMAIN books : books[x] \subseteq more[x]
      /\ \A x \in DOMAIN books \cap cells : ChannelOf(x) \in Subs[n] => n \in more[x]
  BY CoverFacts
<1> HIDE DEF more
<1>2. t.ext.cells \subseteq DOMAIN books
  BY DEF HeldUnion
<1>3. ASSUME NEW x \in t.ext.cells, ChannelOf(x) \in Subs[n] PROVE n \in more[x]
  BY <1>1, <1>2, <1>3 DEF Upright
<1>4. \A x \in t.relay.cells : ChannelOf(x) \notin Subs[n]
  BY DEF Upright
<1> QED
  BY <1>1, <1>3, <1>4 DEF Upright, more

\* A transition without effects that adds nothing to the stores.
LEMMA BehavesQuietly ==
    ASSUME NEW n, NEW s, NEW books, BooksFit(books), Upright(n, s, books),
           NEW t, NetNode(t), t.subs = s.subs,
           t.relay.cells \subseteq s.relay.cells, t.ext.cells \subseteq s.ext.cells
    PROVE  Behaves(n, books, Quiet(t), t.router.wantTimer, t.router.haveTimer)
<1>1. HeldUnion(t) \subseteq DOMAIN books
  BY DEF Upright, HeldUnion
<1>2. Upright(n, t, Cover(books, n, {}))
  BY <1>1, UprightAfter
<1> QED
  BY <1>2 DEF Behaves, Quiet

\* What is broadcast: one message at most, unless a Want and a Have are due
\* at once, of ops that are stored.
LEMMA SpokenHeld ==
    ASSUME NEW t, NEW id, NEW fx, NEW parked
    PROVE  LET send == RouteFx(t, id, fx, parked).send
           IN  /\ \A m \in send : m.ops.cells \subseteq HeldUnion(t)
               /\ fx.want = {} \/ fx.have = {} => \A m, o \in send : m = o
<1> DEFINE ops == Hydrate(t, fx.have)
           wants == {WantMessage(id, i) : i \in {fx.want} \ {{}}}
           haves == {HaveMessage(id, o) : o \in {ops} \ {NoOps}}
<1>1. ops.cells \subseteq HeldUnion(t) /\ (fx.have = {} => ops = NoOps)
  BY DEF Hydrate, Fetch, Ingest, HeldUnion, NoOps
<1> HIDE DEF ops
<1>2. \A m \in wants : m = WantMessage(id, fx.want) /\ m.ops.cells = {}
  BY DEF WantMessage, NoOps
<1>3. \A m \in haves : m = HaveMessage(id, ops) /\ m.ops.cells \subseteq HeldUnion(t)
  BY <1>1 DEF HaveMessage
<1>4. (fx.want = {} => wants = {}) /\ (fx.have = {} => haves = {})
  BY <1>1
<1>5. RouteFx(t, id, fx, parked).send = wants \cup haves
  BY DEF RouteFx, ops
<1> HIDE DEF wants, haves
<1> QED
  BY <1>2, <1>3, <1>4, <1>5

\* What a transition of the router leaves of the timers.
LEMMA TimersAfter ==
    ASSUME NEW r \in RouterState
    PROVE  /\ \A i : ArmWant(r, i).wantTimer = i /\ ArmWant(r, i).haveTimer = r.haveTimer
           /\ \A i : ArmHave(r, i).haveTimer = i /\ ArmHave(r, i).wantTimer = r.wantTimer
           /\ FireWant(r).st.wantTimer = NoTimer /\ FireWant(r).st.haveTimer = r.haveTimer
           /\ \A id : /\ FireHave(r, id).st.haveTimer = NoTimer
                      /\ FireHave(r, id).st.wantTimer = r.wantTimer
           /\ \A id, R : /\ Push(r, id, R).st.wantTimer = r.wantTimer
                         /\ Push(r, id, R).st.haveTimer = r.haveTimer
           /\ \A R : Held(r, R).wantTimer = r.wantTimer /\ Held(r, R).haveTimer = r.haveTimer
           /\ \A i : /\ RecvWant(r, i).st.wantTimer = r.wantTimer
                     /\ RecvWant(r, i).st.haveTimer = r.haveTimer
           /\ \A id, R : /\ RecvHave(r, id, R).st.wantTimer = r.wantTimer
                         /\ RecvHave(r, id, R).st.haveTimer = r.haveTimer
BY DEF ArmWant, ArmHave, FireWant, FireHave, Push, Held, RecvWant, RecvHave, RouterState

\* A transition of the router alone.
LEMMA RouterBehaves ==
    ASSUME NEW n, NEW s, NEW books, BooksFit(books), Upright(n, s, books),
           NEW q \in RouterState, q.held = s.router.held,
           NetNode([s EXCEPT !.router = q])
    PROVE  /\ Behaves(n, books, Quiet([s EXCEPT !.router = q]), q.wantTimer, q.haveTimer)
           /\ \A id, fx :
                 LET res == Outcome([s EXCEPT !.router = q], id, fx)
                 IN  /\ fx.want = {} \/ fx.have = {}
                     /\ \A m \in res.fx.send : NetMessage(m)
                     => Behaves(n, books, res, q.wantTimer, q.haveTimer)
<1> DEFINE t == [s EXCEPT !.router = q]
<1>1. /\ t.router = q /\ t.relay = s.relay /\ t.ext = s.ext /\ t.subs = s.subs
      /\ HeldUnion(t) = HeldUnion(s) /\ NetNode(t)
  BY RouterOnlyFacts DEF Upright
<1> HIDE DEF t
<1>2. Behaves(n, books, Quiet(t), q.wantTimer, q.haveTimer)
  BY <1>1, BehavesQuietly
<1>3. ASSUME NEW id, NEW fx, fx.want = {} \/ fx.have = {},
             \A m \in RouteFx(t, id, fx, NoOps).send : NetMessage(m)
      PROVE  Behaves(n, books, Outcome(t, id, fx), q.wantTimer, q.haveTimer)
  <2> DEFINE told == RouteFx(t, id, fx, NoOps)
  <2>1. HeldUnion(t) \subseteq DOMAIN books
    BY <1>1 DEF Upright
  <2>2. /\ \A m \in told.send : m.ops.cells \subseteq HeldUnion(t)
        /\ \A m, o \in told.send : m = o
    BY <1>3, SpokenHeld
  <2>3. Outcome(t, id, fx) = [st |-> t, fx |-> told]
    BY DEF Outcome
  <2> HIDE DEF told
  <2>4. Upright(n, t, Cover(books, n, told.deliver))
    BY <1>1, <2>1, UprightAfter
  <2> QED
    BY <1>1, <1>3, <2>1, <2>2, <2>3, <2>4 DEF Behaves, told
<1>4. \A id, fx : Outcome(t, id, fx).fx.send = RouteFx(t, id, fx, NoOps).send
  BY DEF Outcome
<1> QED
  BY <1>2, <1>3, <1>4 DEF t

Shifted(timer, d) == IF timer = NoTimer THEN NoTimer ELSE timer - d

LEMMA TickBehaves ==
    ASSUME NEW n, NEW s, NEW books, BooksFit(books), Upright(n, s, books),
           NEW d \in Nat, TickEnabled(s.router, d)
    PROVE  Behaves(n, books, NodeTick(s, d),
                   Shifted(s.router.wantTimer, d), Shifted(s.router.haveTimer, d))
<1> DEFINE q == Tick(s.router, d)
<1>1. NetNode(s) /\ s.router \in RouterState
  BY DEF Upright, NetNode, NodeState
<1>2. q \in RouterState /\ q.held = s.router.held
  BY <1>1, TickType
<1>3. NetNode([s EXCEPT !.router = q])
  BY <1>1, TimersOutcome DEF NetOutcome, NodeTick, Quiet
<1>4. /\ q.wantTimer = Shifted(s.router.wantTimer, d)
      /\ q.haveTimer = Shifted(s.router.haveTimer, d)
  BY <1>1 DEF Tick, Shifted, RouterState
<1> HIDE DEF q
<1>5. Behaves(n, books, Quiet([s EXCEPT !.router = q]), q.wantTimer, q.haveTimer)
  BY <1>2, <1>3, RouterBehaves
<1> QED
  BY <1>4, <1>5 DEF NodeTick, q

LEMMA ArmsBehave ==
    ASSUME NEW n, NEW s, NEW books, BooksFit(books), Upright(n, s, books), NEW i \in Nat
    PROVE  /\ Behaves(n, books, NodeArmWant(s, i), i, s.router.haveTimer)
           /\ Behaves(n, books, NodeArmHave(s, i), s.router.wantTimer, i)
<1> DEFINE q == ArmWant(s.router, i)
           p == ArmHave(s.router, i)
<1>1. NetNode(s) /\ s.router \in RouterState
  BY DEF Upright, NetNode, NodeState
<1>2. /\ q \in RouterState /\ q.held = s.router.held
      /\ p \in RouterState /\ p.held = s.router.held
  BY <1>1, ArmTypes
<1>3. NetNode([s EXCEPT !.router = q]) /\ NetNode([s EXCEPT !.router = p])
  BY <1>1, TimersOutcome DEF LastingOutcome, NetOutcome, NodeArmWant, NodeArmHave, Quiet
<1>4. /\ q.wantTimer = i /\ q.haveTimer = s.router.haveTimer
      /\ p.wantTimer = s.router.wantTimer /\ p.haveTimer = i
  BY <1>1, TimersAfter
<1> HIDE DEF q, p
<1>5. /\ Behaves(n, books, Quiet([s EXCEPT !.router = q]), q.wantTimer, q.haveTimer)
      /\ Behaves(n, books, Quiet([s EXCEPT !.router = p]), p.wantTimer, p.haveTimer)
  BY <1>2, <1>3, RouterBehaves
<1> QED
  BY <1>4, <1>5 DEF NodeArmWant, NodeArmHave, q, p

LEMMA FireWantBehaves ==
    ASSUME NEW n \in NodeId, NEW s, NEW books, BooksFit(books), Upright(n, s, books)
    PROVE  Behaves(n, books, NodeFireWant(s, n), NoTimer, s.router.haveTimer)
<1> DEFINE res == FireWant(s.router)
           q == res.st
           out == Outcome([s EXCEPT !.router = q], n, res.fx)
<1>1. NetNode(s) /\ s.router \in RouterState
  BY DEF Upright, NetNode, NodeState
<1>2. q \in RouterState /\ q.held = s.router.held
  BY <1>1, FireWantType
<1>3. LastingOutcome(s, out)
  BY <1>1, FireWantOutcome DEF NodeFireWant
<1>4. NetNode([s EXCEPT !.router = q]) /\ \A m \in out.fx.send : NetMessage(m)
  BY <1>3 DEF LastingOutcome, NetOutcome, Outcome
<1>5. q.wantTimer = NoTimer /\ q.haveTimer = s.router.haveTimer
  BY <1>1, TimersAfter
<1>6. res.fx.have = {}
  BY DEF FireWant, NoFx
<1>7. NodeFireWant(s, n) = out
  BY DEF NodeFireWant
<1> HIDE DEF res, q
<1>8. Behaves(n, books, out, q.wantTimer, q.haveTimer)
  BY <1>2, <1>4, <1>6, RouterBehaves
<1> QED
  BY <1>5, <1>7, <1>8

LEMMA FireHaveBehaves ==
    ASSUME NEW n \in NodeId, NEW s, NEW books, BooksFit(books), Upright(n, s, books),
           HaveDue(s.router)
    PROVE  Behaves(n, books, NodeFireHave(s, n), s.router.wantTimer, NoTimer)
<1> DEFINE res == FireHave(s.router, n)
           q == res.st
           out == Outcome([s EXCEPT !.router = q], n, res.fx)
<1>1. NetNode(s) /\ s.router \in RouterState
  BY DEF Upright, NetNode, NodeState
<1>2. q \in RouterState /\ q.held = s.router.held
  BY <1>1, FireHaveType
<1>3. LastingOutcome(s, out)
  BY <1>1, FireHaveOutcome DEF NodeFireHave
<1>4. NetNode([s EXCEPT !.router = q]) /\ \A m \in out.fx.send : NetMessage(m)
  BY <1>3 DEF LastingOutcome, NetOutcome, Outcome
<1>5. q.wantTimer = s.router.wantTimer /\ q.haveTimer = NoTimer
  BY <1>1, TimersAfter
<1>6. res.fx.want = {}
  BY DEF FireHave, NoFx
<1>7. NodeFireHave(s, n) = out
  BY DEF NodeFireHave
<1> HIDE DEF res, q
<1>8. Behaves(n, books, out, q.wantTimer, q.haveTimer)
  BY <1>2, <1>4, <1>6, RouterBehaves
<1> QED
  BY <1>5, <1>7, <1>8

\* A Want that is received is seen from then on, and no timer is touched.
LEMMA RecvWantBehaves ==
    ASSUME NEW n \in NodeId, NEW s, NEW books, BooksFit(books), Upright(n, s, books),
           NEW m, NetMessage(m)
    PROVE  /\ Behaves(n, books, NodeRecvWant(s, n, m), s.router.wantTimer, s.router.haveTimer)
           /\ SeenEntries(NodeRecvWant(s, n, m).st.router) = SeenEntries(s.router) \cup m.interest
           /\ NodeRecvWant(s, n, m).st.router.held = s.router.held
<1> DEFINE i == m.interest
           res == RecvWant(s.router, i)
           q == res.st
           t == [s EXCEPT !.router = q]
           out == Outcome(t, n, res.fx)
<1>1. NetNode(s) /\ s.router \in RouterState /\ i \in SUBSET Entry
  BY DEF Upright, NetNode, NodeState, NetMessage, WholeEntry
<1>2. q \in RouterState /\ q.held = s.router.held
  BY <1>1, RecvWantType
<1>3. LastingOutcome(s, out)
  BY <1>1, RecvWantOutcome DEF NodeRecvWant
<1>4. NetNode(t) /\ \A o \in out.fx.send : NetMessage(o)
  BY <1>3 DEF LastingOutcome, NetOutcome, Outcome
<1>5. q.wantTimer = s.router.wantTimer /\ q.haveTimer = s.router.haveTimer
  BY <1>1, TimersAfter
<1>6. res.fx.have = {} /\ SeenEntries(q) = SeenEntries(s.router) \cup i
  BY <1>1, SeenAfter DEF RecvWant, NoFx
<1>7. NodeRecvWant(s, n, m) = out /\ out.st = t
  BY DEF NodeRecvWant, Outcome
<1> HIDE DEF res, q
<1>8. Behaves(n, books, out, q.wantTimer, q.haveTimer)
  BY <1>2, <1>4, <1>6, RouterBehaves
<1>9. t.router = q
  BY <1>1, <1>2, RouterOnlyFacts
<1> QED
  BY <1>2, <1>5, <1>6, <1>7, <1>8, <1>9

\* What is parked goes to ext if it is subscribed to, and to the relay or
\* nowhere otherwise.
LEMMA ParkedStores ==
    ASSUME NEW s \in NodeState, NEW o \in Ops, NEW kept \in KeptSets(s, o)
    PROVE  LET t == IngestParked(s, o, kept)
           IN  /\ t \in NodeState /\ t.router = s.router /\ t.subs = s.subs
               /\ t.ext.cells = s.ext.cells \cup {x \in o.cells : IsSubscribed(s, x)}
               /\ t.relay.cells = s.relay.cells \cup kept
               /\ kept \subseteq o.cells /\ \A x \in kept : ~IsSubscribed(s, x)
<1> DEFINE t == IngestParked(s, o, kept)
           ext == Ingest(s.ext, Fetch(o, {x \in o.cells : IsSubscribed(s, x)}))
           relay == Ingest(s.relay, Fetch(o, kept))
<1>1. ext \in Ops /\ relay \in Ops
  BY OpsTypes DEF NodeState
<1>2. kept \subseteq o.cells /\ \A x \in kept : ~IsSubscribed(s, x)
  BY DEF KeptSets
<1>3. /\ ext.cells = s.ext.cells \cup {x \in o.cells : IsSubscribed(s, x)}
      /\ relay.cells = s.relay.cells \cup kept
  BY <1>2 DEF Ingest, Fetch
<1>4. t = [s EXCEPT !.ext = ext, !.relay = relay]
  BY DEF IngestParked
<1> HIDE DEF t, ext, relay
<1>5. /\ t \in NodeState /\ t.router = s.router /\ t.subs = s.subs
      /\ t.ext = ext /\ t.relay = relay
  BY <1>1, <1>4 DEF NodeState
<1> QED
  BY <1>2, <1>3, <1>5 DEF t

\* A Have that is received announces what it brings to the application.
LEMMA RecvHaveBehaves ==
    ASSUME NEW n \in NodeId, NEW s, NEW books, BooksFit(books), Upright(n, s, books),
           NEW m, NetMessage(m), m.ops.cells \subseteq DOMAIN books,
           NEW kept \in KeptSets(s, m.ops)
    PROVE  Behaves(n, books, NodeRecvHave(s, n, m, kept), s.router.wantTimer, s.router.haveTimer)
<1> DEFINE o == m.ops
           r == s.router
           res == RecvHave(r, m.sender, o.cells)
           s1 == [s EXCEPT !.router = res.st]
           s2 == IngestParked(s1, o, kept)
           t == ReconcileHeld(s2)
           told == RouteFx(t, n, res.fx, o)
<1>1. /\ NetNode(s) /\ s \in NodeState /\ r \in RouterState
      /\ HeldUnion(s) \subseteq DOMAIN books /\ r.held = HeldUnion(s)
  BY DEF Upright, NetNode, NodeState
<1>2. o \in Ops /\ o.cells \in SUBSET Cell /\ m.sender \in NodeId
  BY OpsTypes DEF NetMessage, WireMessage
<1>3. /\ res.st \in RouterState /\ res.fx.want = {}
      /\ res.fx.accept = o.cells \ r.held
  BY <1>1, <1>2, RecvHaveType DEF RecvHave, NoFx
<1>4. res.st.wantTimer = r.wantTimer /\ res.st.haveTimer = r.haveTimer
  BY <1>1, TimersAfter
<1>5. NodeRecvHave(s, n, m, kept) = [st |-> t, fx |-> told]
  BY DEF NodeRecvHave
<1>6. LastingOutcome(s, NodeRecvHave(s, n, m, kept))
  BY <1>1, RecvHaveOutcome
<1>7. NetNode(t) /\ \A msg \in told.send : NetMessage(msg)
  BY <1>5, <1>6 DEF LastingOutcome, NetOutcome
<1> HIDE DEF res, o
<1>8. /\ s1 \in NodeState /\ s1.router = res.st
      /\ s1.relay = s.relay /\ s1.ext = s.ext /\ s1.subs = s.subs
  BY <1>1, <1>3 DEF NodeState
<1> HIDE DEF s1
<1>9. /\ kept \in KeptSets(s1, o) /\ kept \in KeptSets(s, o)
      /\ \A x : IsSubscribed(s1, x) <=> ChannelOf(x) \in Subs[n]
  BY <1>8 DEF KeptSets, IsSubscribed, o, Upright
<1>10. /\ s2 \in NodeState /\ s2.router = res.st /\ s2.subs = s.subs
       /\ s2.ext.cells = s.ext.cells \cup {x \in o.cells : ChannelOf(x) \in Subs[n]}
       /\ s2.relay.cells = s.relay.cells \cup kept
       /\ kept \subseteq o.cells /\ \A x \in kept : ChannelOf(x) \notin Subs[n]
  BY <1>2, <1>8, <1>9, ParkedStores
<1> HIDE DEF s2
<1>11. /\ t.relay = s2.relay /\ t.ext = s2.ext /\ t.subs = s2.subs
       /\ t.router = Held(s2.router, HeldUnion(s2))
  BY <1>10, ReconcileFacts DEF ReconcileHeld, NodeState
<1>12. t.router.wantTimer = r.wantTimer /\ t.router.haveTimer = r.haveTimer
  BY <1>3, <1>4, <1>10, <1>11, TimersAfter
<1> HIDE DEF t
<1>13. HeldUnion(t) \subseteq DOMAIN books
  BY <1>1, <1>10, <1>11 DEF HeldUnion, o
<1>14. told.deliver = {x \in o.cells \ r.held : ChannelOf(x) \in Subs[n]}
  BY <1>3, <1>10, <1>11 DEF RouteFx, IsSubscribed, Upright
<1>15. /\ \A msg \in told.send : msg.ops.cells \subseteq HeldUnion(t)
       /\ \A a, b \in told.send : a = b
  BY <1>3, SpokenHeld
<1> HIDE DEF told
<1>16. ASSUME NEW x \in t.ext.cells \ s.ext.cells, ChannelOf(x) \in Subs[n]
       PROVE  x \in told.deliver
  <2>1. x \in o.cells
    BY <1>10, <1>11
  <2>2. x \notin s.relay.cells
    BY <1>16 DEF Upright
  <2> QED
    BY <1>1, <1>14, <1>16, <2>1, <2>2 DEF HeldUnion
<1>17. Upright(n, t, Cover(books, n, told.deliver))
  <2>1. t.subs = s.subs /\ \A x \in t.relay.cells \ s.relay.cells : ChannelOf(x) \notin Subs[n]
    BY <1>10, <1>11
  <2> QED
    BY <1>7, <1>13, <1>16, <2>1, UprightAfter
<1>18. \A msg \in told.send : NetMessage(msg) /\ msg.ops.cells \subseteq DOMAIN books
  BY <1>7, <1>13, <1>15
<1> QED
  BY <1>5, <1>12, <1>15, <1>17, <1>18 DEF Behaves

\* An op that is authored counts from birth.
LEMMA AuthoredBehaves ==
    ASSUME NEW n \in NodeId, NEW s, NEW books, BooksFit(books), Upright(n, s, books),
           NEW x \in DOMAIN books, ChannelOf(x) \in Subs[n] => n \in books[x]
    PROVE  Behaves(n, books, Authored(s, n, x, TRUE), s.router.wantTimer, s.router.haveTimer)
<1> DEFINE op == [cells |-> {x}, pay |-> {x}]
           s1 == [s EXCEPT !.ext = Ingest(@, op)]
           s2 == ReconcileHeld(s1)
           res == Push(s2.router, n, {x})
           t == [s2 EXCEPT !.router = res.st]
           told == RouteFx(t, n, res.fx, NoOps)
<1>1. /\ NetNode(s) /\ s \in NodeState /\ s.router \in RouterState
      /\ HeldUnion(s) \subseteq DOMAIN books
  BY DEF Upright, NetNode, NodeState
<1>2. x \in Authorable /\ x \in Cell /\ op \in Ops
  BY InputsAssumption DEF BooksFit, Ops
<1>3. Authored(s, n, x, TRUE) = [st |-> t, fx |-> told]
  BY DEF Authored, Outcome
<1>4. LastingOutcome(s, Authored(s, n, x, TRUE))
  BY <1>1, <1>2, AuthoredOutcome
<1>5. NetNode(t) /\ \A msg \in told.send : NetMessage(msg)
  <2>1. \A a, b : LastingOutcome(s, [st |-> a, fx |-> b])
                    => NetNode(a) /\ \A msg \in b.send : NetMessage(msg)
    BY DEF LastingOutcome, NetOutcome
  <2>2. LastingOutcome(s, [st |-> t, fx |-> told])
    BY <1>3, <1>4
  <2> HIDE DEF t, told
  <2> QED
    BY <2>1, <2>2
<1>6. Ingest(s.ext, op) \in Ops /\ Ingest(s.ext, op).cells = s.ext.cells \cup {x}
  <2>1. s.ext \in Ops
    BY <1>1 DEF NodeState
  <2> QED
    BY <1>2, <2>1, OpsTypes DEF Ingest
<1> HIDE DEF op
<1>7. /\ s1 \in NodeState /\ s1.router = s.router /\ s1.relay = s.relay /\ s1.subs = s.subs
      /\ s1.ext.cells = s.ext.cells \cup {x}
  BY <1>1, <1>6 DEF NodeState
<1> HIDE DEF s1
<1>8. /\ s2 \in NodeState /\ s2.router \in RouterState
      /\ s2.relay = s1.relay /\ s2.ext = s1.ext /\ s2.subs = s1.subs
      /\ s2.router = Held(s1.router, HeldUnion(s1))
  BY <1>7, ReconcileFacts DEF ReconcileHeld, NodeState
<1>9. s2.router.wantTimer = s.router.wantTimer /\ s2.router.haveTimer = s.router.haveTimer
  BY <1>1, <1>7, <1>8, TimersAfter
<1> HIDE DEF s2
<1>10. res.st \in RouterState /\ res.fx.want = {}
  <2>1. {x} \in SUBSET Cell
    BY <1>2
  <2> QED
    BY <1>8, <2>1, PushType DEF Push, NoFx
<1>11. res.st.wantTimer = s2.router.wantTimer /\ res.st.haveTimer = s2.router.haveTimer
  BY <1>8, TimersAfter
<1> HIDE DEF res
<1>12. /\ t.router = res.st /\ t.relay = s2.relay /\ t.ext = s2.ext /\ t.subs = s2.subs
  BY <1>8, <1>10 DEF NodeState
<1> HIDE DEF t
<1>13. HeldUnion(t) \subseteq DOMAIN books
  BY <1>1, <1>7, <1>8, <1>12 DEF HeldUnion
<1>14. /\ \A msg \in told.send : msg.ops.cells \subseteq HeldUnion(t)
       /\ \A a, b \in told.send : a = b
  BY <1>10, SpokenHeld
<1> HIDE DEF told
<1>15. Upright(n, t, Cover(books, n, told.deliver))
  <2>1. /\ t.subs = s.subs /\ t.relay = s.relay
        /\ \A y \in t.ext.cells \ s.ext.cells : y = x
    BY <1>7, <1>8, <1>12
  <2> QED
    BY <1>5, <1>13, <2>1, UprightAfter
<1>16. \A msg \in told.send : NetMessage(msg) /\ msg.ops.cells \subseteq DOMAIN books
  BY <1>5, <1>13, <1>14
<1>17. Behaves(n, books, [st |-> t, fx |-> told], s.router.wantTimer, s.router.haveTimer)
  BY <1>9, <1>11, <1>12, <1>14, <1>15, <1>16 DEF Behaves
<1> QED
  BY <1>3, <1>17

\* Stores that change without a word: the router is told what they hold.
LEMMA StoreBehaves ==
    ASSUME NEW n, NEW s, NEW books, BooksFit(books), Upright(n, s, books),
           NEW t \in NodeState, t.router = s.router, t.subs = s.subs,
           t.relay.cells \subseteq s.relay.cells,
           \A x \in t.ext.cells \ s.ext.cells :
               x \in DOMAIN books /\ (ChannelOf(x) \in Subs[n] => n \in books[x])
    PROVE  Behaves(n, books, Quiet(ReconcileHeld(t)), s.router.wantTimer, s.router.haveTimer)
<1> DEFINE u == ReconcileHeld(t)
<1>1. /\ NetNode(s) /\ s.router \in RouterState /\ HeldUnion(s) \subseteq DOMAIN books
      /\ DOMAIN books \subseteq Authorable
  BY DEF Upright, NetNode, NodeState, BooksFit
<1>2. HeldUnion(t) \subseteq DOMAIN books
  BY <1>1 DEF HeldUnion
<1>3. NetNode(u)
  BY <1>1, <1>2, ReconcileNet DEF NetNode
<1>4. /\ u.relay = t.relay /\ u.ext = t.ext /\ u.subs = t.subs
      /\ u.router = Held(s.router, HeldUnion(t)) /\ HeldUnion(u) = HeldUnion(t)
  BY ReconcileFacts DEF ReconcileHeld, NodeState
<1>5. u.router.wantTimer = s.router.wantTimer /\ u.router.haveTimer = s.router.haveTimer
  BY <1>1, <1>4, TimersAfter
<1> HIDE DEF u
<1>6. Upright(n, u, Cover(books, n, {}))
  BY <1>2, <1>3, <1>4, UprightAfter
<1> QED
  BY <1>5, <1>6 DEF Behaves, Quiet, u

LEMMA EvictionsBehave ==
    ASSUME NEW n, NEW s, NEW books, BooksFit(books), Upright(n, s, books), NEW R
    PROVE  /\ Behaves(n, books, AppGc(s, R), s.router.wantTimer, s.router.haveTimer)
           /\ Behaves(n, books, RelayEvict(s, R), s.router.wantTimer, s.router.haveTimer)
           /\ Behaves(n, books, RelayEvictPayloads(s, R), s.router.wantTimer, s.router.haveTimer)
<1>1. s \in NodeState /\ s.ext \in Ops /\ s.relay \in Ops
  BY DEF Upright, NetNode, NodeState
<1>2. Evict(s.ext, R) \in Ops /\ Evict(s.relay, R) \in Ops /\ EvictPayloads(s.relay, R) \in Ops
  BY <1>1, OpsTypes
<1>3. /\ Evict(s.ext, R).cells \subseteq s.ext.cells /\ Evict(s.relay, R).cells \subseteq s.relay.cells
      /\ EvictPayloads(s.relay, R).cells = s.relay.cells
  BY <1>1, OpsTypes DEF Evict
<1>4. Behaves(n, books, AppGc(s, R), s.router.wantTimer, s.router.haveTimer)
  <2> DEFINE t == [s EXCEPT !.ext = Evict(@, R)]
  <2>1. /\ t \in NodeState /\ t.router = s.router /\ t.subs = s.subs /\ t.relay = s.relay
        /\ t.ext = Evict(s.ext, R)
    BY <1>1, <1>2 DEF NodeState
  <2> HIDE DEF t
  <2>2. Behaves(n, books, Quiet(ReconcileHeld(t)), s.router.wantTimer, s.router.haveTimer)
    BY <1>3, <2>1, StoreBehaves
  <2> QED
    BY <2>2 DEF AppGc, t
<1>5. Behaves(n, books, RelayEvict(s, R), s.router.wantTimer, s.router.haveTimer)
  <2> DEFINE t == [s EXCEPT !.relay = Evict(@, R)]
  <2>1. /\ t \in NodeState /\ t.router = s.router /\ t.subs = s.subs /\ t.ext = s.ext
        /\ t.relay = Evict(s.relay, R)
    BY <1>1, <1>2 DEF NodeState
  <2> HIDE DEF t
  <2>2. Behaves(n, books, Quiet(ReconcileHeld(t)), s.router.wantTimer, s.router.haveTimer)
    BY <1>3, <2>1, StoreBehaves
  <2> QED
    BY <2>2 DEF RelayEvict, t
<1>6. Behaves(n, books, RelayEvictPayloads(s, R), s.router.wantTimer, s.router.haveTimer)
  <2> DEFINE t == [s EXCEPT !.relay = EvictPayloads(@, R)]
  <2>1. /\ t \in NodeState /\ t.router = s.router /\ t.subs = s.subs /\ t.ext = s.ext
        /\ t.relay = EvictPayloads(s.relay, R)
    BY <1>1, <1>2 DEF NodeState
  <2> HIDE DEF t
  <2>2. Behaves(n, books, Quiet(ReconcileHeld(t)), s.router.wantTimer, s.router.haveTimer)
    BY <1>3, <2>1, StoreBehaves
  <2> QED
    BY <2>2 DEF RelayEvictPayloads, t
<1> QED
  BY <1>4, <1>5, <1>6

LEMMA NativeSyncBehaves ==
    ASSUME NEW n, NEW s, NEW books, BooksFit(books), Upright(n, s, books),
           NEW x \in DOMAIN books, ChannelOf(x) \in Subs[n] => n \in books[x]
    PROVE  Behaves(n, books, NativeSync(s, [cells |-> {x}, pay |-> {x}]),
                   s.router.wantTimer, s.router.haveTimer)
<1> DEFINE op == [cells |-> {x}, pay |-> {x}]
           t == [s EXCEPT !.ext = Ingest(@, op)]
<1>1. s \in NodeState /\ s.ext \in Ops
  BY DEF Upright, NetNode, NodeState
<1>2. op \in Ops
  BY InputsAssumption DEF BooksFit, Ops
<1>3. Ingest(s.ext, op) \in Ops /\ Ingest(s.ext, op).cells = s.ext.cells \cup {x}
  BY <1>1, <1>2, OpsTypes DEF Ingest
<1> HIDE DEF op
<1>4. /\ t \in NodeState /\ t.router = s.router /\ t.subs = s.subs /\ t.relay = s.relay
      /\ t.ext.cells = s.ext.cells \cup {x}
  BY <1>1, <1>3 DEF NodeState
<1> HIDE DEF t
<1>5. Behaves(n, books, Quiet(ReconcileHeld(t)), s.router.wantTimer, s.router.haveTimer)
  BY <1>4, StoreBehaves
<1> QED
  BY <1>5 DEF NativeSync, t, op

-----------------------------------------------------------------------------
\* A tick in the making.

IsDraft(w) ==
    w = [nodes |-> w.nodes, inflight |-> w.inflight, queue |-> w.queue, clock |-> w.clock,
         covered |-> w.covered, refused |-> w.refused, sent |-> w.sent, at |-> w.at]

\* An armed timer has one event, not before the timer is due; in the course
\* of a tick, the events of T are still to be scheduled.
TimerFits(q, ev, timer, clk, T) ==
    /\ timer = NoTimer \/ ev \in T => \A e \in q : e.ev # ev
    /\ ev \in T => timer # NoTimer
    /\ timer # NoTimer /\ ev \notin T =>
          \E e \in q : {o \in q : o.ev = ev} = {e} /\ clk + timer <= e.at

TimersFit(n, s, clk, q, T) ==
    /\ TimerFits(q, FireWantEv(n), s.router.wantTimer, clk, T)
    /\ TimerFits(q, FireHaveEv(n), s.router.haveTimer, clk, T)

\* No event is late for a driver that has come to at.
QueueFits(q, at) ==
    /\ q \in SUBSET Pendings /\ IsFiniteSet(q) /\ Keyed(q)
    /\ \A e \in q : at <= Quantize(e.at)

\* Each copy in flight has one fate; in the course of a tick, one of each of
\* the messages of F is still to be given its fate.
AirFits(bag, q, books, F) ==
    /\ IsABag(bag) /\ IsFiniteSet(Copies(bag)) /\ FlightCount(bag) <= K
    /\ \A f \in BagToSet(bag) :
          f \in Flight /\ NetMessage(f.message) /\ f.message.ops.cells \subseteq DOMAIN books
    /\ \A f : CopiesOf(bag, f) = Cardinality(Fated(q, f)) + (IF f \in F THEN 1 ELSE 0)

DraftInv(w, F, T) ==
    /\ IsDraft(w) /\ w.at \in Nat /\ w.refused = FALSE
    /\ w.nodes = [n \in NodeId |-> w.nodes[n]] /\ w.clock = [n \in NodeId |-> w.clock[n]]
    /\ \A n \in NodeId :
          /\ Upright(n, w.nodes[n], w.covered)
          /\ w.clock[n] \in Nat /\ w.clock[n] <= w.at
          /\ TimersFit(n, w.nodes[n], w.clock[n], w.queue, T)
    /\ BooksFit(w.covered)
    /\ QueueFits(w.queue, w.at)
    /\ AirFits(w.inflight, w.queue, w.covered, F)

\* The flights of a tick: one broadcast at most.
SentFits(w) ==
    w.sent = {} \/ \E n \in NodeId : \E m :
                      w.sent = {[to |-> k, message |-> m] : k \in Neighbor[n]}

\* A tick of one node, in which other events than its own stay as they are.
LEMMA OthersFit ==
    ASSUME NEW n, NEW m, m # n, NEW s, NEW clk, NEW q, NEW T, NEW U,
           T \cup U \subseteq {FireWantEv(n), FireHaveEv(n)}, TimersFit(m, s, clk, q, T)
    PROVE  TimersFit(m, s, clk, q, U)
<1>1. FireWantEv(m) \notin T \cup U /\ FireHaveEv(m) \notin T \cup U
  <2>1. FireWantEv(m).node = m /\ FireHaveEv(m).node = m
    BY DEF FireWantEv, FireHaveEv
  <2>2. \A ev \in T \cup U : ev.node = n
    BY DEF FireWantEv, FireHaveEv
  <2> QED
    BY <2>1, <2>2
<1> QED
  BY <1>1 DEF TimersFit, TimerFits

\* What node n may do in a tick: its timers come to fit the events that are
\* still to be scheduled afterwards, U.
MayDo(w, F, T, n, res, U) ==
    /\ DraftInv(w, F, T)
    /\ U = T \/ T \cup U \subseteq {FireWantEv(n), FireHaveEv(n)}
    /\ \E want, have :
          /\ Behaves(n, w.covered, res, want, have)
          /\ TimerFits(w.queue, FireWantEv(n), want, w.clock[n], U)
          /\ TimerFits(w.queue, FireHaveEv(n), have, w.clock[n], U)

\* What an action of n makes of the draft, apart from its flights.
Done(w, p, n, res, U) ==
    /\ IsDraft(p) /\ p.queue = w.queue /\ p.at = w.at /\ p.clock = w.clock
    /\ p.nodes = [m \in NodeId |-> p.nodes[m]] /\ p.nodes[n] = res.st
    /\ \A m \in NodeId : m # n => p.nodes[m] = w.nodes[m]
    /\ p.covered = Cover(w.covered, n, res.fx.deliver)
    /\ BooksFit(p.covered) /\ DOMAIN p.covered = DOMAIN w.covered
    /\ \A m \in NodeId :
          /\ Upright(m, p.nodes[m], p.covered)
          /\ TimersFit(m, p.nodes[m], p.clock[m], p.queue, U)

LEMMA ProposeParts ==
    ASSUME NEW w, NEW F, NEW T, NEW n \in NodeId, NEW enabled, NEW res, NEW U,
           MayDo(w, F, T, n, res, U)
    PROVE  Done(w, Propose(w, n, enabled, res), n, res, U)
<1> DEFINE p == Propose(w, n, enabled, res)
<1>0. PICK want, have :
         /\ Behaves(n, w.covered, res, want, have)
         /\ TimerFits(w.queue, FireWantEv(n), want, w.clock[n], U)
         /\ TimerFits(w.queue, FireHaveEv(n), have, w.clock[n], U)
  BY DEF MayDo
<1>1. /\ IsDraft(p) /\ p.queue = w.queue /\ p.at = w.at /\ p.clock = w.clock
      /\ p.nodes = [w.nodes EXCEPT ![n] = res.st]
      /\ p.covered = Cover(w.covered, n, res.fx.deliver)
  BY DEF Propose, IsDraft
<1> HIDE DEF p
<1>2. w.nodes = [m \in NodeId |-> w.nodes[m]] /\ BooksFit(w.covered)
  BY DEF DraftInv, MayDo
<1>3. /\ p.nodes = [m \in NodeId |-> p.nodes[m]] /\ p.nodes[n] = res.st
      /\ \A m \in NodeId : m # n => p.nodes[m] = w.nodes[m]
  BY <1>1, <1>2
<1>4. /\ BooksFit(p.covered) /\ DOMAIN p.covered = DOMAIN w.covered
      /\ \A x \in DOMAIN w.covered : w.covered[x] \subseteq p.covered[x]
  BY <1>1, <1>2, CoverFacts
<1>5. ASSUME NEW m \in NodeId
      PROVE  /\ Upright(m, p.nodes[m], p.covered)
             /\ TimersFit(m, p.nodes[m], p.clock[m], p.queue, U)
  <2>1. Upright(m, w.nodes[m], w.covered) /\ TimersFit(m, w.nodes[m], w.clock[m], w.queue, T)
    BY DEF DraftInv, MayDo
  <2>2. CASE m = n
    <3>1. Upright(n, res.st, p.covered)
      BY <1>0, <1>1 DEF Behaves
    <3>2. TimersFit(n, res.st, w.clock[n], w.queue, U)
      BY <1>0 DEF Behaves, TimersFit
    <3> QED
      BY <1>1, <1>3, <2>2, <3>1, <3>2
  <2>3. CASE m # n
    <3>1. Upright(m, w.nodes[m], p.covered)
      BY <1>4, <2>1, UprightStays
    <3>2. TimersFit(m, w.nodes[m], w.clock[m], w.queue, U)
      BY <2>1, <2>3, OthersFit DEF MayDo
    <3> QED
      BY <1>1, <1>3, <2>3, <3>1, <3>2
  <2> QED
    BY <2>2, <2>3
<1> QED
  BY <1>1, <1>3, <1>4, <1>5 DEF p, Done

\* A draft that has come of an action of n.
Quietly(w, p, F, n, res, U) ==
    DraftInv(p, F, U) /\ Done(w, p, n, res, U) /\ p.sent = w.sent /\ p.inflight = w.inflight

Loudly(w, p, n, res, U) ==
    DraftInv(p, p.sent, U) /\ Done(w, p, n, res, U) /\ SentFits(p)

\* An action that broadcasts nothing.
LEMMA ProposeQuiet ==
    ASSUME NEW w, NEW F, NEW T, NEW n \in NodeId, NEW res, NEW U,
           MayDo(w, F, T, n, res, U), res.fx.send = {}
    PROVE  Quietly(w, Propose(w, n, TRUE, res), F, n, res, U)
<1> DEFINE p == Propose(w, n, TRUE, res)
           flights == Flights(n, res.fx.send)
<1>1. Done(w, p, n, res, U)
  BY ProposeParts
<1>2. /\ IsABag(flights) /\ BagToSet(flights) = {}
  BY FlightsFacts
<1>3. IsABag(w.inflight) /\ FlightCount(w.inflight) <= K /\ w.refused = FALSE
  BY DEF MayDo, DraftInv, AirFits
<1> HIDE DEF flights
<1>4. w.inflight (+) flights = w.inflight
  BY <1>2, <1>3, BagFacts
<1>5. IsFiniteSet(Copies(w.inflight)) /\ FlightCount(w.inflight) \in Nat
  BY FS_CardinalityType DEF MayDo, DraftInv, AirFits, FlightCount
<1>6. ~(FlightCount(w.inflight) > K)
  BY <1>3, <1>5, TopologyAssumption
<1>7. p.inflight = w.inflight /\ p.sent = w.sent /\ p.refused = FALSE
  <2>1. /\ p.inflight = w.inflight (+) flights /\ p.sent = w.sent \cup BagToSet(flights)
        /\ p.refused = (w.refused \/ ~TRUE \/ FlightCount(w.inflight (+) flights) > K)
    BY DEF Propose, flights
  <2> QED
    BY <1>2, <1>3, <1>4, <1>6, <2>1
<1> HIDE DEF p
<1>8. DraftInv(p, F, U)
  BY <1>1, <1>7 DEF DraftInv, AirFits, Done, MayDo
<1> QED
  BY <1>1, <1>7, <1>8 DEF p, Quietly

\* An action with room for its broadcast, the only one of its tick.
LEMMA ProposeLoud ==
    ASSUME NEW w, NEW T, NEW n \in NodeId, NEW res, NEW U,
           MayDo(w, {}, T, n, res, U), w.sent = {}, HasRoom(w, n)
    PROVE  Loudly(w, Propose(w, n, TRUE, res), n, res, U)
<1> DEFINE p == Propose(w, n, TRUE, res)
           S == {[to |-> k, message |-> m] : k \in Neighbor[n], m \in res.fx.send}
<1>1. Done(w, p, n, res, U)
  BY ProposeParts
<1>2. PICK want, have : Behaves(n, w.covered, res, want, have)
  BY DEF MayDo
<1>3. /\ IsABag(w.inflight) /\ w.refused = FALSE /\ IsFiniteSet(Copies(w.inflight))
      /\ \A f : CopiesOf(w.inflight, f) = Cardinality(Fated(w.queue, f))
      /\ \A f \in BagToSet(w.inflight) :
            f \in Flight /\ NetMessage(f.message) /\ f.message.ops.cells \subseteq DOMAIN w.covered
  <2>1. \A f : CopiesOf(w.inflight, f)
                  = Cardinality(Fated(w.queue, f)) + (IF f \in {} THEN 1 ELSE 0)
    BY DEF MayDo, DraftInv, AirFits
  <2>2. IsABag(w.inflight) /\ \A f : CopiesOf(w.inflight, f) \in Nat
    BY CopiesOfFacts DEF MayDo, DraftInv, AirFits
  <2>3. \A f : IsFiniteSet(Fated(w.queue, f))
    BY FS_Subset DEF MayDo, DraftInv, QueueFits, Fated
  <2>4. \A f : Cardinality(Fated(w.queue, f)) \in Nat
    BY <2>3, FS_CardinalityType
  <2>5. \A f : CopiesOf(w.inflight, f) = Cardinality(Fated(w.queue, f))
    BY <2>1, <2>4
  <2> QED
    BY <2>2, <2>5 DEF MayDo, DraftInv, AirFits
<1>4. /\ Flights(n, res.fx.send) = SetToBag(S)
      /\ p.inflight = w.inflight (+) SetToBag(S)
      /\ p.sent = w.sent \cup BagToSet(SetToBag(S))
      /\ p.refused = (w.refused \/ ~TRUE \/ FlightCount(w.inflight (+) SetToBag(S)) > K)
  BY DEF Propose, Flights
<1>5. IsABag(SetToBag(S)) /\ BagToSet(SetToBag(S)) = S
  BY DEF SetToBag, IsABag, BagToSet
<1>6. /\ \A m \in res.fx.send : NetMessage(m) /\ m.ops.cells \subseteq DOMAIN w.covered
      /\ \A m, o \in res.fx.send : m = o
  BY <1>2 DEF Behaves
<1>7. /\ \A f \in S : f \in Flight /\ NetMessage(f.message)
                      /\ f.message.ops.cells \subseteq DOMAIN w.covered
      /\ S = {} \/ \E m : S = {[to |-> k, message |-> m] : k \in Neighbor[n]}
  <2>1. \A k \in Neighbor[n] : k \in NodeId
    BY TopologyAssumption
  <2>2. ASSUME NEW f \in S
        PROVE  /\ f \in Flight /\ NetMessage(f.message)
               /\ f.message.ops.cells \subseteq DOMAIN w.covered
    <3>1. PICK k \in Neighbor[n], m \in res.fx.send : f = [to |-> k, message |-> m]
      BY <2>2
    <3> QED
      BY <1>6, <2>1, <3>1 DEF Flight, NetMessage
  <2>3. CASE res.fx.send = {}
    BY <2>2, <2>3
  <2>4. CASE res.fx.send # {}
    <3>1. PICK m \in res.fx.send : TRUE
      BY <2>4
    <3>2. S = {[to |-> k, message |-> m] : k \in Neighbor[n]}
      BY <1>6, <3>1
    <3> HIDE DEF S
    <3> QED
      BY <2>2, <3>2
  <2> HIDE DEF S
  <2> QED
    BY <2>3, <2>4
<1> HIDE DEF p, S
<1>8. /\ IsFiniteSet(S) /\ IsFiniteSet(Neighbor[n])
      /\ Cardinality(S) <= Cardinality(Neighbor[n])
  <2>1. IsFiniteSet(Neighbor[n])
    BY SimAssumption, TopologyAssumption, FS_Subset
  <2>2. CASE S = {}
    BY <2>1, <2>2, FS_EmptySet, FS_CardinalityType
  <2>3. CASE S # {}
    <3>1. PICK m : S = {[to |-> k, message |-> m] : k \in Neighbor[n]}
      BY <1>7, <2>3
    <3> DEFINE g == [k \in Neighbor[n] |-> [to |-> k, message |-> m]]
    <3>2. g \in Surjection(Neighbor[n], S)
      BY <3>1 DEF Surjection
    <3> QED
      BY <2>1, <3>2, FS_Surjection
  <2> QED
    BY <2>2, <2>3
<1> DEFINE more == w.inflight (+) SetToBag(S)
<1>9. /\ IsABag(more) /\ BagToSet(more) = BagToSet(w.inflight) \cup S
      /\ IsFiniteSet(Copies(more)) /\ FlightCount(more) \in Nat
      /\ FlightCount(more) <= FlightCount(w.inflight) + Cardinality(S)
      /\ FlightCount(w.inflight) \in Nat
  BY <1>3, <1>5, <1>8, BagFacts, FlightsMore
<1>10. \A f : CopiesOf(more, f) = CopiesOf(w.inflight, f) + (IF f \in S THEN 1 ELSE 0)
  BY <1>3, CopiesAdded
<1> HIDE DEF more
<1>11. FlightCount(more) <= K
  <2>1. Cardinality(S) \in Nat /\ Cardinality(Neighbor[n]) \in Nat
    BY <1>8, FS_CardinalityType
  <2> QED
    BY <1>8, <1>9, <2>1, TopologyAssumption DEF HasRoom
<1>12. p.inflight = more /\ p.sent = S /\ p.refused = FALSE
  <2>1. ~(FlightCount(more) > K)
    BY <1>9, <1>11, TopologyAssumption
  <2> QED
    BY <1>3, <1>4, <1>5, <2>1 DEF more
<1>13. AirFits(p.inflight, p.queue, p.covered, p.sent)
  <2>1. p.queue = w.queue /\ DOMAIN p.covered = DOMAIN w.covered
    BY <1>1 DEF Done
  <2> QED
    BY <1>3, <1>7, <1>9, <1>10, <1>11, <1>12, <2>1 DEF AirFits
<1>14. DraftInv(p, p.sent, U)
  BY <1>1, <1>12, <1>13 DEF DraftInv, Done, MayDo
<1>15. SentFits(p)
  BY <1>7, <1>12 DEF SentFits
<1> QED
  BY <1>1, <1>14, <1>15 DEF p, Loudly

\* What is to be scheduled once ev is taken.
OwedFate(ev) == IF IsFate(ev) THEN {ev.flight} ELSE {}

OwedTimer(ev) == IF ev.kind \in {"fire_want", "fire_have"} THEN {ev} ELSE {}

IsFire(ev) == ev.kind \in {"fire_want", "fire_have"}

\* An event that is added settles what is owed for it.
LEMMA TimerScheduled ==
    ASSUME NEW q, NEW x, NEW ev, IsFire(ev), NEW timer, NEW clk,
           TimerFits(q, ev, timer, clk, OwedTimer(x.ev)),
           x.ev = ev => clk + timer <= x.at
    PROVE  TimerFits(q \cup {x}, ev, timer, clk, {})
<1>1. CASE x.ev = ev
  <2>1. ev \in OwedTimer(x.ev)
    BY <1>1 DEF OwedTimer, IsFire
  <2>2. timer # NoTimer /\ \A e \in q : e.ev # ev
    BY <2>1 DEF TimerFits
  <2>3. {o \in q \cup {x} : o.ev = ev} = {x}
    BY <1>1, <2>2
  <2> QED
    BY <1>1, <2>2, <2>3 DEF TimerFits
<1>2. CASE x.ev # ev
  <2>1. ev \notin OwedTimer(x.ev)
    BY <1>2 DEF OwedTimer
  <2>2. {o \in q \cup {x} : o.ev = ev} = {o \in q : o.ev = ev}
    BY <1>2
  <2> QED
    BY <1>2, <2>1, <2>2 DEF TimerFits
<1> QED
  BY <1>1, <1>2

LEMMA TimerTaken ==
    ASSUME NEW q, NEW x \in q, NEW ev, IsFire(ev), NEW timer, NEW clk,
           TimerFits(q, ev, timer, clk, {})
    PROVE  TimerFits(q \ {x}, ev, timer, clk, OwedTimer(x.ev))
<1>1. CASE x.ev = ev
  <2>1. OwedTimer(x.ev) = {ev}
    BY <1>1 DEF OwedTimer, IsFire
  <2>2. timer # NoTimer
    BY <1>1 DEF TimerFits
  <2>3. PICK e \in q : {o \in q : o.ev = ev} = {e}
    BY <2>2 DEF TimerFits
  <2>4. \A o \in q \ {x} : o.ev # ev
    BY <1>1, <2>3
  <2> QED
    BY <2>1, <2>2, <2>4 DEF TimerFits
<1>2. CASE x.ev # ev
  <2>1. ev \notin OwedTimer(x.ev)
    BY <1>2 DEF OwedTimer
  <2>2. {o \in q \ {x} : o.ev = ev} = {o \in q : o.ev = ev}
    BY <1>2
  <2> QED
    BY <1>2, <2>1, <2>2 DEF TimerFits
<1> QED
  BY <1>1, <1>2

LEMMA FateScheduled ==
    ASSUME NEW q, IsFiniteSet(q), NEW x, x \notin q, NEW f
    PROVE  /\ IsFiniteSet(Fated(q, f)) /\ Cardinality(Fated(q, f)) \in Nat
           /\ Cardinality(Fated(q \cup {x}, f))
                 = Cardinality(Fated(q, f)) + (IF f \in OwedFate(x.ev) THEN 1 ELSE 0)
<1>1. IsFiniteSet(Fated(q, f)) /\ x \notin Fated(q, f)
  BY FS_Subset DEF Fated
<1>2. Cardinality(Fated(q, f)) \in Nat
  BY <1>1, FS_CardinalityType
<1>3. CASE f \in OwedFate(x.ev)
  <2>1. Fated(q \cup {x}, f) = Fated(q, f) \cup {x}
    BY <1>3 DEF Fated, OwedFate
  <2> QED
    BY <1>1, <1>2, <1>3, <2>1, FS_AddElement
<1>4. CASE f \notin OwedFate(x.ev)
  <2>1. Fated(q \cup {x}, f) = Fated(q, f)
    BY <1>4 DEF Fated, OwedFate
  <2> QED
    BY <1>1, <1>2, <1>4, <2>1
<1> QED
  BY <1>1, <1>2, <1>3, <1>4

\* The queue between two ticks: whatever is scheduled finds a free place.
Ready ==
    /\ quantum \in Nat \ {0} /\ IsFiniteSet(queue)
    /\ queue \in SUBSET Pendings
    /\ \A e \in queue : e.seq[1] < Cardinality(queue)

\* What is scheduled comes after whatever was pending.
LEMMA ScheduledLast ==
    ASSUME Ready, NEW q \in SUBSET queue, NEW at, NEW ev
    PROVE  \A e \in q \cup {EventAt(at, Cardinality(queue), 0, ev)} : e.seq[1] <= Cardinality(queue)
<1>1. Cardinality(queue) \in Nat /\ \A e \in queue : e.seq[1] \in Nat /\ e.seq[1] < Cardinality(queue)
  BY FS_CardinalityType DEF Ready, Pendings
<1> QED
  BY <1>1 DEF EventAt

\* The draft owes ev, and delay is not too soon for it.
Owes(w, F, delay, ev) ==
    /\ DraftInv(w, F \cup OwedFate(ev), OwedTimer(ev)) /\ F \cap OwedFate(ev) = {}
    /\ w.queue \subseteq queue /\ delay \in Nat /\ ev \in Happening
    /\ \A n \in NodeId :
          /\ ev = FireWantEv(n) => w.clock[n] + w.nodes[n].router.wantTimer <= w.at + delay
          /\ ev = FireHaveEv(n) => w.clock[n] + w.nodes[n].router.haveTimer <= w.at + delay

\* The draft with more in its queue.
LEMMA ScheduleFits ==
    ASSUME Ready, NEW w, NEW F, NEW ev, NEW delay, Owes(w, F, delay, ev)
    PROVE  /\ DraftInv(Schedule(w, delay, ev), F, {}) /\ Schedule(w, delay, ev).sent = w.sent
           /\ \A e \in Schedule(w, delay, ev).queue : e.seq[1] <= Cardinality(queue)
<1>0. /\ DraftInv(w, F \cup OwedFate(ev), OwedTimer(ev)) /\ F \cap OwedFate(ev) = {}
      /\ w.queue \subseteq queue /\ delay \in Nat /\ ev \in Happening
      /\ \A n \in NodeId :
            /\ ev = FireWantEv(n) => w.clock[n] + w.nodes[n].router.wantTimer <= w.at + delay
            /\ ev = FireHaveEv(n) => w.clock[n] + w.nodes[n].router.haveTimer <= w.at + delay
  BY DEF Owes
<1> DEFINE x == EventAt(w.at + delay, Cardinality(queue), 0, ev)
           u == Schedule(w, delay, ev)
<1>1. /\ IsDraft(u) /\ u.queue = w.queue \cup {x} /\ u.at = w.at /\ u.clock = w.clock
      /\ u.nodes = w.nodes /\ u.inflight = w.inflight /\ u.covered = w.covered
      /\ u.refused = w.refused /\ u.sent = w.sent
  <2>1. IsDraft(w)
    BY <1>0 DEF DraftInv
  <2> QED
    BY <2>1 DEF Schedule, IsDraft
<1>2. w.at \in Nat /\ Cardinality(queue) \in Nat
  BY <1>0, FS_CardinalityType DEF DraftInv, Ready
<1>3. /\ x \in Pendings /\ x.at = w.at + delay /\ x.ev = ev /\ x.seq[1] = Cardinality(queue)
  BY <1>0, <1>2 DEF EventAt, Pendings
<1> HIDE DEF x, u
<1>4. \A e \in w.queue : e.seq[1] # Cardinality(queue)
  <2>1. \A e \in queue : e.seq[1] \in Nat
    BY DEF Ready, Pendings
  <2> QED
    BY <1>0, <1>2, <2>1 DEF Ready
<1>5. x \notin w.queue
  BY <1>3, <1>4
<1>6. QueueFits(u.queue, u.at)
  <2>1. QueueFits(w.queue, w.at)
    BY <1>0 DEF DraftInv
  <2>2. IsFiniteSet(w.queue \cup {x})
    BY <2>1, FS_AddElement DEF QueueFits
  <2>3. Keyed(w.queue \cup {x})
    BY <1>3, <1>4, <2>1 DEF Keyed, QueueFits
  <2>4. w.at <= Quantize(x.at)
    <3>1. w.at + delay \in Nat
      BY <1>0, <1>2
    <3>2. Quantize(x.at) \in Nat /\ x.at <= Quantize(x.at)
      BY <1>3, <3>1, QuantizeFacts DEF Ready
    <3> QED
      BY <1>0, <1>2, <1>3, <3>2
  <2> QED
    BY <1>1, <1>3, <2>1, <2>2, <2>3, <2>4 DEF QueueFits
<1>7. AirFits(u.inflight, u.queue, u.covered, F)
  <2>1. ASSUME NEW f
        PROVE  CopiesOf(u.inflight, f)
                  = Cardinality(Fated(u.queue, f)) + (IF f \in F THEN 1 ELSE 0)
    <3>1. CopiesOf(w.inflight, f) = Cardinality(Fated(w.queue, f))
                                       + (IF f \in F \cup OwedFate(ev) THEN 1 ELSE 0)
      BY <1>0 DEF DraftInv, AirFits
    <3>2. IsFiniteSet(w.queue)
      BY <1>0 DEF DraftInv, QueueFits
    <3>3. /\ Cardinality(Fated(w.queue, f)) \in Nat
          /\ Cardinality(Fated(w.queue \cup {x}, f))
                = Cardinality(Fated(w.queue, f)) + (IF f \in OwedFate(ev) THEN 1 ELSE 0)
      BY <1>3, <1>5, <3>2, FateScheduled
    <3> QED
      BY <1>0, <1>1, <3>1, <3>3
  <2> QED
    BY <1>0, <1>1, <2>1 DEF AirFits, DraftInv
<1>8. ASSUME NEW n \in NodeId
      PROVE  TimersFit(n, u.nodes[n], u.clock[n], u.queue, {})
  <2>1. TimersFit(n, w.nodes[n], w.clock[n], w.queue, OwedTimer(ev))
    BY <1>0 DEF DraftInv
  <2>2. IsFire(FireWantEv(n)) /\ IsFire(FireHaveEv(n))
    BY DEF IsFire, FireWantEv, FireHaveEv
  <2>3. TimerFits(w.queue \cup {x}, FireWantEv(n), w.nodes[n].router.wantTimer, w.clock[n], {})
    BY <1>0, <1>3, <2>1, <2>2, TimerScheduled DEF TimersFit
  <2>4. TimerFits(w.queue \cup {x}, FireHaveEv(n), w.nodes[n].router.haveTimer, w.clock[n], {})
    BY <1>0, <1>3, <2>1, <2>2, TimerScheduled DEF TimersFit
  <2> QED
    BY <1>1, <2>3, <2>4 DEF TimersFit
<1>9. DraftInv(u, F, {})
  BY <1>0, <1>1, <1>6, <1>7, <1>8 DEF DraftInv
<1>10. \A e \in u.queue : e.seq[1] <= Cardinality(queue)
  BY <1>0, <1>1, ScheduledLast DEF x
<1> QED
  BY <1>1, <1>9, <1>10 DEF u

\* A message that leaves the network settles what is owed for its fate.
LEMMA WithoutFits ==
    ASSUME NEW w, NEW f, NEW T, DraftInv(w, {f}, T)
    PROVE  LET u == Without(w, f)
           IN  /\ DraftInv(u, {}, T)
               /\ u.queue = w.queue /\ u.nodes = w.nodes /\ u.clock = w.clock /\ u.at = w.at
               /\ u.covered = w.covered /\ u.sent = w.sent /\ IsDraft(u)
               /\ FlightCount(u.inflight) \in Nat /\ FlightCount(u.inflight) <= FlightCount(w.inflight)
               /\ f \in BagToSet(w.inflight)
<1> DEFINE u == Without(w, f)
           less == w.inflight (-) SetToBag({f})
<1>1. /\ IsDraft(u) /\ u.queue = w.queue /\ u.at = w.at /\ u.clock = w.clock
      /\ u.nodes = w.nodes /\ u.inflight = less /\ u.covered = w.covered
      /\ u.refused = w.refused /\ u.sent = w.sent
  BY DEF Without, IsDraft, DraftInv
<1>2. /\ IsABag(w.inflight) /\ IsFiniteSet(Copies(w.inflight)) /\ FlightCount(w.inflight) <= K
      /\ IsFiniteSet(w.queue)
  BY DEF DraftInv, AirFits, QueueFits
<1>3. \A g : /\ CopiesOf(w.inflight, g)
                   = Cardinality(Fated(w.queue, g)) + (IF g \in {f} THEN 1 ELSE 0)
             /\ Cardinality(Fated(w.queue, g)) \in Nat
  <2>1. \A g : IsFiniteSet(Fated(w.queue, g))
    BY <1>2, FS_Subset DEF Fated
  <2>2. \A g : Cardinality(Fated(w.queue, g)) \in Nat
    BY <2>1, FS_CardinalityType
  <2> QED
    BY <2>2 DEF DraftInv, AirFits
<1>4. f \in BagToSet(w.inflight)
  BY <1>2, <1>3, CopiesOfFacts
<1>5. IsFiniteSet(Copies(less)) /\ FlightCount(less) <= FlightCount(w.inflight)
  BY <1>2, FlightsFewer
<1>6. IsABag(less) /\ BagToSet(less) \subseteq BagToSet(w.inflight)
  BY <1>2, BagFacts, OneFlight
<1>7. \A g : CopiesOf(less, g) = Cardinality(Fated(w.queue, g))
  <2> TAKE g
  <2>1. CopiesOf(less, g) = CopiesOf(w.inflight, g) - (IF g = f THEN 1 ELSE 0)
    BY <1>2, <1>4, CopiesRemoved
  <2> QED
    BY <1>3, <2>1
<1> HIDE DEF u, less
<1>8. FlightCount(less) \in Nat /\ FlightCount(w.inflight) \in Nat
  BY <1>2, <1>5, FS_CardinalityType DEF FlightCount
<1>9. AirFits(u.inflight, u.queue, u.covered, {})
  <2>1. FlightCount(less) <= K
    BY <1>2, <1>5, <1>8, TopologyAssumption
  <2> QED
    BY <1>1, <1>3, <1>5, <1>6, <1>7, <2>1 DEF AirFits, DraftInv
<1>10. DraftInv(u, {}, T)
  BY <1>1, <1>9 DEF DraftInv
<1> QED
  BY <1>1, <1>4, <1>5, <1>8, <1>10 DEF u

LEMMA LagFacts ==
    ASSUME NEW w, NEW F, NEW T, DraftInv(w, F, T), NEW n \in NodeId
    PROVE  /\ w.nodes[n].router \in RouterState
           /\ Lag(w, n) \in Nat /\ w.clock[n] + Lag(w, n) <= w.at
           /\ w.nodes[n].router.wantTimer # NoTimer => Lag(w, n) <= w.nodes[n].router.wantTimer
           /\ w.nodes[n].router.haveTimer # NoTimer => Lag(w, n) <= w.nodes[n].router.haveTimer
           /\ Lag(w, n) # 0 => TickEnabled(w.nodes[n].router, Lag(w, n))
<1> DEFINE r == w.nodes[n].router
           lag == w.at - w.clock[n]
           d == Lag(w, n)
<1>1. w.at \in Nat /\ w.clock[n] \in Nat /\ w.clock[n] <= w.at /\ Upright(n, w.nodes[n], w.covered)
  BY DEF DraftInv
<1>2. lag \in Nat
  BY <1>1
<1>3. r \in RouterState
  BY <1>1 DEF Upright, NetNode, NodeState
<1>4. r.wantTimer \in Nat \cup {NoTimer} /\ r.haveTimer \in Nat \cup {NoTimer}
  BY <1>3 DEF RouterState
<1>5. d = Until(r.wantTimer, Until(r.haveTimer, lag))
  BY DEF Lag
<1> HIDE DEF r, lag, d
<1>6. /\ d \in Nat /\ d <= lag
      /\ r.wantTimer # NoTimer => d <= r.wantTimer
      /\ r.haveTimer # NoTimer => d <= r.haveTimer
  BY <1>2, <1>4, <1>5 DEF Until
<1>7. w.clock[n] + d <= w.at
  BY <1>1, <1>6 DEF lag
<1>8. d # 0 => TickEnabled(r, d)
  BY <1>6 DEF TickEnabled
<1> QED
  BY <1>3, <1>6, <1>7, <1>8 DEF r, d

\* The node of a draft whose clock has moved on by d.
Advanced(w, u, n, d) ==
    /\ IsDraft(u) /\ u.queue = w.queue /\ u.inflight = w.inflight /\ u.at = w.at
    /\ u.sent = w.sent /\ u.covered = w.covered /\ u.clock[n] = w.clock[n] + d
    /\ \A m \in NodeId : m # n => u.nodes[m] = w.nodes[m] /\ u.clock[m] = w.clock[m]
    /\ u.nodes[n].router.held = w.nodes[n].router.held
    /\ u.nodes[n].router.wantTimer = Shifted(w.nodes[n].router.wantTimer, d)
    /\ u.nodes[n].router.haveTimer = Shifted(w.nodes[n].router.haveTimer, d)
    /\ SeenEntries(u.nodes[n].router)
          = {v.entry : v \in {x \in w.nodes[n].router.seen : d < x.ttl}}

LEMMA TimerShifts ==
    ASSUME NEW q, NEW ev, NEW timer \in Nat \cup {NoTimer}, NEW clk \in Nat, NEW T, NEW d \in Nat,
           \A e \in q : e.at \in Nat, timer # NoTimer => d <= timer, TimerFits(q, ev, timer, clk, T)
    PROVE  /\ TimerFits(q, ev, Shifted(timer, d), clk, T)
           /\ TimerFits(q, ev, Shifted(timer, d), clk + d, T)
<1>1. CASE timer = NoTimer
  BY <1>1 DEF TimerFits, Shifted
<1>2. CASE timer # NoTimer
  <2>1. Shifted(timer, d) # NoTimer /\ Shifted(timer, d) = timer - d /\ timer \in Nat
    BY <1>2 DEF Shifted, NoTimer
  <2>2. CASE ev \in T
    BY <2>1, <2>2, <1>2 DEF TimerFits
  <2>3. CASE ev \notin T
    <3>1. PICK e \in q : {o \in q : o.ev = ev} = {e} /\ clk + timer <= e.at
      BY <1>2, <2>3 DEF TimerFits
    <3>2. clk + (timer - d) <= e.at /\ (clk + d) + (timer - d) <= e.at
      BY <2>1, <3>1
    <3> QED
      BY <2>1, <2>3, <3>1, <3>2 DEF TimerFits
  <2> QED
    BY <2>2, <2>3
<1> QED
  BY <1>1, <1>2

\* advance keeps the clocks behind the driver's time and every event in its
\* place.
LEMMA AdvanceFits ==
    ASSUME NEW w, NEW F, NEW T, DraftInv(w, F, T), NEW n \in NodeId
    PROVE  DraftInv(Advance(w, n), F, T) /\ Advanced(w, Advance(w, n), n, Lag(w, n))
<1> DEFINE d == Lag(w, n)
           s == w.nodes[n]
           r == s.router
<1>1. /\ r \in RouterState /\ d \in Nat /\ w.clock[n] + d <= w.at
      /\ r.wantTimer # NoTimer => d <= r.wantTimer
      /\ r.haveTimer # NoTimer => d <= r.haveTimer
      /\ d # 0 => TickEnabled(r, d)
  BY LagFacts
<1>2. /\ r.wantTimer \in Nat \cup {NoTimer} /\ r.haveTimer \in Nat \cup {NoTimer}
      /\ w.at \in Nat /\ w.clock[n] \in Nat /\ \A e \in w.queue : e.at \in Nat
      /\ IsDraft(w)
  BY <1>1 DEF RouterState, DraftInv, QueueFits, Pendings
<1> HIDE DEF d
<1>3. CASE d = 0
  <2>1. Advance(w, n) = w
    BY <1>3 DEF Advance, d
  <2>2. \A v \in r.seen : 0 < v.ttl
    BY <1>1 DEF RouterState
  <2>3. SeenEntries(r) = {v.entry : v \in {x \in r.seen : 0 < x.ttl}}
    BY <2>2 DEF SeenEntries
  <2>4. Shifted(r.wantTimer, 0) = r.wantTimer /\ Shifted(r.haveTimer, 0) = r.haveTimer
    BY <1>2 DEF Shifted, NoTimer
  <2>5. Advanced(w, w, n, 0)
    BY <1>2, <2>3, <2>4 DEF Advanced
  <2> QED
    BY <1>3, <2>1, <2>5 DEF d
<1>4. CASE d # 0
  <2> DEFINE p == Propose(w, n, TickEnabled(r, d), NodeTick(s, d))
             u == [p EXCEPT !.clock[n] = @ + d]
  <2>1. TickEnabled(r, d) = TRUE /\ NodeTick(s, d).fx.send = {} /\ NodeTick(s, d).fx.deliver = {}
    BY <1>1, <1>4 DEF NodeTick, Quiet, TickEnabled
  <2>2. MayDo(w, F, T, n, NodeTick(s, d), T)
    <3>1. Upright(n, s, w.covered) /\ BooksFit(w.covered) /\ TimersFit(n, s, w.clock[n], w.queue, T)
      BY DEF DraftInv
    <3>2. Behaves(n, w.covered, NodeTick(s, d), Shifted(r.wantTimer, d), Shifted(r.haveTimer, d))
      BY <1>1, <1>4, <3>1, TickBehaves
    <3>3. /\ TimerFits(w.queue, FireWantEv(n), Shifted(r.wantTimer, d), w.clock[n], T)
          /\ TimerFits(w.queue, FireHaveEv(n), Shifted(r.haveTimer, d), w.clock[n], T)
      BY <1>1, <1>2, <3>1, TimerShifts DEF TimersFit
    <3> QED
      BY <3>2, <3>3 DEF MayDo
  <2>3. /\ DraftInv(p, F, T) /\ Done(w, p, n, NodeTick(s, d), T)
        /\ p.sent = w.sent /\ p.inflight = w.inflight
    <3> DEFINE on == TickEnabled(r, d)
               res == NodeTick(s, d)
    <3>1. on = TRUE /\ res.fx.send = {} /\ MayDo(w, F, T, n, res, T)
      BY <2>1, <2>2
    <3> HIDE DEF on, res
    <3>2. Quietly(w, Propose(w, n, TRUE, res), F, n, res, T)
      BY <3>1, ProposeQuiet
    <3>3. Propose(w, n, on, res) = Propose(w, n, TRUE, res)
      BY <3>1, Zenon
    <3> QED
      BY <3>2, <3>3 DEF on, res, Quietly
  <2>4. Advance(w, n) = u
    BY <1>4 DEF Advance, d
  <2>5. p.nodes[n].router = Tick(r, d)
    <3>1. s \in NodeState
      BY DEF DraftInv, Upright, NetNode
    <3> QED
      BY <2>3, <3>1 DEF Done, NodeTick, Quiet, NodeState
  <2> HIDE DEF p
  <2>6. IsDraft(p) /\ p.clock = w.clock /\ p.clock = [m \in NodeId |-> p.clock[m]]
    BY <2>3 DEF DraftInv, Done
  <2>7. /\ IsDraft(u) /\ u.queue = p.queue /\ u.at = p.at /\ u.nodes = p.nodes
        /\ u.inflight = p.inflight /\ u.covered = p.covered /\ u.refused = p.refused
        /\ u.sent = p.sent /\ u.clock = [p.clock EXCEPT ![n] = @ + d]
    BY <2>6 DEF IsDraft
  <2> HIDE DEF u
  <2>8. /\ u.clock = [m \in NodeId |-> u.clock[m]] /\ u.clock[n] = w.clock[n] + d
        /\ \A m \in NodeId : m # n => u.clock[m] = w.clock[m]
    BY <2>6, <2>7
  <2>9. w.covered = p.covered
    BY <2>1, <2>3, CoverFacts DEF Done, DraftInv
  <2>10. /\ Tick(r, d).held = r.held
         /\ Tick(r, d).wantTimer = Shifted(r.wantTimer, d)
         /\ Tick(r, d).haveTimer = Shifted(r.haveTimer, d)
         /\ Tick(r, d).seen = {[entry |-> v.entry, ttl |-> v.ttl - d] : v \in {x \in r.seen : d < x.ttl}}
    BY <1>1 DEF Tick, Shifted, RouterState
  <2>11. SeenEntries(Tick(r, d)) = {v.entry : v \in {x \in r.seen : d < x.ttl}}
    <3> DEFINE S == {x \in r.seen : d < x.ttl}
    <3>1. \A v : [entry |-> v.entry, ttl |-> v.ttl - d].entry = v.entry
      OBVIOUS
    <3> HIDE DEF S
    <3>2. {x.entry : x \in {[entry |-> v.entry, ttl |-> v.ttl - d] : v \in S}} = {v.entry : v \in S}
      BY <3>1
    <3> QED
      BY <2>10, <3>2 DEF SeenEntries, S
  <2>12. TimersFit(n, u.nodes[n], u.clock[n], u.queue, T)
    <3>1. TimersFit(n, s, w.clock[n], w.queue, T)
      BY DEF DraftInv
    <3>2. /\ TimerFits(w.queue, FireWantEv(n), Shifted(r.wantTimer, d), w.clock[n] + d, T)
          /\ TimerFits(w.queue, FireHaveEv(n), Shifted(r.haveTimer, d), w.clock[n] + d, T)
      BY <1>1, <1>2, <3>1, TimerShifts DEF TimersFit
    <3> QED
      BY <2>3, <2>5, <2>7, <2>8, <2>10, <3>2 DEF TimersFit, Done
  <2>13. ASSUME NEW m \in NodeId
         PROVE  /\ Upright(m, u.nodes[m], u.covered)
                /\ u.clock[m] \in Nat /\ u.clock[m] <= u.at
                /\ TimersFit(m, u.nodes[m], u.clock[m], u.queue, T)
    <3>1. /\ Upright(m, p.nodes[m], p.covered)
          /\ p.clock[m] \in Nat /\ p.clock[m] <= p.at
          /\ TimersFit(m, p.nodes[m], p.clock[m], p.queue, T)
      BY <2>3 DEF DraftInv
    <3>2. u.clock[n] \in Nat /\ u.clock[n] <= u.at
      BY <1>1, <1>2, <2>3, <2>7, <2>8 DEF Done
    <3> QED
      BY <2>6, <2>7, <2>8, <2>12, <3>1, <3>2
  <2>14. DraftInv(u, F, T)
    BY <2>3, <2>7, <2>8, <2>13 DEF DraftInv
  <2>15. Advanced(w, u, n, d)
    BY <2>3, <2>5, <2>7, <2>8, <2>9, <2>10, <2>11 DEF Advanced, Done
  <2> QED
    BY <2>4, <2>14, <2>15 DEF d
<1> QED
  BY <1>3, <1>4

\* When every message in flight and every timer of the draft has its event.
Settles(w) ==
    /\ DraftInv(w, w.sent, {}) /\ SentFits(w)
    /\ \A e \in w.queue : e.seq[1] <= Cardinality(queue)

LEMMA DueInFacts ==
    ASSUME NEW w, NEW F, NEW T, DraftInv(w, F, T), NEW n \in NodeId, NEW i \in Nat
    PROVE  DueIn(w, n, i) \in Nat /\ w.clock[n] + i <= w.at + DueIn(w, n, i)
<1>1. w.at \in Nat /\ w.clock[n] \in Nat
  BY DEF DraftInv
<1> QED
  BY <1>1 DEF DueIn

\* A timer that is armed gets its event.
LEMMA ArmsWantFits ==
    ASSUME Ready, NEW w, DraftInv(w, w.sent, {}), SentFits(w), w.queue \subseteq queue,
           NEW n \in NodeId, w.nodes[n].router.wantTimer = NoTimer, NEW i \in Nat
    PROVE  Settles(ArmsWant(w, n, i))
<1> DEFINE F == w.sent
           s == w.nodes[n]
           on == ArmWantEnabled(s.router)
           res == NodeArmWant(s, i)
           ev == FireWantEv(n)
           p == Propose(w, n, on, res)
           j == DueIn(w, n, i)
<1>1. on = TRUE /\ res.fx.send = {}
  BY DEF ArmWantEnabled, NodeArmWant, Quiet
<1>2. MayDo(w, F, {}, n, res, {ev})
  <2>1. Upright(n, s, w.covered) /\ BooksFit(w.covered) /\ TimersFit(n, s, w.clock[n], w.queue, {})
    BY DEF DraftInv
  <2>2. Behaves(n, w.covered, res, i, s.router.haveTimer)
    BY <2>1, ArmsBehave
  <2>3. ev # FireHaveEv(n)
    BY DEF FireWantEv, FireHaveEv
  <2>4. /\ TimerFits(w.queue, FireWantEv(n), i, w.clock[n], {ev})
        /\ TimerFits(w.queue, FireHaveEv(n), s.router.haveTimer, w.clock[n], {ev})
    BY <2>1, <2>3 DEF TimersFit, TimerFits, NoTimer
  <2> QED
    BY <2>2, <2>4 DEF MayDo
<1>3. res.st.router.wantTimer = i
  <2>1. s \in NodeState /\ s.router \in RouterState
    BY DEF DraftInv, Upright, NetNode, NodeState
  <2> QED
    BY <2>1, TimersAfter DEF NodeArmWant, Quiet, NodeState
<1>4. /\ ev \in Happening /\ OwedFate(ev) = {} /\ OwedTimer(ev) = {ev}
      /\ \A m : ev = FireWantEv(m) => m = n
      /\ \A m : ev # FireHaveEv(m)
  BY DEF FireWantEv, FireHaveEv, Happening, OwedFate, OwedTimer, IsFate
<1>5. j \in Nat /\ w.clock[n] + i <= w.at + j
  BY DueInFacts
<1> HIDE DEF on, res, ev, j
<1>6. Quietly(w, p, F, n, res, {ev})
  <2>1. Quietly(w, Propose(w, n, TRUE, res), F, n, res, {ev})
    BY <1>1, <1>2, ProposeQuiet
  <2>2. p = Propose(w, n, TRUE, res)
    BY <1>1, Zenon
  <2> QED
    BY <2>1, <2>2
<1> HIDE DEF p
<1>7. /\ DraftInv(p, F \cup OwedFate(ev), OwedTimer(ev)) /\ p.queue = w.queue
      /\ p.clock = w.clock /\ p.at = w.at /\ p.nodes[n].router.wantTimer = i /\ p.sent = w.sent
  BY <1>3, <1>4, <1>6 DEF Quietly, Done
<1>8. Owes(p, F, j, ev)
  <2>1. F \cap OwedFate(ev) = {} /\ p.queue \subseteq queue
    BY <1>4, <1>7
  <2>2. ASSUME NEW m \in NodeId
        PROVE  /\ ev = FireWantEv(m) => p.clock[m] + p.nodes[m].router.wantTimer <= p.at + j
               /\ ev = FireHaveEv(m) => p.clock[m] + p.nodes[m].router.haveTimer <= p.at + j
    BY <1>4, <1>5, <1>7
  <2> QED
    BY <1>4, <1>5, <1>7, <2>1, <2>2 DEF Owes
<1>9. Settles(Schedule(p, j, ev))
  <2> DEFINE u == Schedule(p, j, ev)
  <2>1. DraftInv(u, F, {}) /\ u.sent = p.sent /\ \A e \in u.queue : e.seq[1] <= Cardinality(queue)
    BY <1>8, ScheduleFits
  <2> HIDE DEF u
  <2>2. Settles(u)
    BY <1>7, <2>1 DEF Settles, SentFits
  <2> QED
    BY <2>2 DEF u
<1> QED
  BY <1>9 DEF ArmsWant, p, on, res, ev, j

LEMMA ArmsHaveFits ==
    ASSUME Ready, NEW w, DraftInv(w, w.sent, {}), SentFits(w), w.queue \subseteq queue,
           NEW n \in NodeId, w.nodes[n].router.haveTimer = NoTimer,
           NetworkAsk(w.nodes[n].router) # {}, NEW i \in Nat
    PROVE  Settles(ArmsHave(w, n, i))
<1> DEFINE F == w.sent
           s == w.nodes[n]
           on == ArmHaveEnabled(s.router)
           res == NodeArmHave(s, i)
           ev == FireHaveEv(n)
           p == Propose(w, n, on, res)
           j == DueIn(w, n, i)
<1>1. on = TRUE /\ res.fx.send = {}
  BY DEF ArmHaveEnabled, NodeArmHave, Quiet
<1>2. MayDo(w, F, {}, n, res, {ev})
  <2>1. Upright(n, s, w.covered) /\ BooksFit(w.covered) /\ TimersFit(n, s, w.clock[n], w.queue, {})
    BY DEF DraftInv
  <2>2. Behaves(n, w.covered, res, s.router.wantTimer, i)
    BY <2>1, ArmsBehave
  <2>3. ev # FireWantEv(n)
    BY DEF FireWantEv, FireHaveEv
  <2>4. /\ TimerFits(w.queue, FireWantEv(n), s.router.wantTimer, w.clock[n], {ev})
        /\ TimerFits(w.queue, FireHaveEv(n), i, w.clock[n], {ev})
    BY <2>1, <2>3 DEF TimersFit, TimerFits, NoTimer
  <2> QED
    BY <2>2, <2>4 DEF MayDo
<1>3. res.st.router.haveTimer = i
  <2>1. s \in NodeState /\ s.router \in RouterState
    BY DEF DraftInv, Upright, NetNode, NodeState
  <2> QED
    BY <2>1, TimersAfter DEF NodeArmHave, Quiet, NodeState
<1>4. /\ ev \in Happening /\ OwedFate(ev) = {} /\ OwedTimer(ev) = {ev}
      /\ \A m : ev = FireHaveEv(m) => m = n
      /\ \A m : ev # FireWantEv(m)
  BY DEF FireWantEv, FireHaveEv, Happening, OwedFate, OwedTimer, IsFate
<1>5. j \in Nat /\ w.clock[n] + i <= w.at + j
  BY DueInFacts
<1> HIDE DEF on, res, ev, j
<1>6. Quietly(w, p, F, n, res, {ev})
  <2>1. Quietly(w, Propose(w, n, TRUE, res), F, n, res, {ev})
    BY <1>1, <1>2, ProposeQuiet
  <2>2. p = Propose(w, n, TRUE, res)
    BY <1>1, Zenon
  <2> QED
    BY <2>1, <2>2
<1> HIDE DEF p
<1>7. /\ DraftInv(p, F \cup OwedFate(ev), OwedTimer(ev)) /\ p.queue = w.queue
      /\ p.clock = w.clock /\ p.at = w.at /\ p.nodes[n].router.haveTimer = i /\ p.sent = w.sent
  BY <1>3, <1>4, <1>6 DEF Quietly, Done
<1>8. Owes(p, F, j, ev)
  <2>1. F \cap OwedFate(ev) = {} /\ p.queue \subseteq queue
    BY <1>4, <1>7
  <2>2. ASSUME NEW m \in NodeId
        PROVE  /\ ev = FireWantEv(m) => p.clock[m] + p.nodes[m].router.wantTimer <= p.at + j
               /\ ev = FireHaveEv(m) => p.clock[m] + p.nodes[m].router.haveTimer <= p.at + j
    BY <1>4, <1>5, <1>7
  <2> QED
    BY <1>4, <1>5, <1>7, <2>1, <2>2 DEF Owes
<1>9. Settles(Schedule(p, j, ev))
  <2> DEFINE u == Schedule(p, j, ev)
  <2>1. DraftInv(u, F, {}) /\ u.sent = p.sent /\ \A e \in u.queue : e.seq[1] <= Cardinality(queue)
    BY <1>8, ScheduleFits
  <2> HIDE DEF u
  <2>2. Settles(u)
    BY <1>7, <2>1 DEF Settles, SentFits
  <2> QED
    BY <2>2 DEF u
<1> QED
  BY <1>9 DEF ArmsHave, p, on, res, ev, j

-----------------------------------------------------------------------------
\* Between two ticks.

\* The state as a draft of which nothing is left to do.
Here == [nodes |-> nodes, inflight |-> inflight, queue |-> queue, clock |-> clock,
         covered |-> covered, refused |-> refused, sent |-> {}, at |-> now]

SimInv ==
    /\ Ready /\ DraftInv(Here, {}, {})
    /\ phase = "new" => queue = {} /\ now = 0 /\ clock = [n \in NodeId |-> 0]

\* Taking the first event leaves its timer or its message without one.
LEMMA TakenFits ==
    ASSUME SimInv, NEW e \in queue, IsFirst(e)
    PROVE  /\ DraftInv(Taken(e), OwedFate(e.ev), OwedTimer(e.ev)) /\ e.ev \in Happening
           /\ Taken(e).queue \subseteq queue /\ Taken(e).sent = {}
           /\ Taken(e).nodes = nodes /\ Taken(e).inflight = inflight /\ Taken(e).covered = covered
<1> DEFINE t == Taken(e)
           rest == queue \ {e}
<1>1. /\ IsDraft(t) /\ t.queue = rest /\ t.sent = {} /\ t.nodes = nodes /\ t.inflight = inflight
      /\ t.covered = covered /\ t.clock = clock /\ t.refused = FALSE /\ t.at = Quantize(e.at)
  BY DEF Taken, IsDraft
<1> HIDE DEF t
<1>2. /\ DraftInv(Here, {}, {}) /\ Here.nodes = nodes /\ Here.inflight = inflight
      /\ Here.queue = queue /\ Here.clock = clock /\ Here.covered = covered /\ Here.at = now
  BY DEF SimInv, Here
<1>3. /\ quantum \in Nat \ {0} /\ IsFiniteSet(queue) /\ queue \in SUBSET Pendings
      /\ \A o \in queue : o.at \in Nat
  BY DEF SimInv, Ready, Pendings
<1>4. Keyed(queue) /\ now \in Nat /\ \A o \in queue : now <= Quantize(o.at)
  BY <1>2 DEF DraftInv, QueueFits
<1>5. /\ rest \in SUBSET Pendings /\ IsFiniteSet(rest) /\ rest \cup {e} = queue /\ e \notin rest
      /\ rest \subseteq queue
  BY <1>3, FS_RemoveElement
<1> HIDE DEF rest
<1>6. Quantize(e.at) \in Nat /\ now <= Quantize(e.at)
  BY <1>3, <1>4, QuantizeFacts
<1>7. QueueFits(rest, Quantize(e.at))
  <2>1. ASSUME NEW o \in rest PROVE Quantize(e.at) <= Quantize(o.at)
    <3>1. o # e /\ o \in queue
      BY <1>5
    <3>2. e.at <= o.at
      BY <1>3, <3>1 DEF IsFirst, Before
    <3> QED
      BY <1>3, <3>1, <3>2, QuantizeFacts
  <2>2. Keyed(rest)
    BY <1>4, <1>5 DEF Keyed
  <2> QED
    BY <1>5, <2>1, <2>2 DEF QueueFits
<1>8. AirFits(inflight, rest, covered, OwedFate(e.ev))
  <2>1. AirFits(inflight, queue, covered, {})
    BY <1>2 DEF DraftInv
  <2>2. ASSUME NEW f
        PROVE  CopiesOf(inflight, f)
                  = Cardinality(Fated(rest, f)) + (IF f \in OwedFate(e.ev) THEN 1 ELSE 0)
    <3>1. CopiesOf(inflight, f) = Cardinality(Fated(queue, f)) + 0
      BY <2>1 DEF AirFits
    <3>2. /\ Cardinality(Fated(rest, f)) \in Nat
          /\ Cardinality(Fated(queue, f))
                = Cardinality(Fated(rest, f)) + (IF f \in OwedFate(e.ev) THEN 1 ELSE 0)
      BY <1>5, FateScheduled
    <3> QED
      BY <3>1, <3>2
  <2> QED
    BY <2>1, <2>2 DEF AirFits
<1>9. ASSUME NEW n \in NodeId
      PROVE  /\ Upright(n, nodes[n], covered)
             /\ clock[n] \in Nat /\ clock[n] <= Quantize(e.at)
             /\ TimersFit(n, nodes[n], clock[n], rest, OwedTimer(e.ev))
  <2>1. /\ Upright(n, nodes[n], covered) /\ clock[n] \in Nat /\ clock[n] <= now
        /\ TimersFit(n, nodes[n], clock[n], queue, {})
    BY <1>2 DEF DraftInv
  <2>2. IsFire(FireWantEv(n)) /\ IsFire(FireHaveEv(n))
    BY DEF IsFire, FireWantEv, FireHaveEv
  <2>3. /\ TimerFits(queue \ {e}, FireWantEv(n), nodes[n].router.wantTimer, clock[n], OwedTimer(e.ev))
        /\ TimerFits(queue \ {e}, FireHaveEv(n), nodes[n].router.haveTimer, clock[n], OwedTimer(e.ev))
    BY <2>1, <2>2, TimerTaken DEF TimersFit
  <2>4. queue \ {e} = rest
    BY DEF rest
  <2> QED
    BY <1>4, <1>6, <2>1, <2>3, <2>4 DEF TimersFit
<1>10. /\ nodes = [n \in NodeId |-> nodes[n]] /\ clock = [n \in NodeId |-> clock[n]]
       /\ BooksFit(covered)
  BY <1>2 DEF DraftInv
<1>11. DraftInv(t, OwedFate(e.ev), OwedTimer(e.ev))
  BY <1>1, <1>6, <1>7, <1>8, <1>9, <1>10 DEF DraftInv
<1>12. e.ev \in Happening
  BY <1>3 DEF Pendings
<1> QED
  BY <1>1, <1>5, <1>11, <1>12 DEF t

WithQueue(w, q) == [w EXCEPT !.queue = q]

LEMMA WithQueueParts ==
    ASSUME NEW w, IsDraft(w), NEW q
    PROVE  LET u == WithQueue(w, q)
           IN  /\ IsDraft(u) /\ u.queue = q /\ u.nodes = w.nodes /\ u.inflight = w.inflight
               /\ u.clock = w.clock /\ u.covered = w.covered /\ u.refused = w.refused
               /\ u.sent = w.sent /\ u.at = w.at
BY DEF WithQueue, IsDraft

\* Numbering the events afresh disturbs nothing.
LEMMA NumberedFits ==
    ASSUME quantum \in Nat, NEW w, DraftInv(w, {}, {})
    PROVE  /\ DraftInv(WithQueue(w, Numbered(w.queue)), {}, {})
           /\ Numbered(w.queue) \subseteq Pendings /\ IsFiniteSet(Numbered(w.queue))
           /\ \A e \in Numbered(w.queue) : e.seq[1] < Cardinality(Numbered(w.queue))
<1> DEFINE q == w.queue
           p == Numbered(q)
           u == WithQueue(w, p)
<1>1. IsDraft(w) /\ QueueFits(q, w.at) /\ AirFits(w.inflight, q, w.covered, {})
  BY DEF DraftInv
<1>2. /\ p \subseteq Pendings /\ IsFiniteSet(p) /\ Keyed(p)
      /\ \A e \in p : e.seq[1] < Cardinality(p)
      /\ \A e \in p : \E o \in q : o.at = e.at /\ o.ev = e.ev
      /\ \A f : Cardinality(Fated(p, f)) = Cardinality(Fated(q, f))
      /\ \A ev : (\A e \in q : e.ev # ev) => \A e \in p : e.ev # ev
      /\ \A ev : \A e : {o \in q : o.ev = ev} = {e} => {o \in p : o.ev = ev} = {Afresh(q, e)}
  BY <1>1, NumberedFacts DEF QueueFits
<1>3. /\ IsDraft(u) /\ u.queue = p /\ u.nodes = w.nodes /\ u.inflight = w.inflight
      /\ u.clock = w.clock /\ u.covered = w.covered /\ u.refused = w.refused /\ u.at = w.at
  BY <1>1, WithQueueParts
<1> HIDE DEF p, u
<1>4. QueueFits(p, w.at)
  <2>1. \A e \in p : w.at <= Quantize(e.at)
    BY <1>1, <1>2 DEF QueueFits
  <2> QED
    BY <1>2, <2>1 DEF QueueFits
<1>5. AirFits(w.inflight, p, w.covered, {})
  BY <1>1, <1>2 DEF AirFits
<1>6. ASSUME NEW ev, NEW timer, NEW clk, TimerFits(q, ev, timer, clk, {})
      PROVE  TimerFits(p, ev, timer, clk, {})
  <2>1. CASE timer = NoTimer
    BY <1>2, <1>6, <2>1 DEF TimerFits
  <2>2. CASE timer # NoTimer
    <3>1. PICK e \in q : {o \in q : o.ev = ev} = {e} /\ clk + timer <= e.at
      BY <1>6, <2>2 DEF TimerFits
    <3> DEFINE x == Afresh(q, e)
    <3>2. {o \in p : o.ev = ev} = {x}
      BY <1>2, <3>1
    <3>3. x.at = e.at
      BY DEF Afresh, EventAt
    <3> HIDE DEF x
    <3>4. x \in p
      BY <3>2
    <3> QED
      BY <2>2, <3>1, <3>2, <3>3, <3>4 DEF TimerFits
  <2> QED
    BY <2>1, <2>2
<1>7. ASSUME NEW n \in NodeId PROVE TimersFit(n, w.nodes[n], w.clock[n], p, {})
  BY <1>6 DEF DraftInv, TimersFit
<1>8. DraftInv(u, {}, {})
  BY <1>3, <1>4, <1>5, <1>7 DEF DraftInv
<1> QED
  BY <1>2, <1>8 DEF u, p

\* The flights of a tick go to different nodes.
LEMMA SentFacts ==
    ASSUME NEW w, NEW T, DraftInv(w, w.sent, T), SentFits(w)
    PROVE  /\ IsFiniteSet(w.sent) /\ \A f \in w.sent : f \in Flight /\ f.to \in Nat
           /\ \A f, g \in w.sent : f.to = g.to => f = g
<1>1. IsFiniteSet(w.sent) /\ \A f, g \in w.sent : f.to = g.to => f = g
  <2>1. CASE w.sent = {}
    BY <2>1, FS_EmptySet
  <2>2. CASE w.sent # {}
    <3>0. PICK n \in NodeId : \E m : w.sent = {[to |-> k, message |-> m] : k \in Neighbor[n]}
      BY <2>2 DEF SentFits
    <3>1. PICK m : w.sent = {[to |-> k, message |-> m] : k \in Neighbor[n]}
      BY <3>0
    <3> DEFINE g == [k \in Neighbor[n] |-> [to |-> k, message |-> m]]
    <3>2. g \in Surjection(Neighbor[n], w.sent)
      BY <3>1 DEF Surjection
    <3>3. IsFiniteSet(Neighbor[n])
      BY SimAssumption, TopologyAssumption, FS_Subset
    <3> HIDE DEF g
    <3>4. IsFiniteSet(w.sent)
      BY <3>2, <3>3, FS_Surjection
    <3> QED
      BY <3>1, <3>4
  <2> QED
    BY <2>1, <2>2
<1>2. ASSUME NEW f \in w.sent PROVE f \in Flight /\ f.to \in Nat
  <2>1. IsABag(w.inflight) /\ IsFiniteSet(w.queue)
    BY DEF DraftInv, AirFits, QueueFits
  <2>2. CopiesOf(w.inflight, f) = Cardinality(Fated(w.queue, f)) + 1
    BY DEF DraftInv, AirFits
  <2>3. IsFiniteSet(Fated(w.queue, f))
    BY <2>1, FS_Subset DEF Fated
  <2>4. Cardinality(Fated(w.queue, f)) \in Nat
    BY <2>3, FS_CardinalityType
  <2>5. f \in BagToSet(w.inflight)
    BY <2>1, <2>2, <2>4, CopiesOfFacts
  <2>6. f \in Flight
    BY <2>5 DEF DraftInv, AirFits
  <2> QED
    BY <2>6, SimAssumption DEF Flight
<1> QED
  BY <1>1, <1>2

\* Each flight gets a fate, and the draft owes nothing any more.
LEMMA FatesFit ==
    ASSUME Ready, NEW w, Settles(w), NEW lost, NEW latency \in [{f.to : f \in w.sent} -> Latencies]
    PROVE  DraftInv(WithQueue(w, w.queue \cup Fates(w, lost, latency)), {}, {})
<1> DEFINE q == w.queue
           Fate(f) == EventAt(w.at + latency[f.to], Cardinality(queue) + 1, f.to,
                              IF f \in lost THEN DropEv(f) ELSE DeliverEv(f, 0))
           new == {Fate(f) : f \in w.sent}
           p == q \cup new
           u == WithQueue(w, p)
<1>1. /\ IsDraft(w) /\ QueueFits(q, w.at) /\ AirFits(w.inflight, q, w.covered, w.sent)
      /\ w.at \in Nat
  BY DEF DraftInv, Settles
<1>2. /\ IsFiniteSet(w.sent) /\ \A f \in w.sent : f \in Flight /\ f.to \in Nat
      /\ \A f, g \in w.sent : f.to = g.to => f = g
  BY SentFacts DEF Settles
<1>3. Cardinality(queue) \in Nat /\ \A e \in q : e.seq[1] <= Cardinality(queue)
  BY FS_CardinalityType DEF Ready, Settles
<1>4. \A f \in w.sent : latency[f.to] \in Nat
  BY SimAssumption
<1>5. ASSUME NEW f \in w.sent
      PROVE  /\ Fate(f) \in Pendings /\ Fate(f).at = w.at + latency[f.to]
             /\ Fate(f).seq = <<Cardinality(queue) + 1, f.to>>
             /\ IsFate(Fate(f).ev) /\ Fate(f).ev.flight = f
  <2> DEFINE ev == IF f \in lost THEN DropEv(f) ELSE DeliverEv(f, 0)
  <2>1. ev \in Happening /\ IsFate(ev) /\ ev.flight = f
    BY <1>2 DEF DropEv, DeliverEv, Happening, IsFate
  <2> HIDE DEF ev
  <2>2. Fate(f) = EventAt(w.at + latency[f.to], Cardinality(queue) + 1, f.to, ev)
    BY DEF ev
  <2>3. w.at + latency[f.to] \in Nat /\ <<Cardinality(queue) + 1, f.to>> \in Nat \X Nat
    BY <1>1, <1>2, <1>3, <1>4
  <2> HIDE DEF Fate
  <2> QED
    BY <2>1, <2>2, <2>3 DEF EventAt, Pendings
<1>6. Fates(w, lost, latency) = new
  BY DEF Fates
<1> HIDE DEF Fate
<1>7. \A e \in q : e.seq[1] # Cardinality(queue) + 1
  <2>1. \A e \in q : e.seq[1] \in Nat
    BY <1>1 DEF QueueFits, Pendings
  <2> QED
    BY <1>3, <2>1
<1>8. \A e \in new : e.seq[1] = Cardinality(queue) + 1
  BY <1>5
<1>9. IsFiniteSet(new)
  <2> DEFINE g == [f \in w.sent |-> Fate(f)]
  <2>1. g \in Surjection(w.sent, new)
    BY DEF Surjection
  <2> HIDE DEF g, new
  <2> QED
    BY <1>2, <2>1, FS_Surjection
<1>10. QueueFits(p, w.at)
  <2>1. p \in SUBSET Pendings
    BY <1>1, <1>5 DEF QueueFits
  <2>2. IsFiniteSet(p)
    BY <1>1, <1>9, FS_Union DEF QueueFits
  <2>3. ASSUME NEW e \in p, NEW o \in p, e.at = o.at, e.seq = o.seq PROVE e = o
    <3>1. CASE e \in q /\ o \in q
      BY <1>1, <2>3, <3>1 DEF QueueFits, Keyed
    <3>2. CASE e \in new /\ o \in new
      BY <1>2, <1>5, <2>3, <3>2
    <3>3. CASE (e \in q /\ o \in new) \/ (e \in new /\ o \in q)
      BY <1>7, <1>8, <2>3, <3>3
    <3> HIDE DEF new
    <3> QED
      BY <3>1, <3>2, <3>3
  <2>4. ASSUME NEW f \in w.sent PROVE w.at <= Quantize(Fate(f).at)
    <3>1. w.at + latency[f.to] \in Nat /\ w.at <= w.at + latency[f.to]
      BY <1>1, <1>4
    <3>2. /\ Quantize(w.at + latency[f.to]) \in Nat
          /\ w.at + latency[f.to] <= Quantize(w.at + latency[f.to])
      BY <3>1, QuantizeFacts DEF Ready
    <3> QED
      BY <1>1, <1>5, <3>1, <3>2
  <2>5. \A e \in p : w.at <= Quantize(e.at)
    BY <1>1, <2>4 DEF QueueFits
  <2> QED
    BY <2>1, <2>2, <2>3, <2>5 DEF QueueFits, Keyed
<1>11. ASSUME NEW f PROVE CopiesOf(w.inflight, f) = Cardinality(Fated(p, f)) + 0
  <2>1. /\ CopiesOf(w.inflight, f)
              = Cardinality(Fated(q, f)) + (IF f \in w.sent THEN 1 ELSE 0)
        /\ IsFiniteSet(q)
    BY <1>1 DEF AirFits, QueueFits
  <2>2. IsFiniteSet(Fated(q, f))
    BY <2>1, FS_Subset DEF Fated
  <2>3. Cardinality(Fated(q, f)) \in Nat
    BY <2>2, FS_CardinalityType
  <2>4. CASE f \in w.sent
    <3>1. Fated(p, f) = Fated(q, f) \cup {Fate(f)}
      BY <1>5, <2>4 DEF Fated
    <3>2. Fate(f) \notin Fated(q, f)
      BY <1>7, <1>8, <2>4 DEF Fated
    <3>3. Cardinality(Fated(p, f)) = Cardinality(Fated(q, f)) + 1
      BY <2>2, <3>1, <3>2, FS_AddElement
    <3> QED
      BY <2>1, <2>3, <2>4, <3>3
  <2>5. CASE f \notin w.sent
    <3>1. Fated(p, f) = Fated(q, f)
      BY <1>5, <2>5 DEF Fated
    <3> QED
      BY <2>1, <2>3, <2>5, <3>1
  <2> QED
    BY <2>4, <2>5
<1>12. AirFits(w.inflight, p, w.covered, {})
  BY <1>1, <1>11 DEF AirFits
<1>13. ASSUME NEW ev, IsFire(ev), NEW timer, NEW clk, TimerFits(q, ev, timer, clk, {})
       PROVE  TimerFits(p, ev, timer, clk, {})
  <2>1. \A e \in new : e.ev # ev
    BY <1>5, <1>13 DEF IsFire, IsFate
  <2>2. {o \in p : o.ev = ev} = {o \in q : o.ev = ev}
    BY <2>1
  <2> HIDE DEF new
  <2>3. CASE timer = NoTimer
    BY <1>13, <2>1, <2>3 DEF TimerFits
  <2>4. CASE timer # NoTimer
    BY <1>13, <2>2, <2>4 DEF TimerFits
  <2> QED
    BY <2>3, <2>4
<1> HIDE DEF p
<1>14. ASSUME NEW n \in NodeId PROVE TimersFit(n, w.nodes[n], w.clock[n], p, {})
  <2>1. IsFire(FireWantEv(n)) /\ IsFire(FireHaveEv(n))
    BY DEF IsFire, FireWantEv, FireHaveEv
  <2> QED
    BY <1>13, <2>1 DEF DraftInv, TimersFit, Settles
<1>15. /\ IsDraft(u) /\ u.queue = p /\ u.nodes = w.nodes /\ u.inflight = w.inflight
       /\ u.clock = w.clock /\ u.covered = w.covered /\ u.refused = w.refused /\ u.at = w.at
  BY <1>1, WithQueueParts
<1> HIDE DEF u
<1>16. DraftInv(w, w.sent, {})
  BY DEF Settles
<1>17. DraftInv(u, {}, {})
  BY <1>10, <1>12, <1>14, <1>15, <1>16 DEF DraftInv
<1> QED
  BY <1>6, <1>17 DEF u, p

\* A draft that settles is a state between two ticks.
LEMMA BecomesInv ==
    ASSUME SimInv, phase # "new", NEW w, Settles(w), Becomes(w)
    PROVE  SimInv'
<1>1. PICK lost \in SUBSET w.sent, latency \in [{f.to : f \in w.sent} -> Latencies] :
         /\ queue' = Numbered(w.queue \cup Fates(w, lost, latency))
         /\ nodes' = w.nodes /\ inflight' = w.inflight /\ now' = w.at /\ clock' = w.clock
         /\ covered' = w.covered /\ refused' = w.refused
         /\ quantum' = quantum /\ phase' = phase
  BY DEF Becomes
<1> DEFINE q == w.queue \cup Fates(w, lost, latency)
           v == WithQueue(w, q)
           u == WithQueue(v, Numbered(q))
<1>2. Ready /\ quantum \in Nat
  BY DEF SimInv, Ready
<1>3. DraftInv(v, {}, {})
  BY <1>2, FatesFit
<1>4. IsDraft(w) /\ w.refused = FALSE
  BY DEF Settles, DraftInv
<1>5. /\ IsDraft(v) /\ v.queue = q /\ v.nodes = w.nodes /\ v.inflight = w.inflight
      /\ v.clock = w.clock /\ v.covered = w.covered /\ v.refused = w.refused /\ v.at = w.at
  BY <1>4, WithQueueParts
<1>6. /\ DraftInv(u, {}, {}) /\ Numbered(q) \subseteq Pendings /\ IsFiniteSet(Numbered(q))
      /\ \A e \in Numbered(q) : e.seq[1] < Cardinality(Numbered(q))
  <2> HIDE DEF v
  <2> QED
    BY <1>2, <1>3, <1>5, NumberedFits
<1>7. /\ u.queue = Numbered(q) /\ u.nodes = v.nodes /\ u.inflight = v.inflight
      /\ u.clock = v.clock /\ u.covered = v.covered /\ u.refused = v.refused /\ u.at = v.at
  <2> HIDE DEF v
  <2> QED
    BY <1>5, WithQueueParts
<1>8. /\ queue' = Numbered(q) /\ quantum' = quantum /\ phase' # "new"
  BY <1>1
<1> HIDE DEF u, v, q
<1>9. /\ u.queue = queue' /\ u.nodes = nodes' /\ u.inflight = inflight' /\ u.clock = clock'
      /\ u.covered = covered' /\ u.refused = refused' /\ u.at = now' /\ IsDraft(u)
  BY <1>1, <1>5, <1>6, <1>7, <1>8 DEF DraftInv
<1>10. Ready'
  BY <1>2, <1>6, <1>8 DEF Ready
<1>11. DraftInv(Here, {}, {})'
  BY <1>6, <1>8, <1>9 DEF DraftInv, Here, QueueFits, Quantize, IsDraft
<1> QED
  BY <1>8, <1>10, <1>11 DEF SimInv

-----------------------------------------------------------------------------
\* Ticks.

\* What a tick starts from, and what it has made of that before it settles.
Took(t, ev) ==
    /\ SimInv /\ phase # "new"
    /\ DraftInv(t, OwedFate(ev), OwedTimer(ev)) /\ ev \in Happening
    /\ t.queue \subseteq queue /\ t.sent = {}
    /\ t.nodes = nodes /\ t.inflight = inflight /\ t.covered = covered

Complete(w) ==
    DraftInv(w, w.sent, {}) /\ SentFits(w) /\ w.queue \subseteq queue

LEMMA CompleteSettles ==
    ASSUME Ready, NEW w, Complete(w)
    PROVE  Settles(w)
<1>1. Cardinality(queue) \in Nat /\ \A e \in queue : e.seq[1] \in Nat /\ e.seq[1] < Cardinality(queue)
  BY FS_CardinalityType DEF Ready, Pendings
<1>2. \A e \in w.queue : e.seq[1] <= Cardinality(queue)
  BY <1>1 DEF Complete
<1> QED
  BY <1>2 DEF Complete, Settles

LEMMA OwesSettles ==
    ASSUME Ready, NEW w, NEW delay, NEW ev, Owes(w, w.sent, delay, ev), SentFits(w)
    PROVE  Settles(Schedule(w, delay, ev))
<1> DEFINE u == Schedule(w, delay, ev)
           F == w.sent
<1>1. DraftInv(u, F, {}) /\ u.sent = F /\ \A e \in u.queue : e.seq[1] <= Cardinality(queue)
  BY ScheduleFits
<1> HIDE DEF u
<1>2. Settles(u)
  BY <1>1 DEF Settles, SentFits
<1> QED
  BY <1>2 DEF u

IsPlain(ev) == ~IsFate(ev) /\ ~IsFire(ev)

\* What is due every so often owes nothing, and may be scheduled at any time.
LEMMA PlainSettles ==
    ASSUME Ready, NEW w, Complete(w), NEW ev \in Happening, IsPlain(ev), NEW delay \in Nat
    PROVE  Settles(Schedule(w, delay, ev)) /\ \A until : Settles(Again(w, delay, ev, until))
<1>1. OwedFate(ev) = {} /\ OwedTimer(ev) = {} /\ \A n : ev # FireWantEv(n) /\ ev # FireHaveEv(n)
  BY DEF IsPlain, IsFire, OwedFate, OwedTimer, FireWantEv, FireHaveEv
<1>2. Owes(w, w.sent, delay, ev)
  <2> DEFINE F == w.sent
  <2>1. DraftInv(w, F \cup {}, {}) /\ F \cap {} = {}
    <3>1. F \cup {} = F
      OBVIOUS
    <3>2. DraftInv(w, F, {})
      BY DEF Complete
    <3> QED
      BY <3>1, <3>2
  <2> HIDE DEF F
  <2>2. Owes(w, F, delay, ev)
    BY <1>1, <2>1 DEF Owes, Complete
  <2> QED
    BY <2>2 DEF F
<1>3. Settles(Schedule(w, delay, ev))
  BY <1>2, OwesSettles DEF Complete
<1>4. Settles(w)
  BY CompleteSettles
<1> QED
  BY <1>3, <1>4 DEF Again

LEMMA TookPlain ==
    ASSUME NEW t, NEW ev, Took(t, ev), IsPlain(ev)
    PROVE  DraftInv(t, {}, {}) /\ Complete(t) /\ Ready
<1>1. OwedFate(ev) = {} /\ OwedTimer(ev) = {}
  BY DEF IsPlain, IsFire, OwedFate, OwedTimer
<1>2. DraftInv(t, {}, {}) /\ t.sent = {} /\ t.queue \subseteq queue /\ Ready
  BY <1>1 DEF Took, SimInv
<1> QED
  BY <1>2 DEF Complete, SentFits

\* A message that cannot be delivered keeps one fate.
LEMMA DefersInv ==
    ASSUME NEW t, NEW ev, Took(t, ev), Defers(t, ev)
    PROVE  SimInv'
<1> DEFINE f == ev.flight
           d == ev.deferrals
<1>1. ev.kind = "deliver" /\ f \in Flight /\ d \in Nat
  BY DEF Took, Defers, Happening
<1> HIDE DEF f, d
<1>2. OwedFate(ev) = {f} /\ OwedTimer(ev) = {}
  BY <1>1 DEF OwedFate, OwedTimer, IsFate, f
<1>3. DraftInv(t, {} \cup {f}, {}) /\ t.sent = {} /\ t.queue \subseteq queue /\ Ready
  <2>1. {} \cup {f} = {f}
    OBVIOUS
  <2> QED
    BY <1>2, <2>1 DEF Took, SimInv
<1>4. ASSUME NEW next \in {DropEv(f), DeliverEv(f, d + 1)}, NEW delay \in Nat
      PROVE  Settles(Schedule(t, delay, next))
  <2>1. /\ next \in Happening /\ OwedFate(next) = {f} /\ OwedTimer(next) = {}
        /\ \A n : next # FireWantEv(n) /\ next # FireHaveEv(n)
    BY <1>1 DEF DropEv, DeliverEv, Happening, OwedFate, OwedTimer, IsFate, FireWantEv, FireHaveEv
  <2>2. Owes(t, {}, delay, next)
    BY <1>3, <2>1 DEF Owes
  <2> QED
    BY <1>3, <2>2, OwesSettles DEF SentFits
<1>5. Backoff \in Nat
  BY SimAssumption
<1>6. \/ Becomes(Schedule(t, 0, DropEv(f)))
      \/ Becomes(Schedule(t, Backoff, DeliverEv(f, d + 1)))
  BY DEF Defers, f, d
<1>7. SimInv /\ phase # "new"
  BY DEF Took
<1>8. Settles(Schedule(t, 0, DropEv(f))) /\ Settles(Schedule(t, Backoff, DeliverEv(f, d + 1)))
  BY <1>4, <1>5
<1> QED
  BY <1>6, <1>7, <1>8, BecomesInv

\* A message that is dropped is in flight until then.
LEMMA LosesInv ==
    ASSUME NEW t, NEW ev, Took(t, ev), Loses(t, ev)
    PROVE  SimInv'
<1> DEFINE f == ev.flight
           u == Without(t, f)
           gone == ~BagIn(f, inflight)
           w == [u EXCEPT !.refused = gone]
<1>1. OwedFate(ev) = {f} /\ OwedTimer(ev) = {}
  BY DEF Loses, OwedFate, OwedTimer, IsFate
<1>2. DraftInv(t, {f}, {}) /\ t.inflight = inflight
  BY <1>1 DEF Took
<1> HIDE DEF f
<1>3. /\ DraftInv(u, {}, {}) /\ IsDraft(u) /\ u.queue = t.queue /\ u.sent = t.sent
      /\ f \in BagToSet(t.inflight)
  BY <1>2, WithoutFits
<1>4. gone = FALSE
  BY <1>2, <1>3 DEF BagIn
<1> HIDE DEF u, gone
<1>5. [u EXCEPT !.refused = FALSE] = u
  BY <1>3 DEF DraftInv, IsDraft
<1>6. w = u
  BY <1>4, <1>5, Zenon
<1>7. SimInv /\ phase # "new" /\ Ready /\ Complete(u)
  BY <1>3 DEF Took, SimInv, Complete, SentFits
<1>8. Becomes(u)
  BY <1>6, Zenon DEF Loses, u, f, gone
<1> QED
  BY <1>7, <1>8, CompleteSettles, BecomesInv

\* A fire that waits keeps its one event, not before its timer is due.
LEMMA FireWaitsInv ==
    ASSUME NEW t, NEW ev, Took(t, ev), FireWaits(t, ev)
    PROVE  SimInv'
<1> DEFINE n == ev.node
           w == Advance(t, n)
           router == w.nodes[n].router
           left == IF ev.kind = "fire_want" THEN router.wantTimer ELSE router.haveTimer
           delay == IF left = 0 THEN Backoff ELSE left
<1>1. /\ ev \in Happening /\ n \in NodeId
      /\ OwedFate(ev) = {} /\ OwedTimer(ev) = {ev}
      /\ \/ ev.kind = "fire_want" /\ ev = FireWantEv(n)
         \/ ev.kind = "fire_have" /\ ev = FireHaveEv(n)
  BY DEF Took, FireWaits, Happening, OwedFate, OwedTimer, IsFate, FireWantEv, FireHaveEv
<1>2. SimInv /\ Ready /\ phase # "new" /\ t.queue \subseteq queue /\ t.sent = {}
  BY DEF Took, SimInv
<1>3. DraftInv(t, {}, {ev})
  BY <1>1 DEF Took
<1>4. Becomes(Waits(w, ev, left))
  BY DEF FireWaits
<1>5. FireWantEv(n) # FireHaveEv(n) /\ \A m : /\ FireWantEv(n) # FireHaveEv(m)
                                              /\ FireHaveEv(n) # FireWantEv(m)
                                              /\ FireWantEv(m) = FireWantEv(n) => m = n
                                              /\ FireHaveEv(m) = FireHaveEv(n) => m = n
  BY DEF FireWantEv, FireHaveEv
<1> HIDE DEF n
<1>6. DraftInv(w, {}, {ev}) /\ w.queue = t.queue /\ w.sent = t.sent
  BY <1>1, <1>3, AdvanceFits DEF Advanced
<1> HIDE DEF w
<1>7. /\ router \in RouterState /\ TimersFit(n, w.nodes[n], w.clock[n], w.queue, {ev})
      /\ w.clock[n] \in Nat /\ w.clock[n] <= w.at /\ w.at \in Nat
  BY <1>1, <1>6 DEF DraftInv, Upright, NetNode, NodeState
<1>8. left # NoTimer /\ left \in Nat
  <2>1. router.wantTimer \in Nat \cup {NoTimer} /\ router.haveTimer \in Nat \cup {NoTimer}
    BY <1>7 DEF RouterState
  <2>2. CASE ev.kind = "fire_want"
    <3>1. ev = FireWantEv(n)
      BY <1>1, <2>2
    <3>2. router.wantTimer # NoTimer
      BY <1>7, <3>1 DEF TimersFit, TimerFits
    <3> QED
      BY <2>1, <2>2, <3>2
  <2>3. CASE ev.kind = "fire_have"
    <3>1. ev = FireHaveEv(n)
      BY <1>1, <2>3
    <3>2. router.haveTimer # NoTimer
      BY <1>7, <3>1 DEF TimersFit, TimerFits
    <3> QED
      BY <2>1, <2>3, <3>2
  <2> QED
    BY <1>1, <2>2, <2>3
<1>9. delay \in Nat /\ left <= delay
  BY <1>8, SimAssumption
<1>10. w.clock[n] + left <= w.at + delay
  <2> HIDE DEF left, delay
  <2> QED
    BY <1>7, <1>8, <1>9
<1>11. ASSUME NEW m \in NodeId
       PROVE  /\ ev = FireWantEv(m) => w.clock[m] + w.nodes[m].router.wantTimer <= w.at + delay
              /\ ev = FireHaveEv(m) => w.clock[m] + w.nodes[m].router.haveTimer <= w.at + delay
  <2> HIDE DEF delay
  <2>1. CASE ev = FireWantEv(m)
    <3>1. ev.kind = "fire_want" /\ m = n
      BY <1>1, <1>5, <2>1
    <3> QED
      BY <1>10, <1>5, <2>1, <3>1
  <2>2. CASE ev = FireHaveEv(m)
    <3>1. ev.kind = "fire_have" /\ m = n
      BY <1>1, <1>5, <2>2
    <3> QED
      BY <1>10, <1>5, <2>2, <3>1
  <2> QED
    BY <2>1, <2>2
<1>12. Waits(w, ev, left) = Schedule(w, delay, ev)
  BY <1>8 DEF Waits
<1> HIDE DEF left, delay
<1>13. Owes(w, {}, delay, ev)
  BY <1>1, <1>2, <1>6, <1>9, <1>11 DEF Owes
<1>14. Settles(Schedule(w, delay, ev))
  BY <1>2, <1>6, <1>13, OwesSettles DEF SentFits
<1> QED
  BY <1>2, <1>4, <1>12, <1>14, BecomesInv

\* A fire leaves its timer unarmed, and is the one broadcast of its tick.
LEMMA FiresWantInv ==
    ASSUME NEW t, NEW ev, Took(t, ev), FiresWant(t, ev)
    PROVE  SimInv'
<1> DEFINE n == ev.node
           w == Advance(t, n)
           res == NodeFireWant(w.nodes[n], n)
           p == Propose(w, n, TRUE, res)
<1>1. /\ n \in NodeId /\ OwedFate(ev) = {} /\ OwedTimer(ev) = {ev} /\ ev = FireWantEv(n)
      /\ ev # FireHaveEv(n)
  BY DEF Took, FiresWant, Happening, OwedFate, OwedTimer, IsFate, FireWantEv, FireHaveEv
<1>2. SimInv /\ Ready /\ phase # "new" /\ t.queue \subseteq queue /\ t.sent = {}
  BY DEF Took, SimInv
<1>3. DraftInv(t, {}, {ev})
  BY <1>1 DEF Took
<1>4. PICK i \in WantIntervals : HasRoom(w, n) /\ Becomes(ArmsWant(p, n, i))
  BY DEF FiresWant
<1>5. i \in Nat
  BY SimAssumption
<1> HIDE DEF n
<1>6. DraftInv(w, {}, {ev}) /\ w.queue = t.queue /\ w.sent = t.sent
  BY <1>1, <1>3, AdvanceFits DEF Advanced
<1> HIDE DEF w
<1>7. /\ Upright(n, w.nodes[n], w.covered) /\ BooksFit(w.covered)
      /\ TimersFit(n, w.nodes[n], w.clock[n], w.queue, {ev})
  BY <1>1, <1>6 DEF DraftInv
<1>8. Behaves(n, w.covered, res, NoTimer, w.nodes[n].router.haveTimer)
  BY <1>1, <1>7, FireWantBehaves
<1> HIDE DEF res
<1>9. MayDo(w, {}, {ev}, n, res, {})
  <2>1. TimerFits(w.queue, FireWantEv(n), NoTimer, w.clock[n], {})
    BY <1>1, <1>7 DEF TimersFit, TimerFits
  <2>2. TimerFits(w.queue, FireHaveEv(n), w.nodes[n].router.haveTimer, w.clock[n], {})
    BY <1>1, <1>7 DEF TimersFit, TimerFits
  <2> QED
    BY <1>1, <1>6, <1>8, <2>1, <2>2 DEF MayDo
<1>10. Loudly(w, p, n, res, {})
  BY <1>1, <1>2, <1>4, <1>6, <1>9, ProposeLoud
<1> HIDE DEF p
<1>11. /\ DraftInv(p, p.sent, {}) /\ SentFits(p) /\ p.queue \subseteq queue
       /\ p.nodes[n].router.wantTimer = NoTimer
  BY <1>2, <1>6, <1>8, <1>10 DEF Loudly, Done, Behaves
<1>12. Settles(ArmsWant(p, n, i))
  BY <1>1, <1>2, <1>5, <1>11, ArmsWantFits
<1> QED
  BY <1>2, <1>4, <1>12, BecomesInv

LEMMA FiresHaveInv ==
    ASSUME NEW t, NEW ev, Took(t, ev), FiresHave(t, ev)
    PROVE  SimInv'
<1> DEFINE n == ev.node
           w == Advance(t, n)
           res == NodeFireHave(w.nodes[n], n)
           p == Propose(w, n, TRUE, res)
           r == nodes[n].router
           helps == Helpful(r, {}, Lag(t, n))
<1>1. /\ n \in NodeId /\ OwedFate(ev) = {} /\ OwedTimer(ev) = {ev} /\ ev = FireHaveEv(n)
      /\ ev # FireWantEv(n)
  BY DEF Took, FiresHave, Happening, OwedFate, OwedTimer, IsFate, FireWantEv, FireHaveEv
<1>2. SimInv /\ Ready /\ phase # "new" /\ t.queue \subseteq queue /\ t.sent = {} /\ t.nodes = nodes
  BY DEF Took, SimInv
<1>3. DraftInv(t, {}, {ev})
  BY <1>1 DEF Took
<1>4. PICK i \in HaveIntervals :
         HaveDue(w.nodes[n].router) /\ HasRoom(w, n) /\ Becomes(IF helps THEN ArmsHave(p, n, i) ELSE p)
  BY DEF FiresHave
<1>5. i \in Nat
  BY SimAssumption
<1> HIDE DEF n, helps
<1>6. /\ DraftInv(w, {}, {ev}) /\ w.queue = t.queue /\ w.sent = t.sent
      /\ w.nodes[n].router.held = r.held
      /\ SeenEntries(w.nodes[n].router) = {v.entry : v \in {x \in r.seen : Lag(t, n) < x.ttl}}
  <2>1. DraftInv(w, {}, {ev}) /\ Advanced(t, w, n, Lag(t, n))
    BY <1>1, <1>3, AdvanceFits
  <2>2. t.nodes[n].router = r
    BY <1>2
  <2> HIDE DEF w, r
  <2> QED
    BY <2>1, <2>2 DEF Advanced
<1> HIDE DEF w
<1>7. /\ Upright(n, w.nodes[n], w.covered) /\ BooksFit(w.covered)
      /\ TimersFit(n, w.nodes[n], w.clock[n], w.queue, {ev})
  BY <1>1, <1>6 DEF DraftInv
<1>8. Behaves(n, w.covered, res, w.nodes[n].router.wantTimer, NoTimer)
  BY <1>1, <1>4, <1>7, FireHaveBehaves
<1>9. /\ res.st.router.held = w.nodes[n].router.held
      /\ SeenEntries(res.st.router) = SeenEntries(w.nodes[n].router)
  <2> DEFINE q == FireHave(w.nodes[n].router, n).st
  <2>1. w.nodes[n] \in NodeState /\ w.nodes[n].router \in RouterState
    BY <1>7 DEF Upright, NetNode, NodeState
  <2>2. q.held = w.nodes[n].router.held /\ q.seen = w.nodes[n].router.seen
    BY <2>1 DEF FireHave, RouterState
  <2> HIDE DEF q
  <2>3. res.st.router = q
    BY <2>1 DEF NodeFireHave, Outcome, q, NodeState
  <2> QED
    BY <2>2, <2>3 DEF SeenEntries
<1> HIDE DEF res
<1>10. MayDo(w, {}, {ev}, n, res, {})
  <2>1. TimerFits(w.queue, FireHaveEv(n), NoTimer, w.clock[n], {})
    BY <1>1, <1>7 DEF TimersFit, TimerFits
  <2>2. TimerFits(w.queue, FireWantEv(n), w.nodes[n].router.wantTimer, w.clock[n], {})
    BY <1>1, <1>7 DEF TimersFit, TimerFits
  <2> QED
    BY <1>1, <1>6, <1>8, <2>1, <2>2 DEF MayDo
<1>11. Loudly(w, p, n, res, {})
  BY <1>1, <1>2, <1>4, <1>6, <1>10, ProposeLoud
<1> HIDE DEF p
<1>12. /\ DraftInv(p, p.sent, {}) /\ SentFits(p) /\ p.queue \subseteq queue
       /\ p.nodes[n] = res.st /\ p.nodes[n].router.haveTimer = NoTimer
  BY <1>2, <1>6, <1>8, <1>11 DEF Loudly, Done, Behaves
<1>13. CASE helps
  <2>1. AskOf({} \cup SeenEntries(w.nodes[n].router), r.held) # {}
    BY <1>6, <1>13 DEF helps, Helpful
  <2>2. {} \cup SeenEntries(w.nodes[n].router) = SeenEntries(w.nodes[n].router)
    OBVIOUS
  <2>3. NetworkAsk(p.nodes[n].router) # {}
    BY <1>6, <1>9, <1>12, <2>1, <2>2 DEF NetworkAsk
  <2>4. Settles(ArmsHave(p, n, i))
    BY <1>1, <1>2, <1>5, <1>12, <2>3, ArmsHaveFits
  <2> QED
    BY <1>2, <1>4, <1>13, <2>4, BecomesInv
<1>14. CASE ~helps
  <2>1. Settles(p)
    BY <1>2, <1>12, CompleteSettles DEF Complete
  <2> QED
    BY <1>2, <1>4, <1>14, <2>1, BecomesInv
<1> QED
  BY <1>13, <1>14

\* A message that is delivered is in flight until then, and its flood fits.
LEMMA DeliversInv ==
    ASSUME NEW t, NEW ev, Took(t, ev), Delivers(t, ev)
    PROVE  SimInv'
<1> DEFINE f == ev.flight
           n == f.to
           w == Advance(t, n)
           x == Without(w, f)
           on == BagIn(f, inflight)
           r == nodes[n].router
           helps == /\ f.message.kind = "want" /\ nodes[n].router.haveTimer = NoTimer
                    /\ Helpful(nodes[n].router, f.message.interest, Lag(t, n))
<1>1. OwedFate(ev) = {f} /\ OwedTimer(ev) = {} /\ ev.kind = "deliver" /\ f \in Flight
  BY DEF Took, Delivers, Happening, OwedFate, OwedTimer, IsFate
<1>2. SimInv /\ Ready /\ phase # "new" /\ t.queue \subseteq queue /\ t.sent = {} /\ t.nodes = nodes
      /\ t.inflight = inflight
  BY DEF Took, SimInv
<1>3. DraftInv(t, {f}, {})
  BY <1>1 DEF Took
<1>4. PICK i \in HaveIntervals,
           res \in IF f.message.kind = "want"
                   THEN {NodeRecvWant(w.nodes[n], n, f.message)}
                   ELSE {NodeRecvHave(w.nodes[n], n, f.message, kept) :
                            kept \in KeptSets(w.nodes[n], f.message.ops)} :
         /\ HasRoom(t, n)
         /\ Becomes(IF helps THEN ArmsHave(Propose(x, n, on, res), n, i) ELSE Propose(x, n, on, res))
  BY Zenon DEF Delivers
<1>5. i \in Nat /\ n \in NodeId
  BY <1>1, SimAssumption DEF Flight
<1> HIDE DEF f
<1>6. DraftInv(w, {f}, {}) /\ Advanced(t, w, n, Lag(t, n))
  BY <1>3, <1>5, AdvanceFits
<1> HIDE DEF w
<1>7. /\ DraftInv(x, {}, {}) /\ f \in BagToSet(w.inflight) /\ IsDraft(x)
      /\ x.queue = w.queue /\ x.nodes = w.nodes /\ x.sent = w.sent
      /\ FlightCount(x.inflight) \in Nat /\ FlightCount(x.inflight) <= FlightCount(w.inflight)
  BY <1>6, WithoutFits
<1> HIDE DEF x
<1>8. /\ w.queue = t.queue /\ w.sent = t.sent /\ w.inflight = t.inflight
      /\ w.nodes[n].router.held = t.nodes[n].router.held
      /\ w.nodes[n].router.haveTimer = Shifted(t.nodes[n].router.haveTimer, Lag(t, n))
      /\ SeenEntries(w.nodes[n].router)
            = {v.entry : v \in {y \in t.nodes[n].router.seen : Lag(t, n) < y.ttl}}
  BY <1>6 DEF Advanced
<1>9. on = TRUE
  BY <1>2, <1>7, <1>8 DEF BagIn
<1>10. HasRoom(x, n)
  <2>1. IsFiniteSet(Neighbor[n])
    BY <1>5, SimAssumption, TopologyAssumption, FS_Subset
  <2>2. Cardinality(Neighbor[n]) \in Nat
    BY <2>1, FS_CardinalityType
  <2>3. IsFiniteSet(Copies(w.inflight))
    BY <1>6 DEF DraftInv, AirFits
  <2>4. FlightCount(w.inflight) \in Nat
    BY <2>3, FS_CardinalityType DEF FlightCount
  <2> QED
    BY <1>4, <1>7, <1>8, <2>2, <2>4, TopologyAssumption DEF HasRoom
<1>11. /\ Upright(n, x.nodes[n], x.covered) /\ BooksFit(x.covered)
       /\ TimersFit(n, x.nodes[n], x.clock[n], x.queue, {})
  BY <1>5, <1>7 DEF DraftInv
<1>12. NetMessage(f.message) /\ f.message.ops.cells \subseteq DOMAIN x.covered
  <2>1. f.message.ops.cells \subseteq DOMAIN w.covered /\ NetMessage(f.message)
    BY <1>6, <1>7 DEF DraftInv, AirFits
  <2>2. x.covered = w.covered
    BY <1>6, WithoutFits DEF x
  <2> QED
    BY <2>1, <2>2
<1> DEFINE s == x.nodes[n]
<1>13. /\ Behaves(n, x.covered, res, s.router.wantTimer, s.router.haveTimer)
       /\ f.message.kind = "want" =>
             /\ SeenEntries(res.st.router) = SeenEntries(s.router) \cup f.message.interest
             /\ res.st.router.held = s.router.held
  <2>1. CASE f.message.kind = "want"
    <3>1. res = NodeRecvWant(s, n, f.message)
      BY <1>4, <1>7, <2>1
    <3>2. Upright(n, s, x.covered)
      BY <1>11
    <3> DEFINE m == f.message
    <3>3. NetMessage(m)
      BY <1>12
    <3> HIDE DEF s, m
    <3>4. /\ Behaves(n, x.covered, NodeRecvWant(s, n, m), s.router.wantTimer, s.router.haveTimer)
          /\ SeenEntries(NodeRecvWant(s, n, m).st.router) = SeenEntries(s.router) \cup m.interest
          /\ NodeRecvWant(s, n, m).st.router.held = s.router.held
      BY <1>5, <1>11, <3>2, <3>3, RecvWantBehaves
    <3> QED
      BY <3>1, <3>4 DEF m
  <2>2. CASE f.message.kind # "want"
    <3>1. PICK kept \in KeptSets(s, f.message.ops) : res = NodeRecvHave(s, n, f.message, kept)
      BY <1>4, <1>7, <2>2
    <3> QED
      BY <1>5, <1>11, <1>12, <2>2, <3>1, RecvHaveBehaves
  <2> QED
    BY <2>1, <2>2
<1>14. MayDo(x, {}, {}, n, res, {})
  BY <1>7, <1>11, <1>13 DEF MayDo, TimersFit
<1> DEFINE p == Propose(x, n, on, res)
<1> HIDE DEF on, helps, s
<1>15. Loudly(x, p, n, res, {})
  <2>1. Loudly(x, Propose(x, n, TRUE, res), n, res, {})
    BY <1>2, <1>5, <1>7, <1>8, <1>10, <1>14, ProposeLoud
  <2>2. p = Propose(x, n, TRUE, res)
    BY <1>9, Zenon
  <2> QED
    BY <2>1, <2>2
<1> HIDE DEF p
<1>16. /\ DraftInv(p, p.sent, {}) /\ SentFits(p) /\ p.queue \subseteq queue
       /\ p.nodes[n] = res.st /\ p.nodes[n].router.haveTimer = s.router.haveTimer
  BY <1>2, <1>7, <1>8, <1>13, <1>15 DEF Loudly, Done, Behaves
<1>17. Becomes(IF helps THEN ArmsHave(p, n, i) ELSE p)
  BY <1>4, Zenon DEF p
<1>18. CASE helps
  <2>1. f.message.kind = "want" /\ r.haveTimer = NoTimer
        /\ AskOf(f.message.interest \cup {v.entry : v \in {y \in r.seen : Lag(t, n) < y.ttl}}, r.held)
              # {}
    BY <1>18 DEF helps, Helpful
  <2>2. SeenEntries(res.st.router)
           = f.message.interest \cup {v.entry : v \in {y \in r.seen : Lag(t, n) < y.ttl}}
    BY <1>2, <1>7, <1>8, <1>13, <2>1 DEF s
  <2>3. res.st.router.held = r.held /\ s.router.haveTimer = NoTimer
    BY <1>2, <1>7, <1>8, <1>13, <2>1 DEF s, Shifted
  <2>4. NetworkAsk(p.nodes[n].router) # {} /\ p.nodes[n].router.haveTimer = NoTimer
    BY <1>16, <2>1, <2>2, <2>3 DEF NetworkAsk
  <2>5. Settles(ArmsHave(p, n, i))
    BY <1>2, <1>5, <1>16, <2>4, ArmsHaveFits
  <2> QED
    BY <1>2, <1>17, <1>18, <2>5, BecomesInv
<1>19. CASE ~helps
  <2>1. Settles(p)
    BY <1>2, <1>16, CompleteSettles DEF Complete
  <2> QED
    BY <1>2, <1>17, <1>19, <2>1, BecomesInv
<1> QED
  BY <1>18, <1>19

\* Counting more ops as covered disturbs nothing.
LEMMA CountedFits ==
    ASSUME NEW w, NEW F, NEW T, DraftInv(w, F, T), NEW more, BooksFit(more),
           DOMAIN w.covered \subseteq DOMAIN more,
           \A x \in DOMAIN w.covered : w.covered[x] \subseteq more[x]
    PROVE  LET u == [w EXCEPT !.covered = more]
           IN  /\ DraftInv(u, F, T) /\ u.queue = w.queue /\ u.sent = w.sent /\ u.covered = more
               /\ u.nodes = w.nodes /\ u.inflight = w.inflight /\ u.clock = w.clock
<1> DEFINE u == [w EXCEPT !.covered = more]
<1>1. IsDraft(w)
  BY DEF DraftInv
<1>2. /\ IsDraft(u) /\ u.queue = w.queue /\ u.nodes = w.nodes /\ u.inflight = w.inflight
      /\ u.clock = w.clock /\ u.refused = w.refused /\ u.sent = w.sent /\ u.at = w.at
      /\ u.covered = more
  BY <1>1 DEF IsDraft
<1> HIDE DEF u
<1>3. ASSUME NEW n \in NodeId PROVE Upright(n, w.nodes[n], more)
  <2>1. Upright(n, w.nodes[n], w.covered)
    BY DEF DraftInv
  <2> QED
    BY <2>1, UprightStays
<1>4. AirFits(w.inflight, w.queue, more, F)
  <2>1. AirFits(w.inflight, w.queue, w.covered, F)
    BY DEF DraftInv
  <2> QED
    BY <2>1 DEF AirFits
<1>5. DraftInv(u, F, T)
  BY <1>2, <1>3, <1>4 DEF DraftInv
<1> QED
  BY <1>2, <1>5 DEF u

\* An op that is appended is known from then on, and its flood fits.
LEMMA WritesFits ==
    ASSUME NEW t, DraftInv(t, {}, {}), Complete(t), t.sent = {},
           NEW x \in Authorable, x \notin DOMAIN t.covered
    PROVE  Complete(Writes(t, x))
<1> DEFINE n == Home[x]
           v == Advance(t, n)
           w == Noted(v, x, n)
           res == Authored(w.nodes[n], n, x, TRUE)
           p == Propose(w, n, TRUE, res)
<1>1. n \in NodeId
  BY SimAssumption
<1> HIDE DEF n
<1>2. /\ DraftInv(v, {}, {}) /\ v.queue = t.queue /\ v.sent = t.sent
      /\ v.inflight = t.inflight /\ v.covered = t.covered
  BY <1>1, AdvanceFits DEF Advanced
<1> HIDE DEF v
<1> DEFINE more == [y \in DOMAIN v.covered \cup {x} |->
                       IF y # x THEN v.covered[y] ELSE IF ChannelOf(x) \in Subs[n] THEN {n} ELSE {}]
<1>3. /\ BooksFit(more) /\ DOMAIN v.covered \subseteq DOMAIN more
      /\ \A y \in DOMAIN v.covered : v.covered[y] \subseteq more[y]
      /\ x \in DOMAIN more /\ (ChannelOf(x) \in Subs[n] => n \in more[x])
  <2>1. BooksFit(v.covered)
    BY <1>2 DEF DraftInv
  <2> QED
    BY <1>2, <2>1 DEF BooksFit
<1>4. w = [v EXCEPT !.covered = more]
  BY DEF Noted
<1> HIDE DEF w, more
<1>5. /\ DraftInv(w, {}, {}) /\ w.queue = v.queue /\ w.sent = v.sent /\ w.covered = more
      /\ w.inflight = v.inflight
  BY <1>2, <1>3, <1>4, CountedFits
<1>6. CASE HasRoom(t, n)
  <2>1. HasRoom(w, n)
    BY <1>2, <1>5, <1>6 DEF HasRoom
  <2>2. /\ Upright(n, w.nodes[n], w.covered) /\ BooksFit(w.covered)
        /\ TimersFit(n, w.nodes[n], w.clock[n], w.queue, {})
    BY <1>1, <1>5 DEF DraftInv
  <2> DEFINE s == w.nodes[n]
  <2>3. Upright(n, s, w.covered) /\ x \in DOMAIN w.covered
        /\ (ChannelOf(x) \in Subs[n] => n \in w.covered[x])
    BY <1>3, <1>5, <2>2
  <2>4. Behaves(n, w.covered, res, s.router.wantTimer, s.router.haveTimer)
    <3> HIDE DEF s
    <3>1. Behaves(n, w.covered, Authored(s, n, x, TRUE), s.router.wantTimer, s.router.haveTimer)
      BY <1>1, <2>2, <2>3, AuthoredBehaves
    <3> QED
      BY <3>1 DEF s
  <2> HIDE DEF res
  <2>5. MayDo(w, {}, {}, n, res, {})
    BY <1>5, <2>2, <2>4 DEF MayDo, TimersFit
  <2>6. Loudly(w, p, n, res, {})
    BY <1>1, <1>2, <1>5, <2>1, <2>5, ProposeLoud
  <2> HIDE DEF p
  <2>7. Complete(p)
    BY <1>2, <1>5, <2>6 DEF Complete, Loudly, Done
  <2> QED
    BY <1>6, <2>7 DEF Writes, n, v, w, p, res
<1>7. CASE ~HasRoom(t, n)
  BY <1>7 DEF Writes, n
<1> QED
  BY <1>6, <1>7

LEMMA AppendsInv ==
    ASSUME NEW t, NEW ev, Took(t, ev), Appends(t, ev)
    PROVE  SimInv'
<1>1. IsPlain(ev)
  BY DEF Appends, IsPlain, IsFate, IsFire
<1>2. /\ DraftInv(t, {}, {}) /\ Complete(t) /\ Ready /\ SimInv /\ phase # "new" /\ t.sent = {}
      /\ t.covered = covered /\ ev \in Happening
  BY <1>1, TookPlain DEF Took
<1>3. PICK gap \in Gaps :
         IF t.at > Duration \/ NextOps = {} THEN Becomes(t)
         ELSE \E x \in NextOps : Becomes(Schedule(Writes(t, x), gap, ev))
  BY DEF Appends
<1>4. CASE Becomes(t)
  BY <1>2, <1>4, CompleteSettles, BecomesInv
<1>5. ASSUME NEW x \in NextOps, Becomes(Schedule(Writes(t, x), gap, ev)) PROVE SimInv'
  <2>1. x \in Authorable /\ x \notin DOMAIN t.covered
    BY <1>2 DEF NextOps
  <2>2. Complete(Writes(t, x))
    BY <1>2, <2>1, WritesFits
  <2>3. gap \in Nat
    BY SimAssumption
  <2>4. Settles(Schedule(Writes(t, x), gap, ev))
    BY <1>1, <1>2, <2>2, <2>3, PlainSettles
  <2> QED
    BY <1>2, <1>5, <2>4, BecomesInv
<1> QED
  BY <1>3, <1>4, <1>5

\* A draft that another one has become without a word.
Silently(t, w) ==
    /\ DraftInv(w, {}, {}) /\ w.queue = t.queue /\ w.sent = t.sent /\ w.at = t.at
    /\ w.inflight = t.inflight

\* An action of n that broadcasts nothing and delivers nothing.
LEMMA SilentAction ==
    ASSUME NEW w, DraftInv(w, {}, {}), NEW n \in NodeId, NEW res,
           Behaves(n, w.covered, res, w.nodes[n].router.wantTimer, w.nodes[n].router.haveTimer),
           res.fx.send = {}, res.fx.deliver = {}
    PROVE  LET p == Propose(w, n, TRUE, res)
           IN  Silently(w, p) /\ p.covered = w.covered /\ p.clock = w.clock
<1> DEFINE p == Propose(w, n, TRUE, res)
<1>1. TimersFit(n, w.nodes[n], w.clock[n], w.queue, {}) /\ BooksFit(w.covered)
  BY DEF DraftInv
<1>2. MayDo(w, {}, {}, n, res, {})
  BY <1>1 DEF MayDo, TimersFit
<1>3. Quietly(w, p, {}, n, res, {})
  BY <1>2, ProposeQuiet
<1> HIDE DEF p
<1>4. p.covered = w.covered
  BY <1>1, <1>3, CoverFacts DEF Quietly, Done
<1> QED
  BY <1>3, <1>4 DEF Quietly, Done, Silently, p

LEMMA AdvanceSilently ==
    ASSUME NEW t, DraftInv(t, {}, {}), NEW n \in NodeId
    PROVE  Silently(t, Advance(t, n)) /\ Advance(t, n).covered = t.covered
BY AdvanceFits DEF Advanced, Silently

LEMMA ShedsFits ==
    ASSUME NEW t, DraftInv(t, {}, {}), NEW n \in NodeId
    PROVE  Silently(t, Sheds(t, n))
<1> DEFINE w == Advance(t, n)
<1>1. Silently(t, w)
  BY AdvanceSilently
<1> HIDE DEF w
<1>2. ASSUME NEW R
      PROVE  /\ Silently(t, Propose(w, n, TRUE, RelayEvict(w.nodes[n], R)))
             /\ Silently(t, Propose(w, n, TRUE, RelayEvictPayloads(w.nodes[n], R)))
  <2> DEFINE s == w.nodes[n]
  <2>1. DraftInv(w, {}, {}) /\ Upright(n, s, w.covered) /\ BooksFit(w.covered)
    BY <1>1 DEF Silently, DraftInv
  <2> HIDE DEF s
  <2>2. /\ Behaves(n, w.covered, RelayEvict(s, R), s.router.wantTimer, s.router.haveTimer)
        /\ Behaves(n, w.covered, RelayEvictPayloads(s, R), s.router.wantTimer, s.router.haveTimer)
    BY <2>1, EvictionsBehave
  <2>3. /\ RelayEvict(s, R).fx.send = {} /\ RelayEvict(s, R).fx.deliver = {}
        /\ RelayEvictPayloads(s, R).fx.send = {} /\ RelayEvictPayloads(s, R).fx.deliver = {}
    BY DEF RelayEvict, RelayEvictPayloads, Quiet
  <2>4. /\ Silently(w, Propose(w, n, TRUE, RelayEvict(s, R)))
        /\ Silently(w, Propose(w, n, TRUE, RelayEvictPayloads(s, R)))
    BY <2>1, <2>2, <2>3, SilentAction DEF s
  <2> QED
    BY <1>1, <2>4 DEF Silently, s
<1>3. Silently(t, t)
  BY DEF Silently
<1> QED
  BY <1>2, <1>3, Zenon DEF Sheds, w

LEMMA MaintainsInv ==
    ASSUME NEW t, NEW ev, Took(t, ev), Maintains(t, ev)
    PROVE  SimInv'
<1> DEFINE w == Sheds(t, ev.node)
<1>1. IsPlain(ev) /\ ev.node \in NodeId
  BY DEF Maintains, IsPlain, IsFate, IsFire, Took, Happening
<1>2. /\ DraftInv(t, {}, {}) /\ Complete(t) /\ Ready /\ SimInv /\ phase # "new" /\ t.sent = {}
      /\ ev \in Happening
  BY <1>1, TookPlain DEF Took
<1>3. Silently(t, w)
  BY <1>1, <1>2, ShedsFits
<1> HIDE DEF w
<1>4. Complete(w)
  BY <1>2, <1>3 DEF Complete, Silently, SentFits
<1>5. Maintain \in Nat
  BY SimAssumption
<1>6. Becomes(Again(w, Maintain, ev, 2 * Duration)) /\ Settles(Again(w, Maintain, ev, 2 * Duration))
  BY <1>1, <1>2, <1>4, <1>5, PlainSettles DEF Maintains, w
<1> QED
  BY <1>2, <1>6, BecomesInv

LEMMA SyncedFits ==
    ASSUME NEW t, DraftInv(t, {}, {}), NEW x \in DOMAIN t.covered, NEW n \in NodeId
    PROVE  Silently(t, Synced(Advance(t, n), n, x))
<1> DEFINE v == Advance(t, n)
           more == Cover(v.covered, n, {x})
           w == [v EXCEPT !.covered = more]
           s == w.nodes[n]
           res == NativeSync(v.nodes[n], [cells |-> {x}, pay |-> {x}])
<1>1. Silently(t, v) /\ v.covered = t.covered
  BY AdvanceSilently
<1> HIDE DEF v
<1>2. DraftInv(v, {}, {}) /\ BooksFit(v.covered)
  BY <1>1 DEF Silently, DraftInv
<1>3. /\ BooksFit(more) /\ DOMAIN more = DOMAIN v.covered
      /\ \A y \in DOMAIN v.covered : v.covered[y] \subseteq more[y]
      /\ x \in DOMAIN more /\ (ChannelOf(x) \in Subs[n] => n \in more[x])
  BY <1>1, <1>2, CoverFacts
<1> HIDE DEF more
<1>4. /\ DraftInv(w, {}, {}) /\ w.queue = v.queue /\ w.sent = v.sent /\ w.covered = more
      /\ w.nodes = v.nodes /\ w.inflight = v.inflight /\ w.at = v.at
  <2>1. w.at = v.at
    BY <1>2 DEF DraftInv, IsDraft
  <2> QED
    BY <1>2, <1>3, <2>1, CountedFits
<1>5. Synced(v, n, x) = Propose(w, n, TRUE, res)
  BY DEF Synced, more
<1> HIDE DEF w
<1>6. Upright(n, s, w.covered)
  BY <1>4 DEF DraftInv
<1>7. Behaves(n, w.covered, res, s.router.wantTimer, s.router.haveTimer)
  <2>1. res = NativeSync(s, [cells |-> {x}, pay |-> {x}])
    BY <1>4
  <2> HIDE DEF s, res
  <2> QED
    BY <1>3, <1>4, <1>6, <2>1, NativeSyncBehaves
<1>8. res.fx.send = {} /\ res.fx.deliver = {}
  BY DEF NativeSync, Quiet
<1> HIDE DEF res
<1>9. Silently(w, Propose(w, n, TRUE, res))
  BY <1>4, <1>7, <1>8, SilentAction
<1>10. Silently(t, Synced(v, n, x))
  BY <1>1, <1>4, <1>5, <1>9 DEF Silently
<1> QED
  BY <1>10 DEF v

LEMMA NativeSyncsInv ==
    ASSUME NEW t, NEW ev, Took(t, ev), NativeSyncs(t, ev)
    PROVE  SimInv'
<1>1. IsPlain(ev)
  BY DEF NativeSyncs, IsPlain, IsFate, IsFire
<1>2. /\ DraftInv(t, {}, {}) /\ Complete(t) /\ Ready /\ SimInv /\ phase # "new" /\ t.sent = {}
      /\ t.covered = covered /\ ev \in Happening
  BY <1>1, TookPlain DEF Took
<1>3. PICK gap \in SyncGaps :
         \/ Becomes(t)
         \/ \E w \in Arrivals(t) : Becomes(Schedule(w, gap, ev))
  BY DEF NativeSyncs
<1>4. CASE Becomes(t)
  BY <1>2, <1>4, CompleteSettles, BecomesInv
<1>5. ASSUME NEW w \in Arrivals(t), Becomes(Schedule(w, gap, ev)) PROVE SimInv'
  <2>1. w = t \/ \E x \in DOMAIN t.covered : \E n \in NodeId : w = Synced(Advance(t, n), n, x)
    BY <1>2 DEF Arrivals, Expected
  <2>2. Silently(t, t)
    BY <1>2 DEF Silently
  <2>3. Silently(t, w)
    BY <1>2, <2>1, <2>2, SyncedFits
  <2>4. Complete(w)
    BY <1>2, <2>3 DEF Complete, Silently, SentFits
  <2>5. gap \in Nat
    BY SimAssumption
  <2>6. Settles(Schedule(w, gap, ev))
    BY <1>1, <1>2, <2>4, <2>5, PlainSettles
  <2> QED
    BY <1>2, <1>5, <2>6, BecomesInv
<1> QED
  BY <1>3, <1>4, <1>5

\* Ticks of all nodes at once.
LEMMA EachNodeFits ==
    ASSUME NEW t, DraftInv(t, {}, {}), NEW after,
           \A n \in NodeId : Silently(t, after[n]) /\ after[n].covered = t.covered
    PROVE  Silently(t, EachNode(t, after))
<1> DEFINE u == EachNode(t, after)
           broken == \E n \in NodeId : after[n].refused
<1>1. broken = FALSE
  BY DEF Silently, DraftInv
<1> HIDE DEF broken
<1>2. u = [nodes |-> [n \in NodeId |-> after[n].nodes[n]], inflight |-> t.inflight,
           queue |-> t.queue, clock |-> [n \in NodeId |-> after[n].clock[n]],
           covered |-> t.covered, refused |-> broken, sent |-> t.sent, at |-> t.at]
  BY DEF EachNode, broken
<1> HIDE DEF u
<1>3. u = [nodes |-> [n \in NodeId |-> after[n].nodes[n]], inflight |-> t.inflight,
           queue |-> t.queue, clock |-> [n \in NodeId |-> after[n].clock[n]],
           covered |-> t.covered, refused |-> FALSE, sent |-> t.sent, at |-> t.at]
  BY <1>1, <1>2, Zenon
<1>4. /\ IsDraft(u) /\ u.inflight = t.inflight /\ u.queue = t.queue /\ u.covered = t.covered
      /\ u.refused = FALSE /\ u.sent = t.sent /\ u.at = t.at
      /\ u.nodes = [n \in NodeId |-> after[n].nodes[n]]
      /\ u.clock = [n \in NodeId |-> after[n].clock[n]]
  BY <1>3 DEF IsDraft
<1>5. ASSUME NEW n \in NodeId
      PROVE  /\ Upright(n, u.nodes[n], u.covered)
             /\ u.clock[n] \in Nat /\ u.clock[n] <= u.at
             /\ TimersFit(n, u.nodes[n], u.clock[n], u.queue, {})
  <2> DEFINE w == after[n]
  <2>1. Silently(t, w) /\ w.covered = t.covered
    OBVIOUS
  <2>2. u.nodes[n] = w.nodes[n] /\ u.clock[n] = w.clock[n]
    BY <1>4
  <2> HIDE DEF w
  <2> QED
    BY <1>4, <2>1, <2>2 DEF Silently, DraftInv
<1>6. DraftInv(u, {}, {})
  <2>1. QueueFits(t.queue, t.at) /\ AirFits(t.inflight, t.queue, t.covered, {})
        /\ BooksFit(t.covered) /\ t.at \in Nat
    BY DEF DraftInv
  <2>2. u.nodes = [n \in NodeId |-> u.nodes[n]] /\ u.clock = [n \in NodeId |-> u.clock[n]]
    BY <1>4
  <2> QED
    BY <1>4, <1>5, <2>1, <2>2 DEF DraftInv
<1> QED
  BY <1>4, <1>6 DEF Silently, u

LEMMA CollectsFits ==
    ASSUME NEW t, DraftInv(t, {}, {}), NEW n \in NodeId
    PROVE  Silently(t, Collects(t, n)) /\ Collects(t, n).covered = t.covered
<1> DEFINE w == Advance(t, n)
           old == Outdated(nodes[n])
           s == w.nodes[n]
           res == AppGc(s, old)
           p == Propose(w, n, TRUE, res)
<1>1. Silently(t, w) /\ w.covered = t.covered
  BY AdvanceSilently
<1>2. Collects(t, n) = t \/ Collects(t, n) = p
  BY DEF Collects
<1> HIDE DEF w, old
<1>3. DraftInv(w, {}, {}) /\ Upright(n, s, w.covered) /\ BooksFit(w.covered)
  BY <1>1 DEF Silently, DraftInv
<1> HIDE DEF s
<1>4. Behaves(n, w.covered, res, s.router.wantTimer, s.router.haveTimer)
  BY <1>3, EvictionsBehave
<1>5. res.fx.send = {} /\ res.fx.deliver = {}
  BY DEF AppGc, Quiet
<1> HIDE DEF res
<1>6. Silently(w, p) /\ p.covered = w.covered
  BY <1>3, <1>4, <1>5, SilentAction DEF s
<1> HIDE DEF p
<1>7. Silently(t, t) /\ Silently(t, p) /\ p.covered = t.covered
  BY <1>1, <1>6 DEF Silently
<1> QED
  BY <1>2, <1>7

LEMMA EverySoOftenInv ==
    ASSUME NEW t, NEW ev, Took(t, ev), AppGcs(t, ev) \/ CatchesUp(t, ev)
    PROVE  SimInv'
<1> DEFINE gc == [n \in NodeId |-> Collects(t, n)]
           up == [n \in NodeId |-> Advance(t, n)]
<1>1. IsPlain(ev)
  BY DEF AppGcs, CatchesUp, IsPlain, IsFate, IsFire
<1>2. /\ DraftInv(t, {}, {}) /\ Complete(t) /\ Ready /\ SimInv /\ phase # "new" /\ t.sent = {}
      /\ ev \in Happening
  BY <1>1, TookPlain DEF Took
<1>3. /\ \A n \in NodeId : Silently(t, gc[n]) /\ gc[n].covered = t.covered
      /\ \A n \in NodeId : Silently(t, up[n]) /\ up[n].covered = t.covered
  BY <1>2, CollectsFits, AdvanceSilently
<1>4. \/ Becomes(Again(EachNode(t, gc), GcInterval, ev, Duration))
      \/ Becomes(Again(EachNode(t, up), quantum, ev, 2 * Duration))
  BY DEF AppGcs, CatchesUp
<1> HIDE DEF gc, up
<1>5. Silently(t, EachNode(t, gc)) /\ Silently(t, EachNode(t, up))
  BY <1>2, <1>3, EachNodeFits
<1>6. \A w : Silently(t, w) => Complete(w)
  BY <1>2 DEF Complete, Silently, SentFits
<1>7. GcInterval \in Nat /\ quantum \in Nat
  BY <1>2, SimAssumption DEF Ready
<1>8. /\ Settles(Again(EachNode(t, gc), GcInterval, ev, Duration))
      /\ Settles(Again(EachNode(t, up), quantum, ev, 2 * Duration))
  BY <1>1, <1>2, <1>5, <1>6, <1>7, PlainSettles
<1> QED
  BY <1>2, <1>4, <1>8, BecomesInv

-----------------------------------------------------------------------------
\* The first tick, and the whole run.

\* What may be scheduled at the start.
Beginnings(start, gap, fine, maintain, syncGap, gc) ==
    {EventAt(start[n], 1, n, FireWantEv(n)) : n \in NodeId}
        \cup {EventAt(maintain, 4, n, MaintainEv(n)) : n \in NodeId}
        \cup {EventAt(gap, 2, 0, Plain("append")), EventAt(fine, 3, 0, Plain("quantum")),
              EventAt(syncGap, 5, 0, Plain("native_sync")), EventAt(gc, 6, 0, Plain("app_gc"))}

\* One event for each node's Want timer, and none for anything in flight.
Fresh(q, start) ==
    /\ q \in SUBSET Pendings /\ IsFiniteSet(q) /\ Keyed(q)
    /\ \A e \in q : ~IsFate(e.ev)
    /\ \A e \in q, n \in NodeId :
          /\ e.ev # FireHaveEv(n)
          /\ e.ev = FireWantEv(n) => e = EventAt(start[n], 1, n, FireWantEv(n))

LEMMA FirstEvents ==
    ASSUME NEW start \in [NodeId -> Nat], NEW d2 \in Nat, NEW d3 \in Nat, NEW d4 \in Nat,
           NEW d5 \in Nat, NEW d6 \in Nat,
           NEW q \in SUBSET Beginnings(start, d2, d3, d4, d5, d6)
    PROVE  Fresh(q, start)
<1> DEFINE wants == {EventAt(start[n], 1, n, FireWantEv(n)) : n \in NodeId}
           maintains == {EventAt(d4, 4, n, MaintainEv(n)) : n \in NodeId}
           a == EventAt(d2, 2, 0, Plain("append"))
           b == EventAt(d3, 3, 0, Plain("quantum"))
           c == EventAt(d5, 5, 0, Plain("native_sync"))
           d == EventAt(d6, 6, 0, Plain("app_gc"))
           all == wants \cup maintains \cup {a, b, c, d}
<1>1. NodeId \subseteq Nat /\ IsFiniteSet(NodeId) /\ q \subseteq all
  BY SimAssumption DEF Beginnings
<1>2. IsFiniteSet(all)
  <2> DEFINE g == [n \in NodeId |-> EventAt(start[n], 1, n, FireWantEv(n))]
             h == [n \in NodeId |-> EventAt(d4, 4, n, MaintainEv(n))]
  <2>1. g \in Surjection(NodeId, wants) /\ h \in Surjection(NodeId, maintains)
    BY DEF Surjection
  <2> HIDE DEF wants, maintains, g, h, a, b, c, d
  <2>2. IsFiniteSet(wants) /\ IsFiniteSet(maintains)
    BY <1>1, <2>1, FS_Surjection
  <2>3. IsFiniteSet(wants \cup maintains)
    BY <2>2, FS_Union
  <2>4. IsFiniteSet((wants \cup maintains) \cup {a})
    BY <2>3, FS_AddElement
  <2>5. IsFiniteSet(((wants \cup maintains) \cup {a}) \cup {b})
    BY <2>4, FS_AddElement
  <2>6. IsFiniteSet((((wants \cup maintains) \cup {a}) \cup {b}) \cup {c})
    BY <2>5, FS_AddElement
  <2>7. IsFiniteSet(((((wants \cup maintains) \cup {a}) \cup {b}) \cup {c}) \cup {d})
    BY <2>6, FS_AddElement
  <2>8. all = ((((wants \cup maintains) \cup {a}) \cup {b}) \cup {c}) \cup {d}
    OBVIOUS
  <2> QED
    BY <2>7, <2>8
<1>3. ASSUME NEW n \in NodeId
      PROVE  /\ EventAt(start[n], 1, n, FireWantEv(n)) \in Pendings
             /\ EventAt(d4, 4, n, MaintainEv(n)) \in Pendings
  <2>1. FireWantEv(n) \in Happening /\ MaintainEv(n) \in Happening /\ n \in Nat
    BY <1>1 DEF FireWantEv, MaintainEv, Happening
  <2> QED
    BY <2>1 DEF EventAt, Pendings
<1>4. a \in Pendings /\ b \in Pendings /\ c \in Pendings /\ d \in Pendings
  BY DEF EventAt, Plain, Pendings, Happening
<1>5. /\ \A e \in wants : \E n \in NodeId : e = EventAt(start[n], 1, n, FireWantEv(n))
      /\ \A e \in maintains : \E n \in NodeId : e = EventAt(d4, 4, n, MaintainEv(n))
  OBVIOUS
<1>6. \A at, slot, n, ev : /\ EventAt(at, slot, n, ev).seq = <<slot, n>>
                           /\ EventAt(at, slot, n, ev).ev = ev
  BY DEF EventAt
<1>7. /\ \A e \in wants : e.seq[1] = 1 /\ e.ev.kind = "fire_want"
      /\ \A e \in maintains : e.seq[1] = 4 /\ e.ev.kind = "maintain"
      /\ a.seq[1] = 2 /\ b.seq[1] = 3 /\ c.seq[1] = 5 /\ d.seq[1] = 6
      /\ a.ev.kind = "append" /\ b.ev.kind = "quantum"
      /\ c.ev.kind = "native_sync" /\ d.ev.kind = "app_gc"
  <2>1. /\ \A e \in wants : e.seq[1] = 1 /\ e.ev.kind = "fire_want"
        /\ \A e \in maintains : e.seq[1] = 4 /\ e.ev.kind = "maintain"
    <3>1. /\ \A n : FireWantEv(n).kind = "fire_want" /\ MaintainEv(n).kind = "maintain"
          /\ \A slot, n : <<slot, n>>[1] = slot
      BY DEF FireWantEv, MaintainEv
    <3> HIDE DEF wants, maintains
    <3> QED
      BY <1>5, <1>6, <3>1
  <2>2. /\ a.seq[1] = 2 /\ b.seq[1] = 3 /\ c.seq[1] = 5 /\ d.seq[1] = 6
        /\ a.ev.kind = "append" /\ b.ev.kind = "quantum"
        /\ c.ev.kind = "native_sync" /\ d.ev.kind = "app_gc"
    BY <1>6 DEF Plain
  <2> QED
    BY <2>1, <2>2
<1>8. /\ \A e, o \in wants : e.seq = o.seq => e = o
      /\ \A e, o \in maintains : e.seq = o.seq => e = o
  BY <1>5, <1>6
<1> HIDE DEF a, b, c, d
<1>9. all \subseteq Pendings
  BY <1>3, <1>4
<1>10. \A e \in wants, n \in NodeId :
          e.ev = FireWantEv(n) => e = EventAt(start[n], 1, n, FireWantEv(n))
  <2>1. \A n, m : FireWantEv(n) = FireWantEv(m) => n = m
    BY DEF FireWantEv
  <2> QED
    BY <1>5, <1>6, <2>1
<1> HIDE DEF wants, maintains
<1>11. ASSUME NEW e \in all, NEW o \in all, e.seq = o.seq PROVE e = o
  <2>1. /\ e \in wants \/ e \in maintains \/ e = a \/ e = b \/ e = c \/ e = d
        /\ o \in wants \/ o \in maintains \/ o = a \/ o = b \/ o = c \/ o = d
        /\ e.seq[1] = o.seq[1]
    BY <1>11
  <2>2. CASE e \in wants
    BY <1>7, <1>8, <1>11, <2>1, <2>2
  <2>3. CASE e \in maintains
    BY <1>7, <1>8, <1>11, <2>1, <2>3
  <2>4. CASE e \notin wants \cup maintains
    BY <1>7, <2>1, <2>4
  <2> QED
    BY <2>2, <2>3, <2>4
<1>12. /\ \A e \in all : ~IsFate(e.ev)
       /\ \A e \in all, n \in NodeId :
             /\ e.ev # FireHaveEv(n)
             /\ e.ev = FireWantEv(n) => e \in wants
  BY <1>7 DEF IsFate, FireHaveEv, FireWantEv
<1> HIDE DEF all
<1>13. q \in SUBSET Pendings /\ IsFiniteSet(q) /\ Keyed(q)
  BY <1>1, <1>2, <1>9, <1>11, FS_Subset DEF Keyed
<1> QED
  BY <1>1, <1>10, <1>12, <1>13 DEF Fresh

\* The first tick gives every timer that it arms its event.
LEMMA BeginsInv ==
    ASSUME SimInv, Begins
    PROVE  SimInv'
<1>1. PICK start \in [NodeId -> WantIntervals], gap \in Gaps, syncGap \in SyncGaps :
         /\ phase = "new"
         /\ LET first(delay, slot, n, ev) == IF delay = 0 THEN {} ELSE {EventAt(delay, slot, n, ev)}
            IN  queue' = Numbered(
                    (UNION {first(start[n], 1, n, FireWantEv(n)) : n \in NodeId})
                    \cup first(gap, 2, 0, Plain("append"))
                    \cup first(IF quantum = 1 THEN 0 ELSE quantum, 3, 0, Plain("quantum"))
                    \cup (UNION {first(Maintain, 4, n, MaintainEv(n)) : n \in NodeId})
                    \cup first(syncGap, 5, 0, Plain("native_sync"))
                    \cup first(GcInterval, 6, 0, Plain("app_gc")))
         /\ nodes' = [n \in NodeId |-> NodeArmWant(nodes[n], start[n]).st]
         /\ refused' = \E n \in NodeId : ~ArmWantEnabled(nodes[n].router)
         /\ phase' = "running" /\ inflight' = inflight /\ now' = now /\ clock' = clock
         /\ covered' = covered /\ quantum' = quantum
  BY DEF Begins
<1> DEFINE first(delay, slot, n, ev) == IF delay = 0 THEN {} ELSE {EventAt(delay, slot, n, ev)}
           fine == IF quantum = 1 THEN 0 ELSE quantum
           wants == UNION {first(start[n], 1, n, FireWantEv(n)) : n \in NodeId}
           maintains == UNION {first(Maintain, 4, n, MaintainEv(n)) : n \in NodeId}
           a == first(gap, 2, 0, Plain("append"))
           b == first(fine, 3, 0, Plain("quantum"))
           c == first(syncGap, 5, 0, Plain("native_sync"))
           d == first(GcInterval, 6, 0, Plain("app_gc"))
           q == ((((wants \cup a) \cup b) \cup maintains) \cup c) \cup d
           w == [nodes |-> nodes', inflight |-> inflight, queue |-> q, clock |-> clock,
                 covered |-> covered, refused |-> FALSE, sent |-> {}, at |-> now]
           v == WithQueue(w, Numbered(q))
<1>2. queue' = Numbered(q)
  BY <1>1
<1>3. /\ quantum \in Nat \ {0} /\ gap \in Nat /\ syncGap \in Nat /\ Maintain \in Nat
      /\ GcInterval \in Nat /\ fine \in Nat
      /\ \A n \in NodeId : start[n] \in Nat \ {0}
      /\ start \in [NodeId -> Nat]
  BY SimAssumption DEF SimInv, Ready
<1>4. \A n \in NodeId : EventAt(start[n], 1, n, FireWantEv(n)) \in wants
  BY <1>3
<1>5. q \in SUBSET Beginnings(start, gap, fine, Maintain, syncGap, GcInterval)
  <2>1. wants \subseteq {EventAt(start[n], 1, n, FireWantEv(n)) : n \in NodeId}
    OBVIOUS
  <2>2. maintains \subseteq {EventAt(Maintain, 4, n, MaintainEv(n)) : n \in NodeId}
    OBVIOUS
  <2>3. /\ a \subseteq {EventAt(gap, 2, 0, Plain("append"))}
        /\ b \subseteq {EventAt(fine, 3, 0, Plain("quantum"))}
        /\ c \subseteq {EventAt(syncGap, 5, 0, Plain("native_sync"))}
        /\ d \subseteq {EventAt(GcInterval, 6, 0, Plain("app_gc"))}
    OBVIOUS
  <2> HIDE DEF wants, maintains, a, b, c, d
  <2> QED
    BY <2>1, <2>2, <2>3 DEF Beginnings
<1> HIDE DEF first, fine, wants, maintains, a, b, c, d
<1>6. \A n \in NodeId : EventAt(start[n], 1, n, FireWantEv(n)) \in q
  BY <1>4
<1> HIDE DEF q
<1>7. /\ q \in SUBSET Pendings /\ IsFiniteSet(q) /\ Keyed(q)
      /\ \A e \in q : ~IsFate(e.ev)
      /\ \A e \in q, n \in NodeId :
            /\ e.ev # FireHaveEv(n)
            /\ e.ev = FireWantEv(n) => e = EventAt(start[n], 1, n, FireWantEv(n))
  BY <1>3, <1>5, FirstEvents DEF Fresh
<1>8. /\ DraftInv(Here, {}, {}) /\ Here.nodes = nodes /\ Here.inflight = inflight
      /\ Here.queue = queue /\ Here.clock = clock /\ Here.covered = covered /\ Here.at = now
      /\ queue = {} /\ now = 0 /\ clock = [n \in NodeId |-> 0]
  BY <1>1 DEF SimInv, Here
<1>9. /\ BooksFit(covered) /\ AirFits(inflight, {}, covered, {})
      /\ \A n \in NodeId : Upright(n, nodes[n], covered) /\ TimersFit(n, nodes[n], 0, {}, {})
  BY <1>8 DEF DraftInv
<1>10. \A n \in NodeId : nodes[n].router.wantTimer = NoTimer /\ nodes[n].router.haveTimer = NoTimer
  BY <1>9 DEF TimersFit, TimerFits
<1>11. (\E n \in NodeId : ~ArmWantEnabled(nodes[n].router)) = FALSE
  BY <1>10 DEF ArmWantEnabled
<1>12. refused' = FALSE
  BY <1>1, <1>11
<1>13. ASSUME NEW n \in NodeId
       PROVE  Upright(n, nodes'[n], covered) /\ TimersFit(n, nodes'[n], 0, q, {})
  <2> DEFINE s == nodes[n]
             i == start[n]
             x == EventAt(i, 1, n, FireWantEv(n))
             res == NodeArmWant(s, i)
  <2>1. nodes'[n] = res.st
    BY <1>1
  <2>2. Upright(n, s, covered) /\ i \in Nat \ {0} /\ s.router.haveTimer = NoTimer
    BY <1>3, <1>9, <1>10
  <2> HIDE DEF s, i
  <2>3. Behaves(n, covered, res, i, s.router.haveTimer)
    BY <1>9, <2>2, ArmsBehave
  <2>4. res.fx.deliver = {}
    BY DEF NodeArmWant, Quiet
  <2> HIDE DEF res
  <2>5. /\ Upright(n, nodes'[n], covered)
        /\ nodes'[n].router.wantTimer = i /\ nodes'[n].router.haveTimer = NoTimer
    BY <1>9, <2>1, <2>2, <2>3, <2>4, CoverFacts DEF Behaves
  <2>6. x.at = i /\ x.ev = FireWantEv(n)
    BY DEF EventAt
  <2>7. x \in q /\ \A e \in q : e.ev = FireWantEv(n) => e = x
    BY <1>6, <1>7 DEF i
  <2> HIDE DEF x
  <2>8. {e \in q : e.ev = FireWantEv(n)} = {x}
    BY <2>6, <2>7
  <2>9. TimerFits(q, FireWantEv(n), i, 0, {})
    BY <2>2, <2>6, <2>7, <2>8 DEF TimerFits, NoTimer
  <2>10. TimerFits(q, FireHaveEv(n), NoTimer, 0, {})
    BY <1>7 DEF TimerFits
  <2> QED
    BY <2>5, <2>9, <2>10 DEF TimersFit
<1>14. AirFits(inflight, q, covered, {})
  <2>1. \A f : Fated(q, f) = {} /\ Fated({}, f) = {}
    BY <1>7 DEF Fated
  <2> QED
    BY <1>9, <2>1 DEF AirFits
<1>15. QueueFits(q, 0)
  <2>1. ASSUME NEW e \in q PROVE 0 <= Quantize(e.at)
    <3>1. e.at \in Nat
      BY <1>7 DEF Pendings
    <3>2. Quantize(e.at) \in Nat
      BY <1>3, <3>1, QuantizeFacts
    <3> QED
      BY <3>2
  <2> QED
    BY <1>7, <2>1 DEF QueueFits
<1>16. nodes' = [n \in NodeId |-> nodes'[n]]
  BY <1>1
<1>17. /\ IsDraft(w) /\ w.nodes = nodes' /\ w.inflight = inflight /\ w.queue = q /\ w.clock = clock
       /\ w.covered = covered /\ w.refused = FALSE /\ w.sent = {} /\ w.at = now
  BY DEF IsDraft
<1> HIDE DEF w
<1>18. DraftInv(w, {}, {})
  <2>1. \A n \in NodeId : clock[n] = 0
    BY <1>8
  <2> QED
    BY <1>8, <1>9, <1>13, <1>14, <1>15, <1>16, <1>17, <2>1 DEF DraftInv
<1>19. /\ DraftInv(v, {}, {}) /\ Numbered(q) \subseteq Pendings /\ IsFiniteSet(Numbered(q))
       /\ \A e \in Numbered(q) : e.seq[1] < Cardinality(Numbered(q))
  BY <1>3, <1>17, <1>18, NumberedFits
<1>20. /\ v.queue = Numbered(q) /\ v.nodes = w.nodes /\ v.inflight = w.inflight
       /\ v.clock = w.clock /\ v.covered = w.covered /\ v.refused = w.refused /\ v.at = w.at
  BY <1>17, WithQueueParts
<1> HIDE DEF v
<1>21. /\ v.queue = queue' /\ v.nodes = nodes' /\ v.inflight = inflight' /\ v.clock = clock'
       /\ v.covered = covered' /\ v.refused = refused' /\ v.at = now'
       /\ quantum' = quantum /\ phase' # "new" /\ queue' = Numbered(q)
  BY <1>1, <1>2, <1>12, <1>17, <1>20
<1>22. Ready'
  BY <1>3, <1>19, <1>21 DEF Ready
<1>23. DraftInv(Here, {}, {})'
  BY <1>19, <1>21 DEF DraftInv, Here, QueueFits, Quantize, IsDraft
<1> QED
  BY <1>21, <1>22, <1>23 DEF SimInv

LEMMA SimInitInv == SimInit => SimInv
<1> SUFFICES ASSUME SimInit PROVE SimInv
  OBVIOUS
<1>1. /\ nodes = [n \in NodeId |-> NewNode(Subs[n])] /\ inflight = EmptyBag /\ now = 0
      /\ clock = [n \in NodeId |-> 0] /\ queue = {} /\ covered = [x \in {} |-> {}]
      /\ quantum \in Quanta /\ refused = FALSE
  BY DEF SimInit, Init
<1>2. NetInv
  BY NetInitInv DEF SimInit
<1>3. BooksFit(covered) /\ DOMAIN covered = {}
  BY <1>1 DEF BooksFit
<1>4. ASSUME NEW n \in NodeId
      PROVE  Upright(n, nodes[n], covered) /\ TimersFit(n, nodes[n], clock[n], queue, {})
  <2>1. /\ nodes[n].relay.cells = {} /\ nodes[n].ext.cells = {} /\ nodes[n].subs = Subs[n]
        /\ nodes[n].router.wantTimer = NoTimer /\ nodes[n].router.haveTimer = NoTimer
    BY <1>1 DEF NewNode, NewRouter, NoOps
  <2>2. NetNode(nodes[n]) /\ HeldUnion(nodes[n]) = {}
    BY <1>2, <2>1 DEF NetInv, HeldUnion
  <2>3. Upright(n, nodes[n], covered)
    BY <1>3, <2>1, <2>2 DEF Upright
  <2> QED
    BY <1>1, <2>1, <2>3 DEF TimersFit, TimerFits
<1>5. AirFits(inflight, queue, covered, {})
  <2>1. IsABag(EmptyBag) /\ DOMAIN EmptyBag = {} /\ BagToSet(EmptyBag) = {}
    BY DEF EmptyBag, SetToBag, IsABag, BagToSet
  <2>2. Copies(EmptyBag) = {}
    BY <2>1 DEF Copies
  <2>3. IsFiniteSet(Copies(EmptyBag)) /\ FlightCount(EmptyBag) = 0
    BY <2>2, FS_EmptySet DEF FlightCount
  <2>4. ASSUME NEW f PROVE CopiesOf(EmptyBag, f) = 0 /\ Cardinality(Fated({}, f)) = 0
    <3>1. Fated({}, f) = {}
      BY DEF Fated
    <3> QED
      BY <2>1, <3>1, FS_EmptySet DEF CopiesOf, BagIn
  <2> HIDE DEF EmptyBag
  <2> QED
    BY <1>1, <2>1, <2>3, <2>4, TopologyAssumption DEF AirFits
<1>6. IsFiniteSet(queue) /\ quantum \in Nat \ {0} /\ Ready
  BY <1>1, FS_EmptySet, SimAssumption DEF Ready
<1>7. QueueFits(queue, now)
  BY <1>1, <1>6 DEF QueueFits, Keyed
<1>8. DraftInv(Here, {}, {})
  <2>1. /\ IsDraft(Here) /\ Here.nodes = nodes /\ Here.inflight = inflight /\ Here.queue = queue
        /\ Here.clock = clock /\ Here.covered = covered /\ Here.refused = refused /\ Here.at = now
    BY DEF Here, IsDraft
  <2>2. \A n \in NodeId : clock[n] = 0
    BY <1>1
  <2>3. nodes = [n \in NodeId |-> nodes[n]] /\ clock = [n \in NodeId |-> clock[n]]
    BY <1>1
  <2> QED
    BY <1>1, <1>3, <1>4, <1>5, <1>7, <2>1, <2>2, <2>3 DEF DraftInv
<1> QED
  BY <1>1, <1>6, <1>8 DEF SimInv

LEMMA SimNextInv == SimInv /\ [SimNext]_simVars => SimInv'
<1> SUFFICES ASSUME SimInv, [SimNext]_simVars PROVE SimInv'
  OBVIOUS
<1>1. CASE Begins
  BY <1>1, BeginsInv
<1>2. ASSUME /\ nodes' = nodes /\ inflight' = inflight /\ now' = now /\ clock' = clock
             /\ queue' = queue /\ quantum' = quantum /\ covered' = covered /\ refused' = refused,
             phase' = phase \/ phase' # "new"
      PROVE  SimInv'
  <2>1. Ready'
    BY <1>2 DEF SimInv, Ready
  <2>2. DraftInv(Here, {}, {})'
    <3>1. DraftInv(Here, {}, {})
      BY DEF SimInv
    <3> QED
      BY <1>2, <3>1 DEF DraftInv, Here, QueueFits, Quantize, IsDraft
  <2> QED
    BY <1>2, <2>1, <2>2 DEF SimInv
<1>3. CASE Ends
  BY <1>2, <1>3 DEF Ends, netVars
<1>4. CASE UNCHANGED simVars
  BY <1>2, <1>4 DEF simVars, netVars
<1>5. CASE \E e \in queue : Pops(e) /\ \E t \in {Taken(e)} : Ticks(t, e.ev)
  <2>1. PICK e \in queue : Pops(e) /\ Ticks(Taken(e), e.ev)
    BY <1>5
  <2> DEFINE t == Taken(e)
             ev == e.ev
  <2>2. Took(t, ev)
    BY <2>1, TakenFits DEF Took, Pops
  <2> HIDE DEF t, ev
  <2>3. Ticks(t, ev)
    BY <2>1 DEF t, ev
  <2> QED
    BY <2>2, <2>3, DeliversInv, DefersInv, LosesInv, FiresWantInv, FiresHaveInv, FireWaitsInv,
       AppendsInv, MaintainsInv, NativeSyncsInv, EverySoOftenInv DEF Ticks
<1> QED
  BY <1>1, <1>3, <1>4, <1>5 DEF SimNext

LEMMA SimInvariant == SimSpec => []SimInv
BY SimInitInv, SimNextInv, PTL DEF SimSpec

\* The network refuses nothing that the driver proposes: SimBehavior judges
\* what is enabled and what fits by the state before the tick, and is right
\* on every run.
THEOREM NoProposalIsRefused == SimSpec => []NeverRefused
<1>1. SimInv => NeverRefused
  BY DEF SimInv, DraftInv, Here, NeverRefused
<1> QED
  BY <1>1, SimInvariant, PTL

\* Every message in flight has exactly one fate among the pending events,
\* whatever was lost, deferred, dropped or broadcast twice.
THEOREM EveryFlightHasItsFate == SimSpec => []FatesMatchFlights
<1>1. SimInv => FatesMatchFlights
  <2> SUFFICES ASSUME SimInv, NEW f PROVE CopiesOf(inflight, f) = Cardinality(FatesOf(f))
    BY DEF FatesMatchFlights
  <2>1. AirFits(inflight, queue, covered, {}) /\ IsFiniteSet(queue)
    BY DEF SimInv, DraftInv, Here, Ready
  <2>2. CopiesOf(inflight, f) = Cardinality(Fated(queue, f)) + 0
    BY <2>1 DEF AirFits
  <2>3. FatesOf(f) = Fated(queue, f)
    BY DEF FatesOf, Fated
  <2>4. IsFiniteSet(Fated(queue, f))
    BY <2>1, FS_Subset DEF Fated
  <2>5. Cardinality(Fated(queue, f)) \in Nat
    BY <2>4, FS_CardinalityType
  <2> QED
    BY <2>2, <2>3, <2>5
<1> QED
  BY <1>1, SimInvariant, PTL

\* Every armed timer of every node has exactly one event pending, for no
\* earlier time than the timer's, and no other timer has any.
THEOREM EveryTimerHasItsEvent == SimSpec => []TimersHaveEvents
<1>1. SimInv => TimersHaveEvents
  <2> SUFFICES ASSUME SimInv, NEW n \in NodeId
               PROVE  /\ HasEvent(n, nodes[n].router.wantTimer, FireWantEv(n))
                      /\ HasEvent(n, nodes[n].router.haveTimer, FireHaveEv(n))
    BY DEF TimersHaveEvents
  <2>1. ASSUME NEW ev, NEW timer, timer \in Nat \cup {NoTimer},
               TimerFits(queue, ev, timer, clock[n], {})
        PROVE  HasEvent(n, timer, ev)
    <3> DEFINE pending == {o \in queue : o.ev = ev}
    <3>1. CASE timer = NoTimer
      <4>1. pending = {}
        BY <2>1, <3>1 DEF TimerFits
      <4> QED
        BY <3>1, <4>1, FS_EmptySet DEF HasEvent
    <3>2. CASE timer # NoTimer
      <4>1. PICK e \in queue : pending = {e} /\ clock[n] + timer <= e.at
        BY <2>1, <3>2 DEF TimerFits
      <4>2. Cardinality(pending) = 1
        BY <4>1, FS_Singleton
      <4>3. \A o \in pending : o.at >= clock[n] + timer
        <5>1. e.at \in Nat /\ clock[n] \in Nat /\ timer \in Nat
          BY <2>1, <3>2 DEF SimInv, Ready, Pendings, DraftInv, Here
        <5> QED
          BY <4>1, <5>1
      <4> QED
        BY <3>2, <4>2, <4>3 DEF HasEvent
    <3> QED
      BY <3>1, <3>2
  <2>2. TimersFit(n, nodes[n], clock[n], queue, {}) /\ NetNode(nodes[n])
    BY DEF SimInv, DraftInv, Here, Upright
  <2>3. nodes[n].router.wantTimer \in Nat \cup {NoTimer} /\ nodes[n].router.haveTimer \in Nat \cup {NoTimer}
    BY <2>2 DEF NetNode, NodeState, RouterState
  <2> QED
    BY <2>1, <2>2, <2>3 DEF TimersFit
<1> QED
  BY <1>1, SimInvariant, PTL

\* An op that a subscriber's application has counts as covered there, by
\* whichever way it came.
THEOREM WhatIsHeldIsCovered == SimSpec => []HeldMeansCovered
<1>1. SimInv => HeldMeansCovered
  BY DEF SimInv, DraftInv, Here, Upright, HeldMeansCovered
<1> QED
  BY <1>1, SimInvariant, PTL

=============================================================================
