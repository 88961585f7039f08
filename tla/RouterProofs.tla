---------------------------- MODULE RouterProofs ----------------------------
(***************************************************************************)
(* Lemmas about the operators that the node, its shell and the network are *)
(* built from, for every universe of channels, authors, sequence numbers   *)
(* and node ids and every time to live: what covered_by decides, and what  *)
(* the transitions of the router and the store operations return.          *)
(***************************************************************************)
EXTENDS Node, FiniteSetTheorems, TLAPS

-----------------------------------------------------------------------------
\* Entries and coverage.

\* What an entry asks for is what it is asked about, within its channel and
\* scope, less what it lists (Entry::ask_within).
LEMMA AskMember ==
    ASSUME NEW e, NEW held, NEW x
    PROVE  x \in AskWithin(e, held)
              <=> /\ x \in held
                  /\ ChannelOf(x) = e.ch
                  /\ InScope(e, AuthorOf(x))
                  /\ x \notin e.have
BY DEF AskWithin

\* Soundness of cancellation (Entry::covered_by, step 1 to 3): when the seen
\* entries cover e, every cell e asks for is asked for by one of them on its
\* own, whatever is held.  Cancelling e therefore loses no ask.
THEOREM CoveredAskIsAsked ==
    ASSUME NEW e \in Entry, NEW seen \in SUBSET Entry, CoveredBy(e, seen),
           NEW held \in SUBSET Cell, NEW x \in AskWithin(e, held)
    PROVE  \E r \in seen : x \in AskWithin(r, held)
<1> DEFINE a == AuthorOf(x)
           rs == Records(e, seen)
<1>1. /\ x \in held /\ x \in Cell /\ ChannelOf(x) = e.ch
      /\ InScope(e, a) /\ x \notin e.have
  BY AskMember
<1>2. a \in Author
  BY <1>1 DEF Cell, AuthorOf
<1>3. SUFFICES \E r \in rs : InScope(r, a) /\ x \notin r.have
  <2>1. PICK r \in rs : InScope(r, a) /\ x \notin r.have
    BY <1>3
  <2>2. r \in seen /\ r.ch = e.ch
    BY DEF Records
  <2>3. x \in AskWithin(r, held)
    BY <1>1, <2>1, <2>2, AskMember
  <2> QED
    BY <2>2, <2>3
<1>4. CASE \A r \in rs : InScope(r, a) => x \in r.have
  <2>1. PICK r \in rs : r.lo <= Prefix[a] /\ Prefix[a] <= r.hi
    <3>1. Prefix[a] \in e.lo..e.hi
      BY <1>1, <1>2, PrefixAssumption DEF InScope, Entry, EntryRecord
    <3> QED
      BY <3>1 DEF CoveredBy, ScopesCover
  <2>2. InScope(r, a) /\ x \in r.have
    BY <2>1, <1>4 DEF InScope
  <2>3. a \in Listed(r) /\ InScope(e, a)
    BY <1>1, <2>2 DEF Listed
  <2>4. Common(e, a, rs) \subseteq e.have
    BY <2>3, <2>1 DEF CoveredBy
  <2>5. x \in Common(e, a, rs)
    BY <1>1, <1>4 DEF Common
  <2> QED
    BY <1>1, <2>4, <2>5
<1> QED
  BY <1>4

\* Completeness: an entry that covered_by does not cover has a prefix in its
\* scope that no seen entry reaches, or asks, were everything held, for a
\* cell that no seen entry asks for.  A relay is never superfluous but for
\* scopes without authors.
THEOREM UncoveredAsksMore ==
    ASSUME NEW e \in Entry, NEW seen \in SUBSET Entry, ~CoveredBy(e, seen)
    PROVE  \/ ~ScopesCover(e, Records(e, seen))
           \/ \E x \in AskWithin(e, Cell) : \A r \in seen : x \notin AskWithin(r, Cell)
<1> DEFINE rs == Records(e, seen)
           authors == Listed(e) \cup {a \in UNION {Listed(r) : r \in rs} : InScope(e, a)}
<1> SUFFICES ASSUME ScopesCover(e, rs)
             PROVE  \E x \in AskWithin(e, Cell) : \A r \in seen : x \notin AskWithin(r, Cell)
  OBVIOUS
<1>1. e.lo \in Nat /\ e.hi \in Nat /\ e.lo <= e.hi /\ e \in EntryRecord /\ WellFormed(e)
  BY PrefixAssumption DEF Entry, EntryRecord, WellFormed
<1>2. rs # {}
  BY <1>1 DEF ScopesCover
<1>3. PICK a \in authors : \/ ~\E r \in rs : InScope(r, a)
                           \/ ~(Common(e, a, rs) \subseteq e.have)
  BY <1>2 DEF CoveredBy
<1>4. a \in Author /\ InScope(e, a)
  <2>1. CASE a \in Listed(e)
    BY <2>1, <1>1 DEF Listed, WellFormed, EntryRecord, Cell, AuthorOf
  <2>2. CASE a \in UNION {Listed(r) : r \in rs} /\ InScope(e, a)
    <3>1. PICK r \in rs : a \in Listed(r)
      BY <2>2
    <3>2. r \in EntryRecord
      BY <3>1 DEF Records, Entry
    <3> QED
      BY <2>2, <3>1, <3>2 DEF Listed, EntryRecord, Cell, AuthorOf
  <2> QED
    BY <2>1, <2>2
<1>5. \E r \in rs : InScope(r, a)
  <2>1. Prefix[a] \in e.lo..e.hi
    BY <1>1, <1>4, PrefixAssumption DEF InScope
  <2> QED
    BY <2>1 DEF ScopesCover, InScope
<1>6. PICK x \in Common(e, a, rs) : x \notin e.have
  BY <1>3, <1>5
<1>7. x \in AskWithin(e, Cell)
  BY <1>4, <1>6, AskMember DEF Common
<1>8. ASSUME NEW r \in seen PROVE x \notin AskWithin(r, Cell)
  <2>1. CASE r \in rs
    BY <1>6, <2>1, AskMember DEF Common
  <2>2. CASE r \notin rs
    BY <1>6, <2>2, AskMember DEF Common, Records
  <2> QED
    BY <2>1, <2>2
<1> QED
  BY <1>7, <1>8

-----------------------------------------------------------------------------
\* Types of the router's operators.

SeenType == SUBSET [entry : Entry, ttl : 1..WantTTL]

HavesType == [NodeId -> [ranges : SUBSET Cell, ttl : 0..HaveTTL]]

RouterFx == [want : SUBSET Entry, have : SUBSET Cell, accept : SUBSET Cell]

\* from_held makes whole-scope entries that list only held cells.
LEMMA WholeIsEntry ==
    ASSUME NEW c \in Channel, NEW have \in SUBSET Cell,
           \A x \in have : ChannelOf(x) = c
    PROVE  Whole(c, have) \in Entry
<1>1. Whole(c, have) \in EntryRecord
  BY PrefixAssumption DEF Whole, EntryRecord
<1>2. ASSUME NEW x \in have PROVE InScope(Whole(c, have), AuthorOf(x))
  <2>1. AuthorOf(x) \in Author
    BY DEF Cell, AuthorOf
  <2>2. Prefix[AuthorOf(x)] \in 0..MaxPrefix
    BY <2>1, PrefixAssumption
  <2> QED
    BY <2>2 DEF InScope, Whole
<1> QED
  BY <1>1, <1>2, PrefixAssumption DEF Entry, WellFormed, Whole

\* What a router computes from its state: interests made of entries, and
\* ranges made of cells (RouterState::my_interest to next_have).
LEMMA InterestTypes ==
    ASSUME NEW r \in RouterState
    PROVE  /\ MyInterest(r) \subseteq Entry
           /\ NextWant(r) \subseteq Entry
           /\ SeenEntries(r) \subseteq Entry
           /\ ChannelsOfInterest(r) \subseteq Channel
           /\ NetworkAsk(r) \subseteq r.held
           /\ NextHave(r) \subseteq Cell
<1>1. ChannelsOfInterest(r) \subseteq Channel
  BY DEF ChannelsOfInterest, RouterState, ChannelOf, Cell
<1>2. MyInterest(r) \subseteq Entry
  <2> SUFFICES ASSUME NEW c \in ChannelsOfInterest(r)
               PROVE  Whole(c, {x \in r.held : ChannelOf(x) = c}) \in Entry
    BY DEF MyInterest, FromHeld
  <2> QED
    BY <1>1, WholeIsEntry DEF RouterState
<1>3. NextWant(r) \subseteq Entry
  BY <1>2 DEF NextWant, UncoveredBy
<1>4. SeenEntries(r) \subseteq Entry
  BY DEF SeenEntries, RouterState
<1>5. NetworkAsk(r) \subseteq r.held
  BY DEF NetworkAsk, AskOf, AskWithin
<1> QED
  BY <1>1, <1>2, <1>3, <1>4, <1>5 DEF NextHave, RouterState

\* Noting a Want or a Have keeps the records well formed (note_seen,
\* note_relayed_haves, note_have).
LEMMA NoteTypes ==
    /\ \A seen \in SeenType, i \in SUBSET Entry : NoteSeen(seen, i) \in SeenType
    /\ \A f \in [Cell -> 0..HaveTTL], R \in SUBSET Cell :
          NoteRelayed(f, R) \in [Cell -> 0..HaveTTL]
    /\ \A h \in HavesType, n \in NodeId, R \in SUBSET Cell :
          NoteHave(h, n, R) \in HavesType
<1> USE TTLAssumption
<1>1. ASSUME NEW seen \in SeenType, NEW i \in SUBSET Entry
      PROVE  NoteSeen(seen, i) \in SeenType
  BY DEF NoteSeen, SeenType
<1>2. ASSUME NEW f \in [Cell -> 0..HaveTTL], NEW R \in SUBSET Cell
      PROVE  NoteRelayed(f, R) \in [Cell -> 0..HaveTTL]
  BY DEF NoteRelayed
<1>3. ASSUME NEW h \in HavesType, NEW n \in NodeId, NEW R \in SUBSET Cell
      PROVE  NoteHave(h, n, R) \in HavesType
  BY DEF NoteHave, HavesType
<1> QED
  BY <1>1, <1>2, <1>3

\* A tick that next_due allows keeps the router well formed and changes
\* nothing it holds.
LEMMA TickType ==
    ASSUME NEW r \in RouterState, NEW d \in Nat, TickEnabled(r, d)
    PROVE  Tick(r, d) \in RouterState /\ Tick(r, d).held = r.held
<1> USE TTLAssumption
<1>1. Age(0, d) = 0 /\ \A t \in Nat : Age(t, d) \in 0..t
  BY DEF Age
<1>2. /\ (IF r.wantTimer = NoTimer THEN NoTimer ELSE r.wantTimer - d) \in Nat \cup {NoTimer}
      /\ (IF r.haveTimer = NoTimer THEN NoTimer ELSE r.haveTimer - d) \in Nat \cup {NoTimer}
  BY DEF RouterState, TickEnabled, NoTimer
<1>3. [n \in NodeId |-> IF d < r.haves[n].ttl
                        THEN [ranges |-> r.haves[n].ranges, ttl |-> r.haves[n].ttl - d]
                        ELSE NoRecord] \in HavesType
  BY DEF RouterState, NoRecord, HavesType
<1>4. [x \in Cell |-> Age(r.relayed[x], d)] \in [Cell -> 0..HaveTTL]
  BY DEF RouterState, Age
<1>5. [c \in Channel |-> Age(r.heard[c], d)] \in [Channel -> 0..HeardTTL]
  BY DEF RouterState, Age
<1>6. {[entry |-> w.entry, ttl |-> w.ttl - d] : w \in {v \in r.seen : d < v.ttl}} \in SeenType
  BY DEF RouterState, SeenType
<1> QED
  BY <1>2, <1>3, <1>4, <1>5, <1>6 DEF RouterState, Tick, HavesType, SeenType

\* Arming a timer keeps the router well formed and changes nothing it holds.
LEMMA ArmTypes ==
    ASSUME NEW r \in RouterState, NEW i \in Nat
    PROVE  /\ ArmWant(r, i) \in RouterState /\ ArmWant(r, i).held = r.held
           /\ ArmHave(r, i) \in RouterState /\ ArmHave(r, i).held = r.held
BY DEF ArmWant, ArmHave, RouterState

\* FireWant keeps the router well formed and emits entries alone.
LEMMA FireWantType ==
    ASSUME NEW r \in RouterState
    PROVE  /\ FireWant(r).st \in RouterState /\ FireWant(r).st.held = r.held
           /\ FireWant(r).fx \in RouterFx
<1>1. NextWant(r) \in SUBSET Entry
  BY InterestTypes
<1>2. NoteSeen(r.seen, NextWant(r)) \in SeenType
  BY <1>1, NoteTypes DEF RouterState, SeenType
<1> QED
  BY <1>1, <1>2 DEF FireWant, RouterState, SeenType, NoFx, RouterFx

\* FireHave keeps the router well formed and emits ranges it holds.
LEMMA FireHaveType ==
    ASSUME NEW r \in RouterState, NEW id \in NodeId
    PROVE  /\ FireHave(r, id).st \in RouterState /\ FireHave(r, id).st.held = r.held
           /\ FireHave(r, id).fx \in RouterFx
<1>1. NextHave(r) \in SUBSET Cell
  BY InterestTypes
<1>2. /\ NoteHave(r.haves, id, NextHave(r)) \in HavesType
      /\ NoteRelayed(r.relayed, NextHave(r)) \in [Cell -> 0..HaveTTL]
  BY <1>1, NoteTypes DEF RouterState, HavesType
<1> QED
  BY <1>1, <1>2 DEF FireHave, RouterState, HavesType, NoFx, RouterFx

\* Push keeps the router well formed, holds what it pushes, and emits part
\* of it.
LEMMA PushType ==
    ASSUME NEW r \in RouterState, NEW id \in NodeId, NEW R \in SUBSET Cell
    PROVE  /\ Push(r, id, R).st \in RouterState /\ Push(r, id, R).st.held = r.held \cup R
           /\ Push(r, id, R).fx \in RouterFx /\ Push(r, id, R).fx.accept = {}
<1> DEFINE relay == R \ RelayedRanges(r)
<1>1. relay \in SUBSET Cell
  OBVIOUS
<1>2. /\ NoteHave(r.haves, id, relay) \in HavesType
      /\ NoteRelayed(r.relayed, relay) \in [Cell -> 0..HaveTTL]
  BY <1>1, NoteTypes DEF RouterState, HavesType
<1> QED
  BY <1>1, <1>2 DEF Push, RouterState, HavesType, NoFx, RouterFx

\* A received Want keeps the router well formed; it emits entries alone.
LEMMA RecvWantType ==
    ASSUME NEW r \in RouterState, NEW i \in SUBSET Entry
    PROVE  /\ RecvWant(r, i).st \in RouterState /\ RecvWant(r, i).st.held = r.held
           /\ RecvWant(r, i).fx \in RouterFx
<1> DEFINE heard == {e.ch : e \in {f \in i : ~IsPure(f) /\ ~HoldsUnder(r, f.ch)}}
<1>1. NoteSeen(r.seen, i) \in SeenType
  BY NoteTypes DEF RouterState, SeenType
<1>2. [c \in Channel |-> IF c \in heard THEN HeardTTL ELSE r.heard[c]]
         \in [Channel -> 0..HeardTTL]
  BY TTLAssumption DEF RouterState
<1>3. (IF UncoveredBy(i, SeenEntries(r)) # {} THEN i ELSE {}) \in SUBSET Entry
  OBVIOUS
<1> HIDE DEF heard
<1> QED
  BY <1>1, <1>2, <1>3 DEF RecvWant, RouterState, SeenType, NoFx, RouterFx, heard

\* A received Have keeps the router well formed; what it accepts is held
\* from then on.
LEMMA RecvHaveType ==
    ASSUME NEW r \in RouterState, NEW from \in NodeId, NEW R \in SUBSET Cell
    PROVE  /\ RecvHave(r, from, R).st \in RouterState
           /\ RecvHave(r, from, R).fx \in RouterFx
           /\ RecvHave(r, from, R).fx.accept = R \ r.held
<1> DEFINE relay == R \ RelayedRanges(r)
<1>1. relay \in SUBSET Cell /\ R \ r.held \in SUBSET Cell
  OBVIOUS
<1>2. /\ NoteHave(r.haves, from, R) \in HavesType
      /\ NoteRelayed(r.relayed, relay) \in [Cell -> 0..HaveTTL]
  BY <1>1, NoteTypes DEF RouterState, HavesType
<1> QED
  BY <1>1, <1>2 DEF RecvHave, RouterState, HavesType, NoFx, RouterFx

\* What the transitions do to the seen set: time and the other inputs add
\* nothing to it, a fired Want adds what it says, a received one what it
\* asks (note_seen).
LEMMA SeenAfter ==
    ASSUME NEW r \in RouterState
    PROVE  /\ \A d \in Nat : SeenEntries(Tick(r, d)) \subseteq SeenEntries(r)
           /\ \A i : SeenEntries(ArmWant(r, i)) = SeenEntries(r)
           /\ \A i : SeenEntries(ArmHave(r, i)) = SeenEntries(r)
           /\ SeenEntries(FireWant(r).st) = SeenEntries(r) \cup FireWant(r).fx.want
           /\ \A id : SeenEntries(FireHave(r, id).st) = SeenEntries(r)
           /\ \A id, R : SeenEntries(Push(r, id, R).st) = SeenEntries(r)
           /\ \A R : SeenEntries(Held(r, R)) = SeenEntries(r)
           /\ \A C : SeenEntries(Open(r, C)) = SeenEntries(r)
           /\ \A i : SeenEntries(RecvWant(r, i).st) = SeenEntries(r) \cup i
           /\ \A from, R : SeenEntries(RecvHave(r, from, R).st) = SeenEntries(r)
<1>1. ASSUME NEW d \in Nat PROVE SeenEntries(Tick(r, d)) \subseteq SeenEntries(r)
  BY DEF SeenEntries, Tick, RouterState
<1>2. ASSUME NEW i
      PROVE  {w.entry : w \in NoteSeen(r.seen, i)} = SeenEntries(r) \cup i
  <2>1. ASSUME NEW w \in NoteSeen(r.seen, i) PROVE w.entry \in SeenEntries(r) \cup i
    BY DEF NoteSeen, SeenEntries
  <2>2. ASSUME NEW e \in i PROVE \E w \in NoteSeen(r.seen, i) : w.entry = e
    <3>1. [entry |-> e, ttl |-> WantTTL] \in NoteSeen(r.seen, i)
      BY DEF NoteSeen
    <3> QED
      BY <3>1
  <2>3. ASSUME NEW w \in r.seen PROVE \E v \in NoteSeen(r.seen, i) : v.entry = w.entry
    <3>1. CASE w.entry \in i
      BY <2>2, <3>1
    <3>2. CASE w.entry \notin i
      BY <3>2 DEF NoteSeen
    <3> QED
      BY <3>1, <3>2
  <2> QED
    BY <2>1, <2>2, <2>3 DEF SeenEntries
<1>3. SeenEntries(FireWant(r).st) = SeenEntries(r) \cup FireWant(r).fx.want
  <2>1. FireWant(r).st.seen = NoteSeen(r.seen, NextWant(r)) /\ FireWant(r).fx.want = NextWant(r)
    BY DEF FireWant, RouterState, NoFx
  <2> QED
    BY <1>2, <2>1 DEF SeenEntries
<1>4. ASSUME NEW i PROVE SeenEntries(RecvWant(r, i).st) = SeenEntries(r) \cup i
  <2>1. RecvWant(r, i).st.seen = NoteSeen(r.seen, i)
    BY DEF RecvWant, RouterState
  <2> QED
    BY <1>2, <2>1 DEF SeenEntries
<1>5. /\ \A i : SeenEntries(ArmWant(r, i)) = SeenEntries(r)
      /\ \A i : SeenEntries(ArmHave(r, i)) = SeenEntries(r)
      /\ \A R : SeenEntries(Held(r, R)) = SeenEntries(r)
      /\ \A C : SeenEntries(Open(r, C)) = SeenEntries(r)
  BY DEF SeenEntries, ArmWant, ArmHave, Held, Open, RouterState
<1>6. /\ \A id : FireHave(r, id).st.seen = r.seen
      /\ \A id, R : Push(r, id, R).st.seen = r.seen
      /\ \A from, R : RecvHave(r, from, R).st.seen = r.seen
  BY DEF FireHave, Push, RecvHave, RouterState
<1> QED
  BY <1>1, <1>3, <1>4, <1>5, <1>6 DEF SeenEntries

-----------------------------------------------------------------------------
\* Stores and reconciliation.

\* Every store operation yields a store; what it holds afterwards.
LEMMA OpsTypes ==
    /\ NoOps \in Ops
    /\ \A o \in Ops : o.cells \subseteq Cell /\ o.pay \subseteq o.cells
    /\ \A s, o \in Ops : Ingest(s, o) \in Ops
    /\ \A s \in Ops : \A R : Fetch(s, R) \in Ops /\ Evict(s, R) \in Ops
    /\ \A s \in Ops : \A R : EvictPayloads(s, R) \in Ops
                             /\ EvictPayloads(s, R).cells = s.cells
BY DEF Ops, NoOps, Ingest, Fetch, Evict, EvictPayloads

\* reconcile_held makes the router hold what the stores hold, and changes
\* nothing else.
LEMMA ReconcileFacts ==
    ASSUME NEW s \in NodeState
    PROVE  /\ ReconcileHeld(s) \in NodeState
           /\ ReconcileHeld(s).router.held = HeldUnion(s)
           /\ HeldUnion(ReconcileHeld(s)) = HeldUnion(s)
           /\ ReconcileHeld(s).relay = s.relay /\ ReconcileHeld(s).ext = s.ext
           /\ ReconcileHeld(s).subs = s.subs
<1>1. HeldUnion(s) \subseteq Cell
  BY OpsTypes DEF HeldUnion, NodeState
<1>2. Held(s.router, HeldUnion(s)) \in RouterState
  BY <1>1 DEF NodeState, RouterState, Held
<1>3. Held(s.router, HeldUnion(s)).held = HeldUnion(s)
  BY DEF NodeState, RouterState, Held
<1> QED
  BY <1>2, <1>3 DEF ReconcileHeld, NodeState, HeldUnion

\* A relay that can be counted and stays within its cap.
SmallStore(o) == IsFiniteSet(o.cells) /\ Usage(o) <= Cap

\* A part of a finite store is finite, and no more of it is used.
LEMMA UsageOfPart ==
    ASSUME NEW o \in Ops, NEW p \in Ops, IsFiniteSet(o.cells),
           p.cells \subseteq o.cells, p.pay \subseteq o.pay
    PROVE  /\ IsFiniteSet(p.cells)
           /\ Usage(p) \in Nat /\ Usage(o) \in Nat /\ Usage(p) <= Usage(o)
<1>1. IsFiniteSet(p.cells) /\ IsFiniteSet(p.pay) /\ IsFiniteSet(o.pay)
  BY FS_Subset, OpsTypes
<1>2. Cardinality(p.cells) <= Cardinality(o.cells) /\ Cardinality(p.pay) <= Cardinality(o.pay)
  BY <1>1, FS_Subset
<1>3. /\ Cardinality(p.cells) \in Nat /\ Cardinality(p.pay) \in Nat
      /\ Cardinality(o.cells) \in Nat /\ Cardinality(o.pay) \in Nat
  BY <1>1, FS_CardinalityType
<1> QED
  BY <1>1, <1>2, <1>3 DEF Usage

\* A part of a store within the cap is within the cap.
LEMMA SmallerStore ==
    ASSUME NEW o \in Ops, NEW p \in Ops, SmallStore(o),
           p.cells \subseteq o.cells, p.pay \subseteq o.pay
    PROVE  SmallStore(p)
BY UsageOfPart, CapAssumption DEF SmallStore

=============================================================================
