-------------------------------- MODULE Node --------------------------------
(***************************************************************************)
(* One node (dash-router-core/src/node.rs): the glue that composes the     *)
(* router with the relay store (capped, ops of channels the node does not  *)
(* subscribe to) and the ext store (the application's own data).  Each     *)
(* operator is one NodeAction: it maps a node state to the next one and to *)
(* the effects [send, deliver], the messages to broadcast (at most one in  *)
(* a transition) and the cells announced to the application.               *)
(***************************************************************************)
EXTENDS Router

NodeState ==
    [router : RouterState, relay : Ops, ext : Ops, subs : SUBSET Channel]

WantMessage(sender, interest) ==
    [kind |-> "want", sender |-> sender, interest |-> interest, ops |-> NoOps]

HaveMessage(sender, ops) ==
    [kind |-> "have", sender |-> sender, interest |-> {}, ops |-> ops]

WireMessage ==
    [kind : {"want", "have"}, sender : NodeId, interest : SUBSET Entry, ops : Ops]

\* NodeState::new: empty stores, the subscriptions open on the router.
NewNode(subs) ==
    [router |-> NewRouter({}, subs), relay |-> NoOps, ext |-> NoOps, subs |-> subs]

HeldUnion(s) == s.relay.cells \cup s.ext.cells

IsSubscribed(s, x) == ChannelOf(x) \in s.subs

EvictionCandidates(s) == s.relay.pay \ NetworkAsk(s.router)

-----------------------------------------------------------------------------
\* The glue shared by the transitions.

\* reconcile_held: the router's held becomes the snapshot of the two stores.
ReconcileHeld(s) == [s EXCEPT !.router = Held(@, HeldUnion(s))]

\* Mistake: the relay's copy shadows the application's.
HydrateRelayFirst(s, ranges) ==
    Fetch(Ingest(s.relay, Evict(s.ext, s.relay.cells)), ranges)

\* Hydration of a SendHave: from both stores, the payload-bearing copy wins.
Hydrate(s, ranges) == Fetch(Ingest(s.relay, s.ext), ranges)

\* Mistake: whatever is accepted is announced, subscribed to or not.
RouteFxAnnouncingAll(s, id, fx, parked) ==
    LET ops == Hydrate(s, fx.have)
    IN  [send |-> {WantMessage(id, i) : i \in {fx.want} \ {{}}}
                     \cup {HaveMessage(id, o) : o \in {ops} \ {NoOps}},
         deliver |-> fx.accept \cap parked.cells]

\* route_router_fx.
RouteFx(s, id, fx, parked) ==
    LET ops == Hydrate(s, fx.have)
    IN  [send |-> {WantMessage(id, i) : i \in {fx.want} \ {{}}}
                     \cup {HaveMessage(id, o) : o \in {ops} \ {NoOps}},
         deliver |-> {x \in fx.accept \cap parked.cells : IsSubscribed(s, x)}]

Outcome(s, id, fx) == [st |-> s, fx |-> RouteFx(s, id, fx, NoOps)]

Quiet(s) == [st |-> s, fx |-> [send |-> {}, deliver |-> {}]]

\* The order in which ingest_parked visits the parked ops.
Precedes(x, y) ==
    \/ x[1] < y[1]
    \/ x[1] = y[1] /\ x[2] < y[2]
    \/ x[1] = y[1] /\ x[2] = y[2] /\ x[3] < y[3]

\* ingest_parked keeps an unsubscribed op iff it fits beside the ones kept
\* before it, and sheds it otherwise.  The kept set is the only solution of
\* this equation.
KeptSets(s, parked) ==
    LET foreign == {x \in parked.cells : ~IsSubscribed(s, x)}
    IN  {kept \in SUBSET foreign :
            \A x \in foreign :
               x \in kept <=>
                  Fits(s.relay, Fetch(parked, {y \in kept : Precedes(y, x)} \cup {x}))}

IngestParked(s, parked, kept) ==
    [s EXCEPT !.ext = Ingest(@, Fetch(parked, {x \in parked.cells : IsSubscribed(s, x)})),
              !.relay = Ingest(@, Fetch(parked, kept))]

-----------------------------------------------------------------------------
\* NodeAction::Router.

NodeTick(s, d) == Quiet([s EXCEPT !.router = Tick(@, d)])

NodeArmWant(s, interval) == Quiet([s EXCEPT !.router = ArmWant(@, interval)])

NodeArmHave(s, interval) == Quiet([s EXCEPT !.router = ArmHave(@, interval)])

NodeFireWant(s, id) ==
    LET res == FireWant(s.router)
    IN  Outcome([s EXCEPT !.router = res.st], id, res.fx)

NodeFireHave(s, id) ==
    LET res == FireHave(s.router, id)
    IN  Outcome([s EXCEPT !.router = res.st], id, res.fx)

\* NodeAction::Recv.  A node never receives its own message.

NodeRecvWant(s, id, msg) ==
    LET res == RecvWant(s.router, msg.interest)
    IN  Outcome([s EXCEPT !.router = res.st], id, res.fx)

NodeRecvHave(s, id, msg, kept) ==
    LET res == RecvHave(s.router, msg.sender, msg.ops.cells)
        stored == IngestParked([s EXCEPT !.router = res.st], msg.ops, kept)
        after == ReconcileHeld(stored)
    IN  [st |-> after, fx |-> RouteFx(after, id, res.fx, msg.ops)]

\* NodeAction::Authored of one op.
Authored(s, id, x, hasPayload) ==
    LET op == [cells |-> {x}, pay |-> IF hasPayload THEN {x} ELSE {}]
        stored == ReconcileHeld([s EXCEPT !.ext = Ingest(@, op)])
        res == Push(stored.router, id, {x})
    IN  Outcome([stored EXCEPT !.router = res.st], id, res.fx)

\* Mistake: the migrated logs are left in the relay too.
SubscribeByCopy(s, c) ==
    LET under == {x \in s.relay.cells : ChannelOf(x) = c}
        subs == s.subs \cup {c}
    IN  Quiet(ReconcileHeld(
            [s EXCEPT !.subs = subs,
                      !.ext = Ingest(@, Fetch(s.relay, under)),
                      !.router = Open(@, subs)]))

\* NodeAction::Subscribe: relay logs under the channel migrate to ext.
Subscribe(s, c) ==
    LET under == {x \in s.relay.cells : ChannelOf(x) = c}
        subs == s.subs \cup {c}
    IN  Quiet(ReconcileHeld(
            [s EXCEPT !.subs = subs,
                      !.ext = Ingest(@, Fetch(s.relay, under)),
                      !.relay = Evict(@, under),
                      !.router = Open(@, subs)]))

Unsubscribe(s, c) ==
    Quiet(ReconcileHeld([s EXCEPT !.subs = @ \ {c}, !.router = Open(@, s.subs \ {c})]))

\* The application's own changes to ext, and the relay's evictions.

NativeSync(s, o) == Quiet(ReconcileHeld([s EXCEPT !.ext = Ingest(@, o)]))

\* Mistake: the router is not told.
AppGcUntold(s, R) == Quiet([s EXCEPT !.ext = Evict(@, R)])

AppGc(s, R) == Quiet(ReconcileHeld([s EXCEPT !.ext = Evict(@, R)]))

RelayEvict(s, R) == Quiet(ReconcileHeld([s EXCEPT !.relay = Evict(@, R)]))

RelayEvictPayloads(s, R) ==
    Quiet(ReconcileHeld([s EXCEPT !.relay = EvictPayloads(@, R)]))

=============================================================================
