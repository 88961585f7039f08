------------------------------- MODULE Swarm --------------------------------
(***************************************************************************)
(* The network of Net with its nodes driven the way the shell drives them  *)
(* (dash-router/src/shell.rs NodeCore: init, advance_to, on_wire): a node  *)
(* does all that is due before it handles a message or lets time pass, and *)
(* arms its timers as it goes.  Clocks run at one speed, and a message     *)
(* takes less than one unit of time.  The shell's push debounce has a      *)
(* window of 0: an append is pushed at once (PushDebouncePolicy::window),  *)
(* and no push deadline is ever pending.  Module Shell has the debounce.   *)
(***************************************************************************)
EXTENDS Net

CONSTANTS
    WantIntervals,  \* what IntervalSource::next_want and next_have return
    HaveIntervals,
    EvictFrom       \* ShellConfig: evict_at * relay_cap, at least 1

ASSUME IntervalsAssumption ==
    /\ EvictFrom \in Nat \ {0}
    /\ WantIntervals \subseteq Nat \ {0} /\ WantIntervals # {}
    /\ HaveIntervals \subseteq Nat \ {0} /\ HaveIntervals # {}

\* A deadline has come: of the two timers, for the push has none.
Due(n) == WantDue(nodes[n].router) \/ HaveDue(nodes[n].router)

\* Mistake: the timer is armed once only.
RearmedOnce(res, i) == res

\* The outcome with the Want timer armed.
Rearmed(res, i) == [res EXCEPT !.st = NodeArmWant(@, i).st]

\* The outcome with the Have timer armed if that is possible: some seen Want
\* asks for what the node holds, and the timer is not armed already.
Answering(res, i) ==
    IF ArmHaveEnabled(res.st.router) THEN [res EXCEPT !.st = NodeArmHave(@, i).st] ELSE res

\* init: every node starts with its Want timer armed.
SwarmInit ==
    /\ \E start \in [NodeId -> WantIntervals] :
          nodes = [n \in NodeId |-> NodeArmWant(NewNode(Subs[n]), start[n]).st]
    /\ inflight = EmptyBag
    /\ \E b \in Budgets : spent = [limit |-> b, used |-> Untouched]
    /\ said = [n \in NodeId |-> {}]

\* A broadcast that finds the network full is lost: a receiver that lags
\* behind the hub skips messages (LoopbackTransport::recv, RecvError::Lagged).
Broadcasts(n, res, remaining) ==
    LET full == FlightCount(remaining (+) Flights(n, res.fx.send)) > K
    IN  Apply(n, IF full THEN [res EXCEPT !.fx.send = {}] ELSE res, remaining)

\* advance_to: the Want first, then the Have.

WantFires(n) == \E i \in WantIntervals :
    /\ WantDue(nodes[n].router)
    /\ Broadcasts(n, Rearmed(NodeFireWant(nodes[n], n), i), inflight)
    /\ UNCHANGED spent

HaveFires(n) == \E i \in HaveIntervals :
    /\ ~WantDue(nodes[n].router)
    /\ HaveDue(nodes[n].router)
    /\ Broadcasts(n, Answering(NodeFireHave(nodes[n], n), i), inflight)
    /\ UNCHANGED spent

\* on_maintain: a relay that is full enough drops the payloads nobody asks
\* for, or when there are none the ops nobody asks for.
Maintained(s) ==
    LET candidates == EvictionCandidates(s)
    IN  IF Usage(s.relay) < EvictFrom THEN s
        ELSE IF candidates # {} THEN RelayEvictPayloads(s, candidates).st
        ELSE RelayEvict(s, s.relay.cells \ NetworkAsk(s.router)).st

\* Time passes, and every node does its maintenance once in each unit of it.
Elapse ==
    /\ inflight = EmptyBag
    /\ \A n \in NodeId : ~Due(n)
    /\ nodes' = [n \in NodeId |-> NodeTick(Maintained(nodes[n]), 1).st]
    /\ UNCHANGED <<inflight, spent, said>>

\* on_wire: after a Want, the Have timer is armed.
Arrives == \E f \in BagToSet(inflight), i \in HaveIntervals : \E res \in Receipts(f) :
    /\ ~Due(f.to)
    /\ Broadcasts(f.to,
                  IF f.message.kind = "want" THEN Answering(res, i) ELSE res,
                  inflight (-) SetToBag({f}))
    /\ UNCHANGED spent

\* The application.

\* on_append, and the push that is due at once with it.
Authors(n) == ~Due(n) /\ NodeAuthors(n)

Leaves(n) == \E c \in nodes[n].subs :
    /\ ~Due(n)
    /\ Apply(n, Unsubscribe(nodes[n], c), inflight)
    /\ Spend("changes")

Deletes(n) ==
    /\ ~Due(n)
    /\ nodes[n].ext.cells # {}
    /\ Apply(n, AppGc(nodes[n], nodes[n].ext.cells), inflight)
    /\ Spend("changes")

Runs == (\E n \in NodeId : WantFires(n) \/ HaveFires(n)) \/ Elapse \/ Arrives

SwarmNext == Runs \/ Drop \/ (\E n \in NodeId : Authors(n) \/ Leaves(n) \/ Deletes(n))

\* No step of Runs would change anything.
Idle ==
    /\ inflight = EmptyBag
    /\ \A n \in NodeId : ~Due(n) /\ NodeTick(Maintained(nodes[n]), 1).st = nodes[n]

\* The nodes keep running and messages that are not lost arrive.  This is
\* WF_netVars(Runs): some step of Runs is possible unless Idle, and a step
\* that spends nothing is one of Runs.  TLC evaluates it ten times faster so.
\* Nothing makes the application act.
Fairness == []<>Idle \/ []<><<UNCHANGED spent>>_netVars

SwarmSpec == SwarmInit /\ [][SwarmNext]_netVars /\ Fairness

-----------------------------------------------------------------------------
\* Properties.

\* An op that any node holds comes to be held by every node, over a network
\* that loses messages, as long as it does not lose them for ever.
Converges ==
    \A x \in Authorable : (\E n \in NodeId : x \in HeldUnion(nodes[n])) ~> Everywhere(x)

\* router.rs RecvWant: a want with no data behind it cannot chain and live
\* for ever.  Once nobody holds or subscribes to a channel, every node stops
\* asking for it and the network falls silent.  (With nothing waiting to be
\* pushed, router.held is what the stores hold.)
Forgotten(c) ==
    \A n \in NodeId : c \notin nodes[n].subs /\ ~HoldsUnder(nodes[n].router, c)

Silent(c) ==
    /\ \A n \in NodeId : c \notin ChannelsOfInterest(nodes[n].router)
    /\ inflight = EmptyBag

WantsDieOut == \A c \in Channel : <>[]Forgotten(c) => <>[]Silent(c)

\* Every flood ends: though every node of a cycle passes on what it hears,
\* Wants and Haves alike, and the copies it relayed may be evicted, asked for
\* and sent again, the network falls silent time and again.
FloodsEnd == []<>(inflight = EmptyBag)

=============================================================================
