---------------------------- MODULE HandleProofs ----------------------------
(***************************************************************************)
(* Replies are truthful, and events arrive once and in order, for any      *)
(* number of callers, any capacity of the queues and whatever the core has *)
(* to say.                                                                 *)
(***************************************************************************)
EXTENDS Handle, SequenceTheorems, FiniteSetTheorems, TLAPS

Calls == [at : {"idle", "sending", "waiting", "answered", "closed"},
          request : Request,
          result : {"none", "ok", "refused", "gone", "dropped"}]

\* Types of what the callers see.
CallsOK ==
    /\ call \in [Caller -> Calls]
    /\ queue \in Seq(Caller)
    /\ ran \in [Caller -> Nat]

\* A caller that has no command under way yet was told nothing, and nothing
\* was done for it.
Untold(c) == ran[c] = 0 /\ call[c].result = "none"

\* A caller is in the queue at most once, with a command that was not carried
\* out; until its reply comes, a caller that waits has had nothing done for it.
QueueHonest ==
    /\ \A j, k \in DOMAIN queue : queue[j] = queue[k] => j = k
    /\ \A k \in DOMAIN queue : Untold(queue[k]) /\ call[queue[k]].at \in {"waiting", "closed"}
    /\ \A c \in Caller : call[c].at \in {"idle", "sending"} => Untold(c)
    /\ \A c \in Caller : call[c].at = "waiting" /\ call[c].result = "none" => ran[c] = 0

HandleInv == CallsOK /\ QueueHonest /\ RepliesTruthful

\* The invariant holds initially.
LEMMA HandleInitInv == Init => HandleInv
  BY DEF Init, HandleInv, CallsOK, Calls, Request, QueueHonest, Untold, RepliesTruthful

\* A step that changes neither calls nor queue nor what ran changes nothing.
LEMMA CallsAlone == ASSUME HandleInv, UNCHANGED callVars PROVE HandleInv'
  BY DEF HandleInv, CallsOK, QueueHonest, Untold, RepliesTruthful, callVars

\* What a caller does on its own preserves the invariant.
LEMMA CallerInv ==
  ASSUME HandleInv, NEW c \in Caller, Requests(c) \/ CallStep(c) \/ GoesAway(c)
  PROVE  HandleInv'
<1> USE DEF HandleInv, CallsOK, Calls, QueueHonest, Untold, RepliesTruthful
<1>1. CASE Requests(c)
  <2>1. /\ call[c].at = "idle" /\ queue' = queue /\ ran' = ran
        /\ call' \in [Caller -> Calls]
        /\ call'[c].at = "sending" /\ call'[c].result = call[c].result
        /\ \A d \in Caller : d # c => call'[d] = call[d]
    <3>1. PICK r \in Request :
            /\ call[c].at = "idle" /\ UNCHANGED <<queue, ran>>
            /\ call' = [call EXCEPT ![c].at = "sending", ![c].request = r]
      BY <1>1 DEF Requests
    <3>2. \A d \in Caller : d # c => call'[d] = call[d]
      BY <3>1
    <3>3. call'[c] = [call[c] EXCEPT !.at = "sending", !.request = r]
      BY <3>1
    <3>4. call[c] \in Calls /\ DOMAIN call = Caller
      OBVIOUS
    <3>5. call'[c] \in Calls /\ call'[c].at = "sending" /\ call'[c].result = call[c].result
      BY <3>3, <3>4
    <3>6. call' \in [Caller -> Calls]
      <4>1. call' = [d \in Caller |-> call'[d]]
        BY <3>1, <3>4
      <4>2. \A d \in Caller : call'[d] \in Calls
        BY <3>2, <3>5
      <4> QED
        BY <4>1, <4>2
    <3> QED
      BY <3>1, <3>2, <3>5, <3>6
  <2>2. \A k \in DOMAIN queue : queue[k] \in Caller /\ queue[k] # c
    BY <2>1
  <2>3. /\ \A k \in DOMAIN queue' : queue'[k] \in Caller /\ queue'[k] # c
        /\ \A j, k \in DOMAIN queue' : queue'[j] = queue'[k] => j = k
    BY <2>1, <2>2
  <2>4. \A k \in DOMAIN queue' : /\ ran'[queue'[k]] = 0
                              /\ call'[queue'[k]].result = "none"
                              /\ call'[queue'[k]].at \in {"waiting", "closed"}
    BY <2>1, <2>2
  <2>5. \A d \in Caller : call'[d].at \in {"idle", "sending"} => Untold(d)'
    BY <2>1
  <2>6. \A d \in Caller : call'[d].at = "waiting" /\ call'[d].result = "none" => ran'[d] = 0
    BY <2>1
  <2>7. RepliesTruthful'
    BY <2>1
  <2> QED
    BY <2>1, <2>3, <2>4, <2>5, <2>6, <2>7
<1>2. CASE Enqueues(c)
  <2>1. /\ queue' \in Seq(Caller) /\ Len(queue') = Len(queue) + 1
        /\ \A k \in DOMAIN queue : queue'[k] = queue[k]
        /\ queue'[Len(queue) + 1] = c
    BY <1>2, AppendProperties DEF Enqueues
  <2>2. \A k \in DOMAIN queue' : k \in DOMAIN queue \/ k = Len(queue) + 1
    BY <2>1
  <2>3. \A k \in DOMAIN queue : queue[k] # c /\ queue[k] \in Caller
    BY <1>2 DEF Enqueues
  <2>4. CallsOK'
    BY <1>2, <2>1 DEF Enqueues
  <2>5. \A d \in Caller : d # c => call'[d] = call[d]
    BY <1>2 DEF Enqueues
  <2>6. ran' = ran /\ Untold(c) /\ Untold(c)' /\ call'[c].at \in {"waiting", "closed"}
    BY <1>2 DEF Enqueues
  <2>7. \A j, k \in DOMAIN queue' : queue'[j] = queue'[k] => j = k
    BY <2>1, <2>2, <2>3
  <2>8. \A k \in DOMAIN queue' : /\ ran'[queue'[k]] = 0
                              /\ call'[queue'[k]].result = "none"
                              /\ call'[queue'[k]].at \in {"waiting", "closed"}
    BY <2>1, <2>2, <2>3, <2>5, <2>6
  <2> QED
    BY <2>4, <2>5, <2>6, <2>7, <2>8
<1>3. CASE SendFails(c)
  BY <1>3 DEF SendFails
<1>4. CASE Returns(c)
  BY <1>4 DEF Returns
<1>5. CASE GoesAway(c)
  BY <1>5 DEF GoesAway
<1> QED
  BY <1>1, <1>2, <1>3, <1>4, <1>5 DEF CallStep

\* The end of the task preserves the invariant, wherever it comes.
LEMMA StopsInv == ASSUME HandleInv, Stops PROVE HandleInv'
<1> USE DEF HandleInv, CallsOK, Calls, QueueHonest, Untold, RepliesTruthful
<1>1. queue' = <<>> /\ ran' = ran
  BY DEF Stops
<1>2. \A c \in Caller :
        call'[c] = IF call[c].at = "waiting" /\ call[c].result = "none"
                   THEN [call[c] EXCEPT !.result = "dropped"] ELSE call[c]
  BY DEF Stops
<1>3. call' \in [Caller -> Calls]
  BY DEF Stops
<1> QED
  BY <1>1, <1>2, <1>3

\* What is common to the commands that leave the task running: the command at
\* the head leaves the queue, its caller hears of it, and others hear nothing.
LEMMA TakenInv ==
  ASSUME HandleInv, queue # <<>>, queue' = Tail(queue),
         NEW result \in {"ok", "refused"}, call' = Replied(result),
         ran' = IF result = "ok" THEN Done ELSE ran
  PROVE  HandleInv'
<1> USE DEF HandleInv, CallsOK, Calls, QueueHonest, Untold, RepliesTruthful
<1> DEFINE c == Head(queue)
<1>1. /\ c \in Caller /\ c = queue[1] /\ 1 \in DOMAIN queue
      /\ queue' \in Seq(Caller) /\ Len(queue') = Len(queue) - 1
      /\ \A k \in DOMAIN queue' : queue'[k] = queue[k + 1] /\ k + 1 \in DOMAIN queue
  BY HeadTailProperties
<1>2. ran[c] = 0 /\ call[c].result = "none" /\ call[c].at \in {"waiting", "closed"}
  BY <1>1
<1>3. \A d \in Caller : d # c => call'[d] = call[d] /\ ran'[d] = ran[d]
  BY <1>1 DEF Replied, Done
<1>4. /\ call'[c].at = call[c].at
      /\ call'[c].result = IF call[c].at = "waiting" THEN result ELSE "none"
      /\ ran'[c] = IF result = "ok" THEN 1 ELSE 0
  BY <1>1, <1>2 DEF Replied, Done
<1>5. CallsOK'
  <2>1. call' \in [Caller -> Calls]
    BY <1>1 DEF Replied
  <2>2. ran' \in [Caller -> Nat]
    BY <1>1 DEF Done
  <2> QED
    BY <1>1, <2>1, <2>2
<1>6. \A k \in DOMAIN queue' : queue'[k] # c /\ queue'[k] \in Caller
  BY <1>1
<1>7. \A j, k \in DOMAIN queue' : queue'[j] = queue'[k] => j = k
  BY <1>1
<1>8. \A k \in DOMAIN queue' : /\ ran'[queue'[k]] = 0
                              /\ call'[queue'[k]].result = "none"
                              /\ call'[queue'[k]].at \in {"waiting", "closed"}
  BY <1>1, <1>3, <1>6
<1>9. \A d \in Caller : call'[d].at \in {"idle", "sending"} => Untold(d)'
  BY <1>2, <1>3, <1>4
<1>10. \A d \in Caller : call'[d].at = "waiting" /\ call'[d].result = "none" => ran'[d] = 0
  BY <1>2, <1>3, <1>4
<1>11. RepliesTruthful'
  BY <1>2, <1>3, <1>4
<1> QED
  BY <1>5, <1>7, <1>8, <1>9, <1>10, <1>11

\* Whatever command the task takes, the invariant is preserved.
LEMMA CommandInv == ASSUME HandleInv, TakesCommand PROVE HandleInv'
<1>1. CASE CarriesOut
  BY <1>1, TakenInv DEF CarriesOut, Takes
<1>2. CASE Refuses
  BY <1>2, TakenInv DEF Refuses, Takes
<1>3. CASE Reads
  BY <1>3, TakenInv DEF Reads, Takes
<1>4. CASE ChangeFails \/ ShutsDown
  BY <1>4, StopsInv DEF ChangeFails, ShutsDown
<1> QED
  BY <1>1, <1>2, <1>3, <1>4 DEF TakesCommand

\* Every step preserves the invariant.
LEMMA HandleNextInv == HandleInv /\ [Next]_handleVars => HandleInv'
<1> SUFFICES ASSUME HandleInv, [Next]_handleVars PROVE HandleInv'
  OBVIOUS
<1>1. CASE TakesCommand
  BY <1>1, CommandInv
<1>2. CASE Starts
  BY <1>2, CallsAlone, StopsInv DEF Starts
<1>3. CASE HandlesGone \/ TransportGone \/ WakeFails
  BY <1>3, StopsInv DEF HandlesGone, TransportGone, WakeFails
<1>4. CASE Wakes
  BY <1>4, CallsAlone DEF Wakes
<1>5. CASE HandsOn
  BY <1>5, CallsAlone, StopsInv
     DEF HandsOn, Broadcasts, BroadcastFails, Issues, IssuesToNobody, Routed
<1>6. CASE \E c \in Caller : Requests(c) \/ CallStep(c) \/ GoesAway(c)
  BY <1>6, CallerInv
<1>7. CASE Drains \/ DropsStream
  BY <1>7, CallsAlone DEF Drains, DropsStream
<1>8. CASE UNCHANGED handleVars
  BY <1>8, CallsAlone DEF handleVars
<1> QED
  BY <1>1, <1>2, <1>3, <1>4, <1>5, <1>6, <1>7, <1>8 DEF Next, TaskStep

\* What a caller is told is what happened, for any number of callers: the
\* task's commands, its ends and the callers' leaving come in any order.
THEOREM HandleTruthful == Spec => []RepliesTruthful
<1>1. HandleInv => RepliesTruthful
  BY DEF HandleInv
<1> QED
  BY HandleInitInv, HandleNextInv, <1>1, PTL DEF Spec

-----------------------------------------------------------------------------
\* Events.

Output == {"broadcast", "event"}

\* Where in a list the events are.
EventsAt(list) == {k \in DOMAIN list : list[k] = "event"}

\* The numbers of the events that were issued and not lost, in order: those
\* that the embedder has taken, then those that wait in its stream.
Numbered ==
    /\ \A k \in 1..Len(received) : received[k] = k
    /\ \A k \in 1..Len(events) : events[k] = Len(received) + k

\* The task has handed on all that it issued but what it holds.
EventInv ==
    /\ outs \in Seq(Output) /\ said \in Nat
    /\ events \in Seq(Nat) /\ received \in Seq(Nat)
    /\ EventsIn(outs) <= said
    /\ stream # "dropped" =>
          /\ Numbered
          /\ task # "ended" => Len(received) + Len(events) = said - EventsIn(outs)

\* A list has finitely many events.
LEMMA EventsFinite ==
    ASSUME NEW list \in Seq(Output)
    PROVE  IsFiniteSet(EventsAt(list)) /\ EventsIn(list) = Cardinality(EventsAt(list))
           /\ EventsIn(list) \in Nat
<1>1. EventsAt(list) \in SUBSET (1..Len(list)) /\ Len(list) \in Nat
  BY DEF EventsAt
<1>2. IsFiniteSet(1..Len(list))
  BY <1>1, FS_Interval
<1>3. IsFiniteSet(EventsAt(list))
  BY <1>1, <1>2, FS_Subset
<1> QED
  BY <1>3, FS_CardinalityType DEF EventsIn, EventsAt

\* No list, no events.
LEMMA NoEvents == EventsIn(<<>>) = 0
<1>1. EventsAt(<<>>) = {}
  BY DEF EventsAt
<1> QED
  BY <1>1, FS_EmptySet DEF EventsIn, EventsAt

\* Handing on the head of a list takes one event from it if that is one.
LEMMA EventsInTail ==
    ASSUME NEW list \in Seq(Output), list # <<>>
    PROVE  /\ Tail(list) \in Seq(Output) /\ Head(list) = list[1]
           /\ EventsIn(list) = EventsIn(Tail(list)) + IF Head(list) = "event" THEN 1 ELSE 0
<1> DEFINE rest == Tail(list)
           later == EventsAt(list) \ {1}
           shift == [k \in EventsAt(rest) |-> k + 1]
<1>1. /\ rest \in Seq(Output) /\ Len(rest) = Len(list) - 1
      /\ \A k \in 1..Len(rest) : rest[k] = list[k + 1]
      /\ Len(list) \in Nat \ {0} /\ Head(list) = list[1]
  BY HeadTailProperties
<1>2. IsFiniteSet(EventsAt(list)) /\ IsFiniteSet(EventsAt(rest)) /\ EventsIn(rest) \in Nat
  BY <1>1, EventsFinite
<1>3. ExistsBijection(EventsAt(rest), later)
  <2>1. \A k \in EventsAt(rest) : k \in 1..Len(rest) /\ k + 1 \in later
    BY <1>1 DEF EventsAt
  <2>2. \A j \in later : j - 1 \in EventsAt(rest) /\ j = (j - 1) + 1
    BY <1>1 DEF EventsAt
  <2>3. shift \in [EventsAt(rest) -> later]
    BY <2>1
  <2>4. \A k, j \in EventsAt(rest) : shift[k] = shift[j] => k = j
    BY <2>1
  <2>5. \A j \in later : \E k \in EventsAt(rest) : shift[k] = j
    <3> SUFFICES ASSUME NEW j \in later PROVE \E k \in EventsAt(rest) : shift[k] = j
      OBVIOUS
    <3>1. j - 1 \in EventsAt(rest) /\ shift[j - 1] = j
      BY <2>2
    <3> QED
      BY <3>1
  <2> HIDE DEF shift, later
  <2>6. shift \in Bijection(EventsAt(rest), later)
    BY <2>3, <2>4, <2>5 DEF Bijection, Injection, Surjection, IsInjective
  <2> QED
    BY <2>6 DEF ExistsBijection
<1>4. Cardinality(later) = Cardinality(EventsAt(rest))
  BY <1>2, <1>3, FS_Bijection
<1>5. Cardinality(later) = IF 1 \in EventsAt(list) THEN Cardinality(EventsAt(list)) - 1
                                                   ELSE Cardinality(EventsAt(list))
  BY <1>2, FS_RemoveElement
<1>6. 1 \in EventsAt(list) <=> Head(list) = "event"
  BY <1>1 DEF EventsAt
<1>7. /\ EventsIn(list) = Cardinality(EventsAt(list)) /\ EventsIn(list) \in Nat
      /\ EventsIn(rest) = Cardinality(EventsAt(rest))
  BY <1>1, EventsFinite
<1> QED
  BY <1>1, <1>2, <1>4, <1>5, <1>6, <1>7

\* The numbers are as EventsInOrder says.
LEMMA NumberedInOrder ==
    ASSUME events \in Seq(Nat), received \in Seq(Nat)
    PROVE  /\ Len(received \o events) = Len(received) + Len(events)
           /\ Numbered => received \o events = [k \in 1..Len(received \o events) |-> k]
<1> DEFINE got == received \o events
<1>1. /\ Len(received) \in Nat /\ Len(events) \in Nat
      /\ got \in Seq(Nat) /\ Len(got) = Len(received) + Len(events)
      /\ \A k \in 1..Len(got) : got[k] = IF k <= Len(received) THEN received[k]
                                         ELSE events[k - Len(received)]
  BY ConcatProperties
<1>2. ASSUME Numbered, NEW k \in 1..Len(got) PROVE got[k] = k
  <2>1. CASE k <= Len(received)
    BY <1>1, <1>2, <2>1 DEF Numbered
  <2>2. CASE ~(k <= Len(received))
    <3>1. /\ k - Len(received) \in 1..Len(events)
          /\ Len(received) + (k - Len(received)) = k
      BY <1>1, <2>2
    <3> QED
      BY <1>1, <1>2, <2>2, <3>1 DEF Numbered
  <2> QED
    BY <2>1, <2>2
<1> HIDE DEF got
<1>3. got = [k \in 1..Len(got) |-> got[k]]
  <2>1. got \in Seq(Nat)
    BY <1>1
  <2> QED
    BY <2>1
<1>4. Numbered => got = [k \in 1..Len(got) |-> k]
  BY <1>2, <1>3
<1> QED
  BY <1>1, <1>4 DEF got

\* What the task says is numbered from where it left off.
LEMMA SaysEvents ==
    ASSUME EventInv, NEW list \in Outputs, Says(list), outs = <<>>, UNCHANGED eventVars,
           task # "ended"
    PROVE  EventInv'
<1>1. list \in Seq(Output)
  BY HandleAssumption DEF Output
<1>2. EventsIn(list) \in Nat /\ EventsIn(<<>>) = 0
  BY <1>1, EventsFinite, NoEvents
<1>3. outs' = list /\ said' = said + EventsIn(list) /\ said \in Nat
  BY DEF Says, EventInv
<1>4. EventsIn(outs') <= said' /\ said' \in Nat /\ said' - EventsIn(outs') = said
  BY <1>2, <1>3
<1> QED
  BY <1>1, <1>2, <1>3, <1>4 DEF EventInv, Numbered, eventVars

\* A task that ends loses what it holds.
LEMMA StopsEvents == ASSUME EventInv, Stops PROVE EventInv'
BY NoEvents DEF Stops, EventInv, Numbered

\* Only a task that hands something on holds anything.
IdleInv == task \in {"starting", "selecting"} => outs = <<>>

\* One output is handed on.
LEMMA HandsOnEvents ==
    ASSUME EventInv, HandsOn
    PROVE  EventInv'
<1>1. CASE BroadcastFails
  BY <1>1, StopsEvents DEF BroadcastFails
<1>2. CASE Routed
  BY <1>2 DEF Routed, EventInv, Numbered, eventVars
<1>3. CASE Broadcasts \/ Issues \/ IssuesToNobody
  <2>1. /\ outs # <<>> /\ outs \in Seq(Output) /\ outs' = Tail(outs) /\ task = "routing"
        /\ said' = said /\ said \in Nat
    BY <1>3 DEF Broadcasts, Issues, IssuesToNobody, Routing, EventInv
  <2>2. /\ Tail(outs) \in Seq(Output) /\ EventsIn(Tail(outs)) \in Nat /\ EventsIn(outs) \in Nat
        /\ EventsIn(outs) = EventsIn(Tail(outs)) + IF Head(outs) = "event" THEN 1 ELSE 0
    BY <2>1, EventsInTail, EventsFinite
  <2>3. EventsIn(outs') <= said
    BY <2>1, <2>2 DEF EventInv
  <2>4. CASE Broadcasts
    <3>1. EventsIn(outs') = EventsIn(outs)
      BY <2>1, <2>2, <2>4 DEF Broadcasts, Routing
    <3> QED
      BY <2>1, <2>2, <2>4, <3>1 DEF Broadcasts, EventInv, Numbered, eventVars
  <2>5. CASE IssuesToNobody
    BY <2>1, <2>2, <2>3, <2>5 DEF IssuesToNobody, EventInv, Numbered, eventVars
  <2>6. CASE Issues
    <3>1. /\ events' = Append(events, NextEvent) /\ received' = received /\ stream' = stream
          /\ task' = task
      BY <2>6 DEF Issues
    <3>2. /\ stream = "open" /\ Numbered /\ events \in Seq(Nat) /\ received \in Seq(Nat)
          /\ Len(received) + Len(events) = said - EventsIn(outs)
      BY <2>1, <2>6 DEF Issues, EventInv
    <3>3. Len(events) \in Nat /\ Len(received) \in Nat
      BY <3>2
    <3>4. NextEvent = Len(received) + (Len(events) + 1) /\ NextEvent \in Nat
      BY <3>2, <3>3 DEF NextEvent
    <3>5. /\ events' \in Seq(Nat) /\ Len(events') = Len(events) + 1
          /\ \A k \in 1..Len(events) : events'[k] = events[k]
          /\ events'[Len(events) + 1] = NextEvent
      BY <3>1, <3>2, <3>4, AppendProperties
    <3>6. Numbered'
      BY <3>1, <3>2, <3>3, <3>4, <3>5 DEF Numbered
    <3>7. EventsIn(outs) = EventsIn(outs') + 1
      BY <2>1, <2>2, <2>6 DEF Issues, Routing
    <3>8. Len(received') + Len(events') = said' - EventsIn(outs')
      BY <2>1, <2>2, <3>1, <3>2, <3>3, <3>5, <3>7
    <3> QED
      BY <2>1, <2>2, <2>3, <3>1, <3>2, <3>5, <3>6, <3>8 DEF EventInv
  <2> QED
    BY <1>3, <2>4, <2>5, <2>6
<1> QED
  BY <1>1, <1>2, <1>3 DEF HandsOn

\* The embedder takes the next event.
LEMMA DrainsEvents == ASSUME EventInv, Drains PROVE EventInv'
<1>1. /\ events # <<>> /\ events \in Seq(Nat) /\ received \in Seq(Nat)
      /\ received' = Append(received, Head(events)) /\ events' = Tail(events)
      /\ UNCHANGED <<stream, taskVars>>
  BY DEF Drains, EventInv
<1>2. /\ events' \in Seq(Nat) /\ Len(events') = Len(events) - 1
      /\ \A k \in 1..Len(events') : events'[k] = events[k + 1]
      /\ Head(events) \in Nat /\ Head(events) = events[1] /\ Len(events) \in Nat \ {0}
  BY <1>1, HeadTailProperties
<1>3. /\ received' \in Seq(Nat) /\ Len(received') = Len(received) + 1 /\ Len(received) \in Nat
      /\ \A k \in 1..Len(received) : received'[k] = received[k]
      /\ received'[Len(received) + 1] = Head(events)
  BY <1>1, <1>2, AppendProperties
<1>4. ASSUME Numbered PROVE Numbered'
  <2>1. Head(events) = Len(received) + 1
    BY <1>2, <1>4 DEF Numbered
  <2>2. \A k \in 1..Len(received') : received'[k] = k
    BY <1>3, <1>4, <2>1 DEF Numbered
  <2>3. ASSUME NEW k \in 1..Len(events') PROVE events'[k] = Len(received') + k
    <3>1. k + 1 \in 1..Len(events) /\ events'[k] = events[k + 1]
      BY <1>2
    <3>2. events[k + 1] = Len(received) + (k + 1)
      BY <1>4, <3>1 DEF Numbered
    <3> QED
      BY <1>3, <3>1, <3>2
  <2> QED
    BY <2>2, <2>3 DEF Numbered
<1>5. Len(received') + Len(events') = Len(received) + Len(events)
  BY <1>2, <1>3
<1> QED
  BY <1>1, <1>2, <1>3, <1>4, <1>5 DEF EventInv, taskVars

\* Every step preserves the order of the events.
LEMMA EventNextInv == EventInv /\ IdleInv /\ [Next]_handleVars => EventInv' /\ IdleInv'
<1> SUFFICES ASSUME EventInv, IdleInv, [Next]_handleVars PROVE EventInv' /\ IdleInv'
  OBVIOUS
<1>1. ASSUME UNCHANGED <<eventVars, taskVars>> PROVE EventInv' /\ IdleInv'
  BY <1>1 DEF EventInv, IdleInv, Numbered, eventVars, taskVars
<1>2. ASSUME Stops PROVE EventInv' /\ IdleInv'
  BY <1>2, StopsEvents DEF Stops, IdleInv
<1>3. ASSUME NEW list \in Outputs, Says(list), task \in {"starting", "selecting"},
             UNCHANGED eventVars
      PROVE  EventInv' /\ IdleInv'
  <2>1. EventInv'
    BY <1>3, SaysEvents DEF IdleInv
  <2> QED
    BY <1>3, <2>1 DEF Says, IdleInv
<1>4. CASE Starts
  BY <1>2, <1>3, <1>4 DEF Starts
<1>5. CASE TakesCommand
  <2>1. CASE CarriesOut
    <3>1. PICK list \in Outputs : Says(list)
      BY <2>1 DEF CarriesOut
    <3> QED
      BY <1>3, <2>1, <3>1 DEF CarriesOut, Takes
  <2>2. CASE Refuses \/ Reads
    BY <1>1, <2>2 DEF Refuses, Reads
  <2>3. CASE ChangeFails \/ ShutsDown
    BY <1>2, <2>3 DEF ChangeFails, ShutsDown
  <2> QED
    BY <1>5, <2>1, <2>2, <2>3 DEF TakesCommand
<1>6. CASE HandlesGone \/ TransportGone \/ WakeFails
  BY <1>2, <1>6 DEF HandlesGone, TransportGone, WakeFails
<1>7. CASE Wakes
  BY <1>3, <1>7 DEF Wakes
<1>8. CASE HandsOn
  <2>1. IdleInv'
    <3>1. CASE BroadcastFails
      BY <1>2, <3>1 DEF BroadcastFails
    <3>2. CASE Routed
      BY <3>2 DEF Routed, IdleInv
    <3>3. CASE Broadcasts \/ Issues \/ IssuesToNobody
      BY <3>3 DEF Broadcasts, Issues, IssuesToNobody, Routing, IdleInv
    <3> QED
      BY <1>8, <3>1, <3>2, <3>3 DEF HandsOn
  <2> QED
    BY <1>8, <2>1, HandsOnEvents
<1>9. CASE \E c \in Caller : Requests(c) \/ CallStep(c) \/ GoesAway(c)
  BY <1>1, <1>9 DEF Requests, CallStep, Enqueues, SendFails, Returns, GoesAway
<1>10. CASE Drains
  BY <1>10, DrainsEvents DEF Drains, taskVars, IdleInv
<1>11. CASE DropsStream
  <2>1. /\ stream' = "dropped" /\ events' = <<>> /\ received' = <<>> /\ UNCHANGED taskVars
    BY <1>11 DEF DropsStream
  <2> QED
    BY <2>1 DEF EventInv, IdleInv, taskVars
<1>12. CASE UNCHANGED handleVars
  BY <1>1, <1>12 DEF handleVars
<1> QED
  BY <1>4, <1>5, <1>6, <1>7, <1>8, <1>9, <1>10, <1>11, <1>12 DEF Next, TaskStep

\* The embedder gets every event once and in the order in which the core issued
\* them, however small its stream is and wherever the task ends.
THEOREM HandleInOrder == Spec => []EventsInOrder
<1>1. Init => EventInv /\ IdleInv
  BY NoEvents DEF Init, EventInv, IdleInv, Numbered
<1>2. EventInv => EventsInOrder
  <2> SUFFICES ASSUME EventInv PROVE EventsInOrder
    OBVIOUS
  <2>1. /\ Len(received \o events) = Len(received) + Len(events)
        /\ Numbered => received \o events = [k \in 1..Len(received \o events) |-> k]
    BY NumberedInOrder DEF EventInv
  <2> QED
    BY <2>1 DEF EventInv, EventsInOrder
<1> QED
  BY <1>1, <1>2, EventNextInv, PTL DEF Spec

=============================================================================
