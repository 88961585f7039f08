------------------------------- MODULE Handle -------------------------------
(***************************************************************************)
(* How an embedder drives a node (dash-router/src/handle.rs, and in        *)
(* shell.rs the task of spawn with route_outs): callers send commands      *)
(* through a bounded queue and await a reply each; one task takes the      *)
(* commands and everything else that wakes it, one at a time, and hands on *)
(* what the core has to say, broadcasts to the transport and events to the *)
(* embedder's bounded stream.  What the core does with a command is module *)
(* Shell; here a command succeeds or fails and has some outputs to say.    *)
(***************************************************************************)
EXTENDS Naturals, Sequences, FiniteSets

CONSTANTS
    Caller,         \* the embedder's tasks, each with a handle and one call to make
    WakeBound,      \* bound on messages, hints, timers with something to say
    CommandRoom,    \* capacity of the command queue (64 in the code)
    EventRoom,      \* capacity of the event stream (64 in the code)
    Outputs         \* what one step of the core may have to say

ASSUME HandleAssumption ==
    /\ WakeBound \in Nat
    /\ CommandRoom \in Nat \ {0} /\ EventRoom \in Nat \ {0}
    /\ Outputs \subseteq Seq({"broadcast", "event"})

\* Append may be refused, and so may relay_held, when the relay cannot list
\* what it holds; subscribe and unsubscribe stop the task when they fail;
\* stats and relay_held only read.
Request == {"append", "change", "read", "shutdown"}

VARIABLES
    call,       \* per caller: how far its call is, for what, and how it ended
    queue,      \* cmd_tx to cmd_rx: the callers whose commands wait
    task,       \* starting, selecting, routing or ended
    outs,       \* what the task has yet to hand on
    events,     \* event_tx to event_rx
    stream,     \* the embedder's end of it: open, dropped or ended
    said,       \* ghost: how many events the core has issued; they are numbered
    received,   \* ghost: the events the embedder has taken
    ran,        \* ghost: per caller, how often its request was carried out
    woken       \* ghost: how often the task woke with something to say

callVars == <<call, queue, ran>>

eventVars == <<events, stream, received>>

taskVars == <<task, outs, said, woken>>

handleVars == <<callVars, eventVars, taskVars>>

Init ==
    /\ call = [c \in Caller |-> [at |-> "idle", request |-> "read", result |-> "none"]]
    /\ queue = <<>>
    /\ ran = [c \in Caller |-> 0]
    /\ events = <<>> /\ stream = "open" /\ received = <<>>
    /\ task = "starting" /\ outs = <<>> /\ said = 0 /\ woken = 0

-----------------------------------------------------------------------------
\* The callers.

Pending(c) == call[c].at \in {"sending", "waiting"}

Requests(c) == \E r \in Request :
    /\ call[c].at = "idle"
    /\ call' = [call EXCEPT ![c].at = "sending", ![c].request = r]
    /\ UNCHANGED <<queue, ran, eventVars, taskVars>>

\* shutdown consumes the handle and awaits no reply.
Enqueues(c) ==
    /\ call[c].at = "sending"
    /\ task # "ended" /\ Len(queue) < CommandRoom
    /\ queue' = Append(queue, c)
    /\ call' = [call EXCEPT ![c].at = IF call[c].request = "shutdown" THEN "closed" ELSE "waiting"]
    /\ UNCHANGED <<ran, eventVars, taskVars>>

\* The router task is gone; for shutdown that is no error.
SendFails(c) ==
    /\ call[c].at = "sending"
    /\ task = "ended"
    /\ call' = [call EXCEPT ![c].at = IF call[c].request = "shutdown" THEN "closed" ELSE "answered",
                            ![c].result = "gone"]
    /\ UNCHANGED <<queue, ran, eventVars, taskVars>>

Returns(c) ==
    /\ call[c].at = "waiting"
    /\ call[c].result # "none"
    /\ call' = [call EXCEPT ![c].at = "answered"]
    /\ UNCHANGED <<queue, ran, eventVars, taskVars>>

\* The caller goes: it drops its handle, and the future of its call with it.
\* What it has enqueued stays enqueued.
GoesAway(c) ==
    /\ call[c].at # "closed"
    /\ call' = [call EXCEPT ![c].at = "closed"]
    /\ UNCHANGED <<queue, ran, eventVars, taskVars>>

-----------------------------------------------------------------------------
\* The task.

\* The reply to the command at the head; nobody may be waiting for it any more.
Replied(result) ==
    LET c == Head(queue)
    IN  IF call[c].at = "waiting" THEN [call EXCEPT ![c].result = result] ELSE call

\* The command at the head was carried out to its end.
Done == [ran EXCEPT ![Head(queue)] = @ + 1]

EventsIn(list) == Cardinality({k \in DOMAIN list : list[k] = "event"})

\* The core has something to say, or nothing.
Says(list) ==
    /\ task' = "routing"
    /\ outs' = list
    /\ said' = said + EventsIn(list)

\* Mistake: the command queue outlives the task, and the replies with it.
StopsKeepingQueue ==
    /\ task' = "ended"
    /\ outs' = <<>>
    /\ stream' = IF stream = "open" THEN "ended" ELSE stream
    /\ UNCHANGED <<callVars, events, received, said, woken>>

\* The task ends: what it holds is dropped, with the replies nobody will send.
Stops ==
    /\ task' = "ended"
    /\ outs' = <<>>
    /\ queue' = <<>>
    /\ call' = [c \in Caller |-> IF call[c].at = "waiting" /\ call[c].result = "none"
                                 THEN [call[c] EXCEPT !.result = "dropped"] ELSE call[c]]
    /\ stream' = IF stream = "open" THEN "ended" ELSE stream
    /\ UNCHANGED <<ran, events, received, said, woken>>

\* core.init.
Starts ==
    /\ task = "starting"
    /\ \/ /\ \E list \in Outputs : Says(list)
          /\ UNCHANGED <<callVars, eventVars, woken>>
       \/ Stops

\* The command branch of select!.
Takes(request) == task = "selecting" /\ queue # <<>> /\ call[Head(queue)].request = request

\* Mistake: the reply is sent when the outputs have been handed on, which a
\* broadcast among them may prevent.
CarriesOutThenReplies == \E list \in Outputs, request \in {"append", "change"} :
    /\ Takes(request)
    /\ Says(list)
    /\ call' = Replied(IF \E k \in DOMAIN list : list[k] = "broadcast" THEN "dropped" ELSE "ok")
    /\ ran' = Done
    /\ queue' = Tail(queue)
    /\ UNCHANGED <<eventVars, woken>>

\* Append, Subscribe and Unsubscribe reply before anything is handed on.
CarriesOut == \E list \in Outputs, request \in {"append", "change"} :
    /\ Takes(request)
    /\ Says(list)
    /\ call' = Replied("ok")
    /\ ran' = Done
    /\ queue' = Tail(queue)
    /\ UNCHANGED <<eventVars, woken>>

\* The error of a failed append or relay_held goes back to its caller, and the
\* task goes on; what the core had to say to an append is lost with it.
Refuses == \E request \in {"append", "read"} :
    /\ Takes(request)
    /\ call' = Replied("refused")
    /\ queue' = Tail(queue)
    /\ UNCHANGED <<ran, eventVars, taskVars>>

\* Any other failure ends the task.
ChangeFails == Takes("change") /\ Stops

\* Stats and RelayHeld.
Reads ==
    /\ Takes("read")
    /\ call' = Replied("ok")
    /\ ran' = Done
    /\ queue' = Tail(queue)
    /\ UNCHANGED <<eventVars, taskVars>>

\* Shutdown drains nothing.
ShutsDown == Takes("shutdown") /\ Stops

HandlesGone ==
    /\ task = "selecting"
    /\ queue = <<>> /\ \A c \in Caller : call[c].at = "closed"
    /\ Stops

\* transport.recv returns None.
TransportGone == task = "selecting" /\ Stops

\* A message, hint, timer or the maintenance tick; a closed hints channel says
\* nothing, once.
Wakes == \E list \in Outputs :
    /\ task = "selecting"
    /\ list # <<>> => woken < WakeBound
    /\ Says(list)
    /\ woken' = IF list = <<>> THEN woken ELSE woken + 1
    /\ UNCHANGED <<callVars, eventVars>>

WakeFails == task = "selecting" /\ Stops

-----------------------------------------------------------------------------
\* route_outs, one output at a time.

Routing(kind) == task = "routing" /\ outs # <<>> /\ Head(outs) = kind

Broadcasts ==
    /\ Routing("broadcast")
    /\ outs' = Tail(outs)
    /\ UNCHANGED <<callVars, eventVars, task, said, woken>>

BroadcastFails == Routing("broadcast") /\ Stops

\* The number of the next event to hand on.
NextEvent == said - EventsIn(outs) + 1

\* Mistake: the event is dropped when the stream has no room.
IssuesOrDrops ==
    /\ Routing("event")
    /\ stream = "open"
    /\ events' = IF Len(events) < EventRoom THEN Append(events, NextEvent) ELSE events
    /\ outs' = Tail(outs)
    /\ UNCHANGED <<callVars, stream, received, task, said, woken>>

\* The task waits for room in the stream.
Issues ==
    /\ Routing("event")
    /\ stream = "open" /\ Len(events) < EventRoom
    /\ events' = Append(events, NextEvent)
    /\ outs' = Tail(outs)
    /\ UNCHANGED <<callVars, stream, received, task, said, woken>>

\* Nobody listens any more: the event is dropped and the task goes on.
IssuesToNobody ==
    /\ Routing("event")
    /\ stream = "dropped"
    /\ outs' = Tail(outs)
    /\ UNCHANGED <<callVars, eventVars, task, said, woken>>

Routed ==
    /\ task = "routing" /\ outs = <<>>
    /\ task' = "selecting"
    /\ UNCHANGED <<callVars, eventVars, outs, said, woken>>

-----------------------------------------------------------------------------
\* The embedder's stream.

Drains ==
    /\ events # <<>>
    /\ received' = Append(received, Head(events))
    /\ events' = Tail(events)
    /\ UNCHANGED <<callVars, stream, taskVars>>

DropsStream ==
    /\ stream = "open"
    /\ stream' = "dropped"
    /\ events' = <<>> /\ received' = <<>>
    /\ UNCHANGED <<callVars, taskVars>>

TakesCommand == CarriesOut \/ Refuses \/ ChangeFails \/ Reads \/ ShutsDown

HandsOn == Broadcasts \/ BroadcastFails \/ Issues \/ IssuesToNobody \/ Routed

TaskStep ==
    \/ Starts \/ TakesCommand \/ HandlesGone \/ TransportGone \/ Wakes \/ WakeFails
    \/ HandsOn

CallStep(c) == Enqueues(c) \/ SendFails(c) \/ Returns(c)

Next ==
    \/ TaskStep
    \/ \E c \in Caller : Requests(c) \/ CallStep(c) \/ GoesAway(c)
    \/ Drains \/ DropsStream

\* The runtime runs every task that is ready; select! picks among its ready
\* branches at random, so a command that waits is taken, and the queue gives
\* its room to senders in turn.  The embedder drains its stream while its
\* callers wait.  Nothing else is promised.
Spec ==
    /\ Init /\ [][Next]_handleVars
    /\ WF_handleVars(Starts \/ HandsOn)
    /\ SF_handleVars(TakesCommand)
    /\ \A c \in Caller : SF_handleVars(CallStep(c))
    /\ WF_handleVars(Drains)

-----------------------------------------------------------------------------
\* Properties.

\* What a caller is told is what happened: its request is carried out to its end
\* at most once, exactly once if it is told so, and not if it is told that it
\* was refused, that the task is gone or that the reply was dropped,
\* though the task may end at any moment, also before it has handed on what
\* the request had to say.
RepliesTruthful == \A c \in Caller :
    /\ ran[c] <= 1
    /\ call[c].result = "ok" => ran[c] = 1
    /\ call[c].result \in {"refused", "gone", "dropped"} => ran[c] = 0

\* The embedder gets every event once and in the order in which the core
\* issued them, however full its stream was; only a task that ends loses
\* events, and those the last.
EventsInOrder ==
    stream # "dropped" =>
        LET got == received \o events
        IN  /\ got = [k \in 1..Len(got) |-> k]
            /\ task # "ended" => Len(got) = said - EventsIn(outs)

\* No call hangs: whatever becomes of the task, the transport, the stream and
\* the other callers, a caller gets its answer or an error.
EveryCallReturns == \A c \in Caller : Pending(c) ~> ~Pending(c)

=============================================================================
