---------------------------- MODULE ServerThreads ----------------------------
(***************************************************************************)
(* The threads of the server process: main starts and stops the event loop *)
(* threads of clients, tcp and udp (class Thread), the tcp thread accepts  *)
(* connections and hands them to the clients thread through receive_queue  *)
(* and an asynchronous wake-up.                                            *)
(*                                                                         *)
(* An event loop is uv_run as the code relies on it: it looks at its stop  *)
(* flag, blocks until something happens, runs callbacks, and looks again.  *)
(* Any number of uv_async_send calls before the loop gets to the callback  *)
(* result in one callback.                                                 *)
(***************************************************************************)
EXTENDS Naturals, Sequences

CONSTANT Connections    \* bound: the connections clients make

Threads == {"clients", "tcp", "udp"}

VARIABLES
    step,       \* what main does: start, wait, serve, stop, flag, wake, join, done
    turn,       \* to which thread, counted in StartOrder or StopOrder
    pc,         \* where each thread is
    started,    \* is_started
    posted,     \* the semaphore start() waits for
    stopFlag,   \* uv_stop was called on the loop
    async,      \* the async handle: none, open or closed
    pending,    \* uv_async_send was called, the callback has not run
    backlog,    \* connections the kernel holds for accept
    accepted,   \* the connection the tcp thread is handing over, in a set
    queue,      \* receive_queue
    attached,   \* connections the clients thread reads from
    refused     \* connections accept failed for

loopVars == <<started, posted, stopFlag, async>>
mainVars == <<step, turn>>
connVars == <<backlog, accepted, queue, attached, refused>>
vars     == <<mainVars, pc, loopVars, pending, connVars>>

Elems(s) == {s[i] : i \in DOMAIN s}

\* Where a thread is inside uv_run.
InLoop == {"check", "poll", "events", "push", "notify", "drain"}

Init ==
    /\ step = "start" /\ turn = 1
    /\ pc = [t \in Threads |-> "none"]
    /\ started = [t \in Threads |-> FALSE]
    /\ posted = [t \in Threads |-> FALSE]
    /\ stopFlag = [t \in Threads |-> FALSE]
    /\ async = [t \in Threads |-> "none"]
    /\ pending = [t \in Threads |-> FALSE]
    /\ backlog = {} /\ accepted = {} /\ queue = <<>> /\ attached = {} /\ refused = {}

Goto(t, where) == pc' = [pc EXCEPT ![t] = where]

\* uv_async_send. On a handle that is closed it has no effect.
AsyncSend(t) == pending' = [pending EXCEPT ![t] = (async[t] = "open")]

-----------------------------------------------------------------------------
(* main: Server::start, the signal loop, Server::stop. Thread::start waits *)
(* until the thread has its async handle; Thread::stop waits for its end.  *)

StartOrder == <<"clients", "tcp", "udp">>

\* Mistaken variant: clients is stopped before tcp.
StopOrderSwapped == <<"udp", "clients", "tcp">>

StopOrder == <<"udp", "tcp", "clients">>

\* Mistaken variant: the order is not begun anew for the next phase.
AdvanceTooFar(again, then) ==
    \/ turn < 3 /\ turn' = turn + 1 /\ step' = again
    \/ turn = 3 /\ turn' = turn + 1 /\ step' = then

\* main goes on with the next thread of the order, or to the next phase.
Advance(again, then) ==
    \/ turn < 3 /\ turn' = turn + 1 /\ step' = again
    \/ turn = 3 /\ turn' = 1 /\ step' = then

StartThread ==
    LET t == StartOrder[turn]
    IN  /\ step = "start" /\ step' = "wait"
        /\ ~started[t]
        /\ started' = [started EXCEPT ![t] = TRUE]
        /\ Goto(t, "run")
        /\ UNCHANGED <<turn, posted, stopFlag, async, pending, connVars>>

AwaitThread ==
    /\ step = "wait"
    /\ posted[StartOrder[turn]]
    /\ Advance("start", "serve")
    /\ UNCHANGED <<pc, loopVars, pending, connVars>>

\* SIGINT or SIGTERM
Signal ==
    /\ step = "serve" /\ step' = "stop"
    /\ UNCHANGED <<turn, pc, loopVars, pending, connVars>>

StopThread ==
    LET t == StopOrder[turn]
    IN  /\ step = "stop" /\ step' = "flag"
        /\ started[t]
        /\ started' = [started EXCEPT ![t] = FALSE]
        /\ UNCHANGED <<turn, pc, posted, stopFlag, async, pending, connVars>>

\* uv_stop
RaiseFlag ==
    /\ step = "flag" /\ step' = "wake"
    /\ stopFlag' = [stopFlag EXCEPT ![StopOrder[turn]] = TRUE]
    /\ UNCHANGED <<turn, pc, started, posted, async, pending, connVars>>

\* Mistaken variant: the loop is not woken up to see its flag.
WakeThreadNot ==
    /\ step = "wake" /\ step' = "join"
    /\ UNCHANGED <<turn, pc, loopVars, pending, connVars>>

WakeThread ==
    /\ step = "wake" /\ step' = "join"
    /\ AsyncSend(StopOrder[turn])
    /\ UNCHANGED <<turn, pc, loopVars, connVars>>

JoinThread ==
    /\ step = "join"
    /\ pc[StopOrder[turn]] = "ended"
    /\ Advance("stop", "done")
    /\ UNCHANGED <<pc, loopVars, pending, connVars>>

Main == StartThread \/ AwaitThread \/ StopThread \/ RaiseFlag \/ WakeThread \/ JoinThread

-----------------------------------------------------------------------------
(* Thread::thread_worker.                                                  *)

\* on_run; tcp and udp bind and listen here.
OnRun(t) ==
    /\ pc[t] = "run" /\ Goto(t, "init")
    /\ UNCHANGED <<mainVars, loopVars, pending, connVars>>

OpenAsync(t) ==
    /\ pc[t] = "init" /\ Goto(t, "post")
    /\ async' = [async EXCEPT ![t] = "open"]
    /\ UNCHANGED <<mainVars, started, posted, stopFlag, pending, connVars>>

Post(t) ==
    /\ pc[t] = "post" /\ Goto(t, "check")
    /\ posted' = [posted EXCEPT ![t] = TRUE]
    /\ UNCHANGED <<mainVars, started, stopFlag, async, pending, connVars>>

\* uv_run looks at the stop flag before it blocks, and clears it when it ends.
CheckFlag(t) ==
    /\ pc[t] = "check"
    /\ \/ ~stopFlag[t] /\ Goto(t, "poll")
       \/ stopFlag[t] /\ Goto(t, "close")
    /\ stopFlag' = [stopFlag EXCEPT ![t] = FALSE]
    /\ UNCHANGED <<mainVars, started, posted, async, pending, connVars>>

\* thread_notify: nothing once the thread is being stopped, else on_notify,
\* which the clients thread uses to drain its queue.
AsyncCallback(t) ==
    /\ pc[t] \in {"poll", "events"} /\ pending[t]
    /\ pending' = [pending EXCEPT ![t] = FALSE]
    /\ Goto(t, IF started[t] /\ t = "clients" THEN "drain" ELSE "events")
    /\ UNCHANGED <<mainVars, loopVars, connVars>>

LeaveEvents(t) ==
    /\ pc[t] = "events" /\ Goto(t, "check")
    /\ UNCHANGED <<mainVars, loopVars, pending, connVars>>

CloseAsync(t) ==
    /\ pc[t] = "close" /\ Goto(t, "finish")
    /\ async' = [async EXCEPT ![t] = "closed"]
    /\ UNCHANGED <<mainVars, started, posted, stopFlag, pending, connVars>>

\* on_stop and the end of the thread
OnStop(t) ==
    /\ pc[t] = "finish" /\ Goto(t, "ended")
    /\ UNCHANGED <<mainVars, loopVars, pending, connVars>>

Worker(t) ==
    OnRun(t) \/ OpenAsync(t) \/ Post(t) \/ CheckFlag(t) \/ AsyncCallback(t)
      \/ LeaveEvents(t) \/ CloseAsync(t) \/ OnStop(t)

-----------------------------------------------------------------------------
(* TcpServer::receive_new_connection and Clients::connect, on the tcp      *)
(* thread.                                                                 *)

Accept(c) ==
    /\ pc["tcp"] \in {"poll", "events"}
    /\ c \in backlog
    /\ backlog' = backlog \ {c}
    /\ accepted' = {c}
    /\ Goto("tcp", "push")
    /\ UNCHANGED <<mainVars, loopVars, pending, queue, attached, refused>>

AcceptFails(c) ==
    /\ pc["tcp"] \in {"poll", "events"}
    /\ c \in backlog
    /\ backlog' = backlog \ {c}
    /\ refused' = refused \cup {c}
    /\ Goto("tcp", "events")
    /\ UNCHANGED <<mainVars, loopVars, pending, accepted, queue, attached>>

Push ==
    /\ pc["tcp"] = "push" /\ Goto("tcp", "notify")
    /\ \E c \in accepted : queue' = Append(queue, c)
    /\ accepted' = {}
    /\ UNCHANGED <<mainVars, loopVars, pending, backlog, attached, refused>>

Notify ==
    /\ pc["tcp"] = "notify" /\ Goto("tcp", "events")
    /\ AsyncSend("clients")
    /\ UNCHANGED <<mainVars, loopVars, connVars>>

Tcp == Push \/ Notify \/ \E c \in Connections : Accept(c) \/ AcceptFails(c)

-----------------------------------------------------------------------------
(* Clients::on_notify, on the clients thread, one connection at a time.    *)

\* Mistaken variants: one connection is taken per wake-up,
DrainOne ==
    /\ pc["clients"] = "drain" /\ Goto("clients", "events")
    /\ \/ /\ queue # <<>>
          /\ queue' = Tail(queue)
          /\ attached' = attached \cup {Head(queue)}
       \/ /\ queue = <<>>
          /\ UNCHANGED <<queue, attached>>
    /\ UNCHANGED <<mainVars, loopVars, pending, backlog, accepted, refused>>

\* the connection that came last is taken first.
DrainNewest ==
    /\ pc["clients"] = "drain"
    /\ \/ /\ queue # <<>>
          /\ queue' = SubSeq(queue, 1, Len(queue) - 1)
          /\ attached' = attached \cup {queue[Len(queue)]}
          /\ UNCHANGED pc
       \/ /\ queue = <<>>
          /\ Goto("clients", "events")
          /\ UNCHANGED <<queue, attached>>
    /\ UNCHANGED <<mainVars, loopVars, pending, backlog, accepted, refused>>

Drain ==
    /\ pc["clients"] = "drain"
    /\ \/ /\ queue # <<>>
          /\ queue' = Tail(queue)
          /\ attached' = attached \cup {Head(queue)}
          /\ UNCHANGED pc
       \/ /\ queue = <<>>
          /\ Goto("clients", "events")
          /\ UNCHANGED <<queue, attached>>
    /\ UNCHANGED <<mainVars, loopVars, pending, backlog, accepted, refused>>

-----------------------------------------------------------------------------
\* A client connects; the kernel queues it once the socket listens.
Connect(c) ==
    /\ pc["tcp"] \notin {"none", "run", "finish", "ended"}
    /\ c \notin backlog \cup accepted \cup Elems(queue) \cup attached \cup refused
    /\ backlog' = backlog \cup {c}
    /\ UNCHANGED <<mainVars, pc, loopVars, pending, accepted, queue, attached, refused>>

\* main has returned from Server::stop.
Done == step = "done" /\ UNCHANGED vars

Next ==
    \/ Main \/ Signal \/ Done
    \/ \E t \in Threads : Worker(t)
    \/ Tcp \/ Drain
    \/ \E c \in Connections : Connect(c)

Spec == Init /\ [][Next]_vars

\* Every thread runs. Clients need not connect, nobody need send a signal.
Fairness ==
    /\ WF_vars(Main)
    /\ \A t \in Threads : WF_vars(Worker(t))
    /\ WF_vars(Tcp)
    /\ WF_vars(Drain)

FairSpec == Spec /\ Fairness

-----------------------------------------------------------------------------
TypeOK ==
    /\ step \in {"start", "wait", "serve", "stop", "flag", "wake", "join", "done"}
    /\ turn \in 1 .. 3
    /\ pc \in [Threads -> InLoop \cup {"none", "run", "init", "post",
                                       "close", "finish", "ended"}]
    /\ started \in [Threads -> BOOLEAN]
    /\ posted \in [Threads -> BOOLEAN]
    /\ stopFlag \in [Threads -> BOOLEAN]
    /\ async \in [Threads -> {"none", "open", "closed"}]
    /\ pending \in [Threads -> BOOLEAN]
    /\ backlog \subseteq Connections
    /\ accepted \subseteq Connections
    /\ queue \in Seq(Connections)
    /\ attached \subseteq Connections
    /\ refused \subseteq Connections

\* A connection waits in one place only: it is given to one object.
AttachedOnce ==
    /\ Elems(queue) \cap attached = {}
    /\ accepted \cap (Elems(queue) \cup attached) = {}
    /\ \A i, j \in DOMAIN queue : queue[i] = queue[j] => i = j

\* A clients thread that sleeps has no connection in its queue, unless its
\* wake-up is on the way. Wake-ups that coalesce lose no connection; one that
\* comes after stop() has cleared is_started does.
NoLostWakeup ==
    (pc["clients"] = "poll" /\ queue # <<>> /\ started["clients"]) =>
        pending["clients"] \/ pc["tcp"] = "notify"

\* A connection is handed over only to a clients thread that runs its loop
\* and is not being stopped: clients starts before tcp and stops after it.
HandoverToLiveLoop ==
    pc["tcp"] \in {"push", "notify"} =>
        started["clients"] /\ async["clients"] = "open" /\ pc["clients"] \in InLoop

\* main never waits for nothing: a thread it starts is down and about to post
\* the semaphore, a thread it stops is up, and one whose end it waits for does
\* not sleep past its stop flag, whatever order the flag, the wake-up and the
\* loop's own look at the flag come in.
MainNeverHangs ==
    /\ step = "start" => ~started[StartOrder[turn]]
    /\ step = "wait" =>
          posted[StartOrder[turn]] \/ pc[StartOrder[turn]] \in {"run", "init", "post"}
    /\ step = "stop" => started[StopOrder[turn]]
    /\ step = "join" =>
          LET t == StopOrder[turn]
          IN  /\ pc[t] \in InLoop => stopFlag[t]
              /\ pc[t] = "poll" => pending[t]

\* The threads are a pipe for connections. What tcp holds in its hands is at
\* the end of it; the receiver is the clients thread.
InHand == IF accepted = {} THEN <<>> ELSE <<CHOOSE c \in accepted : TRUE>>

Receiver ==
    CASE pc["clients"] \in InLoop /\ started["clients"]  -> "live"
      [] pc["clients"] \in InLoop /\ ~started["clients"] -> "closing"
      [] pc["clients"] \in {"none", "run", "init", "post"} -> "new"
      [] OTHER -> "closed"

Pipe == INSTANCE Handover WITH receiver <- Receiver, offered <- backlog,
                               pipe <- queue \o InHand, served <- attached
HandoverSpec == Pipe!Spec

\* A signal ends the process: every thread sees that it is to stop.
StopTerminates == (step = "stop") ~> (step = "done")

\* An accepted connection is read from in the end, unless the server stops.
AcceptedIsAttached ==
    \A c \in Connections :
        (c \in Elems(queue)) ~> (c \in attached \/ step \in {"stop", "flag", "wake", "join", "done"})
=============================================================================
