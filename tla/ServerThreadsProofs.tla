------------------------ MODULE ServerThreadsProofs -------------------------
(***************************************************************************)
(* Proofs about ServerThreads, for any set of connections.                 *)
(***************************************************************************)
EXTENDS ServerThreads, TLAPS

-----------------------------------------------------------------------------
(* The inductive invariant.                                                *)

\* What a worker has done by the place it is at.
WorkerInv ==
    \A t \in Threads :
        /\ pc[t] \in InLoop \cup {"post", "close"} => async[t] = "open"
        /\ posted[t] => pc[t] \notin {"none", "run", "init", "post"}

\* The threads main has not come to are not there.
UnbornInv ==
    /\ step = "start" =>
          /\ pc["udp"] = "none"
          /\ turn # 3 => pc["tcp"] = "none"
          /\ turn = 1 => pc["clients"] = "none" /\ queue = <<>>
    /\ step = "wait" =>
          /\ turn # 3 => pc["udp"] = "none"
          /\ turn = 1 => pc["tcp"] = "none"
    /\ step = "serve" => turn = 1

\* main is past the start of clients and has not begun to stop it.
ClientsUp ==
    \/ step \in {"start", "wait"} /\ turn # 1
    \/ step \in {"serve", "stop"}
    \/ step \in {"flag", "wake", "join"} /\ turn # 3

\* main has raised the stop flag of clients.
ClientsFlagged == step = "done" \/ (step \in {"wake", "join"} /\ turn = 3)

\* The clients thread is up from its start to its stop, and it leaves its
\* loop only once its stop flag was raised.
ClientsInv ==
    /\ step = "wait" => started["clients"]
    /\ ClientsUp => started["clients"] /\ posted["clients"]
    /\ step \in {"flag", "wake", "join"} /\ turn = 3 => ~started["clients"]
    /\ stopFlag["clients"] => ClientsFlagged
    /\ pc["clients"] \in {"close", "finish", "ended"} => ClientsFlagged

\* main has started tcp and not seen it end.
TcpUp ==
    \/ step = "wait" /\ turn # 1
    \/ step = "start" /\ turn = 3
    \/ step = "serve"
    \/ step \in {"stop", "flag", "wake", "join"} /\ turn # 3

\* The tcp thread is there only in that time, in which clients is up.
TcpInv == pc["tcp"] \notin {"none", "ended"} => TcpUp

\* A connection is in one place.
PlacesInv ==
    /\ backlog \cap (accepted \cup Elems(queue) \cup attached) = {}
    /\ AttachedOnce

\* While clients is not about to drain its queue, a wake-up is on its way to
\* whatever is in there.
WakeInv ==
    (queue # <<>> /\ started["clients"] /\ pc["clients"] # "drain") =>
        pending["clients"] \/ pc["tcp"] = "notify"

ControlInv == WorkerInv /\ UnbornInv /\ ClientsInv /\ TcpInv

-----------------------------------------------------------------------------
(* Sequences.                                                              *)

LEMMA AppendElems ==
  ASSUME NEW S, NEW s \in Seq(S), NEW e \in S
  PROVE  /\ Append(s, e) \in Seq(S)
         /\ Elems(Append(s, e)) = Elems(s) \cup {e}
         /\ (e \notin Elems(s) /\ \A i, j \in DOMAIN s : s[i] = s[j] => i = j)
              => \A i, j \in DOMAIN Append(s, e) :
                    Append(s, e)[i] = Append(s, e)[j] => i = j
  <1>1. /\ Append(s, e) \in Seq(S) /\ Len(s) \in Nat
        /\ DOMAIN s = 1 .. Len(s) /\ DOMAIN Append(s, e) = 1 .. Len(s) + 1
        /\ \A i \in 1 .. Len(s) : Append(s, e)[i] = s[i]
        /\ Append(s, e)[Len(s) + 1] = e
    OBVIOUS
  <1>2. \A i \in DOMAIN Append(s, e) : i \in DOMAIN s \/ i = Len(s) + 1
    BY <1>1
  <1>3. Elems(Append(s, e)) \subseteq Elems(s) \cup {e}
    BY <1>1, <1>2 DEF Elems
  <1>4. Elems(s) \subseteq Elems(Append(s, e))
    BY <1>1 DEF Elems
  <1>5. e \in Elems(Append(s, e))
    <2>1. Len(s) + 1 \in DOMAIN Append(s, e)
      BY <1>1
    <2> QED
      BY <1>1, <2>1, Zenon DEF Elems
  <1>6. ASSUME e \notin Elems(s),
               \A i, j \in DOMAIN s : s[i] = s[j] => i = j,
               NEW i \in DOMAIN Append(s, e), NEW j \in DOMAIN Append(s, e),
               Append(s, e)[i] = Append(s, e)[j]
        PROVE  i = j
    <2>1. \A k \in DOMAIN s : s[k] # e
      BY <1>6 DEF Elems
    <2> QED
      BY <1>1, <1>2, <1>6, <2>1
  <1> QED
    BY <1>1, <1>3, <1>4, <1>5, <1>6

LEMMA HeadTailElems ==
  ASSUME NEW S, NEW s \in Seq(S), s # <<>>
  PROVE  /\ Head(s) \in S /\ Head(s) \in Elems(s)
         /\ Tail(s) \in Seq(S) /\ Elems(Tail(s)) \subseteq Elems(s)
         /\ (\A i, j \in DOMAIN s : s[i] = s[j] => i = j)
              => /\ Head(s) \notin Elems(Tail(s))
                 /\ \A i, j \in DOMAIN Tail(s) : Tail(s)[i] = Tail(s)[j] => i = j
  <1>1. /\ Len(s) \in Nat \ {0} /\ DOMAIN s = 1 .. Len(s)
        /\ Head(s) \in S /\ Head(s) = s[1] /\ 1 \in DOMAIN s
    OBVIOUS
  <1>2. /\ Tail(s) \in Seq(S) /\ DOMAIN Tail(s) = 1 .. Len(s) - 1
        /\ \A i \in 1 .. Len(s) - 1 : Tail(s)[i] = s[i + 1]
    BY <1>1
  <1>3. \A i \in DOMAIN Tail(s) :
           i \in Nat /\ i + 1 \in DOMAIN s /\ i + 1 # 1 /\ Tail(s)[i] = s[i + 1]
    BY <1>1, <1>2
  <1>4. Head(s) \in Elems(s)
    BY <1>1, Zenon DEF Elems
  <1>5. Elems(Tail(s)) \subseteq Elems(s)
    BY <1>3 DEF Elems
  <1>6. ASSUME \A i, j \in DOMAIN s : s[i] = s[j] => i = j
        PROVE  /\ Head(s) \notin Elems(Tail(s))
               /\ \A i, j \in DOMAIN Tail(s) : Tail(s)[i] = Tail(s)[j] => i = j
    <2>1. \A i \in DOMAIN Tail(s) : Tail(s)[i] # Head(s)
      BY <1>1, <1>3, <1>6
    <2>2. Head(s) \notin Elems(Tail(s))
      BY <2>1 DEF Elems
    <2>3. ASSUME NEW i \in DOMAIN Tail(s), NEW j \in DOMAIN Tail(s),
                 Tail(s)[i] = Tail(s)[j]
          PROVE  i = j
      <3>1. s[i + 1] = s[j + 1] /\ i + 1 \in DOMAIN s /\ j + 1 \in DOMAIN s
        BY <1>3, <2>3
      <3>2. i + 1 = j + 1
        BY <1>6, <3>1
      <3> QED
        BY <1>3, <3>2
    <2> QED
      BY <2>2, <2>3
  <1> QED
    BY <1>1, <1>2, <1>4, <1>5, <1>6

-----------------------------------------------------------------------------
(* Types.                                                                  *)

LEMMA TurnFacts ==
  ASSUME TypeOK
  PROVE  /\ turn \in {1, 2, 3}
         /\ StartOrder[turn] \in Threads /\ StopOrder[turn] \in Threads
         /\ StartOrder[turn] = "clients" <=> turn = 1
         /\ StartOrder[turn] = "tcp" <=> turn = 2
         /\ StartOrder[turn] = "udp" <=> turn = 3
         /\ StopOrder[turn] = "clients" <=> turn = 3
         /\ StopOrder[turn] = "tcp" <=> turn = 2
         /\ StopOrder[turn] = "udp" <=> turn = 1
  <1>1. turn \in {1, 2, 3}
    BY DEF TypeOK
  <1> QED
    BY <1>1 DEF StartOrder, StopOrder, Threads

LEMMA AdvanceFacts ==
  ASSUME TypeOK, NEW again, NEW then, Advance(again, then)
  PROVE  /\ turn' \in 1 .. 3 /\ step' \in {again, then}
         /\ turn = 1 => turn' = 2 /\ step' = again
         /\ turn = 2 => turn' = 3 /\ step' = again
         /\ turn = 3 => turn' = 1 /\ step' = then
  <1>1. turn \in {1, 2, 3}
    BY TurnFacts
  <1> QED
    BY <1>1 DEF Advance

LEMMA TypeInit == Init => TypeOK
  BY DEF Init, TypeOK

LEMMA MainType ==
  ASSUME TypeOK, Main \/ Signal
  PROVE  TypeOK'
  <1>1. CASE StartThread
    BY <1>1, TurnFacts DEF StartThread, Goto, connVars, TypeOK
  <1>2. CASE AwaitThread
    BY <1>2, AdvanceFacts DEF AwaitThread, loopVars, connVars, TypeOK
  <1>3. CASE Signal
    BY <1>3 DEF Signal, loopVars, connVars, TypeOK
  <1>4. CASE StopThread
    BY <1>4, TurnFacts DEF StopThread, connVars, TypeOK
  <1>5. CASE RaiseFlag
    BY <1>5, TurnFacts DEF RaiseFlag, connVars, TypeOK
  <1>6. CASE WakeThread
    <2>1. (async[StopOrder[turn]] = "open") \in BOOLEAN
      OBVIOUS
    <2>2. pending' \in [Threads -> BOOLEAN]
      BY <1>6, <2>1, TurnFacts DEF WakeThread, AsyncSend, TypeOK
    <2> QED
      BY <1>6, <2>2 DEF WakeThread, loopVars, connVars, TypeOK
  <1>7. CASE JoinThread
    BY <1>7, AdvanceFacts DEF JoinThread, loopVars, connVars, TypeOK
  <1> QED
    BY <1>1, <1>2, <1>3, <1>4, <1>5, <1>6, <1>7 DEF Main

LEMMA WorkerType ==
  ASSUME TypeOK, NEW t \in Threads, Worker(t)
  PROVE  TypeOK'
  <1> USE DEF Goto, mainVars, loopVars, connVars, TypeOK
  <1>1. CASE OnRun(t)
    BY <1>1 DEF OnRun
  <1>2. CASE OpenAsync(t)
    BY <1>2 DEF OpenAsync
  <1>3. CASE Post(t)
    BY <1>3 DEF Post, InLoop
  <1>4. CASE CheckFlag(t)
    <2>1. CASE stopFlag[t]
      BY <1>4, <2>1 DEF CheckFlag, InLoop
    <2>2. CASE ~stopFlag[t]
      BY <1>4, <2>2 DEF CheckFlag, InLoop
    <2> QED
      BY <2>1, <2>2
  <1>5. CASE AsyncCallback(t)
    BY <1>5 DEF AsyncCallback, InLoop
  <1>6. CASE LeaveEvents(t)
    BY <1>6 DEF LeaveEvents, InLoop
  <1>7. CASE CloseAsync(t)
    BY <1>7 DEF CloseAsync
  <1>8. CASE OnStop(t)
    BY <1>8 DEF OnStop
  <1> QED
    BY <1>1, <1>2, <1>3, <1>4, <1>5, <1>6, <1>7, <1>8 DEF Worker

LEMMA HandoverType ==
  ASSUME TypeOK, Tcp \/ Drain \/ \E c \in Connections : Connect(c)
  PROVE  TypeOK'
  <1> USE DEF Goto, mainVars, loopVars
  <1>1. CASE Push
    <2>1. PICK c \in accepted : queue' = Append(queue, c)
      BY <1>1 DEF Push
    <2>2. queue' \in Seq(Connections)
      BY <2>1, AppendElems DEF TypeOK
    <2> QED
      BY <1>1, <2>2 DEF Push, TypeOK, InLoop
  <1>2. CASE Notify
    <2>1. (async["clients"] = "open") \in BOOLEAN
      OBVIOUS
    <2>2. pending' \in [Threads -> BOOLEAN]
      BY <1>2, <2>1 DEF Notify, AsyncSend, TypeOK, Threads
    <2> QED
      BY <1>2, <2>2 DEF Notify, connVars, TypeOK, InLoop
  <1>3. ASSUME NEW c \in Connections, Accept(c) PROVE TypeOK'
    BY <1>3 DEF Accept, TypeOK, InLoop
  <1>4. ASSUME NEW c \in Connections, AcceptFails(c) PROVE TypeOK'
    BY <1>4 DEF AcceptFails, TypeOK, InLoop
  <1>5. CASE Drain
    <2>1. CASE queue # <<>>
      <3>1. Head(queue) \in Connections /\ Tail(queue) \in Seq(Connections)
        BY <2>1, HeadTailElems DEF TypeOK
      <3> QED
        BY <1>5, <2>1, <3>1 DEF Drain, TypeOK
    <2>2. CASE queue = <<>>
      BY <1>5, <2>2 DEF Drain, TypeOK, InLoop
    <2> QED
      BY <2>1, <2>2
  <1>6. ASSUME NEW c \in Connections, Connect(c) PROVE TypeOK'
    BY <1>6 DEF Connect, TypeOK
  <1> QED
    BY <1>1, <1>2, <1>3, <1>4, <1>5, <1>6 DEF Tcp

LEMMA TypeStep == TypeOK /\ [Next]_vars => TypeOK'
  <1> SUFFICES ASSUME TypeOK, [Next]_vars PROVE TypeOK'
    OBVIOUS
  <1>1. CASE UNCHANGED vars
    BY <1>1 DEF vars, mainVars, loopVars, connVars, TypeOK
  <1>2. CASE Next /\ ~Done
    BY <1>2, MainType, WorkerType, HandoverType DEF Next
  <1> QED
    BY <1>1, <1>2 DEF Next, Done

\* Every variable keeps its type: in particular main never runs past the end
\* of the order in which it starts and stops the threads.
THEOREM TypeCorrect == Spec => []TypeOK
  BY TypeInit, TypeStep, PTL DEF Spec

-----------------------------------------------------------------------------
(* Control: where main, the clients thread and the tcp thread are.         *)

LEMMA ControlInit == Init => ControlInv
  BY DEF Init, ControlInv, WorkerInv, UnbornInv, ClientsInv, ClientsUp,
         TcpInv, Threads, InLoop

\* While tcp is up, so is clients, inside its loop.
LEMMA LiveClients ==
  ASSUME TypeOK, ControlInv, pc["tcp"] \notin {"none", "ended"}
  PROVE  /\ started["clients"] /\ async["clients"] = "open"
         /\ pc["clients"] \in InLoop
  <1>1. ClientsUp /\ ~ClientsFlagged
    BY DEF ControlInv, TcpInv, TcpUp, ClientsUp, ClientsFlagged
  <1>2. started["clients"] /\ posted["clients"]
    BY <1>1 DEF ControlInv, ClientsInv
  <1>3. pc["clients"] \in InLoop
    BY <1>1, <1>2 DEF ControlInv, ClientsInv, WorkerInv, Threads, TypeOK
  <1> QED
    BY <1>2, <1>3 DEF ControlInv, WorkerInv, Threads

LEMMA MainControl ==
  ASSUME TypeOK, ControlInv, Main \/ Signal
  PROVE  ControlInv'
  <1> USE DEF ControlInv, loopVars, connVars
  <1>1. CASE StartThread
    <2>1. turn \in {1, 2, 3} /\ turn' = turn /\ step = "start" /\ step' = "wait"
      BY <1>1, TurnFacts DEF StartThread
    <2>2. pc[StartOrder[turn]] = "none"
      BY <1>1, <2>1, TurnFacts DEF StartThread, UnbornInv, Threads
    <2>3. WorkerInv'
      BY <1>1, <2>2, TurnFacts DEF StartThread, Goto, WorkerInv, TypeOK, InLoop
    <2>4. UnbornInv'
      BY <1>1, <2>1, TurnFacts DEF StartThread, Goto, UnbornInv, Threads, TypeOK
    <2>5. ClientsInv'
      BY <1>1, <2>1, TurnFacts DEF StartThread, Goto, ClientsInv, ClientsUp,
            ClientsFlagged, Threads, TypeOK
    <2>6. TcpInv'
      BY <1>1, <2>1, TurnFacts DEF StartThread, Goto, TcpInv, TcpUp, UnbornInv,
            Threads, TypeOK
    <2> QED
      BY <2>3, <2>4, <2>5, <2>6
  <1>2. CASE AwaitThread
    <2>1. /\ turn \in {1, 2, 3} /\ step = "wait"
          /\ turn = 1 => turn' = 2 /\ step' = "start"
          /\ turn = 2 => turn' = 3 /\ step' = "start"
          /\ turn = 3 => turn' = 1 /\ step' = "serve"
      BY <1>2, TurnFacts, AdvanceFacts DEF AwaitThread
    <2>2. turn = 1 => posted["clients"]
      BY <1>2 DEF AwaitThread, StartOrder
    <2>3. /\ pc' = pc /\ started' = started /\ posted' = posted
          /\ stopFlag' = stopFlag /\ async' = async /\ queue' = queue
      BY <1>2 DEF AwaitThread
    <2>4. WorkerInv'
      BY <2>3 DEF WorkerInv
    <2>5. UnbornInv'
      BY <2>1, <2>3 DEF UnbornInv
    <2>6. ClientsInv'
      BY <2>1, <2>2, <2>3 DEF ClientsInv, ClientsUp, ClientsFlagged
    <2>7. TcpInv'
      BY <2>1, <2>3 DEF TcpInv, TcpUp, UnbornInv
    <2> QED
      BY <2>4, <2>5, <2>6, <2>7
  <1>3. CASE Signal
    BY <1>3 DEF Signal, WorkerInv, UnbornInv, ClientsInv, ClientsUp,
          ClientsFlagged, TcpInv, TcpUp
  <1>4. CASE StopThread
    <2>1. /\ step = "stop" /\ step' = "flag" /\ turn' = turn
          /\ turn # 3 => started'["clients"] = started["clients"]
          /\ turn = 3 => ~started'["clients"]
      BY <1>4, TurnFacts DEF StopThread, TypeOK, Threads
    <2>2. WorkerInv' /\ UnbornInv'
      BY <1>4, <2>1 DEF StopThread, WorkerInv, UnbornInv
    <2>3. ClientsInv' /\ TcpInv'
      BY <1>4, <2>1 DEF StopThread, ClientsInv, ClientsUp, ClientsFlagged,
            TcpInv, TcpUp
    <2> QED
      BY <2>2, <2>3
  <1>5. CASE RaiseFlag
    <2>1. /\ step = "flag" /\ step' = "wake" /\ turn' = turn
          /\ turn # 3 => stopFlag'["clients"] = stopFlag["clients"]
      BY <1>5, TurnFacts DEF RaiseFlag, TypeOK, Threads
    <2>2. WorkerInv' /\ UnbornInv'
      BY <1>5, <2>1 DEF RaiseFlag, WorkerInv, UnbornInv
    <2>3. ClientsInv' /\ TcpInv'
      BY <1>5, <2>1 DEF RaiseFlag, ClientsInv, ClientsUp, ClientsFlagged,
            TcpInv, TcpUp
    <2> QED
      BY <2>2, <2>3
  <1>6. CASE WakeThread
    BY <1>6 DEF WakeThread, WorkerInv, UnbornInv, ClientsInv, ClientsUp,
          ClientsFlagged, TcpInv, TcpUp
  <1>7. CASE JoinThread
    <2>1. /\ turn \in {1, 2, 3} /\ step = "join"
          /\ turn = 1 => turn' = 2 /\ step' = "stop"
          /\ turn = 2 => turn' = 3 /\ step' = "stop"
          /\ turn = 3 => turn' = 1 /\ step' = "done"
      BY <1>7, TurnFacts, AdvanceFacts DEF JoinThread
    <2>2. turn = 2 => pc["tcp"] = "ended"
      BY <1>7 DEF JoinThread, StopOrder
    <2>3. /\ pc' = pc /\ started' = started /\ posted' = posted
          /\ stopFlag' = stopFlag /\ async' = async /\ queue' = queue
      BY <1>7 DEF JoinThread
    <2>4. WorkerInv' /\ UnbornInv'
      BY <2>1, <2>3 DEF WorkerInv, UnbornInv
    <2>5. ClientsInv' /\ TcpInv'
      BY <2>1, <2>2, <2>3 DEF ClientsInv, ClientsUp, ClientsFlagged, TcpInv, TcpUp
    <2> QED
      BY <2>4, <2>5
  <1> QED
    BY <1>1, <1>2, <1>3, <1>4, <1>5, <1>6, <1>7 DEF Main

\* A worker leaves the steps of main alone; what counts is where it goes.
LEMMA WorkerControl ==
  ASSUME TypeOK, ControlInv, NEW t \in Threads, Worker(t)
  PROVE  ControlInv'
  <1> USE DEF Goto
  <1>1. /\ step' = step /\ turn' = turn /\ started' = started /\ queue' = queue
        /\ pc[t] \notin {"none", "ended"} /\ pc'[t] # "none"
        /\ \A u \in Threads : u # t => /\ pc'[u] = pc[u] /\ async'[u] = async[u]
                                     /\ posted'[u] = posted[u]
                                     /\ stopFlag'[u] = stopFlag[u]
    <2> USE DEF mainVars, loopVars, connVars, TypeOK
    <2>1. CASE OnRun(t) \/ OpenAsync(t) \/ Post(t)
      BY <2>1 DEF OnRun, OpenAsync, Post
    <2>2. CASE CheckFlag(t)
      BY <2>2 DEF CheckFlag
    <2>3. CASE AsyncCallback(t) \/ LeaveEvents(t)
      BY <2>3 DEF AsyncCallback, LeaveEvents
    <2>4. CASE CloseAsync(t) \/ OnStop(t)
      BY <2>4 DEF CloseAsync, OnStop
    <2> QED
      BY <2>1, <2>2, <2>3, <2>4 DEF Worker
  <1>2. /\ pc'[t] \in InLoop \cup {"post", "close"} => async'[t] = "open"
        /\ posted'[t] => pc'[t] \notin {"none", "run", "init", "post"}
        /\ stopFlag'[t] => stopFlag[t]
        /\ posted[t] => posted'[t]
        /\ pc'[t] \in {"close", "finish", "ended"} =>
              pc[t] \in {"close", "finish"} \/ stopFlag[t]
    <2> USE DEF ControlInv, WorkerInv, InLoop, mainVars, loopVars, connVars, TypeOK
    <2>1. CASE OnRun(t) \/ OpenAsync(t) \/ Post(t)
      BY <2>1 DEF OnRun, OpenAsync, Post
    <2>2. CASE CheckFlag(t)
      BY <2>2 DEF CheckFlag
    <2>3. CASE AsyncCallback(t) \/ LeaveEvents(t)
      BY <2>3 DEF AsyncCallback, LeaveEvents
    <2>4. CASE CloseAsync(t) \/ OnStop(t)
      BY <2>4 DEF CloseAsync, OnStop
    <2> QED
      BY <2>1, <2>2, <2>3, <2>4 DEF Worker
  <1>3. WorkerInv'
    BY <1>1, <1>2 DEF ControlInv, WorkerInv
  <1>4. UnbornInv'
    BY <1>1 DEF ControlInv, UnbornInv, Threads
  <1>5. ClientsInv'
    BY <1>1, <1>2 DEF ControlInv, ClientsInv, ClientsUp, ClientsFlagged, Threads
  <1>6. TcpInv'
    BY <1>1 DEF ControlInv, TcpInv, TcpUp, Threads
  <1> QED
    BY <1>3, <1>4, <1>5, <1>6 DEF ControlInv

\* The hand-over moves tcp and clients inside their loops only.
LEMMA HandoverControl ==
  ASSUME TypeOK, ControlInv, Tcp \/ Drain \/ \E c \in Connections : Connect(c)
  PROVE  ControlInv'
  <1> DEFINE Control == /\ step' = step /\ turn' = turn /\ started' = started
                        /\ posted' = posted /\ stopFlag' = stopFlag /\ async' = async
             Moves(t) == /\ pc[t] \in InLoop /\ pc'[t] \in InLoop
                         /\ \A u \in Threads : u # t => pc'[u] = pc[u]
  <1>0. /\ pc = [u \in Threads |-> pc[u]]
        /\ "tcp" \in Threads /\ "clients" \in Threads
    BY DEF TypeOK, Threads
  <1>1. Control /\ (pc' = pc \/ Moves("tcp") \/ Moves("clients"))
    <2> USE DEF Goto, mainVars, loopVars
    <2>1. CASE Push
      BY <1>0, <2>1 DEF Push, InLoop
    <2>2. CASE Notify
      BY <1>0, <2>2 DEF Notify, InLoop
    <2>3. CASE \E c \in Connections : Accept(c)
      BY <1>0, <2>3 DEF Accept, InLoop
    <2>4. CASE \E c \in Connections : AcceptFails(c)
      BY <1>0, <2>4 DEF AcceptFails, InLoop
    <2>5. CASE Drain
      BY <1>0, <2>5 DEF Drain, InLoop
    <2>6. CASE \E c \in Connections : Connect(c)
      BY <2>6 DEF Connect
    <2> QED
      BY <2>1, <2>2, <2>3, <2>4, <2>5, <2>6 DEF Tcp
  <1>2. queue' = queue \/ pc["tcp"] = "push" \/ pc["clients"] = "drain"
    BY DEF Tcp, Push, Notify, Accept, AcceptFails, Drain, Connect, connVars
  <1>3. WorkerInv'
    BY <1>1 DEF ControlInv, WorkerInv, InLoop
  <1>4. UnbornInv'
    BY <1>1, <1>2 DEF ControlInv, UnbornInv, InLoop, Threads
  <1>5. ClientsInv'
    BY <1>1 DEF ControlInv, ClientsInv, ClientsUp, ClientsFlagged, InLoop, Threads
  <1>6. TcpInv'
    BY <1>1 DEF ControlInv, TcpInv, TcpUp, InLoop, Threads
  <1> QED
    BY <1>3, <1>4, <1>5, <1>6 DEF ControlInv

LEMMA ControlStep == TypeOK /\ ControlInv /\ [Next]_vars => ControlInv'
  <1> SUFFICES ASSUME TypeOK, ControlInv, [Next]_vars PROVE ControlInv'
    OBVIOUS
  <1>1. CASE UNCHANGED vars
    BY <1>1 DEF vars, mainVars, loopVars, connVars, ControlInv, WorkerInv, UnbornInv,
          ClientsInv, ClientsUp, ClientsFlagged, TcpInv, TcpUp
  <1>2. CASE Next /\ ~Done
    BY <1>2, MainControl, WorkerControl, HandoverControl DEF Next
  <1> QED
    BY <1>1, <1>2 DEF Next, Done

\* A connection is handed over only to a clients thread that runs its loop and
\* is not being stopped, whatever the threads do around it.
THEOREM HandsToLiveLoop == Spec => []HandoverToLiveLoop
  <1>1. TypeOK /\ ControlInv => HandoverToLiveLoop
    BY LiveClients DEF HandoverToLiveLoop
  <1> QED
    BY <1>1, TypeInit, TypeStep, ControlInit, ControlStep, PTL DEF Spec

-----------------------------------------------------------------------------
(* Connections: where each of them is.                                     *)

LEMMA PlacesInit == Init => PlacesInv
  BY DEF Init, PlacesInv, AttachedOnce, Elems

LEMMA PlacesStep == TypeOK /\ PlacesInv /\ [Next]_vars => PlacesInv'
  <1> SUFFICES ASSUME TypeOK, PlacesInv, [Next]_vars PROVE PlacesInv'
    OBVIOUS
  <1>1. CASE UNCHANGED connVars
    BY <1>1 DEF connVars, PlacesInv, AttachedOnce
  <1>2. ASSUME NEW c \in Connections, Accept(c) PROVE PlacesInv'
    BY <1>2 DEF Accept, PlacesInv, AttachedOnce
  <1>3. ASSUME NEW c \in Connections, AcceptFails(c) PROVE PlacesInv'
    BY <1>3 DEF AcceptFails, PlacesInv, AttachedOnce
  <1>4. CASE Push
    <2>1. PICK c \in accepted : queue' = Append(queue, c)
      BY <1>4 DEF Push
    <2>2. c \in Connections /\ queue \in Seq(Connections)
      BY DEF TypeOK
    <2>3. /\ Elems(queue') = Elems(queue) \cup {c}
          /\ \A i, j \in DOMAIN queue' : queue'[i] = queue'[j] => i = j
      BY <2>1, <2>2, AppendElems DEF PlacesInv, AttachedOnce
    <2>4. accepted' = {} /\ backlog' = backlog /\ attached' = attached
      BY <1>4 DEF Push
    <2> QED
      BY <2>1, <2>3, <2>4 DEF PlacesInv, AttachedOnce
  <1>5. CASE Drain /\ queue # <<>>
    <2>1. /\ queue' = Tail(queue) /\ attached' = attached \cup {Head(queue)}
          /\ accepted' = accepted /\ backlog' = backlog
      BY <1>5 DEF Drain
    <2>2. /\ Head(queue) \in Elems(queue) /\ Head(queue) \notin Elems(queue')
          /\ Elems(queue') \subseteq Elems(queue)
          /\ \A i, j \in DOMAIN queue' : queue'[i] = queue'[j] => i = j
      BY <1>5, <2>1, HeadTailElems DEF TypeOK, PlacesInv, AttachedOnce
    <2> QED
      BY <2>1, <2>2 DEF PlacesInv, AttachedOnce
  <1>6. CASE Drain /\ queue = <<>>
    BY <1>6 DEF Drain, PlacesInv, AttachedOnce
  <1>7. ASSUME NEW c \in Connections, Connect(c) PROVE PlacesInv'
    BY <1>7 DEF Connect, PlacesInv, AttachedOnce
  <1>8. Main \/ Signal \/ Done \/ Notify \/ (\E t \in Threads : Worker(t))
          => UNCHANGED connVars
    <2>1. Main => UNCHANGED connVars
      BY DEF Main, StartThread, AwaitThread, StopThread, RaiseFlag, WakeThread,
             JoinThread
    <2>2. ASSUME NEW t \in Threads, Worker(t) PROVE UNCHANGED connVars
      BY <2>2 DEF Worker, OnRun, OpenAsync, Post, CheckFlag, AsyncCallback,
            LeaveEvents, CloseAsync, OnStop
    <2> QED
      BY <2>1, <2>2 DEF Signal, Done, Notify, vars
  <1>9. UNCHANGED vars => UNCHANGED connVars
    BY DEF vars
  <1> QED
    BY <1>1, <1>2, <1>3, <1>4, <1>5, <1>6, <1>7, <1>8, <1>9 DEF Next, Tcp

\* No connection is given to two objects, and none is queued twice.
THEOREM GivenOnce == Spec => []AttachedOnce
  <1>1. PlacesInv => AttachedOnce
    BY DEF PlacesInv
  <1> QED
    BY <1>1, TypeInit, TypeStep, PlacesInit, PlacesStep, PTL DEF Spec

-----------------------------------------------------------------------------
(* Wake-ups.                                                               *)

LEMMA WakeInit == Init => WakeInv
  BY DEF Init, WakeInv

LEMMA MainWake ==
  ASSUME TypeOK, ControlInv, WakeInv, Main \/ Signal
  PROVE  WakeInv'
  <1>1. CASE StartThread
    <2>1. queue # <<>> => turn # 1
      BY <1>1 DEF ControlInv, UnbornInv, StartThread
    <2>2. StartOrder[turn] = "clients" \/ started'["clients"] = started["clients"]
      BY <1>1, TurnFacts DEF StartThread, TypeOK, Threads
    <2>3. /\ pc'["tcp"] = "notify" <=> pc["tcp"] = "notify"
          /\ turn # 1 => pc'["clients"] = pc["clients"]
      BY <1>1, TurnFacts DEF StartThread, Goto, ControlInv, UnbornInv, Threads, TypeOK
    <2>4. queue' = queue /\ pending' = pending
      BY <1>1 DEF StartThread, connVars
    <2> QED
      BY <2>1, <2>2, <2>3, <2>4, TurnFacts DEF WakeInv
  <1>2. CASE AwaitThread \/ JoinThread \/ Signal
    BY <1>2 DEF AwaitThread, JoinThread, Signal, loopVars, connVars, WakeInv
  <1>3. CASE StopThread
    <2>1. started'["clients"] => started["clients"]
      BY <1>3, TurnFacts DEF StopThread, TypeOK, Threads
    <2> QED
      BY <1>3, <2>1 DEF StopThread, connVars, WakeInv
  <1>4. CASE RaiseFlag
    BY <1>4 DEF RaiseFlag, connVars, WakeInv
  <1>5. CASE WakeThread
    <2>1. /\ queue' = queue /\ pc' = pc /\ started' = started
          /\ step = "wake" /\ pending' = [pending EXCEPT
                 ![StopOrder[turn]] = (async[StopOrder[turn]] = "open")]
      BY <1>5 DEF WakeThread, AsyncSend, loopVars, connVars
    <2>2. CASE StopOrder[turn] = "clients"
      <3>1. ~started["clients"]
        BY <2>1, <2>2, TurnFacts DEF ControlInv, ClientsInv
      <3> QED
        BY <2>1, <3>1 DEF WakeInv
    <2>3. CASE StopOrder[turn] # "clients"
      <3>1. pending'["clients"] = pending["clients"]
        BY <2>1, <2>3, TurnFacts DEF TypeOK, Threads
      <3> QED
        BY <2>1, <3>1 DEF WakeInv
    <2> QED
      BY <2>2, <2>3
  <1> QED
    BY <1>1, <1>2, <1>3, <1>4, <1>5 DEF Main

LEMMA WorkerWake ==
  ASSUME TypeOK, WakeInv, NEW t \in Threads, Worker(t)
  PROVE  WakeInv'
  <1>0. /\ pc = [u \in Threads |-> pc[u]] /\ pending = [u \in Threads |-> pending[u]]
        /\ "tcp" \in Threads /\ "clients" \in Threads
    BY DEF TypeOK, Threads
  <1> USE DEF Goto, mainVars, loopVars, connVars
  <1>1. ASSUME pc[t] # "drain", pc[t] # "notify", ~AsyncCallback(t)
        PROVE  WakeInv'
    <2>1. queue' = queue /\ started' = started /\ pending' = pending
      BY <1>1 DEF Worker, OnRun, OpenAsync, Post, CheckFlag, LeaveEvents,
            CloseAsync, OnStop
    <2>2. \A u \in Threads : u # t => pc'[u] = pc[u]
      BY <1>0, <1>1 DEF Worker, OnRun, OpenAsync, Post, CheckFlag, LeaveEvents,
            CloseAsync, OnStop
    <2> QED
      BY <1>0, <1>1, <2>1, <2>2 DEF WakeInv
  <1>2. CASE AsyncCallback(t) /\ t = "clients"
    <2>1. queue' = queue /\ started' = started
      BY <1>2 DEF AsyncCallback
    <2>2. started["clients"] => pc'["clients"] = "drain"
      BY <1>0, <1>2 DEF AsyncCallback
    <2> QED
      BY <2>1, <2>2 DEF WakeInv
  <1>3. CASE AsyncCallback(t) /\ t # "clients"
    <2>1. /\ queue' = queue /\ started' = started
          /\ pc'["clients"] = pc["clients"] /\ pending'["clients"] = pending["clients"]
          /\ pc["tcp"] = "notify" => pc'["tcp"] = "notify"
      BY <1>0, <1>3 DEF AsyncCallback
    <2> QED
      BY <2>1 DEF WakeInv
  <1>4. pc[t] \notin {"drain", "notify"}
    BY DEF Worker, OnRun, OpenAsync, Post, CheckFlag, AsyncCallback, LeaveEvents,
           CloseAsync, OnStop
  <1> QED
    BY <1>1, <1>2, <1>3, <1>4

LEMMA HandoverWake ==
  ASSUME TypeOK, ControlInv, WakeInv, Tcp \/ Drain \/ \E c \in Connections : Connect(c)
  PROVE  WakeInv'
  <1>0. /\ pc = [u \in Threads |-> pc[u]] /\ pending = [u \in Threads |-> pending[u]]
        /\ "tcp" \in Threads /\ "clients" \in Threads
    BY DEF TypeOK, Threads
  <1> USE DEF Goto, mainVars, loopVars
  <1>1. CASE Push
    <2>1. pc'["tcp"] = "notify"
      BY <1>0, <1>1 DEF Push
    <2> QED
      BY <2>1 DEF WakeInv
  <1>2. CASE Notify
    <2>1. async["clients"] = "open"
      BY <1>2, LiveClients DEF Notify
    <2>2. pending'["clients"]
      BY <1>0, <1>2, <2>1 DEF Notify, AsyncSend
    <2> QED
      BY <2>2 DEF WakeInv
  <1>3. ASSUME NEW c \in Connections, Accept(c) \/ AcceptFails(c)
        PROVE  WakeInv'
    <2>1. /\ queue' = queue /\ started' = started /\ pending' = pending
          /\ pc'["clients"] = pc["clients"] /\ pc["tcp"] # "notify"
      BY <1>0, <1>3 DEF Accept, AcceptFails
    <2> QED
      BY <2>1 DEF WakeInv
  <1>4. CASE Drain
    <2>1. CASE queue = <<>>
      BY <1>4, <2>1 DEF Drain, WakeInv
    <2>2. CASE queue # <<>>
      BY <1>4, <2>2 DEF Drain, WakeInv
    <2> QED
      BY <2>1, <2>2
  <1>5. CASE \E c \in Connections : Connect(c)
    BY <1>5 DEF Connect, WakeInv
  <1> QED
    BY <1>1, <1>2, <1>3, <1>4, <1>5 DEF Tcp

LEMMA WakeStep == TypeOK /\ ControlInv /\ WakeInv /\ [Next]_vars => WakeInv'
  <1> SUFFICES ASSUME TypeOK, ControlInv, WakeInv, [Next]_vars PROVE WakeInv'
    OBVIOUS
  <1>1. CASE UNCHANGED vars
    BY <1>1 DEF vars, mainVars, loopVars, connVars, WakeInv
  <1>2. CASE Next /\ ~Done
    BY <1>2, MainWake, WorkerWake, HandoverWake DEF Next
  <1> QED
    BY <1>1, <1>2 DEF Next, Done

\* A clients thread does not go to sleep on a connection that waits in its
\* queue, however many wake-ups were merged into one, until it is stopped.
THEOREM NothingForgotten == Spec => []NoLostWakeup
  <1>1. WakeInv => NoLostWakeup
    BY DEF WakeInv, NoLostWakeup
  <1> QED
    BY <1>1, TypeInit, TypeStep, ControlInit, ControlStep, WakeInit, WakeStep,
       PTL DEF Spec
-----------------------------------------------------------------------------
(* main: what it has done with each thread.                                *)

StartTurn(t) == CASE t = "clients" -> 1 [] t = "tcp" -> 2 [] t = "udp" -> 3
StopTurn(t)  == CASE t = "udp" -> 1 [] t = "tcp" -> 2 [] t = "clients" -> 3

\* How far main is with a thread.
Stage(t) ==
    CASE step = "start" -> IF turn <= StartTurn(t) THEN "before" ELSE "up"
      [] step = "wait"  -> IF turn < StartTurn(t) THEN "before"
                           ELSE IF turn = StartTurn(t) THEN "awaited" ELSE "up"
      [] step = "serve" -> "up"
      [] step = "done"  -> "over"
      [] OTHER          -> IF turn < StopTurn(t) THEN "up"
                           ELSE IF turn > StopTurn(t) THEN "over"
                           ELSE IF step = "stop" THEN "up" ELSE step

\* What a thread is at by then.
InStage(t) ==
    /\ Stage(t) = "before" => ~started[t] /\ pc[t] = "none"
    /\ Stage(t) = "awaited" =>
          started[t] /\ (posted[t] \/ pc[t] \in {"run", "init", "post"})
    /\ Stage(t) = "up" => started[t]
    /\ Stage(t) \in {"flag", "wake", "join", "over"} => ~started[t]
    /\ Stage(t) \notin {"before", "awaited"} => posted[t]
    /\ pc[t] \in {"close", "finish", "ended"} => Stage(t) \in {"wake", "join", "over"}
    /\ stopFlag[t] => Stage(t) \in {"wake", "join", "over"}
    /\ Stage(t) \in {"wake", "join"} /\ pc[t] \in InLoop => stopFlag[t]
    /\ Stage(t) = "join" /\ pc[t] = "poll" => pending[t]
    /\ Stage(t) = "over" => pc[t] = "ended"

StageInv == \A t \in Threads : InStage(t)

LEMMA StageFacts ==
  ASSUME TypeOK, NEW t \in Threads
  PROVE  /\ step = "start" /\ StartOrder[turn] = t => Stage(t) = "before"
         /\ step = "wait" /\ StartOrder[turn] = t => Stage(t) = "awaited"
         /\ step = "stop" /\ StopOrder[turn] = t => Stage(t) = "up"
         /\ step \in {"flag", "wake", "join"} /\ StopOrder[turn] = t => Stage(t) = step
         /\ Stage(t) \in {"before", "awaited", "up", "flag", "wake", "join", "over"}
  <1>1. turn \in {1, 2, 3} /\ t \in {"clients", "tcp", "udp"}
    BY TurnFacts DEF Threads
  <1>2. step \in {"start", "wait", "serve", "stop", "flag", "wake", "join", "done"}
    BY DEF TypeOK
  <1> QED
    BY <1>1, <1>2, TurnFacts DEF Stage, StartTurn, StopTurn

\* What the steps of main make of the stages.
LEMMA StageNext ==
  ASSUME TypeOK, UnbornInv, NEW t \in Threads
  PROVE  /\ StartThread =>
              Stage(t)' = IF t = StartOrder[turn] THEN "awaited" ELSE Stage(t)
         /\ AwaitThread =>
              Stage(t)' = IF t = StartOrder[turn] THEN "up" ELSE Stage(t)
         /\ Signal => Stage(t)' = Stage(t)
         /\ StopThread =>
              Stage(t)' = IF t = StopOrder[turn] THEN "flag" ELSE Stage(t)
         /\ RaiseFlag =>
              Stage(t)' = IF t = StopOrder[turn] THEN "wake" ELSE Stage(t)
         /\ WakeThread =>
              Stage(t)' = IF t = StopOrder[turn] THEN "join" ELSE Stage(t)
         /\ JoinThread =>
              Stage(t)' = IF t = StopOrder[turn] THEN "over" ELSE Stage(t)
  <1>1. turn \in {1, 2, 3} /\ t \in {"clients", "tcp", "udp"}
    BY TurnFacts DEF Threads
  <1> USE DEF Stage, StartTurn, StopTurn
  <1>2. StartThread => Stage(t)' = IF t = StartOrder[turn] THEN "awaited" ELSE Stage(t)
    BY <1>1, TurnFacts DEF StartThread
  <1>3. AwaitThread => Stage(t)' = IF t = StartOrder[turn] THEN "up" ELSE Stage(t)
    BY <1>1, TurnFacts, AdvanceFacts DEF AwaitThread
  <1>4. ASSUME Signal PROVE Stage(t)' = Stage(t)
    <2>1. step = "serve" /\ step' = "stop" /\ turn = 1 /\ turn' = 1
      BY <1>4 DEF Signal, UnbornInv
    <2> QED
      BY <1>1, <2>1
  <1>5. StopThread => Stage(t)' = IF t = StopOrder[turn] THEN "flag" ELSE Stage(t)
    BY <1>1, TurnFacts DEF StopThread
  <1>6. RaiseFlag => Stage(t)' = IF t = StopOrder[turn] THEN "wake" ELSE Stage(t)
    BY <1>1, TurnFacts DEF RaiseFlag
  <1>7. WakeThread => Stage(t)' = IF t = StopOrder[turn] THEN "join" ELSE Stage(t)
    BY <1>1, TurnFacts DEF WakeThread
  <1>8. JoinThread => Stage(t)' = IF t = StopOrder[turn] THEN "over" ELSE Stage(t)
    BY <1>1, TurnFacts, AdvanceFacts DEF JoinThread
  <1> QED
    BY <1>2, <1>3, <1>4, <1>5, <1>6, <1>7, <1>8

LEMMA StageInit == Init => StageInv
  BY DEF Init, StageInv, InStage, Stage, StartTurn, StopTurn, Threads, InLoop

LEMMA MainStage ==
  ASSUME TypeOK, ControlInv, StageInv, Main \/ Signal
  PROVE  StageInv'
  <1> SUFFICES ASSUME NEW t \in Threads PROVE InStage(t)'
    BY DEF StageInv
  <1>0. InStage(t) /\ WorkerInv /\ UnbornInv
    BY DEF StageInv, ControlInv
  <1> USE DEF InStage, loopVars, connVars
  <1>1. CASE StartThread
    BY <1>0, <1>1, StageFacts, StageNext, TurnFacts
       DEF StartThread, Goto, TypeOK, WorkerInv, InLoop
  <1>2. CASE AwaitThread
    BY <1>0, <1>2, StageFacts, StageNext, TurnFacts DEF AwaitThread, WorkerInv
  <1>3. CASE Signal
    BY <1>0, <1>3, StageNext DEF Signal
  <1>4. CASE StopThread
    BY <1>0, <1>4, StageFacts, StageNext, TurnFacts DEF StopThread, TypeOK
  <1>5. CASE RaiseFlag
    BY <1>0, <1>5, StageFacts, StageNext, TurnFacts DEF RaiseFlag, TypeOK
  <1>6. CASE WakeThread
    <2>1. pc[t] = "poll" => async[t] = "open"
      BY <1>0 DEF WorkerInv, InLoop
    <2>2. t = StopOrder[turn] /\ pc[t] = "poll" => pending'[t]
      BY <1>6, <2>1 DEF WakeThread, AsyncSend, TypeOK
    <2>3. t # StopOrder[turn] => pending'[t] = pending[t]
      BY <1>6 DEF WakeThread, AsyncSend, TypeOK
    <2> QED
      BY <1>0, <1>6, <2>2, <2>3, StageFacts, StageNext DEF WakeThread
  <1>7. CASE JoinThread
    BY <1>0, <1>7, StageFacts, StageNext, TurnFacts DEF JoinThread
  <1> QED
    BY <1>1, <1>2, <1>3, <1>4, <1>5, <1>6, <1>7 DEF Main

\* The threads leave the stages alone. A thread that is to stop finds its flag
\* raised the next time it looks, and has a wake-up if it is asleep.
LEMMA ThreadStage ==
  ASSUME TypeOK, ControlInv, StageInv,
         Tcp \/ Drain \/ (\E c \in Connections : Connect(c))
           \/ \E u \in Threads : Worker(u)
  PROVE  StageInv'
  <1> SUFFICES ASSUME NEW t \in Threads PROVE InStage(t)'
    BY DEF StageInv
  <1>0. InStage(t) /\ WorkerInv
    BY DEF StageInv, ControlInv
  <1> USE DEF Goto, mainVars, loopVars, connVars, InLoop
  <1>1. ASSUME NEW u \in Threads, Worker(u) PROVE InStage(t)'
    <2>1. Stage(t)' = Stage(t) /\ started' = started
      BY <1>1 DEF Stage, Worker, OnRun, OpenAsync, Post, CheckFlag, AsyncCallback,
                  LeaveEvents, CloseAsync, OnStop
    <2>2. CASE u # t
      <3>1. /\ pc'[t] = pc[t] /\ posted'[t] = posted[t]
            /\ stopFlag'[t] = stopFlag[t] /\ pending'[t] = pending[t]
        BY <1>1, <2>2 DEF TypeOK, Worker, OnRun, OpenAsync, Post, CheckFlag,
                          AsyncCallback, LeaveEvents, CloseAsync, OnStop
      <3> QED
        BY <1>0, <2>1, <3>1 DEF InStage
    <2>3. CASE u = t
      <3> USE <1>0, <1>1, <2>1, <2>3, StageFacts DEF InStage, TypeOK, WorkerInv
      <3>1. CASE OnRun(t)
        BY <3>1 DEF OnRun
      <3>2. CASE OpenAsync(t)
        BY <3>2 DEF OpenAsync
      <3>3. CASE Post(t)
        BY <3>3 DEF Post
      <3>4. CASE CheckFlag(t)
        BY <3>4 DEF CheckFlag
      <3>5. CASE AsyncCallback(t)
        BY <3>5 DEF AsyncCallback
      <3>6. CASE LeaveEvents(t)
        BY <3>6 DEF LeaveEvents
      <3>7. CASE CloseAsync(t)
        BY <3>7 DEF CloseAsync
      <3>8. CASE OnStop(t)
        BY <3>8 DEF OnStop
      <3> QED
        BY <3>1, <3>2, <3>3, <3>4, <3>5, <3>6, <3>7, <3>8 DEF Worker
    <2> QED
      BY <2>2, <2>3
  <1>2. CASE Tcp \/ Drain \/ \E c \in Connections : Connect(c)
    <2>1. /\ Stage(t)' = Stage(t) /\ started' = started
          /\ posted' = posted /\ stopFlag' = stopFlag
      BY <1>2 DEF Stage, Tcp, Push, Notify, Accept, AcceptFails, Drain, Connect
    <2>2. /\ pc'[t] = pc[t] \/ (pc[t] \in InLoop /\ pc'[t] \in InLoop \ {"poll"})
          /\ pending[t] => pending'[t]
      <3>1. CASE Notify
        <4>1. async["clients"] = "open"
          BY <3>1, LiveClients DEF Notify
        <4> QED
          BY <3>1, <4>1 DEF Notify, AsyncSend, TypeOK
      <3>2. CASE Push \/ Drain
        BY <3>2 DEF Push, Drain, TypeOK
      <3>3. ASSUME NEW c \in Connections, Accept(c) \/ AcceptFails(c) \/ Connect(c)
            PROVE  pending[t] => pending'[t]
        BY <3>3 DEF Accept, AcceptFails, Connect, TypeOK
      <3>4. ASSUME NEW c \in Connections, Accept(c) \/ AcceptFails(c) \/ Connect(c)
            PROVE  pc'[t] = pc[t] \/ (pc[t] \in InLoop /\ pc'[t] \in InLoop \ {"poll"})
        BY <3>4 DEF Accept, AcceptFails, Connect, TypeOK
      <3> QED
        BY <1>2, <3>1, <3>2, <3>3, <3>4 DEF Tcp
    <2> QED
      BY <1>0, <2>1, <2>2 DEF InStage
  <1> QED
    BY <1>1, <1>2

LEMMA StageStep == TypeOK /\ ControlInv /\ StageInv /\ [Next]_vars => StageInv'
  <1> SUFFICES ASSUME TypeOK, ControlInv, StageInv, [Next]_vars PROVE StageInv'
    OBVIOUS
  <1>1. CASE UNCHANGED vars
    BY <1>1 DEF vars, mainVars, loopVars, connVars, StageInv, InStage, Stage
  <1>2. CASE Next /\ ~Done
    BY <1>2, MainStage, ThreadStage DEF Next
  <1> QED
    BY <1>1, <1>2 DEF Next, Done

\* main waits only for what is about to happen: the threads it starts are down,
\* those it stops are up, and the one it joins sees that it is to end.
THEOREM NeverHangs == Spec => []MainNeverHangs
  <1>1. TypeOK /\ StageInv => MainNeverHangs
    <2> SUFFICES ASSUME TypeOK, StageInv PROVE MainNeverHangs
      OBVIOUS
    <2>1. turn \in {1, 2, 3} /\ StartOrder[turn] \in Threads /\ StopOrder[turn] \in Threads
      BY TurnFacts DEF Threads
    <2>2. InStage(StartOrder[turn]) /\ InStage(StopOrder[turn])
      BY <2>1 DEF StageInv
    <2>3. /\ step = "start" => Stage(StartOrder[turn]) = "before"
          /\ step = "wait" => Stage(StartOrder[turn]) = "awaited"
          /\ step = "stop" => Stage(StopOrder[turn]) = "up"
          /\ step = "join" => Stage(StopOrder[turn]) = "join"
      BY <2>1, StageFacts
    <2> QED
      BY <2>2, <2>3 DEF InStage, MainNeverHangs
  <1> QED
    BY <1>1, TypeInit, TypeStep, ControlInit, ControlStep, StageInit, StageStep,
       PTL DEF Spec

-----------------------------------------------------------------------------
(* The threads are a pipe for connections.                                 *)

\* tcp holds a connection from accept to push, and one only.
HandInv ==
    \/ pc["tcp"] # "push" /\ accepted = {} /\ InHand = <<>>
    \/ pc["tcp"] = "push" /\ \E c \in Connections : accepted = {c} /\ InHand = <<c>>

LEMMA InHandNext ==
  /\ \A c : accepted' = {c} => InHand' = <<c>>
  /\ accepted' = {} => InHand' = <<>>
  /\ accepted' = accepted => InHand' = InHand
  <1>1. ASSUME NEW c, accepted' = {c} PROVE InHand' = <<c>>
    <2>1. accepted' # {} /\ \E x \in accepted' : TRUE
      BY <1>1
    <2>2. (CHOOSE x \in accepted' : TRUE) \in accepted'
      BY <2>1
    <2>3. (CHOOSE x \in accepted' : TRUE) = c
      BY <1>1, <2>2
    <2> QED
      BY <2>1, <2>3 DEF InHand
  <1>2. accepted' = {} => InHand' = <<>>
    BY DEF InHand
  <1>3. accepted' = accepted => InHand' = InHand
    BY DEF InHand
  <1> QED
    BY <1>1, <1>2, <1>3

LEMMA HandInit == Init => HandInv
  BY DEF Init, HandInv, InHand, Threads

LEMMA HandStep == TypeOK /\ ControlInv /\ HandInv /\ [Next]_vars => HandInv'
  <1> SUFFICES ASSUME TypeOK, ControlInv, HandInv, [Next]_vars PROVE HandInv'
    OBVIOUS
  <1> USE DEF Goto, mainVars, loopVars, connVars
  <1>1. ASSUME pc'["tcp"] = pc["tcp"] \/ (pc["tcp"] # "push" /\ pc'["tcp"] # "push"),
               accepted' = accepted
        PROVE  HandInv'
    BY <1>1, InHandNext DEF HandInv
  <1>2. CASE Main \/ Signal
    <2>1. accepted' = accepted
      BY <1>2 DEF Main, StartThread, AwaitThread, StopThread, RaiseFlag, WakeThread,
                  JoinThread, Signal
    <2>2. pc'["tcp"] = pc["tcp"] \/ (pc["tcp"] # "push" /\ pc'["tcp"] # "push")
      <3>1. CASE StartThread
        <4>1. StartOrder[turn] = "tcp" => pc["tcp"] = "none"
          BY <3>1, TurnFacts DEF StartThread, ControlInv, UnbornInv
        <4> QED
          BY <3>1, <4>1, TurnFacts DEF StartThread, TypeOK, Threads
      <3> QED
        BY <1>2, <3>1 DEF Main, AwaitThread, StopThread, RaiseFlag, WakeThread,
                          JoinThread, Signal
    <2> QED
      BY <1>1, <2>1, <2>2
  <1>3. ASSUME NEW t \in Threads, Worker(t) PROVE HandInv'
    <2>1. accepted' = accepted
      BY <1>3 DEF Worker, OnRun, OpenAsync, Post, CheckFlag, AsyncCallback,
                  LeaveEvents, CloseAsync, OnStop
    <2>2. t # "tcp" => pc'["tcp"] = pc["tcp"]
      BY <1>3 DEF Worker, OnRun, OpenAsync, Post, CheckFlag, AsyncCallback,
                  LeaveEvents, CloseAsync, OnStop, TypeOK, Threads
    <2>3. pc[t] # "push" /\ pc'[t] # "push"
      BY <1>3 DEF Worker, OnRun, OpenAsync, Post, CheckFlag, AsyncCallback,
                  LeaveEvents, CloseAsync, OnStop, TypeOK
    <2> QED
      BY <1>1, <2>1, <2>2, <2>3
  <1>4. ASSUME NEW c \in Connections, Accept(c) PROVE HandInv'
    <2>1. pc'["tcp"] = "push" /\ accepted' = {c}
      BY <1>4 DEF Accept, TypeOK, Threads
    <2>2. InHand' = <<c>>
      BY <2>1, InHandNext
    <2> QED
      BY <2>1, <2>2 DEF HandInv
  <1>5. CASE Push
    <2>1. pc'["tcp"] = "notify" /\ accepted' = {}
      BY <1>5 DEF Push, TypeOK, Threads
    <2>2. InHand' = <<>>
      BY <2>1, InHandNext
    <2> QED
      BY <2>1, <2>2 DEF HandInv
  <1>6. ASSUME Notify \/ Drain \/ \E c \in Connections : AcceptFails(c) \/ Connect(c)
        PROVE  HandInv'
    <2>1. accepted' = accepted
      BY <1>6 DEF Notify, Drain, AcceptFails, Connect
    <2>2. pc'["tcp"] = pc["tcp"] \/ (pc["tcp"] # "push" /\ pc'["tcp"] # "push")
      BY <1>6 DEF Notify, Drain, AcceptFails, Connect, TypeOK, Threads
    <2> QED
      BY <1>1, <2>1, <2>2
  <1>7. CASE UNCHANGED vars
    BY <1>1, <1>7 DEF vars
  <1> QED
    BY <1>2, <1>3, <1>4, <1>5, <1>6, <1>7 DEF Next, Tcp, Done

LEMMA ConcatFacts ==
  ASSUME NEW S, NEW s \in Seq(S), NEW c \in S
  PROVE  /\ s \o <<>> = s /\ s \o <<c>> = Append(s, c)
         /\ s # <<>> => /\ s \o <<c>> # <<>>
                        /\ Head(s \o <<c>>) = Head(s)
                        /\ Tail(s \o <<c>>) = Tail(s) \o <<c>>
  OBVIOUS

\* What main and the workers do to the receiver.
LEMMA ReceiverSteps ==
  ASSUME TypeOK, ControlInv, StageInv, WorkerInv,
         Main \/ Signal \/ \E t \in Threads : Worker(t)
  PROVE  \/ Receiver' = Receiver
         \/ <<Receiver, Receiver'>> \in
               {<<"new", "live">>, <<"live", "closing">>, <<"closing", "closed">>}
  <1>0. /\ InStage("clients") /\ "clients" \in Threads
        /\ Stage("clients") \in {"before", "awaited", "up", "flag", "wake", "join", "over"}
    BY StageFacts DEF StageInv, Threads
  <1> USE DEF Receiver, Goto, mainVars, loopVars, connVars, InLoop
  <1>1. CASE StartThread
    <2>1. StartOrder[turn] # "clients" =>
             pc'["clients"] = pc["clients"] /\ started'["clients"] = started["clients"]
      BY <1>0, <1>1 DEF StartThread, TypeOK
    <2>2. StartOrder[turn] = "clients" => pc["clients"] = "none" /\ pc'["clients"] = "run"
      BY <1>0, <1>1, StageFacts DEF StartThread, TypeOK, InStage
    <2> QED
      BY <2>1, <2>2
  <1>2. CASE StopThread
    <2>1. pc' = pc
      BY <1>2 DEF StopThread
    <2>2. StopOrder[turn] # "clients" => started'["clients"] = started["clients"]
      BY <1>0, <1>2 DEF StopThread, TypeOK
    <2>3. StopOrder[turn] = "clients" =>
             pc["clients"] \in InLoop /\ started["clients"] /\ ~started'["clients"]
      BY <1>0, <1>2, StageFacts DEF StopThread, TypeOK, InStage, WorkerInv
    <2> QED
      BY <2>1, <2>2, <2>3
  <1>3. CASE AwaitThread \/ RaiseFlag \/ WakeThread \/ JoinThread \/ Signal
    BY <1>3 DEF AwaitThread, RaiseFlag, WakeThread, JoinThread, Signal
  <1>4. ASSUME NEW t \in Threads, Worker(t), t # "clients" PROVE Receiver' = Receiver
    <2>1. pc'["clients"] = pc["clients"] /\ started' = started
      BY <1>0, <1>4 DEF Worker, OnRun, OpenAsync, Post, CheckFlag, AsyncCallback,
                  LeaveEvents, CloseAsync, OnStop, TypeOK
    <2> QED
      BY <2>1
  <1>5. CASE Worker("clients")
    <2> USE DEF TypeOK
    <2>1. CASE Post("clients")
      <3>1. ~posted["clients"]
        BY <2>1 DEF Post, WorkerInv, Threads
      <3>2. started["clients"]
        BY <1>0, <2>1, <3>1 DEF Post, InStage
      <3> QED
        BY <1>0, <2>1, <3>2 DEF Post
    <2>2. CASE CheckFlag("clients")
      <3>1. stopFlag["clients"] => ~started["clients"]
        BY <1>0 DEF InStage
      <3> QED
        BY <1>0, <2>2, <3>1 DEF CheckFlag
    <2>3. CASE AsyncCallback("clients") \/ LeaveEvents("clients")
      BY <1>0, <2>3 DEF AsyncCallback, LeaveEvents
    <2>4. CASE OnRun("clients") \/ OpenAsync("clients")
      BY <1>0, <2>4 DEF OnRun, OpenAsync
    <2>5. CASE CloseAsync("clients") \/ OnStop("clients")
      BY <1>0, <2>5 DEF CloseAsync, OnStop
    <2> QED
      BY <1>5, <2>1, <2>2, <2>3, <2>4, <2>5 DEF Worker
  <1> QED
    BY <1>1, <1>2, <1>3, <1>4, <1>5 DEF Main

\* What the passage of connections does to the pipe.
LEMMA PipeSteps ==
  ASSUME TypeOK, ControlInv, HandInv,
         Tcp \/ Drain \/ \E c \in Connections : Connect(c)
  PROVE  [Pipe!Next]_(Pipe!vars)
  <1>0. /\ "tcp" \in Threads /\ "clients" \in Threads
        /\ accepted' = accepted => InHand' = InHand
        /\ queue \in Seq(Connections)
    BY InHandNext DEF Threads, TypeOK
  <1> USE DEF Goto, mainVars, loopVars, connVars
  <1>1. /\ pc["clients"] \in InLoop => pc'["clients"] \in InLoop
        /\ pc["clients"] \notin InLoop => pc'["clients"] = pc["clients"]
        /\ started' = started
    <2>1. CASE Drain
      BY <1>0, <2>1 DEF Drain, TypeOK, InLoop
    <2>2. CASE Tcp \/ \E c \in Connections : Connect(c)
      <3>1. pc'["clients"] = pc["clients"] /\ started' = started
        BY <1>0, <2>2 DEF Tcp, Push, Notify, Accept, AcceptFails, Connect, TypeOK
      <3> QED
        BY <3>1
    <2> QED
      BY <2>1, <2>2
  <1>2. Receiver' = Receiver
    BY <1>1 DEF Receiver, InLoop
  <1>3. ASSUME NEW c \in Connections, Connect(c) PROVE Pipe!Offer(c)
    <2>1. /\ c \notin backlog \cup refused \cup Elems(queue) \cup attached
          /\ c \notin accepted
          /\ backlog' = backlog \cup {c} /\ refused' = refused
          /\ queue' = queue /\ attached' = attached /\ accepted' = accepted
      BY <1>3 DEF Connect
    <2>2. c \notin Pipe!InPipe
      <3>1. CASE InHand = <<>>
        BY <1>0, <2>1, <3>1 DEF Pipe!InPipe, Elems
      <3>2. ASSUME NEW d \in Connections, accepted = {d}, InHand = <<d>>
            PROVE  c \notin Pipe!InPipe
        <4>1. queue \o InHand = Append(queue, d) /\ c # d
          BY <1>0, <2>1, <3>2, ConcatFacts
        <4>2. Elems(Append(queue, d)) = Elems(queue) \cup {d}
          BY <1>0, AppendElems
        <4>3. Pipe!InPipe = Elems(Append(queue, d))
          BY <4>1 DEF Pipe!InPipe, Elems
        <4> QED
          BY <2>1, <4>1, <4>2, <4>3
      <3> QED
        BY <3>1, <3>2 DEF HandInv
    <2> QED
      BY <1>0, <1>2, <2>1, <2>2 DEF Pipe!Offer
  <1>4. ASSUME NEW c \in Connections, AcceptFails(c) PROVE Pipe!Refuse(c)
    BY <1>0, <1>2, <1>4 DEF AcceptFails, Pipe!Refuse
  <1>5. ASSUME NEW c \in Connections, Accept(c) PROVE Pipe!Accept(c)
    <2>1. accepted' = {c} /\ queue' = queue /\ pc["tcp"] # "push"
      BY <1>5 DEF Accept
    <2>2. InHand = <<>>
      BY <2>1 DEF HandInv
    <2>3. InHand' = <<c>>
      BY <2>1, InHandNext
    <2>4. Receiver = "live"
      <3>1. started["clients"] /\ pc["clients"] \in InLoop
        BY <1>5, LiveClients DEF Accept
      <3> QED
        BY <3>1 DEF Receiver, InLoop
    <2>5. queue' \o InHand' = Append(queue \o InHand, c)
      BY <1>0, <2>1, <2>2, <2>3, ConcatFacts
    <2> QED
      BY <1>2, <1>5, <2>4, <2>5 DEF Accept, Pipe!Accept
  <1>6. CASE Push
    <2>1. PICK c \in Connections : accepted = {c} /\ InHand = <<c>>
      BY <1>6 DEF Push, HandInv
    <2>2. queue' = Append(queue, c) /\ InHand' = <<>>
      BY <1>6, <2>1, InHandNext DEF Push
    <2>3. Append(queue, c) \in Seq(Connections)
      BY <1>0
    <2>4. queue' \o InHand' = queue \o InHand
      BY <1>0, <2>1, <2>2, <2>3, ConcatFacts
    <2> QED
      BY <1>2, <1>6, <2>4 DEF Push, Pipe!vars
  <1>7. CASE Notify
    BY <1>0, <1>2, <1>7 DEF Notify, Pipe!vars
  <1>8. CASE Drain
    <2>1. CASE queue = <<>>
      BY <1>0, <1>2, <1>8, <2>1 DEF Drain, Pipe!vars
    <2>2. CASE queue # <<>>
      <3>1. /\ queue' = Tail(queue) /\ attached' = attached \cup {Head(queue)}
            /\ InHand' = InHand /\ backlog' = backlog /\ refused' = refused
        BY <1>0, <1>8, <2>2 DEF Drain
      <3>2. Receiver \in {"live", "closing"}
        BY <1>8 DEF Drain, Receiver, InLoop
      <3>3. /\ queue \o InHand # <<>>
            /\ Head(queue \o InHand) = Head(queue)
            /\ Tail(queue \o InHand) = Tail(queue) \o InHand
        <4>1. Tail(queue) \in Seq(Connections)
          BY <1>0, <2>2
        <4> QED
          BY <1>0, <2>2, <4>1, ConcatFacts DEF HandInv
      <3> QED
        BY <1>2, <3>1, <3>2, <3>3 DEF Pipe!Next, Pipe!Serve
    <2> QED
      BY <2>1, <2>2
  <1> QED
    BY <1>3, <1>4, <1>5, <1>6, <1>7, <1>8 DEF Tcp, Pipe!Next

\* The threads implement the hand-over: a connection is refused or served once,
\* in the order of acceptance, and none is accepted for a clients thread that
\* does not run its loop.
THEOREM ImplementsHandover == Spec => HandoverSpec
  <1>1. Init => Pipe!Init
    BY DEF Init, Pipe!Init, Receiver, InHand, InLoop, Threads
  <1>2. ASSUME TypeOK, ControlInv, StageInv, HandInv, [Next]_vars
        PROVE  [Pipe!Next]_(Pipe!vars)
    <2>1. CASE Main \/ Signal \/ \E t \in Threads : Worker(t)
      <3>1. UNCHANGED connVars
        BY <2>1 DEF Main, StartThread, AwaitThread, StopThread, RaiseFlag, WakeThread,
             JoinThread, Signal, Worker, OnRun, OpenAsync, Post, CheckFlag, AsyncCallback,
             LeaveEvents, CloseAsync, OnStop, connVars
      <3>2. InHand' = InHand
        BY <3>1, InHandNext DEF connVars
      <3> QED
        BY <1>2, <2>1, <3>1, <3>2, ReceiverSteps
           DEF ControlInv, connVars, Pipe!Next, Pipe!Age, Pipe!vars
    <2>2. CASE Tcp \/ Drain \/ \E c \in Connections : Connect(c)
      BY <1>2, <2>2, PipeSteps
    <2>3. CASE UNCHANGED vars
      <3>1. InHand' = InHand /\ Receiver' = Receiver
        BY <2>3, InHandNext DEF vars, mainVars, loopVars, connVars, Receiver
      <3> QED
        BY <2>3, <3>1 DEF vars, connVars, Pipe!vars
    <2> QED
      BY <1>2, <2>1, <2>2, <2>3 DEF Next, Done
  <1>3. TypeOK /\ ControlInv /\ StageInv /\ HandInv /\ [Next]_vars
           => [Pipe!Next]_(Pipe!vars)
    BY <1>2
  <1> QED
    BY <1>1, <1>3, TypeInit, TypeStep, ControlInit, ControlStep, StageInit, StageStep,
       HandInit, HandStep, PTL DEF Spec, HandoverSpec, Pipe!Spec
=============================================================================
