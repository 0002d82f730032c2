----------------------------- MODULE LoginProofs -----------------------------
(***************************************************************************)
(* Proofs about Login, for any number of machines, keys and objects.       *)
(***************************************************************************)
EXTENDS Login, TLAPS

-----------------------------------------------------------------------------
(* The inductive invariant.                                                *)

\* Connections and the pool use objects that exist.
BornInv ==
    /\ Elems(pool) \subseteq born
    /\ \A m \in Machines : conn[m] # NoObject => conn[m] \in born

\* A provider that is not connected yet has read nothing.
FreshInv ==
    \A m \in Machines :
        link[m] \in {"connecting", "waiting"} => clientBuf[m] = <<>>

\* Only a session that is logged in is asked for an account: ALLOWED is sent
\* by such a session and stays behind until its receiver is gone. An object that
\* is out of step may take anything for the question.
SessionInv ==
    /\ \A o \in Objects :
          /\ AccountRequest \in Elems(toServer[o]) => session[o]
          /\ AccountRequest \in Elems(serverBuf[o]) => session[o]
          /\ "Allowed" \in Elems(toClient[o]) => session[o]
          /\ "NoAccount" \in Elems(toClient[o]) => partial[o]
    /\ \A m \in Machines : conn[m] # NoObject =>
          /\ "Allowed" \in Elems(clientBuf[m]) => session[conn[m]]
          /\ "NoAccount" \in Elems(clientBuf[m]) => partial[conn[m]]

IInv ==
    /\ TypeOK
    /\ ExclusiveObjects
    /\ BornInv
    /\ FreshInv
    /\ SessionInv
    /\ NoStall

-----------------------------------------------------------------------------
USE KeysAssumption, ObjectsAssumption, LoginBoundsAssumption
    DEF KeysAssumption, ObjectsAssumption, LoginBoundsAssumption

(* Sequences.                                                              *)

LEMMA AppendElems ==
  ASSUME NEW S, NEW s \in Seq(S), NEW e \in S
  PROVE  /\ Append(s, e) \in Seq(S)
         /\ Append(s, e) # <<>>
         /\ Elems(Append(s, e)) = Elems(s) \cup {e}
  <1>1. Append(s, e) \in Seq(S) /\ Len(Append(s, e)) = Len(s) + 1 /\ Len(s) \in Nat
    OBVIOUS
  <1>2. Append(s, e) # <<>>
    <2>1. Len(Append(s, e)) # 0
      BY <1>1
    <2>2. Len(<<>>) = 0
      OBVIOUS
    <2> QED
      BY <2>1, <2>2, Zenon
  <1>3. ASSUME NEW x \in Elems(Append(s, e)) PROVE x \in Elems(s) \cup {e}
    BY <1>1 DEF Elems
  <1>4. ASSUME NEW x \in Elems(s) PROVE x \in Elems(Append(s, e))
    BY <1>1 DEF Elems
  <1>5. e \in Elems(Append(s, e))
    <2>1. Append(s, e)[Len(s) + 1] = e
      OBVIOUS
    <2>2. DOMAIN Append(s, e) = 1 .. Len(s) + 1
      OBVIOUS
    <2>3. Len(s) + 1 \in 1 .. Len(s) + 1
      BY <1>1
    <2>4. Len(s) + 1 \in DOMAIN Append(s, e)
      BY <2>2, <2>3, Zenon
    <2> QED
      BY <2>1, <2>4, Zenon DEF Elems
  <1> QED
    BY <1>1, <1>2, <1>3, <1>4, <1>5

LEMMA HeadTailElems ==
  ASSUME NEW S, NEW s \in Seq(S), s # <<>>
  PROVE  /\ Head(s) \in S /\ Head(s) \in Elems(s) /\ Head(s) = s[1]
         /\ Tail(s) \in Seq(S)
         /\ Elems(Tail(s)) \subseteq Elems(s)
  <1>1. Len(s) \in Nat \ {0} /\ DOMAIN s = 1 .. Len(s)
    OBVIOUS
  <1>2. Head(s) \in S /\ Head(s) = s[1] /\ Head(s) \in Elems(s)
    BY <1>1 DEF Elems
  <1>3. /\ Tail(s) \in Seq(S) /\ Len(Tail(s)) = Len(s) - 1
        /\ \A i \in 1 .. Len(s) - 1 : Tail(s)[i] = s[i + 1]
    BY <1>1
  <1>4. Elems(Tail(s)) \subseteq Elems(s)
    BY <1>1, <1>3 DEF Elems
  <1> QED
    BY <1>2, <1>3, <1>4

\* What a read callback has in the buffer, and what it leaves on the wire.
LEMMA SegmentElems ==
  ASSUME NEW S, NEW s \in Seq(S), NEW w \in Seq(S), NEW n \in 0 .. Len(w)
  PROVE  /\ s \o SubSeq(w, 1, n) \in Seq(S)
         /\ Elems(s \o SubSeq(w, 1, n)) \subseteq Elems(s) \cup Elems(w)
         /\ SubSeq(w, n + 1, Len(w)) \in Seq(S)
         /\ Elems(SubSeq(w, n + 1, Len(w))) \subseteq Elems(w)
  <1>1. Len(s) \in Nat /\ Len(w) \in Nat /\ n \in Nat
    OBVIOUS
  <1>2. /\ SubSeq(w, 1, n) \in Seq(S) /\ Len(SubSeq(w, 1, n)) = n
        /\ \A i \in 1 .. n : SubSeq(w, 1, n)[i] = w[i]
    BY <1>1
  <1>3. s \o SubSeq(w, 1, n) \in Seq(S)
    BY <1>2
  <1>4. Elems(s \o SubSeq(w, 1, n)) \subseteq Elems(s) \cup Elems(w)
    <2> SUFFICES ASSUME NEW i \in DOMAIN (s \o SubSeq(w, 1, n))
                 PROVE  (s \o SubSeq(w, 1, n))[i] \in Elems(s) \cup Elems(w)
      BY DEF Elems
    <2>1. CASE i \in 1 .. Len(s)
      BY <1>1, <1>2, <2>1 DEF Elems
    <2>2. CASE i \notin 1 .. Len(s)
      <3>1. i - Len(s) \in 1 .. n
        BY <1>1, <1>2, <2>2
      <3>2. (s \o SubSeq(w, 1, n))[i] = w[i - Len(s)]
        BY <1>1, <1>2, <2>2, <3>1
      <3> QED
        BY <1>1, <3>1, <3>2 DEF Elems
    <2> QED
      BY <2>1, <2>2
  <1>5. /\ SubSeq(w, n + 1, Len(w)) \in Seq(S)
        /\ Len(SubSeq(w, n + 1, Len(w))) = Len(w) - n
        /\ \A i \in 1 .. Len(w) - n : SubSeq(w, n + 1, Len(w))[i] = w[i + n]
    BY <1>1
  <1>6. Elems(SubSeq(w, n + 1, Len(w))) \subseteq Elems(w)
    BY <1>1, <1>5 DEF Elems
  <1> QED
    BY <1>3, <1>4, <1>5, <1>6

LEMMA EmptyElems == Elems(<<>>) = {}
  BY DEF Elems

-----------------------------------------------------------------------------
(* Types.                                                                  *)

LEMMA PacketTypes ==
  /\ Hello \in Request /\ AccountRequest \in Request
  /\ \A k \in Keys : AuthorizeTry(k) \in Request
  /\ Hello # AccountRequest
  /\ \A k \in Keys : AuthorizeTry(k) # AccountRequest
  /\ AccountRequest.type = "AccountRequest"
  /\ \A p \in Request : p.type = "AuthorizeTry" => p.key \in Keys
  /\ \A p \in Request : p.type = "AccountRequest" => p = AccountRequest
  <1>1. /\ Hello \in Request /\ AccountRequest \in Request
        /\ \A k \in Keys : AuthorizeTry(k) \in Request
    BY DEF Hello, AccountRequest, AuthorizeTry, Request
  <1>2. Hello.type = "Hello" /\ AccountRequest.type = "AccountRequest"
          /\ \A k : AuthorizeTry(k).type = "AuthorizeTry"
    BY DEF Hello, AccountRequest, AuthorizeTry
  <1>3. \A p \in Request : p.type = "AuthorizeTry" => p.key \in Keys
    BY DEF Request
  <1>4. \A p \in Request : p.type = "AccountRequest" => p = AccountRequest
    BY DEF Request, AccountRequest
  <1>5. Hello # AccountRequest /\ \A k \in Keys : AuthorizeTry(k) # AccountRequest
    BY <1>2
  <1> QED
    BY <1>1, <1>2, <1>3, <1>4, <1>5

LEMMA TypeInit == Init => TypeOK
  BY DEF Init, TypeOK, Request, Reply

LEMMA TakeObjectType ==
  ASSUME TypeOK, NEW o \in Objects, TakeObject(o)
  PROVE  born' \subseteq Objects /\ pool' \in Seq(Objects)
  <1>1. CASE pool # <<>>
    <2>1. pool \in Seq(Objects) /\ born \subseteq Objects
      BY DEF TypeOK
    <2>2. Tail(pool) \in Seq(Objects)
      BY <1>1, <2>1, HeadTailElems
    <2> QED
      BY <1>1, <2>1, <2>2 DEF TakeObject
  <1>2. CASE pool = <<>>
    BY <1>2 DEF TakeObject, TypeOK
  <1> QED
    BY <1>1, <1>2

\* The whole frames of a read callback, and what it leaves on the wire.
LEMMA GotFacts ==
  ASSUME TypeOK, NEW o \in Objects, NEW n \in 0 .. Len(toServer[o])
  PROVE  /\ Got(o, n) \in Seq(Request)
         /\ Elems(Got(o, n)) \subseteq Elems(serverBuf[o]) \cup Elems(toServer[o])
         /\ SubSeq(toServer[o], n + 1, Len(toServer[o])) \in Seq(Request)
         /\ Elems(SubSeq(toServer[o], n + 1, Len(toServer[o]))) \subseteq Elems(toServer[o])
  <1>1. serverBuf[o] \in Seq(Request) /\ toServer[o] \in Seq(Request)
    BY DEF TypeOK
  <1> DEFINE k == IF partial[o] THEN 0 ELSE n
  <1>2. k \in 0 .. Len(toServer[o])
    BY <1>1
  <1>3. /\ SubSeq(toServer[o], n + 1, Len(toServer[o])) \in Seq(Request)
        /\ Elems(SubSeq(toServer[o], n + 1, Len(toServer[o]))) \subseteq Elems(toServer[o])
    BY <1>1, SegmentElems
  <1> HIDE DEF k
  <1>4. /\ serverBuf[o] \o SubSeq(toServer[o], 1, k) \in Seq(Request)
        /\ Elems(serverBuf[o] \o SubSeq(toServer[o], 1, k))
             \subseteq Elems(serverBuf[o]) \cup Elems(toServer[o])
    BY <1>1, <1>2, SegmentElems
  <1>5. Got(o, n) = serverBuf[o] \o SubSeq(toServer[o], 1, k)
    BY DEF Got, k
  <1> QED
    BY <1>3, <1>4, <1>5

\* What the server's handlers do to the types.
LEMMA HandleRequestType ==
  ASSUME TypeOK, NEW o \in Objects, NEW p \in Request, HandleRequest(o, p)
  PROVE  /\ toClient' \in [Objects -> Seq(Reply)]
         /\ session' \in [Objects -> BOOLEAN]
         /\ registered' \subseteq Keys
  <1>1. ASSUME NEW r \in Reply, Respond(o, r)
        PROVE  toClient' \in [Objects -> Seq(Reply)]
    <2>1. Append(toClient[o], r) \in Seq(Reply)
      BY AppendElems DEF TypeOK
    <2> QED
      BY <1>1, <2>1 DEF Respond, TypeOK
  <1>2. CASE OnHello(o)
    BY <1>1, <1>2 DEF OnHello, Reply, TypeOK
  <1>3. CASE p.type = "AuthorizeTry" /\ OnAuth(o, p.key)
    <2>1. p.key \in Keys
      <3>1. \A q \in Request : q.type = "AuthorizeTry" => q.key \in Keys
        BY PacketTypes
      <3> QED
        BY <1>3, <3>1
    <2> QED
      BY <1>1, <1>3, <2>1 DEF OnAuth, AddUnregistered, Reply, TypeOK
  <1>4. CASE OnAccounts(o)
    BY <1>1, <1>4 DEF OnAccounts, Reply, TypeOK
  <1> QED
    BY <1>2, <1>3, <1>4 DEF HandleRequest

LEMMA ServerSegmentType ==
  ASSUME TypeOK, NEW o \in Objects, NEW n \in 0 .. Len(toServer[o]),
         ServerSegment(o, n) \/ ServerMisreads(o, n)
  PROVE  TypeOK'
  <1> DEFINE left == SubSeq(toServer[o], n + 1, Len(toServer[o]))
  <1>1. Got(o, n) \in Seq(Request) /\ left \in Seq(Request)
    BY GotFacts
  <1>2. toServer' = [toServer EXCEPT ![o] = left] /\ UNCHANGED <<machineVars, born, pool, partial>>
    BY DEF ServerSegment, ServerMisreads, Read
  <1>3. toServer' \in [Objects -> Seq(Request)]
    BY <1>1, <1>2 DEF TypeOK
  <1>4. /\ toClient' \in [Objects -> Seq(Reply)]
        /\ session' \in [Objects -> BOOLEAN]
        /\ registered' \subseteq Keys
        /\ serverBuf' \in [Objects -> Seq(Request)]
    <2>1. CASE ServerSegment(o, n)
      <3>1. Head(Got(o, n)) \in Request /\ Tail(Got(o, n)) \in Seq(Request)
        BY <1>1, <2>1, HeadTailElems DEF ServerSegment
      <3>2. HandleRequest(o, Head(Got(o, n)))
              /\ serverBuf' = [serverBuf EXCEPT ![o] = Tail(Got(o, n))]
        BY <2>1 DEF ServerSegment
      <3>3. serverBuf' \in [Objects -> Seq(Request)]
        BY <3>1, <3>2 DEF TypeOK
      <3> QED
        BY <3>1, <3>2, <3>3, HandleRequestType
    <2>2. CASE ServerMisreads(o, n)
      <3>1. CASE UNCHANGED <<session, toClient, registered>>
        BY <2>2, <3>1 DEF ServerMisreads, TypeOK
      <3>2. CASE \E p \in Request : HandleRequest(o, p)
        BY <2>2, <3>2, HandleRequestType DEF ServerMisreads, TypeOK
      <3> QED
        BY <2>2, <3>1, <3>2 DEF ServerMisreads
    <2> QED
      BY <2>1, <2>2
  <1> QED
    BY <1>2, <1>3, <1>4 DEF machineVars, TypeOK

\* Sending on a connection that is up.
LEMMA SendType ==
  ASSUME TypeOK, NEW m \in Machines, conn[m] \in Objects,
         NEW p \in Request, Send(m, p)
  PROVE  toServer' \in [Objects -> Seq(Request)]
  <1>1. Append(toServer[conn[m]], p) \in Seq(Request)
    BY AppendElems DEF TypeOK
  <1> QED
    BY <1>1 DEF Send, TypeOK

LEMMA ClientSegmentType ==
  ASSUME TypeOK, NEW m \in Machines, conn[m] \in Objects,
         NEW n \in 0 .. Len(toClient[conn[m]]), ClientSegment(m, n)
  PROVE  TypeOK'
  <1> DEFINE o == conn[m]
             got == clientBuf[m] \o SubSeq(toClient[o], 1, n)
             left == SubSeq(toClient[o], n + 1, Len(toClient[o]))
  <1>1. clientBuf[m] \in Seq(Reply) /\ toClient[o] \in Seq(Reply)
    BY DEF TypeOK
  <1>2. got \in Seq(Reply) /\ left \in Seq(Reply) /\ got # <<>>
    BY <1>1, SegmentElems DEF ClientSegment
  <1>3. Head(got) \in Reply /\ Tail(got) \in Seq(Reply)
    BY <1>2, HeadTailElems
  <1>4. /\ toServer' \in [Objects -> Seq(Request)]
        /\ logged' \in [Machines -> BOOLEAN]
        /\ timer' \in [Machines -> BOOLEAN] /\ stray' \in [Machines -> BOOLEAN]
    <2>1. HandleReply(m, Head(got))
      BY DEF ClientSegment
    <2>2. AccountRequest \in Request /\ AuthorizeTry(KeyOf[m]) \in Request
      BY PacketTypes
    <2>3. CASE OnServerHello(m)
      BY <2>2, <2>3, SendType DEF OnServerHello, TypeOK
    <2>4. CASE OnBlocked(m)
      BY <2>4 DEF OnBlocked, TypeOK
    <2>5. CASE OnAllowed(m)
      BY <2>2, <2>5, SendType DEF OnAllowed, TypeOK
    <2>6. CASE OnAccountResponse(m, Head(got))
      BY <2>6 DEF OnAccountResponse, TypeOK
    <2> QED
      BY <2>1, <2>3, <2>4, <2>5, <2>6 DEF HandleReply
  <1>5. /\ clientBuf' \in [Machines -> Seq(Reply)]
        /\ toClient' \in [Objects -> Seq(Reply)]
    BY <1>2, <1>3 DEF ClientSegment, TypeOK
  <1> QED
    BY <1>4, <1>5 DEF ClientSegment, TypeOK

LEMMA TypeStep == TypeOK /\ [Next]_vars => TypeOK'
  <1> SUFFICES ASSUME TypeOK, [Next]_vars PROVE TypeOK'
    OBVIOUS
  <1>1. ASSUME NEW m \in Machines, ConnectFails(m) \/ ConnectNotStarted(m) PROVE TypeOK'
    BY <1>1 DEF ConnectFails, ConnectNotStarted, objectVars, TypeOK
  <1>2. ASSUME NEW m \in Machines, Reconnect(m) PROVE TypeOK'
    BY <1>2 DEF Reconnect, objectVars, TypeOK
  <1>3. ASSUME NEW m \in Machines, LinkDrops(m) PROVE TypeOK'
    BY <1>3 DEF LinkDrops, objectVars, TypeOK
  <1>4. ASSUME NEW m \in Machines, Crash(m) PROVE TypeOK'
    BY <1>4 DEF Crash, objectVars, TypeOK
  <1>5. ASSUME NEW m \in Machines, NEW o \in Objects, ConnectOk(m, o) PROVE TypeOK'
    <2>1. born' \subseteq Objects /\ pool' \in Seq(Objects)
      BY <1>5, TakeObjectType DEF ConnectOk
    <2>2. <<Hello>> \in Seq(Request)
      BY PacketTypes
    <2> QED
      BY <1>5, <2>1, <2>2 DEF ConnectOk, TypeOK
  <1>6. ASSUME NEW m \in Machines, conn[m] \in Objects,
               NEW n \in 0 .. Len(toClient[conn[m]]), ClientSegment(m, n)
        PROVE  TypeOK'
    BY <1>6, ClientSegmentType
  <1>7. ASSUME NEW m \in Machines, TimerTick(m) PROVE TypeOK'
    BY <1>7 DEF TimerTick, objectVars, TypeOK
  <1>8. ASSUME NEW m \in Machines, TimerSend(m) PROVE TypeOK'
    <2>1. toServer' \in [Objects -> Seq(Request)]
      <3>1. CASE link[m] = "up" /\ Send(m, AuthorizeTry(KeyOf[m]))
        <4>1. conn[m] \in Objects /\ AuthorizeTry(KeyOf[m]) \in Request
          BY <3>1, PacketTypes DEF TypeOK
        <4> QED
          BY <3>1, <4>1, SendType
      <3>2. CASE UNCHANGED toServer
        BY <3>2 DEF TypeOK
      <3> QED
        BY <1>8, <3>1, <3>2 DEF TimerSend
    <2> QED
      BY <1>8, <2>1 DEF TimerSend, TypeOK
  <1>9. ASSUME NEW o \in Objects, EndOfStream(o) PROVE TypeOK'
    <2>1. Append(pool, o) \in Seq(Objects)
      BY AppendElems DEF TypeOK
    <2>2. partial' \in [Objects -> BOOLEAN]
      BY <1>9 DEF EndOfStream, TypeOK
    <2>3. /\ toServer' \in [Objects -> Seq(Request)] /\ toClient' \in [Objects -> Seq(Reply)]
          /\ pool' \in Seq(Objects)
      BY <1>9, <2>1 DEF EndOfStream, TypeOK
    <2>4. UNCHANGED <<machineVars, born, session, serverBuf, registered>>
      BY <1>9 DEF EndOfStream
    <2> QED
      BY <2>2, <2>3, <2>4 DEF machineVars, TypeOK
  <1>10. ASSUME NEW o \in Objects, NEW n \in 0 .. Len(toServer[o]),
                ServerSegment(o, n) \/ ServerMisreads(o, n)
         PROVE  TypeOK'
    BY <1>10, ServerSegmentType
  <1>11. CASE UNCHANGED vars
    BY <1>11 DEF vars, machineVars, objectVars, TypeOK
  <1> QED
    BY <1>1, <1>2, <1>3, <1>4, <1>5, <1>6, <1>7, <1>8, <1>9, <1>10, <1>11
    DEF Next, Machine, Server

\* Every variable keeps its type; a machine is connected exactly when it has
\* an object of the server at the other end.
THEOREM TypeCorrect == Spec => []TypeOK
  BY TypeInit, TypeStep, PTL DEF Spec

-----------------------------------------------------------------------------
(* IInv is inductive.                                                      *)

LEMMA InvInit == Init => IInv
  <1> SUFFICES ASSUME Init PROVE IInv
    OBVIOUS
  <1>1. TypeOK
    BY TypeInit
  <1>2. pool = <<>> /\ DOMAIN pool = {}
    BY DEF Init
  <1>3. ExclusiveObjects /\ BornInv /\ FreshInv /\ NoStall
    BY <1>2 DEF Init, ExclusiveObjects, BornInv, FreshInv, NoStall, InStep, Elems
  <1>4. SessionInv
    BY EmptyElems DEF Init, SessionInv
  <1> QED
    BY <1>1, <1>3, <1>4 DEF IInv

\* A machine that leaves its connection, by a drop or by a crash.
LEMMA LeaveStep ==
  ASSUME IInv, TypeOK', NEW m \in Machines, LinkDrops(m) \/ Crash(m)
  PROVE  IInv'
  <1>1. /\ conn' = [conn EXCEPT ![m] = NoObject]
        /\ born' = born /\ pool' = pool /\ session' = session
        /\ serverBuf' = serverBuf /\ toServer' = toServer /\ toClient' = toClient
        /\ partial' = partial
        /\ \A x \in Machines : x # m => /\ link'[x] = link[x] /\ logged'[x] = logged[x]
                                       /\ timer'[x] = timer[x] /\ clientBuf'[x] = clientBuf[x]
        /\ link'[m] # "up"
        /\ \/ clientBuf'[m] = clientBuf[m] /\ link'[m] = "down"
           \/ clientBuf'[m] = <<>>
    BY DEF LinkDrops, Crash, objectVars, IInv, TypeOK
  <1>2. /\ conn'[m] = NoObject
        /\ \A x \in Machines : x # m => conn'[x] = conn[x]
    BY <1>1 DEF IInv, TypeOK
  <1>3. NoObject \notin Elems(pool)
    BY DEF IInv, TypeOK, Elems
  <1>4. ExclusiveObjects'
    BY <1>1, <1>2, <1>3 DEF IInv, ExclusiveObjects, Elems
  <1>5. BornInv' /\ FreshInv' /\ NoStall'
    BY <1>1, <1>2 DEF IInv, BornInv, FreshInv, NoStall, InStep, Elems
  <1>6. SessionInv'
    BY <1>1, <1>2, EmptyElems DEF IInv, SessionInv
  <1> QED
    BY <1>4, <1>5, <1>6 DEF IInv

\* The object a connection gets is free, and leaves the pool.
LEMMA TakeObjectFree ==
  ASSUME IInv, NEW o \in Objects, TakeObject(o)
  PROVE  /\ \A m \in Machines : conn[m] # o
         /\ o \notin Elems(pool') /\ Elems(pool') \subseteq Elems(pool)
         /\ \A i, j \in DOMAIN pool' : pool'[i] = pool'[j] => i = j
         /\ o \in born' /\ born \subseteq born'
  <1>0. /\ pool \in Seq(Objects) /\ Elems(pool) \subseteq born
        /\ \A m \in Machines : conn[m] \notin Elems(pool)
        /\ \A m \in Machines : conn[m] # NoObject => conn[m] \in born
        /\ \A i, j \in DOMAIN pool : pool[i] = pool[j] => i = j
    BY DEF IInv, TypeOK, BornInv, ExclusiveObjects
  <1>1. CASE pool # <<>>
    <2>1. /\ o = pool[1] /\ pool' = Tail(pool) /\ born' = born
          /\ o \in Elems(pool) /\ Elems(Tail(pool)) \subseteq Elems(pool)
      BY <1>0, <1>1, HeadTailElems DEF TakeObject
    <2>2. /\ DOMAIN pool = 1 .. Len(pool) /\ Len(pool) \in Nat \ {0}
          /\ DOMAIN Tail(pool) = 1 .. Len(pool) - 1
          /\ \A i \in 1 .. Len(pool) - 1 : Tail(pool)[i] = pool[i + 1]
      BY <1>0, <1>1
    <2>3. \A i, j \in DOMAIN pool' : pool'[i] = pool'[j] => i = j
      BY <1>0, <2>1, <2>2
    <2>4. o \notin Elems(pool')
      BY <1>0, <2>1, <2>2 DEF Elems
    <2> QED
      BY <1>0, <2>1, <2>3, <2>4
  <1>2. CASE pool = <<>>
    BY <1>0, <1>2, EmptyElems DEF TakeObject
  <1> QED
    BY <1>1, <1>2

LEMMA ConnectStep ==
  ASSUME IInv, TypeOK', NEW m \in Machines, NEW o \in Objects, ConnectOk(m, o)
  PROVE  IInv'
  <1>0. TypeOK /\ ExclusiveObjects /\ BornInv /\ FreshInv /\ SessionInv /\ NoStall
    BY DEF IInv
  <1>1. /\ \A x \in Machines : conn[x] # o
        /\ o \notin Elems(pool') /\ Elems(pool') \subseteq Elems(pool)
        /\ \A i, j \in DOMAIN pool' : pool'[i] = pool'[j] => i = j
        /\ o \in born' /\ born \subseteq born'
    BY TakeObjectFree DEF ConnectOk
  <1>2. /\ conn'[m] = o /\ \A x \in Machines : x # m => conn'[x] = conn[x]
        /\ link[m] = "connecting" /\ link'[m] = "up"
        /\ \A x \in Machines : x # m => link'[x] = link[x]
        /\ toServer'[o] = <<Hello>>
        /\ \A x \in Objects : x # o => toServer'[x] = toServer[x]
        /\ logged' = logged /\ timer' = timer /\ clientBuf' = clientBuf
        /\ session' = session /\ serverBuf' = serverBuf /\ toClient' = toClient
        /\ partial' = partial
    BY <1>0 DEF ConnectOk, TypeOK
  <1>3. ExclusiveObjects'
    BY <1>0, <1>1, <1>2 DEF ExclusiveObjects
  <1>4. Elems(pool') \subseteq born'
    BY <1>0, <1>1 DEF BornInv
  <1>5. BornInv'
    <2>1. \A x \in Machines : conn'[x] # NoObject => conn'[x] \in born'
      BY <1>0, <1>1, <1>2 DEF BornInv
    <2>2. Elems(pool)' = Elems(pool')
      BY DEF Elems
    <2> QED
      BY <1>4, <2>1, <2>2 DEF BornInv
  <1>6. FreshInv'
    BY <1>0, <1>2 DEF FreshInv
  <1>7. SessionInv'
    <2>1. Elems(<<Hello>>) = {Hello} /\ Hello # AccountRequest
      BY PacketTypes DEF Elems
    <2>2. clientBuf[m] = <<>>
      BY <1>0, <1>2 DEF FreshInv
    <2>3. ASSUME NEW x \in Objects
          PROVE  /\ AccountRequest \in Elems(toServer'[x]) => session'[x]
                 /\ AccountRequest \in Elems(serverBuf'[x]) => session'[x]
                 /\ "Allowed" \in Elems(toClient'[x]) => session'[x]
                 /\ "NoAccount" \in Elems(toClient'[x]) => partial'[x]
      BY <1>0, <1>2, <2>1 DEF SessionInv
    <2>4. ASSUME NEW x \in Machines, conn'[x] # NoObject
          PROVE  /\ "Allowed" \in Elems(clientBuf'[x]) => session'[conn'[x]]
                 /\ "NoAccount" \in Elems(clientBuf'[x]) => partial'[conn'[x]]
      <3>1. CASE x = m
        BY <1>2, <2>2, <3>1, EmptyElems
      <3>2. CASE x # m
        BY <1>0, <1>2, <2>4, <3>2 DEF SessionInv
      <3> QED
        BY <3>1, <3>2
    <2> QED
      BY <2>3, <2>4 DEF SessionInv
  <1>8. NoStall'
    <2> SUFFICES ASSUME NEW x \in Machines, link'[x] = "up", ~partial'[conn'[x]], ~logged'[x]
                 PROVE  toServer'[conn'[x]] # <<>> \/ toClient'[conn'[x]] # <<>> \/ timer'[x]
      BY DEF NoStall, InStep
    <2>1. CASE x = m
      BY <1>2, <2>1
    <2>2. CASE x # m
      BY <1>0, <1>1, <1>2, <2>2 DEF NoStall, InStep, TypeOK
    <2> QED
      BY <2>1, <2>2
  <1> QED
    BY <1>3, <1>5, <1>6, <1>7, <1>8 DEF IInv

LEMMA EndStep ==
  ASSUME IInv, TypeOK', NEW o \in Objects, EndOfStream(o)
  PROVE  IInv'
  <1>0. TypeOK /\ ExclusiveObjects /\ BornInv /\ FreshInv /\ SessionInv /\ NoStall
    BY DEF IInv
  <1>1. /\ o \in born /\ o \notin Elems(pool) /\ \A x \in Machines : conn[x] # o
        /\ pool' = Append(pool, o)
        /\ toServer'[o] = <<>> /\ toClient'[o] = <<>>
        /\ \A x \in Objects : x # o => toServer'[x] = toServer[x] /\ toClient'[x] = toClient[x]
        /\ link' = link /\ conn' = conn /\ logged' = logged /\ timer' = timer
        /\ clientBuf' = clientBuf /\ born' = born /\ session' = session /\ serverBuf' = serverBuf
        /\ \A x \in Objects : x # o => partial'[x] = partial[x]
    BY <1>0 DEF EndOfStream, Serving, machineVars, TypeOK
  <1>2. Elems(pool') = Elems(pool) \cup {o}
    BY <1>0, <1>1, AppendElems DEF TypeOK
  <1>3. \A i, j \in DOMAIN pool' : pool'[i] = pool'[j] => i = j
    <2>1. /\ DOMAIN pool = 1 .. Len(pool) /\ Len(pool) \in Nat
          /\ DOMAIN pool' = 1 .. Len(pool) + 1 /\ pool'[Len(pool) + 1] = o
          /\ \A i \in 1 .. Len(pool) : pool'[i] = pool[i] /\ pool[i] # o
      <3>1. pool \in Seq(Objects)
        BY <1>0 DEF TypeOK
      <3>2. \A i \in 1 .. Len(pool) : pool[i] # o
        BY <1>1, <3>1 DEF Elems
      <3> QED
        BY <1>1, <3>1, <3>2
    <2> QED
      BY <1>0, <2>1 DEF ExclusiveObjects
  <1>4. ExclusiveObjects'
    BY <1>0, <1>1, <1>2, <1>3 DEF ExclusiveObjects
  <1>5. BornInv' /\ FreshInv'
    BY <1>0, <1>1, <1>2 DEF BornInv, FreshInv
  <1>6. SessionInv'
    <2>1. ASSUME NEW x \in Objects
          PROVE  /\ AccountRequest \in Elems(toServer'[x]) => session'[x]
                 /\ AccountRequest \in Elems(serverBuf'[x]) => session'[x]
                 /\ "Allowed" \in Elems(toClient'[x]) => session'[x]
                 /\ "NoAccount" \in Elems(toClient'[x]) => partial'[x]
      BY <1>0, <1>1, EmptyElems DEF SessionInv
    <2>2. ASSUME NEW x \in Machines, conn'[x] # NoObject
          PROVE  /\ "Allowed" \in Elems(clientBuf'[x]) => session'[conn'[x]]
                 /\ "NoAccount" \in Elems(clientBuf'[x]) => partial'[conn'[x]]
      <3>1. conn[x] \in Objects /\ conn[x] # o
        BY <1>0, <1>1, <2>2 DEF TypeOK
      <3> QED
        BY <1>0, <1>1, <2>2, <3>1 DEF SessionInv
    <2> QED
      BY <2>1, <2>2 DEF SessionInv
  <1>7. NoStall'
    <2> SUFFICES ASSUME NEW x \in Machines, link'[x] = "up", ~partial'[conn'[x]], ~logged'[x]
                 PROVE  toServer'[conn'[x]] # <<>> \/ toClient'[conn'[x]] # <<>> \/ timer'[x]
      BY DEF NoStall, InStep
    <2>1. conn[x] \in Objects /\ conn[x] # o
      BY <1>0, <1>1 DEF TypeOK
    <2> QED
      BY <1>0, <1>1, <2>1 DEF NoStall, InStep
  <1> QED
    BY <1>4, <1>5, <1>6, <1>7 DEF IInv

\* What the server's handlers do to the session and the replies.
LEMMA HandleRequestFacts ==
  ASSUME TypeOK, NEW o \in Objects, NEW p \in Request, HandleRequest(o, p),
         p = AccountRequest => session[o] \/ partial[o]
  PROVE  /\ \A x \in Objects : session[x] => session'[x]
         /\ \A x \in Objects : x # o => toClient'[x] = toClient[x]
         /\ \E r \in Reply : /\ toClient'[o] = Append(toClient[o], r)
                             /\ r = "Allowed" => session'[o]
                             /\ r = "NoAccount" => partial[o]
  <1>1. ASSUME NEW r \in Reply, Respond(o, r)
        PROVE  /\ toClient'[o] = Append(toClient[o], r)
               /\ \A x \in Objects : x # o => toClient'[x] = toClient[x]
    BY <1>1 DEF Respond, TypeOK
  <1>2. CASE OnHello(o)
    BY <1>1, <1>2 DEF OnHello, Reply
  <1>3. ASSUME NEW key, OnAuth(o, key)
        PROVE  /\ \A x \in Objects : session[x] => session'[x]
               /\ \A x \in Objects : x # o => toClient'[x] = toClient[x]
               /\ \E r \in Reply : /\ toClient'[o] = Append(toClient[o], r)
                                   /\ r = "Allowed" => session'[o]
                                   /\ r = "NoAccount" => partial[o]
    <2>1. CASE key \in registered
      <3>1. session' = [session EXCEPT ![o] = TRUE] /\ Respond(o, "Allowed")
        BY <1>3, <2>1 DEF OnAuth, KnownKey
      <3>2. session'[o] /\ \A x \in Objects : session[x] => session'[x]
        BY <3>1 DEF TypeOK
      <3> QED
        BY <1>1, <3>1, <3>2 DEF Reply
    <2>2. CASE key \notin registered
      <3>1. session' = session /\ Respond(o, "Blocked")
        BY <1>3, <2>2 DEF OnAuth, KnownKey
      <3> QED
        BY <1>1, <3>1 DEF Reply
    <2> QED
      BY <2>1, <2>2
  <1>4. CASE p.type = "AccountRequest" /\ OnAccounts(o)
    <2>1. session[o] \/ partial[o]
      <3>1. p = AccountRequest
        <4>1. \A q \in Request : q.type = "AccountRequest" => q = AccountRequest
          BY PacketTypes
        <4> QED
          BY <1>4, <4>1
      <3> QED
        BY <3>1
    <2>2. CASE session[o]
      <3>1. Respond(o, "Account") /\ session' = session
        BY <1>4, <2>2 DEF OnAccounts
      <3> QED
        BY <1>1, <3>1 DEF Reply
    <2>3. CASE ~session[o]
      <3>1. Respond(o, "NoAccount") /\ session' = session
        BY <1>4, <2>3 DEF OnAccounts
      <3> QED
        BY <1>1, <2>1, <2>3, <3>1 DEF Reply
    <2> QED
      BY <2>2, <2>3
  <1> QED
    BY <1>2, <1>3, <1>4 DEF HandleRequest

\* A read callback of the server. It answers what it hands over, and only an
\* object that is out of step hands over nothing.
LEMMA ServerSegmentStep ==
  ASSUME IInv, TypeOK', NEW o \in Objects, NEW n \in 0 .. Len(toServer[o]),
         ServerSegment(o, n) \/ ServerMisreads(o, n)
  PROVE  IInv'
  <1> DEFINE left == SubSeq(toServer[o], n + 1, Len(toServer[o]))
  <1>0. TypeOK /\ ExclusiveObjects /\ BornInv /\ FreshInv /\ SessionInv /\ NoStall
    BY DEF IInv
  <1>1. serverBuf[o] \in Seq(Request) /\ toServer[o] \in Seq(Request) /\ toClient[o] \in Seq(Reply)
    BY <1>0 DEF TypeOK
  <1>2. /\ Got(o, n) \in Seq(Request)
        /\ Elems(Got(o, n)) \subseteq Elems(serverBuf[o]) \cup Elems(toServer[o])
        /\ Elems(left) \subseteq Elems(toServer[o])
    BY <1>0, GotFacts
  <1>3. /\ toServer'[o] = left
        /\ \A x \in Objects : x # o => serverBuf'[x] = serverBuf[x] /\ toServer'[x] = toServer[x]
        /\ link' = link /\ conn' = conn /\ logged' = logged /\ timer' = timer
        /\ clientBuf' = clientBuf /\ born' = born /\ pool' = pool /\ partial' = partial
    BY <1>0 DEF ServerSegment, ServerMisreads, Read, machineVars, TypeOK
  <1>4. Elems(serverBuf'[o]) \subseteq Elems(serverBuf[o]) \cup Elems(toServer[o])
    <2>1. CASE ServerSegment(o, n)
      <3>1. serverBuf'[o] = Tail(Got(o, n)) /\ Got(o, n) # <<>>
        BY <1>0, <2>1 DEF ServerSegment, TypeOK
      <3>2. Elems(Tail(Got(o, n))) \subseteq Elems(Got(o, n))
        BY <1>2, <3>1, HeadTailElems
      <3> QED
        BY <1>2, <3>1, <3>2
    <2>2. CASE ServerMisreads(o, n)
      BY <2>2 DEF ServerMisreads
    <2> QED
      BY <2>1, <2>2
  <1>5. /\ \A x \in Objects : session[x] => session'[x]
        /\ \A x \in Objects : x # o => toClient'[x] = toClient[x]
        /\ \/ toClient'[o] = toClient[o] /\ partial[o]
           \/ \E r \in Reply : /\ toClient'[o] = Append(toClient[o], r)
                               /\ r = "Allowed" => session'[o]
                               /\ r = "NoAccount" => partial[o]
    <2>1. CASE ServerSegment(o, n)
      <3>1. Got(o, n) # <<>> /\ HandleRequest(o, Head(Got(o, n)))
        BY <2>1 DEF ServerSegment
      <3>2. Head(Got(o, n)) \in Request /\ Head(Got(o, n)) \in Elems(Got(o, n))
        BY <1>2, <3>1, HeadTailElems
      <3>3. Head(Got(o, n)) = AccountRequest => session[o]
        BY <1>0, <1>2, <3>2 DEF SessionInv
      <3> QED
        BY <1>0, <3>1, <3>2, <3>3, HandleRequestFacts
    <2>2. CASE ServerMisreads(o, n) /\ UNCHANGED <<session, toClient, registered>>
      BY <2>2 DEF ServerMisreads
    <2>3. ASSUME ServerMisreads(o, n), NEW p \in Request, HandleRequest(o, p)
          PROVE  /\ \A x \in Objects : session[x] => session'[x]
                 /\ \A x \in Objects : x # o => toClient'[x] = toClient[x]
                 /\ \E r \in Reply : /\ toClient'[o] = Append(toClient[o], r)
                                     /\ r = "Allowed" => session'[o]
                                     /\ r = "NoAccount" => partial[o]
      <3>1. partial[o]
        BY <2>3 DEF ServerMisreads
      <3> QED
        BY <1>0, <2>3, <3>1, HandleRequestFacts
    <2> QED
      BY <2>1, <2>2, <2>3 DEF ServerMisreads
  <1>6. /\ "Allowed" \in Elems(toClient'[o]) => session'[o]
        /\ "NoAccount" \in Elems(toClient'[o]) => partial[o]
        /\ ~partial[o] => toClient'[o] # <<>>
    <2>1. /\ "Allowed" \in Elems(toClient[o]) => session'[o]
          /\ "NoAccount" \in Elems(toClient[o]) => partial[o]
      BY <1>0, <1>5 DEF SessionInv
    <2>2. CASE toClient'[o] = toClient[o] /\ partial[o]
      BY <2>1, <2>2
    <2>3. ASSUME NEW r \in Reply, toClient'[o] = Append(toClient[o], r),
                 r = "Allowed" => session'[o], r = "NoAccount" => partial[o]
          PROVE  /\ "Allowed" \in Elems(toClient'[o]) => session'[o]
                 /\ "NoAccount" \in Elems(toClient'[o]) => partial[o]
                 /\ toClient'[o] # <<>>
      <3>1. toClient'[o] # <<>> /\ Elems(toClient'[o]) = Elems(toClient[o]) \cup {r}
        BY <1>1, <2>3, AppendElems
      <3> QED
        BY <2>1, <2>3, <3>1
    <2> QED
      BY <1>5, <2>2, <2>3
  <1>7. ExclusiveObjects' /\ BornInv' /\ FreshInv'
    BY <1>0, <1>3 DEF ExclusiveObjects, BornInv, FreshInv, Elems
  <1>8. SessionInv'
    <2>1. ASSUME NEW x \in Objects
          PROVE  /\ AccountRequest \in Elems(toServer'[x]) => session'[x]
                 /\ AccountRequest \in Elems(serverBuf'[x]) => session'[x]
                 /\ "Allowed" \in Elems(toClient'[x]) => session'[x]
                 /\ "NoAccount" \in Elems(toClient'[x]) => partial'[x]
      <3>1. CASE x = o
        BY <1>0, <1>2, <1>3, <1>4, <1>5, <1>6, <3>1 DEF SessionInv
      <3>2. CASE x # o
        BY <1>0, <1>3, <1>5, <3>2 DEF SessionInv
      <3> QED
        BY <3>1, <3>2
    <2>2. ASSUME NEW x \in Machines, conn'[x] # NoObject
          PROVE  /\ "Allowed" \in Elems(clientBuf'[x]) => session'[conn'[x]]
                 /\ "NoAccount" \in Elems(clientBuf'[x]) => partial'[conn'[x]]
      BY <1>0, <1>3, <1>5, <2>2 DEF SessionInv, TypeOK
    <2> QED
      BY <2>1, <2>2 DEF SessionInv
  <1>9. NoStall'
    <2> SUFFICES ASSUME NEW x \in Machines, link[x] = "up", ~partial[conn[x]], ~logged[x]
                 PROVE  toServer'[conn[x]] # <<>> \/ toClient'[conn[x]] # <<>> \/ timer[x]
      BY <1>3 DEF NoStall, InStep
    <2>1. CASE conn[x] = o
      BY <1>6, <2>1
    <2>2. CASE conn[x] # o
      <3>1. conn[x] \in Objects
        BY <1>0 DEF TypeOK
      <3> QED
        BY <1>0, <1>3, <1>5, <2>2, <3>1 DEF NoStall, InStep
    <2> QED
      BY <2>1, <2>2
  <1> QED
    BY <1>7, <1>8, <1>9 DEF IInv

\* A packet sent on a connection keeps what the invariant says of it.
LEMMA SendFacts ==
  ASSUME TypeOK, NEW m \in Machines, conn[m] \in Objects,
         NEW p \in Request, Send(m, p)
  PROVE  /\ toServer'[conn[m]] # <<>>
         /\ Elems(toServer'[conn[m]]) = Elems(toServer[conn[m]]) \cup {p}
         /\ \A x \in Objects : x # conn[m] => toServer'[x] = toServer[x]
  <1>1. toServer'[conn[m]] = Append(toServer[conn[m]], p)
          /\ \A x \in Objects : x # conn[m] => toServer'[x] = toServer[x]
    BY DEF Send, TypeOK
  <1>2. toServer[conn[m]] \in Seq(Request)
    BY DEF TypeOK
  <1> QED
    BY <1>1, <1>2, AppendElems

LEMMA ClientSegmentStep ==
  ASSUME IInv, TypeOK', NEW m \in Machines, conn[m] \in Objects,
         NEW n \in 0 .. Len(toClient[conn[m]]), ClientSegment(m, n)
  PROVE  IInv'
  <1> DEFINE o == conn[m]
             got == clientBuf[m] \o SubSeq(toClient[o], 1, n)
             left == SubSeq(toClient[o], n + 1, Len(toClient[o]))
  <1>0. TypeOK /\ ExclusiveObjects /\ BornInv /\ FreshInv /\ SessionInv /\ NoStall
    BY DEF IInv
  <1>1. clientBuf[m] \in Seq(Reply) /\ toClient[o] \in Seq(Reply) /\ o # NoObject
    BY <1>0 DEF TypeOK
  <1>2. /\ got \in Seq(Reply) /\ got # <<>>
        /\ Elems(got) \subseteq Elems(clientBuf[m]) \cup Elems(toClient[o])
        /\ Elems(left) \subseteq Elems(toClient[o])
    BY <1>1, SegmentElems DEF ClientSegment
  <1>3. /\ Head(got) \in Elems(got)
        /\ Elems(Tail(got)) \subseteq Elems(got)
    BY <1>2, HeadTailElems
  <1>4. /\ "NoAccount" \in Elems(got) => partial[o]
        /\ "Allowed" \in Elems(got) => session[o]
    BY <1>0, <1>1, <1>2 DEF SessionInv
  <1>5. /\ clientBuf'[m] = Tail(got) /\ toClient'[o] = left
        /\ \A x \in Machines : x # m => clientBuf'[x] = clientBuf[x]
        /\ \A x \in Objects : x # o => toClient'[x] = toClient[x]
        /\ link' = link /\ conn' = conn /\ link[m] = "up" /\ born' = born /\ pool' = pool
        /\ session' = session /\ serverBuf' = serverBuf /\ partial' = partial
    BY <1>0 DEF ClientSegment, TypeOK
  \* What the handler does to the machine and its requests.
  <1>6. /\ \A x \in Machines : x # m => logged'[x] = logged[x] /\ timer'[x] = timer[x]
        /\ \A x \in Objects : x # o => toServer'[x] = toServer[x]
        /\ AccountRequest \in Elems(toServer'[o]) => session[o]
        /\ ~partial[o] => toServer'[o] # <<>> \/ timer'[m] \/ logged'[m]
    <2>1. HandleReply(m, Head(got))
      BY DEF ClientSegment
    <2>2. AccountRequest \in Elems(toServer[o]) => session[o]
      BY <1>0 DEF SessionInv
    <2>3. /\ AccountRequest \in Request /\ AuthorizeTry(KeyOf[m]) \in Request
          /\ AuthorizeTry(KeyOf[m]) # AccountRequest
      BY PacketTypes
    <2>4. CASE OnServerHello(m)
      <3>1. Send(m, AuthorizeTry(KeyOf[m])) /\ logged' = logged /\ timer' = timer
        BY <2>4 DEF OnServerHello
      <3>2. /\ toServer'[o] # <<>>
            /\ Elems(toServer'[o]) = Elems(toServer[o]) \cup {AuthorizeTry(KeyOf[m])}
            /\ \A x \in Objects : x # o => toServer'[x] = toServer[x]
        BY <1>0, <2>3, <3>1, SendFacts
      <3> QED
        BY <2>2, <2>3, <3>1, <3>2
    <2>5. CASE OnBlocked(m)
      BY <1>0, <2>2, <2>5 DEF OnBlocked, TypeOK
    <2>6. CASE Head(got) = "Allowed" /\ OnAllowed(m)
      <3>1. session[o]
        BY <1>3, <1>4, <2>6
      <3>2. /\ Send(m, AccountRequest) /\ logged' = logged
            /\ \A x \in Machines : x # m => timer'[x] = timer[x]
        BY <1>0, <2>6 DEF OnAllowed, TypeOK
      <3> QED
        BY <1>0, <2>3, <3>1, <3>2, SendFacts
    <2>7. Head(got) = "NoAccount" => partial[o]
      BY <1>3, <1>4
    <2>8. CASE Head(got) \in {"Account", "NoAccount"} /\ OnAccountResponse(m, Head(got))
      BY <1>0, <2>2, <2>7, <2>8 DEF OnAccountResponse, TypeOK
    <2> QED
      BY <2>1, <2>4, <2>5, <2>6, <2>8 DEF HandleReply
  <1>7. ExclusiveObjects' /\ BornInv'
    BY <1>0, <1>5 DEF ExclusiveObjects, BornInv, Elems
  <1>8. FreshInv'
    BY <1>0, <1>5 DEF FreshInv
  <1>9. \A x \in Machines : x # m => conn[x] # o
    BY <1>0, <1>1 DEF ExclusiveObjects
  <1>10. SessionInv'
    <2>1. ASSUME NEW x \in Objects
          PROVE  /\ AccountRequest \in Elems(toServer'[x]) => session'[x]
                 /\ AccountRequest \in Elems(serverBuf'[x]) => session'[x]
                 /\ "Allowed" \in Elems(toClient'[x]) => session'[x]
                 /\ "NoAccount" \in Elems(toClient'[x]) => partial'[x]
      <3>1. CASE x = o
        BY <1>0, <1>2, <1>5, <1>6, <3>1 DEF SessionInv
      <3>2. CASE x # o
        BY <1>0, <1>5, <1>6, <3>2 DEF SessionInv
      <3> QED
        BY <3>1, <3>2
    <2>2. ASSUME NEW x \in Machines, conn'[x] # NoObject
          PROVE  /\ "Allowed" \in Elems(clientBuf'[x]) => session'[conn'[x]]
                 /\ "NoAccount" \in Elems(clientBuf'[x]) => partial'[conn'[x]]
      <3>1. CASE x = m
        BY <1>3, <1>4, <1>5, <3>1
      <3>2. CASE x # m
        BY <1>0, <1>5, <2>2, <3>2 DEF SessionInv
      <3> QED
        BY <3>1, <3>2
    <2> QED
      BY <2>1, <2>2 DEF SessionInv
  <1>11. NoStall'
    <2> SUFFICES ASSUME NEW x \in Machines, link'[x] = "up", ~partial'[conn'[x]], ~logged'[x]
                 PROVE  toServer'[conn'[x]] # <<>> \/ toClient'[conn'[x]] # <<>> \/ timer'[x]
      BY DEF NoStall, InStep
    <2>1. CASE x = m
      BY <1>5, <1>6, <2>1
    <2>2. CASE x # m
      <3>1. conn[x] # NoObject /\ conn[x] \in Objects /\ conn[x] # o
        BY <1>0, <1>5, <1>9, <2>2 DEF TypeOK
      <3> QED
        BY <1>0, <1>5, <1>6, <2>2, <3>1 DEF NoStall, InStep
    <2> QED
      BY <2>1, <2>2
  <1> QED
    BY <1>7, <1>8, <1>10, <1>11 DEF IInv

LEMMA TimerSendStep ==
  ASSUME IInv, TypeOK', NEW m \in Machines, TimerSend(m)
  PROVE  IInv'
  <1>0. TypeOK /\ ExclusiveObjects /\ BornInv /\ FreshInv /\ SessionInv /\ NoStall
    BY DEF IInv
  <1>1. /\ link' = link /\ conn' = conn /\ logged' = logged /\ timer' = timer
        /\ clientBuf' = clientBuf /\ born' = born /\ pool' = pool /\ session' = session
        /\ serverBuf' = serverBuf /\ toClient' = toClient /\ partial' = partial
    BY DEF TimerSend
  <1>2. \A x \in Objects :
           /\ AccountRequest \in Elems(toServer'[x]) => AccountRequest \in Elems(toServer[x])
           /\ toServer[x] # <<>> => toServer'[x] # <<>>
    <2>1. CASE link[m] = "up" /\ Send(m, AuthorizeTry(KeyOf[m]))
      <3>1. conn[m] \in Objects
        BY <1>0, <2>1 DEF TypeOK
      <3>2. AuthorizeTry(KeyOf[m]) \in Request /\ AuthorizeTry(KeyOf[m]) # AccountRequest
        BY PacketTypes
      <3> QED
        BY <1>0, <2>1, <3>1, <3>2, SendFacts
    <2>2. CASE toServer' = toServer
      BY <2>2
    <2> QED
      BY <2>1, <2>2 DEF TimerSend
  <1>3. ExclusiveObjects' /\ BornInv' /\ FreshInv'
    BY <1>0, <1>1 DEF ExclusiveObjects, BornInv, FreshInv, Elems
  <1>4. SessionInv'
    BY <1>0, <1>1, <1>2 DEF SessionInv
  <1>5. NoStall'
    BY <1>0, <1>1, <1>2 DEF NoStall, InStep, TypeOK
  <1> QED
    BY <1>3, <1>4, <1>5 DEF IInv

LEMMA InvStep == IInv /\ [Next]_vars => IInv'
  <1> SUFFICES ASSUME IInv, [Next]_vars PROVE IInv'
    OBVIOUS
  <1>0. TypeOK'
    BY TypeStep DEF IInv
  <1>1. ASSUME NEW m \in Machines, ConnectFails(m) \/ ConnectNotStarted(m) \/ Reconnect(m)
        PROVE  IInv'
    <2>1. /\ conn' = conn /\ logged' = logged /\ timer' = timer /\ clientBuf' = clientBuf
          /\ born' = born /\ pool' = pool /\ session' = session /\ serverBuf' = serverBuf
          /\ toServer' = toServer /\ toClient' = toClient /\ partial' = partial
          /\ link[m] \in {"connecting", "waiting"}
          /\ link'[m] \in {"connecting", "waiting", "down"}
          /\ \A x \in Machines : x # m => link'[x] = link[x]
      BY <1>1 DEF ConnectFails, ConnectNotStarted, Reconnect, objectVars, IInv, TypeOK
    <2> QED
      BY <1>0, <2>1 DEF IInv, ExclusiveObjects, BornInv, FreshInv, SessionInv, NoStall, InStep, Elems
  <1>2. ASSUME NEW m \in Machines, LinkDrops(m) \/ Crash(m) PROVE IInv'
    BY <1>0, <1>2, LeaveStep
  <1>3. ASSUME NEW m \in Machines, NEW o \in Objects, ConnectOk(m, o) PROVE IInv'
    BY <1>0, <1>3, ConnectStep
  <1>4. ASSUME NEW m \in Machines, conn[m] \in Objects,
               NEW n \in 0 .. Len(toClient[conn[m]]), ClientSegment(m, n)
        PROVE  IInv'
    BY <1>0, <1>4, ClientSegmentStep
  <1>5. ASSUME NEW m \in Machines, TimerTick(m) PROVE IInv'
    BY <1>0, <1>5 DEF TimerTick, objectVars, IInv, ExclusiveObjects, BornInv, FreshInv,
                      SessionInv, NoStall, InStep, Elems
  <1>6. ASSUME NEW m \in Machines, TimerSend(m) PROVE IInv'
    BY <1>0, <1>6, TimerSendStep
  <1>7. ASSUME NEW o \in Objects, EndOfStream(o) PROVE IInv'
    BY <1>0, <1>7, EndStep
  <1>8. ASSUME NEW o \in Objects, NEW n \in 0 .. Len(toServer[o]),
               ServerSegment(o, n) \/ ServerMisreads(o, n)
        PROVE  IInv'
    BY <1>0, <1>8, ServerSegmentStep
  <1>9. CASE UNCHANGED vars
    BY <1>0, <1>9 DEF vars, machineVars, objectVars, IInv, ExclusiveObjects, BornInv,
                      FreshInv, SessionInv, NoStall, InStep, Elems
  <1> QED
    BY <1>1, <1>2, <1>3, <1>4, <1>5, <1>6, <1>7, <1>8, <1>9 DEF Next, Machine, Server

LEMMA Invariant == Spec => []IInv
  BY InvInit, InvStep, PTL DEF Spec

-----------------------------------------------------------------------------
(* The theorems.                                                           *)

\* No two connections share an object of the pool.
THEOREM Exclusive == Spec => []ExclusiveObjects
  <1>1. IInv => ExclusiveObjects
    BY DEF IInv
  <1> QED
    BY <1>1, Invariant, PTL

\* However packets are cut into segments and however many whole frames stay
\* behind, of this connection or of an earlier one, a machine that is not logged
\* in and whose object is in step has something to wait for.
THEOREM NeverStalls == Spec => []NoStall
  <1>1. IInv => NoStall
    BY DEF IInv
  <1> QED
    BY <1>1, Invariant, PTL

\* ALLOWED is never followed by an answer without an account, whatever sessions
\* and whole frames the pooled objects were left with before.
THEOREM AllowedMeansAccount == Spec => []AllowedHasAccount
  <1>1. IInv => AllowedHasAccount
    <2> SUFFICES ASSUME IInv, NEW m \in Machines,
                        InStep(m)
                 PROVE  "NoAccount" \notin Elems(clientBuf[m]) \cup Elems(toClient[conn[m]])
      BY DEF AllowedHasAccount
    <2>1. conn[m] \in Objects /\ conn[m] # NoObject /\ ~partial[conn[m]]
      BY DEF IInv, TypeOK, InStep
    <2> QED
      BY <2>1 DEF IInv, SessionInv
  <1> QED
    BY <1>1, Invariant, PTL

-----------------------------------------------------------------------------
(* The timer of each machine is a TimerService.                            *)

\* A timer whose stop was lost is not started.
StrayInv == \A m \in Machines : timer[m] => ~stray[m]

\* The timer of the machine that takes the step.
Clocks == \A x \in Machines : [Timer(x)!Next]_(Timer(x)!vars) \/ Crash(x)

LEMMA ClockStays ==
  ASSUME StrayInv, timer' = timer, stray' = stray, ticking' = ticking
  PROVE  StrayInv' /\ Clocks
  BY DEF StrayInv, Clocks, Timer!vars

\* The machine's other variables do not matter to its clock.
LEMMA ClockStep ==
  ASSUME StrayInv, TypeOK, NEW m \in Machines,
         \A x \in Machines : x # m => /\ timer'[x] = timer[x] /\ stray'[x] = stray[x]
                                       /\ ticking'[x] = ticking[x],
         timer'[m] => ~stray'[m],
         [Timer(m)!Next]_(Timer(m)!vars) \/ Crash(m)
  PROVE  StrayInv' /\ Clocks
  BY DEF StrayInv, Clocks, Timer!vars

LEMMA ClockHandle ==
  ASSUME StrayInv, TypeOK, NEW m \in Machines, NEW r \in Reply,
         HandleReply(m, r), ticking' = ticking
  PROVE  StrayInv' /\ Clocks
  <1>1. CASE timer' = timer /\ stray' = stray
    BY <1>1, ClockStays
  <1>2. CASE OnBlocked(m)
    <2>1. /\ timer'[m] /\ ~stray'[m]
          /\ \A x \in Machines : x # m => timer'[x] = timer[x] /\ stray'[x] = stray[x]
      BY <1>2 DEF OnBlocked, TypeOK
    <2>2. CASE timer[m]
      <3>1. timer'[m] = timer[m] /\ stray'[m] = stray[m]
        BY <1>2, <2>1, <2>2 DEF OnBlocked, StrayInv, TypeOK
      <3> QED
        BY <2>1, <3>1, ClockStep DEF Timer!vars
    <2>3. CASE ~timer[m]
      <3>1. Timer(m)!Next
        BY <2>1, <2>3 DEF Timer!Next, Timer!Start
      <3> QED
        BY <2>1, <3>1, ClockStep
    <2> QED
      BY <2>2, <2>3
  <1>3. CASE OnAllowed(m)
    <2>1. /\ ~timer'[m]
          /\ \A x \in Machines : x # m => timer'[x] = timer[x] /\ stray'[x] = stray[x]
          /\ timer[m] => (stray'[m] => ticking[m])
          /\ ~timer[m] => stray'[m] = stray[m]
      BY <1>3 DEF OnAllowed, TypeOK
    <2>2. CASE timer[m]
      <3>1. Timer(m)!Next
        BY <2>1, <2>2 DEF Timer!Next, Timer!Stop
      <3> QED
        BY <2>1, <3>1, ClockStep
    <2>3. CASE ~timer[m]
      <3>1. timer'[m] = timer[m] /\ stray'[m] = stray[m]
        BY <1>3, <2>1, <2>3 DEF OnAllowed, TypeOK
      <3> QED
        BY <2>1, <3>1, ClockStep DEF Timer!vars
    <2> QED
      BY <2>2, <2>3
  <1> QED
    BY <1>1, <1>2, <1>3 DEF HandleReply, OnServerHello, OnAccountResponse

LEMMA ClockNext == StrayInv /\ TypeOK /\ [Next]_vars => StrayInv' /\ Clocks
  <1> SUFFICES ASSUME StrayInv, TypeOK, [Next]_vars PROVE StrayInv' /\ Clocks
    OBVIOUS
  <1>1. ASSUME NEW m \in Machines,
               ConnectFails(m) \/ ConnectNotStarted(m) \/ Reconnect(m) \/ LinkDrops(m)
        PROVE  StrayInv' /\ Clocks
    BY <1>1, ClockStays DEF ConnectFails, ConnectNotStarted, Reconnect, LinkDrops
  <1>2. ASSUME NEW m \in Machines, NEW o \in Objects, ConnectOk(m, o)
        PROVE  StrayInv' /\ Clocks
    BY <1>2, ClockStays DEF ConnectOk
  <1>3. ASSUME NEW o \in Objects, NEW n,
               EndOfStream(o) \/ ServerSegment(o, n) \/ ServerMisreads(o, n)
        PROVE  StrayInv' /\ Clocks
    BY <1>3, ClockStays DEF EndOfStream, ServerSegment, ServerMisreads, Read, machineVars
  <1>4. ASSUME NEW m \in Machines, Crash(m) PROVE StrayInv' /\ Clocks
    <2>1. /\ ~timer'[m]
          /\ \A x \in Machines : x # m => /\ timer'[x] = timer[x] /\ stray'[x] = stray[x]
                                           /\ ticking'[x] = ticking[x]
      BY <1>4 DEF Crash, TypeOK
    <2> QED
      BY <1>4, <2>1, ClockStep
  <1>5. ASSUME NEW m \in Machines, conn[m] \in Objects,
               NEW n \in 0 .. Len(toClient[conn[m]]), ClientSegment(m, n)
        PROVE  StrayInv' /\ Clocks
    <2> DEFINE got == clientBuf[m] \o SubSeq(toClient[conn[m]], 1, n)
    <2>1. clientBuf[m] \in Seq(Reply) /\ toClient[conn[m]] \in Seq(Reply)
      BY <1>5 DEF TypeOK
    <2>2. got \in Seq(Reply) /\ got # <<>>
      BY <1>5, <2>1, SegmentElems DEF ClientSegment
    <2>3. Head(got) \in Reply
      BY <2>2, HeadTailElems
    <2>4. HandleReply(m, Head(got)) /\ ticking' = ticking
      BY <1>5 DEF ClientSegment
    <2> QED
      BY <2>3, <2>4, ClockHandle
  <1>6. ASSUME NEW m \in Machines, TimerTick(m) \/ TimerSend(m)
        PROVE  StrayInv' /\ Clocks
    <2>1. /\ timer' = timer /\ stray' = stray
          /\ \A x \in Machines : x # m => ticking'[x] = ticking[x]
          /\ \/ (timer[m] \/ stray[m]) /\ ~ticking[m] /\ ticking'[m]
             \/ ticking[m] /\ ~ticking'[m]
      BY <1>6 DEF TimerTick, TimerSend, TypeOK
    <2>2. Timer(m)!Next
      BY <2>1 DEF Timer!Next, Timer!Tick, Timer!Send
    <2> QED
      BY <2>1, <2>2, ClockStep DEF StrayInv
  <1>7. CASE UNCHANGED vars
    BY <1>7, ClockStays DEF vars, machineVars
  <1> QED
    BY <1>1, <1>2, <1>3, <1>4, <1>5, <1>6, <1>7 DEF Next, Machine, Server

\* The conversation, whose handlers start and stop the timer, asks no more of
\* it than ReauthTimerProofs shows of the timer's own threads (ImplementsService):
\* a stop is lost at most within a tick.
THEOREM TimerIsService == Spec => TimerSpec
  <1>1. Init => StrayInv /\ \A m \in Machines : Timer(m)!Init
    BY DEF Init, StrayInv, Timer!Init
  <1>2. StrayInv /\ TypeOK /\ [Next]_vars => StrayInv'
    BY ClockNext
  <1>3. StrayInv /\ TypeOK /\ [Next]_vars
          => [\A m \in Machines : [Timer(m)!Next]_(Timer(m)!vars) \/ Crash(m)]_vars
    BY ClockNext DEF Clocks
  <1> QED
    BY <1>1, <1>2, <1>3, TypeCorrect, PTL DEF Spec, TimerSpec
=============================================================================
