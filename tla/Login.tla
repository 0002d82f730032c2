------------------------------- MODULE Login --------------------------------
(***************************************************************************)
(* The login conversation between the credential providers of several      *)
(* machines and the credential server: connecting and reconnecting, Hello, *)
(* AuthorizeTry, AuthorizeStatus, AccountRequest and AccountResponse, the  *)
(* timer that repeats a refused AuthorizeTry, machines that crash, links   *)
(* that drop, and the server's Client objects, which go back to a pool and *)
(* serve later connections.                                                *)
(*                                                                         *)
(* Framing is used through what module Framing shows of it: a read         *)
(* callback brings some whole frames and hands at most one of them to      *)
(* handle_packet; the others stay in the buffer. Of an object whose buffer *)
(* holds a part of a frame that never came whole Framing promises nothing, *)
(* and neither does this module.                                           *)
(***************************************************************************)
EXTENDS Naturals, Sequences

CONSTANTS
    Machines,       \* the computers that run the provider
    Keys,           \* the ids the providers keep in the registry
    KeyOf,          \* the id of each machine
    Objects,        \* bound: the server's Client objects
    NoObject,       \* no connection
    MaxInFlight,    \* bound: packets of one connection when the timer sends
    MaxCrashes      \* bound: crashes of machines

ASSUME KeysAssumption == KeyOf \in [Machines -> Keys]
ASSUME ObjectsAssumption == NoObject \notin Objects
ASSUME LoginBoundsAssumption == MaxInFlight \in Nat /\ MaxCrashes \in Nat

VARIABLES
    \* of a machine
    link,       \* its connection: connecting, waiting, up or down
    conn,       \* the server object at the other end of it
    logged,     \* Client::logged of the provider
    timer,      \* reauth_timer is started
    stray,      \* the stop() of it was lost: it ticks on
    ticking,    \* the timers thread is inside on_auth_timer
    clientBuf,  \* whole frames in the provider's buffer
    clean,      \* its connection was given an object that held no bytes
    crashes,    \* crashes so far
    \* of a server object
    born,       \* the objects created so far
    pool,       \* available_clients
    session,    \* Client::logged of the server object
    serverBuf,  \* whole frames in the object's buffer
    partial,    \* behind them lies a part of one, of a connection that ended
    toServer,   \* packets on the way to the object
    toClient,   \* packets on the way from it
    \* of the server
    registered  \* the keys in accounts

machineVars == <<link, conn, logged, timer, stray, ticking, clientBuf, clean, crashes>>
objectVars  == <<born, pool, session, serverBuf, partial, toServer, toClient>>
vars        == <<machineVars, objectVars, registered>>

Hello          == [type |-> "Hello"]
AuthorizeTry(k) == [type |-> "AuthorizeTry", key |-> k]
AccountRequest == [type |-> "AccountRequest"]

Request == [type : {"Hello", "AccountRequest"}]
             \cup [type : {"AuthorizeTry"}, key : Keys]
Reply   == {"Hello", "Allowed", "Blocked", "Account", "NoAccount"}

Elems(s) == {s[i] : i \in DOMAIN s}

\* The objects that hold a connection, whoever is at its other end.
Serving == born \ Elems(pool)

Init ==
    /\ link = [m \in Machines |-> "connecting"]
    /\ conn = [m \in Machines |-> NoObject]
    /\ logged = [m \in Machines |-> FALSE]
    /\ timer = [m \in Machines |-> FALSE]
    /\ stray = [m \in Machines |-> FALSE]
    /\ ticking = [m \in Machines |-> FALSE]
    /\ clientBuf = [m \in Machines |-> <<>>]
    /\ clean = [m \in Machines |-> TRUE]
    /\ crashes = 0
    /\ born = {} /\ pool = <<>>
    /\ session = [o \in Objects |-> FALSE]
    /\ serverBuf = [o \in Objects |-> <<>>]
    /\ partial = [o \in Objects |-> FALSE]
    /\ toServer = [o \in Objects |-> <<>>]
    /\ toClient = [o \in Objects |-> <<>>]
    /\ registered = {}

-----------------------------------------------------------------------------
(* Connections.                                                            *)

\* on_connect with an error arms the reconnect timer.
ConnectFails(m) ==
    /\ link[m] = "connecting"
    /\ link' = [link EXCEPT ![m] = "waiting"]
    /\ UNCHANGED <<conn, logged, timer, stray, ticking, clientBuf, clean, crashes,
                   objectVars, registered>>

\* The value uv_tcp_connect returns is ignored. When it fails at once it never
\* calls on_connect, no timer is armed, and nothing connects again.
ConnectNotStarted(m) ==
    /\ link[m] = "connecting"
    /\ link' = [link EXCEPT ![m] = "down"]
    /\ UNCHANGED <<conn, logged, timer, stray, ticking, clientBuf, clean, crashes,
                   objectVars, registered>>

\* on_reconnect
Reconnect(m) ==
    /\ link[m] = "waiting"
    /\ link' = [link EXCEPT ![m] = "connecting"]
    /\ UNCHANGED <<conn, logged, timer, stray, ticking, clientBuf, clean, crashes,
                   objectVars, registered>>

\* Mistaken variant: the object is not taken out of the pool.
TakeObjectPeeks(o) ==
    \/ /\ pool # <<>>
       /\ o = Head(pool)
       /\ UNCHANGED <<pool, born>>
    \/ /\ pool = <<>>
       /\ o \notin born /\ born' = born \cup {o}
       /\ UNCHANGED pool

\* Clients::on_notify takes the oldest object of the pool, as it is, or
\* creates one.
TakeObject(o) ==
    \/ /\ pool # <<>>
       /\ o = Head(pool) /\ pool' = Tail(pool)
       /\ UNCHANGED born
    \/ /\ pool = <<>>
       /\ o \notin born /\ born' = born \cup {o}
       /\ UNCHANGED pool

\* on_connect without error: the provider sends Hello.
ConnectOk(m, o) ==
    /\ link[m] = "connecting"
    /\ TakeObject(o)
    /\ link' = [link EXCEPT ![m] = "up"]
    /\ conn' = [conn EXCEPT ![m] = o]
    /\ clean' = [clean EXCEPT ![m] = (serverBuf[o] = <<>> /\ ~partial[o])]
    /\ toServer' = [toServer EXCEPT ![o] = <<Hello>>]
    /\ UNCHANGED <<logged, timer, stray, ticking, clientBuf, crashes,
                   session, serverBuf, partial, toClient, registered>>

\* Mistaken variant: the dead connection is kept.
LinkDropsHalf(m) ==
    /\ link[m] = "up"
    /\ link' = [link EXCEPT ![m] = "down"]
    /\ UNCHANGED <<conn, logged, timer, stray, ticking, clientBuf, clean, crashes,
                   objectVars, registered>>

\* The connection is lost. The provider's read callback returns on an error
\* and nothing connects again; what it knew it keeps.
LinkDrops(m) ==
    /\ link[m] = "up"
    /\ link' = [link EXCEPT ![m] = "down"]
    /\ conn' = [conn EXCEPT ![m] = NoObject]
    /\ UNCHANGED <<logged, timer, stray, ticking, clientBuf, clean, crashes,
                   objectVars, registered>>

\* The machine, or the process that hosts the provider, starts afresh.
Crash(m) ==
    /\ crashes < MaxCrashes
    /\ crashes' = crashes + 1
    /\ link' = [link EXCEPT ![m] = "connecting"]
    /\ conn' = [conn EXCEPT ![m] = NoObject]
    /\ logged' = [logged EXCEPT ![m] = FALSE]
    /\ timer' = [timer EXCEPT ![m] = FALSE]
    /\ stray' = [stray EXCEPT ![m] = FALSE]
    /\ ticking' = [ticking EXCEPT ![m] = FALSE]
    /\ clientBuf' = [clientBuf EXCEPT ![m] = <<>>]
    /\ clean' = [clean EXCEPT ![m] = TRUE]
    /\ UNCHANGED <<objectVars, registered>>

\* The server reads the end of a connection whose other end is gone; packets
\* not read by then are lost, but of the first of them a part may have come.
\* Clients::disconnect pools the object as it is, with that part and the
\* length it waits for.
EndOfStream(o) ==
    /\ o \in Serving
    /\ \A m \in Machines : conn[m] # o
    /\ \/ UNCHANGED partial
       \/ toServer[o] # <<>> /\ partial' = [partial EXCEPT ![o] = TRUE]
    /\ pool' = Append(pool, o)
    /\ toServer' = [toServer EXCEPT ![o] = <<>>]
    /\ toClient' = [toClient EXCEPT ![o] = <<>>]
    /\ UNCHANGED <<machineVars, born, session, serverBuf, registered>>

-----------------------------------------------------------------------------
(* The server's handlers.                                                  *)

Respond(o, r) == toClient' = [toClient EXCEPT ![o] = Append(@, r)]

OnHello(o) ==
    /\ Respond(o, "Hello")
    /\ UNCHANGED <<session, registered>>

\* Accounts::get_by_key and, for a key it does not find,
\* Accounts::add_unregistered, which registers the key at once.
KnownKey(key) == key \in registered

AddUnregistered(key) == registered' = registered \cup {key}

\* Mistaken variants of on_auth: a known key is allowed but the session is
\* not logged in,
OnAuthNotLogged(o, key) ==
    \/ /\ key \in registered
       /\ Respond(o, "Allowed")
       /\ UNCHANGED <<session, registered>>
    \/ /\ key \notin registered
       /\ registered' = registered \cup {key}
       /\ Respond(o, "Blocked")
       /\ UNCHANGED session

\* an unknown key is refused and not remembered,
OnAuthForgets(o, key) ==
    \/ /\ key \in registered
       /\ session' = [session EXCEPT ![o] = TRUE]
       /\ Respond(o, "Allowed")
       /\ UNCHANGED registered
    \/ /\ key \notin registered
       /\ Respond(o, "Blocked")
       /\ UNCHANGED <<session, registered>>

\* a session that is logged in allows whatever key comes.
OnAuthTrustsSession(o, key) ==
    \/ /\ key \in registered \/ session[o]
       /\ session' = [session EXCEPT ![o] = TRUE]
       /\ Respond(o, "Allowed")
       /\ UNCHANGED registered
    \/ /\ key \notin registered /\ ~session[o]
       /\ registered' = registered \cup {key}
       /\ Respond(o, "Blocked")
       /\ UNCHANGED session

\* A registered key is allowed. An unknown one is refused, on the exception of
\* get_by_key, and the session, which a previous connection may have left
\* logged in, is not touched.
OnAuth(o, key) ==
    \/ /\ KnownKey(key)
       /\ session' = [session EXCEPT ![o] = TRUE]
       /\ Respond(o, "Allowed")
       /\ UNCHANGED registered
    \/ /\ ~KnownKey(key)
       /\ AddUnregistered(key)
       /\ Respond(o, "Blocked")
       /\ UNCHANGED session

OnAccounts(o) ==
    /\ Respond(o, IF session[o] THEN "Account" ELSE "NoAccount")
    /\ UNCHANGED <<session, registered>>

HandleRequest(o, p) ==
    \/ p.type = "Hello" /\ OnHello(o)
    \/ p.type = "AuthorizeTry" /\ OnAuth(o, p.key)
    \/ p.type = "AccountRequest" /\ OnAccounts(o)

\* A read callback of the server brings n packets.
Read(o, n) ==
    /\ o \in Serving
    /\ toServer' = [toServer EXCEPT ![o] = SubSeq(@, n + 1, Len(@))]
    /\ UNCHANGED <<machineVars, born, pool, partial>>

\* The whole frames it finds: packets that follow a part of a frame are none.
Got(o, n) == serverBuf[o] \o SubSeq(toServer[o], 1, IF partial[o] THEN 0 ELSE n)

\* It handles one of them.
ServerSegment(o, n) ==
    /\ Read(o, n)
    /\ Got(o, n) # <<>>
    /\ HandleRequest(o, Head(Got(o, n)))
    /\ serverBuf' = [serverBuf EXCEPT ![o] = Tail(Got(o, n))]

\* Once a part of a frame is at the front of the buffer, the object is out of
\* step, and need never be in step again: it takes what comes for the rest of that
\* frame and for lengths nobody wrote. It waits for more, or hands over a frame
\* that is no request or may be any, the one that was sent by chance. At most one such frame for each callback
\* that brings bytes bounds how many.
ServerMisreads(o, n) ==
    /\ Read(o, n)
    /\ partial[o] /\ serverBuf[o] = <<>> /\ n > 0
    /\ \/ UNCHANGED <<session, toClient, registered>>
       \/ \E p \in Request : HandleRequest(o, p)
    /\ UNCHANGED serverBuf

-----------------------------------------------------------------------------
(* The provider's handlers.                                                *)

Send(m, p) == toServer' = [toServer EXCEPT ![conn[m]] = Append(@, p)]

OnServerHello(m) ==
    /\ Send(m, AuthorizeTry(KeyOf[m]))
    /\ UNCHANGED <<logged, timer, stray>>

\* Mistaken variant: a refusal is not tried again.
OnBlockedGivesUp(m) == UNCHANGED <<logged, timer, stray, toServer>>

\* on_auth with BLOCKED
OnBlocked(m) ==
    /\ timer' = [timer EXCEPT ![m] = TRUE]
    /\ stray' = [stray EXCEPT ![m] = FALSE]
    /\ UNCHANGED <<logged, toServer>>

\* Mistaken variant: the reauth timer runs on.
OnAllowedKeepsTimer(m) ==
    /\ Send(m, AccountRequest)
    /\ UNCHANGED <<logged, timer, stray>>

\* Mistaken variant: nobody asks for the account.
OnAllowedAsksNothing(m) ==
    /\ timer' = [timer EXCEPT ![m] = FALSE]
    /\ UNCHANGED <<logged, stray, toServer>>

\* Mistaken variant: any stop may be lost.
OnAllowedLosesStop(m) ==
    /\ timer' = [timer EXCEPT ![m] = FALSE]
    /\ stray' = [stray EXCEPT ![m] = @ \/ timer[m]]
    /\ Send(m, AccountRequest)
    /\ UNCHANGED logged

\* on_auth with ALLOWED. A stop that falls into a tick may be lost, as module
\* ReauthTimer shows; of a timer that is not started nothing is stopped.
OnAllowed(m) ==
    /\ timer' = [timer EXCEPT ![m] = FALSE]
    /\ \/ timer[m] /\ stray' = [stray EXCEPT ![m] = FALSE]
       \/ timer[m] /\ ticking[m] /\ stray' = [stray EXCEPT ![m] = TRUE]
       \/ ~timer[m] /\ UNCHANGED stray
    /\ Send(m, AccountRequest)
    /\ UNCHANGED logged

\* on_accounts: a response without an account changes nothing.
OnAccountResponse(m, r) ==
    /\ logged' = [logged EXCEPT ![m] = @ \/ r = "Account"]
    /\ UNCHANGED <<timer, stray, toServer>>

HandleReply(m, r) ==
    \/ r = "Hello" /\ OnServerHello(m)
    \/ r = "Blocked" /\ OnBlocked(m)
    \/ r = "Allowed" /\ OnAllowed(m)
    \/ r \in {"Account", "NoAccount"} /\ OnAccountResponse(m, r)

\* A read callback of the provider brings n packets and handles one.
ClientSegment(m, n) ==
    LET o   == conn[m]
        got == clientBuf[m] \o SubSeq(toClient[o], 1, n)
    IN  /\ link[m] = "up"
        /\ got # <<>>
        /\ HandleReply(m, Head(got))
        /\ clientBuf' = [clientBuf EXCEPT ![m] = Tail(got)]
        /\ toClient' = [toClient EXCEPT ![o] = SubSeq(@, n + 1, Len(@))]
        /\ UNCHANGED <<link, conn, ticking, clean, crashes,
                       born, pool, session, serverBuf, partial, registered>>

-----------------------------------------------------------------------------
(* The reauth timer runs on a thread of its own: the connection's thread   *)
(* may stop it after on_auth_timer was called and before it sends. Its     *)
(* steps are those of TimerService, which module ReauthTimer implements.   *)

TimerTick(m) ==
    /\ timer[m] \/ stray[m]
    /\ ~ticking[m]
    /\ ticking' = [ticking EXCEPT ![m] = TRUE]
    /\ UNCHANGED <<link, conn, logged, timer, stray, clientBuf, clean, crashes,
                   objectVars, registered>>

InFlight(m) ==
    LET o == conn[m]
    IN  Len(toServer[o]) + Len(serverBuf[o]) + Len(toClient[o]) + Len(clientBuf[m])

\* A write to a connection that is down goes nowhere.
TimerSend(m) ==
    /\ ticking[m]
    /\ ticking' = [ticking EXCEPT ![m] = FALSE]
    /\ \/ /\ link[m] = "up"
          /\ InFlight(m) < MaxInFlight
          /\ Send(m, AuthorizeTry(KeyOf[m]))
       \/ /\ link[m] = "down"
          /\ UNCHANGED toServer
    /\ UNCHANGED <<link, conn, logged, timer, stray, clientBuf, clean, crashes,
                   born, pool, session, serverBuf, partial, toClient, registered>>

-----------------------------------------------------------------------------
Machine(m) ==
    \/ ConnectFails(m) \/ ConnectNotStarted(m) \/ Reconnect(m)
    \/ LinkDrops(m) \/ Crash(m)
    \/ \E o \in Objects : ConnectOk(m, o)
    \/ conn[m] \in Objects /\ \E n \in 0 .. Len(toClient[conn[m]]) : ClientSegment(m, n)
    \/ TimerTick(m) \/ TimerSend(m)

Server(o) ==
    \/ EndOfStream(o)
    \/ \E n \in 0 .. Len(toServer[o]) : ServerSegment(o, n) \/ ServerMisreads(o, n)

Next ==
    \/ \E m \in Machines : Machine(m)
    \/ \E o \in Objects : Server(o)

Spec == Init /\ [][Next]_vars

\* Both event loops handle the bytes that come, the reconnect and the reauth
\* timers expire, and a server that is tried again and again is reached in
\* the end. Nothing promises a read callback without bytes.
Fairness ==
    /\ \A m \in Machines :
          /\ WF_vars(conn[m] \in Objects
                       /\ \E n \in 1 .. Len(toClient[conn[m]]) : ClientSegment(m, n))
          /\ WF_vars(TimerTick(m)) /\ WF_vars(TimerSend(m))
          /\ WF_vars(Reconnect(m))
          /\ WF_vars(ConnectFails(m))
          /\ SF_vars(\E o \in Objects : ConnectOk(m, o))
    /\ \A o \in Objects :
          WF_vars(\E n \in 1 .. Len(toServer[o]) : ServerSegment(o, n) \/ ServerMisreads(o, n))

FairSpec == Spec /\ Fairness

-----------------------------------------------------------------------------
TypeOK ==
    /\ link \in [Machines -> {"connecting", "waiting", "up", "down"}]
    /\ conn \in [Machines -> Objects \cup {NoObject}]
    /\ \A m \in Machines : (link[m] = "up") <=> (conn[m] # NoObject)
    /\ logged \in [Machines -> BOOLEAN]
    /\ timer \in [Machines -> BOOLEAN]
    /\ stray \in [Machines -> BOOLEAN]
    /\ ticking \in [Machines -> BOOLEAN]
    /\ clientBuf \in [Machines -> Seq(Reply)]
    /\ clean \in [Machines -> BOOLEAN]
    /\ crashes \in 0 .. MaxCrashes
    /\ born \subseteq Objects
    /\ pool \in Seq(Objects)
    /\ session \in [Objects -> BOOLEAN]
    /\ serverBuf \in [Objects -> Seq(Request)]
    /\ partial \in [Objects -> BOOLEAN]
    /\ toServer \in [Objects -> Seq(Request)]
    /\ toClient \in [Objects -> Seq(Reply)]
    /\ registered \subseteq Keys

\* An object serves one connection: no two machines talk to the same object,
\* and the pool never holds one a machine talks to, nor one twice.
ExclusiveObjects ==
    /\ \A m1, m2 \in Machines : conn[m1] = conn[m2] => m1 = m2 \/ conn[m1] = NoObject
    /\ \A m \in Machines : conn[m] \notin Elems(pool)
    /\ \A i, j \in DOMAIN pool : pool[i] = pool[j] => i = j

\* The machine is connected to an object that reads its packets as they were
\* sent. Whole frames of an earlier connection may lie in front of them.
InStep(m) == link[m] = "up" /\ ~partial[conn[m]]

\* The conversation never gets stuck with frames left behind in the buffers:
\* a connected machine that is not logged in waits for a packet on the wire,
\* or its reauth timer runs. An object that is out of step swallows Hello, and
\* its machine waits for nothing.
NoStall ==
    \A m \in Machines :
        InStep(m) /\ ~logged[m] =>
            toServer[conn[m]] # <<>> \/ toClient[conn[m]] # <<>> \/ timer[m]

\* A machine that was told ALLOWED is never told that it has no account:
\* whatever its object served before, it asks only a session logged in, unless
\* the object takes another packet for the question.
AllowedHasAccount ==
    \A m \in Machines :
        InStep(m) => "NoAccount" \notin Elems(clientBuf[m]) \cup Elems(toClient[conn[m]])

\* A machine logs in only with a key of its own that the server knows, unless
\* it was given an object whose buffer still held bytes of another.
LoginNeedsKey ==
    \A m \in Machines : logged[m] /\ clean[m] => KeyOf[m] \in registered

\* Once logged in, a machine starts its timer no more: neither the tick that was
\* under way when ALLOWED came, nor those of a timer whose stop was lost, can
\* bring a refusal.
LoggedInIsQuiet ==
    \A m \in Machines : logged[m] /\ clean[m] => ~timer[m]

\* The replies on their way to a machine, in the order it will handle them,
\* and the requests on their way from it.
Incoming(m) == clientBuf[m] \o toClient[conn[m]]
Outgoing(m) == Elems(toServer[conn[m]]) \cup Elems(serverBuf[conn[m]])

\* The machine was told ALLOWED: its request for the account is under way, or
\* the account is.
Pending(m) == AccountRequest \in Outgoing(m) \/ "Account" \in Elems(Incoming(m))

\* How far a machine is with its login.
Phase(m) ==
    IF logged[m] THEN "in"
    ELSE IF link[m] = "down" THEN "cut"
    ELSE IF link[m] = "up" /\ Pending(m) THEN "allowed"
    ELSE IF timer[m] THEN "refused"
    ELSE "asking"

\* To a machine the packets, buffers, timers and pooled objects are a
\* conversation that only goes forward, from its start to its crash.
Talk(m) == INSTANCE Conversation WITH phase <- Phase(m), trusted <- clean[m],
                                      known <- KeyOf[m] \in registered
ConversationSpec ==
    /\ \A m \in Machines : Talk(m)!Init
    /\ [][\A m \in Machines : \/ [Talk(m)!Next]_(Talk(m)!vars)
                              \/ Crash(m) /\ Talk(m)!Restart]_vars

\* What the conversation does with its timer is what ReauthTimer was shown to
\* allow: from the start of a machine to its crash it is a TimerService.
Timer(m) == INSTANCE TimerService WITH started <- timer[m], stray <- stray[m],
                                       ticking <- ticking[m]
TimerSpec ==
    /\ \A m \in Machines : Timer(m)!Init
    /\ [][\A m \in Machines : [Timer(m)!Next]_(Timer(m)!vars) \/ Crash(m)]_vars

\* However often it is refused at first, and whichever whole frames its object
\* still held, every machine logs in, unless its connection is lost or not even
\* tried, or it was given an object that is out of step.
EventuallyLoggedIn ==
    \A m \in Machines :
        link[m] # "down" ~>
            (logged[m] \/ link[m] = "down" \/ (link[m] = "up" /\ partial[conn[m]]))
=============================================================================
