---------------------------- MODULE ProviderProofs ----------------------------
(***************************************************************************)
(* Proofs about Provider, for any number of hosts, sinks, accounts and     *)
(* clicks. RefsInv counts who holds the provider and the DLL, ThreadsInv   *)
(* says that threads run only where the provider is built, SinkInv when    *)
(* there is an event sink, and ViewInv what the host has been told of the  *)
(* tile, call by call.                                                     *)
(***************************************************************************)
EXTENDS Provider, TLAPS

Held  == Idle \cup {"building", "count", "fields", "tile", "shown"}
Asked == {"count", "fields", "tile", "shown"}

\* The host holds one reference until it releases it, the window one for good;
\* a provider counts once for the DLL and its two tiles once each.
RefsInv ==
    /\ ui = "none" => refs = 0 /\ dllRefs = 0 /\ ~built
    /\ ui \in Held => refs = (IF built THEN 2 ELSE 1) /\ dllRefs = (IF built THEN 3 ELSE 1)
    /\ ui = "building" => built
    /\ ui = "gone" => refs = (IF built THEN 1 ELSE 0) /\ dllRefs = (IF built THEN 3 ELSE 0)
    /\ ui \notin {"gone", "dead"} => loaded
    /\ built => loaded

Places == {"none", "start", "pump", "loop", "test", "call", "ended"}

\* Parts of the type invariant.
NumbersOK ==
    /\ refs \in Nat /\ dllRefs \in Nat /\ sink \in Nat /\ advised \in Nat
    /\ advises \in Nat /\ clicks \in Nat /\ reports \in Nat /\ stored \in Nat
    /\ id \in Nat /\ hosts \in Nat

FlagsOK ==
    /\ ui \in Idle \cup {"none", "building", "count", "fields", "tile", "shown", "gone", "dead"}
    /\ client \in {"unset", "set"}
    /\ loaded \in BOOLEAN /\ built \in BOOLEAN /\ wild \in BOOLEAN /\ told \in BOOLEAN
    /\ stray \in BOOLEAN /\ hwnd \in BOOLEAN /\ connected \in BOOLEAN /\ logged \in BOOLEAN
    /\ unread \in BOOLEAN

Quiet(t) == at[t] \in {"none", "ended"}

ThreadsInv ==
    /\ ~Quiet("window") => built
    /\ ~Quiet("network") => built /\ client = "set"
    /\ ui = "dead" => Quiet("window") /\ Quiet("network")

SinkInv ==
    /\ sink = advised
    /\ ui # "dead" => (ui \in Asked <=> advised # 0)

\* No notice of a login is due to reach the sink the host has now.
NoNotice ==
    /\ client = "set" /\ ~told
    /\ \/ at["network"] \notin {"test", "call"}
       \/ at["network"] = "call" /\ held["network"] # sink

ViewInv ==
    /\ NoNotice /\ ui \in {"fields", "tile", "shown"} => view["count"] = TileFor(logged)
    /\ NoNotice /\ ui \in {"tile", "shown"} => view["fields"] = TileFor(logged)
    /\ NoNotice /\ ui = "shown" => view["tile"] = TileFor(logged)

\* A client is created at most once in a process, and goes by the stored id.
IdInv ==
    /\ id # 0 => id = stored
    /\ ui \in {"none", "created", "refused", "failed", "building"}
        => client = "unset" /\ ~unread

IInv == TypeOK /\ RefsInv /\ ThreadsInv /\ SinkInv /\ ViewInv /\ AskedFieldsExist /\ IdInv

-----------------------------------------------------------------------------
\* A process that starts has no provider.
LEMMA InitIInv == Init => IInv
<1> SUFFICES ASSUME Init PROVE IInv
  OBVIOUS
<1> USE DEF Init, Fresh, Reporters, NoView, Calls, Idle
<1>1. TypeOK
  <2>1. mail \in Seq({"toggle", "exit"})
    OBVIOUS
  <2>2. at \in [Reporters -> Places] /\ held \in [Reporters -> Nat]
    BY DEF Places
  <2>3. view \in [Calls -> Tiles \cup {"none"}]
    BY DEF Calls
  <2> QED
    BY <2>1, <2>2, <2>3 DEF TypeOK, Places
<1>2. RefsInv /\ SinkInv /\ IdInv
  BY DEF RefsInv, SinkInv, IdInv, Held, Asked
<1>3. ThreadsInv
  BY DEF ThreadsInv, Quiet
<1>4. ViewInv /\ AskedFieldsExist
  BY DEF ViewInv, AskedFieldsExist
<1> QED
  BY <1>1, <1>2, <1>3, <1>4 DEF IInv

\* The steps of the host that concern the provider's life keep the invariant.
LEMMA LifeStep ==
    IInv /\ (CreateInstance \/ Release \/ CanUnloadNow \/ NewHost) => IInv'
<1> SUFFICES ASSUME IInv, CreateInstance \/ Release \/ CanUnloadNow \/ NewHost
             PROVE  IInv'
  OBVIOUS
<1> USE DEF IInv, TypeOK, RefsInv, ThreadsInv, SinkInv, ViewInv, AskedFieldsExist, IdInv,
            Held, Asked, Idle, Quiet, NoNotice, Reporters, Tiles, TileFor, NumFields,
            NoView, Calls, clientVars, sinkVars, threadVars, windowVars, hostVars
<1>1. CASE CreateInstance BY <1>1 DEF CreateInstance
<1>2. CASE Release
  <2> USE <1>2 DEF Release, Destroy
  <2>1. TypeOK'
    <3>1. at' \in [Reporters -> Places]
      BY DEF Places
    <3>2. mail' \in Seq({"toggle", "exit"})
      OBVIOUS
    <3>5. NumbersOK'
      BY DEF NumbersOK
    <3>6. FlagsOK'
      BY DEF FlagsOK
    <3> QED
      BY <3>1, <3>2, <3>5, <3>6 DEF Places, NumbersOK, FlagsOK
  <2>3. RefsInv' /\ ThreadsInv' /\ SinkInv' /\ IdInv'
    OBVIOUS
  <2>4. ViewInv' /\ AskedFieldsExist'
    OBVIOUS
  <2> QED
    BY <2>1, <2>3, <2>4 DEF IInv
<1>3. CASE CanUnloadNow
  <2> USE <1>3 DEF CanUnloadNow
  <2>1. TypeOK'
    OBVIOUS
  <2>3. RefsInv' /\ ThreadsInv' /\ SinkInv' /\ IdInv'
    OBVIOUS
  <2>4. ViewInv' /\ AskedFieldsExist'
    OBVIOUS
  <2> QED
    BY <2>1, <2>3, <2>4 DEF IInv
<1>4. CASE NewHost
  <2> USE <1>4 DEF NewHost
  <2>1. TypeOK'
    <3>1. at' \in [Reporters -> Places]
      BY DEF Places
    <3>2. mail' \in Seq({"toggle", "exit"})
      OBVIOUS
    <3>3. held' \in [Reporters -> Nat]
      OBVIOUS
    <3>4. view' \in [Calls -> Tiles \cup {"none"}]
      OBVIOUS
    <3>5. NumbersOK'
      BY DEF NumbersOK
    <3>6. FlagsOK'
      BY DEF FlagsOK
    <3> QED
      BY <3>1, <3>2, <3>3, <3>4, <3>5, <3>6 DEF Places, NumbersOK, FlagsOK
  <2>3. RefsInv' /\ ThreadsInv' /\ SinkInv' /\ IdInv'
    OBVIOUS
  <2>4. ViewInv' /\ AskedFieldsExist'
    OBVIOUS
  <2> QED
    BY <2>1, <2>3, <2>4 DEF IInv
<1> QED
  BY <1>1, <1>2, <1>3, <1>4

\* So do those of SetUsageScenario,
LEMMA ScenarioStep ==
    IInv /\ (Refuse \/ AlreadySetUp \/ Build \/ BuildFails \/ CreateClient
               \/ ClientThrows \/ ClientAborts) => IInv'
<1> SUFFICES ASSUME IInv, Refuse \/ AlreadySetUp \/ Build \/ BuildFails \/ CreateClient
                            \/ ClientThrows \/ ClientAborts
             PROVE  IInv'
  OBVIOUS
<1> USE DEF IInv, TypeOK, RefsInv, ThreadsInv, SinkInv, ViewInv, AskedFieldsExist, IdInv,
            Held, Asked, Idle, Quiet, NoNotice, Reporters, Tiles, TileFor, NumFields,
            Calls, clientVars, sinkVars, threadVars, windowVars, hostVars
<1>1. CASE Refuse       BY <1>1 DEF Refuse
<1>2. CASE AlreadySetUp BY <1>2 DEF AlreadySetUp
<1>3. CASE Build        BY <1>3 DEF Build
<1>4. CASE BuildFails   BY <1>4 DEF BuildFails
<1>5. CASE CreateClient
  <2> USE <1>5 DEF CreateClient, LoadId, InitId
  <2>1. TypeOK'
    <3>1. at' \in [Reporters -> Places]
      BY DEF Places
    <3>2. NumbersOK'
      BY DEF NumbersOK
    <3>3. unread' \in BOOLEAN
      OBVIOUS
    <3>4. FlagsOK'
      <4>1. FlagsOK
        BY DEF FlagsOK
      <4>2. UNCHANGED <<loaded, built, wild, told, stray, hwnd, connected, logged>>
            /\ ui' = "ready" /\ client' = "set"
        OBVIOUS
      <4> QED
        BY <3>3, <4>1, <4>2 DEF FlagsOK
    <3> QED
      BY <3>1, <3>2, <3>4 DEF Places, NumbersOK, FlagsOK
  <2>2. ThreadsInv'
    <3>1. at'["window"] = at["window"] /\ at'["network"] = "loop"
      OBVIOUS
    <3> QED
      BY <3>1
  <2>3. RefsInv' /\ SinkInv'
    OBVIOUS
  <2>4. ViewInv' /\ AskedFieldsExist'
    OBVIOUS
  <2>5. IdInv'
    <3>1. ui' = "ready" /\ id' = stored'
      OBVIOUS
    <3> QED
      BY <3>1
  <2> QED
    BY <2>1, <2>2, <2>3, <2>4, <2>5 DEF IInv
<1>6. CASE ClientThrows BY <1>6 DEF ClientThrows, Dies
<1>7. CASE ClientAborts BY <1>7 DEF ClientAborts, Dies
<1> QED
  BY <1>1, <1>2, <1>3, <1>4, <1>5, <1>6, <1>7

\* those of the enumeration,
LEMMA EnumerateStep == IInv /\ (Advise \/ UnAdvise \/ Enumerate) => IInv'
<1> SUFFICES ASSUME IInv, Advise \/ UnAdvise \/ Enumerate
             PROVE  IInv'
  OBVIOUS
<1> USE DEF IInv, TypeOK, RefsInv, ThreadsInv, SinkInv, ViewInv, AskedFieldsExist, IdInv,
            Held, Asked, Idle, Quiet, NoNotice, Reporters, Tiles, TileFor, NumFields,
            NoView, Calls, clientVars, sinkVars, threadVars, windowVars, hostVars
<1>1. CASE Advise
  <2> USE <1>1 DEF Advise
  <2>1. TypeOK'
    <3>4. view' \in [Calls -> Tiles \cup {"none"}]
      OBVIOUS
    <3>5. NumbersOK'
      BY DEF NumbersOK
    <3>6. FlagsOK'
      BY DEF FlagsOK
    <3> QED
      BY <3>4, <3>5, <3>6 DEF Places, NumbersOK, FlagsOK
  <2>3. RefsInv' /\ ThreadsInv' /\ SinkInv' /\ IdInv'
    OBVIOUS
  <2>4. ViewInv' /\ AskedFieldsExist'
    OBVIOUS
  <2> QED
    BY <2>1, <2>3, <2>4 DEF IInv
<1>2. CASE UnAdvise
  <2> USE <1>2 DEF UnAdvise
  <2>1. TypeOK'
    OBVIOUS
  <2>3. RefsInv' /\ ThreadsInv' /\ SinkInv' /\ IdInv'
    OBVIOUS
  <2>4. ViewInv' /\ AskedFieldsExist'
    OBVIOUS
  <2> QED
    BY <2>1, <2>3, <2>4 DEF IInv
<1>3. CASE GetFieldDescriptorCount
  BY <1>3 DEF GetFieldDescriptorCount, Ask, Reads, Dies
<1>4. CASE GetFieldDescriptorAt
  BY <1>4 DEF GetFieldDescriptorAt, Ask, Reads, Dies
<1>5. CASE GetCredentialAt
  BY <1>5 DEF GetCredentialAt, Ask, Reads, Dies
<1>6. CASE EnumerateAgain
  <2> USE <1>6 DEF EnumerateAgain
  <2>1. TypeOK'
    OBVIOUS
  <2>3. RefsInv' /\ ThreadsInv' /\ SinkInv' /\ IdInv'
    OBVIOUS
  <2>4. ViewInv' /\ AskedFieldsExist'
    OBVIOUS
  <2> QED
    BY <2>1, <2>3, <2>4 DEF IInv
<1> QED
  BY <1>1, <1>2, <1>3, <1>4, <1>5, <1>6 DEF Enumerate

\* and those of the window's and the network's thread.
LEMMA ThreadStep ==
    IInv /\ (\/ \E t \in Reporters : OnConnectStatusChanged(t)
             \/ ThreadProc \/ ProcessNextMessage \/ OnAccounts
             \/ \E message \in {"toggle", "exit"} : WndProc(message)) => IInv'
<1> SUFFICES ASSUME IInv,
                    \/ \E t \in Reporters : OnConnectStatusChanged(t)
                    \/ ThreadProc \/ ProcessNextMessage \/ OnAccounts
                    \/ \E message \in {"toggle", "exit"} : WndProc(message)
             PROVE  IInv'
  OBVIOUS
<1> USE DEF IInv, TypeOK, RefsInv, ThreadsInv, SinkInv, ViewInv, AskedFieldsExist, IdInv,
            Held, Asked, Idle, Quiet, NoNotice, Reporters, Tiles, TileFor, NumFields,
            Calls, clientVars, sinkVars, threadVars, windowVars, hostVars
<1>1. ASSUME NEW t \in Reporters, Test(t) PROVE IInv'
  <2>1. CASE t = "window"  BY <1>1, <2>1 DEF Test, Rest
  <2>2. CASE t = "network" BY <1>1, <2>2 DEF Test, Rest
  <2> QED BY <2>1, <2>2
<1>2. ASSUME NEW t \in Reporters, Call(t) PROVE IInv'
  <2> USE <1>2
  <2>1. /\ at[t] = "call" /\ built /\ ui # "dead"
        /\ held' = [held EXCEPT ![t] = 0]
        /\ UNCHANGED <<refs, dllRefs, loaded, built, clientVars, wild, sinkVars, view,
                       windowVars, stored, hosts>>
    BY DEF Call
  <2>2. PICK s \in {held[t], sink} :
          \/ /\ s # 0 /\ s = advised
             /\ told' = TRUE /\ UNCHANGED <<ui, stray>>
             /\ at' = [at EXCEPT ![t] = Rest(t)]
          \/ /\ s # 0 /\ s # advised
             /\ stray' = TRUE /\ UNCHANGED <<ui, told>>
             /\ at' = [at EXCEPT ![t] = Rest(t)]
          \/ /\ s # advised \/ s = 0
             /\ stray' = TRUE /\ Dies /\ UNCHANGED told
    BY DEF Call
  <2> HIDE <1>2
  <2>3. TypeOK'
    <3>1. at' \in [Reporters -> Places]
      BY <2>1, <2>2 DEF Places, Dies, Rest
    <3>2. held' \in [Reporters -> Nat]
      BY <2>1
    <3>3. NumbersOK'
      BY <2>1 DEF NumbersOK
    <3>4. FlagsOK'
      <4>1. FlagsOK
        BY DEF FlagsOK
      <4>2. ui' \in {ui, "dead"} /\ stray' \in BOOLEAN /\ told' \in BOOLEAN
        BY <2>1, <2>2 DEF Dies
      <4> QED
        BY <2>1, <4>1, <4>2 DEF FlagsOK
    <3> QED
      BY <2>1, <3>1, <3>2, <3>3, <3>4 DEF Places, NumbersOK, FlagsOK
  <2>4. RefsInv' /\ SinkInv' /\ IdInv'
    BY <2>1, <2>2 DEF Dies
  <2>5. ThreadsInv'
    <3>1. \A u \in Reporters : at'[u] \in {at[u], Rest(t), "none"}
      BY <2>1, <2>2 DEF Dies
    <3>2. CASE ui' = "dead"
      BY <2>1, <2>2, <3>2 DEF Dies
    <3>3. CASE ui' # "dead"
      <4>1. \A u \in Reporters : u # t => at'[u] = at[u]
        BY <2>2, <3>3 DEF Dies
      <4>2. \A u \in Reporters : ~Quiet(u)' => ~Quiet(u)
        BY <2>1, <4>1
      <4> QED
        BY <2>1, <3>3, <4>2
    <3> QED
      BY <3>2, <3>3
  <2>6. ViewInv' /\ AskedFieldsExist'
    <3>1. CASE ui' = "dead"
      BY <3>1
    <3>2. CASE told'
      BY <2>1, <2>2, <3>2 DEF Dies
    <3>3. CASE ui' # "dead" /\ ~told'
      <4>1. s # advised /\ UNCHANGED <<ui, told>> /\ at' = [at EXCEPT ![t] = Rest(t)]
        BY <2>2, <3>3 DEF Dies
      <4>2. NoNotice' => NoNotice
        <5>1. CASE t = "network"
          BY <2>1, <2>2, <4>1, <5>1
        <5>2. CASE t = "window"
          BY <2>1, <4>1, <5>2
        <5> QED
          BY <5>1, <5>2
      <4> QED
        BY <2>1, <4>1, <4>2
    <3> QED
      BY <3>1, <3>2, <3>3
  <2> QED
    BY <2>3, <2>4, <2>5, <2>6
<1>3. CASE ThreadProc
  <2> USE <1>3 DEF ThreadProc
  <2>1. TypeOK'
    <3>1. at' \in [Reporters -> Places]
      BY DEF Places
    <3>5. NumbersOK'
      BY DEF NumbersOK
    <3>6. FlagsOK'
      <4>1. FlagsOK
        BY DEF FlagsOK
      <4>2. /\ UNCHANGED <<ui, loaded, built, client, wild, told, stray, logged, unread>>
            /\ hwnd' \in BOOLEAN /\ connected' \in BOOLEAN
        OBVIOUS
      <4> QED
        BY <4>1, <4>2 DEF FlagsOK
    <3> QED
      BY <3>1, <3>5, <3>6 DEF Places, NumbersOK, FlagsOK
  <2>3. RefsInv' /\ ThreadsInv' /\ SinkInv' /\ IdInv'
    OBVIOUS
  <2>4. ViewInv' /\ AskedFieldsExist'
    OBVIOUS
  <2> QED
    BY <2>1, <2>3, <2>4 DEF IInv
<1>4. CASE ProcessNextMessage
  <2> USE <1>4 DEF ProcessNextMessage
  <2>1. TypeOK'
    <3>1. at' \in [Reporters -> Places]
      BY DEF Places
    <3>2. mail' \in Seq({"toggle", "exit"})
      OBVIOUS
    <3>5. NumbersOK'
      BY DEF NumbersOK
    <3>6. FlagsOK'
      <4>1. FlagsOK
        BY DEF FlagsOK
      <4>2. /\ UNCHANGED <<ui, loaded, built, client, wild, told, stray, logged, unread>>
            /\ hwnd' \in BOOLEAN /\ connected' \in BOOLEAN
        OBVIOUS
      <4> QED
        BY <4>1, <4>2 DEF FlagsOK
    <3> QED
      BY <3>1, <3>2, <3>5, <3>6 DEF Places, NumbersOK, FlagsOK
  <2>3. RefsInv' /\ ThreadsInv' /\ SinkInv' /\ IdInv'
    OBVIOUS
  <2>4. ViewInv' /\ AskedFieldsExist'
    OBVIOUS
  <2> QED
    BY <2>1, <2>3, <2>4 DEF IInv
<1>5. CASE OnAccounts         BY <1>5 DEF OnAccounts
<1>6. ASSUME NEW message \in {"toggle", "exit"}, WndProc(message) PROVE IInv'
  BY <1>6 DEF WndProc
<1> QED
  BY <1>1, <1>2, <1>3, <1>4, <1>5, <1>6 DEF OnConnectStatusChanged

\* Nothing changes in a stuttering step.
LEMMA Stutter == IInv /\ UNCHANGED vars => IInv'
  BY DEF IInv, TypeOK, RefsInv, ThreadsInv, SinkInv, ViewInv, AskedFieldsExist, IdInv,
         Held, Asked, Idle, Quiet, NoNotice, Calls,
         vars, hostVars, clientVars, sinkVars, threadVars, windowVars

LEMMA Invariant == Spec => []IInv
<1>1. IInv /\ [Next]_vars => IInv'
  BY LifeStep, ScenarioStep, EnumerateStep, ThreadStep, Stutter DEF Next, Host
<1> QED
  BY InitIInv, <1>1, PTL DEF Spec

-----------------------------------------------------------------------------
\* Type correctness; in particular neither reference count goes below zero.
THEOREM TypeCorrect == Spec => []TypeOK
  BY Invariant, PTL DEF IInv

\* Whoever runs code of the DLL finds the provider and the DLL there.
THEOREM Outlives == Spec => []OutlivesCallbacks
<1>1. IInv => OutlivesCallbacks
  BY DEF IInv, TypeOK, RefsInv, ThreadsInv, Quiet, OutlivesCallbacks, Running, Reporters,
         Held, Idle
<1> QED
  BY Invariant, <1>1, PTL

\* A login between two calls never takes a field away from the host.
THEOREM FieldsExist == Spec => []AskedFieldsExist
  BY Invariant, PTL DEF IInv

\* A login between two calls of an enumeration is repaired by a notice.
THEOREM SettledView == Spec => []SettledViewIsCurrent
<1>1. IInv => SettledViewIsCurrent
  BY DEF IInv, TypeOK, ViewInv, NoNotice, SettledViewIsCurrent, Tiles, Calls
<1> QED
  BY Invariant, <1>1, PTL

\* What a step may do to the machine's id.
IdStep ==
    /\ (stored # 0 /\ stored' # stored)
         => stored' # 0 /\ client = "unset" /\ ~unread /\ unread'
    /\ id' # 0 => id' = stored'

\* A stored id is never lost; it is replaced only by a client that could not
\* load it, once in a process at most, and before the process has a client.
THEOREM Identity == Spec => IdentityKept
<1>1. ASSUME IInv, Next PROVE IdStep
  <2> USE <1>1 DEF IInv, IdInv, IdStep, clientVars
  <2>1. CASE CreateClient
    <3>1. stored \in Nat /\ client = "unset" /\ unread = FALSE
      BY <2>1 DEF CreateClient, TypeOK
    <3>2. LoadId
      BY <2>1 DEF CreateClient
    <3>3. CASE stored' = stored /\ id' = stored
      BY <3>3
    <3>4. CASE InitId /\ unread' = (stored # 0)
      <4>1. stored' # 0 /\ id' = stored'
        BY <3>1, <3>4 DEF InitId
      <4>2. stored # 0 => unread'
        BY <3>4
      <4> QED
        BY <3>1, <4>1, <4>2
    <3> QED
      BY <3>2, <3>3, <3>4 DEF LoadId
  <2>2. CASE NewHost      BY <2>2 DEF NewHost
  <2>3. CASE Host /\ ~CreateClient /\ ~NewHost
    <3>1. UNCHANGED <<id, stored>>
      BY <2>3 DEF Host, CreateInstance, Release, CanUnloadNow, Refuse, AlreadySetUp, Build,
                  BuildFails, ClientThrows, ClientAborts, Advise, UnAdvise
    <3> QED
      BY <3>1
  <2>4. CASE Enumerate
    <3>1. UNCHANGED <<id, stored>>
      BY <2>4 DEF Enumerate, GetFieldDescriptorCount, GetFieldDescriptorAt, GetCredentialAt,
                  EnumerateAgain, Ask
    <3> QED
      BY <3>1
  <2>5. CASE ~Host /\ ~Enumerate
    <3>1. UNCHANGED <<id, stored>>
      BY <2>5 DEF Next, OnConnectStatusChanged, Test, Call, ThreadProc, ProcessNextMessage,
                  OnAccounts, WndProc
    <3> QED
      BY <3>1
  <2> QED
    BY <2>1, <2>2, <2>3, <2>4, <2>5
<1>2. IInv /\ [Next]_vars => [IdStep]_vars
  BY <1>1
<1> QED
  BY Invariant, <1>2, PTL DEF Spec, IdentityKept, IdStep

-----------------------------------------------------------------------------
(* What the host is shown.                                                 *)

\* The calls that follow one that was answered.
Answering == {"fields", "tile", "shown"}

LEMMA NoAnswers ==
  /\ ui \notin Answering => Answers = {}
  /\ ui' \notin Answering => Answers' = {}
BY DEF Answering, Answers, Answered

\* A host that is not asking may miss a notice.
LEMMA HostForgets ==
  ASSUME client' = client, logged' = logged, ui' \notin Answering
  PROVE  Shown!Next
BY NoAnswers DEF Shown!Next, Shown!Forget, TileFor

LEMMA HostKeeps ==
  ASSUME client' = client, logged' = logged, ui' = ui, view' = view,
         (told \/ NoticeDue)' = (told \/ NoticeDue)
  PROVE  UNCHANGED Shown!vars
BY DEF Shown!vars, TileFor, Answers, Answered

LEMMA HostIsTold ==
  ASSUME client' = client, logged' = logged, ui' = ui, view' = view,
         (told \/ NoticeDue)'
  PROVE  Shown!Next
BY DEF Shown!Next, Shown!Tell, TileFor, Answers, Answered

\* The host's calls but for those of an enumeration.
LEMMA ShownHost == IInv /\ Host => [Shown!Next]_(Shown!vars)
<1> SUFFICES ASSUME IInv, Host PROVE [Shown!Next]_(Shown!vars)
  OBVIOUS
<1> USE DEF Host, Idle, Answering, clientVars
<1>1. CASE CreateInstance \/ CanUnloadNow \/ Refuse \/ AlreadySetUp \/ Build \/ BuildFails
  BY <1>1, HostForgets
     DEF CreateInstance, CanUnloadNow, Refuse, AlreadySetUp, Build, BuildFails
<1>2. CASE ClientThrows \/ ClientAborts \/ Advise \/ UnAdvise
  BY <1>2, HostForgets DEF ClientThrows, ClientAborts, Dies, Advise, UnAdvise
<1>3. CASE CreateClient
  <2>1. Answers = {} /\ Answers' = {}
    BY <1>3, NoAnswers DEF CreateClient
  <2>2. CASE client = "set"
    BY <1>3, <2>2, HostForgets DEF CreateClient
  <2>3. CASE client # "set"
    <3>1. ~NoticeDue /\ ~NoticeDue'
      BY <1>3, <2>3 DEF CreateClient, NoticeDue, IInv, TypeOK, ThreadsInv, Quiet, Reporters
    <3> QED
      BY <1>3, <2>1, <2>3, <3>1
         DEF CreateClient, TileFor, Shown!Next, Shown!Open
  <2> QED
    BY <2>2, <2>3
<1>4. CASE Release
  <2>1. logged' = logged /\ Answers = {} /\ Answers' = {}
    BY <1>4, NoAnswers DEF Release
  <2>2. client' = client \/ client' = "unset"
    BY <1>4 DEF Release, Destroy
  <2> QED
    BY <2>1, <2>2 DEF TileFor, Shown!Next, Shown!Close, Shown!Forget
<1>5. CASE NewHost
  <2>1. Answers' = {}
    BY <1>5, NoAnswers DEF NewHost
  <2>2. ~(told \/ NoticeDue)' /\ ~(client = "set")' /\ TileFor(logged)' = "message"
    BY <1>5 DEF NewHost, NoticeDue, TileFor, Reporters
  <2> QED
    BY <2>1, <2>2 DEF Shown!Next, Shown!Restart
<1> QED
  BY <1>1, <1>2, <1>3, <1>4, <1>5

\* One call of an enumeration adds one answer to those the host has.
LEMMA ShownAsk ==
  ASSUME IInv, NEW what \in Calls, NEW next, Ask(what, next),
         next \in Answering, what \notin Answered, Answered' = Answered \cup {what} \/ ui' = "dead"
  PROVE  Shown!Next
<1>1. CASE ui' = "dead"
  BY <1>1, HostForgets DEF Ask, Answering, clientVars
<1>2. CASE ui' # "dead"
  <2>1. ui' = next /\ at' = at /\ held' = held /\ sink' = sink /\ told' = told
        /\ client' = client /\ logged' = logged
    BY <1>2 DEF Ask, Dies, clientVars, sinkVars
  <2>2. PICK tile \in Tiles : Reads(tile) /\ view' = [view EXCEPT ![what] = tile]
    BY <1>2 DEF Ask, Dies
  <2>3. view \in [Calls -> Tiles \cup {"none"}] /\ Answered \subseteq Calls
    BY DEF IInv, TypeOK, Answered, Calls
  <2>4. Answers' = Answers \cup {tile}
    BY <1>2, <2>2, <2>3 DEF Answers
  <2>5. client = "set" => tile = TileFor(logged)
    BY <2>2 DEF Reads
  <2>6. Shown!Answer(tile)
    BY <2>1, <2>4, <2>5 DEF Shown!Answer, TileFor, NoticeDue
  <2> QED
    BY <2>6 DEF Shown!Next, Tiles
<1> QED
  BY <1>1, <1>2

LEMMA ShownEnumerate == IInv /\ Enumerate => Shown!Next
<1> SUFFICES ASSUME IInv, Enumerate PROVE Shown!Next
  OBVIOUS
<1> USE DEF Answering, Answered, Calls
<1>1. CASE GetFieldDescriptorCount
  BY <1>1, ShownAsk DEF GetFieldDescriptorCount, Ask, Dies
<1>2. CASE GetFieldDescriptorAt
  BY <1>2, ShownAsk DEF GetFieldDescriptorAt, Ask, Dies
<1>3. CASE GetCredentialAt
  BY <1>3, ShownAsk DEF GetCredentialAt, Ask, Dies
<1>4. CASE EnumerateAgain
  BY <1>4, HostForgets DEF EnumerateAgain, clientVars
<1> QED
  BY <1>1, <1>2, <1>3, <1>4 DEF Enumerate

\* A notice the host misses is one of a time when it had asked nothing.
LEMMA ShownThreads ==
  ASSUME IInv,
         \/ \E t \in Reporters : OnConnectStatusChanged(t)
         \/ ThreadProc \/ ProcessNextMessage \/ OnAccounts
         \/ \E message \in {"toggle", "exit"} : WndProc(message)
  PROVE  [Shown!Next]_(Shown!vars)
<1>0. /\ sink = advised /\ at \in [Reporters -> Places] /\ held \in [Reporters -> Nat]
      /\ advised = 0 => ui \notin Answering
      /\ ui = "dead" => at["network"] \notin {"test", "call"}
      /\ "network" \in Reporters /\ "window" \in Reporters /\ logged \in BOOLEAN
  BY DEF IInv, TypeOK, SinkInv, ThreadsInv, Quiet, Answering, Asked, Reporters, Places
<1> USE DEF hostVars, clientVars, sinkVars, threadVars, windowVars
<1>1. ASSUME NEW t \in Reporters, Test(t) PROVE [Shown!Next]_(Shown!vars)
  <2>1. client' = client /\ logged' = logged /\ ui' = ui /\ view' = view
        /\ told' = told /\ sink' = sink
    BY <1>1 DEF Test
  <2>2. CASE sink = 0
    BY <1>0, <2>1, <2>2, HostForgets DEF IInv, SinkInv, Asked, Answering
  <2>3. CASE sink # 0
    <3>1. NoticeDue' = NoticeDue
      BY <1>0, <1>1, <2>1, <2>3 DEF Test, NoticeDue
    <3> QED
      BY <2>1, <3>1, HostKeeps
  <2> QED
    BY <2>2, <2>3
<1>2. ASSUME NEW t \in Reporters, Call(t) PROVE [Shown!Next]_(Shown!vars)
  <2>1. client' = client /\ logged' = logged /\ view' = view /\ sink' = sink
    BY <1>2 DEF Call
  <2>2. CASE ui' = "dead"
    BY <2>1, <2>2, HostForgets DEF Answering
  <2>3. CASE told' /\ ui' = ui
    BY <2>1, <2>3, HostIsTold
  <2>4. CASE ~told' /\ ui' = ui /\ ui' # "dead"
    <3>1. told' = told /\ held[t] # 0 /\ held[t] # advised
          /\ at' = [at EXCEPT ![t] = Rest(t)]
      BY <1>0, <1>2, <2>4 DEF Call, Dies
    <3>2. NoticeDue' = NoticeDue
      BY <1>0, <1>2, <2>1, <3>1 DEF Call, NoticeDue, Rest, Reporters
    <3> QED
      BY <2>1, <2>4, <3>1, <3>2, HostKeeps
  <2> QED
    BY <1>2, <2>2, <2>3, <2>4 DEF Call, Dies
<1>3. CASE OnAccounts
  <2>1. /\ client' = client /\ ui' = ui /\ view' = view /\ logged' /\ NoticeDue'
        /\ at["network"] = "loop"
    BY <1>0, <1>3 DEF OnAccounts, NoticeDue
  <2>2. CASE logged
    BY <2>1, <2>2, HostIsTold
  <2>3. CASE ~logged
    <3>1. Answers' = Answers
      BY <2>1 DEF Answers, Answered
    <3>2. client = "set"
      BY <2>1 DEF IInv, ThreadsInv, Quiet
    <3>3. TileFor(logged) = "message" /\ TileFor(logged)' = "sample"
      BY <2>1, <2>3 DEF TileFor
    <3>4. Shown!Login
      BY <2>1, <3>1, <3>2, <3>3 DEF Shown!Login
    <3> QED
      BY <3>4 DEF Shown!Next
  <2> QED
    BY <2>2, <2>3
<1>4. CASE ThreadProc
  BY <1>0, <1>4, HostKeeps DEF ThreadProc, NoticeDue
<1>5. CASE ProcessNextMessage
  BY <1>0, <1>5, HostKeeps DEF ProcessNextMessage, NoticeDue
<1>6. ASSUME NEW message \in {"toggle", "exit"}, WndProc(message)
      PROVE  [Shown!Next]_(Shown!vars)
  BY <1>6, HostKeeps DEF WndProc, NoticeDue
<1> QED
  BY <1>1, <1>2, <1>3, <1>4, <1>5, <1>6 DEF OnConnectStatusChanged

\* The host is told, or about to be, whenever an answer it was given may be out
\* of date, until it has forgotten it; what it is told nothing of is true. The
\* tile changes once, by a login.
THEOREM ImplementsDisplay == Spec => DisplaySpec
<1>1. Init => Shown!Init
  BY NoAnswers DEF Init, Fresh, Shown!Init, Answering, NoticeDue, TileFor, Reporters
<1>2. IInv /\ [Next]_vars => [Shown!Next]_(Shown!vars)
  <2>1. ASSUME UNCHANGED vars PROVE UNCHANGED Shown!vars
    BY <2>1, HostKeeps DEF vars, hostVars, clientVars, sinkVars, threadVars, NoticeDue
  <2> QED
    BY <2>1, ShownHost, ShownEnumerate, ShownThreads DEF Next
<1> QED
  BY Invariant, <1>1, <1>2, PTL DEF Spec, DisplaySpec, Shown!Spec
=============================================================================
