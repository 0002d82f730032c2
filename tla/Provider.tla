------------------------------ MODULE Provider -------------------------------
(***************************************************************************)
(* The credential provider inside the process that hosts it (LogonUI, or a *)
(* program that shows a credential prompt): CSampleProvider with its       *)
(* command window and its ThreadedClient, and the reference count of the   *)
(* DLL.                                                                    *)
(*                                                                         *)
(* Three threads meet here. The host's thread makes the COM calls; the     *)
(* window thread pumps the command window's messages; the network thread   *)
(* runs the client. The last two report to the host through                *)
(* OnConnectStatusChanged, without a lock. The host enumerates the tile in *)
(* three calls, so that a login may fall between them.                     *)
(***************************************************************************)
EXTENDS Naturals, Sequences

CONSTANTS
    MaxHosts,       \* bound: host processes, one after the other
    MaxAdvises,     \* bound: event sinks of one host
    MaxReports,     \* bound: accounts the network thread receives in one host
    MaxClicks       \* bound: messages the user posts to the window

ASSUME ProviderBounds ==
    MaxHosts \in Nat /\ MaxAdvises \in Nat /\ MaxReports \in Nat /\ MaxClicks \in Nat

Reporters == {"window", "network"}
Tiles     == {"message", "sample"}

\* The host holds the provider and is in no call of it, nor advised.
Idle == {"created", "refused", "failed", "ready"}

VARIABLES
    ui,         \* what the host's thread is at
    refs,       \* CSampleProvider::_cRef
    dllRefs,    \* g_cRef
    loaded,     \* the DLL is in the process
    built,      \* _pCredential, _pMessageCredential and _pCommandWindow are set
    client,     \* _client: unset or set
    wild,       \* _client was used while unset
    sink,       \* _pcpe, 0 when NULL
    advised,    \* the sink the host has given and not taken back, or 0
    advises,    \* sinks so far
    told,       \* the host was told to enumerate again
    stray,      \* a sink the host has taken back was called
    view,       \* the tiles the host's last calls were about: count, fields, tile
    at,         \* where each reporting thread is
    held,       \* the sink each has found in _pcpe
    hwnd,       \* the command window exists
    mail,       \* messages posted to it
    clicks,     \* messages the user has posted
    connected,  \* CCommandWindow::_fConnected
    logged,     \* Client::logged
    reports,    \* accounts received
    stored,     \* the id in the registry, 0 when there is none
    id,         \* Client::id
    unread,     \* loading the id failed in this host although one was stored
    hosts       \* host processes so far

hostVars    == <<ui, refs, dllRefs, loaded, built>>
sinkVars    == <<sink, advised, advises>>
threadVars  == <<at, held>>
windowVars  == <<hwnd, mail, clicks, connected>>
clientVars  == <<client, logged, reports, id, unread>>
vars == <<hostVars, clientVars, wild, sinkVars, told, stray, view, threadVars,
          windowVars, stored, hosts>>

Calls  == {"count", "fields", "tile"}
NoView == [what \in Calls |-> "none"]

\* A process that has not loaded the DLL's provider yet.
Fresh ==
    /\ ui = "none" /\ refs = 0 /\ dllRefs = 0 /\ loaded = TRUE
    /\ built = FALSE /\ client = "unset" /\ wild = FALSE
    /\ sink = 0 /\ advised = 0 /\ advises = 0 /\ told = FALSE /\ stray = FALSE
    /\ view = NoView
    /\ at = [t \in Reporters |-> "none"] /\ held = [t \in Reporters |-> 0]
    /\ hwnd = FALSE /\ mail = <<>> /\ clicks = 0 /\ connected = FALSE
    /\ logged = FALSE /\ reports = 0 /\ id = 0 /\ unread = FALSE

Init == Fresh /\ stored = 0 /\ hosts = 1

\* The process ends: by abort(), by an exception nobody catches, by an access
\* violation.
Dies == ui' = "dead" /\ at' = [t \in Reporters |-> "none"]

\* The next process that hosts the provider; the registry stays.
NewHost ==
    /\ ui \in {"dead", "gone"} /\ hosts < MaxHosts
    /\ hosts' = hosts + 1
    /\ ui' = "none" /\ refs' = 0 /\ dllRefs' = 0 /\ loaded' = TRUE
    /\ built' = FALSE /\ client' = "unset" /\ wild' = FALSE
    /\ sink' = 0 /\ advised' = 0 /\ advises' = 0 /\ told' = FALSE /\ stray' = FALSE
    /\ view' = NoView
    /\ at' = [t \in Reporters |-> "none"] /\ held' = [t \in Reporters |-> 0]
    /\ hwnd' = FALSE /\ mail' = <<>> /\ clicks' = 0 /\ connected' = FALSE
    /\ logged' = FALSE /\ reports' = 0 /\ id' = 0 /\ unread' = FALSE
    /\ UNCHANGED stored

-----------------------------------------------------------------------------
(* Creating and releasing the provider.                                    *)

\* CSample_CreateInstance: the constructor's reference goes with the Release,
\* QueryInterface's stays with the host.
CreateInstance ==
    /\ ui = "none" /\ loaded
    /\ ui' = "created"
    /\ refs' = 1 /\ dllRefs' = dllRefs + 1
    /\ UNCHANGED <<loaded, built, clientVars, wild, sinkVars, told, stray, view,
                   threadVars, windowVars, stored, hosts>>

\* Mistaken variant: the tile is released whether it was created or not.
DestroyReleasesAnyTile ==
    /\ dllRefs' = dllRefs - 2
    /\ built' = FALSE
    /\ mail' = IF built /\ hwnd THEN Append(mail, "exit") ELSE mail
    /\ wild' = (wild \/ client = "unset")
    /\ at' = [at EXCEPT !["network"] = IF client = "set" THEN "ended" ELSE @]
    /\ client' = "unset"

\* ~CSampleProvider and ~CCommandWindow: the tile goes, the message tile is
\* not released, the window thread is sent an exit message, the client is
\* stopped and deleted whether it was ever set or not.
Destroy ==
    /\ dllRefs' = dllRefs - (IF built THEN 2 ELSE 1)
    /\ built' = FALSE
    /\ mail' = IF built /\ hwnd THEN Append(mail, "exit") ELSE mail
    /\ wild' = (wild \/ client = "unset")
    /\ at' = [at EXCEPT !["network"] = IF client = "set" THEN "ended" ELSE @]
    /\ client' = "unset"

\* Release by the host. A wild stop() of the client may end the process.
Release ==
    /\ ui \in Idle
    /\ refs' = refs - 1
    /\ \/ refs = 1 /\ client = "unset" /\ ui' = "dead"
          /\ at' = [t \in Reporters |-> "none"]
          /\ wild' = TRUE
          /\ UNCHANGED <<dllRefs, built, mail, client>>
       \/ refs = 1 /\ Destroy /\ ui' = "gone"
       \/ refs # 1 /\ ui' = "gone"
          /\ UNCHANGED <<dllRefs, built, mail, wild, at, client>>
    /\ UNCHANGED <<loaded, logged, reports, id, unread, sinkVars, told, stray, view, held,
                   hwnd, clicks, connected, stored, hosts>>

\* COM drops the DLL once DllCanUnloadNow says so.
CanUnloadNow ==
    /\ ui = "gone" /\ loaded /\ dllRefs = 0
    /\ loaded' = FALSE
    /\ UNCHANGED <<ui, refs, dllRefs, built, clientVars, wild, sinkVars, told, stray,
                   view, threadVars, windowVars, stored, hosts>>

-----------------------------------------------------------------------------
(* SetUsageScenario.                                                       *)

\* CPUS_CREDUI and CPUS_CHANGE_PASSWORD.
Refuse ==
    /\ ui = "created" /\ ui' = "refused"
    /\ UNCHANGED <<refs, dllRefs, loaded, built, clientVars, wild, sinkVars, told,
                   stray, view, threadVars, windowVars, stored, hosts>>

\* "everything's already all set up"
AlreadySetUp ==
    /\ ui \in Idle /\ built
    /\ ui' = "ready"
    /\ UNCHANGED <<refs, dllRefs, loaded, built, clientVars, wild, sinkVars, told,
                   stray, view, threadVars, windowVars, stored, hosts>>

\* Mistaken variant: the window borrows the provider.
BuildBorrows ==
    /\ ui \in Idle \ {"ready"} /\ ~built
    /\ ui' = "building"
    /\ built' = TRUE
    /\ dllRefs' = dllRefs + 2
    /\ at' = [at EXCEPT !["window"] = "start"]
    /\ UNCHANGED <<refs, loaded, clientVars, wild, sinkVars, told, stray, view,
                   held, windowVars, stored, hosts>>

\* The tiles and the window are created, the window takes a reference to the
\* provider and starts its thread. The tiles' Initialize report success in any
\* case.
Build ==
    /\ ui \in Idle \ {"ready"} /\ ~built
    /\ ui' = "building"
    /\ built' = TRUE
    /\ refs' = refs + 1
    /\ dllRefs' = dllRefs + 2
    /\ at' = [at EXCEPT !["window"] = "start"]
    /\ UNCHANGED <<loaded, clientVars, wild, sinkVars, told, stray, view, held,
                   windowVars, stored, hosts>>

\* The window's thread cannot be created: all is cleaned up.
BuildFails ==
    /\ ui \in Idle \ {"ready"} /\ ~built
    /\ ui' = "failed"
    /\ UNCHANGED <<refs, dllRefs, loaded, built, clientVars, wild, sinkVars, told,
                   stray, view, threadVars, windowVars, stored, hosts>>

\* SettingsHelper::init: a GUID no one has had, counted here in the order they
\* are made, takes the place of whatever is stored.
InitId == stored' = stored + 1 /\ id' = stored + 1

\* Mistaken variant: a new id every time.
LoadIdAnew == InitId /\ UNCHANGED unread

\* Client::Client loads the id. Any failure to read the value is answered with
\* a new one, that of a value which is there and cannot be read too.
LoadId ==
    \/ stored # 0 /\ id' = stored /\ UNCHANGED <<stored, unread>>
    \/ InitId /\ unread' = (stored # 0)

\* new ThreadedClient and its start(). The network thread runs its loop.
CreateClient ==
    /\ ui = "building" /\ ui' = "ready"
    /\ client' = "set"
    /\ LoadId
    /\ at' = [at EXCEPT !["network"] = "loop"]
    /\ UNCHANGED <<refs, dllRefs, loaded, built, logged, reports, wild, sinkVars, told,
                   stray, view, held, windowVars, hosts>>

\* The registry key cannot be opened: an exception leaves SetUsageScenario,
\* which ends the host or is taken for a failure by it.
ClientThrows ==
    /\ ui = "building"
    /\ \/ Dies
       \/ ui' = "failed" /\ UNCHANGED at
    /\ UNCHANGED <<refs, dllRefs, loaded, built, clientVars, wild, sinkVars, told, stray,
                   view, held, windowVars, stored, hosts>>

\* The id, stored or not, cannot be loaded, and a new one cannot be stored.
ClientAborts ==
    /\ ui = "building"
    /\ Dies
    /\ UNCHANGED <<refs, dllRefs, loaded, built, clientVars, wild, sinkVars, told, stray,
                   view, held, windowVars, stored, hosts>>

-----------------------------------------------------------------------------
(* Advise, UnAdvise and the enumeration of the tile.                       *)

Advise ==
    /\ ui = "ready" /\ advises < MaxAdvises
    /\ ui' = "count"
    /\ advises' = advises + 1 /\ advised' = advises + 1 /\ sink' = advises + 1
    /\ told' = FALSE /\ view' = NoView
    /\ UNCHANGED <<refs, dllRefs, loaded, built, clientVars, wild, stray, threadVars,
                   windowVars, stored, hosts>>

UnAdvise ==
    /\ ui = "shown" /\ ui' = "ready"
    /\ sink' = 0 /\ advised' = 0
    /\ told' = FALSE /\ view' = NoView
    /\ UNCHANGED <<refs, dllRefs, loaded, built, clientVars, wild, advises, stray,
                   threadVars, windowVars, stored, hosts>>

\* The tile _client->is_logged_in() stands for; anything, or the end of the
\* process, when _client was never set.
TileFor(loggedIn) == IF loggedIn THEN "sample" ELSE "message"

Reads(tile) == client = "set" => tile = TileFor(logged)

\* GetFieldDescriptorCount answers with the number of fields of a tile.
NumFields(tile) == IF tile = "sample" THEN 4 ELSE 1

\* One of the calls that ask is_logged_in, then the host goes on to next.
Ask(what, next) ==
    /\ \/ /\ ui' = next /\ UNCHANGED at
          /\ \E tile \in Tiles :
                Reads(tile) /\ view' = [view EXCEPT ![what] = tile]
       \/ client = "unset" /\ Dies /\ UNCHANGED view
    /\ wild' = (wild \/ client = "unset")
    /\ UNCHANGED <<refs, dllRefs, loaded, built, clientVars, sinkVars, told, stray,
                   held, windowVars, stored, hosts>>

GetFieldDescriptorCount == ui = "count" /\ Ask("count", "fields")
GetFieldDescriptorAt    == ui = "fields" /\ Ask("fields", "tile")
GetCredentialAt         == ui = "tile" /\ Ask("tile", "shown")

\* The host enumerates again when it was told to.
EnumerateAgain ==
    /\ ui = "shown" /\ told
    /\ ui' = "count" /\ told' = FALSE
    /\ UNCHANGED <<refs, dllRefs, loaded, built, clientVars, wild, sinkVars, stray, view,
                   threadVars, windowVars, stored, hosts>>

Enumerate ==
    GetFieldDescriptorCount \/ GetFieldDescriptorAt \/ GetCredentialAt \/ EnumerateAgain

-----------------------------------------------------------------------------
(* OnConnectStatusChanged, on the window's or the network's thread.        *)

Rest(t) == IF t = "window" THEN "pump" ELSE "loop"

Test(t) ==
    /\ at[t] = "test"
    /\ at' = [at EXCEPT ![t] = IF sink # 0 THEN "call" ELSE Rest(t)]
    /\ held' = [held EXCEPT ![t] = sink]
    /\ UNCHANGED <<hostVars, clientVars, wild, sinkVars, told, stray, view, windowVars,
                   stored, hosts>>

\* CredentialsChanged is called on what _pcpe was or is by now. A call to a
\* sink that was taken back does anything; one to NULL ends the process.
Call(t) ==
    /\ at[t] = "call"
    /\ \E s \in {held[t], sink} :
         \/ /\ s # 0 /\ s = advised
            /\ told' = TRUE /\ UNCHANGED <<ui, stray>>
            /\ at' = [at EXCEPT ![t] = Rest(t)]
         \/ /\ s # 0 /\ s # advised
            /\ stray' = TRUE /\ UNCHANGED <<ui, told>>
            /\ at' = [at EXCEPT ![t] = Rest(t)]
         \/ /\ s # advised \/ s = 0
            /\ stray' = TRUE /\ Dies /\ UNCHANGED told
    /\ held' = [held EXCEPT ![t] = 0]
    /\ UNCHANGED <<refs, dllRefs, loaded, built, clientVars, wild, sinkVars, view,
                   windowVars, stored, hosts>>

OnConnectStatusChanged(t) == Test(t) \/ Call(t)

-----------------------------------------------------------------------------
(* The command window's thread.                                            *)

ThreadProc ==
    /\ at["window"] = "start"
    /\ \/ hwnd' = TRUE /\ at' = [at EXCEPT !["window"] = "pump"]
       \/ hwnd' = FALSE /\ at' = [at EXCEPT !["window"] = "ended"]
    /\ UNCHANGED <<hostVars, clientVars, wild, sinkVars, told, stray, view, held, mail,
                   clicks, connected, stored, hosts>>

\* The button, or closing the window: _WndProc posts the message.
WndProc(message) ==
    /\ hwnd /\ at["window"] \notin {"none", "ended"}
    /\ clicks < MaxClicks /\ clicks' = clicks + 1
    /\ mail' = Append(mail, message)
    /\ UNCHANGED <<hostVars, clientVars, wild, sinkVars, told, stray, view, threadVars,
                   hwnd, connected, stored, hosts>>

ProcessNextMessage ==
    /\ at["window"] = "pump" /\ mail # <<>>
    /\ mail' = Tail(mail)
    /\ \/ /\ Head(mail) = "toggle"
          /\ connected' = ~connected
          /\ at' = [at EXCEPT !["window"] = "test"]
       \/ /\ Head(mail) = "exit"
          /\ at' = [at EXCEPT !["window"] = "ended"]
          /\ UNCHANGED connected
    /\ UNCHANGED <<hostVars, clientVars, wild, sinkVars, told, stray, view, held, hwnd,
                   clicks, stored, hosts>>

-----------------------------------------------------------------------------
(* The network thread.                                                     *)

\* Mistaken variants: the provider is not told of the login,
OnAccountsTellsNobody ==
    /\ at["network"] = "loop" /\ reports < MaxReports
    /\ reports' = reports + 1
    /\ logged' = TRUE
    /\ UNCHANGED <<hostVars, client, id, unread, wild, sinkVars, told, stray, view, threadVars,
                   windowVars, stored, hosts>>

\* an account that comes a second time toggles the login.
OnAccountsToggles ==
    /\ at["network"] = "loop" /\ reports < MaxReports
    /\ reports' = reports + 1
    /\ logged' = ~logged
    /\ at' = [at EXCEPT !["network"] = "test"]
    /\ UNCHANGED <<hostVars, client, id, unread, wild, sinkVars, told, stray, view, held,
                   windowVars, stored, hosts>>

\* Client::on_accounts with an account: logged first, then the provider.
OnAccounts ==
    /\ at["network"] = "loop" /\ reports < MaxReports
    /\ reports' = reports + 1
    /\ logged' = TRUE
    /\ at' = [at EXCEPT !["network"] = "test"]
    /\ UNCHANGED <<hostVars, client, id, unread, wild, sinkVars, told, stray, view, held,
                   windowVars, stored, hosts>>

-----------------------------------------------------------------------------
Host ==
    \/ CreateInstance \/ Release \/ CanUnloadNow \/ NewHost
    \/ Refuse \/ AlreadySetUp \/ Build \/ BuildFails
    \/ CreateClient \/ ClientThrows \/ ClientAborts
    \/ Advise \/ UnAdvise

Next ==
    \/ Host \/ Enumerate
    \/ \E t \in Reporters : OnConnectStatusChanged(t)
    \/ ThreadProc \/ ProcessNextMessage \/ OnAccounts
    \/ \E message \in {"toggle", "exit"} : WndProc(message)

Spec == Init /\ [][Next]_vars

\* The host finishes an enumeration and begins one it was told to begin; the
\* network thread makes the call it has begun.
FairSpec ==
    /\ Spec
    /\ WF_vars(Enumerate)
    /\ WF_vars(OnConnectStatusChanged("network"))

-----------------------------------------------------------------------------
TypeOK ==
    /\ ui \in Idle \cup {"none", "building", "count", "fields", "tile", "shown",
                        "gone", "dead"}
    /\ refs \in Nat /\ dllRefs \in Nat
    /\ loaded \in BOOLEAN /\ built \in BOOLEAN /\ client \in {"unset", "set"}
    /\ wild \in BOOLEAN /\ told \in BOOLEAN /\ stray \in BOOLEAN
    /\ sink \in Nat /\ advised \in Nat /\ advises \in Nat
    /\ view \in [Calls -> Tiles \cup {"none"}]
    /\ at \in [Reporters -> {"none", "start", "pump", "loop", "test", "call", "ended"}]
    /\ held \in [Reporters -> Nat]
    /\ hwnd \in BOOLEAN /\ mail \in Seq({"toggle", "exit"}) /\ clicks \in Nat
    /\ connected \in BOOLEAN /\ logged \in BOOLEAN /\ reports \in Nat
    /\ stored \in Nat /\ id \in Nat /\ unread \in BOOLEAN /\ hosts \in Nat

\* The threads that run the DLL's code.
Running == {t \in Reporters : at[t] \notin {"none", "ended"}}

\* The window and network threads never call a provider that is gone, and the
\* DLL is not unloaded under them, although nobody waits for the window's
\* thread: the window's reference keeps the provider for good.
OutlivesCallbacks == Running # {} => refs > 0 /\ dllRefs > 0 /\ loaded

\* A field the host asks about, having been told the number of fields, exists
\* in the tile the provider is at by then, whatever logs in between the calls.
AskedFieldsExist ==
    (ui = "fields" /\ client = "set")
        => NumFields(view["count"]) <= NumFields(TileFor(logged))

\* With no enumeration under way and no notice of a login on its way, the
\* number of fields, the fields and the tile the host has are all those of the
\* current tile: a login that falls between the host's calls is repaired.
SettledViewIsCurrent ==
    (ui = "shown" /\ ~told /\ client = "set"
        /\ at["network"] \notin {"test", "call"})
        => view = [what \in Calls |-> TileFor(logged)]

\* From one host process to the next the machine keeps its id: a stored id is
\* never lost, and is replaced only by a client that could not load it, at most
\* once in a process and before that process has a client; a client goes by the
\* id that is stored from then on.
IdentityKept ==
    [][/\ (stored # 0 /\ stored' # stored)
            => stored' # 0 /\ client = "unset" /\ ~unread /\ unread'
       /\ id' # 0 => id' = stored']_vars

\* The calls of the enumeration under way that were answered.
Answered ==
    CASE ui = "fields" -> {"count"}
      [] ui = "tile"   -> {"count", "fields"}
      [] ui = "shown"  -> Calls
      [] OTHER         -> {}

Answers == {view[what] : what \in Answered}

\* A notice of the network thread that will reach the host's present sink.
NoticeDue ==
    \/ at["network"] = "test"
    \/ at["network"] = "call" /\ held["network"] = sink

\* From a login on the host is told, or about to be, as long as an answer it
\* was given may be out of date, whichever calls the login falls between.
Shown == INSTANCE Display WITH
            working <- client = "set", tile <- TileFor(logged),
            answers <- Answers, due <- told \/ NoticeDue
DisplaySpec == Shown!Spec

\* A login is shown in the end, unless the host takes its sink back or ends.
LoginIsShown ==
    (logged /\ advised # 0)
        ~> (advised = 0 \/ ui = "dead" \/ (ui = "shown" /\ view["tile"] = "sample"))

\* CSampleProvider.cpp:60: "Returning E_NOTIMPL simply tells the caller that
\* we're not designed for that scenario": what the host can do with a provider
\* that refused touches no client, as none was created.
RefusalIsHarmless == [][ui = "refused" => wild' = wild]_vars

\* CSampleProvider.cpp:208: UnAdvise is "called by LogonUI when the
\* ICredentialProviderEvents callback is no longer valid": it is not called
\* from then on.
UnAdviseIsHeeded == ~stray
=============================================================================
