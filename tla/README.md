# Wireless authentication: a TLA+ model

The system logs a Windows workstation in through a small network service. Every
workstation runs a *credential provider* inside LogonUI; it connects to the
*credential server*, identifies itself with a key kept in the registry and asks
for the account that belongs to it. Both ends use libuv event loops, the same
hand-written stream framing, and protobuf packets.

## 1. Inventory

| Part | State it keeps | Operations | Modelled in |
|---|---|---|---|
| `TcpClient` (both ends) | `data`, `data_readed`, `data_needed`, `data_allocated`, socket, reconnect timer | `on_segment`, `connect`, `on_connect`, `on_reconnect`, `send_data` | `Framing`, `Login` |
| `Protocol` (both ends), `packets.proto`, `packets.pb.cc` | none | `send_packet`, `handle_packet` (dispatch by trial parsing), the parsers and serializers of the five classes | `PacketCodec`; `Framing` (prefix), `Login` (which handler runs) |
| server `Client` | `logged`, `account` | `on_hello`, `on_auth`, `on_accounts` | `Login` |
| `Accounts` | `accounts`, `unregistered` | `get_by_key`, `add_unregistered`, `register_key_for_account` | `Login` |
| `Clients` | `receive_queue`, `available_clients`, `connected` | `connect`, `on_notify`, `disconnect` | `ServerThreads`, `Login`, `Framing` |
| `Thread`, `Server`, `TcpServer`, `main` | `is_started`, async handle, semaphore, the loop's stop flag | `start`, `stop`, `notify`, `thread_worker`, accepting | `ServerThreads` |
| `UdpServer` | none but its thread | logs datagrams | thread only, in `ServerThreads` |
| provider `Client` | `logged`, `id`, `reauth_timer` | `handle_connection`, `on_hello`, `on_auth`, `on_accounts`, `on_auth_timer` | `Login` |
| `Timers`, `Timer` | `started`, a loop on its own thread, its housekeeping timer | construction, `start`, `stop`, tick, destruction | `ReauthTimer`; `Login` (tick and send as two steps) |
| `ThreadedClient`, provider's `Thread` | the provider's thread | `start`, `on_run`, `stop` | `Provider` (creation, end), `Login` (its connect) |
| `CSampleProvider` | reference count, tiles, `_pcpe` | COM calls of LogonUI, `OnConnectStatusChanged` | `Provider` |
| `CCommandWindow` | `_fConnected`, window, provider reference | window thread, `_WndProc`, `_ProcessNextMessage`, destruction | `Provider` |
| `CSampleCredential`, `CMessageCredential` | field strings, event sink | `Initialize`, `SetStringValue`, selection, `GetSerialization`, `ReportResult` | `Tiles` |
| `helpers.cpp` | none | initialising, packing and unpacking the logon structure, protecting the password, the package's number | `KerbPack`, `Tiles` |
| `SettingsHelper` | registry key | opening the key, `load`, `init` | `Provider` (`LoadId`, `InitId`, `ClientThrows`, `ClientAborts`) |
| `Dll`, `guid` | `g_cRef` | class factory, `DllCanUnloadNow` | `Provider` (the count of the objects) |
| easylogging, project files, `Test` | | | no: third-party or trivial |

**How they interact.** On the server, `main` starts and stops three event loop
threads. The tcp thread accepts a connection, pushes its stream on
`receive_queue` and calls `uv_async_send` on the clients thread; that thread
drains the queue, takes a `Client` object out of `available_clients` (or
creates one) and reads from the stream. Bytes go through `on_segment`, frames
through `handle_packet`, packets to the handlers. At the end of a stream the
object goes back to the pool, with everything it holds. On the workstation,
LogonUI's thread creates a `ThreadedClient`, whose thread connects and talks to
the server; the reauthorisation timer runs on a third thread and writes to the
same connection; a login is reported to LogonUI through the provider.

**What is hard.** Reads end anywhere in a frame, several frames come in one read
and only one of them is handled; objects are reused without a reset; wake-ups
coalesce; a thread is stopped while others hand work to it; a timer ticks while
its answer arrives; the provider's process may die while the server still reads
its connection. `PROJECT.json` lists each hazard at the line where it bites,
with the properties aimed at it or the reason why none is.

**What makes each part correct.** Framing: the frames come out whole, once, in
order, and none is left behind for good. Login: nobody logs in without a key the
server knows, a refusal is temporary, nobody gets stuck, an object serves one
connection. Threads: no accepted connection is forgotten, connections are handed
only to a thread that lives, a signal ends the process. Packets: what is sent reaches
its own handler, and nothing else reaches any. Provider: the tile shown agrees
with the login state, and the provider outlives its callbacks. Timers: a started
timer ticks and a stopped one does not. Tiles: the password typed is the one
submitted, is forgotten when the tile is left, and no failure leaks.

## 2. Plan

1. `FrameChannel`, `Framing`, `FramingProofs` - done.
2. `Login`, `LoginProofs`, `LoginKeyProofs` - done.
3. `ServerThreads`, `ServerThreadsProofs` - done.
4. `ReauthTimer`, `ReauthTimerProofs` - done: timers started from another
   thread, and the housekeeping timer that makes the loop see them (what `Login`
   assumes with `WF(TimerTick)`).
5. `Provider`, `ProviderProofs` - done: LogonUI, network and window threads
   around the tiles, the event sink and the reference counts; two sentences of
   the comments of `CSampleProvider.cpp` are checked against the code.
6. `KerbPack`, `Tiles`, `TilesProofs` - done: the life of the password and the
   layout of the logon structure.
7. `PacketCodec`, `PacketCodecProofs` - done: parsing, dispatch, default ids.
8. `Conversation`, `TimerService`, `Handover`, `Display` - done: the abstract
   specifications of a login, of a timer, of the way of an accepted connection and
   of what the host is shown, each shown to be implemented.
9. Left: abstract specifications of the password's life (`Tiles`) and of the
   dispatch (`PacketCodec`); two processes that create the machine's id at the
   same time.

`Framing` is the interface for `Login`: it shows that a trusted object is a FIFO
channel of frames of which a read callback takes at most one, and `Login` uses
just that. `PacketCodec` shows that such a frame reaches the handler of the
packet that was sent, which lets `Login` name packets and not bytes.
`ServerThreads` gives `Login` its `TakeObject`: a connection is given to one
object, in the order of the queue. `ReauthTimer` gives it the timer: it
implements `TimerService`, and all that `Login` does with a timer are steps of
`TimerService`. `Login`'s `logged` of a machine is what `Provider` shows the user, and
`Tiles` is the tile shown from then on.

## 3. Modules

### `FrameChannel` - what framing promises
A FIFO of frames per connection: what was sent is received, once and in order,
as long as the receiver is `trusted`. A receiver that is not (it started the
connection with left-over bytes, or lost some) may do anything until it is
reopened.

### `Framing` - one receiving `TcpClient`
`base`, `readed`, `needed`, `allocated` are the buffer's counters; a byte is its
position in the peer's stream and a frame is where its payload starts and how
long it is, so bytes of the wrong place are a different frame. `OnSegment(n)` is
the whole callback: count, grow (or fail to: `DropSegment`), copy, take the
length, take at most one frame. `HeaderValues` gives the length that four bytes
decode to: the one written there, or any `Garbage` if the bytes are no header or
were lost. Writing past the buffer makes `intact` false for ever. `EndOfStream`
and `Reattach` are the pool: what is in the buffer lies before the new stream.

The source differs between the two ends only in what follows an error of the
read: the provider's object is never reattached. A length with the top bit set
is not among `Garbage`: `malloc` of it fails or the copy kills the process. An
allocation of the packet itself is taken to succeed.

### `Login` - the conversation
Machines and server objects. `ConnectOk` is the accepted connection with
`Clients::on_notify`'s choice of an object and the provider's `Hello`: nothing
the object does can be seen between the two, so that they are one step.
`ServerSegment(o, n)` and `ClientSegment(m, n)` are a read callback that brings
`n` whole packets and handles one; a callback without bytes may happen but is
not relied on. `TimerTick` and `TimerSend` are the two halves of the timer's
callback on its own thread, so that an answer may come in between. `Crash` is the
end of the provider's process; `LinkDrops` is a lost connection, after which the
provider does nothing any more (it has no handler for it). `EndOfStream` is
enabled when the other end is gone and may be arbitrarily late.

`ConnectFails` is an error that reaches `on_connect`, which arms the reconnect
timer. `ConnectNotStarted` is one that `uv_tcp_connect` returns at once:
`TcpClient::connect` ignores the value, `on_connect` is never called, and the
machine never connects again.

An object that goes back to the pool keeps what `TcpClient` never resets: the
whole frames that lag in its buffer (`serverBuf`) and, when the connection ended
within a frame, a part of one with its counter and the length it waits for
(`partial`). The whole frames are answered on the next connection. Behind a part
of a frame the object is out of step: the next `Hello` is taken for the rest of
that frame, and what follows for lengths and frames nobody wrote, unless they
happen to end where a real frame begins.
`ServerMisreads` is a callback on such an object. It hands over nothing, or a
frame that is no request, or any request at all: more than misread bytes can
make, so that what is shown does not depend on what they make. It hands over at
most one such frame for each callback that brings bytes, which bounds what can
come of them. `Framing` has the same object byte by byte. `clean` records that
the object was given with an empty buffer, without whole frames and without a
part of one, and guards two properties and a part of `Conversation`; `InStep`
excepts only the objects with a part of a frame, and guards `NoStall` and
`AllowedHasAccount`.

Abstracted: the account, which the code sets to one value for every key;
`unregistered`, from which a key is erased in the same call that adds it.

`stray` is a timer that was stopped and goes on ticking, because the stop fell
into one of its ticks. `OnAllowed` may lose a stop in just that case, and the
`start` of `OnBlocked` makes it good, as in `ReauthTimer`.

### `Conversation` - what a login is to one machine
A machine is asking, refused, allowed, in or cut; its key is known or not. It is
refused only once its key is known, so that the next try is allowed; from allowed
it goes nowhere but in; from in, nowhere at all until it starts afresh. `Phase(m)`
is the refinement mapping: it reads the phase off the flags of the machine and
the packets on the wires and in the buffers of its connection. A machine that
inherited packets of another (`~trusted`) is promised nothing but that its key
stays known. Its `Next` never falls back to asking. `Restart` is no part of it:
`ConversationSpec` asks for every machine, in every step of the system, a step
of `Next` or none, and lets a machine start afresh (`Restart`) in just the step
that is its own `Crash`. So an ALLOWED that is handled without asking for the
account is a violation, as it takes a machine from refused back to asking.

### `TimerService` - what a timer promises
It ticks only when it is started or `stray`; a stop may leave it `stray` only
when a tick is under way; a start ends that. It is the interface between two
modules: `ReauthTimer` implements it (`ServiceSpec`), and each step of `Login` is,
for each machine, one of its steps, none, or the end of that machine's process
(`TimerSpec`). `Login` may take the tick and the sending as two steps and lose a
stop between them just because of this.

### `Handover` - what becomes of a connection
Offered, then refused or accepted into a pipe, from which it is served in order
by a receiver that lives once. Nothing enters the pipe unless the receiver is
live and not being stopped. In `ServerThreads` the receiver is the clients thread,
which is closing from the moment `main` flags it, and the pipe is
`receive_queue` with the connection the tcp thread is about to push
(`HandoverSpec`).

### `ServerThreads` - the life of the server process
`main` goes through `start` for clients, tcp, udp and `stop` for udp, tcp,
clients, one line of `Thread::start`/`stop` a step. Each worker goes through
`thread_worker`; its `uv_run` looks at the stop flag, blocks in `poll`, runs
callbacks and looks again. `AsyncSend` sets `pending`, so that many sends make
one callback. `Push` and `Notify` are two steps of the tcp thread, `Drain` one
`try_pop` of the clients thread. The stop flag and the semaphore are taken as
atomic; a server that is started again after a stop is not modelled, the code
never does it.

### `Display` - what the host is shown
The tile changes once, with the login; the host asks about it in several calls.
From the change on a notice is due, and it stays due until the host has forgotten
its answers: it asks again, takes its sink back, or ends. So an answer the host
holds is true, or the host will hear of it. `DisplaySpec` maps the answers to those
calls of the enumeration at hand that have returned, and the notice to `told` or to
the network thread's way to the sink the host has now: a notice on its way to
a sink that was taken back is lost, and does no harm. Nothing is promised of a
provider without a client, whose answers are read from uninitialised memory.

### `Provider` - the provider in its host process
Three threads. `ui` is where the host's thread is in its protocol with
`CSampleProvider`; each COM call is an action (`SetUsageScenario` is split, at
the creation of the client, into `Build` and `CreateClient` or one of its
failures, because the window's thread runs from the first). `Ask` is a call that
asks `is_logged_in`: three of them, on other states perhaps, make one
enumeration. `OnConnectStatusChanged` is two steps of the window's or the
network's thread, the test of `_pcpe` (`Test`) and the call through it (`Call`),
which reads `_pcpe` again or uses what it read before, as the compiler chooses.
`wild` records that the uninitialised `_client` was used, `stray` that a sink was
called that the host had taken back; both may end the process, and need not.
`refs` and `dllRefs` are `_cRef` and `g_cRef`. The command window's thread
handles one posted message a step. `NewHost` is the next process: everything is
lost but the registry (`stored`). `LoadId` reads the id from there; whatever
keeps it from doing so, no id or one that cannot be read (`unread`), is answered
with `InitId`, which stores a new id in its place. If that fails too the process
aborts (`ClientAborts`).

Two things that the model makes plain. The window holds a reference to the
provider and the provider owns the window, so a provider that was set up is never
destroyed, whatever the host releases; `~CSampleProvider` runs only for one
whose `_client` was never set. It is this leak that makes `OutlivesCallbacks`
hold. And `_fConnected`, which the button toggles, has no influence on the tile:
it makes the host enumerate again, and nothing else.

A host is assumed to keep COM's protocol as LogonUI does: it advises after
`SetUsageScenario`, enumerates while it is advised and does not release a
provider before `UnAdvise`.

### `ReauthTimer` - the two timers of `Timers`
`loop` is where the timers thread is in `uv_run`; `armed` and `due` are its heap,
`deadline` what it took into account when it went to sleep, so that a timer
armed later does not wake it. A tick is three steps, as in libuv's
`uv__run_timers`: off the heap, on it again, the callback. `owner` is the thread
that constructs and destroys, one call a step; `Start` and `Stop` are the
client's thread. No lock protects any of it. The heap's operations are taken as
atomic, and a data race within one of them is not modelled: what is shown is
what remains possible even then. `raced` records that the last `stop` or the
deletion fell into a tick. In that case the stop is lost: the timer stays armed
with `started` false, so that no later `stop` ends it, but a later `start` and `stop`
do. That state is what `TimerService` calls `stray`. A client is destroyed only by programs that own one without the window,
which of this repository is `Test/main.cpp` only.

### `KerbPack` and `Tiles` - the logon tile
`KerbPack` is pure arithmetic: a string is its length, `UnicodeLength` what
`UnicodeStringInitWithString` makes of it within 16 bits, `Pack` where
`KerbInteractiveUnlockLogonPack` puts the three strings. `Tiles` is
`CSampleCredential`, used by LogonUI's thread only: what matters there is not
interleaving but failure, and every allocation and system call may fail.
`GetSerialization` is one step for each call it makes; `heap` names what is
allocated: the two copies of the password, the protected one, the packed
structure, and what is `lost`. `copy.of` is the password the protected one was
made of. The box of LogonUI's screen is part of the model, since the tile and
LogonUI each keep a copy of the password and `SetDeselected`, `SetStringValue`
and `ReportResult` keep them alike or fail to.

`Initialize` stops at the first allocation that fails and reports success; the
tile then lacks descriptors, its user name or its password string. A missing
descriptor makes `SetStringValue` refuse; a missing user name makes the logon
fail. `CMessageCredential` has no state and refuses to serialise.

When the authentication package cannot be looked up, the packed structure is in
the caller's hands with a failure code, and no one frees it; `HeapBalanced`
allows just that (`lost`).

### `PacketCodec` - a frame and the classes it is tried as
A frame is a sequence of fields, each a tag, a value and whether the frame ends
within it. `SendPacket` writes the fields `send_packet` writes; `Garbage` is any
short sequence of fields, which a reused object may read. `ReadField` is one turn
of the loop in `MergePartialFromCodedStream` of the class at hand, `Handle` and
`NextClass` are the two ends of the `HANDLE_PACKET` macro, `Drop` the end of
`handle_packet`. All five classes have their parser; the model has one,
parameterised with the class's tags, required field and default.

A field that is missing leaves the default, so that a message without an id is
parsed as any class that has no required field, with the id of that class: a
`Hello` at either end. `set_id` in `send_packet` is what keeps an `AuthorizeTry`
from being one. The formats of numbers and strings, and what is done with unknown
fields, are libprotobuf's.

### `MC_Login`
The two assignments of keys to machines, and the symmetry of server objects, and
of the two machines when each has a key of its own.

## 4. Runs

| Run | Instance | Shows |
|---|---|---|
| `framing_buffer` | header 2, buffer 4, segments up to 4, payloads 1 and 3, 3 frames, window 2, 2 connections | lag, buffer, no idle callback; implements `FrameChannel` |
| `framing_lockstep` | buffer 2, segments up to 6, realloc may fail, window 1 | every frame of a peer that waits arrives, unless the connection ends or bytes are lost |
| `login` | 2 machines with own keys, 2 objects, 1 crash | exclusive objects, no stall and account after ALLOWED on an object in step, login needs the key, quiet after the login; implements `Conversation`; timers used as in `TimerService` (1.6 million states) |
| `login_live` | 2 machines that share a key, 2 objects | everybody logs in whose connect is tried, whose link lasts and whose object is in step |
| `server_threads` | 3 threads, 3 connections | no lost wake-up, hand-over to a live loop, `main` waits for nobody in vain, stop ends, queued means attached; implements `Handover` |
| `provider` | 2 host processes, 2 sinks, 2 logins and 2 window messages in each | callbacks find a provider, the id is kept unless it cannot be loaded, a login is shown; implements `Display` |
| `provider_refusal` | 1 host process | *violated*: a provider that refused its scenario is harmless |
| `provider_unadvise` | 1 host process | *violated*: a sink that was taken back is not called |
| `reauth_timer` | no bounds | started means armed, the loop never sleeps without an end, a started timer ticks; implements `TimerService` |
| `tiles` | lengths around what 16 bits hold | password erased, heap balanced, structure readable, the box is submitted |
| `tiles_scenario` | one length each | *violated*: the tile logs on for the provider's scenario |
| `packet_codec` | 2 strings, up to 3 fields of garbage | what is sent is handled, handlers get only what is theirs |

The first run of each module also checks its type invariant. Some invariants are
theorems and not checked by a run as well, since a refinement that a run checks
implies them: `DeliveredInOrder` (`FrameChannel`), `AttachedOnce` (`Handover`),
`StopHolds` (`TimerService`), `AskedFieldsExist` and `SettledViewIsCurrent`
(`Display`). `HeldLengthIncomplete` is a theorem only, too.

**Bounds.** Two payload sizes, one shorter than a header and one longer, and a
buffer of two headers make every cut happen: inside a header, inside a payload,
exactly at the end, over several frames, and a buffer that has to grow. Two
connections are enough for a reused object, since nothing but the buffer is
carried over. In `Login` two objects let a machine crash and come back on the other
object while the first still serves its old connection, or on the first, pooled
one; two machines let one get the object of the other. The theorems hold for
any number.
`MaxInFlight` bounds packets of one connection when the timer sends, and nothing
else, so it does not stop handlers; with two a tick is sent while an answer is
on its way. Three connections let one be queued, one be
handed over and one be in the backlog at once. `Connections`, `MaxFrames`,
`MaxConnections`, `MaxCrashes` and `Objects` are the other bounds.

`Provider`: two hosts let one find the id the other stored, or fail to read it and
replace it; two sinks let a
callback hold one while the other is in place; of two logins the second is the
repeated report of an account; two messages are a toggle and an exit in either
order (`MaxHosts`, `MaxAdvises`, `MaxReports`, `MaxClicks`). `ReauthTimer` needs
no bound. `Tiles`: 32767 characters are the longest string 16 bits can count in
bytes, 32768 the shortest they cannot, 65536 wraps even as a number of
characters, and the size of the structure does not matter. `PacketCodec`: a frame of
three fields may name two ids, or have a good field behind one that breaks the
parse (`MaxFields`).

**Deadlock** is checked in `server_threads`, where only the end of `main` is
final. `tiles` and
`packet_codec` are checked for it too and never stop. In the other runs nothing
may be left to do: the last connection of the bound has ended, everybody is
logged in or cut off, the last host process is over, the client and its timers
have been destroyed.

**Fairness.** `Framing`: read callbacks that bring bytes keep coming while the
network holds some; callbacks without bytes are not fair, otherwise lagging
frames would heal by themselves. `Login`: both loops run, the timers expire, and
a server tried again and again is reached in the end (strong fairness of
`ConnectOk`, since each failure disables it); there is no fairness for crashes,
drops or `EndOfStream`, which therefore need never happen. A started timer is
assumed to tick, which `ReauthTimer` shows. `ServerThreads`: every
thread that can run does; clients and signals come or not. `Provider`: the host
finishes an enumeration it began and begins one it was told to begin, and the
network thread makes the call it is about to make; nothing makes the host
create, advise or release, and the user need not click. `ReauthTimer`: the
timers thread and a constructor that has begun go on (weak fairness of `Loop`
and `Construct`), and the time of a timer that is armed again and again comes,
although each time it is disarmed disables the step (strong fairness of
`TimePasses`); nobody needs to start, stop or destroy. `Tiles` and
`PacketCodec` state safety only.

Every property also has a mistaken variant of a definition, written before it
and called one in its comment, under which TLC finds it violated; `PROJECT.json`
pairs them.

## 5. Proofs

The eight `...Proofs` modules hold for every value of the constants that
satisfies the modules' `ASSUME`s: sizes are positive numbers, `Garbage` are
natural numbers, keys are assigned to machines, `NoObject` is not an object;
bounds are natural numbers, and so are lengths and the names of strings.

*Framing.* `DeliveredInOrder` is not inductive: it says nothing of the position
the parser is at. The invariant adds that frames of the wire are laid end to
end; that the bytes in the buffer end where the bytes that came end
(`base + readed = arrived`); and that, on a trusted object, `base` is where the
next frame's header begins, or its payload while the length is held. From it
follow `TypeCorrect` (no counter goes below zero), `InOrder`, `Lag`, `NoIdle`,
`Buffer` and `ImplementsChannel`, where each action is mapped to a step of
`FrameChannel` or a stutter. `Held` (`HeldLengthIncomplete`) is inductive as it
stands and does not need the object to be trusted.

*Login.* One invariant carries all four theorems. `NoStall` alone is not
inductive: the answer to an `AccountRequest` ends the wait only if it brings an
account, so the invariant says who may be asked for one. Wherever an
`AccountRequest` or an ALLOWED travels - two wires, two buffers - the session of
the object at hand is logged in, and nothing resets a session; hence no
"no account" is ever on the way, which is `AllowedHasAccount` (`SessionInv`).
An object that is out of step may take anything for an account request, and swallows
the `Hello` that starts everything, so both are shown for objects in step
(`InStep`), and `SessionInv` allows "no account" on the way from no other.
`ExclusiveObjects` and `BornInv` keep a step of one machine from disturbing
another's connection, and a provider that is not connected yet has read nothing
(`FreshInv`). Theorems: `TypeCorrect`, `Exclusive`, `NeverStalls`,
`AllowedMeansAccount`. `TimerIsService` needs of all this only the types and that
a started timer is not stray (`StrayInv`): a stop is lost only in a tick, and no
handler touches the timer otherwise. With `ImplementsService`, below, it closes
the chain between the two modules: `ReauthTimer` implements `TimerService`, and
`Login` relies on nothing else.

`LoginKeyProofs` adds a second invariant, `KInv`, inductive given the first. For
a machine whose object started empty it looks at all replies on their way as one
sequence (`Incoming`, buffer and wire): all requests carry its own key; an
ALLOWED on its way, or one that was handled (`Passed`), means that the key is
known; so does a BLOCKED on its way, or a timer that was started, since a refusal
registers the key; no BLOCKED comes behind an ALLOWED, as keys are never
forgotten; and once it was handled the timer is started no more. `UnusedInv` (nothing is on the way
from a pooled object) and `NewInv` make it hold when a connection begins; its
object is in step and stays so, since only the end of a connection leaves a part
of a frame (`StepInv`), and so `ServerMisreads` never disturbs it. This
gives `NeedsKey` and `QuietAfterLogin`: a tick that races the ALLOWED, or those
of a timer whose stop was lost, only bring another one.

`ImplementsConversation` is the refinement. `Phase(m)` depends on whether an
answer to the account request is anywhere between the two ends, so the
proof first shows what each step does to `Incoming` and `Outgoing` of every
machine: bringing bytes from the wire into a buffer changes neither
(`SegmentSplit`), handling a frame takes the first and adds at most one at the
end (`HandleFacts`), and a step of another machine or object leaves both
alone (`ExclusiveObjects`). That a machine which was allowed stays so until it
is in needs `SessionInv` (the request it sent is answered with an account); that
it is refused only with a known key, and not after it was allowed, is `KInv`,
as is that a connection begins with nothing asked or answered. `Crash` of a
machine is a `Restart` of its own conversation and leaves the others' as they are;
no other action is mapped to a fall back to asking.

*Server threads.* The order in which `main` starts and stops the threads is
turned into an invariant on where each thread can be: `ClientsInv` says that
clients is up, posted and unflagged from its start until its stop, `TcpInv` that
tcp is there only within that time, `UnbornInv` that a thread `main` has not
come to has done nothing. `HandsToLiveLoop` is their conjunction. For
`NothingForgotten`, `NoLostWakeup` is strengthened to every place of the clients
thread except the drain itself; a `uv_async_send` of the tcp thread always finds
the handle open because of `HandsToLiveLoop`. `GivenOnce` needs that a
connection in the backlog is nowhere else.

`MainNeverHangs` says only where `main` is at; the invariant `StageInv` says of
each thread what follows from how far `main` is with it (`Stage`), from before
its start to after its join. Between the raising of the flag and the join the
thread may be anywhere in its loop; what matters is that each place is left: it
has looked at the flag after it was raised, or will, and if it sleeps it has a
wake-up. `ImplementsHandover` adds that tcp holds at most one connection in its
hands, and only where it is about to push it (`HandInv`): then accepting appends
to the pipe, `Push` leaves it as it is and `Drain` takes its head. That the
receiver is live at the moment of accepting is `HandoverToLiveLoop`, and what
makes it live once is `ControlInv`.

*Provider.* No invariant of the list is inductive: each says what holds in one
state of the host, and depends on how the threads came there. `RefsInv` counts:
the host's reference and, once `built`, the window's; the provider and the tile
for the DLL. `ThreadsInv` says that a thread runs only in a process whose
provider is built (and, for the network thread, whose client is set). Together
they give `Outlives`. `SinkInv` says that `_pcpe` is the sink the host has given
in all states of an enumeration, and `ViewInv` that the answers collected so far
are about the present tile, unless a notice is due to reach the present sink:
the network thread is about to test or to call it, or the host was told
(`NoNotice`). This gives `SettledView`; `FieldsExist` is inductive with these,
as nobody logs out. `ImplementsDisplay` rests on the same: a notice that
finds no sink finds a host that asks nothing (`SinkInv`), and one that was
tested for a sink the host has since replaced is not due to this host any more.
`IdInv` ties the id of a running client to the registry, and says that before its
one client is created a process has neither a client nor failed to load an id. With
it each step either leaves the registry alone, or is a `CreateClient` that found no
id or could not load it: `Identity`. That no process ever replaces an id that is
there is not a theorem, because the code does so when it cannot read it.

*Reauthorisation timer.* The step that matters is the tick of a timer that is
being stopped: `StopHolds` needs that a timer that is due is armed (in `TypeOK`),
that the loop has a current timer exactly in a tick (`CurrentInv`), and that
only a client that is constructed has a started timer (`StartedInv`). `NoBlindSleep` needs that from the end of
the constructor to the start of the destructor the housekeeping timer is armed
or about to be put back (`HousekeepingInv`); a loop that went to sleep before it
was armed has the constructor's wake-up. `ImplementsService` maps the loop's
removal of a timer that is due to a tick of `TimerService`, the end of its callback
to its end, and shows that no other interleaving of the client's thread with the
loop is visible outside: a timer is stray if it is armed, or about to be, without
being started, which only a stop in a tick brings about.

*Tiles.* `TypeOK` alone is not inductive, as `Pack` adds lengths and a missing
string is `Null`: `LengthInv` says that from `KerbInit` on all three are
numbers, made of the strings at hand. `HeapInv` gives for each step of
`GetSerialization` the set of what is held (`Held`), from which `Balanced`
follows at the call's end. `BoxInv` says that unless LogonUI was told otherwise
the tile's password is the box's, and that the copies on the way are of it:
`SubmitsBox`. `PackIsReadable` and `PackFits` are the lemmas on the arithmetic:
for all lengths the packed strings are apart from one another and within the
buffer, and no length exceeds 16 bits.

*Packet codec.* `ReadInv` relates the packet being filled to the part of the
frame that was read: its id is the last one named there (`LastId`) or the
default, its body is none or one that is valid. With `DoneInv`, which says that
a handler is called at the end of a frame without a break, this is
`HandlersGetValid`. For `SentArrives`, `SentInv` says of a frame that somebody
sent that its class is the one being tried or a later one: a class before it
finds, once it has read a field, the id of another.

Only model-checked: all liveness, which is out of the prover's reach:
`FrameArrives`, `EventuallyLoggedIn`, `StopTerminates`, `AcceptedIsAttached`,
`LoginIsShown` and `StartedTimerTicks`. The safety each rests on is proved: that
a step is pending whenever something is still to come. For `FrameArrives` it is
`HeldLengthIncomplete` and `NoIdleCallback`, for `EventuallyLoggedIn` `NoStall`, for
`StopTerminates` `MainNeverHangs`, for `AcceptedIsAttached` `NoLostWakeup`, for
`LoginIsShown` `Display`, for `StartedTimerTicks` `StartedIsArmed`
and `NeverSleepsBlind`. `ENABLED`, on which fairness rests, is out of reach as
well, and so is induction over data; the modules have no recursive definition.

## 6. What the checks show about reused objects

`DeliveredInOrder`, `LoginNeedsKey` and `LoggedInIsQuiet` are stated for
connections whose object started empty. Without that condition TLC finds them
violated at once: an object that lost its peer with a packet in its buffer
answers it to the next peer, which takes the answer for its own; hence
`trusted` in `Conversation` and `FrameChannel`.

`NoStall` and `AllowedHasAccount` hold with whole left-over frames too, but not on
an object that kept a part of a frame: it swallows the next machine's `Hello`, and
both ends then wait for the other, with nothing on the wire and no timer
running. `EventuallyLoggedIn` excepts that case, a connection that is lost and a
connect that is not even tried, because nothing in the code ends them.
`ExclusiveObjects` holds without any condition.

## 7. Where the code does not do what its comments say

- `CSampleProvider.cpp:60` says of a scenario that is not supported that
  `E_NOTIMPL` *simply tells the caller* so. The provider has no client then, and
  its `_client` was never initialised: the host's `Release` runs a destructor
  that stops and deletes it (`provider_refusal`).
- `CSampleProvider.cpp:208`: `UnAdvise` is called when the event sink *is no
  longer valid*. The network and window threads test `_pcpe` and call it without
  a lock, so that one is called after it was taken back (`provider_unadvise`).
- `CSampleProvider.cpp:72`: the tiles are *the same all the time*. The tile keeps
  the scenario it was made for, and logs on with the kind of logon of that one
  when the provider is given the other (`tiles_scenario`).

## 8. Not modelled

More than half of the repository's lines are easylogging (two copies), and a
fifth is generated protobuf code, of which the parsers, serializers and
validity functions are modelled and the accessors, descriptors and string
reflection are not. Of the rest these are left out, with the reason:

- `UdpServer`'s handlers: they log. Its thread is in `ServerThreads`.
- The class factory's own count and `LockServer`, the registration of the DLL:
  COM boilerplate around `CreateInstance`, with no state of the system in it.
- `GetConnectedStatus`, `SetWindowTitle`, `KerbInteractiveUnlockLogonRepackNative`,
  `DomainUsernameStringAlloc` and `GetBoolRegKey` are called by nothing.
- `Test/main.cpp`: starts a client without a provider, sleeps and returns. It is the
  only program that destroys a client, and the only one in which a login would
  find no provider to report to (`Client.cpp:114` does not ask).
- The field tables (`GetFieldState`, bitmaps, labels): constants and copies of
  them, but for the number of descriptors, which `Tiles` has.
- Data races within libuv's timer heap, the semaphore and the stop flag: below
  the level of the models, which take those operations as atomic. A
  `uv_async_send` on a handle that is closing (`Thread.cpp:80-81`) is taken to do
  nothing.
- Copies of the password other than the tile's field, the box and those of
  `GetSerialization`: `ErasedWhenDeselected` is about the field the tile keeps.
  Blocks that `SetStringValue` and the helpers free on the way are not overwritten
  by the code, and what freed memory holds is not modelled.
- Two processes that find no id at the same time: the hosts of `Provider` follow
  one another.
- Memory the server never frees (streams at their end, objects in use when it
  stops): nothing in the system depends on it. `PROJECT.json` lists it.
