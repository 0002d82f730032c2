---------------------------- MODULE ReauthTimer ------------------------------
(***************************************************************************)
(* The provider's timers: Timers is a thread whose event loop holds a      *)
(* housekeeping timer of its own and the reauthorisation timer, which is   *)
(* started and stopped by the client's thread and destroyed by the thread  *)
(* that owns the client, all without a lock.                               *)
(*                                                                         *)
(* The loop computes how long it may sleep when it goes to sleep: a timer  *)
(* that another thread arms later does not shorten that sleep. The         *)
(* housekeeping timer bounds it, and the wake-up of the constructor makes  *)
(* the loop look at the housekeeping timer. A timer that is due is         *)
(* disarmed, armed again and only then called back, so that a stop() may   *)
(* fall between the two.                                                   *)
(*                                                                         *)
(* Operations of the event loop's timer heap are taken as atomic. The time *)
(* is abstracted to which timers are due.                                  *)
(***************************************************************************)
EXTENDS Naturals

TimerNames == {"housekeeping", "reauth"}

VARIABLES
    owner,      \* where the thread that creates and destroys the client is
    started,    \* Timer::started of the reauthorisation timer
    freed,      \* it was deleted
    raced,      \* its last stop() or its deletion fell into a tick of it
    loop,       \* where the timers thread is in uv_run
    current,    \* the timer it is at, or "none"
    armed,      \* the timers in the loop's heap
    due,        \* those whose time is up
    deadline,   \* the timers the loop took into account when it went to sleep
    async,      \* a wake-up is pending
    stopFlag    \* the loop's stop flag

ownerVars == <<owner, started, freed, raced>>
loopVars  == <<loop, current, deadline>>
vars      == <<ownerVars, loopVars, armed, due, async, stopFlag>>

Init ==
    /\ owner = "new" /\ started = FALSE /\ freed = FALSE /\ raced = FALSE
    /\ loop = "off" /\ current = "none"
    /\ armed = {} /\ due = {} /\ deadline = {}
    /\ async = FALSE /\ stopFlag = FALSE

Arm(t)    == armed' = armed \cup {t} /\ due' = due \ {t}

\* Mistaken variant: a timer that was due is so still when it is not armed.
DisarmKeepsDue(t) == armed' = armed \ {t} /\ UNCHANGED due

Disarm(t) == armed' = armed \ {t} /\ due' = due \ {t}

-----------------------------------------------------------------------------
(* Timers::Timers, the part of Client::Client that makes the timer, and    *)
(* their destructors.                                                      *)

\* start() returns when the thread is about to run its loop.
StartThread ==
    /\ owner = "new" /\ owner' = "started"
    /\ loop' = "check"
    /\ UNCHANGED <<started, freed, raced, current, deadline, armed, due, async, stopFlag>>

ArmHousekeeping ==
    /\ owner = "started" /\ owner' = "armed"
    /\ Arm("housekeeping")
    /\ UNCHANGED <<started, freed, raced, loopVars, async, stopFlag>>

\* Mistaken variant: the constructor does not wake the loop.
NotifyNot ==
    /\ owner = "armed" /\ owner' = "running"
    /\ UNCHANGED <<started, freed, raced, loopVars, armed, due, async, stopFlag>>

\* notify(), and create_timer with its callback.
Notify ==
    /\ owner = "armed" /\ owner' = "running"
    /\ async' = TRUE
    /\ UNCHANGED <<started, freed, raced, loopVars, armed, due, stopFlag>>

\* ~ThreadedClient joins the client's thread first: nobody starts or stops
\* the timer from then on.
JoinClient ==
    /\ owner = "running" /\ owner' = "joined"
    /\ UNCHANGED <<started, freed, raced, loopVars, armed, due, async, stopFlag>>

\* ~Client deletes the timer, whose destructor stops it if it is started.
DeleteTimer ==
    /\ owner = "joined" /\ owner' = "deleted"
    /\ started' = FALSE /\ freed' = TRUE
    /\ raced' = (raced \/ current = "reauth")
    /\ IF started THEN Disarm("reauth") ELSE UNCHANGED <<armed, due>>
    /\ UNCHANGED <<loopVars, async, stopFlag>>

DisarmHousekeeping ==
    /\ owner = "deleted" /\ owner' = "disarmed"
    /\ Disarm("housekeeping")
    /\ UNCHANGED <<started, freed, raced, loopVars, async, stopFlag>>

RaiseFlag ==
    /\ owner = "disarmed" /\ owner' = "flagged"
    /\ stopFlag' = TRUE
    /\ UNCHANGED <<started, freed, raced, loopVars, armed, due, async>>

Wake ==
    /\ owner = "flagged" /\ owner' = "joining"
    /\ async' = TRUE
    /\ UNCHANGED <<started, freed, raced, loopVars, armed, due, stopFlag>>

Join ==
    /\ owner = "joining" /\ loop = "ended" /\ owner' = "gone"
    /\ UNCHANGED <<started, freed, raced, loopVars, armed, due, async, stopFlag>>

-----------------------------------------------------------------------------
(* The client's thread.                                                    *)

\* BLOCKED: a timer that is started already is left alone.
Start ==
    /\ owner = "running" /\ ~started
    /\ started' = TRUE /\ raced' = FALSE
    /\ Arm("reauth")
    /\ UNCHANGED <<owner, freed, loopVars, async, stopFlag>>

\* Mistaken variant: the flag is lowered but the timer stays armed.
StopLowersFlag ==
    /\ owner = "running" /\ started
    /\ started' = FALSE
    /\ raced' = (loop = "rearm" /\ current = "reauth")
    /\ UNCHANGED <<owner, freed, armed, due, loopVars, async, stopFlag>>

\* ALLOWED: a timer that is not started is left alone, even if it is armed.
Stop ==
    /\ owner = "running" /\ started
    /\ started' = FALSE
    /\ raced' = (loop = "rearm" /\ current = "reauth")
    /\ Disarm("reauth")
    /\ UNCHANGED <<owner, freed, loopVars, async, stopFlag>>

-----------------------------------------------------------------------------
(* The timers thread.                                                      *)

CheckFlag ==
    /\ loop = "check"
    /\ loop' = IF stopFlag THEN "ended" ELSE "timers"
    /\ UNCHANGED <<ownerVars, current, deadline, armed, due, async, stopFlag>>

\* A timer that is due is disarmed first.
TakeDue(t) ==
    /\ loop = "timers" /\ t \in due
    /\ loop' = "rearm" /\ current' = t
    /\ Disarm(t)
    /\ UNCHANGED <<ownerVars, deadline, async, stopFlag>>

\* Mistaken variants: timers that do not repeat,
RearmNever ==
    /\ loop = "rearm" /\ loop' = "callback"
    /\ UNCHANGED <<ownerVars, current, deadline, armed, due, async, stopFlag>>

\* a housekeeping timer that does not repeat.
RearmReauthOnly ==
    /\ loop = "rearm" /\ loop' = "callback"
    /\ IF current = "reauth" THEN Arm("reauth") ELSE UNCHANGED <<armed, due>>
    /\ UNCHANGED <<ownerVars, current, deadline, async, stopFlag>>

\* Both timers repeat, so uv_timer_again arms the timer whatever has become
\* of it.
Rearm ==
    /\ loop = "rearm" /\ loop' = "callback"
    /\ Arm(current)
    /\ UNCHANGED <<ownerVars, current, deadline, async, stopFlag>>

\* Timers::notifier, or on_timer_internal, which makes the client send.
Callback ==
    /\ loop = "callback" /\ loop' = "timers"
    /\ current' = "none"
    /\ async' = (async \/ current = "housekeeping")
    /\ UNCHANGED <<ownerVars, deadline, armed, due, stopFlag>>

Sleep ==
    /\ loop = "timers" /\ due = {}
    /\ loop' = "poll" /\ deadline' = armed
    /\ UNCHANGED <<ownerVars, current, armed, due, async, stopFlag>>

\* By the wake-up, which calls on_notify, or by the time computed before.
WakeUp ==
    /\ loop = "poll" /\ (async \/ deadline # {})
    /\ loop' = "check" /\ deadline' = {}
    /\ async' = FALSE
    /\ UNCHANGED <<ownerVars, current, armed, due, stopFlag>>

\* The loop reads the clock once an iteration.
TimePasses(t) ==
    /\ loop \in {"check", "poll"} /\ t \in armed \ due
    /\ due' = due \cup {t}
    /\ UNCHANGED <<ownerVars, loopVars, armed, async, stopFlag>>

-----------------------------------------------------------------------------
Construct == StartThread \/ ArmHousekeeping \/ Notify
Destruct  == DeleteTimer \/ DisarmHousekeeping \/ RaiseFlag \/ Wake \/ Join
Loop      == CheckFlag \/ (\E t \in TimerNames : TakeDue(t)) \/ Rearm \/ Callback
               \/ Sleep \/ WakeUp

Next == Construct \/ JoinClient \/ Destruct \/ Start \/ Stop \/ Loop
          \/ \E t \in TimerNames : TimePasses(t)

Spec == Init /\ [][Next]_vars

\* The loop runs, an object under construction gets ready, and the time of
\* every timer that stays armed comes.
FairSpec ==
    /\ Spec
    /\ WF_vars(Loop) /\ WF_vars(Construct)
    /\ \A t \in TimerNames : SF_vars(TimePasses(t))

-----------------------------------------------------------------------------
TypeOK ==
    /\ owner \in {"new", "started", "armed", "running", "joined", "deleted",
                  "disarmed", "flagged", "joining", "gone"}
    /\ started \in BOOLEAN /\ freed \in BOOLEAN /\ raced \in BOOLEAN
    /\ loop \in {"off", "check", "timers", "rearm", "callback", "poll", "ended"}
    /\ current \in TimerNames \cup {"none"}
    /\ armed \subseteq TimerNames /\ due \subseteq armed /\ deadline \subseteq TimerNames
    /\ async \in BOOLEAN /\ stopFlag \in BOOLEAN

\* The loop is at a tick of t and will arm it, or has just done so.
Rearming(t) == loop = "rearm" /\ current = t
Ticking(t)  == loop \in {"rearm", "callback"} /\ current = t

\* A timer that is started is in the loop's heap, or about to be put back,
\* however starts, stops and ticks fall together.
StartedIsArmed == started => "reauth" \in armed \/ Rearming("reauth")

\* Once stopped, the timer is neither armed nor about to be, and once deleted
\* the loop does not touch it, except when the stop or the deletion fell into
\* one of its ticks: then it ticks on for good, or as freed memory.
StopHolds ==
    /\ ~started /\ ("reauth" \in armed \/ Rearming("reauth")) => raced
    /\ freed /\ Ticking("reauth") => raced

\* From the constructor's end to the destructor the loop never sleeps without
\* a wake-up under way or a timer that ends the sleep.
NeverSleepsBlind ==
    owner = "running" /\ loop = "poll" => async \/ deadline # {}

\* To the client the timer is a service: whatever the loop does to its heap, the
\* timer ticks when it is started, or after a stop that was lost.
Service == INSTANCE TimerService WITH
              stray <- ~started /\ ("reauth" \in armed \/ Rearming("reauth")),
              ticking <- Ticking("reauth")
ServiceSpec == Service!Spec

\* A timer that stays started ticks: what Login takes for granted.
StartedTimerTicks == started ~> (~started \/ Ticking("reauth"))
=============================================================================
