---------------------------- MODULE TimerService -----------------------------
(***************************************************************************)
(* What a timer of the provider promises to the thread that starts and     *)
(* stops it: it ticks only when it is started, or when the stop that was   *)
(* to end it fell into one of its ticks and was lost. A lost stop is made  *)
(* good by the next start.                                                 *)
(***************************************************************************)

VARIABLES
    started,    \* start() was called, stop() not since
    stray,      \* it is not started, and goes on ticking
    ticking     \* the timers thread is at a tick of it

vars == <<started, stray, ticking>>

Init == ~started /\ ~stray /\ ~ticking

Start ==
    /\ ~started /\ started'
    /\ ~stray' /\ ticking' = ticking

Stop ==
    /\ started /\ ~started'
    /\ stray' => ticking
    /\ ticking' = ticking

Tick ==
    /\ started \/ stray
    /\ ~ticking /\ ticking'
    /\ UNCHANGED <<started, stray>>

\* The end of the tick: the callback has run.
Send ==
    /\ ticking /\ ~ticking'
    /\ UNCHANGED <<started, stray>>

Next == Start \/ Stop \/ Tick \/ Send

Spec == Init /\ [][Next]_vars
=============================================================================
