-------------------------- MODULE ReauthTimerProofs --------------------------
(***************************************************************************)
(* Proofs about ReauthTimer. HousekeepingInv says where the housekeeping   *)
(* timer is while somebody counts on it, and FreedInv that nobody starts   *)
(* the timer any more once it is deleted.                                  *)
(***************************************************************************)
EXTENDS ReauthTimer, TLAPS

\* From its first start until ~Timers the housekeeping timer is in the heap,
\* or the loop is about to put it back.
HousekeepingInv ==
    owner \in {"armed", "running", "joined", "deleted"}
        => "housekeeping" \in armed \/ Rearming("housekeeping")

FreedInv == freed => ~started /\ owner \notin {"running", "joined"}

\* A started timer belongs to a client that is constructed.
StartedInv == started => owner \in {"running", "joined"}

\* Before the constructor has started the thread, it is not in its loop.
OwnerInv ==
    /\ owner \in {"new", "started", "armed"} => ~freed
    /\ owner = "new" => loop = "off"

\* The loop is at a timer exactly while it runs one.
CurrentInv == loop \in {"rearm", "callback"} <=> current # "none"

IInv ==
    /\ TypeOK /\ HousekeepingInv /\ FreedInv /\ StartedInv /\ OwnerInv
    /\ CurrentInv /\ StartedIsArmed /\ StopHolds /\ NeverSleepsBlind

-----------------------------------------------------------------------------
\* Initially nothing is armed, started or deleted.
LEMMA InitIInv == Init => IInv
  BY DEF Init, IInv, TypeOK, HousekeepingInv, FreedInv, StartedInv, OwnerInv,
         CurrentInv, StartedIsArmed, StopHolds, NeverSleepsBlind, Rearming, Ticking,
         TimerNames

\* The steps of the thread that creates and destroys the client keep the
\* invariant.
LEMMA OwnerStep == IInv /\ (Construct \/ JoinClient \/ Destruct) => IInv'
<1> SUFFICES ASSUME IInv, Construct \/ JoinClient \/ Destruct
             PROVE  IInv'
  OBVIOUS
<1> USE DEF IInv, TypeOK, HousekeepingInv, FreedInv, StartedInv, OwnerInv,
            CurrentInv, StartedIsArmed, StopHolds, NeverSleepsBlind, Rearming, Ticking,
            TimerNames, loopVars, ownerVars, Arm, Disarm
<1>1. CASE StartThread        BY <1>1 DEF StartThread
<1>2. CASE ArmHousekeeping    BY <1>2 DEF ArmHousekeeping
<1>3. CASE Notify             BY <1>3 DEF Notify
<1>4. CASE JoinClient         BY <1>4 DEF JoinClient
<1>5. CASE DeleteTimer        BY <1>5 DEF DeleteTimer
<1>6. CASE DisarmHousekeeping BY <1>6 DEF DisarmHousekeeping
<1>7. CASE RaiseFlag          BY <1>7 DEF RaiseFlag
<1>8. CASE Wake               BY <1>8 DEF Wake
<1>9. CASE Join               BY <1>9 DEF Join
<1> QED
  BY <1>1, <1>2, <1>3, <1>4, <1>5, <1>6, <1>7, <1>8, <1>9 DEF Construct, Destruct

\* So do the client's thread, the loop and the clock.
LEMMA LoopStep ==
    IInv /\ (Start \/ Stop \/ Loop \/ \E t \in TimerNames : TimePasses(t)) => IInv'
<1> SUFFICES ASSUME IInv, Start \/ Stop \/ Loop \/ \E t \in TimerNames : TimePasses(t)
             PROVE  IInv'
  OBVIOUS
<1> USE DEF IInv, TypeOK, HousekeepingInv, FreedInv, StartedInv, OwnerInv,
            CurrentInv, StartedIsArmed, StopHolds, NeverSleepsBlind, Rearming, Ticking,
            TimerNames, loopVars, ownerVars, Arm, Disarm
<1>1. CASE Start     BY <1>1 DEF Start
<1>2. CASE Stop      BY <1>2 DEF Stop
<1>3. CASE CheckFlag BY <1>3 DEF CheckFlag
<1>4. ASSUME NEW t \in TimerNames, TakeDue(t) PROVE IInv'
  BY <1>4 DEF TakeDue
<1>5. CASE Rearm     BY <1>5 DEF Rearm
<1>6. CASE Callback  BY <1>6 DEF Callback
<1>7. CASE Sleep     BY <1>7 DEF Sleep
<1>8. CASE WakeUp    BY <1>8 DEF WakeUp
<1>9. ASSUME NEW t \in TimerNames, TimePasses(t) PROVE IInv'
  BY <1>9 DEF TimePasses
<1> QED
  BY <1>1, <1>2, <1>3, <1>4, <1>5, <1>6, <1>7, <1>8, <1>9 DEF Loop

\* Nothing changes in a stuttering step.
LEMMA Stutter == IInv /\ UNCHANGED vars => IInv'
  BY DEF IInv, TypeOK, HousekeepingInv, FreedInv, StartedInv, OwnerInv,
         CurrentInv, StartedIsArmed, StopHolds, NeverSleepsBlind, Rearming, Ticking,
         vars, ownerVars, loopVars

LEMMA Invariant == Spec => []IInv
<1>1. IInv /\ [Next]_vars => IInv'
  BY OwnerStep, LoopStep, Stutter DEF Next
<1> QED
  BY InitIInv, <1>1, PTL DEF Spec

-----------------------------------------------------------------------------
\* Type correctness; in particular only timers of the heap are due.
THEOREM TypeCorrect == Spec => []TypeOK
  BY Invariant, PTL DEF IInv

\* A started timer is in the loop's heap, or about to be put back.
THEOREM StartedArmed == Spec => []StartedIsArmed
  BY Invariant, PTL DEF IInv

\* A stop or a deletion is heeded unless it falls into a tick (Timer.cpp:47
\* against the loop's disarm and re-arm).
THEOREM StopHeeded == Spec => []StopHolds
  BY Invariant, PTL DEF IInv

\* The loop never sleeps without an end in sight (Timers.cpp:11-12): what the
\* liveness of a started timer rests on.
THEOREM NoBlindSleep == Spec => []NeverSleepsBlind
  BY Invariant, PTL DEF IInv

-----------------------------------------------------------------------------
\* The timer is the service Login counts on: no interleaving of the client's
\* calls with the loop's disarming and re-arming shows anything else.
THEOREM ImplementsService == Spec => ServiceSpec
<1>1. Init => Service!Init
  BY DEF Init, Service!Init, Rearming, Ticking
<1>2. ASSUME IInv, [Next]_vars PROVE [Service!Next]_(Service!vars)
  <2> USE DEF IInv, TypeOK, OwnerInv, Rearming, Ticking, TimerNames, loopVars,
              ownerVars, Arm, Disarm, Service!vars
  <2>1. CASE StartThread \/ ArmHousekeeping \/ Notify
    BY <1>2, <2>1 DEF StartThread, ArmHousekeeping, Notify
  <2>2. CASE JoinClient \/ DisarmHousekeeping \/ RaiseFlag \/ Wake \/ Join
    BY <1>2, <2>2 DEF JoinClient, DisarmHousekeeping, RaiseFlag, Wake, Join
  <2>3. CASE DeleteTimer
    BY <1>2, <2>3 DEF DeleteTimer, Service!Next, Service!Stop
  <2>4. CASE Start
    BY <1>2, <2>4 DEF Start, Service!Next, Service!Start
  <2>5. CASE Stop
    BY <1>2, <2>5 DEF Stop, Service!Next, Service!Stop
  <2>6. ASSUME NEW t \in TimerNames, TakeDue(t) PROVE [Service!Next]_(Service!vars)
    BY <1>2, <2>6 DEF TakeDue, Service!Next, Service!Tick
  <2>7. CASE Rearm
    BY <1>2, <2>7 DEF Rearm
  <2>8. CASE Callback
    BY <1>2, <2>8 DEF Callback, Service!Next, Service!Send
  <2>9. CASE CheckFlag \/ Sleep \/ WakeUp \/ \E t \in TimerNames : TimePasses(t)
    BY <1>2, <2>9 DEF CheckFlag, Sleep, WakeUp, TimePasses
  <2>10. CASE UNCHANGED vars
    BY <2>10 DEF vars
  <2> QED
    BY <1>2, <2>1, <2>2, <2>3, <2>4, <2>5, <2>6, <2>7, <2>8, <2>9, <2>10
       DEF Next, Construct, Destruct, Loop
<1>3. IInv /\ [Next]_vars => [Service!Next]_(Service!vars)
  BY <1>2
<1> QED
  BY <1>1, <1>3, Invariant, PTL DEF Spec, ServiceSpec, Service!Spec
=============================================================================
