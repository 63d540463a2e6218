----------------------------- MODULE TimerLib ------------------------------
(***************************************************************************)
(* The timer library over POSIX timers (libtimer/timerlib.c), which drives *)
(* the wheel of every node: one timer, the calls of an application, and    *)
(* the threads SIGEV_THREAD starts, one per expiry, which run              *)
(* timer_callback_wrapper beside them without a lock. Time is in ticks.    *)
(***************************************************************************)
EXTENDS Naturals, FiniteSets

CONSTANTS
  ExpTimer, SecExpTimer,  \* the first and the later intervals of the timer
  Threshold,              \* its number of expirations, 0 for no limit
  Threads,                \* bound on wrappers running at once
  Forever,                \* what ~0 milliseconds is, above every interval
  MaxBackoff, MaxCalls    \* bounds on the back-off and on application calls

VARIABLES
  exponential,  \* exponential_backoff, which setup_timer is given
  state,    \* timer_state
  posix,    \* the kernel's timer: [value, interval], value 0 if disarmed
  ts,       \* timer->ts
  left,     \* time_remaining
  counter,  \* invocation_counter
  backoff,  \* exp_back_off_time
  pc,       \* per thread, where its wrapper stands
  calls,    \* application calls so far
  fired,    \* callbacks since the count last started again
  raced,    \* a call was made, or another wrapper started, while a wrapper ran
  died      \* an assertion failed

vars == <<exponential, state, posix, ts, left, counter, backoff, pc, calls, fired, raced, died>>

Init ==  \* setup_timer
  /\ exponential \in BOOLEAN
  /\ state = "INIT" /\ posix = [value |-> 0, interval |-> 0]
  /\ ts = [value |-> ExpTimer, interval |-> IF exponential THEN 0 ELSE SecExpTimer]
  /\ left = 0 /\ counter = 0 /\ backoff = IF exponential THEN ExpTimer ELSE 0
  /\ pc = [t \in Threads |-> "idle"] /\ calls = 0 /\ fired = 0
  /\ raced = FALSE /\ died = FALSE

InFlight == \E t \in Threads : pc[t] # "idle"

\* timer_fill_itimerspec twice and resurrect_timer
Arm(value, interval) ==
  /\ ts' = [value |-> value, interval |-> interval] /\ posix' = ts'

------------------------------------------------------------------------------
(* Calls of the application *)

Call(s) ==
  /\ ~died /\ state # "DELETED" /\ calls < MaxCalls /\ calls' = calls + 1
  /\ raced' = (raced \/ InFlight) /\ state' = s /\ UNCHANGED <<exponential, pc, died>>

\* Both callers start a timer once, after they set it up
StartTimer ==
  /\ state = "INIT" /\ Call("RUNNING") /\ posix' = ts
  /\ UNCHANGED <<ts, left, counter, backoff, fired>>

CancelTimer ==
  /\ state # "INIT" /\ Call("CANCELLED") /\ Arm(0, 0)
  /\ left' = 0 /\ counter' = 0 /\ fired' = 0 /\ UNCHANGED backoff

\* timer_get_time_remaining_in_mill_sec
Remaining == IF state = "CANCELLED" THEN Forever ELSE posix.value

PauseTimer ==
  /\ state # "PAUSED" /\ Call("PAUSED") /\ left' = Remaining /\ Arm(0, 0)
  /\ UNCHANGED <<counter, backoff, fired>>

ResumeTimer ==
  /\ state = "PAUSED" /\ Call("RESUMED")
  /\ Arm(IF left # 0 THEN left ELSE ExpTimer, SecExpTimer)
  /\ left' = 0 /\ UNCHANGED <<counter, backoff, fired>>

RestartTimer ==
  /\ Call("RUNNING") /\ Arm(ExpTimer, IF exponential THEN 0 ELSE SecExpTimer)
  /\ left' = 0 /\ counter' = 0 /\ backoff' = ExpTimer /\ fired' = 0

DeleteTimer ==
  /\ Call("DELETED") /\ posix' = [value |-> 0, interval |-> 0]
  /\ UNCHANGED <<ts, left, counter, backoff, fired>>

\* reschedule_timer keeps the invocation counter, except that of a timer that
\* is not started: cancel_timer has left it alone anyway.
RescheduleTo(first, later) ==
  /\ Arm(first, IF exponential THEN 0 ELSE later) /\ left' = 0
  /\ backoff' = IF exponential THEN first ELSE backoff
  /\ UNCHANGED <<counter, fired>>

RescheduleTimer(first, later) == Call("RUNNING") /\ RescheduleTo(first, later)

------------------------------------------------------------------------------
(* The kernel: a tick counts down, an expiry starts a wrapper *)

Tick ==
  /\ ~died /\ posix.value \in 1..(Forever - 1)
  /\ LET due == posix.value = 1
     IN /\ posix' = [posix EXCEPT !.value = IF due THEN posix.interval ELSE @ - 1]
        /\ IF due THEN \E t \in Threads : pc[t] = "idle" /\ pc' = [pc EXCEPT ![t] = "start"]
           ELSE UNCHANGED pc
        /\ raced' = (raced \/ (due /\ InFlight))
  /\ UNCHANGED <<exponential, state, ts, left, counter, backoff, calls, fired, died>>

------------------------------------------------------------------------------
(* timer_callback_wrapper *)

Goto(t, from, to) == ~died /\ pc[t] = from /\ pc' = [pc EXCEPT ![t] = to] /\ UNCHANGED <<exponential, calls>>

OverThreshold_equal(n) == Threshold # 0 /\ n > Threshold + 1  \* mutant: off by one
OverThreshold(n) == Threshold # 0 /\ n > Threshold

WrapperStart(t) ==
  /\ ~OverThreshold(counter + 1) /\ Goto(t, "start", "call") /\ counter' = counter + 1
  /\ UNCHANGED <<state, posix, ts, left, backoff, fired, raced, died>>

\* The limit is passed: cancel_timer, a no-op on a deleted timer
WrapperCancel(t) ==
  /\ OverThreshold(counter + 1) /\ Goto(t, "start", "idle")
  /\ IF state \in {"INIT", "DELETED"}
     THEN counter' = counter + 1 /\ UNCHANGED <<state, posix, ts, left, fired>>
     ELSE state' = "CANCELLED" /\ Arm(0, 0) /\ left' = 0 /\ counter' = 0 /\ fired' = 0
  /\ UNCHANGED <<backoff, raced, died>>

\* The callback, and the tests that follow it
WrapperCall(t) ==
  /\ Goto(t, "call", IF exponential \/ state = "RESUMED" THEN "again" ELSE "idle")
  /\ fired' = fired + 1
  /\ UNCHANGED <<state, posix, ts, left, counter, backoff, raced, died>>

WrapperReschedule(t) ==
  /\ exponential => 2 * backoff <= MaxBackoff
  /\ Goto(t, "again", "idle") /\ UNCHANGED raced
  /\ IF state = "DELETED"
     THEN died' = TRUE /\ UNCHANGED <<state, posix, ts, left, counter, backoff, fired>>
     ELSE /\ state' = "RUNNING" /\ UNCHANGED died
          /\ IF exponential THEN RescheduleTo(2 * backoff, 0) ELSE RescheduleTo(ExpTimer, SecExpTimer)

Next ==
  \/ StartTimer \/ CancelTimer \/ PauseTimer \/ ResumeTimer \/ RestartTimer \/ DeleteTimer
  \/ \E first \in {1, 2}, later \in {0, 1} : RescheduleTimer(first, later)
  \/ Tick
  \/ \E t \in Threads : WrapperStart(t)
  \/ \E t \in Threads : WrapperCancel(t)
  \/ \E t \in Threads : WrapperCall(t)
  \/ \E t \in Threads : WrapperReschedule(t)

Spec == Init /\ [][Next]_vars

------------------------------------------------------------------------------
(* Properties *)

\* As long as no call is made and no expiry comes while a wrapper runs: the state says
\* whether the kernel's timer is armed (a timer that is running is armed or
\* has fired for good), the callback is never called more often than the
\* threshold before it is cancelled, and the next expiry of a timer that backs off is
\* never further away than its back-off.
TimerSound ==
  ~raced =>
    /\ ~died
    /\ state \in {"INIT", "PAUSED", "CANCELLED", "DELETED"} /\ ~InFlight => posix.value = 0
    /\ state = "RESUMED" => posix.value # 0 \/ InFlight \/ SecExpTimer = 0
    /\ state = "RUNNING" /\ exponential /\ ~InFlight => posix.value \in 1..backoff
    /\ Threshold # 0 /\ state = "RUNNING" => fired <= Threshold
=============================================================================
