----------------------------- MODULE TimerService -----------------------------
(***************************************************************************)
(* What the wheel timer promises: a set of countdown timers.  A request    *)
(* (arm with an interval, or delete) replaces the one before it and takes  *)
(* effect when it is applied.  An armed timer fires when its interval has  *)
(* passed, tick for tick, never early, late or twice; firing puts one job  *)
(* for the application on the dispatcher's queue.                          *)
(***************************************************************************)
EXTENDS Naturals

CONSTANTS
  Elems,      \* timer elements
  Intervals   \* intervals, in clock ticks; positive

VARIABLES
  life,     \* per timer: "new", "live", "closed" (deregistered), "freed"
  rec,      \* does it fire again after firing?
  left,     \* ticks until it fires; 0 when it is not armed
  period,   \* the interval it was last armed with
  ask,      \* the request not yet applied: "none", "arm" or "delete"
  askIv,    \* the interval requested by "arm", else 0
  jobs      \* fired, and not yet run, jobs of the timer

vars == <<life, rec, left, period, ask, askIv, jobs>>

Init ==
  /\ life = [e \in Elems |-> "new"]
  /\ rec \in [Elems -> BOOLEAN]
  /\ left = [e \in Elems |-> 0]
  /\ period = [e \in Elems |-> 0]
  /\ ask = [e \in Elems |-> "none"] /\ askIv = [e \in Elems |-> 0]
  /\ jobs = [e \in Elems |-> 0]

Open(e) ==
  /\ life[e] = "new"
  /\ life' = [life EXCEPT ![e] = "live"]
  /\ UNCHANGED <<rec, left, period, ask, askIv, jobs>>

Close(e) ==
  /\ life[e] = "live"
  /\ life' = [life EXCEPT ![e] = "closed"]
  /\ UNCHANGED <<rec, left, period, ask, askIv, jobs>>

AskArm(e, i) ==
  /\ life[e] = "live"
  /\ ask' = [ask EXCEPT ![e] = "arm"] /\ askIv' = [askIv EXCEPT ![e] = i]
  /\ UNCHANGED <<life, rec, left, period, jobs>>

AskDelete(e) ==
  /\ life[e] = "closed"
  /\ ask' = [ask EXCEPT ![e] = "delete"] /\ askIv' = [askIv EXCEPT ![e] = 0]
  /\ UNCHANGED <<life, rec, left, period, jobs>>

Arm(e) ==
  /\ ask[e] = "arm"
  /\ left' = [left EXCEPT ![e] = askIv[e]]
  /\ period' = [period EXCEPT ![e] = askIv[e]]
  /\ ask' = [ask EXCEPT ![e] = "none"] /\ askIv' = [askIv EXCEPT ![e] = 0]
  /\ UNCHANGED <<life, rec, jobs>>

Delete(e) ==
  /\ ask[e] = "delete"
  /\ left' = [left EXCEPT ![e] = 0]
  /\ ask' = [ask EXCEPT ![e] = "none"] /\ askIv' = [askIv EXCEPT ![e] = 0]
  /\ life' = [life EXCEPT ![e] = "freed"]
  /\ UNCHANGED <<rec, period, jobs>>

\* One clock tick: every armed timer counts down, and fires at the end.
Tick ==
  /\ left' = [e \in Elems |-> IF left[e] > 1 THEN left[e] - 1
                              ELSE IF left[e] = 1 /\ rec[e] THEN period[e] ELSE 0]
  /\ jobs' = [e \in Elems |-> IF left[e] = 1 THEN jobs[e] + 1 ELSE jobs[e]]
  /\ UNCHANGED <<life, rec, period, ask, askIv>>

Run(e) ==
  /\ jobs[e] > 0
  /\ jobs' = [jobs EXCEPT ![e] = @ - 1]
  /\ UNCHANGED <<life, rec, left, period, ask, askIv>>

Next ==
  \/ Tick
  \/ \E e \in Elems :
       \/ Open(e) \/ Close(e) \/ AskDelete(e)
       \/ \E i \in Intervals : AskArm(e, i)
       \/ Arm(e) \/ Delete(e) \/ Run(e)

Spec == Init /\ [][Next]_vars
==============================================================================
