----------------------------- MODULE WheelTimer -----------------------------
(***************************************************************************)
(* The timing wheel: the wheel thread, which advances the clock, fires the *)
(* elements of the current slot and then processes the reschedule list,    *)
(* and the application (callbacks on the dispatcher thread), which         *)
(* registers, reschedules and deregisters elements.                        *)
(*                                                                         *)
(* The application writes opcode and new_time_interval of an element       *)
(* before it takes the lock of the reschedule list; the wheel thread reads *)
(* and writes them holding that lock.  These accesses are steps of their   *)
(* own.  "overlap", chosen at the start, says whether the application's    *)
(* calls and the wheel thread's ticks overlap in time; in the program they *)
(* may, and what holds only when they happen not to is stated so.          *)
(* Time is counted in ticks: an interval stands for interval / tick.       *)
(***************************************************************************)
EXTENDS Naturals, Sequences, SequencesExt, FiniteSets

CONSTANTS
  Elems,      \* timer elements; an element is not used again once freed
  WheelSize,  \* wt->wheel_size
  Intervals,  \* the intervals requested, in ticks
  MaxCycle,   \* bound on current_cycle_no, per mode
  MaxJobs,    \* bound on timer jobs waiting for the dispatcher
  Modes       \* may calls and ticks overlap? The values of overlap considered

ASSUME WheelAssumption ==
  /\ WheelSize \in Nat \ {0} /\ Intervals \subseteq Nat \ {0}
  /\ Modes \subseteq BOOLEAN /\ MaxCycle \in [Modes -> Nat] /\ MaxJobs \in Nat

VARIABLES
  tic,      \* wt->current_clock_tic
  cycle,    \* wt->current_cycle_no
  slots,    \* wt->slotlist: per slot, the elements linked there, in order
  resched,  \* wt->reschd_list, first element first
  life,     \* per element: "new", "live", "closed" (deregistered), "freed"
  rec,      \* is_recurrence
  op,       \* opcode
  iv, newIv,  \* time_interval, new_time_interval
  cyc, slotNo,  \* execute_cycle_no, slot_no
  wpc, hand, seen,  \* wheel thread: where it is, elements left, opcode read
  apc, call,        \* application: where it is, the call it makes
  jobs,     \* the elements of the tasks created by the wheel, oldest first
  broken,   \* "no", "assert" (assertion failed) or "uaf" (freed memory used)
  overlap   \* see above; it does not change

clock   == <<tic, cycle>>
element == <<life, rec, op, iv, newIv, cyc, slotNo>>
wheel   == <<wpc, hand, seen>>
vars    == <<tic, cycle, slots, resched, life, rec, op, iv, newIv, cyc, slotNo,
             wpc, hand, seen, apc, call, jobs, broken, overlap>>

Slots == 0 .. (WheelSize - 1)
NoCall == [elem |-> "none", op |-> "none", iv |-> 0]

\* GET_WT_CURRENT_ABS_SLOT_NO
AbsNow == cycle * WheelSize + tic
AbsDue(e) == cyc[e] * WheelSize + slotNo[e]

InSlot(e) == \E s \in Slots : e \in ToSet(slots[s])
Listed(e) == e \in ToSet(resched)

Init ==
  /\ tic = 0 /\ cycle = 0
  /\ slots = [s \in Slots |-> << >>] /\ resched = << >>
  /\ life = [e \in Elems |-> "new"] /\ rec \in [Elems -> BOOLEAN]
  /\ op = [e \in Elems |-> "CREATE"]
  /\ iv = [e \in Elems |-> 0] /\ newIv = [e \in Elems |-> 0]
  /\ cyc = [e \in Elems |-> 0] /\ slotNo = [e \in Elems |-> 0]
  /\ wpc = "idle" /\ hand = << >> /\ seen = "none"
  /\ apc = "idle" /\ call = NoCall /\ jobs = << >> /\ broken = "no"
  /\ overlap \in Modes

------------------------------------------------------------------------------
(* The application: _timer_reschedule and its callers *)

Begin(e, o, i) ==
  /\ apc = "idle" /\ (overlap \/ wpc = "idle")
  /\ apc' = "writeOp" /\ call' = [elem |-> e, op |-> o, iv |-> i]
  /\ UNCHANGED <<clock, slots, resched, rec, op, iv, newIv, cyc, slotNo, wheel,
                 jobs, broken>>

\* timer_register_app_event
Register(e) ==
  /\ life[e] = "new"
  /\ \E i \in Intervals : Begin(e, "CREATE", i)
  /\ life' = [life EXCEPT ![e] = "live"]

\* timer_reschedule; the interval is not zero and a multiple of the tick
Reschedule(e) ==
  /\ life[e] = "live"
  /\ \E i \in Intervals : Begin(e, "RESCHED", i)
  /\ UNCHANGED life

\* timer_de_register_app_event
Deregister(e) ==
  /\ life[e] = "live"
  /\ Begin(e, "DELETE", 0)
  /\ life' = [life EXCEPT ![e] = "closed"]

WriteOp ==
  /\ apc = "writeOp" /\ apc' = "writeIv"
  /\ op' = [op EXCEPT ![call.elem] = call.op]
  /\ UNCHANGED <<clock, slots, resched, life, rec, iv, newIv, cyc, slotNo,
                 wheel, call, jobs, broken>>

WriteInterval ==
  /\ apc = "writeIv" /\ apc' = "link"
  /\ newIv' = [newIv EXCEPT ![call.elem] = call.iv]
  /\ UNCHANGED <<clock, slots, resched, life, rec, op, iv, cyc, slotNo,
                 wheel, call, jobs, broken>>

\* Under the lock of the reschedule list: to the front of the list.
ToFront(q, e) == <<e>> \o RemoveFirst(q, e)

Link ==
  /\ apc = "link" /\ wpc \notin {"list", "apply"}
  /\ broken' = IF life[call.elem] = "freed" THEN "uaf" ELSE broken
  /\ resched' = ToFront(resched, call.elem)
  /\ apc' = "idle" /\ call' = NoCall
  /\ UNCHANGED <<clock, slots, element, wheel, jobs>>

\* The dispatcher runs the oldest timer job.
RunJob ==
  /\ jobs # << >> /\ apc = "idle"
  /\ jobs' = Tail(jobs)
  /\ UNCHANGED <<clock, slots, resched, element, wheel, apc, call, broken>>

------------------------------------------------------------------------------
(* The wheel thread *)

\* insert_wt_elem_in_slot: glthread_priority_insert by execute_cycle_no
Place(q, c, e) ==
  LET later == {i \in DOMAIN q : c[q[i]] > c[e]}
  IN IF later = {} THEN Append(q, e)
     ELSE InsertAt(q, CHOOSE i \in later : \A j \in later : i <= j, e)

\* The slot in which an element with interval i is placed, now being n.
SlotFor_relative(n, i) == i % WheelSize  \* mutant: counted from slot 0
SlotFor_unwrapped(n, i) == n + i  \* mutant
CycleFor(n, i) == (n + i) \div WheelSize
SlotFor(n, i) == (n + i) % WheelSize

Unslot(e) == [s \in Slots |-> RemoveFirst(slots[s], e)]

\* e leaves its slot and is placed in the slot where it is due, i ticks from now.
Arm(e, i) ==
  /\ cyc' = [cyc EXCEPT ![e] = CycleFor(AbsNow, i)]
  /\ slotNo' = [slotNo EXCEPT ![e] = SlotFor(AbsNow, i)]
  /\ slots' = [Unslot(e) EXCEPT ![slotNo'[e]] = Place(@, cyc', e)]

NextTic(t) == IF t + 1 = WheelSize THEN 0 ELSE t + 1
NextCycle(t, c) == IF t + 1 = WheelSize THEN c + 1 ELSE c

\* wheel_fn advances the clock and starts its walk over the current slot.
Tick ==
  /\ wpc = "idle" /\ (overlap \/ apc = "idle")
  /\ cycle < MaxCycle[overlap]
  /\ tic' = NextTic(tic) /\ cycle' = NextCycle(tic, cycle)
  /\ wpc' = "walk"
  /\ UNCHANGED <<slots, resched, element, hand, seen, apc, call, jobs, broken>>

\* The walk goes on while the first element of the slot is of this cycle.
DueNow == slots[tic] # << >> /\ cyc[Head(slots[tic])] = cycle

\* An element that recurs is placed again, another one is not.
Refire_once(e) == slots' = Unslot(e) /\ UNCHANGED <<cyc, slotNo>>  \* mutant
Refire(e) == IF rec[e] THEN Arm(e, iv[e])
             ELSE slots' = Unslot(e) /\ UNCHANGED <<cyc, slotNo>>

Fire ==
  /\ wpc = "walk" /\ DueNow /\ Len(jobs) < MaxJobs
  /\ jobs' = Append(jobs, Head(slots[tic]))
  /\ Refire(Head(slots[tic]))
  /\ UNCHANGED <<clock, resched, life, rec, op, iv, newIv, wheel, apc, call, broken>>

\* After the walk, process_wt_reschedule_slotlist takes the lock and starts
\* its iteration.
LockList ==
  /\ wpc = "walk" /\ ~DueNow
  /\ hand' = resched
  /\ wpc' = IF resched = << >> THEN "idle" ELSE "list"
  /\ UNCHANGED <<clock, slots, resched, element, seen, apc, call, jobs, broken>>

ReadOp ==
  /\ wpc = "list" /\ wpc' = "apply"
  /\ seen' = op[Head(hand)]
  /\ UNCHANGED <<clock, slots, resched, element, hand, apc, call, jobs, broken>>

Advance == /\ hand' = Tail(hand)
           /\ wpc' = IF Tail(hand) = << >> THEN "idle" ELSE "list"
           /\ seen' = "none"
           /\ UNCHANGED <<clock, rec, newIv, apc, call, jobs>>

ApplyArm ==
  /\ wpc = "apply" /\ seen \in {"CREATE", "RESCHED"}
  /\ LET e == Head(hand)
         i == newIv[e]
     IN /\ broken' = IF i = 0 THEN "assert" ELSE broken
        /\ iv' = [iv EXCEPT ![e] = i]
        /\ Arm(e, i)
        /\ resched' = RemoveFirst(resched, e)
        /\ op' = [op EXCEPT ![e] = "SCHEDULED"]
  /\ Advance /\ UNCHANGED life

ApplyDelete ==
  /\ wpc = "apply" /\ seen = "DELETE"
  /\ LET e == Head(hand)
     IN /\ slots' = Unslot(e)
        /\ resched' = RemoveFirst(resched, e)
        /\ life' = [life EXCEPT ![e] = "freed"]
  /\ Advance /\ UNCHANGED <<op, iv, cyc, slotNo, broken>>

\* An opcode overwritten meanwhile: out of its slot, left on the list.
ApplyScheduled ==
  /\ wpc = "apply" /\ seen = "SCHEDULED"
  /\ slots' = Unslot(Head(hand))
  /\ Advance
  /\ UNCHANGED <<resched, life, op, iv, cyc, slotNo, broken>>

------------------------------------------------------------------------------
Application == \/ \E e \in Elems : Register(e) \/ Reschedule(e) \/ Deregister(e)
               \/ WriteOp \/ WriteInterval \/ Link \/ RunJob
WheelThread == \/ Tick \/ Fire \/ LockList \/ ReadOp
               \/ ApplyArm \/ ApplyDelete \/ ApplyScheduled

Next == broken = "no" /\ (Application \/ WheelThread) /\ UNCHANGED overlap
Spec == Init /\ [][Next]_vars

------------------------------------------------------------------------------
(* Properties *)

TypeOK ==
  /\ tic \in Slots /\ cycle \in 0..MaxCycle[overlap]
  /\ slots \in [Slots -> Seq(Elems)] /\ resched \in Seq(Elems)
  /\ life \in [Elems -> {"new", "live", "closed", "freed"}] /\ rec \in [Elems -> BOOLEAN]
  /\ op \in [Elems -> {"CREATE", "RESCHED", "DELETE", "SCHEDULED"}]
  /\ iv \in [Elems -> Nat] /\ newIv \in [Elems -> Nat]
  /\ cyc \in [Elems -> Nat] /\ slotNo \in [Elems -> Slots]
  /\ wpc \in {"idle", "walk", "list", "apply"} /\ hand \in Seq(Elems)
  /\ apc \in {"idle", "writeOp", "writeIv", "link"} /\ jobs \in Seq(Elems)
  /\ broken \in {"no", "assert", "uaf"} /\ overlap \in Modes

\* The walk over the current slot has not come to e yet, which is due now.
Pending(e) == wpc = "walk" /\ InSlot(e) /\ AbsDue(e) = AbsNow

\* No timer is missed: the elements of a slot are due there, in the future (or
\* now, until the walk comes to them), in the order of their cycles, so that
\* stopping at the first element of a later cycle skips nothing.
NothingOverdue ==
  broken = "no" =>
    \A s \in Slots : \A i \in DOMAIN slots[s] :
      /\ slotNo[slots[s][i]] = s
      /\ AbsDue(slots[s][i]) > AbsNow \/ Pending(slots[s][i])
      /\ \A j \in 1..(i - 1) : cyc[slots[s][j]] <= cyc[slots[s][i]]

\* Links are sound: an element is linked in one place of one slot and once in
\* the reschedule list, and no list holds freed memory.
LinksSound ==
  broken = "no" =>
    /\ \A s, t \in Slots : \A i \in DOMAIN slots[s], j \in DOMAIN slots[t] :
         slots[s][i] = slots[t][j] => s = t /\ i = j
    /\ \A i, j \in DOMAIN resched : resched[i] = resched[j] => i = j
    /\ \A e \in Elems : InSlot(e) \/ Listed(e) => life[e] \in {"live", "closed"}

\* No timer is lost: between calls, a live recurring element is armed or its
\* request is listed with an opcode that will arm it; a deregistered element
\* is listed for deletion until it is freed.  (When calls and ticks overlap, an
\* opcode is overwritten by "SCHEDULED" and the request is lost.)
NoLostTimer ==
  ~overlap => \A e \in Elems : call.elem # e /\ broken = "no" =>
    /\ life[e] = "live" /\ rec[e] => \/ InSlot(e)
                                     \/ Listed(e) /\ op[e] \in {"CREATE", "RESCHED"}
    /\ life[e] = "closed" => Listed(e) /\ op[e] = "DELETE"
    /\ Listed(e) => op[e] # "SCHEDULED"

\* wt_get_remaining_time, in ticks
Remaining(e) == IF op[e] \in {"CREATE", "RESCHED"} THEN newIv[e] ELSE AbsDue(e) - AbsNow

\* The remaining time reported for an armed element lies between one tick and
\* the interval it was last armed with, unless it is firing now.
RemainingSound ==
  broken = "no" =>
    \A e \in Elems : InSlot(e) /\ op[e] = "SCHEDULED" =>
      Remaining(e) \in 1..iv[e] \/ (Pending(e) /\ Remaining(e) = 0)

\* The wheel is sound: nothing is missed, linked twice or lost.
WheelSound == NothingOverdue /\ LinksSound /\ NoLostTimer /\ RemainingSound

\* The assertions of process_wt_reschedule_slotlist hold.
AssertsHold == broken # "assert"

\* The wheel implements countdown timers when calls and ticks do not overlap.
\* An element that is due counts as fired from the tick on.
Left(e) == IF ~InSlot(e) THEN 0
           ELSE IF ~Pending(e) THEN AbsDue(e) - AbsNow
           ELSE IF rec[e] THEN iv[e] ELSE 0
Ask(e) == IF ~Listed(e) THEN "none" ELSE IF op[e] = "DELETE" THEN "delete" ELSE "arm"
AskIv(e) == IF Ask(e) = "arm" THEN newIv[e] ELSE 0
Fired(e) == Cardinality({i \in DOMAIN jobs : jobs[i] = e}) + (IF Pending(e) THEN 1 ELSE 0)
Mapped(value, default) == [e \in Elems |-> IF overlap THEN default ELSE value[e]]
Service == INSTANCE TimerService WITH
  life <- Mapped(life, "new"),
  left <- Mapped([e \in Elems |-> Left(e)], 0),
  period <- Mapped(iv, 0),
  ask <- Mapped([e \in Elems |-> Ask(e)], "none"),
  askIv <- Mapped([e \in Elems |-> AskIv(e)], 0),
  jobs <- Mapped([e \in Elems |-> Fired(e)], 0)

ImplementsService == Service!Spec
==============================================================================
