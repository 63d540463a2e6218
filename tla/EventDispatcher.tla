--------------------------- MODULE EventDispatcher ---------------------------
(***************************************************************************)
(* The event dispatcher: one dispatcher thread that runs every job of the  *)
(* simulator, and the threads that hand it work.                           *)
(*                                                                         *)
(*   Clis     CLI threads; each submits synchronous jobs and sleeps until  *)
(*            the job has run (task_create_new_job_synchronous).           *)
(*   Timers   timer threads; each creates one-shot jobs on expiry.         *)
(*   NetThreads  threads that receive packets from outside the process and *)
(*            put them on the packet queue (pkt_q_enqueue).                *)
(*                                                                         *)
(* A region between EV_DIS_LOCK and EV_DIS_UNLOCK (or the wait that        *)
(* releases the lock) is one step, since all it touches is protected by    *)
(* the lock.  What the code reads outside the lock is a step of its own.   *)
(* "broken" records that the task list or the heap has been corrupted      *)
(* (double insertion, failed assertion, free of a task in use): nothing is *)
(* modelled beyond that point.                                             *)
(***************************************************************************)
EXTENDS Naturals, Sequences, SequencesExt

CONSTANTS
  Jobs,        \* asynchronous one-shot task objects (bounds the heap)
  Clis,        \* CLI threads; a CLI thread also names its task object
  Timers,      \* timer threads
  NetThreads,  \* packet receiver threads
  Dispatcher,  \* the dispatcher thread
  PktTask,     \* the task object of the packet queue recvr_pkt_q
  NULL,
  MaxPkts,     \* bound on packets waiting in the packet queue
  MaxOps,      \* bound on the scheduler calls one callback makes
  MaxCancels,  \* bound on the cancellations of a behaviour
  Spurious     \* may pthread_cond_wait return without a signal?

ASSUME DispatcherAssumption ==
  /\ MaxPkts \in Nat /\ MaxOps \in Nat /\ MaxCancels \in Nat
  /\ Spurious \in BOOLEAN
  /\ NULL \notin Jobs \cup Clis \cup {PktTask}
  /\ PktTask \notin Jobs \cup Clis
  /\ Jobs \cap Clis = {}
  /\ Dispatcher \notin Clis \cup Timers \cup NetThreads
  /\ Clis \cap Timers = {} /\ Clis \cap NetThreads = {}
  /\ Timers \cap NetThreads = {}

VARIABLES
  taskq,       \* ev_dis.task_array_head, oldest first
  pending,     \* ev_dis.pending_task_count
  disState,    \* ev_dis.ev_dis_state
  signalSent,  \* ev_dis.signal_sent
  current,     \* ev_dis.current_task (dangling until the next dequeue)
  alloc,       \* task objects allocated and not yet freed
  again,       \* current->re_schedule
  pktq,        \* recvr_pkt_q.q_head: the number of packets waiting
  handle,      \* a job pointer the application keeps (lsp_pkt_gen_task)
  pc, arg,     \* per thread: where it is, the task it is scheduling
  ops,         \* scheduler calls the running callback may still make
  broken

sched == <<taskq, pending, disState, signalSent, current>>
heap  == <<alloc, again, handle>>
vars  == <<taskq, pending, disState, signalSent, current, alloc, again, pktq,
           handle, pc, arg, ops, broken>>

Threads == Clis \cup Timers \cup NetThreads \cup {Dispatcher}
Tasks   == Jobs \cup Clis \cup {PktTask}

Linked(k) == \E i \in DOMAIN taskq : taskq[i] = k

\* remove_glthread: the list without task k.
Unlink(k) == IF Linked(k) THEN RemoveAt(taskq, CHOOSE i \in DOMAIN taskq : taskq[i] = k)
             ELSE taskq

\* The task whose callback or post-call processing is under way.
InUse(k) == current = k /\ pc[Dispatcher] \in {"run", "post", "enq", "check", "assert", "add"}

Init ==
  /\ taskq = << >> /\ pending = 0 /\ disState = "IDLE" /\ signalSent = FALSE
  /\ current = NULL /\ alloc = {PktTask} /\ again = FALSE /\ pktq = 0
  /\ handle = NULL /\ ops = 0 /\ broken = FALSE
  /\ pc = [t \in Threads |-> IF t = Dispatcher THEN "fetch" ELSE "idle"]
  /\ arg = [t \in Threads |-> NULL]

Goto(t, l) == pc' = [pc EXCEPT ![t] = l]

\* Where a thread continues when event_dispatcher_schedule_task returns.
\* The dispatcher came from a callback (the task it adds is not the current
\* one, or the callback enqueued a packet) or from post-call processing.
Return(t) == IF t # Dispatcher THEN "idle" ELSE IF ops = 0 THEN "fetch" ELSE "run"

------------------------------------------------------------------------------
(* Scheduling a task: event_dispatcher_schedule_task *)

\* A new one-shot task is unlinked and known to no other thread, so the two
\* unlocked tests of its glue cannot fail: its creator goes on to the lock.
Create(t, j) ==
  /\ j \notin alloc
  /\ alloc' = alloc \cup {j}
  /\ arg' = [arg EXCEPT ![t] = j]
  /\ Goto(t, "add")

\* First unlocked test: a packet task that is queued already is left alone.
Check(t) ==
  /\ pc[t] = "check"
  /\ Goto(t, IF arg[t] = PktTask /\ Linked(PktTask) THEN Return(t) ELSE "assert")
  /\ UNCHANGED <<sched, heap, pktq, arg, ops, broken>>

\* Second unlocked test: assert(IS_GLTHREAD_LIST_EMPTY(&task->glue)).
AssertUnlinked(t) ==
  /\ pc[t] = "assert"
  /\ broken' = Linked(arg[t])
  /\ Goto(t, "add")
  /\ UNCHANGED <<sched, heap, pktq, arg, ops>>

\* pthread_cond_signal: wakes the thread if it waits, is lost otherwise.
Signal_lost(d) == pc[d]  \* mutant
Signal(d) == IF pc[d] = "wait" THEN "woken" ELSE pc[d]

\* The locked region.  A synchronous task then waits on its own condition.
Add(t) ==
  /\ pc[t] = "add"
  /\ LET next == IF t \in Clis THEN "wait" ELSE Return(t)
         wake == disState = "IDLE" /\ ~signalSent
     IN /\ signalSent' = (signalSent \/ wake)
        /\ pc' = [pc EXCEPT ![t] = next,
                            ![Dispatcher] = IF t = Dispatcher THEN next
                                            ELSE IF wake THEN Signal(Dispatcher) ELSE @]
  /\ broken' = Linked(arg[t])
  /\ taskq' = IF Linked(arg[t]) THEN taskq ELSE Append(taskq, arg[t])
  /\ pending' = pending + 1
  /\ UNCHANGED <<disState, current, heap, pktq, arg, ops>>

------------------------------------------------------------------------------
(* The packet queue: pkt_q_enqueue *)

Enqueue(t) ==
  /\ pktq < MaxPkts
  /\ pktq' = pktq + 1
  /\ arg' = [arg EXCEPT ![t] = PktTask]
  /\ Goto(t, "enq")

\* Under the dispatcher's lock: is the job scheduled to run already?
AlreadyScheduled_running == Linked(PktTask) \/ current = PktTask  \* mutant
AlreadyScheduled_negated == ~Linked(PktTask)                     \* mutant
AlreadyScheduled == Linked(PktTask)

EnqTest(t) ==
  /\ pc[t] = "enq"
  /\ Goto(t, IF AlreadyScheduled THEN Return(t) ELSE "check")
  /\ UNCHANGED <<sched, heap, pktq, arg, ops, broken>>

------------------------------------------------------------------------------
(* Timer, network and CLI threads *)

TimerFire(t) ==
  /\ t \in Timers /\ pc[t] = "idle"
  /\ \E j \in Jobs : Create(t, j)
  /\ UNCHANGED <<sched, again, handle, pktq, ops, broken>>

NetReceive(t) ==
  /\ t \in NetThreads /\ pc[t] = "idle"
  /\ Enqueue(t)
  /\ UNCHANGED <<sched, heap, ops, broken>>

CliSubmit(t) ==
  /\ t \in Clis /\ pc[t] = "idle"
  /\ Create(t, t)
  /\ UNCHANGED <<sched, again, handle, pktq, ops, broken>>

CliSpuriousWake(t) ==
  /\ Spurious
  /\ t \in Clis /\ pc[t] = "wait"
  /\ Goto(t, "woken")
  /\ UNCHANGED <<sched, heap, pktq, arg, ops, broken>>

\* "Task finished, free now": the task is freed without looking at its state.
CliFree(t) ==
  /\ t \in Clis /\ pc[t] = "woken"
  /\ broken' = (Linked(t) \/ InUse(t))
  /\ alloc' = alloc \ {t}
  /\ arg' = [arg EXCEPT ![t] = NULL]
  /\ Goto(t, "idle")
  /\ UNCHANGED <<sched, again, handle, pktq, ops>>

------------------------------------------------------------------------------
(* The dispatcher thread: event_dispatcher_thread *)

\* A job the application can cancel forgets its handle when it starts.
ForgetHandle_kept(k) == handle' = handle  \* mutant
ForgetHandle(k) == handle' = IF handle = k THEN NULL ELSE handle

Dispatch ==
  /\ pc[Dispatcher] = "fetch" /\ taskq # << >>
  /\ taskq' = Tail(taskq)
  /\ pending' = pending - 1
  /\ current' = Head(taskq)
  /\ disState' = "TASK_FIN_WAIT"
  /\ ForgetHandle(Head(taskq))
  /\ ops' = MaxOps + 1
  /\ Goto(Dispatcher, "run")
  /\ UNCHANGED <<signalSent, alloc, again, pktq, arg, broken>>

Sleep_signalKept ==  \* mutant: signal_sent is not reset
  /\ pc[Dispatcher] = "fetch" /\ taskq = << >>
  /\ current' = NULL
  /\ disState' = "IDLE"
  /\ Goto(Dispatcher, "wait")
  /\ UNCHANGED <<signalSent, taskq, pending, heap, pktq, arg, ops, broken>>

Sleep ==
  /\ pc[Dispatcher] = "fetch" /\ taskq = << >>
  /\ current' = NULL
  /\ disState' = "IDLE" /\ signalSent' = FALSE
  /\ Goto(Dispatcher, "wait")
  /\ UNCHANGED <<taskq, pending, heap, pktq, arg, ops, broken>>

Wake ==
  /\ pc[Dispatcher] = "woken" \/ (Spurious /\ pc[Dispatcher] = "wait")
  /\ Goto(Dispatcher, "fetch")
  /\ UNCHANGED <<sched, heap, pktq, arg, ops, broken>>

------------------------------------------------------------------------------
(* What a callback does to the scheduler, and its return *)

InCallback == pc[Dispatcher] = "run"

\* Calls left; the last unit of "ops" is the callback's own return.
MayCall == InCallback /\ ops > 1 /\ ops' = ops - 1

\* A callback creates a job, keeping a pointer to it or not.
CbCreate ==
  /\ MayCall
  /\ \E j \in Jobs :
       /\ Create(Dispatcher, j)
       /\ handle' \in IF handle = NULL THEN {j, NULL} ELSE {handle}
  /\ UNCHANGED <<sched, again, pktq, broken>>

\* A callback cancels the job it holds a pointer to (task_cancel_job);
\* pending_task_count is left as it is.
CbCancel ==
  /\ MayCall /\ handle # NULL
  /\ pending < Len(taskq) + MaxCancels
  /\ broken' = (current = handle)
  /\ taskq' = Unlink(handle)
  /\ alloc' = alloc \ {handle}
  /\ handle' = NULL
  /\ UNCHANGED <<pending, disState, signalSent, current, again, pktq, pc, arg>>

CbSendPkt ==
  /\ MayCall
  /\ Enqueue(Dispatcher)
  /\ UNCHANGED <<sched, heap, broken>>

\* task_schedule_again(NULL)
CbScheduleAgain ==
  /\ MayCall /\ current \in Jobs
  /\ again' = TRUE
  /\ UNCHANGED <<sched, alloc, handle, pktq, pc, arg, broken>>

\* task_get_next_pkt, called by the packet task until the queue is empty.
CbTakePkt_unguarded ==  \* mutant: no test for an empty queue
  /\ InCallback /\ current = PktTask
  /\ pktq' = pktq - 1
  /\ UNCHANGED <<sched, heap, pc, arg, ops, broken>>

CbTakePkt ==
  /\ InCallback /\ current = PktTask /\ pktq > 0
  /\ pktq' = pktq - 1
  /\ UNCHANGED <<sched, heap, pc, arg, ops, broken>>

CbReturn ==
  /\ InCallback
  /\ current = PktTask => pktq = 0
  /\ ops' = 0
  /\ Goto(Dispatcher, "post")
  /\ UNCHANGED <<sched, heap, pktq, arg, broken>>

(* eve_dis_process_task_post_call, by type of task *)

FreeOneShot_always(k) == alloc' = alloc \ {k}  \* mutant
FreeOneShot(k) == alloc' = IF again THEN alloc ELSE alloc \ {k}

PostOneShot ==
  /\ pc[Dispatcher] = "post" /\ current \in Jobs
  /\ again' = FALSE
  /\ FreeOneShot(current)
  /\ arg' = [arg EXCEPT ![Dispatcher] = current]
  /\ Goto(Dispatcher, IF again THEN "check" ELSE "fetch")
  /\ UNCHANGED <<sched, handle, pktq, ops, broken>>

PostSync_rerun ==  \* mutant: the caller is woken, then the task is listed again
  /\ pc[Dispatcher] = "post" /\ current \in Clis
  /\ arg' = [arg EXCEPT ![Dispatcher] = current]
  /\ pc' = [pc EXCEPT ![current] = Signal(current), ![Dispatcher] = "check"]
  /\ UNCHANGED <<sched, heap, pktq, ops, broken>>

PostSync ==
  /\ pc[Dispatcher] = "post" /\ current \in Clis
  /\ pc' = [pc EXCEPT ![current] = Signal(current), ![Dispatcher] = "fetch"]
  /\ UNCHANGED <<sched, heap, pktq, arg, ops, broken>>

PostPktTask ==
  /\ pc[Dispatcher] = "post" /\ current = PktTask
  /\ arg' = [arg EXCEPT ![Dispatcher] = PktTask]
  /\ Goto(Dispatcher, IF pktq = 0 THEN "fetch" ELSE "check")
  /\ UNCHANGED <<sched, heap, pktq, ops, broken>>

------------------------------------------------------------------------------
DispatcherStep ==
  \/ Dispatch \/ Sleep \/ Wake
  \/ CbCreate \/ CbCancel \/ CbSendPkt \/ CbScheduleAgain \/ CbTakePkt \/ CbReturn
  \/ PostOneShot \/ PostSync \/ PostPktTask

ThreadStep(t) ==
  \/ Check(t) \/ AssertUnlinked(t) \/ Add(t) \/ EnqTest(t)
  \/ TimerFire(t) \/ NetReceive(t)
  \/ CliSubmit(t) \/ CliSpuriousWake(t) \/ CliFree(t)

Next == ~broken /\ (DispatcherStep \/ \E t \in Threads : ThreadStep(t))

Spec == Init /\ [][Next]_vars

\* Threads that can run are scheduled; a callback returns after finitely many
\* calls.  Nothing obliges a timer, the network or a user to act.
Fairness ==
  /\ WF_vars(~broken /\ DispatcherStep)
  /\ \A t \in Threads : WF_vars(~broken /\ (Check(t) \/ AssertUnlinked(t) \/ Add(t)
                                           \/ EnqTest(t) \/ CliFree(t)))

FairSpec == Spec /\ Fairness

------------------------------------------------------------------------------
(* Properties *)

DispatcherPc == {"fetch", "wait", "woken", "run", "post", "enq", "check", "assert", "add"}
ThreadPc     == {"idle", "add", "wait", "woken", "enq", "check", "assert"}

TypeOK ==
  /\ taskq \in Seq(Tasks) /\ pending \in Nat
  /\ disState \in {"IDLE", "TASK_FIN_WAIT"} /\ signalSent \in BOOLEAN
  /\ current \in Tasks \cup {NULL}
  /\ alloc \subseteq Tasks /\ again \in BOOLEAN /\ pktq \in 0..MaxPkts
  /\ handle \in Jobs \cup {NULL} /\ ops \in 0..(MaxOps + 1)
  /\ arg \in [Threads -> Tasks \cup {NULL}]
  /\ pc \in [Threads -> DispatcherPc \cup ThreadPc]
  /\ pc[Dispatcher] \in DispatcherPc
  /\ \A t \in Threads \ {Dispatcher} : pc[t] \in ThreadPc
  /\ broken \in BOOLEAN

\* The task list and the heap stay intact: no task is inserted twice, no
\* scheduling assertion fails, no task is freed while listed or running.
Intact == ~broken

\* Every task on the list, running, or about to be added is allocated, so the
\* dispatcher never runs a freed task; a listed task is listed once, and the
\* task that runs is off the list, but for the packet task queued anew.
TasksSound ==
  ~broken =>
    /\ \A i \in DOMAIN taskq : taskq[i] \in alloc
    /\ \A i, j \in DOMAIN taskq : taskq[i] = taskq[j] => i = j
    /\ \A k \in Tasks : InUse(k) => k \in alloc /\ (k # PktTask => ~Linked(k))
    /\ pending >= Len(taskq)

\* The dispatcher never sleeps while a task waits on its list: signal_sent and
\* ev_dis_state suppress only signals that are not needed.
NoLostWakeup == pc[Dispatcher] = "wait" => taskq = << >>

\* Thread t is between the enqueue of a packet and the decision that the
\* packet task is, or need not be, put on the list.
Enqueuing(t) == pc[t] \in {"enq", "check", "assert", "add"} /\ arg[t] = PktTask

\* A packet never lies in the queue with nobody to look at it: the packet task
\* is listed, or runs and looks at the queue again, or a thread that enqueued
\* a packet is about to list it.
NoStrandedPacket ==
  pktq > 0 => \/ Linked(PktTask)
              \/ InUse(PktTask)
              \/ \E t \in Threads : Enqueuing(t)

\* The pointer the application keeps to a job it may cancel is never dangling:
\* the job is listed, or the dispatcher is about to list it, and does not run.
HandleSound ==
  handle # NULL =>
    /\ handle \in alloc /\ current # handle
    /\ Linked(handle) \/ (pc[Dispatcher] = "add" /\ arg[Dispatcher] = handle)

\* A synchronous call returns after its job has run: the CLI thread is awake
\* only when the dispatcher is done with its task.
SyncDone == \A c \in Clis : pc[c] = "woken" => ~Linked(c) /\ ~InUse(c)

\* Every synchronous call returns.
SyncReturns == \A c \in Clis : pc[c] = "wait" ~> pc[c] = "idle"

\* Every listed job is run or cancelled.
JobsRun == \A j \in Jobs : Linked(j) ~> ~Linked(j)

\* Packets in the queue are taken by the packet task.
PacketsServed == pktq > 0 ~> pc[Dispatcher] = "run" /\ current = PktTask
==============================================================================
