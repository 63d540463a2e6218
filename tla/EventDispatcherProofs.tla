------------------------ MODULE EventDispatcherProofs ------------------------
(***************************************************************************)
(* Proofs about the event dispatcher, for any number of jobs, CLI threads, *)
(* timer threads and receiver threads, with or without spurious wake-ups.  *)
(***************************************************************************)
EXTENDS EventDispatcher, ListLemmas

(* Lists *)

\* Cancelling a task takes nothing else off the list.
LEMMA UnlinkProperties ==
  ASSUME taskq \in Seq(Tasks), NEW k
  PROVE  /\ Unlink(k) \in Seq(Tasks)
         /\ Len(Unlink(k)) <= Len(taskq)
         /\ \A j \in Tasks : j # k /\ Linked(j) =>
              \E i \in DOMAIN Unlink(k) : Unlink(k)[i] = j
  <1>1. CASE ~Linked(k)
    BY <1>1, LenProperties DEF Unlink, Linked
  <1>2. CASE Linked(k)
    <2> DEFINE i == CHOOSE i \in DOMAIN taskq : taskq[i] = k
    <2>1. i \in 1..Len(taskq) /\ taskq[i] = k
      BY <1>2, LenProperties DEF Linked
    <2>2. Unlink(k) = RemoveAt(taskq, i)
      BY <1>2 DEF Unlink
    <2> HIDE DEF i
    <2>3. /\ RemoveAt(taskq, i) \in Seq(Tasks)
          /\ Len(RemoveAt(taskq, i)) = Len(taskq) - 1
          /\ \A j \in 1..(Len(taskq) - 1) :
               RemoveAt(taskq, i)[j] = IF j < i THEN taskq[j] ELSE taskq[j + 1]
      BY <2>1, RemoveAtProperties
    <2>4. ASSUME NEW j \in Tasks, j # k, Linked(j)
          PROVE  \E m \in DOMAIN Unlink(k) : Unlink(k)[m] = j
      <3>1. PICK m \in 1..Len(taskq) : taskq[m] = j
        BY <2>4, LenProperties DEF Linked
      <3>2. m # i
        BY <2>1, <2>4, <3>1
      <3>3. DOMAIN Unlink(k) = 1..(Len(taskq) - 1)
        BY <2>2, <2>3, LenProperties
      <3>4. CASE m < i
        BY <2>1, <2>2, <2>3, <3>1, <3>3, <3>4, LenProperties
      <3>5. CASE m > i
        <4>1. m - 1 \in 1..(Len(taskq) - 1) /\ ~(m - 1 < i) /\ (m - 1) + 1 = m
          BY <2>1, <3>1, <3>5, LenProperties
        <4> QED BY <2>2, <2>3, <3>1, <3>3, <4>1
      <3> QED BY <2>1, <3>1, <3>2, <3>4, <3>5, LenProperties
    <2> QED BY <2>2, <2>3, <2>4, LenProperties
  <1> QED BY <1>1, <1>2

------------------------------------------------------------------------------
(* Types *)

\* pending_task_count does not go below the length of the list, so that the
\* decrement of a dispatch does not wrap; a thread that is scheduling has a
\* task to schedule.
Scheduling(t) == pc[t] \in {"enq", "check", "assert", "add"}
TypeInv == /\ TypeOK
           /\ pending >= Len(taskq)
           /\ \A t \in Threads : Scheduling(t) => arg[t] \in Tasks

LEMMA ThreadKinds ==
  /\ Dispatcher \in Threads /\ Clis \subseteq Threads
  /\ Timers \subseteq Threads /\ NetThreads \subseteq Threads
  /\ Dispatcher \notin Clis
  BY DispatcherAssumption DEF Threads

LEMMA TypeInit == Init => TypeInv
  <1> SUFFICES ASSUME Init PROVE TypeInv
    OBVIOUS
  <1>1. taskq \in Seq(Tasks) /\ pending >= Len(taskq) /\ pending \in Nat
    BY EmptySeq DEF Init
  <1>2. alloc \subseteq Tasks
    BY DEF Init, Tasks
  <1>3. ops \in 0..(MaxOps + 1) /\ pktq \in 0..MaxPkts
    BY DispatcherAssumption DEF Init
  <1>4. /\ pc \in [Threads -> DispatcherPc \cup ThreadPc]
        /\ pc[Dispatcher] \in DispatcherPc
        /\ \A t \in Threads \ {Dispatcher} : pc[t] \in ThreadPc
    BY ThreadKinds DEF Init, DispatcherPc, ThreadPc
  <1> QED BY <1>1, <1>2, <1>3, <1>4 DEF Init, TypeInv, TypeOK, Scheduling

\* The steps of scheduling a task, whichever thread takes them.
LEMMA TypeSchedule ==
  ASSUME TypeInv, NEW t \in Threads, Check(t) \/ AssertUnlinked(t) \/ Add(t) \/ EnqTest(t)
  PROVE  TypeInv'
  <1> USE DispatcherAssumption, ThreadKinds DEF TypeInv, TypeOK, sched, heap, Goto, Scheduling
  <1>1. CASE Check(t)
    BY <1>1 DEF Check, Return, DispatcherPc, ThreadPc
  <1>2. CASE AssertUnlinked(t)
    BY <1>2 DEF AssertUnlinked, DispatcherPc, ThreadPc, Linked
  <1>3. CASE Add(t)
    <2>1. /\ pc' \in [Threads -> DispatcherPc \cup ThreadPc]
          /\ pc'[Dispatcher] \in DispatcherPc
          /\ \A u \in Threads \ {Dispatcher} : pc'[u] \in ThreadPc
      BY <1>3 DEF Add, Return, Signal, DispatcherPc, ThreadPc
    <2>2. signalSent' \in BOOLEAN /\ broken' \in BOOLEAN
      BY <1>3 DEF Add, Linked
    <2>3. /\ taskq' \in Seq(Tasks) /\ pending' \in Nat
          /\ pending' >= Len(taskq')
      <3>1. arg[t] \in Tasks
        BY <1>3 DEF Add
      <3>2. pending' = pending + 1
        BY <1>3 DEF Add
      <3>3. taskq' = taskq \/ taskq' = Append(taskq, arg[t])
        BY <1>3 DEF Add
      <3> QED BY <3>1, <3>2, <3>3, AppendProperties, LenProperties
    <2>4. \A u \in Threads : Scheduling(u)' => arg'[u] \in Tasks
      BY <1>3 DEF Add, Return, Signal
    <2> QED BY <1>3, <2>1, <2>2, <2>3, <2>4 DEF Add
  <1>4. CASE EnqTest(t)
    BY <1>4 DEF EnqTest, Return, DispatcherPc, ThreadPc
  <1> QED BY <1>1, <1>2, <1>3, <1>4

\* The steps of the threads that hand over work.
LEMMA TypeThreads ==
  ASSUME TypeInv, NEW t \in Threads,
         TimerFire(t) \/ NetReceive(t) \/ CliSubmit(t) \/ CliSpuriousWake(t) \/ CliFree(t)
  PROVE  TypeInv'
  <1> USE DispatcherAssumption, ThreadKinds DEF TypeInv, TypeOK, sched, heap, Goto, Scheduling
  <1>1. CASE TimerFire(t)
    BY <1>1 DEF TimerFire, Create, DispatcherPc, ThreadPc, Tasks
  <1>2. CASE NetReceive(t)
    BY <1>2 DEF NetReceive, Enqueue, DispatcherPc, ThreadPc, Tasks
  <1>3. CASE CliSubmit(t)
    BY <1>3 DEF CliSubmit, Create, DispatcherPc, ThreadPc, Tasks
  <1>4. CASE CliSpuriousWake(t)
    BY <1>4 DEF CliSpuriousWake, DispatcherPc, ThreadPc
  <1>5. CASE CliFree(t)
    BY <1>5 DEF CliFree, DispatcherPc, ThreadPc, Linked, InUse
  <1> QED BY <1>1, <1>2, <1>3, <1>4, <1>5

\* The steps of the dispatcher between tasks, and of a task's end.
LEMMA TypeDispatcher ==
  ASSUME TypeInv, Dispatch \/ Sleep \/ Wake \/ PostOneShot \/ PostSync \/ PostPktTask
  PROVE  TypeInv'
  <1> USE DispatcherAssumption, ThreadKinds DEF TypeInv, TypeOK, sched, heap, Goto, Scheduling
  <1>1. CASE Dispatch
    <2>1. /\ Head(taskq) \in Tasks /\ Tail(taskq) \in Seq(Tasks)
          /\ Len(Tail(taskq)) = Len(taskq) - 1 /\ Len(taskq) > 0
      BY <1>1, HeadTailProperties, LenProperties, EmptySeq DEF Dispatch
    <2>2. pending' \in Nat /\ pending' >= Len(taskq')
      BY <1>1, <2>1, LenProperties DEF Dispatch
    <2> QED BY <1>1, <2>1, <2>2 DEF Dispatch, ForgetHandle, DispatcherPc, ThreadPc
  <1>2. CASE Sleep
    BY <1>2 DEF Sleep, DispatcherPc, ThreadPc
  <1>3. CASE Wake
    BY <1>3 DEF Wake, DispatcherPc, ThreadPc
  <1>4. CASE PostOneShot
    BY <1>4 DEF PostOneShot, FreeOneShot, DispatcherPc, ThreadPc, Tasks
  <1>5. CASE PostSync
    BY <1>5 DEF PostSync, Signal, DispatcherPc, ThreadPc
  <1>6. CASE PostPktTask
    BY <1>6 DEF PostPktTask, DispatcherPc, ThreadPc, Tasks
  <1> QED BY <1>1, <1>2, <1>3, <1>4, <1>5, <1>6

\* What callbacks do.
LEMMA TypeCallback ==
  ASSUME TypeInv, \/ CbCreate \/ CbCancel \/ CbSendPkt
                  \/ CbScheduleAgain \/ CbTakePkt \/ CbReturn
  PROVE  TypeInv'
  <1> USE DispatcherAssumption, ThreadKinds
      DEF TypeInv, TypeOK, sched, heap, Goto, Scheduling, InCallback, MayCall
  <1>1. CASE CbCreate
    BY <1>1 DEF CbCreate, Create, DispatcherPc, ThreadPc, Tasks
  <1>2. CASE CbCancel
    <2>1. Unlink(handle) \in Seq(Tasks) /\ Len(Unlink(handle)) <= Len(taskq)
      BY UnlinkProperties
    <2> QED BY <1>2, <2>1, LenProperties DEF CbCancel
  <1>3. CASE CbSendPkt
    BY <1>3 DEF CbSendPkt, Enqueue, DispatcherPc, ThreadPc, Tasks
  <1>4. CASE CbScheduleAgain
    BY <1>4 DEF CbScheduleAgain
  <1>5. CASE CbTakePkt
    BY <1>5 DEF CbTakePkt
  <1>6. CASE CbReturn
    BY <1>6 DEF CbReturn, DispatcherPc, ThreadPc
  <1> QED BY <1>1, <1>2, <1>3, <1>4, <1>5, <1>6

LEMMA TypeStep == TypeInv /\ [Next]_vars => TypeInv'
  <1> SUFFICES ASSUME TypeInv, [Next]_vars PROVE TypeInv'
    OBVIOUS
  <1>1. CASE UNCHANGED vars
    BY <1>1 DEF vars, TypeInv, TypeOK, Scheduling
  <1>2. ASSUME NEW t \in Threads, ThreadStep(t) PROVE TypeInv'
    BY <1>2, TypeSchedule, TypeThreads DEF ThreadStep
  <1>3. CASE DispatcherStep
    BY <1>3, TypeDispatcher, TypeCallback DEF DispatcherStep
  <1> QED BY <1>1, <1>2, <1>3 DEF Next

\* Type correctness of event_dispatcher.c's state.
THEOREM TypeCorrect == Spec => []TypeOK
  <1>1. TypeInv => TypeOK
    BY DEF TypeInv
  <1> QED BY <1>1, TypeInit, TypeStep, PTL DEF Spec

------------------------------------------------------------------------------
(* No lost wake-up *)

\* A dispatcher that waits has nothing to do, and whoever adds a task sees
\* that a signal is due: the state is idle and no signal has been sent.
SleepInv == pc[Dispatcher] = "wait" =>
              taskq = << >> /\ disState = "IDLE" /\ ~signalSent

LEMMA SleepStep == TypeInv /\ SleepInv /\ [Next]_vars => SleepInv'
  <1> SUFFICES ASSUME TypeInv, SleepInv, [Next]_vars PROVE SleepInv'
    OBVIOUS
  <1> USE ThreadKinds DEF TypeInv, TypeOK, SleepInv, sched, heap, Goto
  <1>1. CASE UNCHANGED vars
    BY <1>1 DEF vars
  <1>2. ASSUME NEW t \in Threads, ThreadStep(t) PROVE SleepInv'
    <2>1. CASE Add(t)
      BY <2>1 DEF Add, Return, Signal
    <2>2. CASE Check(t) \/ EnqTest(t) \/ AssertUnlinked(t)
      BY <2>2 DEF Check, EnqTest, AssertUnlinked, Return
    <2>3. CASE TimerFire(t) \/ NetReceive(t) \/ CliSubmit(t)
      BY <2>3 DEF TimerFire, NetReceive, CliSubmit, Create, Enqueue
    <2>4. CASE CliSpuriousWake(t) \/ CliFree(t)
      BY <2>4 DEF CliSpuriousWake, CliFree
    <2> QED BY <1>2, <2>1, <2>2, <2>3, <2>4 DEF ThreadStep
  <1>3. CASE DispatcherStep
    <2>1. CASE Dispatch \/ Sleep \/ Wake
      BY <2>1 DEF Dispatch, Sleep, Wake
    <2>2. CASE CbCreate \/ CbCancel \/ CbSendPkt
      BY <2>2 DEF CbCreate, CbCancel, CbSendPkt, Create, Enqueue, InCallback, MayCall
    <2>3. CASE CbScheduleAgain \/ CbTakePkt \/ CbReturn
      BY <2>3 DEF CbScheduleAgain, CbTakePkt, CbReturn, InCallback, MayCall
    <2>4. CASE PostOneShot \/ PostSync \/ PostPktTask
      BY <2>4 DEF PostOneShot, PostSync, PostPktTask, Signal
    <2> QED BY <1>3, <2>1, <2>2, <2>3, <2>4 DEF DispatcherStep
  <1> QED BY <1>1, <1>2, <1>3 DEF Next

\* The dispatcher never sleeps on a task (event_dispatcher_schedule_task and
\* event_dispatcher_thread), spurious wake-ups or not.
THEOREM NeverSleepsOnTask == Spec => []NoLostWakeup
  <1>1. Init => SleepInv
    BY ThreadKinds DEF Init, SleepInv
  <1>2. SleepInv => NoLostWakeup
    BY DEF SleepInv, NoLostWakeup
  <1> QED BY <1>1, <1>2, TypeInit, TypeStep, SleepStep, PTL DEF Spec

------------------------------------------------------------------------------
(* No stranded packet *)

\* After its callback the packet task, if it is still the current task, is
\* the one the dispatcher is scheduling: it asked for itself.
PacketInv ==
  /\ NoStrandedPacket
  /\ InUse(PktTask) /\ Scheduling(Dispatcher) /\ ops = 0 => arg[Dispatcher] = PktTask
  /\ pc[Dispatcher] = "run" => ops > 0

LEMMA PacketInit == Init => PacketInv
  BY DispatcherAssumption, ThreadKinds DEF Init, PacketInv, NoStrandedPacket, InUse

\* Adding a task takes none off the list.
LEMMA AddKeeps ==
  ASSUME TypeInv, NEW t \in Threads, Add(t), NEW k \in Tasks, Linked(k)
  PROVE  Linked(k)'
  <1> USE DEF TypeInv, TypeOK, sched, heap
  <1>1. CASE Linked(arg[t])
    BY <1>1 DEF Add, Linked
  <1>2. CASE ~Linked(arg[t])
    <2>1. arg[t] \in Tasks /\ taskq' = Append(taskq, arg[t])
      BY <1>2 DEF Add, Scheduling
    <2>2. PICK i \in 1..Len(taskq) : taskq[i] = k
      BY LenProperties DEF Linked
    <2>3. taskq'[i] = k /\ i \in DOMAIN taskq'
      BY <2>1, <2>2, AppendProperties, LenProperties
    <2> QED BY <2>3 DEF Linked
  <1> QED BY <1>1, <1>2

\* The list only loses tasks that are dispatched or cancelled.
LEMMA LinkedKept ==
  ASSUME TypeInv, NEW k \in Tasks, Linked(k), [Next]_vars,
         ~(Dispatch /\ Head(taskq) = k), ~(CbCancel /\ handle = k)
  PROVE  Linked(k)'
  <1> USE DEF TypeInv, TypeOK, sched, heap
  <1>1. CASE UNCHANGED vars
    BY <1>1 DEF vars, Linked
  <1>2. ASSUME NEW t \in Threads, ThreadStep(t) PROVE Linked(k)'
    <2>1. CASE Add(t)
      BY <2>1, AddKeeps
    <2>2. CASE ~Add(t)
      BY <1>2, <2>2 DEF ThreadStep, Linked, Check, EnqTest, AssertUnlinked, TimerFire,
         NetReceive, CliSubmit, CliSpuriousWake, CliFree
    <2> QED BY <2>1, <2>2
  <1>3. CASE Dispatch
    <2>1. taskq # << >> /\ taskq' = Tail(taskq) /\ Head(taskq) # k
      BY <1>3 DEF Dispatch
    <2>2. PICK i \in 1..Len(taskq) : taskq[i] = k
      BY LenProperties DEF Linked
    <2>3. i # 1
      BY <2>1, <2>2
    <2>4. i - 1 \in DOMAIN Tail(taskq) /\ Tail(taskq)[i - 1] = taskq[i]
      BY <2>1, <2>2, <2>3, HeadTailProperties, LenProperties
    <2> QED BY <2>1, <2>2, <2>4 DEF Linked
  <1>4. CASE CbCancel
    <2>1. taskq' = Unlink(handle) /\ handle # k
      BY <1>4 DEF CbCancel
    <2>2. \E i \in DOMAIN Unlink(handle) : Unlink(handle)[i] = k
      BY <2>1, UnlinkProperties
    <2> QED BY <2>1, <2>2 DEF Linked
  <1>5. CASE DispatcherStep /\ ~Dispatch /\ ~CbCancel
    BY <1>5 DEF DispatcherStep, Sleep, Wake, CbCreate, CbSendPkt, CbScheduleAgain, CbTakePkt,
       CbReturn, PostOneShot, PostSync, PostPktTask, Linked
  <1> QED BY <1>1, <1>2, <1>3, <1>4, <1>5 DEF Next

\* A task that is added is listed.
LEMMA AddLinks ==
  ASSUME TypeInv, NEW t \in Threads, Add(t)
  PROVE  Linked(arg[t])'
  <1> USE DEF TypeInv, TypeOK, sched, heap
  <1>1. arg[t] \in Tasks
    BY DEF Add, Scheduling
  <1>2. arg' = arg
    BY DEF Add
  <1>3. CASE Linked(arg[t])
    BY <1>2, <1>3 DEF Add, Linked
  <1>4. CASE ~Linked(arg[t])
    <2>1. taskq' = Append(taskq, arg[t])
      BY <1>4 DEF Add
    <2>2. Len(taskq) + 1 \in DOMAIN taskq' /\ taskq'[Len(taskq) + 1] = arg[t]
      BY <1>1, <2>1, AppendProperties, LenProperties
    <2> QED BY <1>2, <2>2 DEF Linked
  <1> QED BY <1>3, <1>4

LEMMA PacketSchedule ==
  ASSUME TypeInv, PacketInv, NEW t \in Threads,
         Check(t) \/ AssertUnlinked(t) \/ Add(t) \/ EnqTest(t),
         Linked(PktTask) => Linked(PktTask)'
  PROVE  PacketInv'
  <1> USE ThreadKinds, DispatcherAssumption
      DEF TypeInv, TypeOK, PacketInv, sched, heap, Goto, InUse, Scheduling
  <1>1. CASE Linked(PktTask)'
    BY <1>1 DEF NoStrandedPacket, Check, AssertUnlinked, Add, EnqTest, Return, Signal
  <1>2. CASE ~Linked(PktTask)'
    <2>1. CASE Check(t)
      BY <1>2, <2>1 DEF NoStrandedPacket, Check, Return, Enqueuing
    <2>2. CASE AssertUnlinked(t)
      BY <1>2, <2>2 DEF NoStrandedPacket, AssertUnlinked, Enqueuing
    <2>3. CASE Add(t)
      <3>1. arg[t] # PktTask
        BY <1>2, <2>3, AddLinks DEF Linked, Add
      <3>2. NoStrandedPacket'
        BY <1>2, <2>3, <3>1 DEF NoStrandedPacket, Add, Return, Signal, Enqueuing
      <3> QED BY <2>3, <3>1, <3>2 DEF Add, Return, Signal
    <2>4. CASE EnqTest(t)
      BY <1>2, <2>4 DEF NoStrandedPacket, EnqTest, AlreadyScheduled, Return, Enqueuing
    <2> QED BY <2>1, <2>2, <2>3, <2>4
  <1> QED BY <1>1, <1>2

LEMMA PacketThreads ==
  ASSUME TypeInv, PacketInv, NEW t \in Threads,
         TimerFire(t) \/ NetReceive(t) \/ CliSubmit(t) \/ CliSpuriousWake(t) \/ CliFree(t)
  PROVE  PacketInv'
  <1> USE ThreadKinds, DispatcherAssumption
      DEF TypeInv, TypeOK, PacketInv, sched, heap, Goto, InUse, Scheduling,
          NoStrandedPacket, Enqueuing, Linked
  <1>1. CASE TimerFire(t)
    BY <1>1 DEF TimerFire, Create
  <1>2. CASE NetReceive(t)
    BY <1>2 DEF NetReceive, Enqueue
  <1>3. CASE CliSubmit(t)
    BY <1>3 DEF CliSubmit, Create
  <1>4. CASE CliSpuriousWake(t) \/ CliFree(t)
    BY <1>4 DEF CliSpuriousWake, CliFree
  <1> QED BY <1>1, <1>2, <1>3, <1>4

LEMMA PacketDispatcher ==
  ASSUME TypeInv, PacketInv, DispatcherStep,
         Linked(PktTask) =>
           Linked(PktTask)' \/ (Dispatch /\ Head(taskq) = PktTask)
  PROVE  PacketInv'
  <1> USE ThreadKinds, DispatcherAssumption
      DEF TypeInv, TypeOK, PacketInv, sched, heap, Goto, InUse, Scheduling,
          NoStrandedPacket, Enqueuing
  <1>1. CASE Dispatch
    BY <1>1 DEF Dispatch
  <1>2. CASE Sleep \/ Wake
    BY <1>2 DEF Sleep, Wake, Dispatch
  <1>3. CASE CbCreate \/ CbSendPkt
    BY <1>3 DEF CbCreate, CbSendPkt, Create, Enqueue, InCallback, MayCall, Dispatch
  <1>4. CASE CbCancel \/ CbScheduleAgain
    BY <1>4 DEF CbCancel, CbScheduleAgain, InCallback, MayCall, Dispatch
  <1>5. CASE CbTakePkt \/ CbReturn
    BY <1>5 DEF CbTakePkt, CbReturn, InCallback, MayCall, Dispatch
  <1>6. CASE PostOneShot
    BY <1>6 DEF PostOneShot, Dispatch
  <1>7. CASE PostSync
    BY <1>7 DEF PostSync, Signal, Dispatch
  <1>8. CASE PostPktTask
    BY <1>8 DEF PostPktTask, Dispatch
  <1> QED BY <1>1, <1>2, <1>3, <1>4, <1>5, <1>6, <1>7, <1>8 DEF DispatcherStep

LEMMA PacketStep == TypeInv /\ PacketInv /\ [Next]_vars => PacketInv'
  <1> SUFFICES ASSUME TypeInv, PacketInv, [Next]_vars PROVE PacketInv'
    OBVIOUS
  <1>1. CASE UNCHANGED vars
    BY <1>1 DEF vars, PacketInv, NoStrandedPacket, Linked, InUse, Scheduling, Enqueuing
  <1>2. PktTask \in Tasks /\ PktTask \notin Jobs
    BY DispatcherAssumption DEF Tasks
  <1>3. Linked(PktTask) => Linked(PktTask)' \/ (Dispatch /\ Head(taskq) = PktTask)
    BY <1>2, LinkedKept DEF CbCancel, TypeInv, TypeOK
  <1>4. ASSUME NEW t \in Threads, ThreadStep(t), Next PROVE PacketInv'
    <2>1. CASE Check(t) \/ AssertUnlinked(t) \/ Add(t) \/ EnqTest(t)
      <3>1. Linked(PktTask) => Linked(PktTask)'
        BY <1>2, <2>1, AddKeeps DEF Check, AssertUnlinked, EnqTest, Linked, sched
      <3> QED BY <2>1, <3>1, PacketSchedule
    <2> QED BY <1>4, <2>1, PacketThreads DEF ThreadStep
  <1>5. CASE DispatcherStep
    BY <1>3, <1>5, PacketDispatcher
  <1> QED BY <1>1, <1>4, <1>5 DEF Next

\* No packet lies in recvr_pkt_q with nobody to look at it (pkt_q_enqueue's
\* test, task_get_next_pkt, and the end of a packet task).
THEOREM NeverStrandsPacket == Spec => []NoStrandedPacket
  <1>1. PacketInv => NoStrandedPacket
    BY DEF PacketInv
  <1> QED BY <1>1, TypeInit, TypeStep, PacketInit, PacketStep, PTL DEF Spec

------------------------------------------------------------------------------
(* The life of task objects *)

Distinct == \A i, j \in DOMAIN taskq : taskq[i] = taskq[j] => i = j

\* How the set of listed tasks changes, the list being free of duplicates.
LEMMA UnlinkDistinct ==
  ASSUME taskq \in Seq(Tasks), Distinct, NEW k
  PROVE  /\ \A i, j \in DOMAIN Unlink(k) : Unlink(k)[i] = Unlink(k)[j] => i = j
         /\ \A i \in DOMAIN Unlink(k) : Unlink(k)[i] # k /\ Linked(Unlink(k)[i])
  <1>1. CASE ~Linked(k)
    BY <1>1 DEF Unlink, Linked, Distinct
  <1>2. CASE Linked(k)
    <2> DEFINE i == CHOOSE i \in DOMAIN taskq : taskq[i] = k
    <2>1. i \in 1..Len(taskq) /\ taskq[i] = k
      BY <1>2, LenProperties DEF Linked
    <2>2. Unlink(k) = RemoveAt(taskq, i)
      BY <1>2 DEF Unlink
    <2> HIDE DEF i
    <2> DEFINE u == Unlink(k)
               from(j) == IF j < i THEN j ELSE j + 1
    <2>3. /\ u \in Seq(Tasks)
          /\ Len(u) = Len(taskq) - 1
          /\ \A j \in 1..(Len(taskq) - 1) : u[j] = IF j < i THEN taskq[j] ELSE taskq[j + 1]
      BY <2>1, <2>2, RemoveAtProperties
    <2> HIDE DEF u
    <2>4. DOMAIN u = 1..(Len(taskq) - 1) /\ DOMAIN taskq = 1..Len(taskq) /\ Len(taskq) \in Nat
      BY <2>3, LenProperties
    <2>5. \A j \in DOMAIN u : from(j) \in DOMAIN taskq /\ u[j] = taskq[from(j)] /\ from(j) # i
      BY <2>1, <2>3, <2>4
    <2>6. \A j, m \in DOMAIN u : from(j) = from(m) => j = m
      BY <2>1, <2>4
    <2> HIDE DEF from
    <2>7. \A j, m \in DOMAIN u : u[j] = u[m] => j = m
      BY <2>5, <2>6 DEF Distinct
    <2>8. \A j \in DOMAIN u : u[j] # k /\ Linked(u[j])
      BY <2>1, <2>4, <2>5 DEF Distinct, Linked
    <2> QED BY <2>7, <2>8 DEF u
  <1> QED BY <1>1, <1>2

LEMMA ListCancel ==
  ASSUME TypeInv, Distinct, CbCancel
  PROVE  /\ Distinct'
         /\ \A k \in Tasks : Linked(k)' <=> Linked(k) /\ k # handle
  <1>1. taskq' = Unlink(handle) /\ taskq \in Seq(Tasks)
    BY DEF CbCancel, TypeInv, TypeOK
  <1>2. Distinct'
    BY <1>1, UnlinkDistinct DEF Distinct
  <1>3. ASSUME NEW k \in Tasks PROVE Linked(k)' <=> Linked(k) /\ k # handle
    <2>1. Linked(k)' <=> \E i \in DOMAIN Unlink(handle) : Unlink(handle)[i] = k
      BY <1>1 DEF Linked
    <2> QED BY <1>1, <2>1, UnlinkDistinct, UnlinkProperties
  <1> QED BY <1>2, <1>3

LEMMA ListDispatch ==
  ASSUME TypeInv, Distinct, Dispatch
  PROVE  /\ Distinct' /\ Linked(Head(taskq))
         /\ \A k \in Tasks : Linked(k)' <=> Linked(k) /\ k # Head(taskq)
  <1> DEFINE n == Len(taskq)
             tail == Tail(taskq)
  <1>1. taskq \in Seq(Tasks) /\ taskq # << >> /\ taskq' = tail
    BY DEF Dispatch, TypeInv, TypeOK
  <1>2. /\ Head(taskq) = taskq[1] /\ n \in Nat /\ n > 0
        /\ DOMAIN taskq = 1..n /\ DOMAIN tail = 1..(n - 1)
        /\ \A i \in 1..(n - 1) : tail[i] = taskq[i + 1]
    BY <1>1, HeadTailProperties, LenProperties, EmptySeq
  <1> HIDE DEF n, tail
  <1>3. Distinct'
    <2> SUFFICES ASSUME NEW i \in 1..(n - 1), NEW j \in 1..(n - 1), tail[i] = tail[j]
                 PROVE  i = j
      BY <1>1, <1>2 DEF Distinct
    <2>1. i + 1 \in 1..n /\ j + 1 \in 1..n
      BY <1>2
    <2>2. i + 1 = j + 1
      BY <1>2, <2>1, SMTT(30) DEF Distinct
    <2> QED BY <1>2, <2>2
  <1>4. Linked(Head(taskq))
    BY <1>2 DEF Linked
  <1>5. ASSUME NEW k \in Tasks PROVE Linked(k)' <=> Linked(k) /\ k # Head(taskq)
    <2>1. ASSUME Linked(k)' PROVE Linked(k) /\ k # Head(taskq)
      <3>1. PICK i \in 1..(n - 1) : taskq[i + 1] = k
        BY <1>1, <1>2, <2>1 DEF Linked
      <3>2. i + 1 \in 1..n /\ i + 1 # 1 /\ 1 \in 1..n
        BY <1>2, <3>1
      <3> QED BY <1>2, <3>1, <3>2 DEF Linked, Distinct
    <2>2. ASSUME Linked(k), k # Head(taskq) PROVE Linked(k)'
      <3>1. PICK i \in 1..n : taskq[i] = k
        BY <1>2, <2>2 DEF Linked
      <3>2. i - 1 \in 1..(n - 1) /\ (i - 1) + 1 = i
        BY <1>2, <2>2, <3>1
      <3>3. tail[i - 1] = k
        BY <1>2, <3>1, <3>2
      <3> QED BY <1>1, <1>2, <3>2, <3>3 DEF Linked
    <2> QED BY <2>1, <2>2
  <1> QED BY <1>3, <1>4, <1>5

LEMMA ListAdd ==
  ASSUME TypeInv, Distinct, NEW t \in Threads, Add(t)
  PROVE  /\ Distinct'
         /\ \A k \in Tasks : Linked(k)' <=> Linked(k) \/ k = arg[t]
  <1>1. CASE Linked(arg[t])
    BY <1>1 DEF Add, Linked, Distinct
  <1>2. CASE ~Linked(arg[t])
    <2> DEFINE n == Len(taskq)
               q == Append(taskq, arg[t])
    <2>1. taskq \in Seq(Tasks) /\ arg[t] \in Tasks /\ taskq' = q
      BY <1>2 DEF Add, TypeInv, TypeOK, Scheduling
    <2>2. /\ n \in Nat /\ DOMAIN taskq = 1..n /\ DOMAIN q = 1..(n + 1)
          /\ q[n + 1] = arg[t] /\ \A i \in 1..n : q[i] = taskq[i]
      BY <2>1, AppendProperties, LenProperties
    <2> HIDE DEF n, q
    <2>3. \A i \in 1..n : taskq[i] # arg[t]
      BY <1>2, <2>2 DEF Linked
    <2>4. \A i \in 1..(n + 1) : i \in 1..n \/ i = n + 1
      BY <2>2
    <2>5. Distinct'
      BY <2>1, <2>2, <2>3, <2>4 DEF Distinct
    <2>6. 1..n \subseteq 1..(n + 1) /\ n + 1 \in 1..(n + 1)
      BY <2>2
    <2>7. \A k \in Tasks : Linked(k)' <=> Linked(k) \/ k = arg[t]
      BY <2>1, <2>2, <2>4, <2>6 DEF Linked
    <2> QED BY <2>5, <2>7
  <1> QED BY <1>1, <1>2

\* A task object has one place at a time.  One that is being scheduled is off
\* the list and belongs to one thread; if it is also the current task then it
\* is the dispatcher that schedules it again, its callback being over.
HeapInv ==
  /\ Distinct
  /\ PktTask \in alloc
  /\ \A k \in Tasks : Linked(k) => k \in alloc
  /\ \A k \in Tasks : InUse(k) => k \in alloc /\ (k # PktTask => ~Linked(k))
  /\ \A t \in Threads : Scheduling(t) =>
       /\ arg[t] \in alloc
       /\ arg[t] # PktTask =>
            /\ ~Linked(arg[t])
            /\ InUse(arg[t]) => t = Dispatcher /\ ops = 0
       /\ arg[t] \in Clis => t = arg[t]
  /\ \A t, u \in Threads :
       Scheduling(t) /\ Scheduling(u) /\ arg[t] = arg[u] => t = u \/ arg[t] = PktTask
  /\ pc[Dispatcher] = "post" => ops = 0

LEMMA HeapInit == Init => HeapInv
  BY DispatcherAssumption, ThreadKinds
     DEF Init, HeapInv, Distinct, Linked, InUse, Scheduling

LEMMA ListSame ==
  ASSUME UNCHANGED taskq
  PROVE  /\ Distinct' <=> Distinct
         /\ \A k \in Tasks : Linked(k)' <=> Linked(k)
  BY DEF Distinct, Linked

LEMMA HeapSchedule ==
  ASSUME TypeInv, HeapInv, NEW t \in Threads,
         Check(t) \/ AssertUnlinked(t) \/ Add(t) \/ EnqTest(t), ~broken'
  PROVE  HeapInv'
  <1> USE ThreadKinds, DispatcherAssumption
      DEF TypeInv, TypeOK, sched, heap, Goto, HeapInv, InUse, Scheduling
  <1>1. CASE Check(t)
    BY <1>1, ListSame DEF Check, Return
  <1>2. CASE AssertUnlinked(t)
    BY <1>2, ListSame DEF AssertUnlinked
  <1>3. CASE Add(t)
    <2>1. /\ Distinct' /\ UNCHANGED <<alloc, arg, ops, current>>
          /\ \A k \in Tasks : Linked(k)' <=> Linked(k) \/ k = arg[t]
      BY <1>3, ListAdd DEF Add
    <2>2. Scheduling(t) /\ arg[t] \in Tasks /\ arg[t] \in alloc
      BY <1>3 DEF Add
    <2>3. \A u \in Threads : Scheduling(u)' => Scheduling(u) /\ u # t
      BY <1>3 DEF Add, Return, Signal
    <2>4. ASSUME NEW k \in Tasks, InUse(k)'
          PROVE  InUse(k) /\ (k = arg[t] => k = PktTask)
      BY <1>3, <2>4 DEF Add, Return, Signal
    <2>5. (pc[Dispatcher] = "post")' => pc[Dispatcher] = "post"
      BY <1>3 DEF Add, Return, Signal
    <2> HIDE DEF InUse, Scheduling
    <2> QED BY <2>1, <2>2, <2>3, <2>4, <2>5
  <1>4. CASE EnqTest(t)
    BY <1>4, ListSame DEF EnqTest, Return
  <1> QED BY <1>1, <1>2, <1>3, <1>4

LEMMA HeapThreads ==
  ASSUME TypeInv, HeapInv, NEW t \in Threads, ~broken',
         TimerFire(t) \/ NetReceive(t) \/ CliSubmit(t) \/ CliSpuriousWake(t) \/ CliFree(t)
  PROVE  HeapInv'
  <1> USE ThreadKinds, DispatcherAssumption
      DEF TypeInv, TypeOK, sched, heap, Goto, HeapInv, InUse, Scheduling
  <1>1. CASE TimerFire(t)
    BY <1>1, ListSame DEF TimerFire, Create, Tasks
  <1>2. CASE NetReceive(t)
    BY <1>2, ListSame DEF NetReceive, Enqueue
  <1>3. CASE CliSubmit(t)
    BY <1>3, ListSame DEF CliSubmit, Create, Tasks
  <1>4. CASE CliSpuriousWake(t)
    BY <1>4, ListSame DEF CliSpuriousWake
  <1>5. CASE CliFree(t)
    <2>1. ~Linked(t) /\ ~InUse(t)
      BY <1>5 DEF CliFree
    <2>2. /\ t \in Clis /\ t # PktTask /\ alloc' = alloc \ {t}
          /\ \A u \in Threads : Scheduling(u)' => Scheduling(u) /\ u # t /\ arg'[u] = arg[u]
      BY <1>5 DEF CliFree
    <2>3. \A k \in Tasks : InUse(k)' <=> InUse(k)
      BY <1>5 DEF CliFree
    <2>4. UNCHANGED <<taskq, ops>> /\ (pc[Dispatcher] = "post")' = (pc[Dispatcher] = "post")
      BY <1>5 DEF CliFree
    <2>5. \A u \in Threads : Scheduling(u)' => arg[u] # t
      BY <2>2
    <2> HIDE DEF InUse, Scheduling
    <2> QED BY <2>1, <2>2, <2>3, <2>4, <2>5, ListSame
  <1> QED BY <1>1, <1>2, <1>3, <1>4, <1>5

LEMMA HeapDispatcher ==
  ASSUME TypeInv, HeapInv, Dispatch \/ Sleep \/ Wake \/ PostOneShot \/ PostSync \/ PostPktTask
  PROVE  HeapInv'
  <1> USE ThreadKinds, DispatcherAssumption
      DEF TypeInv, TypeOK, sched, heap, Goto, HeapInv, InUse, Scheduling
  <1>1. CASE Dispatch
    BY <1>1, ListDispatch DEF Dispatch
  <1>2. CASE Sleep
    BY <1>2, ListSame DEF Sleep
  <1>3. CASE Wake
    BY <1>3, ListSame DEF Wake
  <1>4. CASE PostOneShot
    BY <1>4, ListSame DEF PostOneShot, FreeOneShot, Tasks
  <1>5. CASE PostSync
    BY <1>5, ListSame DEF PostSync, Signal
  <1>6. CASE PostPktTask
    BY <1>6, ListSame DEF PostPktTask, Tasks
  <1> QED BY <1>1, <1>2, <1>3, <1>4, <1>5, <1>6

LEMMA HeapCallback ==
  ASSUME TypeInv, HeapInv, HandleSound, ~broken',
         \/ CbCreate \/ CbCancel \/ CbSendPkt
         \/ CbScheduleAgain \/ CbTakePkt \/ CbReturn
  PROVE  HeapInv'
  <1> USE ThreadKinds, DispatcherAssumption
      DEF TypeInv, TypeOK, sched, heap, Goto, HeapInv, InUse, Scheduling, InCallback, MayCall
  <1>1. CASE CbCreate
    BY <1>1, ListSame DEF CbCreate, Create, Tasks
  <1>2. CASE CbCancel
    <2>1. Linked(handle) /\ handle \in Tasks /\ handle \in Jobs /\ handle # PktTask
      BY <1>2 DEF CbCancel, HandleSound, Tasks
    <2> QED BY <1>2, <2>1, ListCancel DEF CbCancel
  <1>3. CASE CbSendPkt
    BY <1>3, ListSame DEF CbSendPkt, Enqueue
  <1>4. CASE CbScheduleAgain
    BY <1>4, ListSame DEF CbScheduleAgain
  <1>5. CASE CbTakePkt
    BY <1>5, ListSame DEF CbTakePkt
  <1>6. CASE CbReturn
    BY <1>6, ListSame DEF CbReturn
  <1> QED BY <1>1, <1>2, <1>3, <1>4, <1>5, <1>6

LEMMA HandleStep ==
  ASSUME TypeInv, HeapInv, HandleSound, Next
  PROVE  HandleSound'
  <1> USE ThreadKinds, DispatcherAssumption
      DEF TypeInv, TypeOK, sched, heap, Goto, HandleSound, InCallback, MayCall
  <1>1. ASSUME NEW t \in Threads, ThreadStep(t) PROVE HandleSound'
    <2>1. CASE Add(t)
      <3>1. UNCHANGED <<alloc, handle, current, arg>>
        BY <2>1 DEF Add
      <3>2. Linked(handle) => Linked(handle)'
        BY <2>1, <3>1, AddKeeps DEF Tasks, Linked
      <3>3. CASE t = Dispatcher
        BY <2>1, <3>1, <3>2, <3>3, AddLinks DEF Add, Return
      <3>4. CASE t # Dispatcher
        BY <2>1, <3>1, <3>2, <3>4 DEF Add, Return, Signal
      <3> QED BY <3>3, <3>4
    <2>2. CASE Check(t) \/ AssertUnlinked(t) \/ EnqTest(t)
      <3>1. pc[t] # "add" /\ UNCHANGED <<taskq, handle, current, alloc, arg>>
        BY <2>2 DEF Check, AssertUnlinked, EnqTest
      <3>2. \A u \in Threads : u # t => pc'[u] = pc[u]
        BY <2>2 DEF Check, AssertUnlinked, EnqTest
      <3> QED BY <3>1, <3>2 DEF Linked
    <2>3. CASE TimerFire(t) \/ NetReceive(t) \/ CliSubmit(t)
      BY <2>3 DEF TimerFire, NetReceive, CliSubmit, Create, Enqueue, Linked
    <2>4. CASE CliSpuriousWake(t)
      BY <2>4 DEF CliSpuriousWake, Linked
    <2>5. CASE CliFree(t)
      <3>1. handle # NULL => handle \in alloc'
        BY <2>5 DEF CliFree
      <3>2. /\ UNCHANGED <<taskq, handle, current>>
            /\ UNCHANGED <<pc[Dispatcher], arg[Dispatcher]>>
        BY <2>5 DEF CliFree
      <3> QED BY <3>1, <3>2 DEF Linked
    <2> QED BY <2>5, <1>1, <2>1, <2>2, <2>3, <2>4 DEF ThreadStep
  <1>2. CASE Dispatch
    <2>1. handle' # NULL => handle' = handle /\ Linked(handle) /\ handle # Head(taskq)
      BY <1>2 DEF Dispatch, ForgetHandle
    <2>2. handle # NULL => handle \in Tasks
      BY DEF Tasks
    <2>3. handle' # NULL => Linked(handle)'
      BY <1>2, <2>1, <2>2, ListDispatch DEF HeapInv
    <2>4. UNCHANGED alloc /\ current' = Head(taskq)
      BY <1>2 DEF Dispatch
    <2> QED BY <2>1, <2>3, <2>4 DEF Linked
  <1>3. CASE Sleep \/ Wake
    BY <1>3 DEF Sleep, Wake, Linked
  <1>4. CASE CbCreate
    BY <1>4 DEF CbCreate, Create, Linked, HeapInv, InUse, Tasks
  <1>5. CASE CbCancel \/ CbSendPkt
    BY <1>5 DEF CbCancel, CbSendPkt, Enqueue, Linked
  <1>6. CASE CbScheduleAgain \/ CbTakePkt \/ CbReturn
    BY <1>6 DEF CbScheduleAgain, CbTakePkt, CbReturn, Linked
  <1>7. CASE PostOneShot
    BY <1>7 DEF PostOneShot, FreeOneShot, Linked
  <1>8. CASE PostSync
    BY <1>8 DEF PostSync, Signal, Linked
  <1>9. CASE PostPktTask
    BY <1>9 DEF PostPktTask, Linked
  <1> QED BY <1>1, <1>2, <1>3, <1>4, <1>5, <1>6, <1>7, <1>8, <1>9 DEF Next, DispatcherStep

LEMMA HeapStep ==
  ASSUME TypeInv, ~broken => HeapInv, HandleSound, [Next]_vars
  PROVE  /\ (~broken => HeapInv)'
         /\ HandleSound'
  <1>1. CASE UNCHANGED vars
    BY <1>1 DEF vars, HeapInv, HandleSound, Distinct, Linked, InUse, Scheduling
  <1>2. CASE Next
    <2>1. HeapInv
      BY <1>2 DEF Next
    <2>2. HandleSound'
      BY <1>2, <2>1, HandleStep
    <2>3. ASSUME ~broken' PROVE HeapInv'
      BY <1>2, <2>1, <2>3, HeapSchedule, HeapThreads, HeapDispatcher, HeapCallback
         DEF Next, DispatcherStep, ThreadStep
    <2> QED BY <2>2, <2>3
  <1> QED BY <1>1, <1>2

LEMMA HandleInit == Init => HandleSound
  BY DEF Init, HandleSound

\* The pointer that lsp_pkt_gen_task and its like hold is never dangling, so a
\* cancellation (task_cancel_job) takes a task that is allocated and waiting.
THEOREM HandleNeverDangles == Spec => []HandleSound
  <1>1. TypeInv /\ (~broken => HeapInv) /\ HandleSound /\ [Next]_vars
          => (~broken => HeapInv)' /\ HandleSound'
    BY HeapStep
  <1>2. Init => (~broken => HeapInv)
    BY HeapInit
  <1> QED BY <1>1, <1>2, TypeInit, TypeStep, HandleInit, PTL DEF Spec

\* As long as nothing has gone wrong, the dispatcher's list and its current
\* task are allocated tasks, each in one place (the list handling and the
\* frees of event_dispatcher.c).
THEOREM TasksStaySound == Spec => []TasksSound
  <1>1. TypeInv /\ (~broken => HeapInv) /\ HandleSound /\ [Next]_vars
          => (~broken => HeapInv)' /\ HandleSound'
    BY HeapStep
  <1>2. Init => (~broken => HeapInv)
    BY HeapInit
  <1>3. TypeInv /\ (~broken => HeapInv) => TasksSound
    <2> SUFFICES ASSUME TypeInv, ~broken, HeapInv PROVE TasksSound
      BY DEF TasksSound
    <2>1. \A i \in DOMAIN taskq : taskq[i] \in Tasks /\ Linked(taskq[i])
      BY LenProperties, ElementOfSeq DEF TypeInv, TypeOK, Linked
    <2> QED BY <2>1 DEF TasksSound, HeapInv, Distinct, TypeInv
  <1> QED BY <1>1, <1>2, <1>3, TypeInit, TypeStep, HandleInit, PTL DEF Spec

------------------------------------------------------------------------------
(* Without receiver threads and spurious wake-ups nothing goes wrong *)

\* Only the dispatcher lists the packet task then, so that what its unlocked
\* tests saw still holds when it takes the lock.
AloneInv ==
  /\ ~broken
  /\ SyncDone
  /\ \A t \in Threads : Scheduling(t) /\ arg[t] = PktTask => t = Dispatcher
  /\ pc[Dispatcher] \in {"assert", "add"} /\ arg[Dispatcher] = PktTask => ~Linked(PktTask)

LEMMA AloneInit == Init => AloneInv
  BY ThreadKinds, DispatcherAssumption DEF Init, AloneInv, SyncDone, Scheduling

LEMMA AloneThreads ==
  ASSUME NetThreads = {}, ~Spurious, TypeInv, HeapInv, HandleSound, AloneInv,
         NEW t \in Threads, ThreadStep(t)
  PROVE  AloneInv'
  <1> USE ThreadKinds, DispatcherAssumption
      DEF TypeInv, TypeOK, sched, heap, Goto, AloneInv, SyncDone, Scheduling
  <1>1. CASE Check(t)
    BY <1>1, ListSame DEF Check, Return, InUse, Tasks
  <1>2. CASE AssertUnlinked(t)
    <2>1. ~broken'
      BY <1>2 DEF AssertUnlinked, HeapInv
    <2> QED BY <1>2, <2>1, ListSame DEF AssertUnlinked, InUse, Tasks
  <1>3. CASE Add(t)
    <2>1. ~broken'
      BY <1>3 DEF Add, HeapInv
    <2>2. /\ UNCHANGED <<alloc, arg, ops, current>>
          /\ \A k \in Tasks : Linked(k)' <=> Linked(k) \/ k = arg[t]
      BY <1>3, ListAdd DEF Add, HeapInv
    <2>3. \A k \in Tasks : InUse(k)' => InUse(k)
      BY <1>3, <2>2 DEF Add, Return, Signal, InUse
    <2>4. \A u \in Threads : Scheduling(u)' => Scheduling(u) /\ u # t
      BY <1>3 DEF Add, Return, Signal
    <2>5. \A c \in Clis : pc'[c] = "woken" => pc[c] = "woken" /\ arg[t] # c
      BY <1>3, <2>4 DEF Add, Return, Signal, HeapInv
    <2>6. pc'[Dispatcher] \in {"assert", "add"} => t # Dispatcher /\ pc[Dispatcher] = pc'[Dispatcher]
      BY <1>3 DEF Add, Return, Signal
    <2>7. arg[t] = PktTask => t = Dispatcher
      BY <1>3 DEF Add
    <2>8. SyncDone'
      BY <2>2, <2>3, <2>5 DEF Tasks
    <2>9. \A u \in Threads : Scheduling(u)' /\ arg'[u] = PktTask => u = Dispatcher
      BY <2>2, <2>4
    <2>10. pc'[Dispatcher] \in {"assert", "add"} /\ arg'[Dispatcher] = PktTask
             => ~Linked(PktTask)'
      BY <2>2, <2>6, <2>7 DEF Tasks
    <2> QED BY <2>1, <2>8, <2>9, <2>10, <2>2
  <1>4. CASE EnqTest(t)
    BY <1>4, ListSame DEF EnqTest, Return, InUse, Tasks
  <1>5. CASE TimerFire(t) \/ CliSubmit(t)
    BY <1>5, ListSame DEF TimerFire, CliSubmit, Create, InUse, Tasks
  <1>6. CASE CliFree(t)
    <2>1. ~broken'
      BY <1>6 DEF CliFree
    <2> QED BY <1>6, <2>1, ListSame DEF CliFree, InUse, Tasks
  <1>7. ~NetReceive(t) /\ ~CliSpuriousWake(t)
    BY DEF NetReceive, CliSpuriousWake
  <1> QED BY <1>1, <1>2, <1>3, <1>4, <1>5, <1>6, <1>7 DEF ThreadStep

LEMMA AloneDispatcher ==
  ASSUME ~Spurious, TypeInv, HeapInv, HandleSound, AloneInv, DispatcherStep
  PROVE  AloneInv'
  <1> USE ThreadKinds, DispatcherAssumption
      DEF TypeInv, TypeOK, sched, heap, Goto, AloneInv, SyncDone, Scheduling, InUse, Tasks
  <1>1. CASE Dispatch
    BY <1>1, ListDispatch DEF Dispatch, HeapInv
  <1>2. CASE Sleep \/ Wake
    BY <1>2, ListSame DEF Sleep, Wake
  <1>3. CASE CbCreate \/ CbSendPkt
    BY <1>3, ListSame DEF CbCreate, CbSendPkt, Create, Enqueue, InCallback, MayCall
  <1>4. CASE CbCancel
    <2>1. ~broken'
      BY <1>4 DEF CbCancel, HandleSound
    <2> QED BY <1>4, <2>1, ListCancel DEF CbCancel, HeapInv, InCallback, MayCall
  <1>5. CASE CbScheduleAgain \/ CbTakePkt \/ CbReturn
    BY <1>5, ListSame DEF CbScheduleAgain, CbTakePkt, CbReturn, InCallback, MayCall
  <1>6. CASE PostOneShot
    BY <1>6, ListSame DEF PostOneShot
  <1>7. CASE PostSync
    BY <1>7, ListSame DEF PostSync, Signal, HeapInv
  <1>8. CASE PostPktTask
    BY <1>8, ListSame DEF PostPktTask
  <1> QED BY <1>1, <1>2, <1>3, <1>4, <1>5, <1>6, <1>7, <1>8 DEF DispatcherStep

LEMMA AloneStep ==
  ASSUME NetThreads = {}, ~Spurious, TypeInv, ~broken => HeapInv, HandleSound, AloneInv,
         [Next]_vars
  PROVE  AloneInv'
  <1>1. CASE UNCHANGED vars
    BY <1>1 DEF vars, AloneInv, SyncDone, Linked, InUse, Scheduling
  <1>2. CASE Next
    BY <1>2, AloneThreads, AloneDispatcher DEF Next, AloneInv
  <1> QED BY <1>1, <1>2

\* If packets are queued by the dispatcher thread only, and a condition wait
\* returns only when signalled, then no task is inserted twice, no assertion
\* of event_dispatcher.c fails, and none frees a task in use.
THEOREM AloneStaysIntact ==
  ASSUME NetThreads = {}, ~Spurious
  PROVE  Spec => []Intact
  <1>1. TypeInv /\ (~broken => HeapInv) /\ HandleSound /\ AloneInv /\ [Next]_vars
          => (~broken => HeapInv)' /\ HandleSound' /\ AloneInv'
    BY HeapStep, AloneStep
  <1>2. Init => (~broken => HeapInv)
    BY HeapInit
  <1>3. AloneInv => Intact
    BY DEF AloneInv, Intact
  <1> QED BY <1>1, <1>2, <1>3, TypeInit, TypeStep, HandleInit, AloneInit, PTL DEF Spec

\* Under the same assumptions a synchronous call returns only after its job
\* has run (task_create_new_job_synchronous).
THEOREM AloneSyncDone ==
  ASSUME NetThreads = {}, ~Spurious
  PROVE  Spec => []SyncDone
  <1>1. TypeInv /\ (~broken => HeapInv) /\ HandleSound /\ AloneInv /\ [Next]_vars
          => (~broken => HeapInv)' /\ HandleSound' /\ AloneInv'
    BY HeapStep, AloneStep
  <1>2. Init => (~broken => HeapInv)
    BY HeapInit
  <1>3. AloneInv => SyncDone
    BY DEF AloneInv
  <1> QED BY <1>1, <1>2, <1>3, TypeInit, TypeStep, HandleInit, AloneInit, PTL DEF Spec
==============================================================================
