--------------------------- MODULE ServicesProofs ---------------------------
(***************************************************************************)
(* The control plane of a router keeps its promises for any interfaces,    *)
(* neighbours, groups and bounds: neighbourship management, the commands   *)
(* of ISIS, its timers and notification chains.                            *)
(***************************************************************************)
EXTENDS Services, ListLemmas

------------------------------------------------------------------------------
(* One service at a time *)

\* A behaviour stays with its subject, which alone moves.
LEMMA SubjectStep ==
  ASSUME [ServicesNext]_<<subject, vars, services>>
  PROVE  /\ subject' = subject
         /\ subject = "neighbours" => [Nbrs!Next]_Nbrs!vars
         /\ subject = "overload" => [Overload!Next]_Overload!vars
         /\ subject = "settings" => [Settings!Next]_Settings!vars
         /\ subject = "timers" => [Timers!Next]_Timers!vars
         /\ subject = "chains" => [Chains!Next]_Chains!vars
  <1>1. CASE UNCHANGED <<subject, vars, services>>
    BY <1>1 DEF services, Overload!vars, Nbrs!vars, Settings!vars, Timers!vars, Chains!vars
  <1>2. CASE ServicesNext
    BY <1>2 DEF ServicesNext, Step
  <1> QED BY <1>1, <1>2

------------------------------------------------------------------------------
(* Neighbourship management.  The bound of NbrshipSound on "uaf" needs a   *)
(* count of the commands behind each state: one for a router or an         *)
(* interface that is configured, two for an interface that sends hellos,   *)
(* three for a job whose data is gone.                                     *)

NbrJob == [kind : {"hello"}, of : {<<i>> : i \in NbrIntfs}, live : BOOLEAN]
           \cup [kind : {"expiry"}, of : Nbrs!Adjs, live : {TRUE}]

NbrTypes ==
  /\ node \in BOOLEAN /\ intf \in [NbrIntfs -> {"none", "off", "on"}]
  /\ hello \in [NbrIntfs -> BOOLEAN] /\ timer \in [Nbrs!Adjs -> {"none", "armed", "fired"}]
  /\ jobs \in Seq(NbrJob) /\ died \in {"no", "assert", "uaf"}
  /\ hellos \in Nat /\ commands \in Nat

NbrHellos == \A i \in NbrIntfs : (hello[i] <=> intf[i] = "on") /\ (intf[i] = "on" => node)

NbrAdjs == \A a \in Nbrs!Adjs :
             /\ timer[a] # "none" => intf[a[1]] # "none"
             /\ timer[a] = "fired" => Nbrs!Queued("expiry", a)

\* The data of a hello job is there as long as its interface sends hellos.
NbrJobs == \A k \in DOMAIN jobs :
            /\ jobs[k].kind = "hello" /\ jobs[k].live => intf[jobs[k].of[1]] = "on"
            /\ ~jobs[k].live => commands > 2

NbrCounts ==
  /\ node => commands > 0
  /\ \A i \in NbrIntfs : intf[i] # "none" => commands > 0
  /\ \A i \in NbrIntfs : intf[i] = "on" => commands > 1
  /\ died = "uaf" => commands > 2

NbrSafe == NbrHellos /\ NbrAdjs /\ NbrJobs /\ NbrCounts /\ died # "assert"

NbrInv == NbrTypes /\ NbrSafe

------------------------------------------------------------------------------
(* Parts of steps *)

\* What a job of the queue is.
LEMMA NbrJobFields ==
  ASSUME NEW j \in NbrJob
  PROVE  /\ j.live \in BOOLEAN
         /\ \/ j.kind = "hello" /\ j.of[1] \in NbrIntfs /\ j.of = <<j.of[1]>>
            \/ j.kind = "expiry" /\ j.of \in Nbrs!Adjs /\ j.live
  <1>1. CASE j \in [kind : {"hello"}, of : {<<i>> : i \in NbrIntfs}, live : BOOLEAN]
    <2>1. PICK i \in NbrIntfs : j.of = <<i>>
      BY <1>1
    <2>2. j.kind = "hello" /\ j.live \in BOOLEAN
      BY <1>1
    <2> QED BY <2>1, <2>2
  <1>2. CASE j \in [kind : {"expiry"}, of : Nbrs!Adjs, live : {TRUE}]
    BY <1>2
  <1> QED BY <1>1, <1>2 DEF NbrJob

\* A job that joins the queue.
LEMMA NbrJobAppended ==
  ASSUME jobs \in Seq(NbrJob), NEW j \in NbrJob, jobs' = Append(jobs, j)
  PROVE  /\ jobs' \in Seq(NbrJob)
         /\ \A k \in DOMAIN jobs' : jobs'[k] = j \/ \E m \in DOMAIN jobs : jobs'[k] = jobs[m]
         /\ \A m \in DOMAIN jobs : \E k \in DOMAIN jobs' : jobs'[k] = jobs[m]
         /\ \E k \in DOMAIN jobs' : jobs'[k] = j
  BY AppendProperties, LenProperties

LEMMA NbrJobTaken ==
  ASSUME jobs \in Seq(NbrJob), jobs # << >>, jobs' = Tail(jobs)
  PROVE  /\ jobs' \in Seq(NbrJob) /\ Head(jobs) \in NbrJob
         /\ \E m \in DOMAIN jobs : Head(jobs) = jobs[m]
         /\ \A k \in DOMAIN jobs' : \E m \in DOMAIN jobs : jobs'[k] = jobs[m]
         /\ \A m \in DOMAIN jobs : jobs[m] = Head(jobs) \/ \E k \in DOMAIN jobs' : jobs'[k] = jobs[m]
  <1>1. /\ Head(jobs) \in NbrJob /\ Head(jobs) = jobs[1] /\ Tail(jobs) \in Seq(NbrJob)
        /\ Len(Tail(jobs)) = Len(jobs) - 1
        /\ \A i \in 1..(Len(jobs) - 1) : Tail(jobs)[i] = jobs[i + 1]
    BY TailElements
  <1>2. /\ DOMAIN jobs = 1..Len(jobs) /\ Len(jobs) \in Nat /\ Len(jobs) # 0
        /\ DOMAIN jobs' = 1..(Len(jobs) - 1)
    BY <1>1, Elements
  <1>3. ASSUME NEW m \in DOMAIN jobs
        PROVE  jobs[m] = Head(jobs) \/ \E k \in DOMAIN jobs' : jobs'[k] = jobs[m]
    <2>1. CASE m # 1
      <3>1. m - 1 \in 1..(Len(jobs) - 1) /\ (m - 1) + 1 = m
        BY <1>2, <2>1
      <3> QED BY <1>1, <1>2, <3>1
    <2> QED BY <1>1, <2>1
  <1>4. ASSUME NEW k \in DOMAIN jobs' PROVE \E m \in DOMAIN jobs : jobs'[k] = jobs[m]
    <2>1. k + 1 \in 1..Len(jobs)
      BY <1>2
    <2> QED BY <1>1, <1>2, <2>1
  <1>5. 1 \in DOMAIN jobs
    BY <1>2
  <1> QED BY <1>1, <1>3, <1>4, <1>5

\* Stopping hellos frees the data of their jobs and leaves the queue as it is.
LEMMA NbrJobsStopped ==
  ASSUME NbrTypes, NEW S, Nbrs!Deactivate(S)
  PROVE  /\ jobs' \in Seq(NbrJob) /\ DOMAIN jobs' = DOMAIN jobs
         /\ \A k \in DOMAIN jobs :
              /\ jobs'[k].kind = jobs[k].kind /\ jobs'[k].of = jobs[k].of
              /\ jobs[k].kind = "hello" /\ jobs[k].of[1] \in Nbrs!Stopped(S) => ~jobs'[k].live
              /\ ~(jobs[k].kind = "hello" /\ jobs[k].of[1] \in Nbrs!Stopped(S))
                   => jobs'[k] = jobs[k]
         /\ \A kind, of : Nbrs!Queued(kind, of) => Nbrs!Queued(kind, of)'
  <1>1. /\ Len(jobs) \in Nat /\ DOMAIN jobs = 1..Len(jobs)
        /\ \A k \in 1..Len(jobs) : jobs[k] \in NbrJob
    BY Elements DEF NbrTypes
  <1>2. /\ DOMAIN jobs' = DOMAIN jobs
        /\ \A k \in DOMAIN jobs : jobs'[k] =
             IF jobs[k].kind = "hello" /\ jobs[k].of[1] \in Nbrs!Stopped(S)
             THEN [jobs[k] EXCEPT !.live = FALSE] ELSE jobs[k]
    BY DEF Nbrs!Deactivate
  <1>3. ASSUME NEW j \in NbrJob, j.kind = "hello", NEW d, d = [j EXCEPT !.live = FALSE]
        PROVE  d \in NbrJob /\ d.kind = j.kind /\ d.of = j.of /\ ~d.live
    BY <1>3 DEF NbrJob
  <1>4. ASSUME NEW k \in DOMAIN jobs
        PROVE  /\ jobs'[k] \in NbrJob
               /\ jobs'[k].kind = jobs[k].kind /\ jobs'[k].of = jobs[k].of
               /\ jobs[k].kind = "hello" /\ jobs[k].of[1] \in Nbrs!Stopped(S) => ~jobs'[k].live
               /\ ~(jobs[k].kind = "hello" /\ jobs[k].of[1] \in Nbrs!Stopped(S))
                    => jobs'[k] = jobs[k]
    <2>1. jobs[k] \in NbrJob
      BY <1>1
    <2>2. CASE jobs[k].kind = "hello" /\ jobs[k].of[1] \in Nbrs!Stopped(S)
      BY <1>2, <1>3, <2>1, <2>2
    <2>3. CASE ~(jobs[k].kind = "hello" /\ jobs[k].of[1] \in Nbrs!Stopped(S))
      BY <1>2, <2>1, <2>3
    <2> QED BY <2>2, <2>3
  <1>5. jobs' \in Seq(NbrJob)
    <2>1. jobs' = [k \in 1..Len(jobs) |-> jobs'[k]]
      BY <1>1, <1>2 DEF Nbrs!Deactivate
    <2> QED BY <1>1, <1>4, <2>1
  <1>6. \A kind, of : Nbrs!Queued(kind, of) => Nbrs!Queued(kind, of)'
    BY <1>2, <1>4 DEF Nbrs!Queued
  <1> QED BY <1>2, <1>4, <1>5, <1>6

\* Hello, adjacency and count facts do not depend on the queue.
LEMMA NbrQueueKept ==
  ASSUME NbrJobs, jobs' = jobs, commands' \in Nat, commands \in Nat, commands' >= commands,
         \A i \in NbrIntfs : intf[i] = "on" => intf'[i] = "on", NbrTypes
  PROVE  NbrJobs' /\ \A kind, of : Nbrs!Queued(kind, of)' <=> Nbrs!Queued(kind, of)
  <1>1. \A kind, of : Nbrs!Queued(kind, of)' <=> Nbrs!Queued(kind, of)
    BY DEF Nbrs!Queued
  <1>2. ASSUME NEW k \in DOMAIN jobs PROVE jobs[k].kind = "hello" => jobs[k].of[1] \in NbrIntfs
    <2>1. jobs[k] \in NbrJob
      BY Elements DEF NbrTypes
    <2> QED BY <2>1, NbrJobFields
  <1> QED BY <1>1, <1>2 DEF NbrJobs

------------------------------------------------------------------------------
(* The invariant is inductive *)

LEMMA NbrInit == Nbrs!Init => NbrInv
  <1> SUFFICES ASSUME Nbrs!Init PROVE NbrInv
    OBVIOUS
  <1>1. jobs \in Seq(NbrJob) /\ DOMAIN jobs = {}
    BY EmptySeq DEF Nbrs!Init
  <1>2. NbrTypes
    BY <1>1 DEF Nbrs!Init, NbrTypes
  <1> QED BY <1>1, <1>2 DEF Nbrs!Init, NbrInv, NbrSafe, NbrHellos, NbrAdjs, NbrJobs, NbrCounts

LEMMA NbrHelloStep ==
  ASSUME NbrInv, NEW i \in NbrIntfs, NEW n \in NbrIds, NEW good \in BOOLEAN, Nbrs!RecvHello(i, n, good)
  PROVE  NbrInv'
  <1>1. /\ UNCHANGED <<node, intf, hello, jobs, died, commands>> /\ hellos' = hellos + 1
        /\ \/ timer' = timer
           \/ intf[i] = "on" /\ timer' = [timer EXCEPT ![<<i, n>>] = "armed"]
    BY DEF Nbrs!RecvHello, Nbrs!Learn
  <1>2. NbrTypes'
    BY <1>1 DEF NbrInv, NbrTypes
  <1>3. NbrHellos' /\ NbrCounts' /\ died' # "assert"
    BY <1>1 DEF NbrInv, NbrSafe, NbrHellos, NbrCounts
  <1>4. NbrJobs' /\ \A kind, of : Nbrs!Queued(kind, of)' <=> Nbrs!Queued(kind, of)
    BY <1>1, NbrQueueKept DEF NbrInv, NbrSafe, NbrTypes
  <1>5. \A a \in Nbrs!Adjs : timer'[a] = timer[a] \/ (timer'[a] = "armed" /\ intf[a[1]] = "on")
    BY <1>1, SMTT(30) DEF NbrInv, NbrTypes
  <1>6. NbrAdjs'
    BY <1>1, <1>4, <1>5 DEF NbrInv, NbrSafe, NbrAdjs
  <1> QED BY <1>2, <1>3, <1>4, <1>6 DEF NbrInv, NbrSafe

LEMMA NbrTimerStep ==
  ASSUME NbrInv,
         \/ \E i \in NbrIntfs : Nbrs!HelloTimer(i)
         \/ \E a \in Nbrs!Adjs : Nbrs!ExpiryTimer(a)
  PROVE  NbrInv'
  <1>1. ASSUME NEW j \in NbrJob, jobs' = Append(jobs, j), j.live,
               j.kind = "hello" => intf[j.of[1]] = "on",
               UNCHANGED <<node, intf, hello, died, hellos, commands>>,
               timer' \in [Nbrs!Adjs -> {"none", "armed", "fired"}],
               \A b \in Nbrs!Adjs : timer'[b] = timer[b] \/ (timer'[b] = "fired" /\ timer[b] # "none"
                                                         /\ j.kind = "expiry" /\ j.of = b)
        PROVE  NbrInv'
    <2>1. /\ jobs' \in Seq(NbrJob)
          /\ \A k \in DOMAIN jobs' : jobs'[k] = j \/ \E m \in DOMAIN jobs : jobs'[k] = jobs[m]
          /\ \A m \in DOMAIN jobs : \E k \in DOMAIN jobs' : jobs'[k] = jobs[m]
          /\ \E k \in DOMAIN jobs' : jobs'[k] = j
      BY <1>1, NbrJobAppended DEF NbrInv, NbrTypes
    <2>2. NbrTypes'
      BY <1>1, <2>1 DEF NbrInv, NbrTypes
    <2>3. NbrHellos' /\ NbrCounts' /\ died' # "assert"
      BY <1>1 DEF NbrInv, NbrSafe, NbrHellos, NbrCounts
    <2>4. NbrJobs'
      BY <1>1, <2>1 DEF NbrInv, NbrSafe, NbrJobs
    <2>5. \A b \in Nbrs!Adjs : Nbrs!Queued("expiry", b) \/ (j.kind = "expiry" /\ j.of = b)
                            => Nbrs!Queued("expiry", b)'
      BY <2>1 DEF Nbrs!Queued
    <2>6. NbrAdjs'
      BY <1>1, <2>5 DEF NbrInv, NbrSafe, NbrAdjs
    <2> QED BY <2>2, <2>3, <2>4, <2>6 DEF NbrInv, NbrSafe
  <1>2. ASSUME NEW i \in NbrIntfs, Nbrs!HelloTimer(i) PROVE NbrInv'
    <2>1. PICK j : j = [kind |-> "hello", of |-> <<i>>, live |-> TRUE]
      OBVIOUS
    <2>2. j \in NbrJob /\ j.live /\ j.kind = "hello" /\ j.of[1] = i
      BY <2>1 DEF NbrJob
    <2>3. /\ jobs' = Append(jobs, j) /\ timer' = timer /\ hello[i]
          /\ UNCHANGED <<node, intf, hello, died, hellos, commands>>
      BY <1>2, <2>1 DEF Nbrs!HelloTimer
    <2>4. intf[j.of[1]] = "on" /\ timer' \in [Nbrs!Adjs -> {"none", "armed", "fired"}]
      BY <2>2, <2>3 DEF NbrInv, NbrTypes, NbrSafe, NbrHellos
    <2> QED BY <1>1, <2>2, <2>3, <2>4
  <1>3. ASSUME NEW a \in Nbrs!Adjs, Nbrs!ExpiryTimer(a) PROVE NbrInv'
    <2>1. PICK j : j = [kind |-> "expiry", of |-> a, live |-> TRUE]
      OBVIOUS
    <2>2. j \in NbrJob /\ j.live /\ j.kind = "expiry" /\ j.of = a
      BY <2>1 DEF NbrJob
    <2>3. /\ jobs' = Append(jobs, j) /\ timer' = [timer EXCEPT ![a] = "fired"]
          /\ timer[a] = "armed"
          /\ UNCHANGED <<node, intf, hello, died, hellos, commands>>
      BY <1>3, <2>1 DEF Nbrs!ExpiryTimer
    <2>4. /\ timer' \in [Nbrs!Adjs -> {"none", "armed", "fired"}]
          /\ \A b \in Nbrs!Adjs : timer'[b] = IF b = a THEN "fired" ELSE timer[b]
      BY <2>3 DEF NbrInv, NbrTypes
    <2> QED BY <1>1, <2>2, <2>3, <2>4
  <1> QED BY <1>2, <1>3

LEMMA NbrJobStep == ASSUME NbrInv, Nbrs!Job PROVE NbrInv'
  <1>1. PICK j : j = Head(jobs)
    OBVIOUS
  <1>2. /\ jobs' \in Seq(NbrJob) /\ j \in NbrJob
        /\ \E m \in DOMAIN jobs : j = jobs[m]
        /\ \A k \in DOMAIN jobs' : \E m \in DOMAIN jobs : jobs'[k] = jobs[m]
        /\ \A m \in DOMAIN jobs : jobs[m] = j \/ \E k \in DOMAIN jobs' : jobs'[k] = jobs[m]
    BY <1>1, NbrJobTaken DEF NbrInv, NbrTypes, Nbrs!Job
  <1>3. /\ died' = IF ~j.live THEN "uaf"
                   ELSE IF j.kind = "hello" /\ intf[j.of[1]] = "none" THEN "assert" ELSE died
        /\ timer' = IF j.kind = "expiry" THEN [timer EXCEPT ![j.of] = "none"] ELSE timer
        /\ UNCHANGED <<node, intf, hello, hellos, commands>>
    BY <1>1 DEF Nbrs!Job
  <1>4. NbrTypes'
    BY <1>2, <1>3 DEF NbrInv, NbrTypes
  <1>5. /\ ~j.live => commands > 2
        /\ j.live /\ j.kind = "hello" => intf[j.of[1]] = "on"
    BY <1>2 DEF NbrInv, NbrSafe, NbrJobs
  <1>6. NbrHellos' /\ NbrCounts' /\ died' # "assert"
    BY <1>3, <1>5 DEF NbrInv, NbrSafe, NbrHellos, NbrCounts
  <1>7. NbrJobs'
    BY <1>2, <1>3 DEF NbrInv, NbrSafe, NbrJobs
  <1>8. NbrAdjs'
    <2> SUFFICES ASSUME NEW a \in Nbrs!Adjs
                 PROVE  /\ timer'[a] # "none" => intf[a[1]] # "none"
                        /\ timer'[a] = "fired" => Nbrs!Queued("expiry", a)'
      BY <1>3 DEF NbrAdjs
    <2>1. timer'[a] = IF j.kind = "expiry" /\ j.of = a THEN "none" ELSE timer[a]
      BY <1>3 DEF NbrInv, NbrTypes
    <2>2. Nbrs!Queued("expiry", a) /\ ~(j.kind = "expiry" /\ j.of = a) => Nbrs!Queued("expiry", a)'
      BY <1>2 DEF Nbrs!Queued
    <2> QED BY <2>1, <2>2 DEF NbrInv, NbrSafe, NbrAdjs
  <1> QED BY <1>4, <1>6, <1>7, <1>8 DEF NbrInv, NbrSafe

\* A configured interface comes to send hellos if the router is enabled.
LEMMA NbrActivateStep ==
  ASSUME NbrInv, Nbrs!Command, NEW S \in SUBSET NbrIntfs, Nbrs!Activate(S), UNCHANGED <<timer, jobs>>,
         \/ UNCHANGED node
         \/ ~node /\ node' = TRUE /\ \A i \in S : intf[i] # "none"
  PROVE  NbrInv'
  <1>1. /\ commands' = commands + 1 /\ commands \in Nat /\ hellos' = hellos /\ node' \in BOOLEAN
        /\ \A i \in NbrIntfs : intf[i] \in {"none", "off", "on"}
    BY DEF Nbrs!Command, NbrInv, NbrTypes
  <1>2. CASE node'
    <2>1. /\ intf' = [i \in NbrIntfs |-> IF i \in S THEN "on" ELSE intf[i]]
          /\ hello' = [i \in NbrIntfs |-> i \in S \/ hello[i]] /\ died' = died
      BY <1>2 DEF Nbrs!Activate
    <2>2. NbrTypes'
      BY <1>1, <2>1 DEF NbrInv, NbrTypes
    <2>3. NbrHellos'
      BY <1>1, <1>2, <2>1 DEF NbrInv, NbrSafe, NbrHellos
    <2>4. \A i \in S : commands > 0
      BY <1>2 DEF NbrInv, NbrSafe, NbrCounts
    <2>5. NbrCounts' /\ died' # "assert"
      BY <1>1, <2>1, <2>4 DEF NbrInv, NbrSafe, NbrCounts
    <2>6. NbrJobs' /\ \A kind, of : Nbrs!Queued(kind, of)' <=> Nbrs!Queued(kind, of)
      BY <1>1, <2>1, NbrQueueKept DEF NbrInv, NbrSafe
    <2>7. NbrAdjs'
      BY <2>1, <2>6 DEF NbrInv, NbrSafe, NbrAdjs, Nbrs!Adjs
    <2> QED BY <2>2, <2>3, <2>5, <2>6, <2>7 DEF NbrInv, NbrSafe
  <1>3. CASE ~node'
    <2>1. /\ intf' = [i \in NbrIntfs |-> IF i \in S /\ intf[i] = "none" THEN "off" ELSE intf[i]]
          /\ died' = IF \E i \in S : intf[i] = "on" THEN "assert" ELSE died
          /\ hello' = hello /\ node' = node
      BY <1>3 DEF Nbrs!Activate
    <2>2. \A i \in NbrIntfs : intf[i] # "on" /\ intf'[i] # "on" /\ (intf[i] # "none" => intf'[i] # "none")
      BY <1>3, <2>1 DEF NbrInv, NbrSafe, NbrHellos
    <2>3. died' = died
      BY <2>1, <2>2
    <2>4. NbrTypes'
      BY <1>1, <2>1, <2>3 DEF NbrInv, NbrTypes
    <2>5. NbrHellos' /\ NbrCounts' /\ died' # "assert"
      BY <1>1, <2>1, <2>2, <2>3 DEF NbrInv, NbrSafe, NbrHellos, NbrCounts
    <2>6. NbrJobs' /\ \A kind, of : Nbrs!Queued(kind, of)' <=> Nbrs!Queued(kind, of)
      BY <1>1, <2>2, NbrQueueKept DEF NbrInv, NbrSafe
    <2>7. NbrAdjs'
      BY <2>2, <2>6 DEF NbrInv, NbrSafe, NbrAdjs, Nbrs!Adjs
    <2> QED BY <2>4, <2>5, <2>6, <2>7 DEF NbrInv, NbrSafe
  <1> QED BY <1>2, <1>3

\* Interfaces cease to send hellos; adjacencies go with their configuration.
LEMMA NbrDeactivateStep ==
  ASSUME NbrInv, Nbrs!Command, NEW S \in SUBSET NbrIntfs, Nbrs!Deactivate(S), UNCHANGED died,
         intf' \in [NbrIntfs -> {"none", "off", "on"}], node' \in BOOLEAN,
         timer' \in [Nbrs!Adjs -> {"none", "armed", "fired"}],
         \A i \in NbrIntfs : i \notin S => intf'[i] = intf[i],
         \A i \in S : intf'[i] # "on",
         \A a \in Nbrs!Adjs : timer'[a] = timer[a] \/ timer'[a] = "none",
         \A a \in Nbrs!Adjs : timer'[a] # "none" => intf'[a[1]] # "none" \/ intf[a[1]] = "none",
         node' = node \/ (node' = FALSE /\ S = NbrIntfs),
         \A i \in NbrIntfs : intf'[i] # "none" => intf[i] # "none"
  PROVE  NbrInv'
  <1>1. commands' = commands + 1 /\ commands \in Nat /\ hellos' = hellos
    BY DEF Nbrs!Command, NbrInv, NbrTypes
  <1>2. /\ jobs' \in Seq(NbrJob) /\ DOMAIN jobs' = DOMAIN jobs
        /\ \A k \in DOMAIN jobs :
             /\ jobs'[k].kind = jobs[k].kind /\ jobs'[k].of = jobs[k].of
             /\ jobs[k].kind = "hello" /\ jobs[k].of[1] \in Nbrs!Stopped(S) => ~jobs'[k].live
             /\ ~(jobs[k].kind = "hello" /\ jobs[k].of[1] \in Nbrs!Stopped(S)) => jobs'[k] = jobs[k]
        /\ \A kind, of : Nbrs!Queued(kind, of) => Nbrs!Queued(kind, of)'
    BY NbrJobsStopped DEF NbrInv
  <1>3. hello' = [i \in NbrIntfs |-> hello[i] /\ i \notin Nbrs!Stopped(S)]
    BY DEF Nbrs!Deactivate
  <1>4. NbrTypes'
    BY <1>1, <1>2, <1>3 DEF NbrInv, NbrTypes
  <1>5. NbrHellos'
    <2> SUFFICES ASSUME NEW i \in NbrIntfs
                 PROVE  (hello'[i] <=> intf'[i] = "on") /\ (intf'[i] = "on" => node')
      BY DEF NbrHellos
    <2>1. (hello[i] <=> intf[i] = "on") /\ (intf[i] = "on" => node)
      BY DEF NbrInv, NbrSafe, NbrHellos
    <2>2. hello'[i] <=> hello[i] /\ ~(i \in S /\ intf[i] = "on")
      BY <1>3 DEF Nbrs!Stopped
    <2> QED BY <2>1, <2>2
  <1>6. NbrCounts' /\ died' # "assert"
    BY <1>1 DEF NbrInv, NbrSafe, NbrCounts
  <1>7. NbrJobs'
    <2> SUFFICES ASSUME NEW k \in DOMAIN jobs
                 PROVE  /\ jobs'[k].kind = "hello" /\ jobs'[k].live => intf'[jobs'[k].of[1]] = "on"
                        /\ ~jobs'[k].live => commands' > 2
      BY <1>2 DEF NbrJobs
    <2>1. jobs[k].kind = "hello" => jobs[k].of[1] \in NbrIntfs
      <3>1. jobs[k] \in NbrJob
        BY Elements DEF NbrInv, NbrTypes
      <3> QED BY <3>1, NbrJobFields
    <2>2. CASE jobs[k].kind = "hello" /\ jobs[k].of[1] \in Nbrs!Stopped(S)
      <3>1. commands > 1
        BY <2>1, <2>2 DEF Nbrs!Stopped, NbrInv, NbrSafe, NbrCounts
      <3> QED BY <1>1, <1>2, <2>2, <3>1
    <2>3. CASE ~(jobs[k].kind = "hello" /\ jobs[k].of[1] \in Nbrs!Stopped(S))
      <3>1. jobs'[k] = jobs[k]
        BY <1>2, <2>3
      <3>2. /\ jobs[k].kind = "hello" /\ jobs[k].live => intf[jobs[k].of[1]] = "on"
            /\ ~jobs[k].live => commands > 2
        BY DEF NbrInv, NbrSafe, NbrJobs
      <3> QED BY <1>1, <2>1, <2>3, <3>1, <3>2 DEF Nbrs!Stopped
    <2> QED BY <2>2, <2>3
  <1>8. NbrAdjs'
    BY <1>2 DEF NbrInv, NbrSafe, NbrAdjs, Nbrs!Adjs
  <1> QED BY <1>4, <1>5, <1>6, <1>7, <1>8 DEF NbrInv, NbrSafe

LEMMA NbrStep == NbrInv /\ [Nbrs!Next]_Nbrs!vars => NbrInv'
  <1> SUFFICES ASSUME NbrInv, [Nbrs!Next]_Nbrs!vars PROVE NbrInv'
    OBVIOUS
  <1>1. ASSUME NEW a \in Nbrs!Adjs, NEW good \in BOOLEAN, Nbrs!RecvHello(a[1], a[2], good) PROVE NbrInv'
    BY <1>1, NbrHelloStep DEF Nbrs!Adjs
  <1>2. CASE Nbrs!EnableNode
    BY <1>2, NbrActivateStep DEF Nbrs!EnableNode
  <1>3. CASE Nbrs!DisableNode
    <2>1. /\ \A i \in NbrIntfs : intf'[i] = IF intf[i] = "on" THEN "off" ELSE intf[i]
          /\ intf' \in [NbrIntfs -> {"none", "off", "on"}]
          /\ timer' \in [Nbrs!Adjs -> {"none", "armed", "fired"}] /\ timer' = timer
          /\ Nbrs!Command /\ Nbrs!Deactivate(NbrIntfs) /\ died' = died /\ node' = FALSE
      BY <1>3 DEF Nbrs!DisableNode, NbrInv, NbrTypes
    <2>2. \A a \in Nbrs!Adjs : a[1] \in NbrIntfs
      BY DEF Nbrs!Adjs
    <2> QED BY <2>1, <2>2, NbrDeactivateStep
  <1>4. ASSUME NEW S \in SUBSET NbrIntfs, Nbrs!EnableIntf(S) PROVE NbrInv'
    BY <1>4, NbrActivateStep DEF Nbrs!EnableIntf
  <1>5. ASSUME NEW S \in SUBSET NbrIntfs, Nbrs!DisableIntf(S) PROVE NbrInv'
    <2>1. /\ \A i \in NbrIntfs : intf'[i] = IF i \in S THEN "none" ELSE intf[i]
          /\ intf' \in [NbrIntfs -> {"none", "off", "on"}]
          /\ timer' \in [Nbrs!Adjs -> {"none", "armed", "fired"}]
          /\ \A a \in Nbrs!Adjs : timer'[a] = IF a[1] \in S THEN "none" ELSE timer[a]
          /\ Nbrs!Command /\ Nbrs!Deactivate(S) /\ UNCHANGED <<died, node>>
      BY <1>5 DEF Nbrs!DisableIntf, Nbrs!DropAdjs, NbrInv, NbrTypes
    <2>2. \A a \in Nbrs!Adjs : a[1] \in NbrIntfs
      BY DEF Nbrs!Adjs
    <2>3. node' \in BOOLEAN
      BY <2>1 DEF NbrInv, NbrTypes
    <2> QED BY <2>1, <2>2, <2>3, NbrDeactivateStep
  <1>6. CASE UNCHANGED Nbrs!vars
    <2>1. \A kind, of : Nbrs!Queued(kind, of)' <=> Nbrs!Queued(kind, of)
      BY <1>6 DEF Nbrs!vars, Nbrs!Queued
    <2>2. NbrTypes' /\ NbrHellos' /\ NbrJobs' /\ NbrCounts' /\ died' # "assert"
      BY <1>6 DEF Nbrs!vars, NbrInv, NbrTypes, NbrSafe, NbrHellos, NbrJobs, NbrCounts
    <2>3. NbrAdjs'
      BY <1>6, <2>1 DEF Nbrs!vars, NbrInv, NbrSafe, NbrAdjs
    <2> QED BY <2>2, <2>3 DEF NbrInv, NbrSafe
  <1>7. \A S \in {{i} : i \in NbrIntfs} \cup {NbrIntfs} : S \in SUBSET NbrIntfs
    OBVIOUS
  <1> QED BY <1>1, <1>2, <1>3, <1>4, <1>5, <1>6, <1>7, NbrTimerStep, NbrJobStep DEF Nbrs!Next

\* The neighbourship management of a router survives every sequence of hellos,
\* timers and commands, but for a job whose data a command freed, which takes
\* three commands; hellos and timers belong to interfaces that are configured.
THEOREM NbrshipStaysSound == ServicesSpec => []NbrshipSound
  <1> DEFINE Inv == subject = "neighbours" => NbrInv
  <1>1. ServicesInit => Inv
    BY NbrInit DEF ServicesInit, Start
  <1>2. Inv /\ [ServicesNext]_<<subject, vars, services>> => Inv'
    BY SubjectStep, NbrStep
  <1>3. Inv => NbrshipSound
    BY DEF NbrshipSound, NbrInv, NbrSafe, NbrTypes, NbrHellos, NbrAdjs, NbrCounts, Nbrs!NbrshipSound
  <1> QED BY <1>1, <1>2, <1>3, PTL DEF ServicesSpec

------------------------------------------------------------------------------
(* The overload status of ISIS *)

\* The values of the variables.
OvlTypes ==
  /\ phase \in {"run", "purging", "down"} /\ timer \in {"off", "armed", "fired"}
  /\ status \in BOOLEAN /\ gen \in BOOLEAN /\ advertised \in BOOLEAN /\ raced \in BOOLEAN
  /\ jobs \in Nat

\* Every step keeps the values of the variables.
LEMMA OvlTypesStep == OvlTypes /\ [Overload!Next]_Overload!vars => OvlTypes'
<1> SUFFICES ASSUME OvlTypes, [Overload!Next]_Overload!vars PROVE OvlTypes'
  OBVIOUS
<1>1. CASE Overload!SetForGood
  BY <1>1 DEF OvlTypes, Overload!SetForGood, Overload!Set, Overload!KeepTimer, Overload!Scheduled
<1>2. ASSUME NEW v \in Timeouts, Overload!SetFor(v) PROVE OvlTypes'
  BY <1>2 DEF OvlTypes, Overload!SetFor, Overload!Set, Overload!KeepTimer, Overload!StartTimer, Overload!StopTimer, Overload!Scheduled
<1>3. CASE Overload!Unset \/ Overload!UnsetTimeout
  BY <1>3 DEF OvlTypes, Overload!Unset, Overload!UnsetTimeout, Overload!StopTimer, Overload!Scheduled
<1>4. CASE Overload!Fire
  BY <1>4 DEF OvlTypes, Overload!Fire
<1>5. CASE Overload!Generate
  BY <1>5 DEF OvlTypes, Overload!Generate
<1>6. CASE Overload!Expire
  <2>1. jobs' \in Nat
    BY <1>6 DEF OvlTypes, Overload!Expire
  <2>2. /\ phase' \in {"run", "purging", "down"} /\ timer' \in {"off", "armed", "fired"}
        /\ status' \in BOOLEAN /\ gen' \in BOOLEAN /\ advertised' \in BOOLEAN /\ raced' \in BOOLEAN
    BY <1>6 DEF OvlTypes, Overload!Expire, Overload!Scheduled
  <2> QED BY <2>1, <2>2 DEF OvlTypes
<1>7. CASE Overload!ShutDown \/ Overload!Gone \/ Overload!Restart
  BY <1>7 DEF OvlTypes, Overload!ShutDown, Overload!Gone, Overload!Restart, Overload!StopTimer
<1>8. CASE UNCHANGED Overload!vars
  BY <1>8 DEF OvlTypes, Overload!vars
<1> QED BY <1>1, <1>2, <1>3, <1>4, <1>5, <1>6, <1>7, <1>8 DEF Overload!Next

\* While no command has met a queued job or the shutdown, every step keeps the
\* overload status, its timer, its jobs and the LSP in agreement.
LEMMA OvlStep == OvlTypes /\ Overload!OverloadSound /\ [Overload!Next]_Overload!vars => Overload!OverloadSound'
<1> SUFFICES ASSUME OvlTypes, Overload!OverloadSound, [Overload!Next]_Overload!vars, ~raced'
             PROVE  /\ died' = "no"
                    /\ timer' # "off" => status' /\ value' # 0 /\ phase' = "run"
                    /\ jobs' = (IF timer' = "fired" THEN 1 ELSE 0)
                    /\ phase' = "run" /\ ~gen' => (advertised = status)'
  BY DEF Overload!OverloadSound
<1>1. CASE Overload!SetForGood
  BY <1>1 DEF Overload!OverloadSound, Overload!SetForGood, Overload!Set, Overload!Command, Overload!KeepTimer, Overload!Scheduled
<1>2. ASSUME NEW v \in Timeouts, Overload!SetFor(v)
      PROVE  Overload!OverloadSound'
  <2>1. CASE v # 0 /\ (timer = "off" \/ v # value) /\ value' = v /\ Overload!StartTimer
    BY <1>2, <2>1 DEF OvlTypes, Overload!OverloadSound, Overload!SetFor, Overload!Set, Overload!Command, Overload!StartTimer, Overload!Scheduled
  <2>2. CASE v # 0 /\ timer # "off" /\ v = value /\ UNCHANGED value /\ Overload!KeepTimer
    BY <1>2, <2>2 DEF Overload!OverloadSound, Overload!SetFor, Overload!Set, Overload!Command, Overload!KeepTimer, Overload!Scheduled
  <2>3. CASE v = 0 /\ UNCHANGED value /\ Overload!StopTimer
    BY <1>2, <2>3 DEF Overload!OverloadSound, Overload!SetFor, Overload!Set, Overload!Command, Overload!StopTimer, Overload!Scheduled
  <2> QED BY <1>2, <2>1, <2>2, <2>3 DEF Overload!SetFor
<1>3. CASE Overload!Unset
  BY <1>3 DEF Overload!OverloadSound, Overload!Unset, Overload!Command, Overload!StopTimer, Overload!Scheduled
<1>4. CASE Overload!UnsetTimeout
  BY <1>4 DEF Overload!OverloadSound, Overload!UnsetTimeout, Overload!Command, Overload!StopTimer
<1>5. CASE Overload!Fire
  <2>1. ~raced /\ UNCHANGED <<phase, status, value, gen, advertised, died>> /\ timer' = "fired"
    BY <1>5 DEF Overload!Fire
  <2>2. jobs' = 1
    BY <1>5, <2>1 DEF Overload!OverloadSound, Overload!Fire
  <2>3. phase' = "run" /\ ~gen' => advertised' = status'
    BY <2>1 DEF Overload!OverloadSound
  <2>4. timer # "off" /\ status /\ value # 0 /\ phase = "run" /\ died = "no"
    BY <1>5, <2>1 DEF Overload!OverloadSound, Overload!Fire
  <2> QED BY <2>1, <2>2, <2>3, <2>4
<1>6. CASE Overload!Expire
  <2>1. ~raced /\ UNCHANGED <<phase, advertised, raced>>
    BY <1>6 DEF Overload!Expire
  <2>2. jobs = 1 /\ timer = "fired" /\ phase = "run"
    BY <1>6, <2>1 DEF Overload!OverloadSound, Overload!Expire
  <2>3. jobs' = 0
    BY <1>6, <2>2 DEF Overload!Expire
  <2> QED BY <1>6, <2>1, <2>2, <2>3 DEF Overload!OverloadSound, Overload!Expire, Overload!Scheduled
<1>7. CASE Overload!Generate
  BY <1>7 DEF Overload!OverloadSound, Overload!Generate
<1>8. CASE Overload!ShutDown
  BY <1>8 DEF Overload!OverloadSound, Overload!ShutDown, Overload!Command, Overload!StopTimer
<1>9. CASE Overload!Gone
  BY <1>9 DEF Overload!OverloadSound, Overload!Gone
<1>10. CASE Overload!Restart
  BY <1>10 DEF Overload!OverloadSound, Overload!Restart, Overload!Command
<1>11. CASE UNCHANGED Overload!vars
  BY <1>11 DEF Overload!OverloadSound, Overload!vars
<1> QED
  BY <1>1, <1>2, <1>3, <1>4, <1>5, <1>6, <1>7, <1>8, <1>9, <1>10, <1>11 DEF Overload!Next, Overload!OverloadSound

LEMMA OvlInit == Overload!Init => OvlTypes /\ Overload!OverloadSound
  <1>1. Overload!Init => OvlTypes
    <2>1. Overload!Init => jobs \in Nat
      BY DEF Overload!Init
    <2> QED BY <2>1, Zenon DEF Overload!Init, OvlTypes
  <1>2. Overload!Init => Overload!OverloadSound
    BY DEF Overload!Init, Overload!OverloadSound
  <1> QED BY <1>1, <1>2

------------------------------------------------------------------------------
(* The groups and ARP entries of ISIS.  A dynamic group of a router whose    *)
(* commands left it alone has the interfaces to its neighbour and no others; *)
(* a member that kept its place as its neighbour went is in a group that is  *)
(* not its neighbour's.                                                      *)

CfgTypes ==
  /\ adjs \in [Settings!Intfs -> Seq(Settings!Nbrs)] /\ enabled \subseteq Settings!Intfs
  /\ grp \in [Settings!Intfs -> Settings!AllNames \cup {NoGroup}]
  /\ members \in [Settings!AllNames -> Seq(Settings!Intfs)]
  /\ dyn \in BOOLEAN /\ meddled \in BOOLEAN /\ died \in BOOLEAN

\* Interface i has an adjacency that is up.
CfgUp(i) == Settings!Active(i, ups)

CfgAdjs ==
  /\ \A i \in Settings!Intfs :
       /\ Len(adjs[i]) <= 1
       /\ adjs[i] # << >> => i \in enabled
       /\ \A n \in ToSet(adjs[i]) : <<i, n>> \in ConfigLinks
  /\ \A a \in ups : a \in ConfigLinks /\ a[2] \in ToSet(adjs[a[1]])

\* The two ends of membership agree.
CfgListed ==
  \A g \in Settings!AllNames :
    /\ IsInjective(members[g])
    /\ \A i \in Settings!Intfs : grp[i] = g <=> i \in ToSet(members[g])

CfgOrdered ==
  \A g \in Settings!AllNames : \A x, y :
    Before(members[g], x, y) /\ CfgUp(y) => CfgUp(x) \/ x \in stale

CfgGroups ==
  /\ \A i \in Settings!Intfs : grp[i] # NoGroup => grp[i] \in groups /\ i \in enabled
  /\ ~dyn => groups \subseteq GroupNames
  /\ dyn /\ ~meddled =>
       /\ \A g : g \in groups <=> \E i \in Settings!Intfs : g \in ToSet(adjs[i])
       /\ \A i \in Settings!Intfs, g \in Settings!AllNames : grp[i] = g <=> g \in ToSet(adjs[i])

CfgStale ==
  \A i \in stale : /\ i \in Settings!Intfs /\ grp[i] # NoGroup
                   /\ dyn => <<i, grp[i]>> \notin ConfigLinks

CfgSafe == CfgAdjs /\ CfgListed /\ CfgOrdered /\ CfgGroups /\ CfgStale /\ Settings!MapSound

CfgInv == CfgTypes /\ (died => meddled) /\ (~died => CfgSafe)

------------------------------------------------------------------------------
(* Lists of members *)

LEMMA BeforeIn ==
  ASSUME NEW s, NEW x, NEW y, Before(s, x, y)
  PROVE  x \in ToSet(s) /\ y \in ToSet(s)
  BY DEF Before, ToSet

\* IsisConfig has its operators on sequences by itself.
LEMMA CfgSequences ==
  ASSUME NEW s, NEW e
  PROVE  /\ Settings!RemoveFirst(s, e) = RemoveFirst(s, e) /\ Settings!ToSet(s) = ToSet(s)
         /\ Settings!Last(s) = s[Len(s)]
  BY DEF Settings!RemoveFirst, RemoveFirst, Settings!RemoveAt, RemoveAt, Settings!SelectInSeq,
         SelectInSeq, Settings!Min, Min, Settings!ToSet, ToSet, Settings!Last

\* What moving an interface to a group makes of the lists of members.
LEMMA CfgPlacedType ==
  ASSUME NEW m \in [Settings!AllNames -> Seq(Settings!Intfs)], NEW g \in Settings!AllNames,
         NEW i \in Settings!Intfs, NEW on \in BOOLEAN
  PROVE  Settings!Placed(m, g, i, on) \in [Settings!AllNames -> Seq(Settings!Intfs)]
  <1> DEFINE rest == [h \in Settings!AllNames |-> RemoveFirst(m[h], i)]
  <1>1. rest \in [Settings!AllNames -> Seq(Settings!Intfs)]
    BY RemoveFirstProperties
  <1> HIDE DEF rest
  <1>2. <<i>> \o rest[g] \in Seq(Settings!Intfs) /\ Append(rest[g], i) \in Seq(Settings!Intfs)
    BY <1>1, ConsElements, AppendElements
  <1>3. Settings!Placed(m, g, i, on) = [rest EXCEPT ![g] = IF on THEN <<i>> \o @ ELSE Append(@, i)]
    BY CfgSequences DEF Settings!Placed, rest
  <1> QED BY <1>1, <1>2, <1>3

CfgMoved(m, g, i, on, p) ==
  /\ p \in [Settings!AllNames -> Seq(Settings!Intfs)]
  /\ \A h \in Settings!AllNames :
       /\ IsInjective(p[h])
       /\ ToSet(p[h]) = IF h = g THEN ToSet(m[h]) \cup {i} ELSE ToSet(m[h]) \ {i}
       /\ \A x, y : Before(p[h], x, y) =>
            \/ x # i /\ y # i /\ Before(m[h], x, y)
            \/ h = g /\ on /\ x = i
            \/ h = g /\ ~on /\ y = i

LEMMA CfgPlaced ==
  ASSUME NEW m \in [Settings!AllNames -> Seq(Settings!Intfs)], NEW g \in Settings!AllNames,
         NEW i \in Settings!Intfs, NEW on \in BOOLEAN,
         \A h \in Settings!AllNames : IsInjective(m[h])
  PROVE  CfgMoved(m, g, i, on, Settings!Placed(m, g, i, on))
  <1> DEFINE p == Settings!Placed(m, g, i, on)
  <1> DEFINE rest == [h \in Settings!AllNames |-> RemoveFirst(m[h], i)]
  <1>1. ASSUME NEW h \in Settings!AllNames
        PROVE  /\ rest[h] \in Seq(Settings!Intfs) /\ IsInjective(rest[h])
               /\ ToSet(rest[h]) = ToSet(m[h]) \ {i}
               /\ \A x, y : Before(rest[h], x, y) => x # i /\ y # i /\ Before(m[h], x, y)
    <2>1. /\ rest[h] \in Seq(Settings!Intfs) /\ IsInjective(rest[h])
          /\ ToSet(rest[h]) = ToSet(m[h]) \ {i}
          /\ \A x, y : Before(rest[h], x, y) => Before(m[h], x, y)
      BY RemoveFirstProperties
    <2> HIDE DEF rest
    <2>2. i \notin ToSet(rest[h])
      BY <2>1
    <2> QED BY <2>1, <2>2, BeforeIn
  <1>2. p = [h \in Settings!AllNames |->
               IF h = g THEN IF on THEN <<i>> \o rest[g] ELSE Append(rest[g], i) ELSE rest[h]]
    BY CfgSequences DEF Settings!Placed
  <1> HIDE DEF rest, p
  <1>3. ASSUME on PROVE CfgMoved(m, g, i, on, p)
    <2>1. p[g] = <<i>> \o rest[g] /\ i \notin ToSet(rest[g])
      BY <1>1, <1>2, <1>3
    <2>2. /\ p[g] \in Seq(Settings!Intfs) /\ ToSet(p[g]) = ToSet(rest[g]) \cup {i} /\ IsInjective(p[g])
          /\ \A x, y : Before(p[g], x, y) => Before(rest[g], x, y) \/ (x = i /\ y \in ToSet(rest[g]))
      BY <1>1, <2>1, ConsElements
    <2> QED BY <1>1, <1>2, <1>3, <2>2 DEF CfgMoved
  <1>4. ASSUME ~on PROVE CfgMoved(m, g, i, on, p)
    <2>1. p[g] = Append(rest[g], i) /\ i \notin ToSet(rest[g])
      BY <1>1, <1>2, <1>4
    <2>2. /\ p[g] \in Seq(Settings!Intfs) /\ ToSet(p[g]) = ToSet(rest[g]) \cup {i} /\ IsInjective(p[g])
          /\ \A x, y : Before(p[g], x, y) => Before(rest[g], x, y) \/ (y = i /\ x \in ToSet(rest[g]))
      BY <1>1, <2>1, AppendElements
    <2> QED BY <1>1, <1>2, <1>4, <2>2 DEF CfgMoved
  <1>5. CfgMoved(m, g, i, on, p)
    BY <1>3, <1>4
  <1> QED BY <1>5 DEF p

\* Adjacencies that are up make an interface active, and nothing else does.
LEMMA CfgActive ==
  CfgTypes /\ CfgAdjs => \A i \in Settings!Intfs : CfgUp(i) <=> \E n : <<i, n>> \in ups
  <1> SUFFICES ASSUME CfgTypes, CfgAdjs, NEW i \in Settings!Intfs
               PROVE  CfgUp(i) <=> \E n : <<i, n>> \in ups
    OBVIOUS
  <1>1. adjs[i] \in Seq(Settings!Nbrs)
    BY DEF CfgTypes
  <1>2. ASSUME NEW n, <<i, n>> \in ups PROVE CfgUp(i)
    <2>1. n \in ToSet(adjs[i]) /\ <<i, n>> \in ConfigLinks
      BY <1>2 DEF CfgAdjs
    <2>2. adjs[i] # << >>
      BY <1>1, <2>1, Elements
    <2>3. <<i, Head(adjs[i])>> \in ConfigLinks
      BY <1>1, <2>2, TailElements DEF CfgAdjs
    <2>4. Head(adjs[i]) = n
      BY <2>1, <2>3, ConfigAssumption
    <2> QED BY <1>2, <2>2, <2>4 DEF CfgUp, Settings!Active
  <1> QED BY <1>2 DEF CfgUp, Settings!Active

\* The members of a group are interfaces of it.
LEMMA CfgMember ==
  ASSUME CfgTypes, CfgListed, NEW g \in Settings!AllNames, NEW x \in ToSet(members[g])
  PROVE  x \in Settings!Intfs /\ grp[x] = g /\ g # NoGroup
  <1>1. x \in Settings!Intfs
    BY Elements DEF CfgTypes
  <1> QED BY <1>1, ConfigAssumption DEF CfgListed

\* Steps that leave the lists alone.
LEMMA CfgKept ==
  ASSUME CfgTypes, CfgListed, CfgOrdered, UNCHANGED <<grp, members>>,
         \A x \in Settings!Intfs : grp[x] # NoGroup =>
           /\ CfgUp(x)' => CfgUp(x)
           /\ CfgUp(x) \/ x \in stale => CfgUp(x)' \/ x \in stale'
  PROVE  CfgListed' /\ CfgOrdered'
  <1>1. CfgListed'
    BY DEF CfgListed
  <1>2. ASSUME NEW g \in Settings!AllNames, NEW x, NEW y, Before(members[g], x, y), CfgUp(y)'
        PROVE  CfgUp(x)' \/ x \in stale'
    <2>1. /\ x \in Settings!Intfs /\ grp[x] # NoGroup
          /\ y \in Settings!Intfs /\ grp[y] # NoGroup
      BY <1>2, BeforeIn, CfgMember
    <2> QED BY <1>2, <2>1 DEF CfgOrdered
  <1>3. CfgOrdered'
    BY <1>2 DEF CfgOrdered
  <1> QED BY <1>1, <1>3

\* Steps that take an interface out of its group.
LEMMA CfgTaken ==
  ASSUME CfgTypes, CfgListed, CfgOrdered, NEW i \in Settings!Intfs,
         members' = [g \in Settings!AllNames |-> RemoveFirst(members[g], i)],
         grp' = [grp EXCEPT ![i] = NoGroup], stale \ {i} \subseteq stale',
         \A x \in Settings!Intfs : x # i => (CfgUp(x)' <=> CfgUp(x))
  PROVE  /\ members' \in [Settings!AllNames -> Seq(Settings!Intfs)]
         /\ CfgListed' /\ CfgOrdered'
  <1>1. ASSUME NEW g \in Settings!AllNames
        PROVE  /\ members'[g] \in Seq(Settings!Intfs) /\ IsInjective(members'[g])
               /\ ToSet(members'[g]) = ToSet(members[g]) \ {i}
               /\ \A x, y : Before(members'[g], x, y) => Before(members[g], x, y)
    BY RemoveFirstProperties DEF CfgTypes, CfgListed
  <1>2. CfgListed'
    BY <1>1, ConfigAssumption DEF CfgListed, CfgTypes
  <1>3. ASSUME NEW g \in Settings!AllNames, NEW x, NEW y, Before(members'[g], x, y), CfgUp(y)'
        PROVE  CfgUp(x)' \/ x \in stale'
    <2>1. x \in ToSet(members'[g]) /\ y \in ToSet(members'[g]) /\ Before(members[g], x, y)
      BY <1>1, <1>3, BeforeIn
    <2>2. x \in Settings!Intfs /\ y \in Settings!Intfs /\ x # i /\ y # i
      BY <1>1, <2>1, CfgMember
    <2> QED BY <1>3, <2>1, <2>2 DEF CfgOrdered
  <1>4. CfgOrdered'
    BY <1>3 DEF CfgOrdered
  <1> QED BY <1>1, <1>2, <1>4

\* Steps that put an interface into a group, in front if it is active.
LEMMA CfgPut ==
  ASSUME CfgTypes, CfgListed, CfgOrdered, NEW i \in Settings!Intfs, NEW g \in Settings!AllNames,
         NEW on \in BOOLEAN, members' = Settings!Placed(members, g, i, on),
         grp' = [grp EXCEPT ![i] = g], stale \ {i} \subseteq stale', CfgUp(i)' <=> on,
         \A x \in Settings!Intfs : x # i => (CfgUp(x)' <=> CfgUp(x))
  PROVE  /\ members' \in [Settings!AllNames -> Seq(Settings!Intfs)]
         /\ CfgListed' /\ CfgOrdered'
  <1>1. /\ members' \in [Settings!AllNames -> Seq(Settings!Intfs)]
        /\ \A h \in Settings!AllNames :
             /\ IsInjective(members'[h])
             /\ ToSet(members'[h]) = IF h = g THEN ToSet(members[h]) \cup {i} ELSE ToSet(members[h]) \ {i}
             /\ \A x, y : Before(members'[h], x, y) =>
                  \/ x # i /\ y # i /\ Before(members[h], x, y)
                  \/ h = g /\ on /\ x = i
                  \/ h = g /\ ~on /\ y = i
    <2>1. /\ members \in [Settings!AllNames -> Seq(Settings!Intfs)]
          /\ \A h \in Settings!AllNames : IsInjective(members[h])
      BY DEF CfgTypes, CfgListed
    <2>2. CfgMoved(members, g, i, on, members')
      BY <2>1, CfgPlaced, Zenon
    <2> QED BY ONLY <2>2 DEF CfgMoved
  <1>2. CfgListed'
    BY <1>1 DEF CfgListed, CfgTypes
  <1>3. ASSUME NEW h \in Settings!AllNames, NEW x, NEW y, Before(members'[h], x, y), CfgUp(y)'
        PROVE  CfgUp(x)' \/ x \in stale'
    <2>1. CASE x # i /\ y # i /\ Before(members[h], x, y)
      <3>1. x \in Settings!Intfs /\ y \in Settings!Intfs
        BY <2>1, BeforeIn, CfgMember
      <3> QED BY <1>3, <2>1, <3>1 DEF CfgOrdered
    <2>2. CASE on /\ x = i
      BY <2>2
    <2>3. CASE ~on /\ y = i
      BY <1>3, <2>3
    <2> QED BY <1>1, <1>3, <2>1, <2>2, <2>3
  <1>4. CfgOrdered'
    BY <1>3 DEF CfgOrdered
  <1> QED BY <1>1, <1>2, <1>4

------------------------------------------------------------------------------
(* The groups that are built from the adjacencies *)

\* Interface x has an adjacency, and its last one is with g.
CfgLeads(x, g) == adjs[x] # << >> /\ Settings!Last(adjs[x]) = g

LEMMA CfgLast ==
  ASSUME CfgTypes, NEW x \in Settings!Intfs, adjs[x] # << >>
  PROVE  /\ Settings!Last(adjs[x]) \in ToSet(adjs[x])
         /\ Settings!Last(adjs[x]) \in Settings!Nbrs /\ Settings!Last(adjs[x]) \in Settings!AllNames
  <1>1. adjs[x] \in Seq(Settings!Nbrs)
    BY DEF CfgTypes
  <1>2. Len(adjs[x]) \in 1..Len(adjs[x])
    BY <1>1, Elements
  <1>3. /\ adjs[x][Len(adjs[x])] \in ToSet(adjs[x]) /\ adjs[x][Len(adjs[x])] \in Settings!Nbrs
    BY <1>1, <1>2, Elements
  <1> QED BY <1>3, CfgSequences DEF Settings!AllNames

\* Putting the first k interfaces into their groups.
LEMMA CfgBuiltStep ==
  ASSUME CfgTypes
  PROVE  /\ Settings!Built[0] = [g \in Settings!AllNames |-> << >>]
         /\ \A k \in 1..Len(ConfigOrder) : Settings!Built[k] =
              IF adjs[ConfigOrder[k]] = << >> THEN Settings!Built[k - 1]
              ELSE Settings!Placed(Settings!Built[k - 1], Settings!Last(adjs[ConfigOrder[k]]),
                                   ConfigOrder[k], CfgUp(ConfigOrder[k]))
  <1> DEFINE N == Len(ConfigOrder)
             D == [Settings!AllNames -> Seq(Settings!Intfs)]
             none == [g \in Settings!AllNames |-> << >>]
             put(k, m) == IF adjs[ConfigOrder[k]] = << >> THEN m
                          ELSE Settings!Placed(m, Settings!Last(adjs[ConfigOrder[k]]),
                                               ConfigOrder[k], CfgUp(ConfigOrder[k]))
             h == [x \in (1..N) \X D |-> put(x[1], x[2])]
  <1>1. N \in Nat /\ \A k \in 1..N : ConfigOrder[k] \in Settings!Intfs
    BY ConfigAssumption, Elements
  <1>2. none \in D
    BY EmptySeq
  <1>3. ASSUME NEW k \in 1..N, NEW m \in D PROVE put(k, m) \in D
    <2>1. CASE adjs[ConfigOrder[k]] = << >>
      BY <2>1
    <2>2. CASE adjs[ConfigOrder[k]] # << >>
      <3>1. ConfigOrder[k] \in Settings!Intfs
        BY <1>1
      <3>2. CfgUp(ConfigOrder[k]) \in BOOLEAN
        BY DEF CfgUp, Settings!Active
      <3>3. Settings!Last(adjs[ConfigOrder[k]]) \in Settings!AllNames
        BY <2>2, <3>1, CfgLast
      <3> HIDE DEF N, D
      <3>4. Settings!Placed(m, Settings!Last(adjs[ConfigOrder[k]]), ConfigOrder[k], CfgUp(ConfigOrder[k])) \in D
        BY <1>3, <3>1, <3>2, <3>3, CfgPlacedType, Zenon DEF D
      <3> QED BY <2>2, <3>4
    <2> QED BY <2>1, <2>2
  <1>4. h \in [(1..N) \X D -> D]
    <2> HIDE DEF put, N, D
    <2> QED BY <1>3
  <1>5. PICK f \in [0..N -> D] : \A k \in 0..N : f[k] = IF k = 0 THEN none ELSE h[<<k, f[k - 1]>>]
    <2>1. \E f : IsSteps(f, D, none, N, h)
      <3> HIDE DEF h, D, none, N
      <3> QED BY <1>1, <1>2, <1>4, StepsExist, Zenon
    <2> HIDE DEF h, D, none, N
    <2> QED BY <2>1 DEF IsSteps
  <1>6. f = [k \in 0..N |-> IF k = 0 THEN none ELSE put(k, f[k - 1])]
    <2>1. ASSUME NEW k \in 0..N, k # 0 PROVE h[<<k, f[k - 1]>>] = put(k, f[k - 1])
      <3>1. k \in 1..N /\ k - 1 \in 0..N
        BY <1>1, <2>1
      <3>2. f[k - 1] \in D
        BY <1>5, <3>1
      <3> HIDE DEF put, N, D
      <3> QED BY <3>1, <3>2
    <2> HIDE DEF h, put, N, D, none
    <2> QED BY <1>5, <2>1
  <1> DEFINE built == CHOOSE b : b = [k \in 0..N |-> IF k = 0 THEN none ELSE put(k, b[k - 1])]
  <1>7. built = [k \in 0..N |-> IF k = 0 THEN none ELSE put(k, built[k - 1])]
    <2> HIDE DEF put, N, D, none, h
    <2> QED BY <1>6
  <1>8. Settings!Built = built
    BY DEF Settings!Built, CfgUp
  <1>9. \A k \in 0..N : Settings!Built[k] = IF k = 0 THEN none ELSE put(k, Settings!Built[k - 1])
    <2> HIDE DEF put, N, none, built
    <2> QED BY <1>7, <1>8
  <1>10. 0 \in 0..N /\ \A k \in 1..N : k \in 0..N /\ k # 0
    BY <1>1
  <1> HIDE DEF N
  <1> QED BY <1>9, <1>10 DEF N

\* What has been built of the first k interfaces.
CfgBuiltSound(k) ==
  LET m == Settings!Built[k] IN
  /\ m \in [Settings!AllNames -> Seq(Settings!Intfs)]
  /\ \A g \in Settings!AllNames :
       /\ IsInjective(m[g])
       /\ \A x : x \in ToSet(m[g]) <=> \E j \in 1..k : ConfigOrder[j] = x /\ CfgLeads(x, g)
       /\ \A x, y : Before(m[g], x, y) /\ CfgUp(y) => CfgUp(x)

LEMMA CfgBuiltGrows ==
  ASSUME CfgTypes, NEW k \in 1..Len(ConfigOrder), CfgBuiltSound(k - 1)
  PROVE  CfgBuiltSound(k)
  <1> DEFINE o == Settings!Built[k - 1]
             m == Settings!Built[k]
  <1>1. PICK i : i = ConfigOrder[k]
    OBVIOUS
  <1>2. i \in Settings!Intfs
    BY <1>1, ConfigAssumption, Elements
  <1>3. m = IF adjs[i] = << >> THEN o
            ELSE Settings!Placed(o, Settings!Last(adjs[i]), i, CfgUp(i))
    BY <1>1, CfgBuiltStep
  <1>4. Len(ConfigOrder) \in Nat
    BY ConfigAssumption, Elements
  <1>5. /\ o \in [Settings!AllNames -> Seq(Settings!Intfs)]
        /\ \A g \in Settings!AllNames :
             /\ IsInjective(o[g])
             /\ \A x : x \in ToSet(o[g]) <=> \E j \in 1..(k - 1) : ConfigOrder[j] = x /\ CfgLeads(x, g)
             /\ \A x, y : Before(o[g], x, y) /\ CfgUp(y) => CfgUp(x)
    BY DEF CfgBuiltSound
  <1> HIDE DEF o, m
  <1>6. ASSUME NEW g
        PROVE  \A x : (\E j \in 1..k : ConfigOrder[j] = x /\ CfgLeads(x, g))
                        <=> \/ \E j \in 1..(k - 1) : ConfigOrder[j] = x /\ CfgLeads(x, g)
                            \/ x = i /\ CfgLeads(i, g)
    <2>1. \A j : j \in 1..k <=> j \in 1..(k - 1) \/ j = k
      BY <1>4
    <2> QED BY <1>1, <2>1
  <1>7. CASE adjs[i] = << >>
    <2>1. m = o /\ \A g : ~CfgLeads(i, g)
      BY <1>3, <1>7 DEF CfgLeads
    <2> QED BY <1>5, <1>6, <2>1 DEF CfgBuiltSound, m
  <1>8. CASE adjs[i] # << >>
    <2>1. PICK l : l = Settings!Last(adjs[i])
      OBVIOUS
    <2>2. PICK on : on = CfgUp(i)
      OBVIOUS
    <2>3. l \in Settings!AllNames /\ \A g : CfgLeads(i, g) <=> g = l
      BY <1>2, <1>8, <2>1, CfgLast DEF CfgLeads
    <2>4. m = Settings!Placed(o, l, i, on) /\ on \in BOOLEAN
      <3>1. on \in BOOLEAN
        BY <2>2 DEF CfgUp, Settings!Active
      <3> QED BY <1>3, <1>8, <2>1, <2>2, <3>1
    <2>5. CfgMoved(o, l, i, on, m)
      <3>1. /\ o \in [Settings!AllNames -> Seq(Settings!Intfs)]
            /\ \A h \in Settings!AllNames : IsInjective(o[h])
        BY <1>5
      <3>2. l \in Settings!AllNames /\ on \in BOOLEAN
        BY <2>3, <2>4
      <3>3. CfgMoved(o, l, i, on, Settings!Placed(o, l, i, on))
        BY ONLY <1>2, <3>1, <3>2, CfgPlaced, Zenon
      <3> QED BY <2>4, <3>3
    <2>6. /\ m \in [Settings!AllNames -> Seq(Settings!Intfs)]
          /\ \A g \in Settings!AllNames :
               /\ IsInjective(m[g])
               /\ ToSet(m[g]) = IF g = l THEN ToSet(o[g]) \cup {i} ELSE ToSet(o[g]) \ {i}
      BY ONLY <2>5 DEF CfgMoved
    <2>7. ASSUME NEW g \in Settings!AllNames, NEW x, NEW y, Before(m[g], x, y)
          PROVE  \/ Before(o[g], x, y)
                 \/ CfgUp(i) /\ x = i
                 \/ ~CfgUp(i) /\ y = i
      BY <2>2, <2>5, <2>7 DEF CfgMoved
    <2>8. ASSUME NEW g \in Settings!AllNames, NEW x
          PROVE  x \in ToSet(m[g]) <=> \E j \in 1..k : ConfigOrder[j] = x /\ CfgLeads(x, g)
      <3>1. CASE x = i
        <4>1. CASE g = l
          BY <1>6, <2>3, <2>6, <3>1, <4>1
        <4>2. CASE g # l
          BY <1>6, <2>3, <2>6, <3>1, <4>2
        <4> QED BY <4>1, <4>2
      <3>2. CASE x # i
        <4>1. x \in ToSet(m[g]) <=> x \in ToSet(o[g])
          BY <2>6, <3>2
        <4>2. x \in ToSet(o[g]) <=> \E j \in 1..(k - 1) : ConfigOrder[j] = x /\ CfgLeads(x, g)
          BY <1>5
        <4> QED BY <1>6, <3>2, <4>1, <4>2
      <3> QED BY <3>1, <3>2
    <2>9. ASSUME NEW g \in Settings!AllNames, NEW x, NEW y, Before(m[g], x, y), CfgUp(y)
          PROVE  CfgUp(x)
      BY <1>5, <2>7, <2>9, ZenonT(40)
    <2> QED BY <2>6, <2>8, <2>9 DEF CfgBuiltSound, m
  <1> QED BY <1>7, <1>8

LEMMA CfgBuilt == ASSUME CfgTypes PROVE CfgBuiltSound(Len(ConfigOrder))
  <1> DEFINE T == {k \in 0..Len(ConfigOrder) : CfgBuiltSound(k)}
  <1>1. Len(ConfigOrder) \in Nat
    BY ConfigAssumption, Elements
  <1>2. CfgBuiltSound(0)
    <2>1. Settings!Built[0] = [g \in Settings!AllNames |-> << >>]
      BY CfgBuiltStep
    <2>2. /\ << >> \in Seq(Settings!Intfs) /\ IsInjective(<< >>)
          /\ \A x : x \notin ToSet(<< >>)
      BY EmptySeq DEF IsInjective, ToSet
    <2>3. \A x, y : ~Before(<< >>, x, y)
      BY <2>2, BeforeIn
    <2>4. 1..0 = {}
      OBVIOUS
    <2> QED BY <2>1, <2>2, <2>3, <2>4 DEF CfgBuiltSound
  <1>3. 0 \in T /\ \A k \in 1..Len(ConfigOrder) : k - 1 \in T => k \in T
    <2>1. ASSUME NEW k \in 1..Len(ConfigOrder), k - 1 \in T PROVE k \in T
      <3>1. CfgBuiltSound(k)
        BY <2>1, CfgBuiltGrows
      <3>2. k \in 0..Len(ConfigOrder)
        BY <1>1
      <3> QED BY <3>1, <3>2
    <2>2. 0 \in 0..Len(ConfigOrder)
      BY <1>1
    <2> QED BY <1>2, <2>1, <2>2
  <1>4. Len(ConfigOrder) \in T
    <2>1. Len(ConfigOrder) \in 0..Len(ConfigOrder)
      BY <1>1
    <2> HIDE DEF T
    <2> QED BY <1>1, <1>3, <2>1, UpTo
  <1> QED BY <1>4

\* Groups that become dynamic are those of the adjacencies there are.
LEMMA CfgBuild ==
  ASSUME CfgTypes, CfgSafe, Settings!Build, dyn' = TRUE, died' = FALSE, stale' = {},
         UNCHANGED <<enabled, adjs, ups, mapping, arp, meddled>>
  PROVE  CfgInv'
  <1> DEFINE n == Len(ConfigOrder)
  <1>1. /\ members' \in [Settings!AllNames -> Seq(Settings!Intfs)]
        /\ \A g \in Settings!AllNames :
             /\ IsInjective(members'[g])
             /\ \A x : x \in ToSet(members'[g]) <=> \E j \in 1..n : ConfigOrder[j] = x /\ CfgLeads(x, g)
             /\ \A x, y : Before(members'[g], x, y) /\ CfgUp(y) => CfgUp(x)
    <2>1. members' = Settings!Built[n]
      BY DEF Settings!Build
    <2>2. CfgBuiltSound(n)
      BY CfgBuilt
    <2> QED BY <2>1, <2>2 DEF CfgBuiltSound
  <1>2. \A x : x \in Settings!Intfs <=> \E j \in 1..n : ConfigOrder[j] = x
    <2>1. \A x : x \in Settings!Intfs <=> x \in ToSet(ConfigOrder)
      BY CfgSequences DEF Settings!Intfs
    <2> QED BY <2>1, ConfigAssumption, Elements
  <1>3. \A i \in Settings!Intfs : CfgUp(i)' <=> CfgUp(i)
    BY DEF CfgUp, Settings!Active
  <1>4. /\ grp' = [i \in Settings!Intfs |-> IF adjs[i] = << >> THEN NoGroup ELSE Settings!Last(adjs[i])]
        /\ groups' = UNION {Settings!ToSet(adjs[i]) : i \in Settings!Intfs}
    BY DEF Settings!Build
  <1>5. \A x \in Settings!Intfs, g \in Settings!AllNames : grp'[x] = g <=> CfgLeads(x, g)
    BY <1>4, ConfigAssumption DEF CfgLeads
  <1>6. CfgTypes'
    <2>1. grp' \in [Settings!Intfs -> Settings!AllNames \cup {NoGroup}]
      BY <1>4, CfgLast
    <2> QED BY <1>1, <2>1 DEF CfgTypes
  <1>7. CfgAdjs' /\ Settings!MapSound'
    BY DEF CfgAdjs, CfgSafe, Settings!MapSound
  <1>8. CfgListed'
    BY <1>1, <1>2, <1>5 DEF CfgListed
  <1>9. CfgOrdered'
    <2> SUFFICES ASSUME NEW g \in Settings!AllNames, NEW x, NEW y, Before(members'[g], x, y), CfgUp(y)'
                 PROVE  CfgUp(x)'
      BY DEF CfgOrdered
    <2>1. x \in Settings!Intfs /\ y \in Settings!Intfs
      BY <1>1, <1>2, BeforeIn
    <2> QED BY <1>1, <1>3, <2>1
  <1>10. \A g : g \in groups' <=> \E i \in Settings!Intfs : g \in ToSet(adjs[i])
    BY <1>4, CfgSequences
  <1>11. \A i \in Settings!Intfs : grp'[i] # NoGroup => grp'[i] \in groups' /\ i \in enabled'
    BY <1>4, <1>10, CfgLast DEF CfgSafe, CfgAdjs
  <1>12. ASSUME NEW i \in Settings!Intfs, NEW g \in Settings!AllNames
         PROVE  grp'[i] = g <=> g \in ToSet(adjs[i])
    <2>1. CASE adjs[i] = << >>
      <3>1. g \notin ToSet(adjs[i])
        BY <2>1 DEF ToSet
      <3> QED BY <1>4, <2>1, <3>1, ConfigAssumption
    <2>2. CASE adjs[i] # << >>
      <3>1. grp'[i] \in ToSet(adjs[i])
        BY <1>4, <2>2, CfgLast
      <3>2. \A a, b \in ToSet(adjs[i]) : a = b
        BY ConfigAssumption DEF CfgSafe, CfgAdjs
      <3> QED BY <3>1, <3>2
    <2> QED BY <2>1, <2>2
  <1>13. CfgGroups'
    BY <1>10, <1>11, <1>12 DEF CfgGroups
  <1>14. CfgStale'
    BY DEF CfgStale
  <1> QED BY <1>6, <1>7, <1>8, <1>9, <1>13, <1>14 DEF CfgInv, CfgSafe

------------------------------------------------------------------------------
(* Adjacencies come, change and go *)

\* A router has one neighbour on an interface.
LEMMA CfgOne ==
  ASSUME CfgTypes, CfgAdjs, NEW i \in Settings!Intfs
  PROVE  /\ \A n \in ToSet(adjs[i]) : <<i, n>> \in ConfigLinks
         /\ \A n, m : <<i, n>> \in ConfigLinks /\ <<i, m>> \in ConfigLinks => n = m
         /\ \A n : <<i, n>> \in ConfigLinks => n \in Settings!Nbrs /\ n \in Settings!AllNames
         /\ adjs[i] = << >> <=> ToSet(adjs[i]) = {}
  <1>1. adjs[i] = << >> <=> ToSet(adjs[i]) = {}
    BY Elements DEF CfgTypes
  <1>2. \A n, m : <<i, n>> \in ConfigLinks /\ <<i, m>> \in ConfigLinks => n = m
    BY ConfigAssumption
  <1>3. \A n : <<i, n>> \in ConfigLinks => n \in Settings!Nbrs /\ n \in Settings!AllNames
    BY ConfigAssumption DEF Settings!AllNames
  <1> QED BY <1>1, <1>2, <1>3 DEF CfgAdjs

\* What the activity of interfaces is, before and after a step.
LEMMA CfgUps ==
  ASSUME CfgTypes, CfgAdjs, CfgTypes', CfgAdjs'
  PROVE  /\ \A i \in Settings!Intfs : CfgUp(i) <=> \E n : <<i, n>> \in ups
         /\ \A i \in Settings!Intfs : CfgUp(i)' <=> \E n : <<i, n>> \in ups'
  <1>1. (CfgTypes /\ CfgAdjs => \A i \in Settings!Intfs : CfgUp(i) <=> \E n : <<i, n>> \in ups)'
    BY CfgActive, PTL
  <1> QED BY <1>1, CfgActive

LEMMA CfgNewStep ==
  ASSUME CfgTypes, CfgSafe, ~died, NEW i \in Settings!Intfs, NEW n, <<i, n>> \in ConfigLinks,
         Settings!New(i, n)
  PROVE  CfgInv'
  <1>1. /\ i \in enabled /\ n \notin ToSet(adjs[i])
        /\ adjs' = [adjs EXCEPT ![i] = <<n>> \o @]
        /\ UNCHANGED <<enabled, ups, dyn, mapping, arp, meddled, died>>
    BY CfgSequences DEF Settings!New
  <1>2. /\ CfgAdjs /\ CfgListed /\ CfgOrdered /\ CfgGroups /\ CfgStale /\ Settings!MapSound
    BY DEF CfgSafe
  <1>3. adjs[i] = << >> /\ n \in Settings!Nbrs /\ n \in Settings!AllNames /\ NoGroup # n
    <2>1. /\ \A m \in ToSet(adjs[i]) : m = n
          /\ n \in Settings!Nbrs /\ n \in Settings!AllNames
          /\ adjs[i] = << >> <=> ToSet(adjs[i]) = {}
      BY <1>2, CfgOne
    <2>2. ToSet(adjs[i]) = {}
      BY <1>1, <2>1
    <2> QED BY <2>1, <2>2, ConfigAssumption
  <1>4. /\ adjs'[i] \in Seq(Settings!Nbrs) /\ Len(adjs'[i]) = 1 /\ ToSet(adjs'[i]) = {n}
        /\ \A x \in Settings!Intfs : x # i => adjs'[x] = adjs[x]
        /\ adjs' \in [Settings!Intfs -> Seq(Settings!Nbrs)]
    <2>1. adjs[i] \in Seq(Settings!Nbrs) /\ Len(adjs[i]) = 0 /\ ToSet(adjs[i]) = {}
      BY <1>3, Elements DEF CfgTypes
    <2>2. /\ <<n>> \o adjs[i] \in Seq(Settings!Nbrs) /\ Len(<<n>> \o adjs[i]) = Len(adjs[i]) + 1
          /\ ToSet(<<n>> \o adjs[i]) = ToSet(adjs[i]) \cup {n}
      <3>1. PICK s : s = adjs[i]
        OBVIOUS
      <3>2. s \in Seq(Settings!Nbrs) /\ n \in Settings!Nbrs
        BY <1>3, <2>1, <3>1
      <3>3. /\ <<n>> \o s \in Seq(Settings!Nbrs) /\ Len(<<n>> \o s) = Len(s) + 1
            /\ ToSet(<<n>> \o s) = ToSet(s) \cup {n}
        BY ONLY <3>2, ConsElements
      <3> QED BY <3>1, <3>3
    <2> QED BY <1>1, <2>1, <2>2 DEF CfgTypes
  <1>5. ToSet(adjs[i]) = {}
    BY <1>2, <1>3, CfgOne
  <1>6. CfgAdjs'
    <2>1. ASSUME NEW x \in Settings!Intfs
          PROVE  /\ Len(adjs'[x]) <= 1 /\ (adjs'[x] # << >> => x \in enabled')
                 /\ \A m \in ToSet(adjs'[x]) : <<x, m>> \in ConfigLinks
      <3>1. CASE x = i
        BY <1>1, <1>4, <3>1
      <3>2. CASE x # i
        BY <1>1, <1>2, <1>4, <3>2 DEF CfgAdjs
      <3> QED BY <3>1, <3>2
    <2>2. ASSUME NEW a \in ups PROVE a \in ConfigLinks /\ a[2] \in ToSet(adjs'[a[1]])
      <3>1. a \in ConfigLinks /\ a[2] \in ToSet(adjs[a[1]]) /\ a[1] \in Settings!Intfs
        BY <1>2, ConfigAssumption DEF CfgAdjs
      <3> QED BY <1>4, <1>5, <3>1
    <2> QED BY <1>1, <2>1, <2>2 DEF CfgAdjs
  <1>7. Settings!MapSound'
    BY <1>1, <1>2 DEF Settings!MapSound
  <1>8. /\ ~(\E m : <<i, m>> \in ups)
        /\ \A g \in Settings!AllNames, x \in Settings!Intfs : g \in ToSet(adjs'[x]) <=>
             g \in ToSet(adjs[x]) \/ (x = i /\ g = n)
    <2>1. ~(\E m : <<i, m>> \in ups)
      BY <1>2, <1>5 DEF CfgAdjs
    <2> QED BY <1>4, <1>5, <2>1
  <1>9. ASSUME CfgTypes' PROVE /\ \A x \in Settings!Intfs : CfgUp(x)' <=> CfgUp(x)
                               /\ ~CfgUp(i) /\ ~CfgUp(i)'
    BY <1>1, <1>2, <1>6, <1>8, <1>9, CfgUps
  <1>10. CASE ~dyn
    <2>1. UNCHANGED <<groups, grp, members, stale>>
      BY <1>10 DEF Settings!New
    <2>2. CfgTypes'
      BY <1>1, <1>4, <2>1 DEF CfgTypes
    <2>3. CfgListed' /\ CfgOrdered'
      BY <1>2, <1>9, <2>1, <2>2, CfgKept
    <2>4. CfgGroups' /\ CfgStale'
      BY <1>1, <1>2, <1>10, <2>1 DEF CfgGroups, CfgStale
    <2> QED BY <1>1, <1>6, <1>7, <2>2, <2>3, <2>4 DEF CfgInv, CfgSafe
  <1>11. CASE dyn
    <2>1. /\ groups' = groups \cup {n} /\ grp' = [grp EXCEPT ![i] = n] /\ stale' = stale \ {i}
          /\ members' = IF grp[i] = n THEN members ELSE Settings!Placed(members, n, i, FALSE)
      BY <1>11 DEF Settings!New
    <2>2. members' \in [Settings!AllNames -> Seq(Settings!Intfs)]
      BY <1>3, <2>1, CfgPlacedType DEF CfgTypes
    <2>3. CfgTypes'
      BY <1>1, <1>3, <1>4, <2>1, <2>2 DEF CfgTypes
    <2>4. CfgListed' /\ CfgOrdered'
      <3>1. CASE grp[i] = n
        <4>1. grp' = grp /\ members' = members
          BY <2>1, <3>1 DEF CfgTypes
        <4>2. i \notin stale
          BY <1>2, <1>11, <3>1 DEF CfgStale
        <4> QED BY <1>2, <1>9, <2>1, <2>3, <4>1, <4>2, CfgKept
      <3>2. CASE grp[i] # n
        <4>1. members' = Settings!Placed(members, n, i, FALSE)
          BY <2>1, <3>2
        <4> QED BY <1>2, <1>3, <1>9, <2>1, <2>3, <4>1, CfgPut
      <3> QED BY <3>1, <3>2
    <2>5. CfgGroups'
      <3>1. \A x \in Settings!Intfs : grp'[x] = IF x = i THEN n ELSE grp[x]
        BY <2>1 DEF CfgTypes
      <3>2. \A x \in Settings!Intfs : grp'[x] # NoGroup => grp'[x] \in groups' /\ x \in enabled'
        BY <1>1, <1>2, <2>1, <3>1 DEF CfgGroups
      <3>3. ASSUME ~meddled
            PROVE  /\ \A g : g \in groups' <=> \E x \in Settings!Intfs : g \in ToSet(adjs'[x])
                   /\ \A x \in Settings!Intfs, g \in Settings!AllNames :
                        grp'[x] = g <=> g \in ToSet(adjs'[x])
        <4>1. /\ \A g : g \in groups <=> \E x \in Settings!Intfs : g \in ToSet(adjs[x])
              /\ \A x \in Settings!Intfs, g \in Settings!AllNames :
                   grp[x] = g <=> g \in ToSet(adjs[x])
          BY <1>2, <1>11, <3>3 DEF CfgGroups
        <4>2. ASSUME NEW g PROVE g \in groups' <=> \E x \in Settings!Intfs : g \in ToSet(adjs'[x])
          <5>1. CASE g = n
            BY <1>4, <2>1, <5>1
          <5>2. CASE g # n
            BY <1>4, <1>5, <2>1, <4>1, <5>2
          <5> QED BY <5>1, <5>2
        <4>3. ASSUME NEW x \in Settings!Intfs, NEW g \in Settings!AllNames
              PROVE  grp'[x] = g <=> g \in ToSet(adjs'[x])
          BY <1>4, <3>1, <4>1
        <4> QED BY <4>2, <4>3
      <3> QED BY <1>1, <1>11, <3>2, <3>3 DEF CfgGroups
    <2>6. CfgStale'
      <3>1. \A x \in stale' : x \in Settings!Intfs /\ grp'[x] = grp[x] /\ x \in stale
        BY <1>2, <2>1 DEF CfgTypes, CfgStale
      <3> QED BY <1>1, <1>2, <3>1 DEF CfgStale
    <2> QED BY <1>1, <1>6, <1>7, <2>3, <2>4, <2>5, <2>6 DEF CfgInv, CfgSafe
  <1> QED BY <1>10, <1>11 DEF CfgTypes

\* An adjacency goes up or down: its interface takes its place anew.
LEMMA CfgRefreshStep ==
  ASSUME CfgTypes, CfgSafe, ~died, NEW i \in Settings!Intfs, Settings!Refresh(i, ups'),
         UNCHANGED <<enabled, adjs, meddled>>, CfgAdjs', Settings!MapSound',
         \A x : x # i => \A n : <<x, n>> \in ups' <=> <<x, n>> \in ups
  PROVE  CfgInv'
  <1>1. /\ CfgAdjs /\ CfgListed /\ CfgOrdered /\ CfgGroups /\ CfgStale
    BY DEF CfgSafe
  <1>2. /\ members' = IF grp[i] = NoGroup THEN members
                      ELSE Settings!Placed(members, grp[i], i, CfgUp(i)')
        /\ stale' = stale \ {i} /\ UNCHANGED <<dyn, groups, grp, died>>
    BY DEF Settings!Refresh, CfgUp, Settings!Active
  <1>3. CfgUp(i)' \in BOOLEAN
    BY DEF CfgUp, Settings!Active
  <1>4. members' \in [Settings!AllNames -> Seq(Settings!Intfs)]
    <2>1. CASE grp[i] # NoGroup
      <3>1. grp[i] \in Settings!AllNames /\ members' = Settings!Placed(members, grp[i], i, CfgUp(i)')
        BY <1>2, <2>1 DEF CfgTypes
      <3> QED BY ONLY <1>3, <3>1, CfgPlacedType, CfgTypes, i \in Settings!Intfs, Zenon DEF CfgTypes
    <2> QED BY <1>2, <2>1 DEF CfgTypes
  <1>5. CfgTypes'
    BY <1>2, <1>4 DEF CfgTypes
  <1>6. \A x \in Settings!Intfs : x # i => (CfgUp(x)' <=> CfgUp(x))
    BY <1>1, <1>5, CfgUps
  <1>7. CfgListed' /\ CfgOrdered'
    <2>1. CASE grp[i] = NoGroup
      <3>1. UNCHANGED <<grp, members>>
        BY <1>2, <2>1
      <3>2. \A x \in Settings!Intfs : grp[x] # NoGroup => x # i
        BY <2>1
      <3>3. \A x \in Settings!Intfs : grp[x] # NoGroup =>
              /\ CfgUp(x)' => CfgUp(x)
              /\ CfgUp(x) \/ x \in stale => CfgUp(x)' \/ x \in stale'
        BY <1>2, <1>6, <3>2
      <3> QED BY <1>1, <3>1, <3>3, CfgKept
    <2>2. CASE grp[i] # NoGroup
      <3>1. PICK on : on = CfgUp(i)'
        OBVIOUS
      <3>2. PICK g : g = grp[i]
        OBVIOUS
      <3>3. /\ g \in Settings!AllNames /\ on \in BOOLEAN /\ members' = Settings!Placed(members, g, i, on)
            /\ grp' = [grp EXCEPT ![i] = g]
        BY <1>2, <1>3, <2>2, <3>1, <3>2 DEF CfgTypes
      <3> QED BY <1>1, <1>2, <1>6, <3>1, <3>3, CfgPut
    <2> QED BY <2>1, <2>2
  <1>8. CfgGroups' /\ CfgStale'
    BY <1>1, <1>2 DEF CfgGroups, CfgStale
  <1> QED BY <1>2, <1>5, <1>7, <1>8 DEF CfgInv, CfgSafe

LEMMA CfgUpStep ==
  ASSUME CfgTypes, CfgSafe, ~died, NEW i \in Settings!Intfs, NEW n, <<i, n>> \in ConfigLinks,
         Settings!Up(i, n) \/ Settings!Down(i, n)
  PROVE  CfgInv'
  <1>1. CASE Settings!Up(i, n)
    <2>1. /\ n \in ToSet(adjs[i]) /\ ups' = ups \cup {<<i, n>>}
          /\ arp' = IF mapping THEN arp \cup {<<i, n>>} ELSE arp
          /\ Settings!Refresh(i, ups') /\ UNCHANGED <<enabled, adjs, mapping, meddled>>
      BY <1>1, CfgSequences DEF Settings!Up
    <2>2. CfgAdjs' /\ Settings!MapSound'
      BY <2>1 DEF CfgSafe, CfgAdjs, Settings!MapSound
    <2> QED BY <2>1, <2>2, CfgRefreshStep
  <1>2. CASE Settings!Down(i, n)
    <2>1. /\ ups' = ups \ {<<i, n>>}
          /\ arp' = IF mapping THEN arp \ {<<i, n>>} ELSE arp
          /\ Settings!Refresh(i, ups') /\ UNCHANGED <<enabled, adjs, mapping, meddled>>
      BY <1>2 DEF Settings!Down
    <2>2. CfgAdjs' /\ Settings!MapSound'
      BY <2>1 DEF CfgSafe, CfgAdjs, Settings!MapSound
    <2> QED BY <2>1, <2>2, CfgRefreshStep
  <1> QED BY <1>1, <1>2

\* The adjacencies of an interface go, and it may leave its group.
LEMMA CfgLeaveStep ==
  ASSUME CfgTypes, CfgSafe, ~died, NEW i \in Settings!Intfs, NEW gone, NEW quits \in BOOLEAN,
         Settings!Leave(i, gone, quits), gone = ToSet(adjs[i]), quits \/ gone # {},
         adjs' = [adjs EXCEPT ![i] = << >>], ups' = {a \in ups : a[1] # i},
         enabled' = IF quits THEN enabled \ {i} ELSE enabled,
         UNCHANGED meddled, Settings!MapSound'
  PROVE  CfgInv'
  <1> DEFINE leaves == quits \/ (dyn /\ grp[i] \in gone)
  <1>1. /\ CfgAdjs /\ CfgListed /\ CfgOrdered /\ CfgGroups /\ CfgStale
    BY DEF CfgSafe
  <1>2. /\ grp' = IF leaves THEN [grp EXCEPT ![i] = NoGroup] ELSE grp
        /\ members' = IF leaves THEN [g \in Settings!AllNames |-> RemoveFirst(members[g], i)]
                      ELSE members
        /\ groups' = IF dyn THEN groups \ {g \in gone : members'[g] = << >>} ELSE groups
        /\ stale' = IF leaves THEN stale \ {i}
                    ELSE IF grp[i] # NoGroup /\ CfgUp(i) THEN stale \cup {i} ELSE stale
        /\ died' = (dyn /\ ~(gone \subseteq groups)) /\ dyn' = dyn
    BY CfgSequences DEF Settings!Leave, CfgUp
  <1>3. /\ adjs'[i] = << >> /\ ToSet(adjs'[i]) = {} /\ Len(adjs'[i]) = 0
        /\ \A x \in Settings!Intfs : x # i => adjs'[x] = adjs[x]
        /\ adjs' \in [Settings!Intfs -> Seq(Settings!Nbrs)]
    <2>1. << >> \in Seq(Settings!Nbrs) /\ ToSet(<< >>) = {} /\ Len(<< >>) = 0
      BY EmptySeq DEF ToSet
    <2> QED BY <2>1 DEF CfgTypes
  <1>4. CfgAdjs'
    <2>1. ASSUME NEW x \in Settings!Intfs
          PROVE  /\ Len(adjs'[x]) <= 1 /\ (adjs'[x] # << >> => x \in enabled')
                 /\ \A m \in ToSet(adjs'[x]) : <<x, m>> \in ConfigLinks
      <3>1. CASE x = i
        BY <1>3, <3>1
      <3>2. CASE x # i
        BY <1>1, <1>3, <3>2 DEF CfgAdjs
      <3> QED BY <3>1, <3>2
    <2>2. ASSUME NEW a \in ups, a[1] # i PROVE a \in ConfigLinks /\ a[2] \in ToSet(adjs'[a[1]])
      <3>1. a \in ConfigLinks /\ a[2] \in ToSet(adjs[a[1]]) /\ a[1] \in Settings!Intfs
        BY <1>1, ConfigAssumption DEF CfgAdjs
      <3> QED BY <1>3, <2>2, <3>1
    <2> QED BY <2>1, <2>2 DEF CfgAdjs
  <1>5. members' \in [Settings!AllNames -> Seq(Settings!Intfs)]
    <2>1. [g \in Settings!AllNames |-> RemoveFirst(members[g], i)]
            \in [Settings!AllNames -> Seq(Settings!Intfs)]
      BY RemoveFirstProperties DEF CfgTypes
    <2> QED BY <1>2, <2>1 DEF CfgTypes
  <1>6. CfgTypes'
    <2>1. grp' \in [Settings!Intfs -> Settings!AllNames \cup {NoGroup}]
      BY <1>2 DEF CfgTypes
    <2>2. enabled' \subseteq Settings!Intfs
      BY DEF CfgTypes
    <2>3. died' \in BOOLEAN
      BY <1>2 DEF CfgTypes
    <2> QED BY <1>2, <1>3, <1>5, <2>1, <2>2, <2>3 DEF CfgTypes
  <1>7. /\ \A x \in Settings!Intfs : x # i => (CfgUp(x)' <=> CfgUp(x))
        /\ ~CfgUp(i)'
    <2>1. ~CfgUp(i)'
      BY <1>3 DEF CfgUp, Settings!Active
    <2>2. \A x, n : x # i => (<<x, n>> \in ups' <=> <<x, n>> \in ups)
      OBVIOUS
    <2> QED BY <1>1, <1>4, <1>6, <2>1, <2>2, CfgUps
  <1> HIDE DEF leaves
  <1>8. CfgListed' /\ CfgOrdered'
    <2>1. CASE leaves
      BY <1>1, <1>2, <1>7, <2>1, CfgTaken
    <2>2. CASE ~leaves
      <3>1. \A x \in Settings!Intfs : grp[x] # NoGroup =>
              /\ CfgUp(x)' => CfgUp(x)
              /\ CfgUp(x) \/ x \in stale => CfgUp(x)' \/ x \in stale'
        BY <1>2, <1>7, <2>2
      <3> QED BY <1>1, <1>2, <2>2, <3>1, CfgKept
    <2> QED BY <2>1, <2>2
  <1>9. /\ \A x \in Settings!Intfs : grp'[x] = IF leaves /\ x = i THEN NoGroup ELSE grp[x]
        /\ quits \/ (dyn /\ grp[i] \in gone) <=> leaves
    BY <1>2 DEF CfgTypes, leaves
  <1>10. \A n \in gone : <<i, n>> \in ConfigLinks /\ n \in Settings!AllNames
    BY <1>1, CfgOne
  <1>11. ASSUME dyn, ~meddled
         PROVE  /\ \A g : g \in groups <=> \E x \in Settings!Intfs : g \in ToSet(adjs[x])
                /\ \A x \in Settings!Intfs, g \in Settings!AllNames : grp[x] = g <=> g \in ToSet(adjs[x])
    BY <1>1, <1>11 DEF CfgGroups
  <1>12. died' => meddled'
    BY <1>2, <1>11
  <1>13. ASSUME NEW g \in Settings!AllNames
         PROVE  members'[g] = << >> <=> \A x \in Settings!Intfs : grp'[x] # g
    <2>1. /\ members'[g] = << >> <=> ToSet(members'[g]) = {}
          /\ ToSet(members'[g]) \subseteq Settings!Intfs
      BY <1>5, Elements
    <2> QED BY <1>8, <2>1 DEF CfgListed
  <1>14. CfgGroups'
    <2>1. ASSUME NEW x \in Settings!Intfs, grp'[x] # NoGroup
          PROVE  grp'[x] \in groups' /\ x \in enabled'
      <3>1. grp'[x] = grp[x] /\ ~(leaves /\ x = i)
        BY <1>9, <2>1
      <3>2. grp[x] \in groups /\ x \in enabled /\ grp[x] \in Settings!AllNames
        BY <1>1, <2>1, <3>1 DEF CfgGroups, CfgTypes
      <3>3. x \in enabled'
        BY <1>9, <3>1, <3>2
      <3>4. members'[grp[x]] # << >>
        BY <1>13, <3>1, <3>2
      <3> QED BY <1>2, <3>1, <3>2, <3>3, <3>4
    <2>2. ~dyn' => groups' \subseteq GroupNames
      BY <1>1, <1>2 DEF CfgGroups
    <2>3. ASSUME dyn, ~meddled
          PROVE  /\ \A g : g \in groups' <=> \E x \in Settings!Intfs : g \in ToSet(adjs'[x])
                 /\ \A x \in Settings!Intfs, g \in Settings!AllNames : grp'[x] = g <=> g \in ToSet(adjs'[x])
      <3>1. ASSUME NEW x \in Settings!Intfs, NEW g \in Settings!AllNames
            PROVE  grp'[x] = g <=> g \in ToSet(adjs'[x])
        <4>1. CASE x # i
          BY <1>3, <1>9, <1>11, <2>3, <4>1
        <4>2. CASE x = i
          <5>1. leaves
            BY <1>9, <1>10, <1>11, <2>3, ZenonT(40)
          <5> QED BY <1>3, <1>9, <4>2, <5>1, ConfigAssumption
        <4> QED BY <4>1, <4>2
      <3>2. ASSUME NEW g PROVE g \in groups' <=> \E x \in Settings!Intfs : g \in ToSet(adjs'[x])
        <4>1. CASE g \in gone
          <5>1. g \in Settings!AllNames /\ g \in groups
            BY <1>10, <1>11, <2>3, <4>1
          <5>2. g \in groups' <=> \E x \in Settings!Intfs : grp'[x] = g
            BY <1>2, <1>13, <2>3, <4>1, <5>1
          <5> QED BY <3>1, <5>1, <5>2
        <4>2. CASE g \notin gone
          <5>1. g \in groups' <=> g \in groups
            BY <1>2, <2>3, <4>2
          <5>2. \A x \in Settings!Intfs : g \in ToSet(adjs'[x]) <=> g \in ToSet(adjs[x])
            BY <1>3, <4>2
          <5> QED BY <1>11, <2>3, <5>1, <5>2
        <4> QED BY <4>1, <4>2
      <3> QED BY <3>1, <3>2
    <2> QED BY <1>2, <2>1, <2>2, <2>3 DEF CfgGroups
  <1>15. CfgStale'
    <2> SUFFICES ASSUME NEW x \in stale'
                 PROVE  /\ x \in Settings!Intfs /\ grp'[x] # NoGroup
                        /\ dyn => <<x, grp'[x]>> \notin ConfigLinks
      BY <1>2 DEF CfgStale
    <2>1. CASE x \in stale /\ ~(leaves /\ x = i)
      BY <1>1, <1>9, <2>1 DEF CfgStale
    <2>2. CASE ~leaves /\ x = i /\ grp[i] # NoGroup
      <3>1. grp'[i] = grp[i] /\ ~quits /\ (dyn => grp[i] \notin gone)
        BY <1>9, <2>2
      <3>2. PICK n \in gone : <<i, n>> \in ConfigLinks
        BY <1>10, <3>1
      <3>3. dyn => <<i, grp[i]>> \notin ConfigLinks
        BY <1>1, <3>1, <3>2, CfgOne
      <3> QED BY <2>2, <3>1, <3>3
    <2> QED BY <1>2, <2>1, <2>2
  <1> QED BY <1>4, <1>6, <1>8, <1>12, <1>14, <1>15 DEF CfgInv, CfgSafe

LEMMA CfgForgetStep ==
  ASSUME CfgTypes, CfgSafe, ~died, NEW i \in Settings!Intfs, NEW n, <<i, n>> \in ConfigLinks,
         Settings!Forget(i, n)
  PROVE  CfgInv'
  <1>1. /\ n \in ToSet(adjs[i]) /\ <<i, n>> \notin ups
        /\ adjs' = [adjs EXCEPT ![i] = RemoveFirst(@, n)]
        /\ Settings!Leave(i, {n}, FALSE)
        /\ UNCHANGED <<enabled, ups, mapping, arp, meddled>>
    BY CfgSequences DEF Settings!Forget
  <1>2. /\ CfgAdjs /\ Settings!MapSound
    BY DEF CfgSafe
  <1>3. ToSet(adjs[i]) = {n}
    <2>1. \A m \in ToSet(adjs[i]) : <<i, m>> \in ConfigLinks
      BY <1>2, CfgOne
    <2>2. \A m \in ToSet(adjs[i]) : m = n
      BY <1>2, <2>1, CfgOne
    <2> QED BY <1>1, <2>2
  <1>4. RemoveFirst(adjs[i], n) = << >>
    <2>1. adjs[i] \in Seq(Settings!Nbrs) /\ Len(adjs[i]) <= 1
      BY <1>2 DEF CfgTypes, CfgAdjs
    <2>2. /\ RemoveFirst(adjs[i], n) \in Seq(Settings!Nbrs)
          /\ Len(RemoveFirst(adjs[i], n)) = Len(adjs[i]) - 1
      BY <1>1, <2>1, RemoveFirstProperties
    <2>3. Len(adjs[i]) \in Nat /\ Len(RemoveFirst(adjs[i], n)) \in Nat
      BY <2>1, <2>2, Elements
    <2>4. Len(RemoveFirst(adjs[i], n)) = 0
      <3>1. \A k, l : k \in Nat /\ l \in Nat /\ k <= 1 /\ l = k - 1 => l = 0
        OBVIOUS
      <3> QED BY ONLY <2>1, <2>2, <2>3, <3>1
    <2> QED BY <2>2, <2>4, Elements
  <1>5. ups' = {a \in ups : a[1] # i}
    <2>1. \A a \in ups : a = <<a[1], a[2]>> /\ a[2] \in ToSet(adjs[a[1]])
      BY <1>2, ConfigAssumption DEF CfgAdjs
    <2>2. \A a \in ups : a[1] # i
      BY <1>1, <1>3, <2>1
    <2> QED BY <1>1, <2>2
  <1>6. Settings!MapSound'
    BY <1>1, <1>2 DEF Settings!MapSound
  <1>7. adjs' = [adjs EXCEPT ![i] = << >>]
    BY <1>1, <1>4
  <1>8. enabled' = IF FALSE THEN enabled \ {i} ELSE enabled
    BY <1>1
  <1> QED BY <1>1, <1>3, <1>5, <1>6, <1>7, <1>8, CfgLeaveStep

LEMMA CfgDeleteAllStep ==
  ASSUME CfgTypes, CfgSafe, ~died, NEW i \in Settings!Intfs, NEW quits \in BOOLEAN,
         Settings!DeleteAll(i, quits), quits \/ adjs[i] # << >>,
         enabled' = IF quits THEN enabled \ {i} ELSE enabled, UNCHANGED <<mapping, meddled>>
  PROVE  CfgInv'
  <1> DEFINE gone == {<<i, n>> : n \in ToSet(adjs[i])}
  <1>1. /\ adjs' = [adjs EXCEPT ![i] = << >>] /\ ups' = ups \ gone
        /\ arp' = IF mapping THEN arp \ (gone \cap ups) ELSE arp
        /\ Settings!Leave(i, ToSet(adjs[i]), quits)
    BY CfgSequences DEF Settings!DeleteAll
  <1>2. /\ CfgAdjs /\ Settings!MapSound
    BY DEF CfgSafe
  <1>3. ups' = {a \in ups : a[1] # i}
    <2>1. \A a \in ups : a = <<a[1], a[2]>> /\ a[2] \in ToSet(adjs[a[1]])
      BY <1>2, ConfigAssumption DEF CfgAdjs
    <2>2. \A a \in ups : a \in gone <=> a[1] = i
      BY <2>1
    <2> HIDE DEF gone
    <2> QED BY <1>1, <2>2
  <1>4. Settings!MapSound'
    <2> HIDE DEF gone
    <2> QED BY <1>1, <1>2 DEF Settings!MapSound
  <1>5. quits \/ ToSet(adjs[i]) # {}
    BY <1>2, CfgOne
  <1> QED BY <1>1, <1>3, <1>4, <1>5, CfgLeaveStep

------------------------------------------------------------------------------
(* Commands on groups and mapping *)

\* All groups go, but for those of "new".
LEMMA CfgCleanupStep ==
  ASSUME CfgTypes, CfgSafe, ~died, NEW new \in SUBSET GroupNames, Settings!Cleanup(new), dyn' = FALSE,
         UNCHANGED <<enabled, adjs, ups, mapping, arp, meddled, died>>
  PROVE  CfgInv'
  <1>1. /\ groups' = new /\ members' = [g \in Settings!AllNames |-> << >>] /\ stale' = {}
        /\ grp' = [i \in Settings!Intfs |-> NoGroup]
    BY DEF Settings!Cleanup
  <1>2. /\ << >> \in Seq(Settings!Intfs) /\ IsInjective(<< >>) /\ \A x : x \notin ToSet(<< >>)
    BY EmptySeq DEF IsInjective, ToSet
  <1>3. CfgTypes'
    BY <1>1, <1>2 DEF CfgTypes
  <1>4. CfgAdjs' /\ Settings!MapSound'
    BY DEF CfgSafe, CfgAdjs, Settings!MapSound
  <1>5. CfgListed'
    BY <1>1, <1>2, ConfigAssumption DEF CfgListed
  <1>6. CfgOrdered'
    BY <1>1, <1>2, BeforeIn DEF CfgOrdered
  <1>7. CfgGroups' /\ CfgStale'
    BY <1>1 DEF CfgGroups, CfgStale
  <1> QED BY <1>3, <1>4, <1>5, <1>6, <1>7 DEF CfgInv, CfgSafe

LEMMA CfgGroupStep ==
  ASSUME CfgTypes, CfgSafe, ~died, NEW g \in GroupNames,
         Settings!ConfigGroup(g) \/ Settings!UnconfigGroup(g)
  PROVE  CfgInv'
  <1>1. /\ CfgAdjs /\ CfgListed /\ CfgOrdered /\ CfgGroups /\ CfgStale /\ Settings!MapSound
    BY DEF CfgSafe
  <1>2. g \in Settings!AllNames
    BY DEF Settings!AllNames
  <1>3. CASE Settings!ConfigGroup(g)
    <2>1. dyn' = FALSE /\ UNCHANGED <<enabled, adjs, ups, mapping, arp, meddled, died>>
      BY <1>3 DEF Settings!ConfigGroup
    <2>2. CASE dyn
      <3>1. Settings!Cleanup({g}) /\ {g} \in SUBSET GroupNames
        BY <1>3, <2>2 DEF Settings!ConfigGroup
      <3> QED BY <2>1, <3>1, CfgCleanupStep
    <2>3. CASE ~dyn
      <3>1. groups' = groups \cup {g} /\ UNCHANGED <<grp, members, stale>>
        BY <1>3, <2>3 DEF Settings!ConfigGroup
      <3>2. CfgTypes'
        BY <2>1, <3>1 DEF CfgTypes
      <3>3. \A x \in Settings!Intfs : CfgUp(x)' <=> CfgUp(x)
        BY <2>1 DEF CfgUp, Settings!Active
      <3>4. CfgListed' /\ CfgOrdered'
        BY <1>1, <3>1, <3>3, CfgKept
      <3>5. CfgAdjs' /\ Settings!MapSound'
        BY <1>1, <2>1 DEF CfgAdjs, Settings!MapSound
      <3>6. CfgGroups' /\ CfgStale'
        BY <1>1, <2>1, <2>3, <3>1 DEF CfgGroups, CfgStale
      <3> QED BY <2>1, <3>2, <3>4, <3>5, <3>6 DEF CfgInv, CfgSafe
    <2> QED BY <2>2, <2>3 DEF CfgTypes
  <1>4. CASE Settings!UnconfigGroup(g)
    <2>1. /\ ~dyn /\ UNCHANGED <<enabled, adjs, ups, mapping, arp, meddled>>
          /\ died' = (groups = {g} /\ \E i \in enabled : grp[i] \notin {g, NoGroup})
      BY <1>4 DEF Settings!UnconfigGroup
    <2>2. ~died' /\ died' = FALSE
      <3>1. \A i \in enabled : i \in Settings!Intfs
        BY DEF CfgTypes
      <3>2. ~(groups = {g} /\ \E i \in enabled : grp[i] \notin {g, NoGroup})
        BY <1>1, <3>1 DEF CfgGroups
      <3> QED BY <2>1, <3>2
    <2>3. CASE groups = {g}
      <3>1. dyn' = TRUE /\ stale' = {} /\ Settings!Build
        BY <1>4, <2>3 DEF Settings!UnconfigGroup
      <3> QED BY <2>1, <2>2, <3>1, CfgBuild
    <2>4. CASE groups # {g}
      <3>1. /\ groups' = groups \ {g} /\ dyn' = dyn
            /\ grp' = [i \in Settings!Intfs |-> IF grp[i] = g THEN NoGroup ELSE grp[i]]
            /\ members' = [members EXCEPT ![g] = << >>]
            /\ stale' = stale \ ToSet(members[g])
        BY <1>4, <2>4, CfgSequences DEF Settings!UnconfigGroup
      <3>2. /\ << >> \in Seq(Settings!Intfs) /\ IsInjective(<< >>) /\ \A x : x \notin ToSet(<< >>)
        BY EmptySeq DEF IsInjective, ToSet
      <3>3. CfgTypes'
        BY <2>1, <2>2, <3>1, <3>2 DEF CfgTypes
      <3>4. \A h \in Settings!AllNames : members'[h] = IF h = g THEN << >> ELSE members[h]
        BY <3>1 DEF CfgTypes
      <3>5. CfgListed'
        BY <1>1, <1>2, <3>1, <3>2, <3>4, ConfigAssumption DEF CfgListed
      <3>6. CfgOrdered'
        <4> SUFFICES ASSUME NEW h \in Settings!AllNames, NEW x, NEW y, Before(members'[h], x, y), CfgUp(y)'
                     PROVE  CfgUp(x)' \/ x \in stale'
          BY DEF CfgOrdered
        <4>1. \A z \in Settings!Intfs : CfgUp(z)' <=> CfgUp(z)
          BY <2>1 DEF CfgUp, Settings!Active
        <4>2. h # g
          BY <3>2, <3>4, BeforeIn
        <4>3. Before(members[h], x, y)
          BY <3>4, <4>2
        <4>4. x \in Settings!Intfs /\ y \in Settings!Intfs /\ grp[x] = h
          BY <1>1, <4>3, BeforeIn, CfgMember
        <4>5. x \notin ToSet(members[g])
          BY <1>1, <1>2, <4>2, <4>4, CfgMember
        <4> QED BY <1>1, <3>1, <4>1, <4>3, <4>4, <4>5 DEF CfgOrdered
      <3>7. CfgAdjs' /\ Settings!MapSound'
        BY <1>1, <2>1 DEF CfgAdjs, Settings!MapSound
      <3>8. CfgGroups'
        BY <1>1, <2>1, <3>1 DEF CfgGroups
      <3>9. CfgStale'
        <4> SUFFICES ASSUME NEW x \in stale' PROVE x \in Settings!Intfs /\ grp'[x] # NoGroup
          BY <2>1, <3>1 DEF CfgStale
        <4>1. x \in stale /\ x \in Settings!Intfs /\ grp[x] # NoGroup /\ x \notin ToSet(members[g])
          BY <1>1, <3>1 DEF CfgStale
        <4>2. grp[x] # g
          BY <1>1, <1>2, <4>1 DEF CfgListed
        <4> QED BY <3>1, <4>1, <4>2
      <3> QED BY <2>2, <3>3, <3>5, <3>6, <3>7, <3>8, <3>9 DEF CfgInv, CfgSafe
    <2> QED BY <2>3, <2>4
  <1> QED BY <1>3, <1>4

LEMMA CfgDynamicStep ==
  ASSUME CfgTypes, CfgSafe, ~died, Settings!ConfigDynamic \/ Settings!UnconfigDynamic
  PROVE  CfgInv'
  <1>1. CASE Settings!ConfigDynamic
    <2>1. /\ ~dyn /\ groups = {} /\ dyn' = TRUE /\ Settings!Build
          /\ died' = (\E i \in enabled : grp[i] # NoGroup)
          /\ UNCHANGED <<enabled, adjs, ups, mapping, arp, stale, meddled>>
      BY <1>1 DEF Settings!ConfigDynamic
    <2>2. \A i \in Settings!Intfs : grp[i] = NoGroup
      BY <2>1 DEF CfgSafe, CfgGroups
    <2>3. died' = FALSE
      <3>1. ~(\E i \in enabled : grp[i] # NoGroup)
        BY <2>2 DEF CfgTypes
      <3> QED BY <2>1, <3>1
    <2>4. stale' = {}
      BY <2>1, <2>2 DEF CfgSafe, CfgStale
    <2> QED BY <2>1, <2>3, <2>4, CfgBuild
  <1>2. CASE Settings!UnconfigDynamic
    <2>1. /\ dyn' = FALSE /\ Settings!Cleanup({})
          /\ UNCHANGED <<enabled, adjs, ups, mapping, arp, meddled, died>>
      BY <1>2 DEF Settings!UnconfigDynamic
    <2> QED BY <2>1, CfgCleanupStep
  <1> QED BY <1>1, <1>2

LEMMA CfgMemberStep ==
  ASSUME CfgTypes, CfgSafe, ~died, NEW i \in Settings!Intfs, NEW g \in Settings!AllNames,
         Settings!AddMember(i, g) \/ Settings!RemoveMember(i, g)
  PROVE  CfgInv'
  <1>1. /\ CfgAdjs /\ CfgListed /\ CfgOrdered /\ CfgGroups /\ CfgStale /\ Settings!MapSound
    BY DEF CfgSafe
  <1>2. /\ g \in groups /\ i \in enabled /\ stale' = stale \ {i} /\ meddled' = (meddled \/ dyn)
        /\ UNCHANGED <<enabled, adjs, ups, dyn, groups, mapping, arp, died>>
    BY DEF Settings!AddMember, Settings!RemoveMember
  <1>3. \A x \in Settings!Intfs : CfgUp(x)' <=> CfgUp(x)
    BY <1>2 DEF CfgUp, Settings!Active
  <1>4. CfgAdjs' /\ Settings!MapSound' /\ (died' => meddled')
    BY <1>1, <1>2 DEF CfgAdjs, Settings!MapSound
  <1>5. CASE Settings!AddMember(i, g)
    <2>1. /\ grp' = [grp EXCEPT ![i] = g]
          /\ members' = Settings!Placed(members, g, i, CfgUp(i))
      BY <1>5 DEF Settings!AddMember, CfgUp
    <2>2. PICK on : on = CfgUp(i)
      OBVIOUS
    <2>3. on \in BOOLEAN /\ members' = Settings!Placed(members, g, i, on)
      <3>1. on \in BOOLEAN
        BY <2>2 DEF CfgUp, Settings!Active
      <3> QED BY <2>1, <2>2, <3>1
    <2>4. /\ members' \in [Settings!AllNames -> Seq(Settings!Intfs)]
          /\ CfgListed' /\ CfgOrdered'
      BY <1>1, <1>2, <1>3, <2>1, <2>2, <2>3, CfgPut
    <2>5. CfgTypes'
      BY <1>2, <2>1, <2>4 DEF CfgTypes
    <2>6. \A x \in Settings!Intfs : grp'[x] = IF x = i THEN g ELSE grp[x]
      BY <2>1 DEF CfgTypes
    <2>7. CfgGroups' /\ CfgStale'
      BY <1>1, <1>2, <2>6 DEF CfgGroups, CfgStale, CfgTypes
    <2> QED BY <1>4, <2>4, <2>5, <2>7 DEF CfgInv, CfgSafe
  <1>6. CASE Settings!RemoveMember(i, g)
    <2>1. /\ grp[i] = g /\ grp' = [grp EXCEPT ![i] = NoGroup]
          /\ members' = [members EXCEPT ![g] = RemoveFirst(@, i)]
      BY <1>6, CfgSequences DEF Settings!RemoveMember
    <2>2. members' = [h \in Settings!AllNames |-> RemoveFirst(members[h], i)]
      <3>1. ASSUME NEW h \in Settings!AllNames, h # g PROVE RemoveFirst(members[h], i) = members[h]
        <4>1. members[h] \in Seq(Settings!Intfs) /\ i \notin ToSet(members[h])
          BY <1>1, <2>1, <3>1 DEF CfgTypes, CfgListed
        <4> QED BY <4>1, RemoveFirstProperties
      <3> QED BY <2>1, <3>1 DEF CfgTypes
    <2>3. /\ members' \in [Settings!AllNames -> Seq(Settings!Intfs)]
          /\ CfgListed' /\ CfgOrdered'
      BY <1>1, <1>2, <1>3, <2>1, <2>2, CfgTaken
    <2>4. CfgTypes'
      BY <1>2, <2>1, <2>3 DEF CfgTypes
    <2>5. \A x \in Settings!Intfs : grp'[x] = IF x = i THEN NoGroup ELSE grp[x]
      BY <2>1 DEF CfgTypes
    <2>6. CfgGroups' /\ CfgStale'
      BY <1>1, <1>2, <2>5 DEF CfgGroups, CfgStale, CfgTypes
    <2> QED BY <1>4, <2>3, <2>4, <2>6 DEF CfgInv, CfgSafe
  <1> QED BY <1>5, <1>6

\* Commands that leave the groups and the adjacencies alone.
LEMMA CfgMapStep ==
  ASSUME CfgTypes, CfgSafe, ~died,
         \/ Settings!Map \/ Settings!Unmap
         \/ \E i \in Settings!Intfs : Settings!EnableIntf(i)
  PROVE  CfgInv'
  <1>1. /\ CfgAdjs /\ CfgListed /\ CfgOrdered /\ CfgGroups /\ CfgStale /\ Settings!MapSound
    BY DEF CfgSafe
  <1>2. /\ UNCHANGED <<adjs, ups, dyn, groups, grp, members, stale, died, meddled>>
        /\ enabled \subseteq enabled' /\ enabled' \subseteq Settings!Intfs
    BY DEF Settings!Map, Settings!Unmap, Settings!EnableIntf, Settings!grpVars, CfgTypes
  <1>3. \A x \in Settings!Intfs : CfgUp(x)' <=> CfgUp(x)
    BY <1>2 DEF CfgUp, Settings!Active
  <1>4. Settings!MapSound'
    BY <1>1 DEF Settings!Map, Settings!Unmap, Settings!EnableIntf, Settings!MapSound
  <1>5. CfgTypes'
    BY <1>2 DEF CfgTypes
  <1>6. CfgListed' /\ CfgOrdered'
    BY <1>1, <1>2, <1>3, CfgKept
  <1>7. CfgAdjs' /\ CfgGroups' /\ CfgStale'
    BY <1>1, <1>2 DEF CfgAdjs, CfgGroups, CfgStale
  <1> QED BY <1>2, <1>4, <1>5, <1>6, <1>7 DEF CfgInv, CfgSafe

LEMMA CfgStep == CfgInv /\ [Settings!Next]_Settings!vars => CfgInv'
  <1> SUFFICES ASSUME CfgInv, [Settings!Next]_Settings!vars PROVE CfgInv'
    OBVIOUS
  <1>1. CASE UNCHANGED Settings!vars
    <2>1. UNCHANGED <<enabled, adjs, ups, dyn, groups, grp, members, mapping, arp, stale, meddled, died>>
      BY <1>1 DEF Settings!vars
    <2>2. \A x : CfgUp(x)' <=> CfgUp(x)
      BY <2>1 DEF CfgUp, Settings!Active
    <2>3. CfgTypes' /\ (died' => meddled')
      BY <2>1 DEF CfgInv, CfgTypes
    <2>4. ASSUME ~died PROVE CfgSafe'
      <3>1. CfgOrdered'
        BY <2>1, <2>2, <2>4 DEF CfgInv, CfgSafe, CfgOrdered
      <3> QED BY <2>1, <2>4, <3>1
            DEF CfgInv, CfgSafe, CfgAdjs, CfgListed, CfgGroups, CfgStale, Settings!MapSound
    <2> QED BY <2>1, <2>3, <2>4 DEF CfgInv
  <1>2. CASE Settings!Next
    <2>1. ~died /\ CfgTypes /\ CfgSafe
      BY <1>2 DEF Settings!Next, CfgInv
    <2>2. ASSUME NEW i \in Settings!Intfs, NEW n \in Settings!Nbrs, <<i, n>> \in ConfigLinks,
                 Settings!New(i, n) \/ Settings!Up(i, n) \/ Settings!Down(i, n) \/ Settings!Forget(i, n)
          PROVE  CfgInv'
      BY <2>1, <2>2, CfgNewStep, CfgUpStep, CfgForgetStep
    <2>3. ASSUME NEW i \in Settings!Intfs, Settings!Withdraw(i) PROVE CfgInv'
      <3>1. /\ Settings!DeleteAll(i, FALSE) /\ adjs[i] # << >> /\ UNCHANGED <<mapping, meddled>>
            /\ enabled' = IF FALSE THEN enabled \ {i} ELSE enabled
        BY <2>3 DEF Settings!Withdraw
      <3> QED BY <2>1, <3>1, CfgDeleteAllStep
    <2>4. ASSUME NEW i \in Settings!Intfs, Settings!DisableIntf(i) PROVE CfgInv'
      <3>1. /\ Settings!DeleteAll(i, TRUE) /\ UNCHANGED <<mapping, meddled>>
            /\ enabled' = IF TRUE THEN enabled \ {i} ELSE enabled
        BY <2>4 DEF Settings!DisableIntf
      <3> QED BY <2>1, <3>1, CfgDeleteAllStep
    <2> QED BY <1>2, <2>1, <2>2, <2>3, <2>4, CfgGroupStep, CfgMemberStep, CfgDynamicStep, CfgMapStep
          DEF Settings!Next
  <1> QED BY <1>1, <1>2

LEMMA CfgInit == Settings!Init => CfgInv
  <1> SUFFICES ASSUME Settings!Init PROVE CfgInv
    OBVIOUS
  <1>1. \A S : << >> \in Seq(S) /\ Len(<< >>) = 0 /\ ToSet(<< >>) = {} /\ IsInjective(<< >>)
    BY EmptySeq DEF IsInjective, ToSet
  <1>2. CfgTypes
    BY <1>1 DEF Settings!Init, CfgTypes
  <1>3. CfgAdjs /\ Settings!MapSound /\ CfgStale
    BY <1>1 DEF Settings!Init, CfgAdjs, Settings!MapSound, CfgStale
  <1>4. CfgListed
    BY <1>1, ConfigAssumption DEF Settings!Init, CfgListed
  <1>5. CfgOrdered
    BY <1>1, BeforeIn DEF Settings!Init, CfgOrdered
  <1>6. CfgGroups
    BY <1>1, ConfigAssumption DEF Settings!Init, CfgGroups
  <1> QED BY <1>2, <1>3, <1>4, <1>5, <1>6 DEF CfgInv, CfgSafe, Settings!Init

LEMMA CfgSound == CfgInv => Settings!ConfigSound
  <1> SUFFICES ASSUME CfgInv, ~died
               PROVE  Settings!MembersSound /\ Settings!ActiveFirst /\ Settings!MapSound
    BY DEF CfgInv, Settings!ConfigSound
  <1>1. /\ CfgTypes /\ CfgAdjs /\ CfgListed /\ CfgOrdered /\ CfgGroups /\ CfgStale /\ Settings!MapSound
    BY DEF CfgInv, CfgSafe
  <1>2. ASSUME NEW g \in Settings!AllNames
        PROVE  /\ \A x : x \in ToSet(members[g]) <=> \E k \in DOMAIN members[g] : members[g][k] = x
               /\ \A j, k \in DOMAIN members[g] : members[g][j] = members[g][k] => j = k
    BY <1>1 DEF CfgListed, IsInjective, ToSet
  <1>3. ASSUME NEW i \in Settings!Intfs, NEW g \in Settings!AllNames
        PROVE  /\ grp[i] = g <=> \E k \in DOMAIN members[g] : members[g][k] = i
               /\ grp[i] = g => g \in groups /\ i \in enabled
    BY <1>1, <1>2, ConfigAssumption DEF CfgListed, CfgGroups
  <1>4. ASSUME dyn, ~meddled
        PROVE  /\ groups = UNION {Settings!ToSet(adjs[i]) : i \in Settings!Intfs}
               /\ \A i \in Settings!Intfs : adjs[i] # << >> => grp[i] \in Settings!ToSet(adjs[i])
    <2>1. /\ \A g : g \in groups <=> \E x \in Settings!Intfs : g \in ToSet(adjs[x])
          /\ \A x \in Settings!Intfs, g \in Settings!AllNames : grp[x] = g <=> g \in ToSet(adjs[x])
      BY <1>1, <1>4 DEF CfgGroups
    <2>2. groups = UNION {Settings!ToSet(adjs[i]) : i \in Settings!Intfs}
      BY <2>1, CfgSequences
    <2>3. ASSUME NEW i \in Settings!Intfs, adjs[i] # << >> PROVE grp[i] \in ToSet(adjs[i])
      <3>1. PICK n : n \in ToSet(adjs[i])
        BY <1>1, <2>3, CfgOne
      <3>2. n \in Settings!AllNames
        BY <1>1, <3>1, CfgOne
      <3> QED BY <2>1, <3>1, <3>2
    <2> QED BY <2>2, <2>3, CfgSequences
  <1>5. Settings!MembersSound
    BY <1>1, <1>2, <1>3, <1>4 DEF Settings!MembersSound, CfgGroups
  <1>6. Settings!ActiveFirst
    BY <1>1 DEF Settings!ActiveFirst, CfgOrdered, CfgUp, Before
  <1> QED BY <1>1, <1>5, <1>6

------------------------------------------------------------------------------
\* Groups, their members and the ARP entries follow the adjacencies, and the
\* overload status its commands, whatever the commands are and in whatever order.
THEOREM IsisStaysSound == ServicesSpec => []IsisSound
  <1> DEFINE Inv == /\ subject = "settings" => CfgInv
                    /\ subject = "overload" => OvlTypes /\ Overload!OverloadSound
  <1>1. ServicesInit => Inv
    BY CfgInit, OvlInit DEF ServicesInit, Start
  <1>2. Inv /\ [ServicesNext]_<<subject, vars, services>> => Inv'
    BY SubjectStep, CfgStep, OvlTypesStep, OvlStep
  <1>3. Inv => IsisSound
    BY CfgSound DEF IsisSound
  <1> QED BY <1>1, <1>2, <1>3, PTL DEF ServicesSpec

------------------------------------------------------------------------------
(* Notification chains.  A chain of layer 2 has no element twice, and        *)
(* exactly the elements of the protocols that are on.                        *)

ChaElems == {Chains!DdcpQuery, Chains!IsisPkt, Chains!NmpPkt}
ChaOn(n) == {e \in ChaElems : /\ e = Chains!IsisPkt => isis[n] = "on"
                              /\ e = Chains!NmpPkt => n \in nmp}

ChaNode(n) ==
  /\ l2[n] \in Seq(ChaElems) /\ IsInjective(l2[n]) /\ ToSet(l2[n]) = ChaOn(n)
  /\ localIn[n] = <<Chains!DdcpReply>>
  /\ routes[n] = IF isis[n] = "on" THEN <<Chains!IsisRoute>> ELSE << >>

ChaInv ==
  /\ l2 = [n \in ChainNodes |-> l2[n]] /\ localIn = [n \in ChainNodes |-> localIn[n]]
  /\ routes = [n \in ChainNodes |-> routes[n]] /\ isis = [n \in ChainNodes |-> isis[n]]
  /\ nmpOnce \in BOOLEAN
  /\ \A n \in ChainNodes : ChaNode(n)
  /\ events = IF nmpOnce
              THEN <<Chains!Plain("nmp_interface_update"), Chains!Plain("isis_interface_updates"),
                     Chains!Plain("spf_algo_interface_update")>>
              ELSE <<Chains!Plain("isis_interface_updates"), Chains!Plain("spf_algo_interface_update")>>
  /\ tracing = IF nmpOnce
               THEN <<Chains!Keyed("nmp_print_hello_pkt", "nmp"), Chains!Keyed("isis_print_pkt", "isis")>>
               ELSE <<Chains!Keyed("isis_print_pkt", "isis")>>

LEMMA ChaDistinct ==
  /\ Chains!DdcpQuery # Chains!IsisPkt /\ Chains!DdcpQuery # Chains!NmpPkt
  /\ Chains!IsisPkt # Chains!NmpPkt
  BY DEF Chains!DdcpQuery, Chains!IsisPkt, Chains!NmpPkt, Chains!Elem

\* No two of these elements are the same to nfce_compare.
LEMMA ChaSame ==
  ASSUME NEW a \in ChaElems, NEW b \in ChaElems
  PROVE  Chains!Same(a, b) <=> a = b
  <1>1. a.key = Chains!NoKey /\ b.key = Chains!NoKey
    BY DEF ChaElems, Chains!DdcpQuery, Chains!IsisPkt, Chains!NmpPkt, Chains!Elem
  <1>2. a.cb = b.cb => a = b
    BY DEF ChaElems, Chains!DdcpQuery, Chains!IsisPkt, Chains!NmpPkt, Chains!Elem
  <1> QED BY <1>1, <1>2 DEF Chains!Same

\* Short chains.
LEMMA ChaShort ==
  ASSUME NEW x, NEW y, NEW z
  PROVE  /\ <<x>> \o << >> = <<x>> /\ <<x>> \o <<y>> = <<x, y>>
         /\ <<x>> \o <<y, z>> = <<x, y, z>>
  <1> DEFINE S == {x, y, z}
  <1>1. /\ <<x>> \in Seq(S) /\ <<y>> \in Seq(S) /\ <<y, z>> \in Seq(S)
        /\ <<x, y>> \in Seq(S) /\ <<x, y, z>> \in Seq(S)
    OBVIOUS
  <1>2. <<x>> \o << >> = <<x>>
    BY <1>1, ConcatEmptySeq
  <1>3. <<x>> \o <<y>> = <<x, y>>
    <2> DEFINE r == <<x>> \o <<y>>
    <2>1. /\ r \in Seq(S) /\ Len(r) = 1 + 1
          /\ \A i \in 1..(1 + 1) : r[i] = IF i <= 1 THEN <<x>>[i] ELSE <<y>>[i - 1]
      BY <1>1, ConcatProperties
    <2> HIDE DEF r
    <2>2. \A i \in 1..2 : r[i] = <<x, y>>[i]
      BY <2>1
    <2>3. r = <<x, y>>
      BY <1>1, <2>1, <2>2, SeqEqual
    <2> QED BY <2>3 DEF r
  <1>4. <<x>> \o <<y, z>> = <<x, y, z>>
    <2> DEFINE r == <<x>> \o <<y, z>>
    <2>1. /\ r \in Seq(S) /\ Len(r) = 1 + 2
          /\ \A i \in 1..(1 + 2) : r[i] = IF i <= 1 THEN <<x>>[i] ELSE <<y, z>>[i - 1]
      BY <1>1, ConcatProperties
    <2> HIDE DEF r
    <2>2. \A i \in 1..3 : r[i] = <<x, y, z>>[i]
      BY <2>1
    <2>3. r = <<x, y, z>>
      BY <1>1, <2>1, <2>2, SeqEqual
    <2> QED BY <2>3 DEF r
  <1> QED BY <1>2, <1>3, <1>4

LEMMA ChaCalled ==
  ASSUME NEW x, NEW y, NEW k
  PROVE  /\ Chains!Called(<< >>, k) = {}
         /\ Chains!Called(<<x>>, k) = IF Chains!Calls(x, k) THEN {1} ELSE {}
         /\ Chains!Calls(x, k) /\ ~Chains!Calls(y, k) => Chains!Called(<<x, y>>, k) = {1}
         /\ Chains!Calls(y, k) /\ ~Chains!Calls(x, k) => Chains!Called(<<x, y>>, k) = {2}
  BY DEF Chains!Called

LEMMA ChaRegister ==
  ASSUME NEW c \in Seq(ChaElems), NEW e \in ChaElems, IsInjective(c), e \notin ToSet(c)
  PROVE  /\ Chains!Register(c, e) \in Seq(ChaElems) /\ IsInjective(Chains!Register(c, e))
         /\ ToSet(Chains!Register(c, e)) = ToSet(c) \cup {e}
  BY ConsElements DEF Chains!Register

LEMMA ChaDeregister ==
  ASSUME NEW c \in Seq(ChaElems), NEW e \in ChaElems, IsInjective(c)
  PROVE  /\ Chains!Deregister(c, e) \in Seq(ChaElems) /\ IsInjective(Chains!Deregister(c, e))
         /\ ToSet(Chains!Deregister(c, e)) = ToSet(c) \ {e}
  <1>1. /\ DOMAIN c = 1..Len(c) /\ Len(c) \in Nat
        /\ \A i \in 1..Len(c) : c[i] \in ChaElems
        /\ \A x : x \in ToSet(c) <=> \E i \in 1..Len(c) : c[i] = x
    BY Elements
  <1>2. Chains!Matches(c, e) = {i \in 1..Len(c) : c[i] = e}
    BY <1>1, ChaSame DEF Chains!Matches
  <1>3. CASE e \notin ToSet(c)
    <2>1. Chains!Deregister(c, e) = c
      BY <1>1, <1>2, <1>3 DEF Chains!Deregister
    <2> QED BY <1>3, <2>1
  <1>4. CASE e \in ToSet(c)
    <2>1. PICK k \in 1..Len(c) : c[k] = e
      BY <1>1, <1>4
    <2>2. \A i \in 1..Len(c) : c[i] = e => i = k
      BY <1>1, <2>1 DEF IsInjective
    <2>3. Chains!Matches(c, e) = {k}
      BY <1>2, <2>1, <2>2
    <2>4. (CHOOSE i \in {k} : \A j \in {k} : i <= j) = k
      BY <2>1
    <2>5. Chains!Deregister(c, e) = RemoveAt(c, k)
      BY <2>3, <2>4 DEF Chains!Deregister, Chains!RemoveAt, RemoveAt
    <2>6. SelectInSeq(c, LAMBDA v : v = e) = k
      <3>1. {i \in 1..Len(c) : c[i] = e} = {k}
        BY <2>1, <2>2
      <3>2. Min({k}) = k
        BY <2>1 DEF Min
      <3> QED BY <1>1, <2>1, <3>1, <3>2 DEF SelectInSeq
    <2>7. RemoveFirst(c, e) = RemoveAt(c, k)
      BY <2>1, <2>6 DEF RemoveFirst
    <2> QED BY <2>5, <2>7, RemoveFirstProperties
  <1> QED BY <1>3, <1>4

LEMMA ChaInit == Chains!Init => ChaInv
  <1> SUFFICES ASSUME Chains!Init PROVE ChaInv
    OBVIOUS
  <1>1. \A x, y : /\ <<x>> \o << >> = <<x>> /\ <<x>> \o <<y>> = <<x, y>>
    BY ChaShort
  <1>2. /\ <<Chains!DdcpQuery>> \in Seq(ChaElems) /\ IsInjective(<<Chains!DdcpQuery>>)
        /\ ToSet(<<Chains!DdcpQuery>>) = {Chains!DdcpQuery}
    BY DEF ChaElems, IsInjective, ToSet
  <1>3. \A n \in ChainNodes : ChaNode(n)
    <2> TAKE n \in ChainNodes
    <2>1. /\ l2[n] = <<Chains!DdcpQuery>> /\ localIn[n] = <<Chains!DdcpReply>>
          /\ routes[n] = << >> /\ isis[n] = "off" /\ nmp = {}
      BY <1>1 DEF Chains!Init, Chains!Register
    <2>2. ChaOn(n) = {Chains!DdcpQuery}
      BY <2>1, ChaDistinct DEF ChaOn, ChaElems
    <2> QED BY <1>2, <2>1, <2>2 DEF ChaNode
  <1> QED BY <1>1, <1>3 DEF ChaInv, Chains!Init, Chains!Register

LEMMA ChaStep == ChaInv /\ [Chains!Next]_Chains!vars => ChaInv'
  <1> SUFFICES ASSUME ChaInv, [Chains!Next]_Chains!vars PROVE ChaInv'
    OBVIOUS
  \* A step that changes the chains of one node.
  <1>1. ASSUME NEW n \in ChainNodes, ChaNode(n)',
               isis' = [isis EXCEPT ![n] = isis'[n]], l2' = [l2 EXCEPT ![n] = l2'[n]],
               routes' = [routes EXCEPT ![n] = routes'[n]], UNCHANGED localIn,
               nmp \ {n} = nmp' \ {n}
        PROVE  \A m \in ChainNodes : ChaNode(m)'
    <2> TAKE m \in ChainNodes
    <2>1. CASE m = n
      BY <1>1, <2>1
    <2>2. CASE m # n
      <3>1. /\ isis'[m] = isis[m] /\ l2'[m] = l2[m] /\ routes'[m] = routes[m]
            /\ localIn'[m] = localIn[m] /\ (m \in nmp' <=> m \in nmp)
        BY <1>1, <2>2 DEF ChaInv
      <3>2. ChaOn(m)' = ChaOn(m)
        BY <3>1 DEF ChaOn
      <3> QED BY <3>1, <3>2 DEF ChaInv, ChaNode
    <2> QED BY <2>1, <2>2
  <1>2. ASSUME NEW n \in ChainNodes, Chains!IsisInit(n) PROVE ChaInv'
    <2>1. /\ isis[n] = "off" /\ isis'[n] = "on" /\ l2'[n] = Chains!Register(l2[n], Chains!IsisPkt)
          /\ routes'[n] = Chains!Register(routes[n], Chains!IsisRoute)
          /\ isis' = [isis EXCEPT ![n] = isis'[n]] /\ l2' = [l2 EXCEPT ![n] = l2'[n]]
          /\ routes' = [routes EXCEPT ![n] = routes'[n]]
          /\ UNCHANGED <<localIn, events, tracing, nmp, nmpOnce>>
      BY <1>2 DEF ChaInv, Chains!IsisInit
    <2>2. ChaNode(n)'
      <3>1. ChaNode(n)
        BY DEF ChaInv
      <3>2. Chains!IsisPkt \in ChaElems /\ Chains!IsisPkt \notin ToSet(l2[n])
        BY <2>1, <3>1 DEF ChaElems, ChaNode, ChaOn
      <3>3. /\ l2'[n] \in Seq(ChaElems) /\ IsInjective(l2'[n])
            /\ ToSet(l2'[n]) = ToSet(l2[n]) \cup {Chains!IsisPkt}
        BY <2>1, <3>1, <3>2, ChaRegister DEF ChaNode
      <3>4. ChaOn(n)' = ChaOn(n) \cup {Chains!IsisPkt}
        BY <2>1, ChaDistinct DEF ChaOn, ChaElems
      <3>5. routes'[n] = <<Chains!IsisRoute>> /\ localIn'[n] = localIn[n]
        BY <2>1, <3>1 DEF ChaNode, Chains!Register
      <3> QED BY <2>1, <3>1, <3>3, <3>4, <3>5 DEF ChaNode
    <2>3. \A m \in ChainNodes : ChaNode(m)'
      BY <1>1, <2>1, <2>2
    <2> QED BY <2>1, <2>3 DEF ChaInv
  <1>3. ASSUME NEW n \in ChainNodes, Chains!IsisDeInit(n) PROVE ChaInv'
    <2>1. /\ isis[n] # "off" /\ isis'[n] = "shutdown"
          /\ l2'[n] = Chains!Deregister(l2[n], Chains!IsisPkt)
          /\ routes'[n] = Chains!Deregister(routes[n], Chains!IsisRoute)
          /\ isis' = [isis EXCEPT ![n] = isis'[n]] /\ l2' = [l2 EXCEPT ![n] = l2'[n]]
          /\ routes' = [routes EXCEPT ![n] = routes'[n]]
          /\ UNCHANGED <<localIn, events, tracing, nmp, nmpOnce>>
      BY <1>3 DEF ChaInv, Chains!IsisDeInit
    <2>2. ChaNode(n)'
      <3>1. ChaNode(n)
        BY DEF ChaInv
      <3>2. Chains!IsisPkt \in ChaElems
        BY DEF ChaElems
      <3>3. /\ l2'[n] \in Seq(ChaElems) /\ IsInjective(l2'[n])
            /\ ToSet(l2'[n]) = ToSet(l2[n]) \ {Chains!IsisPkt}
        BY <2>1, <3>1, <3>2, ChaDeregister DEF ChaNode
      <3>4. ChaOn(n)' = ChaOn(n) \ {Chains!IsisPkt}
        BY <2>1, ChaDistinct DEF ChaOn, ChaElems
      <3>5. routes'[n] = << >> /\ localIn'[n] = localIn[n]
        <4>1. Chains!Deregister(<< >>, Chains!IsisRoute) = << >>
          BY DEF Chains!Deregister, Chains!Matches
        <4>2. Chains!Deregister(<<Chains!IsisRoute>>, Chains!IsisRoute) = << >>
          <5> DEFINE c == <<Chains!IsisRoute>>
          <5>1. Chains!Matches(c, Chains!IsisRoute) = {1}
            <6>1. Chains!Same(Chains!IsisRoute, Chains!IsisRoute)
              BY DEF Chains!Same, Chains!IsisRoute, Chains!Elem
            <6> QED BY <6>1 DEF Chains!Matches
          <5>2. (CHOOSE i \in {1} : \A j \in {1} : i <= j) = 1
            OBVIOUS
          <5>3. c \in Seq({Chains!IsisRoute}) /\ Len(c) = 1
            OBVIOUS
          <5>4. Chains!Deregister(c, Chains!IsisRoute) = RemoveAt(c, 1)
            BY <5>1, <5>2 DEF Chains!Deregister, Chains!RemoveAt, RemoveAt
          <5>5. RemoveAt(c, 1) \in Seq({Chains!IsisRoute}) /\ Len(RemoveAt(c, 1)) = 0
            <6>1. 1 \in 1..Len(c)
              BY <5>3
            <6> HIDE DEF c
            <6> QED BY <5>3, <6>1, RemoveAtProperties, SMTT(30)
          <5> QED BY <5>4, <5>5, Elements
        <4> QED BY <2>1, <3>1, <4>1, <4>2 DEF ChaNode
      <3> QED BY <2>1, <3>1, <3>3, <3>4, <3>5 DEF ChaNode
    <2>3. \A m \in ChainNodes : ChaNode(m)'
      BY <1>1, <2>1, <2>2
    <2> QED BY <2>1, <2>3 DEF ChaInv
  <1>4. ASSUME NEW n \in ChainNodes, Chains!IsisGone(n) PROVE ChaInv'
    <2>1. /\ isis[n] = "shutdown" /\ isis'[n] = "off" /\ isis' = [isis EXCEPT ![n] = isis'[n]]
          /\ l2' = [l2 EXCEPT ![n] = l2'[n]] /\ routes' = [routes EXCEPT ![n] = routes'[n]]
          /\ UNCHANGED <<l2, localIn, routes, events, tracing, nmp, nmpOnce>>
      BY <1>4 DEF ChaInv, Chains!IsisGone
    <2>2. ChaNode(n)'
      <3>1. ChaOn(n)' = ChaOn(n)
        BY <2>1 DEF ChaOn
      <3> QED BY <2>1, <3>1 DEF ChaInv, ChaNode
    <2>3. \A m \in ChainNodes : ChaNode(m)'
      BY <1>1, <2>1, <2>2
    <2> QED BY <2>1, <2>3 DEF ChaInv
  <1>5. ASSUME NEW n \in ChainNodes, Chains!NmpEnable(n) PROVE ChaInv'
    <2>1. /\ n \notin nmp /\ nmp' = nmp \cup {n} /\ nmpOnce' = TRUE
          /\ l2'[n] = Chains!Register(l2[n], Chains!NmpPkt) /\ l2' = [l2 EXCEPT ![n] = l2'[n]]
          /\ isis' = [isis EXCEPT ![n] = isis'[n]] /\ routes' = [routes EXCEPT ![n] = routes'[n]]
          /\ UNCHANGED <<localIn, routes, isis>>
      BY <1>5 DEF ChaInv, Chains!NmpEnable
    <2>2. ChaNode(n)'
      <3>1. ChaNode(n)
        BY DEF ChaInv
      <3>2. Chains!NmpPkt \in ChaElems /\ Chains!NmpPkt \notin ToSet(l2[n])
        BY <2>1, <3>1 DEF ChaElems, ChaNode, ChaOn
      <3>3. /\ l2'[n] \in Seq(ChaElems) /\ IsInjective(l2'[n])
            /\ ToSet(l2'[n]) = ToSet(l2[n]) \cup {Chains!NmpPkt}
        BY <2>1, <3>1, <3>2, ChaRegister DEF ChaNode
      <3>4. ChaOn(n)' = ChaOn(n) \cup {Chains!NmpPkt}
        BY <2>1, ChaDistinct DEF ChaOn, ChaElems
      <3> QED BY <2>1, <3>1, <3>3, <3>4 DEF ChaNode
    <2>3. \A m \in ChainNodes : ChaNode(m)'
      BY <1>1, <2>1, <2>2
    <2>4. \A x, y, z : <<x>> \o <<y>> = <<x, y>> /\ <<x>> \o <<y, z>> = <<x, y, z>>
      BY ChaShort
    <2>5. /\ tracing' = IF nmpOnce THEN tracing
                        ELSE <<Chains!Keyed("nmp_print_hello_pkt", "nmp")>> \o tracing
          /\ events' = IF nmpOnce THEN events ELSE <<Chains!Plain("nmp_interface_update")>> \o events
      BY <1>5 DEF Chains!NmpEnable, Chains!Register
    <2> QED BY <2>1, <2>3, <2>4, <2>5 DEF ChaInv
  <1>6. ASSUME NEW n \in ChainNodes, Chains!NmpDisable(n) PROVE ChaInv'
    <2>1. /\ n \in nmp /\ nmp' = nmp \ {n}
          /\ l2'[n] = Chains!Deregister(l2[n], Chains!NmpPkt) /\ l2' = [l2 EXCEPT ![n] = l2'[n]]
          /\ isis' = [isis EXCEPT ![n] = isis'[n]] /\ routes' = [routes EXCEPT ![n] = routes'[n]]
          /\ UNCHANGED <<localIn, routes, isis, events, tracing, nmpOnce>>
      BY <1>6 DEF ChaInv, Chains!NmpDisable
    <2>2. ChaNode(n)'
      <3>1. ChaNode(n)
        BY DEF ChaInv
      <3>2. Chains!NmpPkt \in ChaElems
        BY DEF ChaElems
      <3>3. /\ l2'[n] \in Seq(ChaElems) /\ IsInjective(l2'[n])
            /\ ToSet(l2'[n]) = ToSet(l2[n]) \ {Chains!NmpPkt}
        BY <2>1, <3>1, <3>2, ChaDeregister DEF ChaNode
      <3>4. ChaOn(n)' = ChaOn(n) \ {Chains!NmpPkt}
        BY <2>1, ChaDistinct DEF ChaOn, ChaElems
      <3> QED BY <2>1, <3>1, <3>3, <3>4 DEF ChaNode
    <2>3. \A m \in ChainNodes : ChaNode(m)'
      BY <1>1, <2>1, <2>2
    <2> QED BY <2>1, <2>3 DEF ChaInv
  <1>7. CASE UNCHANGED Chains!vars
    BY <1>7 DEF Chains!vars, ChaInv, ChaNode, ChaOn
  <1> QED BY <1>2, <1>3, <1>4, <1>5, <1>6, <1>7 DEF Chains!Next

\* A chain in which just the element at i is called for k.
LEMMA ChaSound == ChaInv => Chains!DeliveredOnce
  <1> SUFFICES ASSUME ChaInv PROVE Chains!DeliveredOnce
    OBVIOUS
  <1>1. ASSUME NEW n \in ChainNodes, NEW e \in ChaElems, NEW k,
               \A x \in ChaElems : Chains!Calls(x, k) <=> x = e
        PROVE  Chains!Iff(e \in ChaOn(n), l2[n], k, e.cb)
    <2>1. /\ l2[n] \in Seq(ChaElems) /\ IsInjective(l2[n]) /\ ToSet(l2[n]) = ChaOn(n)
      BY DEF ChaInv, ChaNode
    <2>2. /\ DOMAIN l2[n] = 1..Len(l2[n]) /\ \A i \in DOMAIN l2[n] : l2[n][i] \in ChaElems
          /\ \A x : x \in ToSet(l2[n]) <=> \E i \in 1..Len(l2[n]) : l2[n][i] = x
      BY <2>1, Elements
    <2>3. Chains!Called(l2[n], k) = {i \in DOMAIN l2[n] : l2[n][i] = e}
      BY <1>1, <2>2 DEF Chains!Called
    <2>4. CASE e \in ChaOn(n)
      <3>1. PICK i \in DOMAIN l2[n] : l2[n][i] = e
        BY <2>1, <2>2, <2>4
      <3>2. Chains!Called(l2[n], k) = {i}
        BY <2>1, <2>3, <3>1 DEF IsInjective
      <3> QED BY <2>4, <3>1, <3>2 DEF Chains!Iff, Chains!Reaches
    <2>5. CASE e \notin ChaOn(n)
      BY <2>1, <2>2, <2>3, <2>5 DEF Chains!Iff
    <2> QED BY <2>4, <2>5
  <1>2. ASSUME NEW n \in ChainNodes
        PROVE  /\ Chains!Iff(isis[n] = "on", l2[n], "isis", Chains!IsisPkt.cb)
               /\ Chains!Iff(n \in nmp, l2[n], "nmp", Chains!NmpPkt.cb)
               /\ Chains!Reaches(l2[n], "query", Chains!DdcpQuery.cb)
    <2>1. /\ \A x \in ChaElems : Chains!Calls(x, "isis") <=> x = Chains!IsisPkt
          /\ \A x \in ChaElems : Chains!Calls(x, "nmp") <=> x = Chains!NmpPkt
          /\ \A x \in ChaElems : Chains!Calls(x, "query") <=> x = Chains!DdcpQuery
      BY DEF ChaElems, Chains!Calls, Chains!DdcpQuery, Chains!IsisPkt, Chains!NmpPkt, Chains!Elem,
             Chains!NoRule
    <2>2. /\ Chains!IsisPkt \in ChaElems /\ Chains!NmpPkt \in ChaElems /\ Chains!DdcpQuery \in ChaElems
      BY DEF ChaElems
    <2>3. /\ Chains!IsisPkt \in ChaOn(n) <=> isis[n] = "on"
          /\ Chains!NmpPkt \in ChaOn(n) <=> n \in nmp
          /\ Chains!DdcpQuery \in ChaOn(n)
      BY ChaDistinct DEF ChaOn, ChaElems
    <2>4. Chains!Iff(Chains!IsisPkt \in ChaOn(n), l2[n], "isis", Chains!IsisPkt.cb)
      BY <1>1, <2>1, <2>2
    <2>5. Chains!Iff(Chains!NmpPkt \in ChaOn(n), l2[n], "nmp", Chains!NmpPkt.cb)
      BY <1>1, <2>1, <2>2
    <2>6. Chains!Iff(Chains!DdcpQuery \in ChaOn(n), l2[n], "query", Chains!DdcpQuery.cb)
      BY <1>1, <2>1, <2>2
    <2> QED BY <2>3, <2>4, <2>5, <2>6 DEF Chains!Iff
  <1>3. ASSUME NEW n \in ChainNodes
        PROVE  /\ Chains!Reaches(localIn[n], "reply", Chains!DdcpReply.cb)
               /\ Chains!Called(localIn[n], "isis") = {}
               /\ Chains!Iff(isis[n] = "on", routes[n], Chains!NoKey, Chains!IsisRoute.cb)
    <2>1. /\ localIn[n] = <<Chains!DdcpReply>>
          /\ routes[n] = IF isis[n] = "on" THEN <<Chains!IsisRoute>> ELSE << >>
      BY DEF ChaInv, ChaNode
    <2>2. /\ Chains!Calls(Chains!DdcpReply, "reply") /\ ~Chains!Calls(Chains!DdcpReply, "isis")
          /\ Chains!Calls(Chains!IsisRoute, Chains!NoKey)
      BY DEF Chains!Calls, Chains!DdcpReply, Chains!IsisRoute, Chains!Elem, Chains!NoRule
    <2>3. /\ Chains!Called(localIn[n], "reply") = {1} /\ Chains!Called(localIn[n], "isis") = {}
          /\ Chains!Called(routes[n], Chains!NoKey) = IF isis[n] = "on" THEN {1} ELSE {}
      <3>1. /\ Chains!Called(<<Chains!DdcpReply>>, "reply") = {1}
            /\ Chains!Called(<<Chains!DdcpReply>>, "isis") = {}
            /\ Chains!Called(<<Chains!IsisRoute>>, Chains!NoKey) = {1}
            /\ Chains!Called(<< >>, Chains!NoKey) = {}
        BY <2>2, ChaCalled
      <3> QED BY <2>1, <3>1
    <2>4. \A x : 1 \in DOMAIN <<x>> /\ <<x>>[1] = x
      OBVIOUS
    <2>5. Chains!Reaches(localIn[n], "reply", Chains!DdcpReply.cb)
      BY <2>1, <2>3, <2>4 DEF Chains!Reaches
    <2>6. Chains!Iff(isis[n] = "on", routes[n], Chains!NoKey, Chains!IsisRoute.cb)
      BY <2>1, <2>3, <2>4 DEF Chains!Reaches, Chains!Iff
    <2> QED BY <2>3, <2>5, <2>6
  <1>4. Chains!NoneTwice(events) /\ Len(events) = IF nmpOnce THEN 3 ELSE 2
    BY DEF ChaInv, Chains!NoneTwice, Chains!Called, Chains!Plain, Chains!Elem
  <1>5. /\ Chains!Reaches(tracing, "isis", "isis_print_pkt")
        /\ Chains!Iff(nmpOnce, tracing, "nmp", "nmp_print_hello_pkt")
    <2> DEFINE own == Chains!Keyed("isis_print_pkt", "isis")
               nbr == Chains!Keyed("nmp_print_hello_pkt", "nmp")
    <2>1. /\ own.cb = "isis_print_pkt" /\ nbr.cb = "nmp_print_hello_pkt"
          /\ Chains!Calls(own, "isis") /\ ~Chains!Calls(own, "nmp")
          /\ Chains!Calls(nbr, "nmp") /\ ~Chains!Calls(nbr, "isis")
      BY DEF Chains!Calls, Chains!Keyed, Chains!Elem, Chains!NoRule, Chains!NoKey
    <2>2. tracing = IF nmpOnce THEN <<nbr, own>> ELSE <<own>>
      BY DEF ChaInv
    <2> HIDE DEF own, nbr
    <2>3. /\ Chains!Called(tracing, "isis") = IF nmpOnce THEN {2} ELSE {1}
          /\ Chains!Called(tracing, "nmp") = IF nmpOnce THEN {1} ELSE {}
      <3>1. /\ Chains!Called(<<own>>, "isis") = {1} /\ Chains!Called(<<own>>, "nmp") = {}
            /\ Chains!Called(<<nbr, own>>, "isis") = {2} /\ Chains!Called(<<nbr, own>>, "nmp") = {1}
        BY <2>1, ChaCalled
      <3> QED BY <2>2, <3>1
    <2>4. /\ nmpOnce => 1 \in DOMAIN tracing /\ tracing[1] = nbr
          /\ nmpOnce => 2 \in DOMAIN tracing /\ tracing[2] = own
          /\ ~nmpOnce => 1 \in DOMAIN tracing /\ tracing[1] = own
      BY <2>2
    <2> QED BY <2>1, <2>3, <2>4 DEF Chains!Reaches, Chains!Iff
  <1>6. Chains!NoneTwice(tracing)
    BY DEF ChaInv, Chains!NoneTwice, Chains!Called, Chains!Keyed, Chains!Elem
  <1> QED BY <1>2, <1>3, <1>4, <1>5, <1>6 DEF Chains!DeliveredOnce

------------------------------------------------------------------------------
\* Packets, route updates, events of interfaces and traced packets reach the
\* protocols that are on, once, for any number of nodes that share the chains
\* and any number of times that protocols are enabled and disabled.
THEOREM DeliveriesStayOnce == ServicesSpec => []DeliveredOnce
  <1> DEFINE Inv == subject = "chains" => ChaInv
  <1>1. ServicesInit => Inv
    BY ChaInit DEF ServicesInit, Start
  <1>2. Inv /\ [ServicesNext]_<<subject, vars, services>> => Inv'
    BY SubjectStep, ChaStep
  <1>3. Inv => DeliveredOnce
    BY ChaSound DEF DeliveredOnce
  <1> QED BY <1>1, <1>2, <1>3, PTL DEF ServicesSpec

------------------------------------------------------------------------------
(* The timer library.  While nobody interferes with a wrapper, one thread at *)
(* most runs, of a timer that is running or resumed, and the invocation      *)
(* counter has counted the callbacks and the one that is about to be made.   *)

TimTypes ==
  /\ exponential \in BOOLEAN /\ raced \in BOOLEAN
  /\ posix \in [value : Nat, interval : Nat] /\ ts \in [value : Nat, interval : Nat]
  /\ left \in Nat /\ counter \in Nat /\ backoff \in Nat /\ fired \in Nat
  /\ pc \in [Threads -> {"idle", "start", "call", "again"}]

TimInv ==
  /\ \A t, u \in Threads : t # u => pc[t] = "idle" \/ pc[u] = "idle"
  /\ ~died
  /\ Timers!InFlight => state \in {"RUNNING", "RESUMED"}
  /\ state \in {"INIT", "RUNNING", "PAUSED", "RESUMED", "CANCELLED", "DELETED"}
  /\ state \notin {"RUNNING", "RESUMED"} => posix.value = 0
  /\ state = "RESUMED" => posix.value # 0 \/ Timers!InFlight \/ SecExpTimer = 0
  /\ exponential => backoff # 0
  /\ state = "INIT" => ts.value = ExpTimer /\ (exponential => backoff = ExpTimer)
  /\ state = "RUNNING" /\ exponential /\ ~Timers!InFlight => posix.value \in 1..backoff
  /\ fired <= counter
  /\ \A t \in Threads : pc[t] = "call" => fired < counter
  /\ Threshold # 0 => counter <= Threshold

LEMMA TimInit == Timers!Init => TimTypes /\ TimInv
  <1> SUFFICES ASSUME Timers!Init PROVE TimTypes /\ TimInv
    OBVIOUS
  <1> USE TimerAssumption
  <1>1. ~Timers!InFlight /\ \A t \in Threads : pc[t] = "idle"
    BY DEF Timers!Init, Timers!InFlight
  <1>2. /\ posix = [value |-> 0, interval |-> 0] /\ ts.value = ExpTimer
        /\ ts \in [value : Nat, interval : Nat]
    BY DEF Timers!Init
  <1>3. TimTypes
    <2>1. left \in Nat /\ counter \in Nat /\ backoff \in Nat /\ fired \in Nat
      BY DEF Timers!Init
    <2>2. pc \in [Threads -> {"idle", "start", "call", "again"}]
      BY DEF Timers!Init
    <2>3. exponential \in BOOLEAN /\ raced \in BOOLEAN
      BY ONLY Timers!Init, Zenon DEF Timers!Init
    <2>4. posix \in [value : Nat, interval : Nat]
      BY <1>2
    <2> QED BY <1>2, <2>1, <2>2, <2>3, <2>4 DEF TimTypes
  <1> QED BY <1>1, <1>2, <1>3 DEF Timers!Init, TimInv

LEMMA TimTypesStep == TimTypes /\ [Timers!Next]_Timers!vars => TimTypes'
  <1> SUFFICES ASSUME TimTypes, [Timers!Next]_Timers!vars PROVE TimTypes'
    OBVIOUS
  <1> USE TimerAssumption DEF TimTypes
  <1>1. ASSUME NEW v \in Nat, NEW i \in Nat, Timers!Arm(v, i)
        PROVE  posix' \in [value : Nat, interval : Nat] /\ ts' \in [value : Nat, interval : Nat]
    BY <1>1 DEF Timers!Arm
  <1>2. ASSUME NEW s, Timers!Call(s)
        PROVE  exponential' = exponential /\ raced' \in BOOLEAN /\ pc' = pc
    BY <1>2 DEF Timers!Call, Timers!InFlight
  <1>3. CASE Timers!StartTimer
    BY <1>2, <1>3 DEF Timers!StartTimer
  <1>4. CASE Timers!CancelTimer
    BY <1>1, <1>2, <1>4 DEF Timers!CancelTimer
  <1>5. CASE Timers!PauseTimer
    BY <1>1, <1>2, <1>5 DEF Timers!PauseTimer, Timers!Remaining
  <1>6. CASE Timers!ResumeTimer
    BY <1>1, <1>2, <1>6 DEF Timers!ResumeTimer
  <1>7. CASE Timers!RestartTimer
    BY <1>1, <1>2, <1>7 DEF Timers!RestartTimer
  <1>8. CASE Timers!DeleteTimer
    BY <1>2, <1>8 DEF Timers!DeleteTimer
  <1>9. ASSUME NEW first \in {1, 2}, NEW later \in {0, 1}, Timers!RescheduleTimer(first, later)
        PROVE  TimTypes'
    BY <1>1, <1>2, <1>9 DEF Timers!RescheduleTimer, Timers!RescheduleTo
  <1>10. CASE Timers!Tick
    <2>1. posix' \in [value : Nat, interval : Nat]
      BY <1>10 DEF Timers!Tick
    <2>2. raced' \in BOOLEAN /\ pc' \in [Threads -> {"idle", "start", "call", "again"}]
      BY <1>10 DEF Timers!Tick, Timers!InFlight
    <2> QED BY <1>10, <2>1, <2>2 DEF Timers!Tick
  <1>11. ASSUME NEW t \in Threads, NEW a, NEW b \in {"idle", "call", "again"}, Timers!Goto(t, a, b)
         PROVE  exponential' = exponential /\ pc' \in [Threads -> {"idle", "start", "call", "again"}]
    BY <1>11 DEF Timers!Goto
  <1>12. ASSUME NEW t \in Threads, Timers!WrapperStart(t) PROVE TimTypes'
    BY <1>11, <1>12 DEF Timers!WrapperStart
  <1>13. ASSUME NEW t \in Threads, Timers!WrapperCancel(t) PROVE TimTypes'
    BY <1>1, <1>11, <1>13 DEF Timers!WrapperCancel
  <1>14. ASSUME NEW t \in Threads, Timers!WrapperCall(t) PROVE TimTypes'
    BY <1>11, <1>14 DEF Timers!WrapperCall
  <1>15. ASSUME NEW t \in Threads, Timers!WrapperReschedule(t) PROVE TimTypes'
    BY <1>1, <1>11, <1>15 DEF Timers!WrapperReschedule, Timers!RescheduleTo
  <1>16. CASE UNCHANGED Timers!vars
    BY <1>16 DEF Timers!vars
  <1> QED BY <1>3, <1>4, <1>5, <1>6, <1>7, <1>8, <1>9, <1>10, <1>12, <1>13, <1>14, <1>15, <1>16
          DEF Timers!Next

\* A step of the application finds no wrapper, or it races with it.
LEMMA TimCall ==
  ASSUME TimTypes, ~raced => TimInv, NEW s, Timers!Call(s), ~raced'
  PROVE  /\ TimInv /\ ~Timers!InFlight /\ ~Timers!InFlight' /\ state' = s
         /\ UNCHANGED <<exponential, pc, died>>
  BY DEF Timers!Call, Timers!InFlight, TimTypes

\* A step of a wrapper finds no other.
LEMMA TimGoto ==
  ASSUME TimTypes, TimInv, NEW t \in Threads, NEW a, NEW b, a # "idle", Timers!Goto(t, a, b)
  PROVE  /\ Timers!InFlight /\ pc[t] = a /\ pc' = [u \in Threads |-> IF u = t THEN b ELSE "idle"]
         /\ Timers!InFlight' <=> b # "idle"
         /\ state \in {"RUNNING", "RESUMED"} /\ exponential' = exponential
  <1>1. pc[t] = a /\ pc' = [pc EXCEPT ![t] = b] /\ exponential' = exponential
    BY DEF Timers!Goto
  <1>2. \A u \in Threads : u # t => pc[u] = "idle"
    BY <1>1 DEF TimInv
  <1>3. pc' = [u \in Threads |-> IF u = t THEN b ELSE "idle"]
    BY <1>1, <1>2 DEF TimTypes
  <1> QED BY <1>1, <1>3 DEF Timers!InFlight, TimInv

LEMMA TimStep ==
  TimTypes /\ TimTypes' /\ (~raced => TimInv) /\ [Timers!Next]_Timers!vars => (~raced' => TimInv')
  <1> SUFFICES ASSUME TimTypes, TimTypes', ~raced => TimInv, [Timers!Next]_Timers!vars, ~raced'
               PROVE  TimInv'
    OBVIOUS
  <1> USE TimerAssumption
  <1>1. ASSUME NEW v \in Nat, NEW i \in Nat, Timers!Arm(v, i)
        PROVE  posix'.value = v /\ posix'.interval = i /\ ts'.value = v
    BY <1>1 DEF Timers!Arm
  <1>2. CASE Timers!StartTimer
    BY <1>2, TimCall DEF Timers!StartTimer, TimInv, TimTypes, Timers!InFlight
  <1>3. CASE Timers!CancelTimer
    BY <1>1, <1>3, TimCall DEF Timers!CancelTimer, TimInv, TimTypes, Timers!InFlight
  <1>4. CASE Timers!PauseTimer
    BY <1>1, <1>4, TimCall DEF Timers!PauseTimer, TimInv, TimTypes, Timers!InFlight
  <1>5. CASE Timers!ResumeTimer
    BY <1>1, <1>5, TimCall DEF Timers!ResumeTimer, TimInv, TimTypes, Timers!InFlight
  <1>6. CASE Timers!RestartTimer
    BY <1>1, <1>6, TimCall DEF Timers!RestartTimer, TimInv, TimTypes, Timers!InFlight
  <1>7. CASE Timers!DeleteTimer
    BY <1>7, TimCall DEF Timers!DeleteTimer, TimInv, TimTypes, Timers!InFlight
  <1>8. ASSUME NEW first \in {1, 2}, NEW later \in {0, 1}, Timers!RescheduleTimer(first, later)
        PROVE  TimInv'
    BY <1>1, <1>8, TimCall DEF Timers!RescheduleTimer, Timers!RescheduleTo, TimInv, TimTypes, Timers!InFlight
  <1>9. CASE Timers!Tick
    <2>1. TimInv
      BY <1>9 DEF Timers!Tick, Timers!InFlight, TimTypes
    <2>2. CASE posix.value = 1
      <3>1. /\ ~Timers!InFlight /\ Timers!InFlight'
            /\ \E t \in Threads : pc' = [pc EXCEPT ![t] = "start"]
            /\ state \in {"RUNNING", "RESUMED"}
        <4>1. ~Timers!InFlight
          BY <1>9, <2>2 DEF Timers!Tick
        <4>2. PICK t \in Threads : pc' = [pc EXCEPT ![t] = "start"]
          BY <1>9, <2>2 DEF Timers!Tick
        <4>3. pc'[t] = "start"
          BY <4>2 DEF TimTypes
        <4>4. Timers!InFlight'
          BY <4>3 DEF Timers!InFlight
        <4>5. state \in {"RUNNING", "RESUMED"}
          BY <2>1, <2>2 DEF TimInv
        <4> QED BY <4>1, <4>2, <4>4, <4>5
      <3> QED BY <1>9, <2>1, <3>1 DEF Timers!Tick, Timers!InFlight, TimTypes, TimInv
    <2>3. CASE posix.value # 1
      <3>1. posix'.value = posix.value - 1 /\ posix.value > 1 /\ pc' = pc
        BY <1>9, <2>3 DEF Timers!Tick, TimTypes
      <3> QED BY <1>9, <2>1, <3>1 DEF Timers!Tick, Timers!InFlight, TimTypes, TimInv
    <2> QED BY <2>2, <2>3
  <1>10. ASSUME NEW t \in Threads, Timers!WrapperStart(t) PROVE TimInv'
    <2>1. TimInv /\ Timers!Goto(t, "start", "call") /\ counter' = counter + 1
          /\ UNCHANGED <<state, posix, ts, left, backoff, fired, raced, died>>
      BY <1>10 DEF Timers!WrapperStart
    <2>2. /\ Timers!InFlight' /\ exponential' = exponential /\ state \in {"RUNNING", "RESUMED"}
          /\ pc' = [u \in Threads |-> IF u = t THEN "call" ELSE "idle"]
      BY <2>1, TimGoto
    <2>3. Threshold # 0 => counter' <= Threshold
      BY <1>10, <2>1 DEF Timers!WrapperStart, Timers!OverThreshold, TimTypes
    <2> QED BY <2>1, <2>2, <2>3 DEF TimInv, TimTypes
  <1>11. ASSUME NEW t \in Threads, Timers!WrapperCancel(t) PROVE TimInv'
    <2>1. TimInv /\ Timers!Goto(t, "start", "idle") /\ UNCHANGED <<backoff, raced, died>>
      BY <1>11 DEF Timers!WrapperCancel
    <2>2. /\ ~Timers!InFlight' /\ exponential' = exponential /\ state \in {"RUNNING", "RESUMED"}
          /\ pc' = [u \in Threads |-> "idle"]
      BY <2>1, TimGoto
    <2>3. state' = "CANCELLED" /\ Timers!Arm(0, 0) /\ counter' = 0 /\ fired' = 0
      BY <1>11, <2>2 DEF Timers!WrapperCancel
    <2> QED BY <1>1, <2>1, <2>2, <2>3 DEF TimInv, TimTypes
  <1>12. ASSUME NEW t \in Threads, Timers!WrapperCall(t) PROVE TimInv'
    <2> DEFINE to == IF exponential \/ state = "RESUMED" THEN "again" ELSE "idle"
    <2>1. TimInv /\ Timers!Goto(t, "call", to) /\ fired' = fired + 1
          /\ UNCHANGED <<state, posix, ts, left, counter, backoff, raced, died>>
      BY <1>12 DEF Timers!WrapperCall
    <2>2. /\ Timers!InFlight' <=> to # "idle"
          /\ exponential' = exponential /\ state \in {"RUNNING", "RESUMED"} /\ pc[t] = "call"
          /\ pc' = [u \in Threads |-> IF u = t THEN to ELSE "idle"]
      BY <2>1, TimGoto
    <2> QED BY <2>1, <2>2 DEF TimInv, TimTypes
  <1>13. ASSUME NEW t \in Threads, Timers!WrapperReschedule(t) PROVE TimInv'
    <2>1. TimInv /\ Timers!Goto(t, "again", "idle") /\ UNCHANGED raced
      BY <1>13 DEF Timers!WrapperReschedule
    <2>2. /\ ~Timers!InFlight' /\ exponential' = exponential /\ state \in {"RUNNING", "RESUMED"}
          /\ pc' = [u \in Threads |-> "idle"]
      BY <2>1, TimGoto
    <2>3. state' = "RUNNING" /\ UNCHANGED <<died, counter, fired>>
      BY <1>13, <2>2 DEF Timers!WrapperReschedule, Timers!RescheduleTo
    <2>4. exponential => posix'.value = 2 * backoff /\ backoff' = 2 * backoff
      BY <1>1, <1>13, <2>2 DEF Timers!WrapperReschedule, Timers!RescheduleTo, TimTypes
    <2> QED BY <2>1, <2>2, <2>3, <2>4 DEF TimInv, TimTypes
  <1>14. CASE UNCHANGED Timers!vars
    BY <1>14 DEF Timers!vars, TimInv, Timers!InFlight
  <1> QED BY <1>2, <1>3, <1>4, <1>5, <1>6, <1>7, <1>8, <1>9, <1>10, <1>11, <1>12, <1>13, <1>14
          DEF Timers!Next

LEMMA TimSound == TimTypes /\ (~raced => TimInv) => Timers!TimerSound
  BY TimerAssumption DEF TimTypes, TimInv, Timers!TimerSound

------------------------------------------------------------------------------
\* While no call and no expiry comes during the callback of a timer, its state
\* says whether the kernel's timer is armed, its back-off bounds the wait and
\* its threshold the callbacks: for any intervals and any number of calls.
THEOREM TimersStaySound == ServicesSpec => []TimerSound
  <1> DEFINE Inv == subject = "timers" => TimTypes /\ (~raced => TimInv)
  <1>1. ServicesInit => Inv
    BY TimInit DEF ServicesInit, Start
  <1>2. Inv /\ [ServicesNext]_<<subject, vars, services>> => Inv'
    BY SubjectStep, TimTypesStep, TimStep
  <1>3. Inv => TimerSound
    BY TimSound DEF TimerSound
  <1> QED BY <1>1, <1>2, <1>3, PTL DEF ServicesSpec

=============================================================================
