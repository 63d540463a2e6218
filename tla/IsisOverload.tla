---------------------------- MODULE IsisOverload ----------------------------
(***************************************************************************)
(* The overload status of an ISIS router: the commands that set and clear  *)
(* it, for good or until a timer expires, the job of that timer, and the   *)
(* shutdown of the protocol, which waits for a last LSP.                   *)
(*                                                                         *)
(* A timer that fires queues a job, which runs later and finds whatever    *)
(* the commands made of the timer in between.                              *)
(***************************************************************************)
EXTENDS Naturals

CONSTANTS
  Timeouts,      \* values for "overload timeout", 0 among them
  MaxCommands, MaxJobs  \* bounds on the commands, and on the jobs queued

VARIABLES
  phase,         \* "run", "purging" (shutdown pending) or "down" (no node_info)
  status, value, \* ovl_status, timeout_val
  timer,         \* ovl_timer: "off" (NULL), "armed", or "fired" and not NULL
  jobs,          \* jobs of the timer in the dispatcher's queue
  gen,           \* lsp_pkt_gen_task # NULL
  advertised,    \* the overload bit of the router's LSP
  raced,         \* a timer was stopped or changed with its job queued, or
                 \* started while the protocol shuts down
  died,          \* "no", "null" (a job without timer or node), "assert"
  commands

vars == <<phase, status, value, timer, jobs, gen, advertised, raced, died, commands>>

Init ==
  /\ phase = "run" /\ status = FALSE /\ value = 0 /\ timer = "off" /\ jobs = 0
  /\ gen = TRUE /\ advertised = FALSE
  /\ raced = FALSE /\ died = "no" /\ commands = 0

Command == commands < MaxCommands /\ commands' = commands + 1

\* isis_schedule_lsp_pkt_generation; in shutdown it has been switched off.
Scheduled(wanted) == gen \/ (wanted /\ phase = "run")

\* isis_stop_overload_timer; a job of the timer that is queued stays there.
StopTimer_armed ==  \* mutant: a timer that fired is left to its job
  timer' = (IF timer = "armed" THEN "off" ELSE timer) /\ raced' = raced
StopTimer == timer' = "off" /\ raced' = (raced \/ timer = "fired")

\* isis_start_overload_timer, or timer_reschedule if it exists.
StartTimer == timer' = "armed" /\ raced' = (raced \/ timer = "fired" \/ phase = "purging")

KeepTimer == UNCHANGED <<timer, raced>>

------------------------------------------------------------------------------
(* isis_set_overload *)
Set ==
  /\ phase # "down"
  /\ status' = TRUE /\ gen' = Scheduled(~status)
  /\ UNCHANGED <<phase, jobs, advertised, died>>

\* protocol isis overload: a timer that runs goes on.
SetForGood == Command /\ Set /\ KeepTimer /\ UNCHANGED value

\* protocol isis overload timeout <v>: 0 stops a timer that runs.
SetFor(v) ==
  /\ Command /\ Set
  /\ \/ v # 0 /\ (timer = "off" \/ v # value) /\ value' = v /\ StartTimer
     \/ v # 0 /\ timer # "off" /\ v = value /\ UNCHANGED value /\ KeepTimer
     \/ v = 0 /\ UNCHANGED value /\ StopTimer

(* isis_unset_overload *)
\* no protocol isis overload
Unset ==
  /\ Command /\ phase # "down" /\ status
  /\ status' = FALSE /\ gen' = Scheduled(TRUE)
  /\ StopTimer
  /\ UNCHANGED <<phase, value, jobs, advertised, died>>

\* no protocol isis overload timeout <v>, whatever v: overloaded for good.
UnsetTimeout ==
  /\ Command /\ phase # "down" /\ timer # "off"
  /\ StopTimer
  /\ UNCHANGED <<phase, status, value, jobs, gen, advertised, died>>

------------------------------------------------------------------------------
Fire ==
  /\ timer = "armed" /\ jobs < MaxJobs
  /\ timer' = "fired" /\ jobs' = jobs + 1
  /\ UNCHANGED <<phase, status, value, gen, advertised, raced, died, commands>>

\* isis_overload_timer_expire
Expire ==
  /\ jobs > 0 /\ jobs' = jobs - 1
  /\ IF phase = "down"
     THEN /\ died' = "null"
          /\ UNCHANGED <<status, value, timer, gen>>
     ELSE /\ status' = FALSE /\ value' = 0 /\ timer' = "off"
          /\ died' = IF timer = "off" THEN "null" ELSE died
          /\ gen' = Scheduled(TRUE)
  /\ UNCHANGED <<phase, advertised, raced, commands>>

\* isis_generate_lsp_pkt
Generate ==
  /\ gen /\ gen' = FALSE
  /\ advertised' = status
  /\ UNCHANGED <<phase, status, value, timer, jobs, raced, died, commands>>

------------------------------------------------------------------------------
(* The life of the protocol *)

\* isis_protocol_shut_down: timers and jobs are cancelled now, not when the
\* purge LSP is out; without an interface to send one on it is over at once.
ShutDown ==
  /\ Command /\ phase = "run"
  /\ StopTimer
  /\ \/ phase' = "purging" /\ gen' = TRUE /\ UNCHANGED <<status, value>>
     \/ phase' = "down" /\ gen' = FALSE /\ status' = FALSE /\ value' = 0
  /\ UNCHANGED <<jobs, advertised, died>>

\* isis_protocol_shutdown_now, with the assertions of
\* isis_check_delete_node_info, when the purge LSP has left.
Gone ==
  /\ phase = "purging" /\ ~gen /\ phase' = "down"
  /\ died' = IF timer # "off" THEN "assert" ELSE died
  /\ status' = FALSE /\ value' = 0 /\ timer' = "off"
  /\ UNCHANGED <<jobs, gen, advertised, raced, commands>>

\* isis_init
Restart ==
  /\ Command /\ phase = "down" /\ phase' = "run" /\ gen' = TRUE
  /\ UNCHANGED <<status, value, timer, jobs, advertised, raced, died>>

Next ==
  /\ died = "no"
  /\ \/ SetForGood \/ Unset \/ UnsetTimeout \/ \E v \in Timeouts : SetFor(v)
     \/ Fire \/ Expire \/ Generate \/ ShutDown \/ Gone \/ Restart

Spec == Init /\ [][Next]_vars

------------------------------------------------------------------------------
(* Properties *)

\* Unless a command met a queued job or the shutdown, the process survives, a
\* timer runs only on a router that is overloaded and each of its jobs has it,
\* and the LSP tells the others.
OverloadSound ==
  ~raced =>
    /\ died = "no"
    /\ timer # "off" => status /\ value # 0 /\ phase = "run"
    /\ jobs = (IF timer = "fired" THEN 1 ELSE 0)
    /\ phase = "run" /\ ~gen => advertised = status
=============================================================================
