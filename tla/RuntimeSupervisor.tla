-------------------------- MODULE RuntimeSupervisor --------------------------
(***************************************************************************)
(* services/runtime_supervisor.py: the HistorianSupervisor of the web      *)
(* process.  It spawns one historian worker at a time, owns the two pipes  *)
(* of every worker it spawned, reads a worker's status events on a monitor *)
(* thread of its own, respawns a worker that ended by itself and passes    *)
(* registry changes on as numbered rebuild requests.                       *)
(*                                                                         *)
(* Every access to the supervisor's fields is made under one lock, so a    *)
(* critical section is one action, except that a section which writes to a *)
(* worker's stdin may block there, with the lock held, until the pipe has  *)
(* room: `sending' is that half-done section, and while it is not empty no *)
(* other section can be entered.                                           *)
(*                                                                         *)
(* The worker is an open environment here: it reads commands, reports any  *)
(* event, and ends at any moment.  HistorianWorker is the real one and     *)
(* HistorianRuntime composes the two.                                      *)
(***************************************************************************)
EXTENDS WorkerPipes

CONSTANT
    MaxSpawnFailures \* bound: respawns in which the process factory raises

ASSUME SupervisorConstants == MaxSpawnFailures \in Nat

VARIABLES
    enabled,         \* configuration: OPC_RUNTIME_SUPERVISOR_ENABLED
    shutdownSet,     \* the _shutdown event
    intentionalStop, \* _intentional_stop
    process,         \* _process: the latest process spawned, 0 for None
    spawnFailures,   \* how often the process factory has raised
    monitor,         \* where the monitor thread of each process stands
    status,          \* the part of _status that the protocol relies on
    sending,         \* command whose pipe write holds the lock, or NoCommand
    caller           \* where the thread that runs start/stop/shutdown stands

supervisorVars == <<enabled, shutdownSet, intentionalStop, process,
                    spawnFailures, monitor, status, sending, caller>>
vars == <<supervisorVars, pipeVars>>

-----------------------------------------------------------------------------
WorkerStates == {"disabled", "stopped", "starting", "running", "rebuilding",
                 "reconnecting", "exited", "stopping"}
OpcStates    == {"unknown", "connected", "disconnected"}
Status == [worker_state            : WorkerStates,
           opc_state               : OpcStates,
           subscription_complete   : BOOLEAN,
           registry_generation     : Generations,
           acknowledged_generation : Generations,
           rebuild_pending         : BOOLEAN,
           restart_count           : Nat]

\* Every field of the supervisor, and everything in the pipes, keeps its type.
TypeOK ==
    /\ PipesTypeOK
    /\ enabled \in BOOLEAN
    /\ shutdownSet \in BOOLEAN
    /\ intentionalStop \in BOOLEAN
    /\ process \in 0..MaxSpawns
    /\ spawnFailures \in Nat
    /\ monitor \in [Pids -> {"none", "reading", "delaying", "respawning", "done"}]
    /\ status \in Status
    /\ sending \in Commands \cup {NoCommand}
    /\ caller \in {"idle", "shutting", "sending", "waiting"}

Init ==
    /\ enabled \in BOOLEAN
    /\ shutdownSet = FALSE
    /\ intentionalStop = FALSE
    /\ process = 0
    /\ spawnFailures = 0
    /\ procState = [p \in Pids |-> "unborn"]
    /\ monitor = [p \in Pids |-> "none"]
    /\ stdin = [p \in Pids |-> <<>>]
    /\ stdout = [p \in Pids |-> <<>>]
    /\ status = [worker_state            |-> IF enabled THEN "stopped" ELSE "disabled",
                 opc_state               |-> "unknown",
                 subscription_complete   |-> FALSE,
                 registry_generation     |-> 0,
                 acknowledged_generation |-> 0,
                 rebuild_pending         |-> FALSE,
                 restart_count           |-> 0]
    /\ sending = NoCommand
    /\ caller = "idle"

-----------------------------------------------------------------------------
LockFree == sending = NoCommand

\* self._process is not None and self._process.poll() is None
Running == process # 0 /\ procState[process] = "running"

IdleState == IF enabled THEN "stopped" ELSE "disabled"

\* Mutants of FirstCommands: a rebuild is always sent, or never.
AlwaysRebuild(s) == <<Command("rebuild", s.registry_generation)>>
NeverRebuild(s)  == <<>>

\* A new worker is sent the rebuild that is pending.
FirstCommands(s) ==
    IF s.rebuild_pending THEN <<Command("rebuild", s.registry_generation)>> ELSE <<>>

\* _spawn: a fresh process with empty pipes becomes _process.  The one command
\* it may be sent fits an empty pipe, so this write cannot block.
Spawn(s) ==
    LET p == process + 1 IN
    /\ process < MaxSpawns
    /\ process' = p
    /\ procState' = [procState EXCEPT ![p] = "running"]
    /\ stdin' = [stdin EXCEPT ![p] = FirstCommands(s)]
    /\ status' = [s EXCEPT !.worker_state = "starting",
                           !.opc_state = "unknown",
                           !.subscription_complete = FALSE]

\* start()
StartRefused ==
    /\ LockFree /\ caller = "idle"
    /\ ~enabled \/ shutdownSet
    /\ status' = [status EXCEPT !.worker_state = IdleState]
    /\ UNCHANGED <<enabled, shutdownSet, intentionalStop, process, spawnFailures,
                   monitor, pipeVars, sending, caller>>

\* Mutant of StartSpawns: a running worker is not looked for.
StartSpawnsUnchecked ==
    /\ LockFree /\ caller = "idle"
    /\ enabled /\ ~shutdownSet
    /\ intentionalStop' = FALSE
    /\ Spawn(status)
    /\ monitor' = [monitor EXCEPT ![process'] = "reading"]
    /\ UNCHANGED <<enabled, shutdownSet, spawnFailures, stdout, sending, caller>>

StartSpawns ==
    /\ LockFree /\ caller = "idle"
    /\ enabled /\ ~shutdownSet
    /\ ~Running
    /\ intentionalStop' = FALSE
    /\ Spawn(status)
    /\ monitor' = [monitor EXCEPT ![process'] = "reading"]
    /\ UNCHANGED <<enabled, shutdownSet, spawnFailures, stdout, sending, caller>>

\* notify_registry_changed: the counters move first, then the request is sent.
NotifyRegistryChanged ==
    LET g == status.registry_generation + 1 IN
    /\ LockFree
    /\ status.registry_generation < MaxGeneration
    /\ status' = [status EXCEPT !.registry_generation = g, !.rebuild_pending = TRUE]
    /\ sending' = IF enabled /\ Running THEN Command("rebuild", g) ELSE NoCommand
    /\ UNCHANGED <<enabled, shutdownSet, intentionalStop, process, spawnFailures,
                   monitor, pipeVars, caller>>

\* notify_alarm_mappings_changed
NotifyAlarmMappingsChanged ==
    /\ LockFree
    /\ enabled /\ Running
    /\ sending' = Command("reload_alarm_mappings", 0)
    /\ UNCHANGED <<enabled, shutdownSet, intentionalStop, process, spawnFailures,
                   monitor, pipeVars, status, caller>>

\* shutdown() sets the event, outside the lock, before it calls stop().
ShutdownRequested ==
    /\ caller = "idle"
    /\ shutdownSet' = TRUE
    /\ caller' = "shutting"
    /\ UNCHANGED <<enabled, intentionalStop, process, spawnFailures,
                   monitor, pipeVars, status, sending>>

\* stop(), the section under the lock.
Stop ==
    /\ LockFree /\ caller \in {"idle", "shutting"}
    /\ intentionalStop' = TRUE
    /\ \/ /\ ~Running
          /\ status' = [status EXCEPT !.worker_state = IdleState]
          /\ caller' = "idle"
          /\ UNCHANGED sending
       \/ /\ Running
          /\ status' = [status EXCEPT !.worker_state = "stopping"]
          /\ sending' = Command("stop", 0)
          /\ caller' = "sending"
    /\ UNCHANGED <<enabled, shutdownSet, process, spawnFailures,
                   monitor, pipeVars>>

\* process.wait(timeout) of stop(), without the lock: the worker has ended ...
StopReturns ==
    /\ caller = "waiting"
    /\ ~Running
    /\ caller' = "idle"
    /\ UNCHANGED <<enabled, shutdownSet, intentionalStop, process, spawnFailures,
                   monitor, pipeVars, status, sending>>

\* Mutant of StopTerminates: process.wait() without a timeout.
StopWaitsForever == FALSE /\ UNCHANGED vars

\* ... or the timeout expires and terminate() ends it.
StopTerminates ==
    /\ caller = "waiting"
    /\ Running
    /\ Ends(process)
    /\ UNCHANGED <<supervisorVars, stdout>>

\* _send: the write that the lock is held for.  A worker that has ended
\* meanwhile breaks the pipe, which _send turns into False.
AfterSend(sent) ==
    /\ sending' = NoCommand
    /\ caller' = IF sending.command = "stop" THEN "waiting" ELSE caller
    /\ status' = IF sent /\ sending.command = "rebuild"
                 THEN [status EXCEPT !.worker_state = "rebuilding"] ELSE status

SendDelivered ==
    /\ ~LockFree /\ Running
    /\ WriteCommand(process, sending)
    /\ AfterSend(TRUE)
    /\ UNCHANGED <<enabled, shutdownSet, intentionalStop, process, spawnFailures,
                   procState, monitor, stdout>>

SendBreaks ==
    /\ ~LockFree /\ ~Running
    /\ AfterSend(FALSE)
    /\ UNCHANGED <<enabled, shutdownSet, intentionalStop, process, spawnFailures,
                   monitor, pipeVars>>

-----------------------------------------------------------------------------
\* Mutant of Progressing: the subscription stays complete.
ProgressingOnly(s) == [s EXCEPT !.worker_state = "running"]

\* Mutant of Acknowledged: any acknowledgement settles the rebuild.
AcknowledgedByAny(s, m) ==
    IF ~m.complete THEN s
    ELSE [s EXCEPT !.acknowledged_generation = m.generation,
                   !.rebuild_pending = FALSE,
                   !.worker_state = "running"]

\* _apply_event: what one event of any worker does to the status.
Disconnected(s) == [s EXCEPT !.opc_state = "disconnected", !.subscription_complete = FALSE]
Progressing(s)  == [s EXCEPT !.worker_state = "running", !.subscription_complete = FALSE]

Acknowledged(s, m) ==
    LET ack == IF m.generation > s.acknowledged_generation
               THEN m.generation ELSE s.acknowledged_generation
        current == m.generation >= s.registry_generation IN
    IF ~m.complete THEN s
    ELSE [s EXCEPT !.acknowledged_generation = ack,
                   !.rebuild_pending = @ /\ ~current,
                   !.worker_state = IF current THEN "running" ELSE @]

ApplyEvent(s, m) ==
    CASE m.event = "worker_started"   -> [s EXCEPT !.worker_state = "running"]
      [] m.event = "opc_connected"    -> [s EXCEPT !.opc_state = "connected"]
      [] m.event = "opc_disconnected" -> Disconnected(s)
      [] m.event = "subscriptions_progress" -> Progressing(s)
      [] m.event = "subscriptions_ready" ->
                [s EXCEPT !.worker_state = "running",
                          !.subscription_complete = m.complete]
      [] m.event = "rebuild_ack"      -> Acknowledged(s, m)
      [] m.event = "rebuild_started"  -> [s EXCEPT !.worker_state = "rebuilding"]
      [] m.event = "subscriptions_recovery" ->
                [s EXCEPT !.worker_state = "reconnecting"]

\* _monitor(p), the loop over the worker's stdout.
MonitorReads(p) ==
    /\ LockFree
    /\ monitor[p] = "reading"
    /\ stdout[p] # <<>>
    /\ status' = ApplyEvent(status, Head(stdout[p]))
    /\ stdout' = [stdout EXCEPT ![p] = Tail(@)]
    /\ UNCHANGED <<enabled, shutdownSet, intentionalStop, process, spawnFailures,
                   procState, monitor, stdin, sending, caller>>

\* _monitor(p) at end of file, after process.wait(): the section that decides
\* whether to restart.
ShouldRestart == enabled /\ ~intentionalStop /\ ~shutdownSet

Exited(s) ==
    [s EXCEPT !.opc_state = "unknown",
              !.subscription_complete = FALSE,
              !.worker_state = IF ShouldRestart THEN "exited" ELSE IdleState]

MonitorSeesExit(p) ==
    /\ LockFree
    /\ monitor[p] = "reading"
    /\ stdout[p] = <<>>
    /\ procState[p] = "exited"
    /\ \/ /\ p # process
          /\ monitor' = [monitor EXCEPT ![p] = "done"]
          /\ UNCHANGED status
       \/ /\ p = process
          /\ monitor' = [monitor EXCEPT ![p] = IF ShouldRestart THEN "delaying" ELSE "done"]
          /\ status' = Exited(status)
    /\ UNCHANGED <<enabled, shutdownSet, intentionalStop, process, spawnFailures,
                   pipeVars, sending, caller>>

\* Mutant of RestartDelayEnds: the test of the event is turned round.
RestartDelayEndsWrongly(p) ==
    /\ monitor[p] = "delaying"
    /\ monitor' = [monitor EXCEPT ![p] = IF shutdownSet THEN "respawning" ELSE "done"]
    /\ UNCHANGED <<enabled, shutdownSet, intentionalStop, process, spawnFailures,
                   pipeVars, status, sending, caller>>

\* _shutdown.wait(restart_delay), without the lock.
RestartDelayEnds(p) ==
    /\ monitor[p] = "delaying"
    /\ monitor' = [monitor EXCEPT ![p] = IF shutdownSet THEN "done" ELSE "respawning"]
    /\ UNCHANGED <<enabled, shutdownSet, intentionalStop, process, spawnFailures,
                   pipeVars, status, sending, caller>>

\* Mutant of MayRespawn: a stop during the delay is overlooked.
MayRespawnCurrent(p) == p = process

MayRespawn(p) == p = process /\ ~intentionalStop

RespawnSkipped(p) ==
    /\ LockFree
    /\ monitor[p] = "respawning"
    /\ ~MayRespawn(p)
    /\ monitor' = [monitor EXCEPT ![p] = "done"]
    /\ UNCHANGED <<enabled, shutdownSet, intentionalStop, process, spawnFailures,
                   pipeVars, status, sending, caller>>

\* Mutant of Respawn: no monitor thread is started for the new worker.
RespawnUnmonitored(p) ==
    /\ LockFree
    /\ monitor[p] = "respawning"
    /\ MayRespawn(p)
    /\ Spawn([status EXCEPT !.restart_count = @ + 1])
    /\ monitor' = [monitor EXCEPT ![p] = "done"]
    /\ UNCHANGED <<enabled, shutdownSet, intentionalStop, spawnFailures, stdout,
                   sending, caller>>

Respawn(p) ==
    /\ LockFree
    /\ monitor[p] = "respawning"
    /\ MayRespawn(p)
    /\ Spawn([status EXCEPT !.restart_count = @ + 1])
    /\ monitor' = [monitor EXCEPT ![p] = "done", ![process'] = "reading"]
    /\ UNCHANGED <<enabled, shutdownSet, intentionalStop, spawnFailures, stdout,
                   sending, caller>>

\* The process factory raises inside the monitor thread: nothing catches it
\* there, so the thread ends with the count raised and no process spawned.
RespawnRaises(p) ==
    /\ LockFree
    /\ monitor[p] = "respawning"
    /\ MayRespawn(p)
    /\ spawnFailures < MaxSpawnFailures
    /\ spawnFailures' = spawnFailures + 1
    /\ status' = [status EXCEPT !.restart_count = @ + 1]
    /\ monitor' = [monitor EXCEPT ![p] = "done"]
    /\ UNCHANGED <<enabled, shutdownSet, intentionalStop, process,
                   pipeVars, sending, caller>>

-----------------------------------------------------------------------------
\* The environment: a worker process, of which the supervisor may assume only
\* that it acknowledges no generation it was never sent.
WorkerReads(p) ==
    /\ procState[p] = "running"
    /\ stdin[p] # <<>>
    /\ stdin' = [stdin EXCEPT ![p] = Tail(@)]
    /\ UNCHANGED <<supervisorVars, procState, stdout>>

WorkerReports(p, m) ==
    /\ procState[p] = "running"
    /\ m.generation <= status.registry_generation
    /\ WriteEvent(p, m)
    /\ UNCHANGED <<supervisorVars, procState, stdin>>

\* The last process the bound allows ends only when it is asked to.
WorkerExits(p) ==
    /\ procState[p] = "running"
    /\ p < MaxSpawns \/ intentionalStop
    /\ Ends(p)
    /\ UNCHANGED <<supervisorVars, stdout>>

-----------------------------------------------------------------------------
CallerStep  == StartRefused \/ StartSpawns \/ ShutdownRequested \/ Stop
                 \/ StopReturns \/ StopTerminates
NotifyStep  == NotifyRegistryChanged \/ NotifyAlarmMappingsChanged
SendStep    == SendDelivered \/ SendBreaks
MonitorStep(p) == \/ MonitorReads(p) \/ MonitorSeesExit(p) \/ RestartDelayEnds(p)
                  \/ RespawnSkipped(p) \/ Respawn(p) \/ RespawnRaises(p)
SupervisorStep == CallerStep \/ NotifyStep \/ SendStep \/ \E p \in Pids : MonitorStep(p)
WorkerStep(p)  == WorkerReads(p) \/ WorkerExits(p) \/ \E m \in Events : WorkerReports(p, m)

Next == SupervisorStep \/ \E p \in Pids : WorkerStep(p)

Spec == Init /\ [][Next]_vars

-----------------------------------------------------------------------------
\* Never two historian writers: at most one worker process is alive, and it is
\* the one the supervisor holds, whatever start, stop, a crash and the restart
\* delay of an older monitor thread do to each other.
AtMostOneWorker ==
    \A p \in Pids : procState[p] = "running" => p = process

\* The check "rebuild_generation_consistent" of historian_cutover.py (lines
\* 93-96), both ways: a rebuild is pending exactly while the latest notified
\* generation has not been acknowledged in full, in every order of late,
\* partial, repeated and crossing acknowledgements.
PendingIffUnacknowledged ==
    /\ status.acknowledged_generation <= status.registry_generation
    /\ status.rebuild_pending <=>
         status.acknowledged_generation < status.registry_generation

\* Once stop() has returned, and until start() is called again, no worker runs
\* and no restart that was already under way brings one back.
StopIsFinal ==
    intentionalStop /\ caller = "idle" => ~Running

\* A live worker is always under supervision: its monitor thread is reading
\* it, so its exit cannot go unnoticed.
LiveWorkerIsMonitored ==
    \A p \in Pids : procState[p] = "running" => monitor[p] = "reading"
=============================================================================
