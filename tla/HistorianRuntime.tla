-------------------------- MODULE HistorianRuntime --------------------------
(***************************************************************************)
(* The historian runtime: RuntimeSupervisor and the HistorianWorker        *)
(* processes it spawns, joined by their pipes and by the registry both     *)
(* sides see, in the life of the web application (app_lifespan of          *)
(* OpcTagManager.py): start once, serve, shut down once.                   *)
(*                                                                         *)
(* A registry change is committed before it is notified, so the number of  *)
(* generations notified when a worker loads its tags stands for the        *)
(* changes that load is certain to see.                                    *)
(***************************************************************************)
EXTENDS RuntimeSupervisor

CONSTANTS MaxBatches, MaxFaults, RetryAttempts   \* see HistorianWorker

VARIABLES
    worker, faults,  \* see HistorianWorker
    loaded,          \* history: registry generation at the latest load of tags
    refused          \* history: latest generation a worker acknowledged in part

historyVars == <<loaded, refused>>
runtimeVars == <<vars, worker, faults, historyVars>>

W == INSTANCE HistorianWorker WITH
        parentAlive <- TRUE,
        registry    <- status.registry_generation

RuntimeInit ==
    /\ Init
    /\ worker = [p \in Pids |-> W!Fresh]
    /\ faults = MaxFaults
    /\ loaded = 0
    /\ refused = 0

-----------------------------------------------------------------------------
\* app_lifespan: the periodic reconcile and the routes run between start() and
\* shutdown().
Serving == ~shutdownSet /\ (process # 0 \/ ~enabled)

\* Bound: one alarm reload on its way to the current worker at a time.
ReloadBound == ~W!InFlight(process, "reload_alarm_mappings")

LifespanStep ==
    \/ ~shutdownSet /\ StartRefused
    \/ process = 0 /\ StartSpawns
    \/ Serving /\ ShutdownRequested
    \/ caller = "shutting" /\ Stop
    \/ StopReturns

RouteStep ==
    /\ Serving
    /\ NotifyRegistryChanged \/ (NotifyAlarmMappingsChanged /\ ReloadBound)

WebStep ==
    /\ LifespanStep \/ RouteStep \/ SendStep \/ \E p \in Pids : MonitorStep(p)
    /\ UNCHANGED <<worker, faults, historyVars>>

TerminateWorker ==
    /\ StopTerminates
    /\ worker' = [worker EXCEPT ![process] = W!Gone]
    /\ UNCHANGED <<faults, historyVars>>

HistoryOf(p) ==
    /\ loaded' = IF W!At(p, "load") /\ worker'[p].pc = "connect"
                 THEN worker'[p].snap ELSE loaded
    /\ refused' = IF W!At(p, "ack") /\ worker'[p].pc = "idle" /\ worker[p].failed
                  THEN worker[p].gen ELSE refused

\* Bound: the last process MaxSpawns allows does not crash.
WorkerMoves(p) ==
    /\ UNCHANGED supervisorVars
    /\ \/ W!Progress(p) \/ W!Reader(p)
       \/ W!LoadFails(p) \/ W!ConnectFails(p) \/ W!BuildFails(p)
       \/ W!HealthcheckFails(p) \/ W!CloseFails(p)
       \/ p < MaxSpawns /\ W!Crash(p)
    /\ HistoryOf(p)

ShutDown == shutdownSet /\ caller = "idle" /\ ~Running
              /\ \A p \in Pids : monitor[p] \in {"none", "done"}

RuntimeNext ==
    \/ WebStep
    \/ TerminateWorker
    \/ \E p \in Pids : WorkerMoves(p)
    \/ ShutDown /\ UNCHANGED runtimeVars

RuntimeSpec == RuntimeInit /\ [][RuntimeNext]_runtimeVars

\* A thread that waits for the lock gets it in the end (strong fairness: alarm
\* saves may keep taking it in between), a process.wait with a timeout returns,
\* a worker's stdin reader waits for nothing but input, every call of its main
\* loop is bounded by a time-out and its waits have a deadline.  Nothing else is
\* promised: nobody need change the registry or shut the application down.
RuntimeFairness ==
    /\ WF_runtimeVars(SendStep /\ UNCHANGED <<worker, faults, historyVars>>)
    /\ WF_runtimeVars(TerminateWorker \/ (StopReturns /\ WebStep))
    /\ SF_runtimeVars(caller = "shutting" /\ Stop /\ WebStep)
    /\ \A p \in Pids :
         /\ SF_runtimeVars(MonitorStep(p) /\ WebStep)
         /\ WF_runtimeVars(UNCHANGED supervisorVars /\ W!Reader(p) /\ HistoryOf(p))
         /\ WF_runtimeVars(UNCHANGED supervisorVars /\ W!Progress(p) /\ HistoryOf(p))
         /\ WF_runtimeVars(UNCHANGED supervisorVars /\ W!WaitEnds(p) /\ HistoryOf(p))

FairRuntimeSpec == RuntimeSpec /\ RuntimeFairness

-----------------------------------------------------------------------------
\* The subscriptions of a live worker are never older than what the supervisor
\* has shown as acknowledged: across crashes, reconnects and crossing
\* generations each of its sessions loaded the tags after that change.
AcknowledgedIsLoaded ==
    \A p \in Pids : \A pc \in {"connect", "build", "ack", "idle"} :
        W!At(p, pc) => status.acknowledged_generation <= worker[p].snap

\* A pending rebuild is never lost between the two processes: while a worker
\* lives, the latest generation is on its way to it, held by it, or its
\* acknowledgement is on the way back; or it was acknowledged in part.
RebuildOnItsWay ==
    LET g == status.registry_generation
        rebuild == Command("rebuild", g) IN
    status.rebuild_pending /\ LockFree /\ Running =>
        \/ \E i \in DOMAIN stdin[process] : stdin[process][i] = rebuild
        \/ \E i \in DOMAIN worker[process].queue : worker[process].queue[i] = rebuild
        \/ worker[process].gen = g
        \/ Event("rebuild_ack", g, TRUE) \in
             {stdout[process][i] : i \in DOMAIN stdout[process]}
        \/ refused = g

\* The console shows "running" and a complete subscription, with no event left
\* unread, only while the worker has every tag subscribed or is just leaving
\* such a session: across disconnections, crashes and respawns.
ShownCompleteIsReal ==
    /\ status.subscription_complete /\ status.worker_state = "running"
    /\ Running /\ stdout[process] = <<>>
    => /\ worker[process].pc \in {"ack", "idle", "closing", "failed"}
       /\ worker[process].pc \in {"ack", "idle"} => ~worker[process].failed

\* The runtime keeps the contract it has with the writers of the registry.
Contract == INSTANCE RebuildContract WITH
                requested <- status.registry_generation,
                acked     <- status.acknowledged_generation,
                pending   <- status.rebuild_pending
ContractKept == Contract!ContractSpec

\* shutdown() ends the runtime, a stop lost in a failing OPC session included.
ShutdownCompletes == shutdownSet ~> ShutDown

\* A pending rebuild is acknowledged in full once the faults are over, unless
\* a worker has acknowledged it in part or the application is shutting down.
RebuildConverges ==
    status.rebuild_pending ~> \/ ~status.rebuild_pending
                              \/ refused = status.registry_generation
                              \/ ~enabled \/ shutdownSet

\* The lock is never held for ever: a command write that blocks on a full pipe
\* ends, although a worker blocked on its own full stdout needs that very lock
\* to be drained.
LockIsReleased == ~LockFree ~> LockFree

\* A worker that ended by itself is replaced, unless the application is
\* stopping it.
WorkerDown ==
    enabled /\ process # 0 /\ ~Running /\ ~intentionalStop /\ ~shutdownSet
WorkerIsRestarted == WorkerDown ~> ~WorkerDown

\* A pending rebuild does not outlast a complete subscription of tags that were
\* loaded after it.
Unsettled(p) ==
    /\ status.rebuild_pending
    /\ W!At(p, "idle") /\ ~worker[p].failed
    /\ worker[p].snap = status.registry_generation
CompleteSubscriptionSettlesRebuild == \A p \in Pids : Unsettled(p) ~> ~Unsettled(p)
=============================================================================
