--------------------------- MODULE HistorianWorker ---------------------------
(***************************************************************************)
(* workers/historian_worker.py: the historian worker process.  A reader    *)
(* thread moves command lines from stdin to an unbounded queue; the main   *)
(* loop (HistorianWorker.run) repeats sessions (run_session): load the     *)
(* active tags, connect to OPC, subscribe in batches, acknowledge the      *)
(* pending rebuild, then poll commands and the connection until the        *)
(* session ends; whatever ended it passes through the closing of the OPC   *)
(* session, which may itself fail.                                         *)
(*                                                                         *)
(* The state of worker p is one record:                                    *)
(*   pc       where run / run_session stands,                              *)
(*   queue    command_queue,                                               *)
(*   eof      read_commands has seen the end of stdin,                     *)
(*   gen      pending_generation, 0 for None,                              *)
(*   retry    _subscription_retry_count,                                   *)
(*   result   what the session is about to return or raise:                *)
(*            a command name, "build_error" (SubscriptionBuildError) or    *)
(*            "error" (any other exception),                               *)
(*   left     batches of tags still to subscribe,                          *)
(*   failed   some tag of this build was refused,                          *)
(*   snap     history: the registry generation when the tags were loaded.  *)
(*                                                                         *)
(* Time-outs, refusals, lost connections and crashes come from outside;    *)
(* `faults' is how many of them are still to come.                         *)
(***************************************************************************)
EXTENDS WorkerPipes

CONSTANTS
    MaxBatches,        \* bound: subscription batches of one tag snapshot
    MaxFaults,         \* bound: faults of the environment in one behaviour
    RetryAttempts      \* OPC_SUBSCRIPTION_RETRY_ATTEMPTS

ASSUME WorkerConstants ==
    /\ MaxBatches \in Nat
    /\ MaxFaults \in Nat
    /\ RetryAttempts \in Nat

VARIABLES
    worker,        \* the worker processes
    faults,        \* faults the environment may still cause
    parentAlive,   \* the web process at the other end of the pipes
    registry       \* registry changes notified so far (status.registry_generation)

ownVars    == <<worker, faults>>
workerVars == <<pipeVars, ownVars, parentAlive, registry>>

\* A worker is at "boot", "load", "connect", "build", "ack", "idle", "closing",
\* "failed", "backoff", "waiting" or "exited".
Fresh == [pc |-> "boot", queue |-> <<>>, eof |-> FALSE, gen |-> 0, retry |-> 0,
          result |-> "none", left |-> 0, failed |-> FALSE, snap |-> 0]
Gone  == [Fresh EXCEPT !.pc = "exited"]

-----------------------------------------------------------------------------
At(p, pc) == procState[p] = "running" /\ worker[p].pc = pc

Fault   == faults > 0 /\ faults' = faults - 1
NoFault == UNCHANGED faults

\* What belongs to the web process (written out, as the composition puts
\* expressions in place of the two variables).
SameOutside == parentAlive' = parentAlive /\ registry' = registry

\* The main loop goes on in state w; it writes nothing, or one event.
Continue(p, w) ==
    /\ worker' = [worker EXCEPT ![p] = w]
    /\ UNCHANGED pipeVars /\ SameOutside

Report(p, m, w) ==
    /\ parentAlive
    /\ WriteEvent(p, m)
    /\ worker' = [worker EXCEPT ![p] = w]
    /\ UNCHANGED <<procState, stdin>> /\ SameOutside

Exit(p) ==
    /\ Ends(p)
    /\ worker' = [worker EXCEPT ![p] = Gone]
    /\ UNCHANGED stdout /\ SameOutside

\* run_session ends in the OPC session's __aexit__ with this to return or raise.
Leaving(w, result) == [w EXCEPT !.pc = "closing", !.result = result]

\* A new call of run_session; what the last one left behind is dropped.
NewSession(w) == [w EXCEPT !.pc = "load", !.result = "none",
                           !.left = 0, !.failed = FALSE]

\* Mutant of Polled: a rebuild is remembered, and the session goes on.
PolledInPlace(w) ==
    IF w.queue = <<>> THEN w
    ELSE LET c == Head(w.queue)
             v == [w EXCEPT !.queue = Tail(@)] IN
         CASE c.command = "reload_alarm_mappings" -> v
           [] c.command = "stop"    -> Leaving(v, "stop")
           [] c.command = "rebuild" -> [v EXCEPT !.gen = c.generation]

\* _command() between two steps of a session: a rebuild leaves its generation
\* behind, an alarm reload is served on the spot, and both interrupts leave.
Polled(w) ==
    IF w.queue = <<>> THEN w
    ELSE LET c == Head(w.queue)
             v == [w EXCEPT !.queue = Tail(@)] IN
         CASE c.command = "reload_alarm_mappings" -> v
           [] c.command = "stop"    -> Leaving(v, "stop")
           [] c.command = "rebuild" -> Leaving([v EXCEPT !.gen = c.generation], "rebuild")

-----------------------------------------------------------------------------
\* run: worker_started
Boot(p) ==
    /\ At(p, "boot") /\ NoFault
    /\ Report(p, Event("worker_started", 0, FALSE), NewSession(worker[p]))

\* run_session, before the OPC connection: the tags are counted and loaded from
\* SQL and filtered by device state; the filter never fails a session.
LoadTags(p) ==
    /\ At(p, "load") /\ parentAlive /\ NoFault
    /\ \E n \in 0..MaxBatches :
         Continue(p, [worker[p] EXCEPT !.pc = "connect", !.left = n, !.snap = registry])

LoadFails(p) ==
    /\ At(p, "load") /\ parentAlive /\ Fault
    /\ Continue(p, [worker[p] EXCEPT !.pc = "failed", !.result = "error"])

Connect(p) ==
    /\ At(p, "connect") /\ NoFault
    /\ Report(p, Event("opc_connected", 0, FALSE), [worker[p] EXCEPT !.pc = "build"])

ConnectFails(p) ==
    /\ At(p, "connect") /\ Fault
    /\ Continue(p, [worker[p] EXCEPT !.pc = "failed", !.result = "error"])

\* _build_subscriptions: one batch is subscribed, some of its tags perhaps
\* refused, progress is reported and one command is polled.
SubscribeBatch(p) ==
    /\ At(p, "build") /\ worker[p].left > 0
    /\ \E refused \in BOOLEAN :
         /\ IF refused THEN Fault ELSE NoFault
         /\ Report(p, Event("subscriptions_progress", 0, FALSE),
                   Polled([worker[p] EXCEPT !.left = @ - 1, !.failed = @ \/ refused]))

\* A timed-out or failed batch raises SubscriptionBuildError; a lost connection
\* (here or in create_subscription) keeps its own exception.
BuildFails(p) ==
    /\ At(p, "build") /\ Fault
    /\ \E e \in {"error"} \cup (IF worker[p].left > 0 THEN {"build_error"} ELSE {}) :
         Continue(p, Leaving(worker[p], e))

\* Mutant of SubscriptionsReady: the pending rebuild is overlooked.
SubscriptionsReadyOnly(p) ==
    /\ At(p, "build") /\ worker[p].left = 0 /\ NoFault
    /\ Report(p, Event("subscriptions_ready", 0, ~worker[p].failed),
              [worker[p] EXCEPT !.retry = 0, !.pc = "idle"])

SubscriptionsReady(p) ==
    /\ At(p, "build") /\ worker[p].left = 0 /\ NoFault
    /\ Report(p, Event("subscriptions_ready", 0, ~worker[p].failed),
              [worker[p] EXCEPT !.retry = 0,
                                !.pc = IF worker[p].gen = 0 THEN "idle" ELSE "ack"])

RebuildAck(p) ==
    /\ At(p, "ack") /\ NoFault
    /\ Report(p, Event("rebuild_ack", worker[p].gen, ~worker[p].failed),
              [worker[p] EXCEPT !.gen = 0, !.pc = "idle"])

\* The loop of a ready session.
ServeCommand(p) ==
    /\ At(p, "idle") /\ worker[p].queue # <<>>
    /\ parentAlive \/ Head(worker[p].queue).command = "reload_alarm_mappings"
    /\ NoFault
    /\ Continue(p, Polled(worker[p]))

HealthcheckFails(p) ==
    /\ At(p, "idle") /\ Fault
    /\ Continue(p, Leaving(worker[p], "error"))

\* BoundedOpcSession.__aexit__: closing in time keeps what the session returns
\* or raises; a close that times out or fails raises instead of it.
CloseSession(p) ==
    /\ At(p, "closing") /\ NoFault
    /\ CASE worker[p].result = "stop"    -> Exit(p)
         [] worker[p].result = "rebuild" ->
              Report(p, Event("rebuild_started", 0, FALSE), NewSession(worker[p]))
         [] OTHER -> Continue(p, [worker[p] EXCEPT !.pc = "failed"])

CloseFails(p) ==
    /\ At(p, "closing") /\ Fault
    /\ \E e \in {"build_error", "error"} :
         Continue(p, [worker[p] EXCEPT !.pc = "failed", !.result = e])

\* Mutant of SessionFailed: the pending rebuild goes with the session.
SessionFailedForgets(p) ==
    /\ At(p, "failed") /\ NoFault
    /\ Report(p, Event("opc_disconnected", 0, FALSE),
              [worker[p] EXCEPT !.gen = 0, !.pc =
                 IF worker[p].result = "build_error" THEN "backoff" ELSE "waiting"])

\* run, the exception handler: report, and back off after a build error; used
\* up retries are reported and the count starts again.
SessionFailed(p) ==
    /\ At(p, "failed") /\ NoFault
    /\ Report(p, Event("opc_disconnected", 0, FALSE),
              [worker[p] EXCEPT !.pc =
                 IF worker[p].result = "build_error" THEN "backoff" ELSE "waiting"])

Backoff(p) ==
    /\ At(p, "backoff") /\ NoFault
    /\ Report(p, Event("subscriptions_recovery", 0, FALSE),
              [worker[p] EXCEPT !.pc = "waiting",
                                !.retry = IF @ >= RetryAttempts THEN 0 ELSE @ + 1])

\* The wait before the next session: it ends early on a rebuild, the process
\* ends on a stop, and a reload is dropped, for every session loads them anew.
WaitCommand(p) ==
    LET c == Head(worker[p].queue)
        v == [worker[p] EXCEPT !.queue = Tail(@)] IN
    /\ At(p, "waiting") /\ worker[p].queue # <<>> /\ NoFault
    /\ CASE c.command = "stop"    -> Exit(p)
         [] c.command = "rebuild" -> Continue(p, NewSession([v EXCEPT !.gen = c.generation]))
         [] OTHER                 -> Continue(p, v)

WaitEnds(p) ==
    /\ At(p, "waiting") /\ NoFault
    /\ Continue(p, NewSession(worker[p]))

-----------------------------------------------------------------------------
\* Mutant of ReadCommand: commands are read by the thread that reports.
ReadCommandBetweenReports(p) ==
    /\ procState[p] = "running" /\ stdin[p] # <<>>
    /\ Len(stdout[p]) < PipeCapacity
    /\ stdin' = [stdin EXCEPT ![p] = Tail(@)]
    /\ worker' = [worker EXCEPT ![p].queue = Append(@, Head(stdin[p]))]
    /\ UNCHANGED <<procState, stdout, faults>> /\ SameOutside

\* read_commands, a thread of its own; its last act at the end of stdin is to
\* queue a stop.
ReadCommand(p) ==
    /\ procState[p] = "running" /\ stdin[p] # <<>>
    /\ stdin' = [stdin EXCEPT ![p] = Tail(@)]
    /\ worker' = [worker EXCEPT ![p].queue = Append(@, Head(stdin[p]))]
    /\ UNCHANGED <<procState, stdout, faults>> /\ SameOutside

\* Mutant of StdinEnds: no stop is queued.
StdinEndsQuietly(p) ==
    /\ procState[p] = "running" /\ ~parentAlive
    /\ stdin[p] = <<>> /\ ~worker[p].eof
    /\ NoFault
    /\ Continue(p, [worker[p] EXCEPT !.eof = TRUE])

StdinEnds(p) ==
    /\ procState[p] = "running" /\ ~parentAlive
    /\ stdin[p] = <<>> /\ ~worker[p].eof
    /\ NoFault
    /\ Continue(p, [worker[p] EXCEPT !.eof = TRUE,
                                     !.queue = Append(@, Command("stop", 0))])

\* With the web process gone every report raises: inside a session that ends
\* the session, anywhere else the handler's own report raises too and run ends.
ReportRaisesInSession(p) ==
    /\ ~parentAlive /\ NoFault
    /\ \/ \E pc \in {"connect", "build", "ack"} : At(p, pc)
       \/ At(p, "idle") /\ worker[p].queue # <<>>
            /\ Head(worker[p].queue).command # "reload_alarm_mappings"
    /\ Continue(p, Leaving(worker[p], "error"))

ReportRaisesOutside(p) ==
    /\ ~parentAlive /\ NoFault
    /\ \/ \E pc \in {"boot", "load", "failed", "backoff"} : At(p, pc)
       \/ At(p, "closing") /\ worker[p].result = "rebuild"
    /\ Exit(p)

\* The process dies by itself.
Crash(p) ==
    /\ procState[p] = "running" /\ Fault
    /\ Exit(p)

-----------------------------------------------------------------------------
Progress(p) == \/ Boot(p) \/ LoadTags(p) \/ Connect(p) \/ SubscribeBatch(p)
               \/ SubscriptionsReady(p) \/ RebuildAck(p) \/ ServeCommand(p)
               \/ CloseSession(p) \/ SessionFailed(p) \/ Backoff(p)
               \/ WaitCommand(p) \/ WaitEnds(p)
               \/ ReportRaisesInSession(p) \/ ReportRaisesOutside(p)
Reader(p)   == ReadCommand(p) \/ StdinEnds(p)
Suffers(p)  == \/ LoadFails(p) \/ ConnectFails(p) \/ BuildFails(p)
               \/ HealthcheckFails(p) \/ CloseFails(p) \/ Crash(p)

WorkerProcess(p) == Progress(p) \/ Reader(p) \/ Suffers(p)

\* The environment when the worker is looked at alone: a web process that sends
\* what the supervisor may send, reads the events, and may die.
InFlight(p, name) ==
    \/ \E i \in DOMAIN stdin[p] : stdin[p][i].command = name
    \/ \E i \in DOMAIN worker[p].queue : worker[p].queue[i].command = name

ParentSends(p) ==
    /\ procState[p] = "running" /\ parentAlive
    /\ \/ /\ registry < MaxGeneration
          /\ registry' = registry + 1
          /\ WriteCommand(p, Command("rebuild", registry'))
       \/ \E name \in {"stop", "reload_alarm_mappings"} :
          /\ ~InFlight(p, name)      \* bound: one of each kind at a time
          /\ WriteCommand(p, Command(name, 0))
          /\ UNCHANGED registry
    /\ UNCHANGED <<procState, stdout, ownVars, parentAlive>>

ParentReads(p) ==
    /\ parentAlive
    /\ stdout[p] # <<>>
    /\ stdout' = [stdout EXCEPT ![p] = Tail(@)]
    /\ UNCHANGED <<procState, stdin, ownVars, parentAlive, registry>>

ParentDies ==
    /\ parentAlive
    /\ parentAlive' = FALSE
    /\ stdout' = [p \in Pids |-> <<>>]
    /\ UNCHANGED <<procState, stdin, ownVars, registry>>

WorkerInit ==
    /\ procState = [p \in Pids |-> "running"]
    /\ stdin = [p \in Pids |-> <<>>]
    /\ stdout = [p \in Pids |-> <<>>]
    /\ worker = [p \in Pids |-> Fresh]
    /\ faults = MaxFaults
    /\ parentAlive = TRUE
    /\ registry = 0

WorkerNext ==
    \/ \E p \in Pids : WorkerProcess(p) \/ ParentSends(p) \/ ParentReads(p)
    \/ ParentDies
    \/ /\ \A p \in Pids : procState[p] = "exited"
       /\ UNCHANGED workerVars

\* Every call the main loop makes is bounded by a time-out, its waits have a
\* deadline, the reader thread waits for input alone, and the web process keeps
\* reading while it lives.
WorkerFairness ==
    \A p \in Pids : /\ WF_workerVars(Progress(p))
                    /\ WF_workerVars(WaitEnds(p))
                    /\ WF_workerVars(Reader(p))
                    /\ WF_workerVars(ParentReads(p))

WorkerSpec == WorkerInit /\ [][WorkerNext]_workerVars /\ WorkerFairness

-----------------------------------------------------------------------------
\* A generation is acknowledged only from tags loaded after it was notified: a
\* session that carries a pending generation into its subscriptions has read
\* the registry behind it, however many sessions failed in between.
AckIsFresh ==
    \A p \in Pids : worker[p].pc \in {"connect", "build", "ack"} =>
                      worker[p].gen <= worker[p].snap

\* A generation the worker took from its queue survives failed builds, lost
\* connections and back-off: only its acknowledgement or a later generation
\* replaces it while the process lives.
PendingGenerationKept ==
    [][\A p \in Pids :
         worker[p].gen # 0 /\ worker'[p].gen # worker[p].gen /\ procState'[p] = "running"
           => \/ worker'[p].gen > worker[p].gen
              \/ worker[p].pc = "ack" /\ stdout'[p] # stdout[p]]_workerVars

\* A rebuild the worker took up is answered, or superseded, or the process ends.
RebuildIsAnswered ==
    \A p \in Pids : \A g \in Generations \ {0} : worker[p].gen = g ~> worker[p].gen # g

\* No historian outlives the web process that started it.
OrphanEnds == ~parentAlive ~> \A p \in Pids : procState[p] = "exited"
=============================================================================
