----------------------- MODULE RuntimeSupervisorProofs -----------------------
(***************************************************************************)
(* The safety properties of RuntimeSupervisor, proved for every number of  *)
(* processes, registry changes and process factory failures and for pipes  *)
(* of every capacity.                                                      *)
(*                                                                         *)
(* The inductive invariant has three parts.  TypeOK is not inductive alone:*)
(* a respawned worker is sent the pending generation, which is a legal     *)
(* rebuild command only because a pending rebuild has a generation, so the *)
(* type needs the counters (GenerationInv).  The counters in turn need     *)
(* every event that is still in a pipe, and SupervisionInv ties the        *)
(* process table to the monitor threads.                                   *)
(***************************************************************************)
EXTENDS RuntimeSupervisor, SequenceTheorems, TLAPS

\* The counters agree, and no event in a pipe is ahead of them.
GenerationInv ==
    /\ PendingIffUnacknowledged
    /\ \A p \in Pids : \A i \in 1..Len(stdout[p]) :
         stdout[p][i].generation <= status.registry_generation

\* The process table and the monitor threads agree.
SupervisionInv ==
    \A p \in Pids :
      /\ procState[p] = "running" => p = process /\ monitor[p] = "reading"
      /\ p > process => procState[p] = "unborn"
      /\ monitor[p] \in {"delaying", "respawning"} => procState[p] = "exited"

\* The inductive invariant.
IInv == TypeOK /\ GenerationInv /\ SupervisionInv /\ StopIsFinal

-----------------------------------------------------------------------------
\* An event leaves the status of the right type and the generation counter of
\* the registry alone (_apply_event).
LEMMA ApplyEventType ==
    ASSUME NEW s \in Status, NEW m \in Events
    PROVE  /\ ApplyEvent(s, m) \in Status
           /\ ApplyEvent(s, m).registry_generation = s.registry_generation
<1>1. /\ m.event \in EventNames
      /\ m.generation \in Generations
      /\ m.complete \in BOOLEAN
  BY DEF Events
<1>2. Acknowledged(s, m) \in Status
      /\ Acknowledged(s, m).registry_generation = s.registry_generation
  BY <1>1 DEF Acknowledged, Status, WorkerStates
<1> QED
  BY <1>1, <1>2 DEF ApplyEvent, Disconnected, Progressing, EventNames, PlainEvents, Status, WorkerStates, OpcStates

-----------------------------------------------------------------------------
\* What the two ends of a pipe do to its type.
LEMMA WritesAreTyped ==
    ASSUME PipesTypeOK, NEW p \in Pids
    PROVE  /\ \A c \in Commands : WriteCommand(p, c) => stdin' \in [Pids -> Seq(Commands)]
           /\ \A m \in Events : WriteEvent(p, m) => stdout' \in [Pids -> Seq(Events)]
<1>1. ASSUME NEW c \in Commands, WriteCommand(p, c)
      PROVE  stdin' \in [Pids -> Seq(Commands)]
  <2>1. stdin \in [Pids -> Seq(Commands)] /\ Append(stdin[p], c) \in Seq(Commands)
    BY DEF PipesTypeOK
  <2> QED
    BY <1>1, <2>1 DEF WriteCommand
<1>2. ASSUME NEW m \in Events, WriteEvent(p, m)
      PROVE  stdout' \in [Pids -> Seq(Events)]
  <2>1. stdout \in [Pids -> Seq(Events)] /\ Append(stdout[p], m) \in Seq(Events)
    BY DEF PipesTypeOK
  <2> QED
    BY <1>2, <2>1 DEF WriteEvent
<1> QED
  BY <1>1, <1>2

\* Reading keeps the types of both ends, and what is read is an event.
LEMMA ReadsAreTyped ==
    ASSUME PipesTypeOK, NEW p \in Pids
    PROVE  /\ stdin[p] # <<>> => [stdin EXCEPT ![p] = Tail(@)] \in [Pids -> Seq(Commands)]
           /\ stdout[p] # <<>> => /\ Head(stdout[p]) \in Events
                                  /\ [stdout EXCEPT ![p] = Tail(@)] \in [Pids -> Seq(Events)]
BY DEF PipesTypeOK

\* A new process (_spawn) starts from a status of the right type with the right
\* counters; the rebuild it may be sent is a command.
LEMMA SpawnType ==
    ASSUME TypeOK, NEW s \in Status, Spawn(s),
           s.rebuild_pending => s.registry_generation # 0
    PROVE  /\ process' \in Pids
           /\ procState' \in [Pids -> {"unborn", "running", "exited"}]
           /\ stdin' \in [Pids -> Seq(Commands)]
           /\ status' \in Status
<1>1. process' \in Pids /\ process' = process + 1
  BY PipeConstants DEF Spawn, TypeOK, Pids
<1>2. s.rebuild_pending => Command("rebuild", s.registry_generation) \in Commands
  BY DEF Commands, Status
<1>3. (IF s.rebuild_pending THEN <<Command("rebuild", s.registry_generation)>> ELSE <<>>)
        \in Seq(Commands)
  BY <1>2
<1>4. stdin' \in [Pids -> Seq(Commands)]
  BY <1>1, <1>3 DEF Spawn, FirstCommands, TypeOK, PipesTypeOK
<1>5. procState' \in [Pids -> {"unborn", "running", "exited"}]
  BY <1>1 DEF Spawn, FirstCommands, TypeOK, PipesTypeOK
<1>6. status' \in Status
  BY DEF Spawn, Status, WorkerStates, OpcStates
<1> QED
  BY <1>1, <1>4, <1>5, <1>6

-----------------------------------------------------------------------------
\* Every step keeps the types; GenerationInv is what a respawn needs.
LEMMA TypeStep == TypeOK /\ GenerationInv /\ [Next]_vars => TypeOK'
<1> SUFFICES ASSUME TypeOK, GenerationInv, [Next]_vars
             PROVE  TypeOK'
  OBVIOUS
<1> USE DEF TypeOK, PipesTypeOK, pipeVars, supervisorVars
<1>1. /\ 0 \in Generations
      /\ status.rebuild_pending => status.registry_generation # 0
      /\ status.registry_generation \in Generations
  BY PipeConstants DEF GenerationInv, PendingIffUnacknowledged, Generations, Status
<1>2. /\ Command("stop", 0) \in Commands
      /\ Command("reload_alarm_mappings", 0) \in Commands
  BY DEF Commands
<1>3. \A w \in WorkerStates, o \in OpcStates, c \in BOOLEAN :
        [status EXCEPT !.worker_state = w, !.opc_state = o,
                       !.subscription_complete = c] \in Status
  BY DEF Status
<1>counts. status.restart_count + 1 \in Nat
  BY DEF Status
<1>4. CASE StartRefused
  BY <1>4 DEF StartRefused, IdleState, Status, WorkerStates
<1>5. CASE StartSpawns
  <2>1. /\ process' \in Pids /\ status' \in Status
        /\ procState' \in [Pids -> {"unborn", "running", "exited"}]
        /\ stdin' \in [Pids -> Seq(Commands)]
    BY <1>1, <1>5, SpawnType DEF StartSpawns
  <2>2. process' \in 0..MaxSpawns
    BY <2>1 DEF Pids
  <2> QED
    BY <1>5, <2>1, <2>2 DEF StartSpawns
<1>6. CASE NotifyRegistryChanged
  <2>1. /\ status.registry_generation + 1 \in Generations \ {0}
        /\ Command("rebuild", status.registry_generation + 1) \in Commands
    BY <1>1, <1>6, PipeConstants DEF NotifyRegistryChanged, Generations, Commands
  <2> QED
    BY <1>6, <2>1 DEF NotifyRegistryChanged, Status
<1>7. CASE NotifyAlarmMappingsChanged
  BY <1>2, <1>7 DEF NotifyAlarmMappingsChanged
<1>8. CASE ShutdownRequested
  BY <1>8 DEF ShutdownRequested
<1>9. CASE Stop
  BY <1>2, <1>9 DEF Stop, IdleState, Status, WorkerStates
<1>10. CASE StopReturns
  BY <1>10 DEF StopReturns
<1>11. CASE StopTerminates
  <2>1. process \in Pids
    BY <1>11 DEF StopTerminates, Running, Pids
  <2> QED
    BY <1>11, <2>1 DEF StopTerminates, Ends
<1>12. CASE SendDelivered
  <2>1. process \in Pids /\ sending \in Commands
    BY <1>12 DEF SendDelivered, Running, Pids, LockFree
  <2>2. stdin' \in [Pids -> Seq(Commands)]
    BY <1>12, <2>1, WritesAreTyped DEF SendDelivered
  <2> QED
    BY <1>12, <2>2 DEF SendDelivered, AfterSend, Status, WorkerStates
<1>13. CASE SendBreaks
  BY <1>13 DEF SendBreaks, AfterSend
<1>14. ASSUME NEW p \in Pids, MonitorReads(p)
       PROVE  TypeOK'
  <2>1. /\ Head(stdout[p]) \in Events
        /\ stdout' \in [Pids -> Seq(Events)]
    BY <1>14, ReadsAreTyped DEF MonitorReads
  <2>2. status' \in Status
    BY <1>14, <2>1, ApplyEventType DEF MonitorReads
  <2> QED
    BY <1>14, <2>1, <2>2 DEF MonitorReads
<1>15. ASSUME NEW p \in Pids, MonitorSeesExit(p)
       PROVE  TypeOK'
  BY <1>15 DEF MonitorSeesExit, Exited, IdleState, Status, WorkerStates, OpcStates
<1>16. ASSUME NEW p \in Pids, RestartDelayEnds(p) \/ RespawnSkipped(p)
       PROVE  TypeOK'
  BY <1>16 DEF RestartDelayEnds, RespawnSkipped
<1>17. ASSUME NEW p \in Pids, Respawn(p)
       PROVE  TypeOK'
  <2> DEFINE counted == [status EXCEPT !.restart_count = @ + 1]
  <2>1. /\ counted \in Status
        /\ counted.rebuild_pending => counted.registry_generation # 0
    BY <1>1, <1>counts DEF Status
  <2>2. Spawn(counted)
    BY <1>17 DEF Respawn
  <2> HIDE DEF counted
  <2>3. /\ process' \in Pids /\ status' \in Status
        /\ procState' \in [Pids -> {"unborn", "running", "exited"}]
        /\ stdin' \in [Pids -> Seq(Commands)]
    BY <2>1, <2>2, SpawnType
  <2>4. process' \in 0..MaxSpawns
    BY <2>3 DEF Pids
  <2> QED
    BY <1>17, <2>3, <2>4 DEF Respawn
<1>18. ASSUME NEW p \in Pids, RespawnRaises(p)
       PROVE  TypeOK'
  <2>1. spawnFailures + 1 \in Nat
    OBVIOUS
  <2>2. status' \in Status
    BY <1>18, <1>counts DEF RespawnRaises, Status
  <2> QED
    BY <1>18, <2>1, <2>2 DEF RespawnRaises
<1>19. ASSUME NEW p \in Pids, WorkerReads(p)
       PROVE  TypeOK'
  BY <1>19, ReadsAreTyped DEF WorkerReads
<1>20. ASSUME NEW p \in Pids, NEW m \in Events, WorkerReports(p, m)
       PROVE  TypeOK'
  BY <1>20, WritesAreTyped DEF WorkerReports
<1>21. ASSUME NEW p \in Pids, WorkerExits(p)
       PROVE  TypeOK'
  BY <1>21 DEF WorkerExits, Ends
<1>22. CASE UNCHANGED vars
  BY <1>22 DEF vars
<1> QED
  BY <1>4, <1>5, <1>6, <1>7, <1>8, <1>9, <1>10, <1>11, <1>12, <1>13, <1>14, <1>15,
     <1>16, <1>17, <1>18, <1>19, <1>20, <1>21, <1>22
     DEF Next, SupervisorStep, CallerStep, NotifyStep, SendStep, MonitorStep, WorkerStep

-----------------------------------------------------------------------------
\* What a step that neither writes an event nor moves a counter preserves.
LEMMA CountersKept ==
    ASSUME GenerationInv, TypeOK, TypeOK',
           status'.registry_generation = status.registry_generation,
           status'.acknowledged_generation = status.acknowledged_generation,
           status'.rebuild_pending = status.rebuild_pending,
           UNCHANGED stdout
    PROVE  GenerationInv'
BY DEF GenerationInv, PendingIffUnacknowledged

\* An acknowledgement keeps the counters consistent, however late it is.
LEMMA AcknowledgedCounters ==
    ASSUME NEW s \in Status, NEW m \in Events,
           m.generation <= s.registry_generation,
           s.acknowledged_generation <= s.registry_generation,
           s.rebuild_pending <=> s.acknowledged_generation < s.registry_generation
    PROVE  LET t == ApplyEvent(s, m) IN
           /\ t.acknowledged_generation <= t.registry_generation
           /\ t.rebuild_pending <=> t.acknowledged_generation < t.registry_generation
<1>1. /\ m.event \in EventNames
      /\ m.generation \in Nat
      /\ s.registry_generation \in Nat
      /\ s.acknowledged_generation \in Nat
  BY PipeConstants DEF Events, Status, Generations
<1>2. CASE m.event = "rebuild_ack"
  <2>1. ApplyEvent(s, m) = Acknowledged(s, m)
    BY <1>2 DEF ApplyEvent
  <2>2. CASE ~m.complete
    BY <2>1, <2>2 DEF Acknowledged
  <2>3. CASE m.complete /\ m.generation >= s.registry_generation
    <3>1. m.generation = s.registry_generation
      BY <1>1, <2>3
    <3>2. Acknowledged(s, m).registry_generation = s.registry_generation
      BY <2>3 DEF Acknowledged, Status
    <3>3. Acknowledged(s, m).acknowledged_generation = s.registry_generation
      BY <1>1, <2>3, <3>1 DEF Acknowledged, Status
    <3>4. ~Acknowledged(s, m).rebuild_pending
      BY <2>3 DEF Acknowledged, Status
    <3> QED
      BY <1>1, <2>1, <3>2, <3>3, <3>4
  <2>4. CASE m.complete /\ m.generation < s.registry_generation
    BY <1>1, <2>1, <2>4 DEF Acknowledged, Status
  <2> QED
    BY <1>1, <2>2, <2>3, <2>4
<1>3. CASE m.event # "rebuild_ack"
  BY <1>1, <1>3 DEF ApplyEvent, Disconnected, Progressing, EventNames, PlainEvents, Status
<1> QED
  BY <1>2, <1>3

\* The counters stay consistent, and no event in a pipe is ahead of them.
LEMMA GenerationStep == TypeOK /\ TypeOK' /\ GenerationInv /\ [Next]_vars => GenerationInv'
<1> SUFFICES ASSUME TypeOK, TypeOK', GenerationInv, [Next]_vars
             PROVE  GenerationInv'
  OBVIOUS
<1> USE DEF pipeVars, supervisorVars
<1>1. status \in Status
  BY DEF TypeOK
<1>2. CASE StartRefused
  BY <1>1, <1>2, CountersKept DEF StartRefused, Status
<1>3. CASE StartSpawns
  BY <1>1, <1>3, CountersKept DEF StartSpawns, Spawn, Status
<1>4. CASE NotifyRegistryChanged
  <2>1. /\ status'.registry_generation = status.registry_generation + 1
        /\ status'.acknowledged_generation = status.acknowledged_generation
        /\ status'.rebuild_pending = TRUE
        /\ stdout' = stdout
    BY <1>1, <1>4 DEF NotifyRegistryChanged, Status
  <2>2. /\ status.registry_generation \in Nat
        /\ status.acknowledged_generation \in Nat
    BY <1>1, PipeConstants DEF Status, Generations
  <2>3. PendingIffUnacknowledged'
    BY <2>1, <2>2 DEF GenerationInv, PendingIffUnacknowledged
  <2>4. ASSUME NEW p \in Pids, NEW i \in 1..Len(stdout[p])
        PROVE  stdout[p][i].generation <= status.registry_generation + 1
    <3>1. stdout[p][i] \in Events
      BY DEF TypeOK, PipesTypeOK
    <3>2. stdout[p][i].generation \in Nat
      BY <3>1, PipeConstants DEF Events, Generations
    <3>3. stdout[p][i].generation <= status.registry_generation
      BY DEF GenerationInv
    <3> QED
      BY <2>2, <3>2, <3>3
  <2> QED
    BY <2>1, <2>3, <2>4 DEF GenerationInv
<1>5. CASE NotifyAlarmMappingsChanged \/ ShutdownRequested \/ StopReturns
  BY <1>5, CountersKept
     DEF NotifyAlarmMappingsChanged, ShutdownRequested, StopReturns
<1>6. CASE Stop
  BY <1>1, <1>6, CountersKept DEF Stop, Status
<1>7. CASE StopTerminates
  BY <1>7, CountersKept DEF StopTerminates, Ends
<1>8. CASE SendDelivered \/ SendBreaks
  BY <1>1, <1>8, CountersKept DEF SendDelivered, SendBreaks, AfterSend, Status
<1>9. ASSUME NEW p \in Pids, MonitorReads(p)
      PROVE  GenerationInv'
  <2> DEFINE m == Head(stdout[p])
  <2>1. /\ m \in Events
        /\ m.generation <= status.registry_generation
        /\ status' = ApplyEvent(status, m)
        /\ status'.registry_generation = status.registry_generation
    <3>1. stdout[p] \in Seq(Events) /\ stdout[p] # <<>>
      BY <1>9 DEF MonitorReads, TypeOK, PipesTypeOK
    <3>2. m = stdout[p][1] /\ 1 \in 1..Len(stdout[p])
      BY <3>1
    <3> QED
      BY <1>1, <1>9, <3>1, <3>2, ApplyEventType DEF MonitorReads, GenerationInv
  <2>2. PendingIffUnacknowledged'
    <3> HIDE DEF m
    <3> QED
      BY <1>1, <2>1, AcknowledgedCounters DEF GenerationInv, PendingIffUnacknowledged
  <2>3. ASSUME NEW q \in Pids, NEW i \in 1..Len(stdout'[q])
        PROVE  stdout'[q][i].generation <= status.registry_generation
    <3>1. CASE q = p
      <4>1. /\ stdout[p] \in Seq(Events) /\ stdout[p] # <<>>
            /\ stdout'[p] = Tail(stdout[p])
        BY <1>9 DEF MonitorReads, TypeOK, PipesTypeOK
      <4>2. i + 1 \in 1..Len(stdout[p]) /\ stdout'[p][i] = stdout[p][i + 1]
        BY <3>1, <4>1
      <4> QED
        BY <3>1, <4>2 DEF GenerationInv
    <3>2. CASE q # p
      BY <1>9, <3>2 DEF MonitorReads, GenerationInv, TypeOK, PipesTypeOK
    <3> QED
      BY <3>1, <3>2
  <2> QED
    BY <2>1, <2>2, <2>3 DEF GenerationInv
<1>10. ASSUME NEW p \in Pids,
              MonitorSeesExit(p) \/ RestartDelayEnds(p) \/ RespawnSkipped(p)
       PROVE  GenerationInv'
  BY <1>1, <1>10, CountersKept
     DEF MonitorSeesExit, Exited, RestartDelayEnds, RespawnSkipped, Status
<1>11. ASSUME NEW p \in Pids, Respawn(p) \/ RespawnRaises(p)
       PROVE  GenerationInv'
  BY <1>1, <1>11, CountersKept DEF Respawn, Spawn, RespawnRaises, Status
<1>12. ASSUME NEW p \in Pids, WorkerReads(p) \/ WorkerExits(p)
       PROVE  GenerationInv'
  BY <1>12, CountersKept DEF WorkerReads, WorkerExits, Ends
<1>13. ASSUME NEW p \in Pids, NEW m \in Events, WorkerReports(p, m)
       PROVE  GenerationInv'
  <2>1. /\ stdout \in [Pids -> Seq(Events)]
        /\ stdout' = [stdout EXCEPT ![p] = Append(@, m)]
        /\ status' = status
        /\ m.generation <= status.registry_generation
    BY <1>13 DEF WorkerReports, WriteEvent, TypeOK, PipesTypeOK
  <2>2. ASSUME NEW q \in Pids, NEW i \in 1..Len(stdout'[q])
        PROVE  stdout'[q][i].generation <= status.registry_generation
    <3>1. CASE q = p
      <4>1. stdout[p] \in Seq(Events) /\ stdout'[p] = Append(stdout[p], m)
        BY <2>1
      <4>2. CASE i \in 1..Len(stdout[p])
        BY <3>1, <4>1, <4>2 DEF GenerationInv
      <4>3. CASE i = Len(stdout[p]) + 1
        BY <2>1, <3>1, <4>1, <4>3
      <4> QED
        BY <3>1, <4>1, <4>2, <4>3
    <3>2. CASE q # p
      BY <2>1, <3>2 DEF GenerationInv
    <3> QED
      BY <3>1, <3>2
  <2> QED
    BY <2>1, <2>2 DEF GenerationInv, PendingIffUnacknowledged
<1>14. CASE UNCHANGED vars
  BY <1>14, CountersKept DEF vars
<1> QED
  BY <1>2, <1>3, <1>4, <1>5, <1>6, <1>7, <1>8, <1>9, <1>10, <1>11, <1>12, <1>13, <1>14
     DEF Next, SupervisorStep, CallerStep, NotifyStep, SendStep, MonitorStep, WorkerStep

-----------------------------------------------------------------------------
\* A new process is the only live one, and its predecessor's thread is done.
LEMMA SpawnSupervised ==
    ASSUME TypeOK, SupervisionInv, NEW s, Spawn(s), ~Running,
           \/ monitor' = [monitor EXCEPT ![process'] = "reading"]
           \/ monitor' = [monitor EXCEPT ![process] = "done", ![process'] = "reading"]
    PROVE  SupervisionInv'
<1>1. /\ process \in Nat /\ process < MaxSpawns /\ process' = process + 1
      /\ procState \in [Pids -> {"unborn", "running", "exited"}]
      /\ procState' = [procState EXCEPT ![process'] = "running"]
      /\ monitor \in [Pids -> {"none", "reading", "delaying", "respawning", "done"}]
  BY DEF Spawn, TypeOK, PipesTypeOK
<1>2. process' \in Pids
  BY <1>1, PipeConstants DEF Pids
<1>3. ASSUME NEW p \in Pids
      PROVE  procState[p] # "running"
  BY <1>1, PipeConstants DEF SupervisionInv, Running, Pids
<1>4. ASSUME NEW p \in Pids
      PROVE  /\ procState'[p] = "running" => p = process' /\ monitor'[p] = "reading"
             /\ p > process' => procState'[p] = "unborn"
             /\ monitor'[p] \in {"delaying", "respawning"} => procState'[p] = "exited"
  <2>1. CASE p = process'
    BY <1>1, <1>2, <2>1
  <2>2. CASE p # process'
    <3>1. p \in Nat /\ (p > process' => p > process)
      BY <1>1, PipeConstants DEF Pids
    <3>2. procState'[p] = procState[p]
      BY <1>1, <2>2
    <3>3. monitor'[p] = monitor[p] \/ monitor'[p] = "done"
      BY <1>1, <2>2
    <3> QED
      BY <1>3, <3>1, <3>2, <3>3 DEF SupervisionInv
  <2> QED
    BY <2>1, <2>2
<1> QED
  BY <1>4 DEF SupervisionInv

\* The process table and the monitor threads stay tied together.
LEMMA SupervisionStep == TypeOK /\ SupervisionInv /\ [Next]_vars => SupervisionInv'
<1> SUFFICES ASSUME TypeOK, SupervisionInv, [Next]_vars
             PROVE  SupervisionInv'
  OBVIOUS
<1> USE DEF pipeVars, supervisorVars
<1>1. /\ procState \in [Pids -> {"unborn", "running", "exited"}]
      /\ monitor \in [Pids -> {"none", "reading", "delaying", "respawning", "done"}]
  BY DEF TypeOK, PipesTypeOK
<1>2. ASSUME UNCHANGED <<procState, process, monitor>>
      PROVE  SupervisionInv'
  BY <1>2 DEF SupervisionInv
<1>3. CASE StartRefused \/ NotifyRegistryChanged \/ NotifyAlarmMappingsChanged
             \/ ShutdownRequested \/ Stop \/ StopReturns \/ SendDelivered \/ SendBreaks
  BY <1>2, <1>3 DEF StartRefused, NotifyRegistryChanged, NotifyAlarmMappingsChanged,
                    ShutdownRequested, Stop, StopReturns, SendDelivered, SendBreaks
<1>4. CASE StartSpawns
  BY <1>4, SpawnSupervised DEF StartSpawns
<1>5. ASSUME NEW p \in Pids, Ends(p), procState[p] = "running",
             UNCHANGED <<process, monitor>>
      PROVE  SupervisionInv'
  BY <1>1, <1>5 DEF Ends, SupervisionInv
<1>6. CASE StopTerminates
  <2>1. process \in Pids
    BY <1>6 DEF StopTerminates, Running, TypeOK, Pids
  <2> QED
    BY <1>5, <1>6, <2>1 DEF StopTerminates, Running
<1>7. ASSUME NEW p \in Pids, MonitorReads(p) \/ WorkerReads(p)
      PROVE  SupervisionInv'
  BY <1>2, <1>7 DEF MonitorReads, WorkerReads
<1>8. ASSUME NEW p \in Pids,
             \/ MonitorSeesExit(p) \/ RestartDelayEnds(p)
             \/ RespawnSkipped(p) \/ RespawnRaises(p)
      PROVE  SupervisionInv'
  <2>1. /\ procState[p] = "exited"
        /\ UNCHANGED <<procState, process>>
        /\ \E t \in {"delaying", "respawning", "done"} : monitor' = [monitor EXCEPT ![p] = t]
    BY <1>8 DEF MonitorSeesExit, RestartDelayEnds, RespawnSkipped, RespawnRaises,
                SupervisionInv
  <2> QED
    BY <1>1, <2>1 DEF SupervisionInv
<1>9. ASSUME NEW p \in Pids, Respawn(p)
      PROVE  SupervisionInv'
  <2>1. p = process /\ procState[p] = "exited"
    BY <1>9 DEF Respawn, MayRespawn, SupervisionInv
  <2> QED
    BY <1>9, <2>1, SpawnSupervised DEF Respawn, Running
<1>10. ASSUME NEW p \in Pids, NEW m \in Events, WorkerReports(p, m)
       PROVE  SupervisionInv'
  BY <1>2, <1>10 DEF WorkerReports
<1>11. ASSUME NEW p \in Pids, WorkerExits(p)
       PROVE  SupervisionInv'
  BY <1>5, <1>11 DEF WorkerExits
<1>12. CASE UNCHANGED vars
  BY <1>2, <1>12 DEF vars
<1> QED
  BY <1>3, <1>4, <1>6, <1>7, <1>8, <1>9, <1>10, <1>11, <1>12
     DEF Next, SupervisorStep, CallerStep, NotifyStep, SendStep, MonitorStep, WorkerStep

\* A finished stop() stays finished: whatever could spawn a process either
\* clears intentionalStop (start) or respects it (the monitor thread).
LEMMA StopStep == TypeOK /\ StopIsFinal /\ [Next]_vars => StopIsFinal'
<1> SUFFICES ASSUME TypeOK, StopIsFinal, [Next]_vars
             PROVE  StopIsFinal'
  OBVIOUS
<1> USE DEF StopIsFinal, Running, pipeVars, supervisorVars
<1>1. /\ procState \in [Pids -> {"unborn", "running", "exited"}]
      /\ process \in 0..MaxSpawns
      /\ intentionalStop \in BOOLEAN
  BY DEF TypeOK, PipesTypeOK
<1>2. CASE StartRefused \/ NotifyRegistryChanged \/ NotifyAlarmMappingsChanged
             \/ ShutdownRequested \/ StopReturns
  BY <1>2 DEF StartRefused, NotifyRegistryChanged, NotifyAlarmMappingsChanged,
              ShutdownRequested, StopReturns
<1>3. CASE StartSpawns
  BY <1>3 DEF StartSpawns
<1>4. CASE Stop
  BY <1>4 DEF Stop
<1>5. CASE StopTerminates
  BY <1>5 DEF StopTerminates
<1>6. CASE SendDelivered \/ SendBreaks
  BY <1>6 DEF SendDelivered, SendBreaks, AfterSend
<1>7. ASSUME NEW p \in Pids,
             \/ MonitorReads(p) \/ MonitorSeesExit(p) \/ RestartDelayEnds(p)
             \/ RespawnSkipped(p) \/ RespawnRaises(p) \/ WorkerReads(p)
      PROVE  StopIsFinal'
  BY <1>7 DEF MonitorReads, MonitorSeesExit, RestartDelayEnds, RespawnSkipped,
              RespawnRaises, WorkerReads
<1>8. ASSUME NEW p \in Pids, Respawn(p)
      PROVE  StopIsFinal'
  BY <1>8 DEF Respawn, MayRespawn
<1>9. ASSUME NEW p \in Pids, NEW m \in Events, WorkerReports(p, m)
      PROVE  StopIsFinal'
  BY <1>9 DEF WorkerReports
<1>10. ASSUME NEW p \in Pids, WorkerExits(p)
       PROVE  StopIsFinal'
  <2>1. procState'[process] = "running" => procState[process] = "running" \/ process = 0
    BY <1>1, <1>10 DEF WorkerExits, Ends, Pids
  <2> QED
    BY <1>10, <2>1 DEF WorkerExits
<1>11. CASE UNCHANGED vars
  BY <1>11 DEF vars
<1> QED
  BY <1>2, <1>3, <1>4, <1>5, <1>6, <1>7, <1>8, <1>9, <1>10, <1>11
     DEF Next, SupervisorStep, CallerStep, NotifyStep, SendStep, MonitorStep, WorkerStep

-----------------------------------------------------------------------------
\* The invariant holds when the supervisor is constructed ...
LEMMA Initially == Init => IInv
<1> SUFFICES ASSUME Init PROVE IInv
  OBVIOUS
<1>1. 0 \in Generations
  BY PipeConstants DEF Generations
<1>2. /\ stdin \in [Pids -> Seq(Commands)]
      /\ stdout \in [Pids -> Seq(Events)]
      /\ \A p \in Pids : Len(stdout[p]) = 0
  BY DEF Init
<1>3. PipesTypeOK
  BY <1>2 DEF Init, PipesTypeOK
<1>4. status \in Status
  BY <1>1 DEF Init, Status, WorkerStates, OpcStates
<1>5. TypeOK
  <2>1. enabled \in BOOLEAN /\ shutdownSet \in BOOLEAN /\ intentionalStop \in BOOLEAN
    BY DEF Init
  <2>2. process \in 0..MaxSpawns /\ spawnFailures \in Nat
    BY PipeConstants DEF Init
  <2>3. monitor \in [Pids -> {"none", "reading", "delaying", "respawning", "done"}]
    BY DEF Init
  <2>4. sending \in Commands \cup {NoCommand}
    BY DEF Init
  <2>5. caller \in {"idle", "shutting", "sending", "waiting"}
    BY DEF Init
  <2> QED
    BY <1>3, <1>4, <2>1, <2>2, <2>3, <2>4, <2>5 DEF TypeOK
<1>6. GenerationInv
  BY <1>2 DEF Init, GenerationInv, PendingIffUnacknowledged
<1>7. SupervisionInv /\ StopIsFinal
  BY DEF Init, SupervisionInv, StopIsFinal
<1> QED
  BY <1>5, <1>6, <1>7 DEF IInv

\* ... and each of its parts is kept by every step, with the help of the others.
LEMMA Inductive == Spec => []IInv
<1>1. Init => IInv
  BY Initially
<1>2. IInv /\ [Next]_vars => IInv'
  BY TypeStep, GenerationStep, SupervisionStep, StopStep DEF IInv
<1> QED
  BY <1>1, <1>2, PTL DEF Spec

\* The supervisor's state keeps its types: in particular only legal commands
\* are ever written to a worker.
THEOREM TypeCorrect == Spec => []TypeOK
<1>1. IInv => TypeOK
  BY DEF IInv
<1> QED
  BY <1>1, Inductive, PTL

\* There are never two live historian writers, and the live one is _process.
THEOREM OneWorker == Spec => []AtMostOneWorker
<1>1. IInv => AtMostOneWorker
  BY DEF IInv, SupervisionInv, AtMostOneWorker
<1> QED
  BY <1>1, Inductive, PTL

\* No worker lives without a monitor thread that reads it.
THEOREM WorkerMonitored == Spec => []LiveWorkerIsMonitored
<1>1. IInv => LiveWorkerIsMonitored
  BY DEF IInv, SupervisionInv, LiveWorkerIsMonitored
<1> QED
  BY <1>1, Inductive, PTL

\* rebuild_pending and the two generation counters never disagree.
THEOREM PendingConsistent == Spec => []PendingIffUnacknowledged
<1>1. IInv => PendingIffUnacknowledged
  BY DEF IInv, GenerationInv
<1> QED
  BY <1>1, Inductive, PTL

\* After stop() no worker runs until the next start().
THEOREM StopFinal == Spec => []StopIsFinal
<1>1. IInv => StopIsFinal
  BY DEF IInv
<1> QED
  BY <1>1, Inductive, PTL
=============================================================================
