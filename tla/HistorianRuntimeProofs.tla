------------------------ MODULE HistorianRuntimeProofs ------------------------
(***************************************************************************)
(* The supervisor and its workers together, proved for every number of     *)
(* processes, generations, batches and faults: what is shown as            *)
(* acknowledged is loaded, the runtime implements RebuildContract, no      *)
(* pending rebuild is lost and no complete subscription shown untruly.     *)
(*                                                                         *)
(* A step of the web process is a step of RuntimeSupervisor, so its type,  *)
(* its counters and its process table are kept by the lemmas of            *)
(* RuntimeSupervisorProofs.  What is added here follows a generation round *)
(* the loop: no command is ahead of the registry, no event is ahead of the *)
(* tags that were loaded, and a session that carries a generation into its *)
(* subscriptions holds the latest load.                                    *)
(***************************************************************************)
EXTENDS HistorianRuntime, RuntimeSupervisorProofs

-----------------------------------------------------------------------------
Stages == {"boot", "load", "connect", "build", "ack", "idle", "closing", "failed",
           "backoff", "waiting", "exited"}
Results == {"none", "stop", "rebuild", "build_error", "error"}

\* The stages of a session that works with the tags it has loaded, and those
\* from which a pending generation is still to be acknowledged.
Subscribing == {"connect", "build", "ack", "idle"}
Answering   == {"connect", "build", "ack"}

\* Commands and events that are not ahead of generation g, and workers that
\* hold nothing ahead of it.
Asked(g) == {c \in Commands : c.generation <= g}
Told(g)  == {m \in Events : m.generation <= g}
Workers(g) == [pc : Stages, queue : Seq(Asked(g)), eof : BOOLEAN, gen : 0..g,
               retry : Nat, result : Results, left : Nat, failed : BOOLEAN,
               snap : 0..g]

Requested == status.registry_generation
Acked     == status.acknowledged_generation

\* Nobody is ahead of whom it has its generations from.
LoopInv ==
    /\ loaded \in Nat /\ Acked <= loaded /\ loaded <= Requested
    /\ stdin \in [Pids -> Seq(Asked(Requested))]
    /\ sending \in Asked(Requested) \cup {NoCommand}
    /\ stdout \in [Pids -> Seq(Told(loaded))]
    /\ worker \in [Pids -> Workers(Requested)]

\* A live session holds the latest load of tags, and what it is to acknowledge
\* is covered by it; a process starts at the beginning of run().
SessionInv ==
    \A p \in Pids :
      /\ procState[p] = "unborn" => worker[p].pc = "boot"
      /\ procState[p] = "running" /\ worker[p].pc \in Answering =>
           worker[p].gen <= worker[p].snap
      /\ procState[p] = "running" /\ worker[p].pc \in Subscribing =>
           worker[p].snap = loaded
      /\ procState[p] = "running" /\ worker[p].pc = "ack" => worker[p].gen # 0

RInv == TypeOK /\ GenerationInv /\ SupervisionInv /\ LoopInv /\ SessionInv

\* Where the latest generation g is between the two processes: behind it in the
\* line of the worker (its queue, then its stdin, then the write that holds the
\* lock) there is no other rebuild.
IsRebuild(c)   == c.command = "rebuild"
Silent(s)      == \A i \in DOMAIN s : ~IsRebuild(s[i])
Has(s, g)      == \E i \in DOMAIN s : s[i] = Command("rebuild", g)
OnlyLast(s, g) == \A i, j \in DOMAIN s :
                    i < j /\ s[i] = Command("rebuild", g) => ~IsRebuild(s[j])
OnlyAsk(s, g)  == \A i \in DOMAIN s : IsRebuild(s[i]) => s[i].generation = g

InLine(w, in, send, g) ==
    /\ w.gen = g /\ g # 0 => Silent(w.queue) /\ Silent(in) /\ ~IsRebuild(send)
    /\ Has(w.queue, g) => Silent(in) /\ ~IsRebuild(send)
    /\ Has(in, g) => ~IsRebuild(send)
    /\ OnlyLast(w.queue, g) /\ OnlyLast(in, g)

\* Once g was acknowledged in part, the worker is asked for nothing older.
NothingOlder(w, in, g) ==
    OnlyAsk(w.queue, g) /\ OnlyAsk(in, g) /\ w.gen \in {0, g}

\* RebuildOnItsWay, the half-done write included.
AckIn(out, g) == \E i \in DOMAIN out : out[i] = Event("rebuild_ack", g, TRUE)

OnItsWay(w, in, send, out, g) ==
    \/ Has(in, g) \/ Has(w.queue, g) \/ w.gen = g \/ send = Command("rebuild", g)
    \/ AckIn(out, g)

ChainInv ==
    /\ process # 0 => enabled
    /\ \A p \in Pids : procState[p] = "unborn" => worker[p].queue = <<>> /\ worker[p].gen = 0
    /\ refused \in Nat /\ refused <= Requested
    /\ IsRebuild(sending) => sending.generation = Requested
    /\ \A p \in Pids : procState[p] = "running" =>
         /\ InLine(worker[p], stdin[p], sending, Requested)
         /\ refused = Requested /\ Requested # 0 =>
              NothingOlder(worker[p], stdin[p], Requested)
         /\ status.rebuild_pending =>
              \/ refused = Requested
              \/ OnItsWay(worker[p], stdin[p], sending, stdout[p], Requested)

-----------------------------------------------------------------------------
\* A sequence over a set is one over every larger set.
LEMMA SeqGrows ==
    ASSUME NEW S, NEW T, S \subseteq T
    PROVE  Seq(S) \subseteq Seq(T)
<1> SUFFICES ASSUME NEW s \in Seq(S) PROVE s \in Seq(T)
  OBVIOUS
<1>1. Len(s) \in Nat /\ s \in [1..Len(s) -> S]
  OBVIOUS
<1>2. s \in [1..Len(s) -> T]
  BY <1>1
<1> QED
  BY <1>1, <1>2, IsASeq

\* What is not ahead of g is not ahead of any later generation.
LEMMA BoundsGrow ==
    ASSUME NEW g \in Nat, NEW h \in Nat, g <= h
    PROVE  /\ Asked(g) \subseteq Asked(h) /\ Seq(Asked(g)) \subseteq Seq(Asked(h))
           /\ Told(g) \subseteq Told(h) /\ Seq(Told(g)) \subseteq Seq(Told(h))
           /\ Workers(g) \subseteq Workers(h)
<1>1. \A c \in Commands : c.generation \in Nat
  <2>1. 0 \in Generations
    BY PipeConstants DEF PipeConstants, Generations
  <2> QED
    BY <2>1 DEF Commands, Command, Generations
<1>2. \A m \in Events : m.generation \in Nat
  BY DEF Events, Generations
<1>3. Asked(g) \subseteq Asked(h)
  BY <1>1 DEF Asked
<1>4. Told(g) \subseteq Told(h)
  BY <1>2 DEF Told
<1>5. Seq(Asked(g)) \subseteq Seq(Asked(h)) /\ Seq(Told(g)) \subseteq Seq(Told(h))
  BY <1>3, <1>4, SeqGrows
<1>6. 0..g \subseteq 0..h
  OBVIOUS
<1>7. Workers(g) \subseteq Workers(h)
  BY <1>5, <1>6 DEF Workers
<1> QED
  BY <1>3, <1>4, <1>5, <1>7

-----------------------------------------------------------------------------
\* What a step of the supervisor may do to the counters: nothing, one request,
\* or one acknowledgement of a generation that was loaded.
SameCounters ==
    /\ Requested' = Requested /\ Acked' = Acked
    /\ status'.rebuild_pending = status.rebuild_pending

Requests ==
    /\ Requested' = Requested + 1 /\ Acked' = Acked
    /\ status'.rebuild_pending = TRUE

Acknowledges ==
    \E g \in 1..loaded :
       /\ Acked < g /\ Acked' = g
       /\ Requested' = Requested
       /\ status'.rebuild_pending = (g < Requested)

CountersMove == SameCounters \/ Requests \/ Acknowledges

\* An event of a worker that is not ahead of its tags.
LEMMA EventMovesCounters ==
    ASSUME RInv, NEW m \in Told(loaded), status' = ApplyEvent(status, m)
    PROVE  SameCounters \/ Acknowledges
<1>1. /\ m \in Events /\ m.generation <= loaded /\ m.event \in EventNames
      /\ m.generation \in Nat
  BY DEF Told, Events, Generations
<1>2. /\ status \in Status /\ Requested \in Nat /\ Acked \in Nat /\ loaded \in Nat
      /\ loaded <= Requested /\ Acked <= Requested
      /\ status.rebuild_pending \in BOOLEAN
      /\ status.rebuild_pending <=> Acked < Requested
  BY PipeConstants DEF PipeConstants, RInv, TypeOK, GenerationInv, LoopInv, Status, Generations,
     PendingIffUnacknowledged, Requested, Acked
<1>3. CASE m.event # "rebuild_ack"
  BY <1>1, <1>2, <1>3
     DEF ApplyEvent, Disconnected, Progressing, EventNames, PlainEvents, Status,
         SameCounters, Requested, Acked
<1>4. CASE m.event = "rebuild_ack"
  <2>1. status' = Acknowledged(status, m)
    BY <1>4 DEF ApplyEvent
  <2>2. CASE ~m.complete
    BY <2>1, <2>2 DEF Acknowledged, SameCounters, Requested, Acked
  <2>3. CASE m.complete
    <3>1. /\ Requested' = Requested
          /\ Acked' = IF m.generation > Acked THEN m.generation ELSE Acked
          /\ status'.rebuild_pending =
               (status.rebuild_pending /\ ~(m.generation >= Requested))
      BY <1>2, <2>1, <2>3 DEF Acknowledged, Status, Requested, Acked
    <3>2. CASE m.generation > Acked
      <4>1. status.rebuild_pending
        BY <1>1, <1>2, <3>2
      <4>2. m.generation \in 1..loaded
        BY <1>1, <1>2, <3>2
      <4>3. status'.rebuild_pending = (m.generation < Requested)
        BY <1>1, <1>2, <3>1, <4>1
      <4> QED
        BY <3>1, <3>2, <4>2, <4>3 DEF Acknowledges
    <3>3. CASE m.generation <= Acked
      <4>1. ~(m.generation < Requested) => ~status.rebuild_pending
        BY <1>1, <1>2, <3>3
      <4>2. m.generation >= Requested <=> ~(m.generation < Requested)
        BY <1>1, <1>2
      <4>3. status'.rebuild_pending = status.rebuild_pending
        BY <1>2, <3>1, <4>1, <4>2
      <4>4. ~(m.generation > Acked)
        BY <1>1, <1>2, <3>3
      <4> QED
        BY <3>1, <4>3, <4>4 DEF SameCounters
    <3> QED
      BY <1>1, <1>2, <3>2, <3>3
  <2> QED
    BY <2>2, <2>3
<1> QED
  BY <1>3, <1>4

\* What a step of the supervisor does to the pipes and to the process table.
ProcessesMove ==
    \A p \in Pids :
      /\ procState'[p] = "unborn" => procState[p] = "unborn"
      /\ procState'[p] = "running" => procState[p] \in {"running", "unborn"}

PipesMove ==
    /\ stdin' \in [Pids -> Seq(Asked(Requested'))]
    /\ sending' \in Asked(Requested') \cup {NoCommand}
    /\ stdout' \in [Pids -> Seq(Told(loaded))]

LEMMA SpawnMoves ==
    ASSUME RInv, NEW s \in Status, Spawn(s), ~Running, stdout' = stdout, sending' = sending,
           /\ s.registry_generation = Requested
           /\ s.acknowledged_generation = Acked
           /\ s.rebuild_pending = status.rebuild_pending
    PROVE  CountersMove /\ ProcessesMove /\ PipesMove
<1>1. /\ process' = process + 1 /\ process \in Nat /\ process < MaxSpawns
      /\ procState' = [procState EXCEPT ![process'] = "running"]
      /\ procState \in [Pids -> {"unborn", "running", "exited"}]
  BY DEF Spawn, RInv, TypeOK, PipesTypeOK
<1>2. process' \in Pids /\ procState[process'] = "unborn"
  <2>1. process' \in Pids /\ process' > process
    BY <1>1, PipeConstants DEF PipeConstants, Pids
  <2> QED
    BY <2>1 DEF RInv, SupervisionInv
<1>3. ProcessesMove
  BY <1>1, <1>2 DEF ProcessesMove
<1>4. SameCounters
  BY DEF Spawn, Status, SameCounters, Requested, Acked
<1>5. FirstCommands(s) \in Seq(Asked(Requested))
  <2>1. CASE s.rebuild_pending
    <3>1. Requested \in Generations \ {0}
      BY <2>1, PipeConstants
         DEF PipeConstants, RInv, TypeOK, GenerationInv, PendingIffUnacknowledged, Status,
             Generations, Requested, Acked
    <3>2. Command("rebuild", Requested) \in Asked(Requested)
      BY <3>1 DEF Asked, Commands, Command, Generations
    <3> QED
      BY <2>1, <3>2 DEF FirstCommands
  <2>2. CASE ~s.rebuild_pending
    BY <2>2 DEF FirstCommands
  <2> QED
    BY <2>1, <2>2
<1>6. stdin' = [stdin EXCEPT ![process'] = FirstCommands(s)]
  BY <1>1 DEF Spawn
<1>7. PipesMove
  BY <1>4, <1>5, <1>6 DEF PipesMove, SameCounters, RInv, LoopInv
<1> QED
  BY <1>3, <1>4, <1>7 DEF CountersMove

\* A step that leaves the pipes, the process table and the counters alone.
LEMMA NothingMoves ==
    ASSUME RInv, SameCounters, sending' \in Asked(Requested) \cup {NoCommand},
           UNCHANGED <<procState, stdin, stdout>>
    PROVE  CountersMove /\ ProcessesMove /\ PipesMove
<1>1. Requested' = Requested
  BY DEF SameCounters
<1>2. PipesMove
  BY <1>1 DEF RInv, LoopInv, PipesMove
<1>3. ProcessesMove
  BY DEF RInv, TypeOK, PipesTypeOK, ProcessesMove
<1> QED
  BY <1>2, <1>3 DEF CountersMove

\* Every step of the supervisor.
LEMMA SupervisorMoves ==
    ASSUME RInv, SupervisorStep
    PROVE  CountersMove /\ ProcessesMove /\ PipesMove
<1> DEFINE Moves == CountersMove /\ ProcessesMove /\ PipesMove
<1> USE DEF pipeVars, supervisorVars
<1>1. /\ status \in Status /\ Requested \in Nat /\ Requested \in Generations
      /\ sending \in Asked(Requested) \cup {NoCommand} /\ sending \in Commands \cup {NoCommand}
      /\ stdin \in [Pids -> Seq(Asked(Requested))]
      /\ stdout \in [Pids -> Seq(Told(loaded))]
      /\ procState \in [Pids -> {"unborn", "running", "exited"}]
  BY PipeConstants DEF PipeConstants, RInv, TypeOK, LoopInv, PipesTypeOK, Status, Generations,
     Requested
<1>2. Command("stop", 0) \in Asked(Requested)
      /\ Command("reload_alarm_mappings", 0) \in Asked(Requested)
      /\ NoCommand \in Asked(Requested) \cup {NoCommand}
  BY <1>1 DEF Asked, Commands, Command
<1>3. status' = status => SameCounters
  BY DEF SameCounters, Requested, Acked
<1>4. \A w \in WorkerStates : status' = [status EXCEPT !.worker_state = w] => SameCounters
  BY <1>1 DEF SameCounters, Requested, Acked, Status
<1>5. CASE StartRefused
  BY <1>1, <1>4, <1>5, NothingMoves DEF StartRefused, IdleState, WorkerStates
<1>6. CASE StartSpawns
  <2>1. Spawn(status) /\ ~Running /\ UNCHANGED <<stdout, sending>>
    BY <1>6 DEF StartSpawns
  <2> QED
    BY <1>1, <2>1, SpawnMoves DEF Requested, Acked
<1>7. CASE NotifyRegistryChanged
  <2> DEFINE g == Requested + 1
  <2>1. /\ Requests /\ Requested' = g
        /\ UNCHANGED <<procState, stdin, stdout>>
        /\ sending' \in {Command("rebuild", g), NoCommand}
    BY <1>1, <1>7 DEF NotifyRegistryChanged, Requests, Requested, Acked, Status
  <2>2. Command("rebuild", g) \in Asked(g)
    <3>1. g \in Generations \ {0}
      BY <1>1, <1>7, PipeConstants
         DEF PipeConstants, NotifyRegistryChanged, Requested, Generations
    <3> QED
      BY <3>1 DEF Asked, Commands, Command, Generations
  <2>3. Seq(Asked(Requested)) \subseteq Seq(Asked(g))
    BY <1>1, BoundsGrow
  <2>4. stdin' \in [Pids -> Seq(Asked(g))]
    BY <1>1, <2>1, <2>3
  <2>5. ProcessesMove
    BY <1>1, <2>1 DEF ProcessesMove
  <2> HIDE DEF g
  <2>6. PipesMove
    BY <1>1, <2>1, <2>2, <2>4 DEF PipesMove
  <2> QED
    BY <2>1, <2>5, <2>6 DEF CountersMove
<1>8. CASE NotifyAlarmMappingsChanged
  BY <1>2, <1>3, <1>8, NothingMoves DEF NotifyAlarmMappingsChanged
<1>9. CASE ShutdownRequested \/ StopReturns
  BY <1>1, <1>3, <1>9, NothingMoves DEF ShutdownRequested, StopReturns
<1>10. CASE Stop
  <2>1. SameCounters
    BY <1>4, <1>10 DEF Stop, IdleState, WorkerStates
  <2>2. sending' \in Asked(Requested) \cup {NoCommand}
    BY <1>1, <1>2, <1>10 DEF Stop
  <2> QED
    BY <1>10, <2>1, <2>2, NothingMoves DEF Stop
<1>11. CASE StopTerminates
  <2>1. /\ procState' = [procState EXCEPT ![process] = "exited"]
        /\ stdin' = [stdin EXCEPT ![process] = <<>>]
        /\ UNCHANGED <<status, sending, stdout>>
    BY <1>11 DEF StopTerminates, Ends
  <2>2. SameCounters /\ Requested' = Requested
    BY <1>3, <2>1 DEF Requested
  <2>3. stdin' \in [Pids -> Seq(Asked(Requested))]
    <3>1. <<>> \in Seq(Asked(Requested))
      OBVIOUS
    <3> QED
      BY <1>1, <2>1, <3>1
  <2>4. PipesMove
    BY <1>1, <2>1, <2>2, <2>3 DEF PipesMove
  <2>5. ProcessesMove
    BY <1>1, <2>1 DEF ProcessesMove
  <2> QED
    BY <2>2, <2>4, <2>5 DEF CountersMove
<1>12. CASE SendDelivered
  <2>1. SameCounters /\ Requested' = Requested
    BY <1>3, <1>4, <1>12 DEF SendDelivered, AfterSend, WorkerStates, SameCounters
  <2>2. sending \in Asked(Requested) /\ process \in Pids
    BY <1>1, <1>12 DEF SendDelivered, LockFree, Running, RInv, TypeOK, Pids
  <2>3. stdin' = [stdin EXCEPT ![process] = Append(@, sending)]
    BY <1>12 DEF SendDelivered, WriteCommand
  <2>4. Append(stdin[process], sending) \in Seq(Asked(Requested))
    BY <1>1, <2>2
  <2>5. stdin' \in [Pids -> Seq(Asked(Requested))]
    BY <1>1, <2>3, <2>4
  <2>6. PipesMove
    BY <1>1, <1>12, <2>1, <2>5 DEF PipesMove, SendDelivered, AfterSend
  <2>7. ProcessesMove
    BY <1>1, <1>12 DEF ProcessesMove, SendDelivered
  <2> QED
    BY <2>1, <2>6, <2>7 DEF CountersMove
<1>13. CASE SendBreaks
  BY <1>2, <1>3, <1>13, NothingMoves DEF SendBreaks, AfterSend
<1>14. ASSUME NEW p \in Pids, MonitorReads(p) PROVE Moves
  <2>1. /\ stdout[p] \in Seq(Told(loaded)) /\ stdout[p] # <<>>
        /\ status' = ApplyEvent(status, Head(stdout[p]))
        /\ stdout' = [stdout EXCEPT ![p] = Tail(@)]
        /\ UNCHANGED <<procState, stdin, sending>>
    BY <1>1, <1>14 DEF MonitorReads
  <2>2. Head(stdout[p]) \in Told(loaded) /\ Tail(stdout[p]) \in Seq(Told(loaded))
    BY <2>1
  <2>3. SameCounters \/ Acknowledges
    BY <2>1, <2>2, EventMovesCounters
  <2>4. Requested' = Requested
    BY <2>3 DEF SameCounters, Acknowledges
  <2>5. stdout' \in [Pids -> Seq(Told(loaded))]
    BY <1>1, <2>1, <2>2
  <2>6. PipesMove
    BY <1>1, <2>1, <2>4, <2>5 DEF PipesMove
  <2>7. ProcessesMove
    BY <1>1, <2>1 DEF ProcessesMove
  <2> QED
    BY <2>3, <2>6, <2>7 DEF CountersMove
<1>15. ASSUME NEW p \in Pids, MonitorSeesExit(p) PROVE Moves
  <2>1. SameCounters
    BY <1>1, <1>3, <1>15 DEF MonitorSeesExit, Exited, Status, SameCounters, Requested, Acked
  <2> QED
    BY <1>1, <1>15, <2>1, NothingMoves DEF MonitorSeesExit
<1>16. ASSUME NEW p \in Pids, RestartDelayEnds(p) \/ RespawnSkipped(p) PROVE Moves
  BY <1>1, <1>3, <1>16, NothingMoves DEF RestartDelayEnds, RespawnSkipped
<1>17. ASSUME NEW p \in Pids, Respawn(p) PROVE Moves
  <2> DEFINE counted == [status EXCEPT !.restart_count = @ + 1]
  <2>1. /\ counted \in Status
        /\ counted.registry_generation = Requested
        /\ counted.acknowledged_generation = Acked
        /\ counted.rebuild_pending = status.rebuild_pending
    <3>1. status.restart_count + 1 \in Nat
      BY <1>1 DEF Status
    <3> QED
      BY <1>1, <3>1 DEF Status, Requested, Acked
  <2>2. Spawn(counted) /\ UNCHANGED <<stdout, sending>>
    BY <1>17 DEF Respawn
  <2>3. ~Running
    BY <1>17 DEF Respawn, MayRespawn, RInv, SupervisionInv, Running
  <2> HIDE DEF counted
  <2> QED
    BY <2>1, <2>2, <2>3, SpawnMoves
<1>18. ASSUME NEW p \in Pids, RespawnRaises(p) PROVE Moves
  <2>1. SameCounters
    BY <1>1, <1>18 DEF RespawnRaises, Status, SameCounters, Requested, Acked
  <2> QED
    BY <1>1, <1>18, <2>1, NothingMoves DEF RespawnRaises
<1> QED
  BY <1>5, <1>6, <1>7, <1>8, <1>9, <1>10, <1>11, <1>12, <1>13, <1>14, <1>15,
     <1>16, <1>17, <1>18
     DEF SupervisorStep, CallerStep, NotifyStep, SendStep, MonitorStep

-----------------------------------------------------------------------------
\* The pipe operators, as the worker has them.
LEMMA SamePipes ==
    /\ \A p : \A m : W!WriteEvent(p, m) <=> WriteEvent(p, m)
    /\ \A p : W!Ends(p) <=> Ends(p)
    /\ \A e : \A g : \A b : W!Event(e, g, b) = Event(e, g, b)
BY DEF W!WriteEvent, WriteEvent, W!Ends, Ends, W!Event, Event

LEMMA GoneIsWorker ==
    ASSUME NEW g \in Nat PROVE W!Gone \in Workers(g) /\ W!Gone.pc = "exited"
<1>1. 0 \in 0..g /\ <<>> \in Seq(Asked(g))
  OBVIOUS
<1> QED
  BY <1>1 DEF W!Gone, W!Fresh, Workers, Stages, Results

\* What a step of worker p does: the process ends, or its main loop goes on in a
\* state w, with the tags it had or with a fresh load of them.
Ended(p) ==
    /\ procState' = [procState EXCEPT ![p] = "exited"]
    /\ stdin' = [stdin EXCEPT ![p] = <<>>]
    /\ worker' = [worker EXCEPT ![p] = W!Gone]
    /\ stdout' = stdout /\ loaded' = loaded /\ refused' = refused

\* It keeps its pending commands as they are, takes the first one, or has its
\* reader thread add one; or it settles its pending generation.
Keeps(v, w) == w.queue = v.queue /\ w.gen = v.gen

Takes(v, w) ==
    /\ v.queue # <<>> /\ w.queue = Tail(v.queue)
    /\ w.gen = IF IsRebuild(Head(v.queue)) THEN Head(v.queue).generation ELSE v.gen

Reads(p, w) ==
    /\ stdin[p] # <<>>
    /\ stdin' = [stdin EXCEPT ![p] = Tail(@)]
    /\ w.queue = Append(worker[p].queue, Head(stdin[p]))
    /\ w.gen = worker[p].gen

Settles(p, w) ==
    /\ w.queue = worker[p].queue /\ w.gen = 0 /\ worker[p].gen # 0
    /\ \/ /\ stdout'[p] = Append(stdout[p], Event("rebuild_ack", worker[p].gen, TRUE))
          /\ refused' = refused
       \/ refused' = worker[p].gen

Handles(p, w) ==
    \/ /\ stdin' = stdin /\ refused' = refused
       /\ Keeps(worker[p], w) \/ Takes(worker[p], w)
    \/ stdin' = stdin /\ Settles(p, w)
    \/ refused' = refused /\ Reads(p, w)

ReportsStay(p) ==
    \A i \in DOMAIN stdout[p] : \E j \in DOMAIN stdout'[p] : stdout'[p][j] = stdout[p][i]

KeepsTags(v, w) ==
    /\ w.pc \in Subscribing => v.pc \in Subscribing /\ w.snap = v.snap
    /\ w.pc = "ack" => w.gen # 0

GoesOn(p) ==
    /\ procState' = procState
    /\ stdin' \in [Pids -> Seq(Asked(Requested))]
    /\ stdout' \in [Pids -> Seq(Told(loaded))] /\ ReportsStay(p)
    /\ \E w \in Workers(Requested) :
         /\ worker' = [worker EXCEPT ![p] = w] /\ Handles(p, w)
         /\ w.pc \in Answering => w.gen <= w.snap
         /\ \/ loaded' = loaded /\ KeepsTags(worker[p], w)
            \/ loaded' = Requested /\ w.snap = Requested /\ w.pc = "connect"

LEMMA ExitEnds ==
    ASSUME RInv, NEW p \in Pids, W!Exit(p), HistoryOf(p) PROVE Ended(p)
<1>1. /\ procState' = [procState EXCEPT ![p] = "exited"]
      /\ stdin' = [stdin EXCEPT ![p] = <<>>]
      /\ worker' = [worker EXCEPT ![p] = W!Gone]
      /\ stdout' = stdout
  BY SamePipes DEF W!Exit, Ends
<1>2. worker'[p].pc = "exited"
  BY <1>1 DEF RInv, LoopInv, W!Gone, W!Fresh
<1> QED
  BY <1>1, <1>2 DEF Ended, HistoryOf

\* A step of the main loop writes one report or none.
LEMMA LoopWrites ==
    ASSUME RInv, NEW p \in Pids, NEW w,
           W!Continue(p, w) \/ \E m \in Told(loaded) : W!Report(p, m, w)
    PROVE  /\ worker' = [worker EXCEPT ![p] = w] /\ procState' = procState /\ stdin' = stdin
           /\ stdout' \in [Pids -> Seq(Told(loaded))] /\ ReportsStay(p)
<1>1. worker' = [worker EXCEPT ![p] = w] /\ procState' = procState /\ stdin' = stdin
  BY DEF W!Continue, W!Report, W!pipeVars
<1>2. stdout \in [Pids -> Seq(Told(loaded))]
  BY DEF RInv, LoopInv
<1>3. CASE W!Continue(p, w)
  BY <1>1, <1>2, <1>3 DEF W!Continue, W!pipeVars, ReportsStay
<1>4. ASSUME NEW m \in Told(loaded), W!Report(p, m, w)
      PROVE  stdout' \in [Pids -> Seq(Told(loaded))] /\ ReportsStay(p)
  <2>1. stdout' = [stdout EXCEPT ![p] = Append(@, m)]
    BY <1>4, SamePipes DEF W!Report, WriteEvent
  <2>2. stdout[p] \in Seq(Told(loaded)) /\ stdout'[p] = Append(stdout[p], m)
    BY <1>2, <2>1
  <2>3. Append(stdout[p], m) \in Seq(Told(loaded))
    BY <2>2
  <2>4. \A i \in DOMAIN stdout[p] :
          i \in DOMAIN Append(stdout[p], m) /\ Append(stdout[p], m)[i] = stdout[p][i]
    BY <2>2
  <2> QED
    BY <1>2, <2>1, <2>2, <2>3, <2>4 DEF ReportsStay
<1> QED
  BY <1>1, <1>3, <1>4

\* A step of the main loop that neither loads tags nor settles a generation.
LEMMA LoopGoesOn ==
    ASSUME RInv, NEW p \in Pids, NEW w \in Workers(Requested), HistoryOf(p),
           w.pc \in Answering => w.gen <= w.snap,
           KeepsTags(worker[p], w),
           Keeps(worker[p], w) \/ Takes(worker[p], w),
           w.pc = "idle" => worker[p].pc # "ack",
           W!Continue(p, w) \/ \E m \in Told(loaded) : W!Report(p, m, w)
    PROVE  GoesOn(p)
<1>1. /\ worker' = [worker EXCEPT ![p] = w] /\ procState' = procState /\ stdin' = stdin
      /\ stdout' \in [Pids -> Seq(Told(loaded))] /\ ReportsStay(p)
  BY LoopWrites
<1>2. worker'[p] = w
  BY <1>1 DEF RInv, LoopInv
<1>3. loaded' = loaded /\ refused' = refused
  BY <1>2 DEF HistoryOf, W!At, KeepsTags, Subscribing
<1>4. stdin' \in [Pids -> Seq(Asked(Requested))]
  BY <1>1 DEF RInv, LoopInv
<1> QED
  BY <1>1, <1>3, <1>4 DEF GoesOn, Handles

\* The two ways to leave a session, and a session anew.
LEMMA SessionsGoOn ==
    ASSUME NEW g \in Nat, NEW v \in Workers(g), NEW r \in Results
    PROVE  /\ W!Leaving(v, r) \in Workers(g) /\ W!Leaving(v, r).pc = "closing"
           /\ Keeps(v, W!Leaving(v, r))
           /\ W!NewSession(v) \in Workers(g) /\ W!NewSession(v).pc = "load"
           /\ Keeps(v, W!NewSession(v))
BY DEF W!Leaving, W!NewSession, Workers, Stages, Results, Keeps

\* A command polled in a session.
LEMMA PolledGoesOn ==
    ASSUME NEW g \in Nat, NEW v \in Workers(g)
    PROVE  /\ W!Polled(v) \in Workers(g)
           /\ Keeps(v, W!Polled(v)) \/ Takes(v, W!Polled(v))
           /\ \/ W!Polled(v).pc = "closing"
              \/ /\ W!Polled(v).pc = v.pc /\ W!Polled(v).gen = v.gen
                 /\ W!Polled(v).snap = v.snap /\ W!Polled(v).failed = v.failed
<1>1. CASE v.queue = <<>>
  BY <1>1 DEF W!Polled, Keeps
<1>2. CASE v.queue # <<>>
  <2> DEFINE c == Head(v.queue)
             u == [v EXCEPT !.queue = Tail(@)]
  <2>1. v.queue \in Seq(Asked(g))
    BY DEF Workers
  <2>2. c \in Asked(g) /\ Tail(v.queue) \in Seq(Asked(g))
    BY <1>2, <2>1
  <2>3. /\ u \in Workers(g) /\ u.gen = v.gen /\ u.snap = v.snap /\ u.pc = v.pc
        /\ u.queue = Tail(v.queue) /\ u.failed = v.failed
    BY <2>2 DEF Workers
  <2>4. c.generation \in 0..g
    <3>1. c \in Commands /\ c.generation <= g
      BY <2>2 DEF Asked
    <3>2. c.generation \in Nat
      <4>1. 0 \in Generations
        BY PipeConstants DEF PipeConstants, Generations
      <4> QED
        BY <3>1, <4>1 DEF Commands, Command, Generations
    <3> QED
      BY <3>1, <3>2
  <2>5. \/ c.command = "reload_alarm_mappings" \/ c.command = "stop" \/ c.command = "rebuild"
    BY <2>2 DEF Asked, Commands, Command
  <2>6. CASE c.command = "reload_alarm_mappings"
    <3>1. W!Polled(v) = u
      BY <1>2, <2>6 DEF W!Polled
    <3> QED
      BY <1>2, <2>3, <2>6, <3>1 DEF Takes, IsRebuild
  <2>7. CASE c.command = "stop"
    <3>1. W!Polled(v) = W!Leaving(u, "stop")
      BY <1>2, <2>7 DEF W!Polled
    <3>2. /\ W!Polled(v) \in Workers(g) /\ W!Polled(v).pc = "closing"
          /\ Keeps(u, W!Polled(v))
      BY <2>3, <3>1, SessionsGoOn DEF Results
    <3> QED
      BY <1>2, <2>3, <2>7, <3>2 DEF Keeps, Takes, IsRebuild
  <2>8. CASE c.command = "rebuild"
    <3> DEFINE x == [u EXCEPT !.gen = c.generation]
    <3>1. W!Polled(v) = W!Leaving(x, "rebuild")
      BY <1>2, <2>8 DEF W!Polled
    <3>2. x \in Workers(g) /\ x.gen = c.generation /\ x.queue = Tail(v.queue)
      BY <2>3, <2>4 DEF Workers
    <3> HIDE DEF x
    <3>3. /\ W!Polled(v) \in Workers(g) /\ W!Polled(v).pc = "closing"
          /\ Keeps(x, W!Polled(v))
      BY <3>1, <3>2, SessionsGoOn DEF Results
    <3> QED
      BY <1>2, <2>8, <3>2, <3>3 DEF Keeps, Takes, IsRebuild
  <2> QED
    BY <2>5, <2>6, <2>7, <2>8
<1> QED
  BY <1>1, <1>2

\* The events a worker may report in its present state.
LEMMA ReportsAreTold ==
    ASSUME RInv
    PROVE  /\ \A e \in EventNames \ {"rebuild_ack", "subscriptions_ready"} :
                W!Event(e, 0, FALSE) \in Told(loaded)
           /\ \A b \in BOOLEAN : W!Event("subscriptions_ready", 0, b) \in Told(loaded)
           /\ \A g \in 1..loaded : \A b \in BOOLEAN :
                W!Event("rebuild_ack", g, b) \in Told(loaded)
<1>1. /\ loaded \in Nat /\ loaded <= Requested /\ Requested \in Generations
      /\ 0 \in Generations /\ 1..loaded \subseteq Generations
  BY PipeConstants DEF PipeConstants, RInv, TypeOK, LoopInv, Status, Generations, Requested
<1>2. ASSUME NEW e \in EventNames \ {"rebuild_ack", "subscriptions_ready"}
      PROVE  W!Event(e, 0, FALSE) \in Told(loaded)
  BY <1>1, <1>2 DEF W!Event, Told, Events, EventNames, PlainEvents
<1>3. ASSUME NEW b \in BOOLEAN
      PROVE  W!Event("subscriptions_ready", 0, b) \in Told(loaded)
  BY <1>1, <1>3 DEF W!Event, Told, Events, EventNames, PlainEvents
<1>4. ASSUME NEW g \in 1..loaded, NEW b \in BOOLEAN
      PROVE  W!Event("rebuild_ack", g, b) \in Told(loaded)
  BY <1>1, <1>4 DEF W!Event, Told, Events, EventNames, PlainEvents
<1> QED
  BY <1>2, <1>3, <1>4

\* Every step of the main loop of a worker, and every fault it suffers.
LEMMA MainLoop ==
    ASSUME RInv, NEW p \in Pids, W!Progress(p) \/ W!Suffers(p), HistoryOf(p)
    PROVE  Ended(p) \/ GoesOn(p)
<1> DEFINE v == worker[p]
<1> USE DEF Answering, Subscribing, KeepsTags, Keeps
<1>1. v \in Workers(Requested) /\ Requested \in Nat /\ loaded \in Nat
  BY PipeConstants DEF PipeConstants, RInv, TypeOK, LoopInv, Status, Generations, Requested
<1>2. procState[p] = "running" /\ v.pc \in Answering => v.gen <= v.snap
  BY DEF RInv, SessionInv
<1>3. procState[p] = "running" /\ v.pc \in Subscribing => v.snap = loaded
  BY DEF RInv, SessionInv
<1>4. v.gen \in 0..Requested /\ v.failed \in BOOLEAN /\ v.result \in Results
  BY <1>1 DEF Workers
<1>5. /\ \A e \in {"worker_started", "opc_connected", "subscriptions_progress",
                   "rebuild_started", "opc_disconnected", "subscriptions_recovery"} :
           W!Event(e, 0, FALSE) \in Told(loaded)
      /\ \A b \in BOOLEAN : W!Event("subscriptions_ready", 0, b) \in Told(loaded)
  BY ReportsAreTold DEF EventNames, PlainEvents
<1>6. /\ W!NewSession(v) \in Workers(Requested) /\ W!NewSession(v).pc = "load"
      /\ Keeps(v, W!NewSession(v))
  BY <1>1, <1>4, SessionsGoOn
<1>7. \A r \in Results :
        /\ W!Leaving(v, r) \in Workers(Requested) /\ W!Leaving(v, r).pc = "closing"
        /\ Keeps(v, W!Leaving(v, r))
  BY <1>1, SessionsGoOn
<1>8. \A x \in Stages :
        /\ [v EXCEPT !.pc = x] \in Workers(Requested) /\ [v EXCEPT !.pc = x].pc = x
        /\ [v EXCEPT !.pc = x].gen = v.gen /\ [v EXCEPT !.pc = x].snap = v.snap
        /\ [v EXCEPT !.pc = x].queue = v.queue
  BY <1>1 DEF Workers
<1>9. \A r \in Results :
        /\ [v EXCEPT !.pc = "failed", !.result = r] \in Workers(Requested)
        /\ [v EXCEPT !.pc = "failed", !.result = r].pc = "failed"
        /\ Keeps(v, [v EXCEPT !.pc = "failed", !.result = r])
  BY <1>1 DEF Workers, Stages
<1>10. CASE W!Boot(p)
  BY <1>5, <1>6, <1>10, LoopGoesOn DEF W!Boot
<1>11. CASE W!LoadTags(p)
  <2>1. PICK n \in 0..MaxBatches :
          W!Continue(p, [v EXCEPT !.pc = "connect", !.left = n, !.snap = Requested])
    BY <1>11 DEF W!LoadTags, Requested
  <2> DEFINE w == [v EXCEPT !.pc = "connect", !.left = n, !.snap = Requested]
  <2>2. /\ w \in Workers(Requested) /\ w.gen = v.gen /\ w.queue = v.queue
        /\ w.snap = Requested /\ w.pc = "connect"
    <3>1. n \in Nat /\ Requested \in 0..Requested
      BY <1>1
    <3> QED
      BY <1>1, <3>1 DEF Workers, Stages
  <2> HIDE DEF w
  <2>3. /\ worker' = [worker EXCEPT ![p] = w] /\ procState' = procState /\ stdin' = stdin
        /\ stdout' \in [Pids -> Seq(Told(loaded))] /\ ReportsStay(p)
    BY <2>1, LoopWrites DEF w
  <2>4. worker'[p] = w
    BY <2>3 DEF RInv, LoopInv
  <2>5. loaded' = Requested /\ refused' = refused
    BY <1>11, <2>2, <2>4 DEF HistoryOf, W!LoadTags
  <2>6. stdin' \in [Pids -> Seq(Asked(Requested))]
    BY <2>3 DEF RInv, LoopInv
  <2>7. w.gen <= w.snap
    BY <1>1, <1>4, <2>2
  <2> QED
    BY <2>2, <2>3, <2>5, <2>6, <2>7 DEF GoesOn, Handles
<1>12. CASE W!LoadFails(p)
  BY <1>9, <1>12, LoopGoesOn DEF W!LoadFails, Results
<1>13. CASE W!Connect(p)
  <2>1. v.pc = "connect" /\ procState[p] = "running"
    BY <1>13 DEF W!Connect, W!At
  <2> QED
    BY <1>2, <1>5, <1>8, <1>13, <2>1, LoopGoesOn DEF W!Connect, Stages
<1>14. CASE W!ConnectFails(p)
  BY <1>9, <1>14, LoopGoesOn DEF W!ConnectFails, Results
<1>15. CASE W!SubscribeBatch(p)
  <2>1. PICK f \in BOOLEAN :
          W!Report(p, W!Event("subscriptions_progress", 0, FALSE),
                   W!Polled([v EXCEPT !.left = @ - 1, !.failed = @ \/ f]))
    BY <1>15 DEF W!SubscribeBatch
  <2> DEFINE u == [v EXCEPT !.left = @ - 1, !.failed = @ \/ f]
  <2>2. v.left \in Nat /\ v.left > 0 /\ v.pc = "build" /\ procState[p] = "running"
    BY <1>1, <1>15 DEF Workers, W!SubscribeBatch, W!At
  <2>3. /\ u \in Workers(Requested) /\ u.gen = v.gen /\ u.snap = v.snap /\ u.pc = v.pc
        /\ u.queue = v.queue
    <3>1. (v.failed \/ f) \in BOOLEAN
      OBVIOUS
    <3>2. v.left - 1 \in Nat
      BY <2>2
    <3> QED
      BY <1>1, <3>1, <3>2 DEF Workers
  <2>4. W!Report(p, W!Event("subscriptions_progress", 0, FALSE), W!Polled(u))
    BY <2>1
  <2> HIDE DEF u
  <2>5. /\ W!Polled(u) \in Workers(Requested)
        /\ Keeps(u, W!Polled(u)) \/ Takes(u, W!Polled(u))
        /\ \/ W!Polled(u).pc = "closing"
           \/ /\ W!Polled(u).pc = u.pc /\ W!Polled(u).gen = u.gen
              /\ W!Polled(u).snap = u.snap
    BY <1>1, <2>3, PolledGoesOn
  <2>6. Keeps(v, W!Polled(u)) \/ Takes(v, W!Polled(u))
    BY <2>3, <2>5 DEF Takes
  <2> QED
    BY <1>2, <1>5, <2>2, <2>3, <2>4, <2>5, <2>6, LoopGoesOn
<1>16. CASE W!BuildFails(p)
  BY <1>7, <1>16, LoopGoesOn DEF W!BuildFails, Results
<1>17. CASE W!SubscriptionsReady(p)
  <2> DEFINE w == [v EXCEPT !.retry = 0, !.pc = IF v.gen = 0 THEN "idle" ELSE "ack"]
  <2>1. /\ w \in Workers(Requested) /\ w.gen = v.gen /\ w.snap = v.snap
        /\ w.pc \in {"idle", "ack"} /\ (w.pc = "ack" => w.gen # 0) /\ w.queue = v.queue
    BY <1>1 DEF Workers, Stages
  <2>2. /\ W!Report(p, W!Event("subscriptions_ready", 0, ~v.failed), w)
        /\ v.pc = "build" /\ procState[p] = "running"
    BY <1>17 DEF W!SubscriptionsReady, W!At
  <2>3. W!Event("subscriptions_ready", 0, ~v.failed) \in Told(loaded)
    BY <1>5
  <2> HIDE DEF w
  <2> QED
    BY <1>2, <2>1, <2>2, <2>3, LoopGoesOn
<1>18. CASE W!RebuildAck(p)
  <2> DEFINE w == [v EXCEPT !.gen = 0, !.pc = "idle"]
  <2>1. /\ w \in Workers(Requested) /\ w.snap = v.snap /\ w.pc = "idle"
        /\ w.gen = 0 /\ w.queue = v.queue
    <3>1. 0 \in 0..Requested
      BY <1>1
    <3> QED
      BY <1>1, <3>1 DEF Workers, Stages
  <2>2. /\ W!Report(p, W!Event("rebuild_ack", v.gen, ~v.failed), w)
        /\ v.pc = "ack" /\ procState[p] = "running"
    BY <1>18 DEF W!RebuildAck, W!At
  <2>3. v.gen # 0
    BY <2>2 DEF RInv, SessionInv
  <2>4. v.gen \in 1..loaded
    BY <1>1, <1>2, <1>3, <1>4, <2>2, <2>3
  <2>5. W!Event("rebuild_ack", v.gen, ~v.failed) \in Told(loaded)
    BY <1>4, <2>4, ReportsAreTold
  <2> HIDE DEF w
  <2>6. /\ worker' = [worker EXCEPT ![p] = w] /\ procState' = procState /\ stdin' = stdin
        /\ stdout' \in [Pids -> Seq(Told(loaded))] /\ ReportsStay(p)
    BY <2>2, <2>5, LoopWrites
  <2>7. worker'[p] = w
    BY <2>6 DEF RInv, LoopInv
  <2>8. /\ loaded' = loaded
        /\ refused' = IF v.failed THEN v.gen ELSE refused
    BY <2>1, <2>2, <2>7 DEF HistoryOf, W!At
  <2>9. stdout'[p] = Append(stdout[p], Event("rebuild_ack", v.gen, ~v.failed))
    <3>1. stdout' = [stdout EXCEPT ![p] = Append(@, Event("rebuild_ack", v.gen, ~v.failed))]
      BY <2>2, SamePipes DEF W!Report, WriteEvent
    <3> QED
      BY <3>1 DEF RInv, LoopInv
  <2>10. Settles(p, w)
    <3>1. CASE v.failed
      BY <2>1, <2>3, <2>8, <3>1 DEF Settles
    <3>2. CASE ~v.failed
      <4>1. (~v.failed) = TRUE
        BY <3>2
      <4> QED
        BY <2>1, <2>3, <2>8, <2>9, <3>2, <4>1 DEF Settles
    <3> QED
      BY <3>1, <3>2
  <2>11. stdin' \in [Pids -> Seq(Asked(Requested))]
    BY <2>6 DEF RInv, LoopInv
  <2> QED
    BY <2>1, <2>2, <2>6, <2>8, <2>10, <2>11 DEF GoesOn, Handles
<1>19. CASE W!ServeCommand(p)
  <2>1. /\ W!Polled(v) \in Workers(Requested)
        /\ Keeps(v, W!Polled(v)) \/ Takes(v, W!Polled(v))
        /\ \/ W!Polled(v).pc = "closing"
           \/ W!Polled(v).pc = v.pc /\ W!Polled(v).snap = v.snap
    BY <1>1, PolledGoesOn
  <2>2. W!Continue(p, W!Polled(v)) /\ v.pc = "idle"
    BY <1>19 DEF W!ServeCommand, W!At
  <2> QED
    BY <2>1, <2>2, LoopGoesOn
<1>20. CASE W!HealthcheckFails(p)
  BY <1>7, <1>20, LoopGoesOn DEF W!HealthcheckFails, Results
<1>21. CASE W!CloseSession(p)
  <2>1. CASE v.result = "stop"
    BY <1>21, <2>1, ExitEnds DEF W!CloseSession
  <2>2. CASE v.result = "rebuild"
    <3>1. W!Report(p, W!Event("rebuild_started", 0, FALSE), W!NewSession(v))
      BY <1>21, <2>2 DEF W!CloseSession
    <3> QED
      BY <1>5, <1>6, <3>1, LoopGoesOn
  <2>3. CASE v.result # "stop" /\ v.result # "rebuild"
    <3>1. W!Continue(p, [v EXCEPT !.pc = "failed"])
      BY <1>21, <2>3 DEF W!CloseSession
    <3> QED
      BY <1>8, <3>1, LoopGoesOn DEF Stages
  <2> QED
    BY <2>1, <2>2, <2>3
<1>22. CASE W!CloseFails(p)
  BY <1>9, <1>22, LoopGoesOn DEF W!CloseFails, Results
<1>23. CASE W!SessionFailed(p)
  BY <1>5, <1>8, <1>23, LoopGoesOn DEF W!SessionFailed, Stages
<1>24. CASE W!Backoff(p)
  <2> DEFINE w == [v EXCEPT !.pc = "waiting",
                            !.retry = IF v.retry >= RetryAttempts THEN 0 ELSE v.retry + 1]
  <2>1. w \in Workers(Requested) /\ w.pc = "waiting" /\ Keeps(v, w)
    <3>1. (IF v.retry >= RetryAttempts THEN 0 ELSE v.retry + 1) \in Nat
      BY <1>1 DEF Workers
    <3> QED
      BY <1>1, <3>1 DEF Workers, Stages
  <2>2. W!Report(p, W!Event("subscriptions_recovery", 0, FALSE), w)
    BY <1>24 DEF W!Backoff
  <2> HIDE DEF w
  <2> QED
    BY <1>5, <2>1, <2>2, LoopGoesOn
<1>25. CASE W!WaitCommand(p)
  <2> DEFINE c == Head(v.queue)
             u == [v EXCEPT !.queue = Tail(@)]
  <2>1. v.queue # <<>> /\ v.pc = "waiting" /\ v.queue \in Seq(Asked(Requested))
    BY <1>1, <1>25 DEF W!WaitCommand, W!At, Workers
  <2>2. c \in Asked(Requested) /\ Tail(v.queue) \in Seq(Asked(Requested))
    BY <2>1
  <2>3. u \in Workers(Requested) /\ u.pc = v.pc /\ u.gen = v.gen /\ u.queue = Tail(v.queue)
    BY <1>1, <2>2 DEF Workers
  <2>4. CASE c.command = "stop"
    BY <1>25, <2>4, ExitEnds DEF W!WaitCommand
  <2>5. CASE c.command = "rebuild"
    <3> DEFINE x == [u EXCEPT !.gen = c.generation]
    <3>1. c.generation \in 0..Requested
      <4>1. c \in Commands /\ c.generation <= Requested
        BY <2>2 DEF Asked
      <4>2. c.generation \in Nat
        BY <4>1, PipeConstants DEF PipeConstants, Commands, Command, Generations
      <4> QED
        BY <1>1, <4>1, <4>2
    <3>2. x \in Workers(Requested) /\ x.gen = c.generation /\ x.queue = Tail(v.queue)
      BY <2>3, <3>1 DEF Workers
    <3>3. W!Continue(p, W!NewSession(x))
      BY <1>25, <2>5 DEF W!WaitCommand
    <3> HIDE DEF x
    <3>4. /\ W!NewSession(x) \in Workers(Requested) /\ W!NewSession(x).pc = "load"
          /\ Keeps(x, W!NewSession(x))
      BY <1>1, <1>4, <3>2, SessionsGoOn
    <3>5. Takes(v, W!NewSession(x))
      BY <2>1, <2>5, <3>2, <3>4 DEF Takes, IsRebuild
    <3> QED
      BY <3>3, <3>4, <3>5, LoopGoesOn
  <2>6. CASE c.command # "stop" /\ c.command # "rebuild"
    <3>1. W!Continue(p, u)
      BY <1>25, <2>6 DEF W!WaitCommand
    <3>2. Takes(v, u)
      BY <2>1, <2>3, <2>6 DEF Takes, IsRebuild
    <3> QED
      BY <2>1, <2>3, <3>1, <3>2, LoopGoesOn
  <2> QED
    BY <2>4, <2>5, <2>6
<1>26. CASE W!WaitEnds(p)
  BY <1>6, <1>26, LoopGoesOn DEF W!WaitEnds
<1>27. CASE W!ReportRaisesInSession(p) \/ W!ReportRaisesOutside(p)
  BY <1>27 DEF W!ReportRaisesInSession, W!ReportRaisesOutside
<1>28. CASE W!Crash(p)
  BY <1>28, ExitEnds DEF W!Crash
<1> QED
  BY <1>10, <1>11, <1>12, <1>13, <1>14, <1>15, <1>16, <1>17, <1>18, <1>19, <1>20, <1>21,
     <1>22, <1>23, <1>24, <1>25, <1>26, <1>27, <1>28 DEF W!Progress, W!Suffers

\* The reader thread moves a command that was asked for.
LEMMA ReaderGoesOn ==
    ASSUME RInv, NEW p \in Pids, W!Reader(p), HistoryOf(p)
    PROVE  GoesOn(p)
<1> DEFINE v == worker[p]
           w == [v EXCEPT !.queue = Append(@, Head(stdin[p]))]
<1>1. /\ v \in Workers(Requested) /\ stdin \in [Pids -> Seq(Asked(Requested))]
      /\ worker \in [Pids -> Workers(Requested)]
  BY DEF RInv, LoopInv
<1>2. W!ReadCommand(p)
  BY DEF W!Reader, W!StdinEnds
<1>3. /\ procState[p] = "running" /\ stdin[p] # <<>>
      /\ stdin' = [stdin EXCEPT ![p] = Tail(@)]
      /\ worker' = [worker EXCEPT ![p].queue = Append(@, Head(stdin[p]))]
      /\ UNCHANGED <<procState, stdout>>
  BY <1>2 DEF W!ReadCommand
<1>4. Head(stdin[p]) \in Asked(Requested) /\ Tail(stdin[p]) \in Seq(Asked(Requested))
  BY <1>1, <1>3
<1>5. /\ w \in Workers(Requested)
      /\ w.pc = v.pc /\ w.gen = v.gen /\ w.snap = v.snap
      /\ w.queue = Append(v.queue, Head(stdin[p]))
  <2>1. Append(v.queue, Head(stdin[p])) \in Seq(Asked(Requested))
    BY <1>1, <1>4 DEF Workers
  <2> QED
    BY <1>1, <2>1 DEF Workers
<1>6. worker' = [worker EXCEPT ![p] = w]
  BY <1>3
<1> HIDE DEF w
<1>7. loaded' = loaded /\ refused' = refused
  <2>1. worker'[p].pc = v.pc
    BY <1>1, <1>5, <1>6
  <2> QED
    BY <2>1 DEF HistoryOf, W!At
<1>8. stdin' \in [Pids -> Seq(Asked(Requested))] /\ stdout' \in [Pids -> Seq(Told(loaded))]
  BY <1>1, <1>3, <1>4 DEF RInv, LoopInv
<1>9. (w.pc \in Answering => w.gen <= w.snap) /\ KeepsTags(v, w)
  BY <1>3, <1>5 DEF RInv, SessionInv, KeepsTags, Answering
<1>10. Handles(p, w) /\ ReportsStay(p)
  BY <1>3, <1>5, <1>7 DEF Handles, Reads, ReportsStay
<1> QED
  BY <1>3, <1>5, <1>6, <1>7, <1>8, <1>9, <1>10 DEF GoesOn

LEMMA OnlyTheRunningMove ==
    ASSUME NEW p \in Pids, WorkerMoves(p) PROVE procState[p] = "running"
BY DEF WorkerMoves, W!Progress, W!Reader, W!Boot, W!LoadTags, W!LoadFails, W!Connect,
       W!ConnectFails, W!SubscribeBatch, W!BuildFails, W!SubscriptionsReady, W!RebuildAck,
       W!ServeCommand, W!HealthcheckFails, W!CloseSession, W!CloseFails, W!SessionFailed,
       W!Backoff, W!WaitCommand, W!WaitEnds, W!ReportRaisesInSession,
       W!ReportRaisesOutside, W!Crash, W!ReadCommand, W!StdinEnds, W!At

LEMMA WorkerStepMoves ==
    ASSUME RInv, NEW p \in Pids, WorkerMoves(p)
    PROVE  Ended(p) \/ GoesOn(p)
<1>1. HistoryOf(p) /\ (W!Progress(p) \/ W!Suffers(p) \/ W!Reader(p))
  BY DEF WorkerMoves, W!Suffers
<1> QED
  BY <1>1, MainLoop, ReaderGoesOn

-----------------------------------------------------------------------------
\* No event in a pipe is ahead of the registry, as none is ahead of the tags.
LEMMA ToldGenerations ==
    ASSUME NEW g \in Nat, NEW h \in Nat, g <= h, NEW out \in [Pids -> Seq(Told(g))]
    PROVE  \A p \in Pids : \A i \in 1..Len(out[p]) : out[p][i].generation <= h
<1> SUFFICES ASSUME NEW p \in Pids, NEW i \in 1..Len(out[p])
             PROVE  out[p][i].generation <= h
  OBVIOUS
<1>1. out[p] \in Seq(Told(g))
  OBVIOUS
<1>2. out[p][i] \in Told(g)
  BY <1>1
<1>3. out[p][i].generation \in Nat /\ out[p][i].generation <= g
  BY <1>2, PipeConstants DEF PipeConstants, Told, Events, Generations
<1> QED
  BY <1>3

LEMMA NumbersAreNatural ==
    ASSUME TypeOK PROVE Requested \in Nat /\ Acked \in Nat
BY PipeConstants DEF PipeConstants, TypeOK, Status, Generations, Requested, Acked

\* A step of the web process; a worker that is terminated is gone.
LEMMA WebKeeps ==
    ASSUME RInv, SupervisorStep, loaded' = loaded,
           \/ worker' = worker
           \/ StopTerminates /\ worker' = [worker EXCEPT ![process] = W!Gone]
    PROVE  RInv'
<1>1. [Next]_vars
  BY DEF Next
<1>2. TypeOK' /\ SupervisionInv'
  BY <1>1, TypeStep, SupervisionStep DEF RInv
<1>3. GenerationInv'
  BY <1>1, <1>2, GenerationStep DEF RInv
<1>4. CountersMove /\ ProcessesMove /\ PipesMove
  BY SupervisorMoves
<1>5. /\ Requested \in Nat /\ Requested' \in Nat /\ Acked \in Nat /\ loaded \in Nat
      /\ loaded <= Requested /\ Acked <= loaded
  <2>1. Requested' \in Nat
    BY <1>2, PipeConstants DEF PipeConstants, TypeOK, Status, Generations, Requested
  <2> QED
    BY <2>1, NumbersAreNatural DEF RInv, LoopInv
<1>6. Requested <= Requested' /\ Acked' <= loaded
  BY <1>4, <1>5 DEF CountersMove, SameCounters, Requests, Acknowledges
<1>7. W!Gone \in Workers(Requested) /\ W!Gone.pc = "exited"
  BY <1>5, GoneIsWorker
<1>8. worker' \in [Pids -> Workers(Requested')]
  <2>1. worker' \in [Pids -> Workers(Requested)]
    BY <1>7 DEF RInv, LoopInv
  <2>2. Workers(Requested) \subseteq Workers(Requested')
    BY <1>5, <1>6, BoundsGrow
  <2> QED
    BY <2>1, <2>2
<1>9. LoopInv'
  BY <1>4, <1>5, <1>6, <1>8 DEF LoopInv, PipesMove
<1>10. ASSUME NEW p \in Pids
       PROVE  \/ worker'[p] = worker[p]
              \/ worker'[p] = W!Gone /\ procState'[p] = "exited"
  <2>1. CASE worker' = worker
    BY <2>1
  <2>2. CASE StopTerminates /\ worker' = [worker EXCEPT ![process] = W!Gone]
    <3>1. procState' = [procState EXCEPT ![process] = "exited"]
      BY <2>2 DEF StopTerminates, Ends
    <3> QED
      BY <2>2, <3>1 DEF RInv, LoopInv, TypeOK, PipesTypeOK
  <2> QED
    BY <2>1, <2>2
<1>11. SessionInv'
  <2> SUFFICES ASSUME NEW p \in Pids
               PROVE  /\ procState'[p] = "unborn" => worker'[p].pc = "boot"
                      /\ procState'[p] = "running" /\ worker'[p].pc \in Answering =>
                           worker'[p].gen <= worker'[p].snap
                      /\ procState'[p] = "running" /\ worker'[p].pc \in Subscribing =>
                           worker'[p].snap = loaded'
                      /\ procState'[p] = "running" /\ worker'[p].pc = "ack" =>
                           worker'[p].gen # 0
    BY DEF SessionInv
  <2>1. CASE worker'[p] = W!Gone /\ procState'[p] = "exited"
    BY <2>1
  <2>2. CASE worker'[p] = worker[p]
    BY <1>4, <2>2 DEF ProcessesMove, RInv, SessionInv, Answering, Subscribing
  <2> QED
    BY <1>10, <2>1, <2>2
<1> QED
  BY <1>2, <1>3, <1>9, <1>11 DEF RInv

\* A step of a worker.
LEMMA WorkerKeeps ==
    ASSUME RInv, NEW p \in Pids, WorkerMoves(p)
    PROVE  RInv'
<1>1. UNCHANGED supervisorVars /\ procState[p] = "running" /\ (Ended(p) \/ GoesOn(p))
  BY OnlyTheRunningMove, WorkerStepMoves DEF WorkerMoves
<1>2. /\ UNCHANGED <<enabled, shutdownSet, intentionalStop, process, spawnFailures,
                    monitor, status, sending, caller>>
      /\ Requested' = Requested /\ Acked' = Acked
  BY <1>1 DEF supervisorVars, Requested, Acked
<1>3. /\ Requested \in Nat /\ loaded \in Nat /\ loaded <= Requested /\ Acked <= loaded
      /\ Acked \in Nat /\ loaded \in 0..Requested
  BY NumbersAreNatural DEF RInv, LoopInv
<1>4. W!Gone \in Workers(Requested) /\ W!Gone.pc = "exited"
  BY <1>3, GoneIsWorker
<1>5. \/ procState' = procState \/ procState' = [procState EXCEPT ![p] = "exited"]
  BY <1>1 DEF Ended, GoesOn
<1>6. stdin' \in [Pids -> Seq(Asked(Requested))] /\ stdout' \in [Pids -> Seq(Told(loaded))]
  <2>1. CASE Ended(p)
    <3>1. <<>> \in Seq(Asked(Requested))
      OBVIOUS
    <3> QED
      BY <2>1, <3>1 DEF Ended, RInv, LoopInv
  <2>2. CASE GoesOn(p)
    BY <2>2 DEF GoesOn
  <2> QED
    BY <1>1, <2>1, <2>2
<1>7. loaded' \in Nat /\ loaded <= loaded' /\ loaded' <= Requested
  BY <1>1, <1>3 DEF Ended, GoesOn
<1>8. TypeOK'
  <2>1. Seq(Asked(Requested)) \subseteq Seq(Commands) /\ Seq(Told(loaded)) \subseteq Seq(Events)
    <3>1. Asked(Requested) \subseteq Commands /\ Told(loaded) \subseteq Events
      BY DEF Asked, Told
    <3> QED
      BY <3>1, SeqGrows
  <2>2. PipesTypeOK'
    BY <1>5, <1>6, <2>1 DEF RInv, TypeOK, PipesTypeOK
  <2> QED
    BY <1>2, <2>2 DEF RInv, TypeOK
<1>9. SupervisionInv'
  BY <1>1, <1>2, <1>5 DEF RInv, TypeOK, PipesTypeOK, SupervisionInv
<1>10. LoopInv'
  <2>1. stdout' \in [Pids -> Seq(Told(loaded'))]
    <3>1. Seq(Told(loaded)) \subseteq Seq(Told(loaded'))
      BY <1>3, <1>7, BoundsGrow
    <3> QED
      BY <1>6, <3>1
  <2>2. worker' \in [Pids -> Workers(Requested)]
    BY <1>1, <1>4 DEF Ended, GoesOn, RInv, LoopInv
  <2>3. Acked <= loaded'
    BY <1>3, <1>7
  <2> QED
    BY <1>2, <1>6, <1>7, <2>1, <2>2, <2>3 DEF RInv, LoopInv
<1>11. GenerationInv'
  <2>1. PendingIffUnacknowledged'
    BY <1>2 DEF RInv, GenerationInv, PendingIffUnacknowledged
  <2>2. \A q \in Pids : \A i \in 1..Len(stdout'[q]) : stdout'[q][i].generation <= Requested
    BY <1>3, <1>6, ToldGenerations
  <2> QED
    BY <1>2, <2>1, <2>2 DEF GenerationInv, Requested
<1>12. SessionInv'
  <2> SUFFICES ASSUME NEW q \in Pids
               PROVE  /\ procState'[q] = "unborn" => worker'[q].pc = "boot"
                      /\ procState'[q] = "running" /\ worker'[q].pc \in Answering =>
                           worker'[q].gen <= worker'[q].snap
                      /\ procState'[q] = "running" /\ worker'[q].pc \in Subscribing =>
                           worker'[q].snap = loaded'
                      /\ procState'[q] = "running" /\ worker'[q].pc = "ack" =>
                           worker'[q].gen # 0
    BY DEF SessionInv
  <2>1. procState[q] = "running" => q = p
    BY <1>1 DEF RInv, SupervisionInv
  <2>2. worker \in [Pids -> Workers(Requested)] /\ procState \in [Pids -> {"unborn", "running", "exited"}]
    BY DEF RInv, TypeOK, LoopInv, PipesTypeOK
  <2>3. CASE q # p
    <3>1. procState'[q] = procState[q] /\ worker'[q] = worker[q]
      BY <1>1, <1>5, <2>2, <2>3 DEF Ended, GoesOn
    <3> QED
      BY <2>1, <2>3, <3>1 DEF RInv, SessionInv
  <2>4. CASE q = p /\ Ended(p)
    BY <2>2, <2>4 DEF Ended
  <2>5. CASE q = p /\ GoesOn(p)
    <3>1. PICK w \in Workers(Requested) :
            /\ worker' = [worker EXCEPT ![p] = w]
            /\ w.pc \in Answering => w.gen <= w.snap
            /\ \/ loaded' = loaded /\ KeepsTags(worker[p], w)
               \/ loaded' = Requested /\ w.snap = Requested /\ w.pc = "connect"
      BY <2>5 DEF GoesOn
    <3>2. worker'[q] = w /\ procState'[q] = "running"
      BY <1>1, <2>2, <2>5, <3>1 DEF GoesOn
    <3>3. w.pc \in Subscribing => w.snap = loaded'
      BY <1>1, <3>1 DEF KeepsTags, RInv, SessionInv
    <3>4. w.pc = "ack" => w.gen # 0
      BY <3>1 DEF KeepsTags
    <3> QED
      BY <3>1, <3>2, <3>3, <3>4
  <2> QED
    BY <1>1, <2>3, <2>4, <2>5
<1> QED
  BY <1>8, <1>9, <1>10, <1>11, <1>12 DEF RInv

-----------------------------------------------------------------------------
LEMMA RuntimeInitially == RuntimeInit => RInv
<1> SUFFICES ASSUME RuntimeInit PROVE RInv
  OBVIOUS
<1>1. IInv
  BY Initially DEF RuntimeInit
<1>2. Requested = 0 /\ Acked = 0 /\ loaded = 0 /\ sending = NoCommand
  BY DEF RuntimeInit, Init, Requested, Acked
<1>3. W!Fresh \in Workers(0) /\ W!Fresh.pc = "boot"
  <2>1. 0 \in 0..0 /\ <<>> \in Seq(Asked(0))
    OBVIOUS
  <2> QED
    BY <2>1 DEF W!Fresh, Workers, Stages, Results
<1>4. worker = [p \in Pids |-> W!Fresh]
  BY DEF RuntimeInit
<1>5. stdin \in [Pids -> Seq(Asked(0))] /\ stdout \in [Pids -> Seq(Told(0))]
  BY DEF RuntimeInit, Init
<1>6. LoopInv
  BY <1>2, <1>3, <1>4, <1>5 DEF LoopInv
<1>7. SessionInv
  BY <1>3, <1>4 DEF SessionInv, Answering, Subscribing
<1> QED
  BY <1>1, <1>6, <1>7 DEF RInv, IInv

LEMMA WebStepIsSupervisorStep ==
    ASSUME WebStep
    PROVE  SupervisorStep /\ worker' = worker /\ loaded' = loaded
BY DEF WebStep, LifespanStep, RouteStep, SupervisorStep, CallerStep, NotifyStep, historyVars

LEMMA TerminationIsSupervisorStep ==
    ASSUME TerminateWorker
    PROVE  /\ SupervisorStep /\ StopTerminates /\ loaded' = loaded
           /\ worker' = [worker EXCEPT ![process] = W!Gone]
BY DEF TerminateWorker, SupervisorStep, CallerStep, historyVars

LEMMA StutterKeeps ==
    ASSUME RInv, UNCHANGED runtimeVars PROVE RInv'
BY DEF RInv, TypeOK, PipesTypeOK, GenerationInv, PendingIffUnacknowledged, SupervisionInv,
       LoopInv, SessionInv, Requested, Acked, runtimeVars, vars, supervisorVars, pipeVars,
       historyVars

LEMMA RuntimeInductive == RuntimeSpec => []RInv
<1>1. RInv /\ [RuntimeNext]_runtimeVars => RInv'
  <2> SUFFICES ASSUME RInv, [RuntimeNext]_runtimeVars PROVE RInv'
    OBVIOUS
  <2>1. CASE WebStep
    BY <2>1, WebStepIsSupervisorStep, WebKeeps
  <2>2. CASE TerminateWorker
    BY <2>2, TerminationIsSupervisorStep, WebKeeps
  <2>3. ASSUME NEW p \in Pids, WorkerMoves(p) PROVE RInv'
    BY <2>3, WorkerKeeps
  <2>4. CASE UNCHANGED runtimeVars
    BY <2>4, StutterKeeps
  <2> QED
    BY <2>1, <2>2, <2>3, <2>4 DEF RuntimeNext
<1> QED
  BY <1>1, RuntimeInitially, PTL DEF RuntimeSpec

-----------------------------------------------------------------------------
\* The supervisor's "one historian writer" also holds of the real workers in the
\* life of the web application.
THEOREM OneHistorianWriter == RuntimeSpec => []AtMostOneWorker
<1>1. RInv => AtMostOneWorker
  BY DEF RInv, SupervisionInv, AtMostOneWorker
<1> QED
  BY <1>1, RuntimeInductive, PTL

\* No live session subscribes to tags older than what the supervisor shows as
\* acknowledged, however many workers crashed, builds failed and generations
\* crossed in between.
THEOREM AcknowledgementsAreLoaded == RuntimeSpec => []AcknowledgedIsLoaded
<1>1. RInv => AcknowledgedIsLoaded
  <2> SUFFICES ASSUME RInv, NEW p \in Pids, NEW pc \in Subscribing, W!At(p, pc)
               PROVE  Acked <= worker[p].snap
    BY DEF AcknowledgedIsLoaded, Subscribing, Acked
  <2>1. worker[p].snap = loaded
    BY DEF W!At, RInv, SessionInv
  <2> QED
    BY <2>1 DEF RInv, LoopInv
<1> QED
  BY <1>1, RuntimeInductive, PTL

\* The runtime, with its two processes, their pipes, retries and crashes,
\* implements the contract it has with the writers of the registry: a generation
\* is acknowledged only after a load of tags that covers it, and a rebuild is
\* pending exactly until the latest one is.
THEOREM RuntimeImplementsContract == RuntimeSpec => ContractKept
<1> USE DEF Requested, Acked
<1>1. RuntimeInit => Contract!ContractInit
  BY DEF RuntimeInit, Init, Contract!ContractInit
<1>2. RInv /\ [RuntimeNext]_runtimeVars => [Contract!ContractNext]_Contract!contractVars
  <2> SUFFICES ASSUME RInv, [RuntimeNext]_runtimeVars
               PROVE  [Contract!ContractNext]_Contract!contractVars
    OBVIOUS
  <2>1. ASSUME SupervisorStep, loaded' = loaded
        PROVE  [Contract!ContractNext]_Contract!contractVars
    <3>1. CountersMove
      BY <2>1, SupervisorMoves
    <3>2. CASE SameCounters
      BY <2>1, <3>2 DEF SameCounters, Contract!contractVars
    <3>3. CASE Requests
      BY <2>1, <3>3 DEF Requests, Contract!Request, Contract!ContractNext
    <3>4. CASE Acknowledges
      <4>1. PICK g \in 1..loaded :
              /\ Acked < g /\ Acked' = g /\ Requested' = Requested
              /\ status'.rebuild_pending = (g < Requested)
        BY <3>4 DEF Acknowledges
      <4>2. g <= loaded
        BY DEF RInv, LoopInv
      <4>3. Contract!Acknowledge(g)
        BY <2>1, <4>1, <4>2 DEF Contract!Acknowledge
      <4> QED
        BY <4>3 DEF Contract!ContractNext
    <3> QED
      BY <3>1, <3>2, <3>3, <3>4 DEF CountersMove
  <2>2. ASSUME NEW p \in Pids, WorkerMoves(p)
        PROVE  [Contract!ContractNext]_Contract!contractVars
    <3>1. status' = status
      BY <2>2 DEF WorkerMoves, supervisorVars
    <3>2. loaded' = loaded \/ loaded' = Requested
      BY <2>2, WorkerStepMoves DEF Ended, GoesOn
    <3>3. CASE loaded' = loaded
      BY <3>1, <3>3 DEF Contract!contractVars
    <3>4. CASE loaded' = Requested
      BY <3>1, <3>4 DEF Contract!Load, Contract!ContractNext
    <3> QED
      BY <3>2, <3>3, <3>4
  <2>3. CASE UNCHANGED runtimeVars
    BY <2>3 DEF runtimeVars, vars, supervisorVars, historyVars, Contract!contractVars
  <2>4. CASE WebStep
    BY <2>1, <2>4, WebStepIsSupervisorStep
  <2>5. CASE TerminateWorker
    BY <2>1, <2>5, TerminationIsSupervisorStep
  <2> QED
    BY <2>2, <2>3, <2>4, <2>5 DEF RuntimeNext
<1> QED
  BY <1>1, <1>2, RuntimeInductive, PTL DEF RuntimeSpec, ContractKept, Contract!ContractSpec

-----------------------------------------------------------------------------
\* Serving the front of a line, and lengthening it.
LEMMA ServeLine ==
    ASSUME NEW s \in Seq(Commands), s # <<>>, NEW g
    PROVE  /\ Silent(s) => Silent(Tail(s)) /\ ~IsRebuild(Head(s))
           /\ OnlyLast(s, g) => OnlyLast(Tail(s), g)
           /\ OnlyAsk(s, g) =>
                OnlyAsk(Tail(s), g) /\ (IsRebuild(Head(s)) => Head(s).generation = g)
           /\ Has(Tail(s), g) => Has(s, g)
           /\ Has(s, g) => Head(s) = Command("rebuild", g) \/ Has(Tail(s), g)
           /\ OnlyLast(s, g) /\ Head(s) = Command("rebuild", g) => Silent(Tail(s))
<1>1. Len(s) \in Nat \ {0} /\ Head(s) = s[1] /\ DOMAIN s = 1..Len(s)
  OBVIOUS
<1>2. /\ \A i \in DOMAIN Tail(s) : i + 1 \in DOMAIN s /\ Tail(s)[i] = s[i + 1] /\ i \in Nat
      /\ \A j \in DOMAIN s : j = 1 \/ (j - 1 \in DOMAIN Tail(s) /\ Tail(s)[j - 1] = s[j])
  OBVIOUS
<1>3. 1 \in DOMAIN s
  BY <1>1
<1>4. Silent(s) => Silent(Tail(s)) /\ ~IsRebuild(Head(s))
  BY <1>1, <1>2, <1>3 DEF Silent
<1>5. OnlyLast(s, g) => OnlyLast(Tail(s), g)
  <2> SUFFICES ASSUME OnlyLast(s, g), NEW i \in DOMAIN Tail(s), NEW j \in DOMAIN Tail(s),
                      i < j, Tail(s)[i] = Command("rebuild", g)
               PROVE  ~IsRebuild(Tail(s)[j])
    BY DEF OnlyLast
  <2>1. i + 1 \in DOMAIN s /\ j + 1 \in DOMAIN s /\ i + 1 < j + 1
    BY <1>2
  <2> QED
    BY <1>2, <2>1 DEF OnlyLast
<1>6. OnlyAsk(s, g) =>
        OnlyAsk(Tail(s), g) /\ (IsRebuild(Head(s)) => Head(s).generation = g)
  BY <1>1, <1>2, <1>3 DEF OnlyAsk
<1>7. Has(Tail(s), g) => Has(s, g)
  BY <1>2 DEF Has
<1>8. Has(s, g) => Head(s) = Command("rebuild", g) \/ Has(Tail(s), g)
  BY <1>1, <1>2 DEF Has
<1>9. OnlyLast(s, g) /\ Head(s) = Command("rebuild", g) => Silent(Tail(s))
  <2> SUFFICES ASSUME OnlyLast(s, g), s[1] = Command("rebuild", g), NEW i \in DOMAIN Tail(s)
               PROVE  ~IsRebuild(Tail(s)[i])
    BY <1>1 DEF Silent
  <2>1. i + 1 \in DOMAIN s /\ 1 < i + 1
    <3>1. DOMAIN Tail(s) = 1..(Len(s) - 1)
      OBVIOUS
    <3> QED
      BY <1>1, <1>2, <3>1
  <2> QED
    BY <1>2, <1>3, <2>1 DEF OnlyLast
<1> QED
  BY <1>4, <1>5, <1>6, <1>7, <1>8, <1>9

LEMMA LengthenLine ==
    ASSUME NEW s \in Seq(Commands), NEW c \in Commands, NEW g
    PROVE  /\ Silent(s) /\ ~IsRebuild(c) => Silent(Append(s, c))
           /\ OnlyLast(s, g) /\ (Has(s, g) => ~IsRebuild(c)) => OnlyLast(Append(s, c), g)
           /\ OnlyAsk(s, g) /\ (IsRebuild(c) => c.generation = g) => OnlyAsk(Append(s, c), g)
           /\ Has(s, g) \/ c = Command("rebuild", g) => Has(Append(s, c), g)
           /\ Has(Append(s, c), g) => Has(s, g) \/ c = Command("rebuild", g)
<1> DEFINE r == Append(s, c)
<1>1. /\ \A i \in DOMAIN r : \/ i \in DOMAIN s /\ r[i] = s[i] /\ i <= Len(s)
                             \/ i = Len(s) + 1 /\ r[i] = c
      /\ \A i \in DOMAIN s : i \in DOMAIN r /\ r[i] = s[i]
      /\ Len(s) + 1 \in DOMAIN r /\ r[Len(s) + 1] = c
      /\ \A i \in DOMAIN r : i \in Nat
      /\ Len(s) \in Nat
  OBVIOUS
<1> HIDE DEF r
<1>2. Silent(s) /\ ~IsRebuild(c) => Silent(r)
  BY <1>1 DEF Silent
<1>3. OnlyLast(s, g) /\ (Has(s, g) => ~IsRebuild(c)) => OnlyLast(r, g)
  <2> SUFFICES ASSUME OnlyLast(s, g), Has(s, g) => ~IsRebuild(c), NEW i \in DOMAIN r,
                      NEW j \in DOMAIN r, i < j, r[i] = Command("rebuild", g)
               PROVE  ~IsRebuild(r[j])
    BY DEF OnlyLast
  <2>1. i \in DOMAIN s /\ r[i] = s[i]
    BY <1>1
  <2>2. Has(s, g)
    BY <2>1 DEF Has
  <2>3. CASE j \in DOMAIN s /\ r[j] = s[j]
    BY <2>1, <2>3 DEF OnlyLast
  <2>4. CASE r[j] = c
    BY <2>2, <2>4
  <2> QED
    BY <1>1, <2>3, <2>4
<1>4. OnlyAsk(s, g) /\ (IsRebuild(c) => c.generation = g) => OnlyAsk(r, g)
  BY <1>1 DEF OnlyAsk
<1>5. Has(s, g) \/ c = Command("rebuild", g) => Has(r, g)
  BY <1>1 DEF Has
<1>6. Has(r, g) => Has(s, g) \/ c = Command("rebuild", g)
  BY <1>1 DEF Has
<1> QED
  BY <1>2, <1>3, <1>4, <1>5, <1>6 DEF r

LEMMA EmptyLine ==
    ASSUME NEW g
    PROVE  Silent(<<>>) /\ OnlyLast(<<>>, g) /\ OnlyAsk(<<>>, g) /\ ~Has(<<>>, g)
BY DEF Silent, OnlyLast, OnlyAsk, Has

LEMMA RebuildCommand ==
    ASSUME NEW c \in Commands, IsRebuild(c)
    PROVE  c = Command("rebuild", c.generation) /\ c.generation \in Generations \ {0}
BY DEF Commands, Command, IsRebuild

\* A line with a rebuild in it is not silent.
LEMMA SilentHasNone ==
    ASSUME NEW s, NEW g, Silent(s) PROVE ~Has(s, g)
BY DEF Silent, Has, Command, IsRebuild

\* The worker's side: its queue is w.queue, its stdin is in, and send is the
\* write under way.
LEMMA TakingKeepsLine ==
    ASSUME NEW g \in Nat, NEW v, v.queue \in Seq(Commands), NEW w, Takes(v, w),
           NEW in, NEW send, InLine(v, in, send, g)
    PROVE  InLine(w, in, send, g)
<1> DEFINE c == Head(v.queue)
<1>1. v.queue # <<>> /\ w.queue = Tail(v.queue) /\ c \in Commands
  BY DEF Takes
<1>2. OnlyLast(w.queue, g) /\ OnlyLast(in, g) /\ (Has(in, g) => ~IsRebuild(send))
  BY <1>1, ServeLine DEF InLine
<1>3. Has(w.queue, g) => Silent(in) /\ ~IsRebuild(send)
  BY <1>1, ServeLine DEF InLine
<1>4. ASSUME w.gen = g, g # 0
      PROVE  Silent(w.queue) /\ Silent(in) /\ ~IsRebuild(send)
  <2>1. CASE IsRebuild(c)
    <3>1. c = Command("rebuild", g)
      BY <1>1, <1>4, <2>1, RebuildCommand DEF Takes
    <3>2. Has(v.queue, g)
      <4>1. 1 \in DOMAIN v.queue /\ v.queue[1] = c
        BY <1>1
      <4> QED
        BY <3>1, <4>1 DEF Has
    <3>3. Silent(w.queue)
      BY <1>1, <3>1, ServeLine DEF InLine
    <3> QED
      BY <3>2, <3>3 DEF InLine
  <2>2. CASE ~IsRebuild(c)
    <3>1. v.gen = g
      BY <1>4, <2>2 DEF Takes
    <3> QED
      BY <1>1, <1>4, <3>1, ServeLine DEF InLine
  <2> QED
    BY <2>1, <2>2
<1> QED
  BY <1>2, <1>3, <1>4 DEF InLine

LEMMA ReadingMovesLine ==
    ASSUME NEW g \in Nat, NEW v, v.queue \in Seq(Commands), NEW in \in Seq(Commands),
           in # <<>>, NEW w, w.queue = Append(v.queue, Head(in)), w.gen = v.gen,
           NEW send, InLine(v, in, send, g)
    PROVE  InLine(w, Tail(in), send, g)
<1>1. Head(in) \in Commands
  OBVIOUS
<1>2. w.gen = g /\ g # 0 => Silent(w.queue) /\ Silent(Tail(in)) /\ ~IsRebuild(send)
  BY <1>1, ServeLine, LengthenLine DEF InLine
<1>3. Has(in, g) /\ Has(v.queue, g) => FALSE
  BY SilentHasNone DEF InLine
<1>4. Head(in) = Command("rebuild", g) => Has(in, g)
  <2>1. 1 \in DOMAIN in /\ in[1] = Head(in)
    OBVIOUS
  <2> QED
    BY <2>1 DEF Has
<1>5. Has(w.queue, g) => Silent(Tail(in)) /\ ~IsRebuild(send)
  <2>1. CASE Has(v.queue, g)
    BY <2>1, ServeLine DEF InLine
  <2>2. CASE Head(in) = Command("rebuild", g)
    BY <1>4, <2>2, ServeLine DEF InLine
  <2> QED
    BY <1>1, <2>1, <2>2, LengthenLine
<1>6. Has(Tail(in), g) => ~IsRebuild(send)
  BY ServeLine DEF InLine
<1>7. OnlyLast(w.queue, g)
  <2>1. Has(v.queue, g) => ~IsRebuild(Head(in))
    BY ServeLine DEF InLine
  <2> QED
    BY <1>1, <2>1, LengthenLine DEF InLine
<1>8. OnlyLast(Tail(in), g)
  BY ServeLine DEF InLine
<1> QED
  BY <1>2, <1>5, <1>6, <1>7, <1>8 DEF InLine

\* The latest generation is acknowledged or refused by a worker that has nothing
\* else left to do.
LEMMA SettlingKeepsLine ==
    ASSUME NEW g \in Nat, NEW v, NEW w, w.queue = v.queue, w.gen = 0,
           NEW in, NEW send, InLine(v, in, send, g)
    PROVE  InLine(w, in, send, g)
BY DEF InLine

-----------------------------------------------------------------------------
\* What the steps below know of the numbers and the process table.
LEMMA ChainTypes ==
    ASSUME RInv
    PROVE  /\ Requested \in Nat /\ (status.rebuild_pending => Requested # 0)
           /\ stdin \in [Pids -> Seq(Commands)]
           /\ \A p \in Pids : /\ worker[p].queue \in Seq(Commands)
                              /\ worker[p].gen \in 0..Requested
           /\ \A p \in Pids : procState[p] = "running" => p = process
           /\ sending \in Commands \cup {NoCommand} /\ ~IsRebuild(NoCommand)
           /\ procState \in [Pids -> {"unborn", "running", "exited"}]
<1>1. Requested \in Nat /\ Acked \in Nat
  BY NumbersAreNatural DEF RInv
<1>2. status.rebuild_pending => Requested # 0
  BY <1>1 DEF RInv, GenerationInv, PendingIffUnacknowledged, Requested, Acked
<1>3. Seq(Asked(Requested)) \subseteq Seq(Commands)
  BY SeqGrows DEF Asked
<1>4. \A p \in Pids : worker[p].queue \in Seq(Commands) /\ worker[p].gen \in 0..Requested
  BY <1>3 DEF RInv, LoopInv, Workers
<1>5. /\ stdin \in [Pids -> Seq(Commands)] /\ sending \in Commands \cup {NoCommand}
      /\ procState \in [Pids -> {"unborn", "running", "exited"}]
  BY DEF RInv, TypeOK, PipesTypeOK
<1>6. \A p \in Pids : procState[p] = "running" => p = process
  BY DEF RInv, SupervisionInv
<1>7. ~IsRebuild(NoCommand)
  BY DEF IsRebuild, NoCommand, Command
<1> QED
  BY <1>1, <1>2, <1>4, <1>5, <1>6, <1>7

\* A step after which every live worker has the commands it had, and every
\* acknowledgement of the latest generation that still matters.
LEMMA QuietKeepsChain ==
    ASSUME ChainInv, refused' = refused, Requested' = Requested,
           enabled' = enabled, process' = process,
           status'.rebuild_pending => status.rebuild_pending,
           sending' = sending \/ (~IsRebuild(sending) /\ ~IsRebuild(sending')),
           \A p \in Pids : procState'[p] = "unborn" =>
             procState[p] = "unborn" /\ worker'[p] = worker[p],
           \A p \in Pids : procState'[p] = "running" =>
             /\ procState[p] = "running" /\ worker'[p] = worker[p] /\ stdin'[p] = stdin[p]
             /\ status'.rebuild_pending /\ AckIn(stdout[p], Requested) =>
                  AckIn(stdout'[p], Requested)
    PROVE  ChainInv'
<1>1. ASSUME NEW p \in Pids, procState'[p] = "running"
      PROVE  /\ InLine(worker'[p], stdin'[p], sending', Requested)
             /\ refused = Requested /\ Requested # 0 =>
                  NothingOlder(worker'[p], stdin'[p], Requested)
             /\ status'.rebuild_pending =>
                  \/ refused = Requested
                  \/ OnItsWay(worker'[p], stdin'[p], sending', stdout'[p], Requested)
  <2>1. /\ procState[p] = "running" /\ worker'[p] = worker[p] /\ stdin'[p] = stdin[p]
    BY <1>1
  <2>2. InLine(worker[p], stdin[p], sending', Requested)
    BY <2>1 DEF ChainInv, InLine
  <2>3. refused = Requested /\ Requested # 0 => NothingOlder(worker[p], stdin[p], Requested)
    BY <2>1 DEF ChainInv
  <2>4. ASSUME status'.rebuild_pending, refused # Requested
        PROVE  OnItsWay(worker[p], stdin[p], sending', stdout'[p], Requested)
    <3>1. OnItsWay(worker[p], stdin[p], sending, stdout[p], Requested)
      BY <2>1, <2>4 DEF ChainInv
    <3>2. sending = Command("rebuild", Requested) => sending' = sending
      BY DEF IsRebuild, Command
    <3>3. AckIn(stdout[p], Requested) => AckIn(stdout'[p], Requested)
      BY <1>1, <2>4
    <3> QED
      BY <3>1, <3>2, <3>3 DEF OnItsWay
  <2> QED
    BY <2>1, <2>2, <2>3, <2>4
<1>2. IsRebuild(sending') => sending'.generation = Requested
  BY DEF ChainInv
<1> QED
  BY <1>1, <1>2 DEF ChainInv

\* A process that has just been spawned is sent what is pending.
LEMMA SpawnKeepsChain ==
    ASSUME RInv, ChainInv, NEW s \in Status, Spawn(s), ~Running, LockFree,
           sending' = sending, worker' = worker, refused' = refused, enabled' = enabled,
           enabled, s.registry_generation = Requested,
           s.rebuild_pending = status.rebuild_pending
    PROVE  ChainInv'
<1>1. /\ process' = process + 1 /\ process \in Nat /\ process < MaxSpawns
      /\ procState' = [procState EXCEPT ![process'] = "running"]
      /\ stdin' = [stdin EXCEPT ![process'] = FirstCommands(s)]
  BY DEF Spawn, RInv, TypeOK
<1>2. process' \in Pids /\ procState[process'] = "unborn"
  <2>1. process' \in Pids /\ process' > process
    BY <1>1, PipeConstants DEF PipeConstants, Pids
  <2> QED
    BY <2>1 DEF RInv, SupervisionInv
<1>3. Requested' = Requested /\ status'.rebuild_pending = status.rebuild_pending
  BY DEF Spawn, Status, Requested
<1>4. \A p \in Pids : procState[p] # "running"
  BY ChainTypes, PipeConstants DEF PipeConstants, Running, Pids
<1>5. \A p \in Pids : procState'[p] = "running" => p = process'
  BY <1>1, <1>2, <1>4, ChainTypes
<1>6. /\ worker[process'].queue = <<>> /\ worker[process'].gen = 0
      /\ stdin'[process'] = FirstCommands(s) /\ ~IsRebuild(sending')
  BY <1>1, <1>2, ChainTypes DEF ChainInv, LockFree
<1> DEFINE f == FirstCommands(s)
<1>7. /\ OnlyLast(f, Requested) /\ OnlyAsk(f, Requested)
      /\ status.rebuild_pending => Has(f, Requested)
  <2>1. CASE s.rebuild_pending
    <3>1. f = <<Command("rebuild", Requested)>>
      BY <2>1 DEF FirstCommands
    <3>2. DOMAIN f = {1} /\ f[1] = Command("rebuild", Requested)
      BY <3>1
    <3>3. OnlyLast(f, Requested)
      BY <3>2 DEF OnlyLast
    <3> QED
      BY <3>2, <3>3 DEF OnlyAsk, Has, Command
  <2>2. CASE ~s.rebuild_pending
    BY <2>2, EmptyLine DEF FirstCommands
  <2> QED
    BY <2>1, <2>2
<1> HIDE DEF f
<1>8. /\ InLine(worker[process'], f, sending', Requested)
      /\ NothingOlder(worker[process'], f, Requested)
      /\ status.rebuild_pending =>
           OnItsWay(worker[process'], f, sending', stdout'[process'], Requested)
  BY <1>6, <1>7, EmptyLine DEF InLine, NothingOlder, OnItsWay
<1>9. ASSUME NEW p \in Pids, procState'[p] = "unborn" PROVE procState[p] = "unborn"
  BY <1>1, <1>2, <1>9, ChainTypes
<1> QED
  BY <1>2, <1>3, <1>5, <1>6, <1>8, <1>9 DEF ChainInv, f

\* A change is notified: nothing in the line is that new, and the write that
\* holds the lock is for it.
LEMMA NotifyKeepsChain ==
    ASSUME RInv, ChainInv, NotifyRegistryChanged, worker' = worker, refused' = refused
    PROVE  ChainInv'
<1> DEFINE g == Requested + 1
<1>1. /\ Requested' = g /\ status'.rebuild_pending = TRUE
      /\ UNCHANGED <<enabled, process, procState, stdin, stdout>>
      /\ sending' = IF enabled /\ Running THEN Command("rebuild", g) ELSE NoCommand
  BY DEF NotifyRegistryChanged, Requested, RInv, TypeOK, Status, pipeVars
<1>2. Requested \in Nat /\ g \in Nat /\ Requested < g /\ g # 0
  BY ChainTypes
<1>3. ASSUME NEW S \in Seq(Asked(Requested)) PROVE ~Has(S, g) /\ OnlyLast(S, g)
  <2>1. \A i \in DOMAIN S : S[i].generation <= Requested
    <3>1. \A i \in DOMAIN S : S[i] \in Asked(Requested)
      OBVIOUS
    <3> QED
      BY <3>1 DEF Asked
  <2>2. \A i \in DOMAIN S : S[i] # Command("rebuild", g)
    BY <1>2, <2>1 DEF Command
  <2> QED
    BY <2>2 DEF Has, OnlyLast
<1>4. refused' \in Nat /\ refused' <= g /\ refused' # g
  BY <1>2 DEF ChainInv
<1>5. IsRebuild(sending') => sending'.generation = g
  BY <1>1 DEF IsRebuild, Command, NoCommand
<1> HIDE DEF g
<1>6. ASSUME NEW p \in Pids, procState[p] = "running"
      PROVE  /\ InLine(worker[p], stdin[p], sending', g)
             /\ OnItsWay(worker[p], stdin[p], sending', stdout[p], g)
  <2>1. /\ worker[p].queue \in Seq(Asked(Requested)) /\ stdin[p] \in Seq(Asked(Requested))
        /\ worker[p].gen \in 0..Requested
    BY DEF RInv, LoopInv, Workers
  <2>2. worker[p].gen # g
    BY <1>2, <2>1 DEF g
  <2>3. InLine(worker[p], stdin[p], sending', g)
    BY <1>3, <2>1, <2>2 DEF InLine
  <2>4. enabled /\ Running
    <3>1. p = process /\ process # 0
      BY <1>6, ChainTypes, PipeConstants DEF PipeConstants, Pids
    <3> QED
      BY <1>6, <3>1 DEF ChainInv, Running
  <2> QED
    BY <1>1, <2>3, <2>4 DEF OnItsWay
<1> QED
  BY <1>1, <1>4, <1>5, <1>6 DEF ChainInv

\* The write that held the lock reaches the pipe: behind what is there already.
LEMMA DeliveryKeepsChain ==
    ASSUME RInv, ChainInv, SendDelivered, worker' = worker, refused' = refused
    PROVE  ChainInv'
<1> DEFINE g == Requested
           q == process
           in == Append(stdin[q], sending)
<1>1. /\ UNCHANGED <<enabled, process, procState, stdout>>
      /\ Requested' = g /\ status'.rebuild_pending = status.rebuild_pending
      /\ sending' = NoCommand
      /\ stdin' = [stdin EXCEPT ![q] = in]
  BY DEF SendDelivered, AfterSend, WriteCommand, RInv, TypeOK, Status, Requested
<1>2. q \in Pids /\ procState[q] = "running" /\ sending \in Commands
      /\ stdin[q] \in Seq(Commands)
  <2>1. process \in 0..MaxSpawns /\ process # 0 /\ procState[process] = "running"
    BY DEF SendDelivered, Running, RInv, TypeOK
  <2>2. process \in Pids
    BY <2>1 DEF Pids
  <2>3. sending \in Commands
    BY ChainTypes DEF SendDelivered, LockFree
  <2> QED
    BY <2>1, <2>2, <2>3, ChainTypes
<1>3. stdin'[q] = in /\ ~IsRebuild(sending')
  BY <1>1, <1>2, ChainTypes
<1>4. \A p \in Pids : procState'[p] = "running" => p = q
  BY <1>1, ChainTypes
<1>5. /\ InLine(worker[q], stdin[q], sending, g)
      /\ refused = g /\ g # 0 => NothingOlder(worker[q], stdin[q], g)
      /\ status.rebuild_pending =>
           refused = g \/ OnItsWay(worker[q], stdin[q], sending, stdout[q], g)
      /\ IsRebuild(sending) => sending.generation = g
  BY <1>2 DEF ChainInv
<1>6. /\ Silent(stdin[q]) /\ ~IsRebuild(sending) => Silent(in)
      /\ OnlyLast(stdin[q], g) /\ (Has(stdin[q], g) => ~IsRebuild(sending)) => OnlyLast(in, g)
      /\ OnlyAsk(stdin[q], g) /\ (IsRebuild(sending) => sending.generation = g)
           => OnlyAsk(in, g)
      /\ Has(stdin[q], g) \/ sending = Command("rebuild", g) => Has(in, g)
  BY <1>2, LengthenLine
<1> HIDE DEF in, q, g
<1>7. InLine(worker[q], in, sending', g)
  BY <1>3, <1>5, <1>6 DEF InLine
<1>8. refused = g /\ g # 0 => NothingOlder(worker[q], in, g)
  BY <1>5, <1>6 DEF NothingOlder
<1>9. status.rebuild_pending => refused = g \/ OnItsWay(worker[q], in, sending', stdout[q], g)
  BY <1>5, <1>6 DEF OnItsWay
<1> QED
  BY <1>1, <1>3, <1>4, <1>7, <1>8, <1>9 DEF ChainInv, g, q

\* An event is read: an acknowledgement of the latest generation that is taken
\* off the pipe settles the rebuild.
LEMMA ReadingKeepsChain ==
    ASSUME RInv, ChainInv, NEW p \in Pids, MonitorReads(p), worker' = worker, refused' = refused
    PROVE  ChainInv'
<1> DEFINE m == Head(stdout[p])
           g == Requested
<1>1. /\ stdout[p] \in Seq(Told(loaded)) /\ stdout[p] # <<>>
      /\ status' = ApplyEvent(status, m)
      /\ stdout' = [stdout EXCEPT ![p] = Tail(@)]
      /\ stdout \in [Pids -> Seq(Told(loaded))]
      /\ UNCHANGED <<enabled, process, procState, stdin, sending>>
  BY DEF MonitorReads, RInv, LoopInv
<1>2. m \in Told(loaded)
  BY <1>1
<1>3. SameCounters \/ Acknowledges
  BY <1>1, <1>2, EventMovesCounters
<1>4. Requested' = g /\ g \in Nat /\ Acked \in Nat
  BY <1>3, NumbersAreNatural DEF SameCounters, Acknowledges, RInv
<1>5. status.rebuild_pending \in BOOLEAN /\ (status.rebuild_pending <=> Acked < g)
  BY DEF RInv, TypeOK, Status, GenerationInv, PendingIffUnacknowledged, Requested, Acked
<1>6. status'.rebuild_pending => status.rebuild_pending
  <2>1. CASE SameCounters
    BY <2>1 DEF SameCounters
  <2>2. CASE Acknowledges
    <3>1. \E h \in 1..loaded : Acked < h /\ status'.rebuild_pending = (h < g)
      BY <2>2 DEF Acknowledges
    <3> QED
      BY <1>4, <1>5, <3>1
  <2> QED
    BY <1>3, <2>1, <2>2
<1>7. m = Event("rebuild_ack", g, TRUE) => ~status'.rebuild_pending
  <2> SUFFICES ASSUME m = Event("rebuild_ack", g, TRUE) PROVE ~status'.rebuild_pending
    OBVIOUS
  <2>1. m.event = "rebuild_ack" /\ m.complete = TRUE /\ m.generation = g
    BY DEF Event
  <2> HIDE DEF m
  <2>2. status' = Acknowledged(status, m)
    BY <1>1, <2>1 DEF ApplyEvent
  <2>3. m.generation = status.registry_generation /\ status.registry_generation \in Nat
    BY <2>1, NumbersAreNatural DEF Requested, RInv
  <2>4. m.generation >= status.registry_generation
    <3>1. \A k \in Nat : k >= k
      OBVIOUS
    <3> QED
      BY <2>3, <3>1, Zenon
  <2>5. status \in Status
    BY DEF RInv, TypeOK
  <2>6. Acknowledged(status, m).rebuild_pending = (status.rebuild_pending /\ FALSE)
    BY <2>1, <2>4, <2>5 DEF Acknowledged, Status
  <2> QED
    BY <2>2, <2>6
<1>8. ASSUME status'.rebuild_pending, AckIn(stdout[p], g)
      PROVE  AckIn(stdout'[p], g)
  <2>1. PICK i \in DOMAIN stdout[p] : stdout[p][i] = Event("rebuild_ack", g, TRUE)
    BY <1>8 DEF AckIn
  <2>2. stdout'[p] = Tail(stdout[p])
    BY <1>1
  <2>3. i # 1
    <3>1. m = stdout[p][1]
      BY <1>1
    <3> QED
      BY <1>7, <1>8, <2>1, <3>1
  <2>4. i - 1 \in DOMAIN Tail(stdout[p]) /\ Tail(stdout[p])[i - 1] = stdout[p][i]
    <3>1. DOMAIN stdout[p] = 1..Len(stdout[p]) /\ Len(stdout[p]) \in Nat
      BY <1>1
    <3>2. i \in 2..Len(stdout[p])
      BY <2>1, <2>3, <3>1
    <3> QED
      BY <1>1, <3>2
  <2> QED
    BY <2>1, <2>2, <2>4 DEF AckIn
<1>9. \A q \in Pids : status'.rebuild_pending /\ AckIn(stdout[q], g) => AckIn(stdout'[q], g)
  BY <1>1, <1>8
<1> HIDE DEF g, m
<1> QED
  BY <1>1, <1>4, <1>6, <1>9, QuietKeepsChain DEF g

\* Every step of the supervisor.
LEMMA SupervisorKeepsChain ==
    ASSUME RInv, ChainInv, SupervisorStep, refused' = refused,
           \/ worker' = worker
           \/ StopTerminates /\ worker' = [worker EXCEPT ![process] = W!Gone]
    PROVE  ChainInv'
<1> USE DEF pipeVars, supervisorVars
<1>1. /\ status \in Status /\ ~IsRebuild(NoCommand)
      /\ ~IsRebuild(Command("stop", 0)) /\ ~IsRebuild(Command("reload_alarm_mappings", 0))
      /\ procState \in [Pids -> {"unborn", "running", "exited"}]
      /\ \A p \in Pids : procState[p] = "running" => p = process
  BY ChainTypes DEF RInv, TypeOK, IsRebuild, Command
<1>2. \A w \in WorkerStates : status' = [status EXCEPT !.worker_state = w] =>
        Requested' = Requested /\ status'.rebuild_pending = status.rebuild_pending
  BY <1>1 DEF Requested, Status
<1>3. CASE StartRefused
  BY <1>2, <1>3, QuietKeepsChain DEF StartRefused, IdleState, WorkerStates, StopTerminates,
     Running
<1>4. CASE StartSpawns /\ worker' = worker
  <2>1. Spawn(status) /\ ~Running /\ LockFree /\ enabled /\ UNCHANGED <<sending, enabled>>
    BY <1>4 DEF StartSpawns
  <2> QED
    BY <1>1, <1>4, <2>1, SpawnKeepsChain DEF Requested
<1>5. CASE NotifyRegistryChanged /\ worker' = worker
  BY <1>5, NotifyKeepsChain
<1>6. CASE (NotifyAlarmMappingsChanged \/ ShutdownRequested \/ StopReturns) /\ worker' = worker
  BY <1>1, <1>6, QuietKeepsChain
     DEF NotifyAlarmMappingsChanged, ShutdownRequested, StopReturns, LockFree, Requested
<1>7. CASE Stop /\ worker' = worker
  <2>1. Requested' = Requested /\ status'.rebuild_pending = status.rebuild_pending
    BY <1>2, <1>7 DEF Stop, IdleState, WorkerStates
  <2>2. sending' = sending \/ (~IsRebuild(sending) /\ ~IsRebuild(sending'))
    BY <1>1, <1>7 DEF Stop, LockFree
  <2> QED
    BY <1>7, <2>1, <2>2, QuietKeepsChain DEF Stop
<1>8. CASE StopTerminates
  <2>1. /\ procState' = [procState EXCEPT ![process] = "exited"]
        /\ UNCHANGED <<status, sending, stdout, enabled, process>>
        /\ procState[process] = "running"
    BY <1>8 DEF StopTerminates, Ends, Running
  <2>2. \A p \in Pids : procState'[p] # "running"
    BY <1>1, <2>1
  <2>3. \A p \in Pids : procState'[p] = "unborn" =>
          procState[p] = "unborn" /\ worker'[p] = worker[p]
    <3>1. worker \in [Pids -> Workers(Requested)]
      BY DEF RInv, LoopInv
    <3> QED
      BY <1>1, <2>1, <3>1
  <2> QED
    BY <2>1, <2>2, <2>3, QuietKeepsChain DEF Requested
<1>9. CASE SendDelivered /\ worker' = worker
  BY <1>9, DeliveryKeepsChain
<1>10. CASE SendBreaks /\ worker' = worker
  <2>1. /\ sending' = NoCommand /\ status' = status
        /\ UNCHANGED <<procState, stdin, stdout, enabled, process>>
    BY <1>10 DEF SendBreaks, AfterSend
  <2>2. \A p \in Pids : procState[p] # "running"
    BY <1>1, <1>10, PipeConstants DEF PipeConstants, SendBreaks, Running, Pids
  <2> QED
    BY <1>1, <1>10, <2>1, <2>2 DEF ChainInv, Requested
<1>11. ASSUME NEW p \in Pids, MonitorReads(p), worker' = worker PROVE ChainInv'
  BY <1>11, ReadingKeepsChain
<1>12. ASSUME NEW p \in Pids, worker' = worker,
              \/ MonitorSeesExit(p) \/ RestartDelayEnds(p) \/ RespawnSkipped(p)
              \/ RespawnRaises(p)
       PROVE  ChainInv'
  <2>1. Requested' = Requested /\ status'.rebuild_pending = status.rebuild_pending
    BY <1>1, <1>12 DEF MonitorSeesExit, Exited, RestartDelayEnds, RespawnSkipped,
       RespawnRaises, Status, Requested
  <2>2. UNCHANGED <<enabled, process, procState, stdin, stdout, sending>>
    BY <1>12 DEF MonitorSeesExit, RestartDelayEnds, RespawnSkipped, RespawnRaises
  <2> QED
    BY <1>12, <2>1, <2>2, QuietKeepsChain
<1>13. ASSUME NEW p \in Pids, Respawn(p), worker' = worker PROVE ChainInv'
  <2> DEFINE counted == [status EXCEPT !.restart_count = @ + 1]
  <2>1. /\ counted \in Status
        /\ counted.registry_generation = Requested
        /\ counted.rebuild_pending = status.rebuild_pending
    <3>1. status.restart_count + 1 \in Nat
      BY <1>1 DEF Status
    <3> QED
      BY <1>1, <3>1 DEF Status, Requested
  <2>2. Spawn(counted) /\ LockFree /\ p = process /\ UNCHANGED <<enabled, sending>>
    BY <1>13 DEF Respawn, MayRespawn
  <2>3. ~Running
    BY <1>13 DEF Respawn, MayRespawn, RInv, SupervisionInv, Running
  <2>4. enabled
    BY <2>2, PipeConstants DEF PipeConstants, ChainInv, Pids
  <2> HIDE DEF counted
  <2> QED
    BY <1>13, <2>1, <2>2, <2>3, <2>4, SpawnKeepsChain
<1>14. ASSUME ~StopTerminates PROVE worker' = worker
  BY <1>14
<1>15. StopTerminates \/ worker' = worker
  OBVIOUS
<1> QED
  BY <1>3, <1>4, <1>5, <1>6, <1>7, <1>8, <1>9, <1>10, <1>11, <1>12, <1>13, <1>15
     DEF SupervisorStep, CallerStep, NotifyStep, SendStep, MonitorStep

LEMMA AppendHasLast ==
    ASSUME NEW S, NEW s \in Seq(S), NEW e
    PROVE  Len(s) + 1 \in DOMAIN Append(s, e) /\ Append(s, e)[Len(s) + 1] = e
<1>1. s \in Seq(S \cup {e})
  BY SeqGrows
<1>2. e \in S \cup {e}
  OBVIOUS
<1> QED
  BY <1>1, <1>2

\* Every step of a worker.
LEMMA WorkerKeepsChain ==
    ASSUME RInv, ChainInv, NEW p \in Pids, WorkerMoves(p)
    PROVE  ChainInv'
<1> DEFINE g == Requested
           v == worker[p]
<1>1. /\ UNCHANGED <<enabled, process, status, sending>> /\ Requested' = g
      /\ procState[p] = "running" /\ (Ended(p) \/ GoesOn(p))
  BY OnlyTheRunningMove, WorkerStepMoves DEF WorkerMoves, supervisorVars, Requested
<1>2. /\ g \in Nat /\ (status.rebuild_pending => g # 0)
      /\ stdin \in [Pids -> Seq(Commands)] /\ v.queue \in Seq(Commands) /\ v.gen \in 0..g
      /\ \A q \in Pids : procState[q] = "running" => q = p
      /\ procState \in [Pids -> {"unborn", "running", "exited"}]
  BY <1>1, ChainTypes
<1>3. worker \in [Pids -> Workers(Requested)]
  BY DEF RInv, LoopInv
<1>4. CASE Ended(p)
  <2>1. /\ \A q \in Pids : procState'[q] # "running"
        /\ \A q \in Pids : procState'[q] = "unborn" =>
             procState[q] = "unborn" /\ worker'[q] = worker[q]
    BY <1>2, <1>3, <1>4 DEF Ended
  <2> QED
    BY <1>1, <1>4, <2>1, QuietKeepsChain DEF Ended
<1>5. CASE GoesOn(p)
  <2>1. PICK w \in Workers(Requested) :
          /\ worker' = [worker EXCEPT ![p] = w] /\ Handles(p, w)
    BY <1>5 DEF GoesOn
  <2>2. worker'[p] = w /\ procState' = procState /\ ReportsStay(p)
    BY <1>3, <1>5, <2>1 DEF GoesOn
  <2>3. AckIn(stdout[p], g) => AckIn(stdout'[p], g)
    <3> SUFFICES ASSUME AckIn(stdout[p], g) PROVE AckIn(stdout'[p], g)
      OBVIOUS
    <3>1. PICK i \in DOMAIN stdout[p] : stdout[p][i] = Event("rebuild_ack", g, TRUE)
      BY DEF AckIn
    <3> QED
      BY <2>2, <3>1 DEF AckIn, ReportsStay
  <2>4. /\ InLine(v, stdin[p], sending, g)
        /\ refused = g /\ g # 0 => NothingOlder(v, stdin[p], g)
        /\ status.rebuild_pending => refused = g \/ OnItsWay(v, stdin[p], sending, stdout[p], g)
        /\ refused \in Nat /\ refused <= g
    BY <1>1 DEF ChainInv
  <2> DEFINE Kept == /\ InLine(w, stdin'[p], sending, g)
                     /\ refused' = g /\ g # 0 => NothingOlder(w, stdin'[p], g)
                     /\ status.rebuild_pending =>
                          refused' = g \/ OnItsWay(w, stdin'[p], sending, stdout'[p], g)
                     /\ refused' \in Nat /\ refused' <= g
  <2>5. ASSUME stdin' = stdin /\ refused' = refused /\ Keeps(v, w) PROVE Kept
    BY <2>3, <2>4, <2>5 DEF Keeps, InLine, NothingOlder, OnItsWay
  <2>6. ASSUME stdin' = stdin /\ refused' = refused /\ Takes(v, w) PROVE Kept
    <3> DEFINE c == Head(v.queue)
    <3>1. /\ v.queue # <<>> /\ w.queue = Tail(v.queue) /\ c \in Commands
          /\ w.gen = IF IsRebuild(c) THEN c.generation ELSE v.gen
      BY <1>2, <2>6 DEF Takes
    <3>2. InLine(w, stdin[p], sending, g)
      BY <1>2, <2>4, <2>6, TakingKeepsLine
    <3>3. refused = g /\ g # 0 => NothingOlder(w, stdin[p], g)
      <4>1. OnlyAsk(v.queue, g) =>
              OnlyAsk(Tail(v.queue), g) /\ (IsRebuild(c) => c.generation = g)
        BY <1>2, <3>1, ServeLine
      <4> QED
        BY <2>4, <3>1, <4>1 DEF NothingOlder
    <3>4. Has(v.queue, g) => w.gen = g \/ Has(w.queue, g)
      <4>1. Has(v.queue, g) => c = Command("rebuild", g) \/ Has(Tail(v.queue), g)
        BY <1>2, <3>1, ServeLine
      <4>2. c = Command("rebuild", g) => IsRebuild(c) /\ c.generation = g
        BY DEF Command, IsRebuild
      <4> QED
        BY <3>1, <4>1, <4>2
    <3>5. v.gen = g /\ g # 0 => w.gen = g
      <4>1. Silent(v.queue) => ~IsRebuild(c)
        BY <1>2, <3>1, ServeLine
      <4> QED
        BY <2>4, <3>1, <4>1 DEF InLine
    <3> QED
      BY <1>2, <2>3, <2>4, <2>6, <3>2, <3>3, <3>4, <3>5 DEF OnItsWay
  <2>7. ASSUME refused' = refused /\ Reads(p, w) PROVE Kept
    <3> DEFINE c == Head(stdin[p])
    <3>1. /\ stdin[p] # <<>> /\ stdin[p] \in Seq(Commands) /\ c \in Commands
          /\ stdin'[p] = Tail(stdin[p]) /\ w.queue = Append(v.queue, c) /\ w.gen = v.gen
      BY <1>2, <2>7 DEF Reads
    <3>2. InLine(w, stdin'[p], sending, g)
      <4>1. InLine(w, Tail(stdin[p]), sending, g)
        BY <1>2, <2>4, <3>1, ReadingMovesLine
      <4> QED
        BY <3>1, <4>1
    <3>3. refused = g /\ g # 0 => NothingOlder(w, stdin'[p], g)
      <4>1. OnlyAsk(stdin[p], g) =>
              OnlyAsk(Tail(stdin[p]), g) /\ (IsRebuild(c) => c.generation = g)
        BY <3>1, ServeLine
      <4>2. OnlyAsk(v.queue, g) /\ (IsRebuild(c) => c.generation = g) => OnlyAsk(w.queue, g)
        BY <1>2, <3>1, LengthenLine
      <4> QED
        BY <2>4, <3>1, <4>1, <4>2 DEF NothingOlder
    <3>4. Has(stdin[p], g) => c = Command("rebuild", g) \/ Has(stdin'[p], g)
      BY <3>1, ServeLine
    <3>5. Has(v.queue, g) \/ c = Command("rebuild", g) => Has(w.queue, g)
      BY <1>2, <3>1, LengthenLine
    <3> QED
      BY <2>3, <2>4, <2>7, <3>1, <3>2, <3>3, <3>4, <3>5 DEF OnItsWay
  <2>8. ASSUME stdin' = stdin /\ Settles(p, w) PROVE Kept
    <3>1. w.queue = v.queue /\ w.gen = 0 /\ v.gen # 0
      BY <2>8 DEF Settles
    <3>2. InLine(w, stdin[p], sending, g)
      BY <1>2, <2>4, <3>1, SettlingKeepsLine
    <3>3. refused = g /\ g # 0 => NothingOlder(w, stdin[p], g)
      BY <2>4, <3>1 DEF NothingOlder
    <3>4. CASE /\ stdout'[p] = Append(stdout[p], Event("rebuild_ack", v.gen, TRUE))
               /\ refused' = refused
      <4>1. v.gen = g => AckIn(stdout'[p], g)
        <5>1. stdout[p] \in Seq(Told(loaded))
          BY DEF RInv, LoopInv
        <5>2. /\ Len(stdout[p]) + 1 \in DOMAIN stdout'[p]
              /\ stdout'[p][Len(stdout[p]) + 1] = Event("rebuild_ack", v.gen, TRUE)
          BY <3>4, <5>1, AppendHasLast
        <5> QED
          BY <5>2 DEF AckIn
      <4> QED
        BY <2>3, <2>4, <2>8, <3>1, <3>2, <3>3, <3>4, <4>1 DEF OnItsWay
    <3>5. CASE refused' = v.gen
      <4>1. refused' \in Nat /\ refused' <= g
        BY <1>2, <3>5
      <4>2. refused' = g /\ g # 0 => NothingOlder(w, stdin[p], g)
        <5>1. \A s : Silent(s) => OnlyAsk(s, g)
          BY DEF Silent, OnlyAsk
        <5> QED
          BY <2>4, <3>1, <3>5, <5>1 DEF InLine, NothingOlder
      <4>3. ASSUME status.rebuild_pending, v.gen # g
            PROVE  OnItsWay(w, stdin[p], sending, stdout'[p], g)
        <5>1. refused # g
          BY <1>2, <2>4, <3>1, <4>3 DEF NothingOlder
        <5> QED
          BY <2>3, <2>4, <3>1, <4>3, <5>1 DEF OnItsWay
      <4> QED
        BY <2>8, <3>2, <3>5, <4>1, <4>2, <4>3
    <3> QED
      BY <2>8, <3>4, <3>5 DEF Settles
  <2>9. Kept
    BY <2>1, <2>5, <2>6, <2>7, <2>8 DEF Handles
  <2>10. \A q \in Pids : procState'[q] = "unborn" => worker'[q] = worker[q]
    BY <1>1, <1>3, <2>1, <2>2
  <2>11. \A q \in Pids : procState'[q] = "running" => q = p
    BY <1>2, <2>2
  <2> HIDE DEF g, v
  <2> QED
    BY <1>1, <2>2, <2>9, <2>10, <2>11 DEF ChainInv, g
<1> QED
  BY <1>1, <1>4, <1>5

LEMMA ChainInitially == RuntimeInit => ChainInv
<1> SUFFICES ASSUME RuntimeInit PROVE ChainInv
  OBVIOUS
<1>1. \A p \in Pids : worker[p].queue = <<>> /\ worker[p].gen = 0 /\ procState[p] = "unborn"
  BY DEF RuntimeInit, Init, W!Fresh
<1>2. process = 0 /\ refused = 0 /\ Requested = 0 /\ sending = NoCommand
  BY DEF RuntimeInit, Init, Requested
<1> QED
  BY <1>1, <1>2 DEF ChainInv, IsRebuild, NoCommand, Command

LEMMA ChainInductive == RuntimeSpec => []ChainInv
<1>1. RInv /\ ChainInv /\ [RuntimeNext]_runtimeVars => ChainInv'
  <2> SUFFICES ASSUME RInv, ChainInv, [RuntimeNext]_runtimeVars PROVE ChainInv'
    OBVIOUS
  <2>1. CASE WebStep
    BY <2>1, WebStepIsSupervisorStep, SupervisorKeepsChain DEF WebStep, historyVars
  <2>2. CASE TerminateWorker
    BY <2>2, TerminationIsSupervisorStep, SupervisorKeepsChain
       DEF TerminateWorker, historyVars
  <2>3. ASSUME NEW p \in Pids, WorkerMoves(p) PROVE ChainInv'
    BY <2>3, WorkerKeepsChain
  <2>4. CASE UNCHANGED runtimeVars
    BY <2>4 DEF runtimeVars, vars, supervisorVars, pipeVars, historyVars, ChainInv, Requested
  <2> QED
    BY <2>1, <2>2, <2>3, <2>4 DEF RuntimeNext
<1> QED
  BY <1>1, ChainInitially, RuntimeInductive, PTL DEF RuntimeSpec

\* A pending rebuild is never lost between the two processes: crashes, respawns,
\* failed sessions and partial acknowledgements leave the latest generation in a
\* pipe, in a queue, with the worker, or on its way back.
THEOREM RebuildIsNeverLost == RuntimeSpec => []RebuildOnItsWay
<1>1. RInv /\ ChainInv => RebuildOnItsWay
  <2> SUFFICES ASSUME RInv, ChainInv, status.rebuild_pending, LockFree, Running
               PROVE  RebuildOnItsWay
    BY DEF RebuildOnItsWay
  <2>1. process \in Pids /\ procState[process] = "running"
    <3>1. process \in 0..MaxSpawns /\ process # 0 /\ procState[process] = "running"
      BY DEF Running, RInv, TypeOK
    <3> QED
      BY <3>1 DEF Pids
  <2>2. \/ refused = Requested
        \/ OnItsWay(worker[process], stdin[process], sending, stdout[process], Requested)
    BY <2>1 DEF ChainInv
  <2>3. sending # Command("rebuild", Requested)
    BY DEF LockFree, NoCommand, Command
  <2>4. AckIn(stdout[process], Requested) =>
          Event("rebuild_ack", Requested, TRUE) \in
            {stdout[process][i] : i \in DOMAIN stdout[process]}
    BY DEF AckIn
  <2> QED
    BY <2>2, <2>3, <2>4 DEF OnItsWay, Has, RebuildOnItsWay, Requested
<1> QED
  BY <1>1, RuntimeInductive, ChainInductive, PTL

-----------------------------------------------------------------------------
\* What the console will show once the monitor thread has read what is in the
\* pipe.  Of the events in it the last one that turns a light on or off counts;
\* if there is none, the light stays as it is.
Affirming == {m \in Events : m.event = "subscriptions_ready" /\ m.complete}
Denying   == {m \in Events : m.event \in {"opc_disconnected", "subscriptions_progress",
                                          "subscriptions_ready"}}
Starting  == {m \in Events : m.event \in {"worker_started", "subscriptions_progress",
                                          "subscriptions_ready", "rebuild_ack"}}
Halting   == {m \in Events : m.event \in {"rebuild_started", "subscriptions_recovery"}}

Quiet(out, off)     == \A j \in DOMAIN out : out[j] \notin off
Lasts(out, on, off) == \E i \in DOMAIN out :
                         out[i] \in on /\ \A j \in DOMAIN out : i < j => out[j] \notin off

ShowsComplete == status.subscription_complete
ShowsRunning  == status.worker_state = "running"

WillShowComplete(p) == \/ ShowsComplete /\ Quiet(stdout[p], Denying)
                       \/ Lasts(stdout[p], Affirming, Denying)
WillShowRunning(p)  == \/ ShowsRunning /\ Quiet(stdout[p], Halting)
                       \/ Lasts(stdout[p], Starting, Halting)

\* It is never more than the worker has: no complete subscription outside a
\* session or with refused tags, and none of a worker shown as running before
\* the subscriptions of its session are ready.
Truthful(p) ==
    /\ worker[p].pc \in {"boot", "backoff", "waiting"} => ~WillShowComplete(p)
    /\ worker[p].pc \in {"load", "connect", "build"} =>
         ~WillShowComplete(p) \/ ~WillShowRunning(p)
    /\ worker[p].pc \in {"ack", "idle"} /\ worker[p].failed => ~WillShowComplete(p)
    /\ worker[p].pc # "exited"

\* Nothing is left to be read of a process before the next one is spawned.
DrainedInv ==
    \A p \in Pids :
      /\ p # process \/ procState[p] = "unborn" => stdout[p] = <<>>
      /\ monitor[p] \in {"delaying", "respawning"} => stdout[p] = <<>>

ShownInv == DrainedInv /\ \A p \in Pids : procState[p] = "running" => Truthful(p)

\* The reader of a pipe takes its first event, the writer adds a last one.
LEMMA FirstIsRead ==
    ASSUME NEW S, NEW s \in Seq(S), s # <<>>, NEW on, NEW off
    PROVE  /\ Quiet(Tail(s), off) /\ Head(s) \notin off => Quiet(s, off)
           /\ Quiet(Tail(s), off) /\ Head(s) \in on => Lasts(s, on, off)
           /\ Lasts(Tail(s), on, off) => Lasts(s, on, off)
<1>1. /\ Len(s) \in Nat /\ Len(s) # 0 /\ DOMAIN s = 1..Len(s) /\ s[1] = Head(s)
      /\ DOMAIN Tail(s) = 1..(Len(s) - 1)
      /\ \A i \in 1..(Len(s) - 1) : Tail(s)[i] = s[i + 1]
  OBVIOUS
<1>2. ASSUME NEW i \in DOMAIN s, i # 1
      PROVE  i - 1 \in DOMAIN Tail(s) /\ Tail(s)[i - 1] = s[i]
  BY <1>1, <1>2
<1>3. ASSUME Quiet(Tail(s), off), NEW i \in DOMAIN s, i # 1 PROVE s[i] \notin off
  BY <1>2, <1>3 DEF Quiet
<1>4. ASSUME Quiet(Tail(s), off), Head(s) \notin off PROVE Quiet(s, off)
  BY <1>1, <1>3, <1>4 DEF Quiet
<1>5. ASSUME Quiet(Tail(s), off), Head(s) \in on PROVE Lasts(s, on, off)
  BY <1>1, <1>3, <1>5 DEF Lasts
<1>6. ASSUME Lasts(Tail(s), on, off) PROVE Lasts(s, on, off)
  <2>1. PICK i \in DOMAIN Tail(s) :
          Tail(s)[i] \in on /\ \A j \in DOMAIN Tail(s) : i < j => Tail(s)[j] \notin off
    BY <1>6 DEF Lasts
  <2>2. i + 1 \in DOMAIN s /\ s[i + 1] \in on
    BY <1>1, <2>1
  <2>3. ASSUME NEW j \in DOMAIN s, i + 1 < j PROVE s[j] \notin off
    <3>1. j - 1 \in DOMAIN Tail(s) /\ Tail(s)[j - 1] = s[j] /\ i < j - 1
      BY <1>1, <1>2, <2>1, <2>3
    <3> QED
      BY <2>1, <3>1
  <2> QED
    BY <2>2, <2>3 DEF Lasts
<1> QED
  BY <1>4, <1>5, <1>6

LEMMA LastIsWritten ==
    ASSUME NEW S, NEW s \in Seq(S), NEW m, NEW on, NEW off
    PROVE  /\ Quiet(Append(s, m), off) => Quiet(s, off) /\ m \notin off
           /\ Lasts(Append(s, m), on, off) => m \in on \/ (Lasts(s, on, off) /\ m \notin off)
<1>1. /\ Len(s) \in Nat /\ DOMAIN s = 1..Len(s) /\ DOMAIN Append(s, m) = 1..(Len(s) + 1)
      /\ Append(s, m)[Len(s) + 1] = m
      /\ \A i \in 1..Len(s) : Append(s, m)[i] = s[i]
  OBVIOUS
<1>2. ASSUME Quiet(Append(s, m), off) PROVE Quiet(s, off) /\ m \notin off
  <2>1. \A i \in 1..(Len(s) + 1) : Append(s, m)[i] \notin off
    BY <1>1, <1>2 DEF Quiet
  <2>2. Append(s, m)[Len(s) + 1] \notin off /\ \A i \in 1..Len(s) : s[i] \notin off
    BY <1>1, <2>1
  <2> QED
    BY <1>1, <2>2 DEF Quiet
<1>3. ASSUME Lasts(Append(s, m), on, off), m \notin on
      PROVE  Lasts(s, on, off) /\ m \notin off
  <2>1. PICK i \in 1..(Len(s) + 1) :
          /\ Append(s, m)[i] \in on
          /\ \A j \in 1..(Len(s) + 1) : i < j => Append(s, m)[j] \notin off
    BY <1>1, <1>3 DEF Lasts
  <2>2. i \in 1..Len(s)
    BY <1>1, <1>3, <2>1
  <2>3. m \notin off
    BY <1>1, <2>1, <2>2
  <2>4. s[i] \in on /\ \A j \in 1..Len(s) : i < j => s[j] \notin off
    BY <1>1, <2>1, <2>2
  <2> QED
    BY <1>1, <2>2, <2>3, <2>4 DEF Lasts
<1> QED
  BY <1>2, <1>3

LEMMA EmptyPipeShows ==
    ASSUME NEW on, NEW off PROVE Quiet(<<>>, off) /\ ~Lasts(<<>>, on, off)
BY DEF Quiet, Lasts

\* A step of the supervisor that reports nothing new shows no more than before.
LEMMA NoNewsShowsNoMore ==
    ASSUME NEW p \in Pids, stdout'[p] = stdout[p],
           ShowsComplete' => ShowsComplete, ShowsRunning' => ShowsRunning
    PROVE  /\ WillShowComplete(p)' => WillShowComplete(p)
           /\ WillShowRunning(p)' => WillShowRunning(p)
BY DEF WillShowComplete, WillShowRunning, Quiet, Lasts

\* Reading an event shows what was going to be shown.
LEMMA ReadingShowsNoMore ==
    ASSUME RInv, NEW p \in Pids, MonitorReads(p)
    PROVE  /\ WillShowComplete(p)' => WillShowComplete(p)
           /\ WillShowRunning(p)' => WillShowRunning(p)
<1> DEFINE m == Head(stdout[p])
<1>1. stdout[p] \in Seq(Events) /\ stdout[p] # <<>> /\ m \in Events /\ status \in Status
  BY DEF RInv, TypeOK, PipesTypeOK, MonitorReads
<1>2. status' = ApplyEvent(status, m) /\ stdout'[p] = Tail(stdout[p])
  BY DEF RInv, TypeOK, PipesTypeOK, MonitorReads
<1>3. m.event \in EventNames /\ m.complete \in BOOLEAN
  BY <1>1 DEF Events
<1>4. ShowsComplete' => m \in Affirming \/ (ShowsComplete /\ m \notin Denying)
  BY <1>1, <1>2, <1>3 DEF ApplyEvent, Acknowledged, Disconnected, Progressing, EventNames,
     PlainEvents, Status, ShowsComplete, Affirming, Denying
<1>5. ShowsRunning' => m \in Starting \/ (ShowsRunning /\ m \notin Halting)
  BY <1>1, <1>2, <1>3 DEF ApplyEvent, Acknowledged, Disconnected, Progressing, EventNames,
     PlainEvents, Status, ShowsRunning, Starting, Halting
<1>6. ASSUME NEW on, NEW off
      PROVE  /\ Quiet(stdout'[p], off) /\ m \notin off => Quiet(stdout[p], off)
             /\ Quiet(stdout'[p], off) /\ m \in on => Lasts(stdout[p], on, off)
             /\ Lasts(stdout'[p], on, off) => Lasts(stdout[p], on, off)
  BY <1>1, <1>2, FirstIsRead
<1>7. /\ WillShowComplete(p)' <=> \/ ShowsComplete' /\ Quiet(stdout'[p], Denying)
                                  \/ Lasts(stdout'[p], Affirming, Denying)
      /\ WillShowRunning(p)' <=> \/ ShowsRunning' /\ Quiet(stdout'[p], Halting)
                                 \/ Lasts(stdout'[p], Starting, Halting)
  BY DEF WillShowComplete, WillShowRunning, Quiet, Lasts
<1> HIDE DEF m
<1> QED
  BY <1>4, <1>5, <1>6, <1>7 DEF WillShowComplete, WillShowRunning

\* A step after which no live worker is shown to have more than before.
LEMMA ShowingNoMoreKeeps ==
    ASSUME ShownInv, DrainedInv',
           \A p \in Pids : procState'[p] = "running" =>
             /\ procState[p] = "running" /\ worker'[p] = worker[p]
             /\ WillShowComplete(p)' => WillShowComplete(p)
             /\ WillShowRunning(p)' => WillShowRunning(p)
    PROVE  ShownInv'
BY DEF ShownInv, Truthful

LEMMA QuietKeepsShown ==
    ASSUME ShownInv, DrainedInv', stdout' = stdout,
           ShowsComplete' => ShowsComplete, ShowsRunning' => ShowsRunning,
           \A p \in Pids : procState'[p] = "running" =>
             procState[p] = "running" /\ worker'[p] = worker[p]
    PROVE  ShownInv'
BY NoNewsShowsNoMore, ShowingNoMoreKeeps

\* A new worker has reported nothing, and the status says so.
LEMMA SpawnKeepsShown ==
    ASSUME RInv, RInv', ShownInv, NEW s \in Status, Spawn(s), stdout' = stdout,
           worker' = worker, process = 0 \/ stdout[process] = <<>>,
           \A p \in Pids : monitor'[p] \in {"delaying", "respawning"} => monitor'[p] = monitor[p]
    PROVE  ShownInv'
<1>1. PICK q \in Pids :
        /\ process' = q /\ process # q /\ procState[q] = "unborn"
        /\ procState' = [procState EXCEPT ![q] = "running"]
        /\ procState \in [Pids -> {"unborn", "running", "exited"}]
  <2>1. /\ process \in Nat /\ process < MaxSpawns
        /\ procState \in [Pids -> {"unborn", "running", "exited"}]
    BY PipeConstants DEF PipeConstants, Spawn, RInv, TypeOK, PipesTypeOK
  <2>2. process + 1 \in Pids /\ process # process + 1 /\ process + 1 > process
    BY <2>1, PipeConstants DEF PipeConstants, Pids
  <2>3. procState[process + 1] = "unborn"
    BY <2>2 DEF RInv, SupervisionInv
  <2> QED
    BY <2>1, <2>2, <2>3 DEF Spawn
<1>2. stdout[q] = <<>> /\ worker[q].pc = "boot"
  BY <1>1 DEF ShownInv, DrainedInv, RInv, SessionInv
<1>3. ~ShowsComplete'
  BY DEF Spawn, ShowsComplete, Status
<1>4. DrainedInv'
  <2>1. ASSUME NEW p \in Pids, p # process' \/ procState'[p] = "unborn"
        PROVE  stdout'[p] = <<>>
    <3>1. CASE p = process
      <4>1. process # 0
        BY <3>1, PipeConstants DEF PipeConstants, Pids
      <4> QED
        BY <3>1, <4>1
    <3>2. CASE p # process
      BY <3>2 DEF ShownInv, DrainedInv
    <3> QED
      BY <3>1, <3>2
  <2>2. ASSUME NEW p \in Pids, monitor'[p] \in {"delaying", "respawning"}
        PROVE  stdout'[p] = <<>>
    BY <2>2 DEF ShownInv, DrainedInv
  <2> QED
    BY <2>1, <2>2 DEF DrainedInv
<1>5. ~WillShowComplete(q)'
  BY <1>2, <1>3, EmptyPipeShows DEF WillShowComplete, Quiet, Lasts
<1>6. \A p \in Pids : procState'[p] = "running" => p = q
  BY <1>1 DEF RInv, SupervisionInv
<1> QED
  BY <1>2, <1>4, <1>5, <1>6 DEF ShownInv, Truthful

LEMMA SameProcessKeepsDrained ==
    ASSUME ShownInv, stdout' = stdout, process' = process,
           \A p \in Pids : procState'[p] = "unborn" => procState[p] = "unborn",
           \A p \in Pids : monitor'[p] \in {"delaying", "respawning"} =>
             stdout[p] = <<>> \/ monitor[p] \in {"delaying", "respawning"}
    PROVE  DrainedInv'
BY DEF ShownInv, DrainedInv

LEMMA WebKeepsShown ==
    ASSUME RInv, RInv', ShownInv, WebStep
    PROVE  ShownInv'
<1>1. /\ status \in Status /\ worker' = worker
      /\ monitor \in [Pids -> {"none", "reading", "delaying", "respawning", "done"}]
      /\ procState \in [Pids -> {"unborn", "running", "exited"}]
  BY DEF WebStep, RInv, TypeOK, PipesTypeOK
<1>2. \A w \in WorkerStates \ {"running"} : status' = [status EXCEPT !.worker_state = w] =>
        (ShowsComplete' => ShowsComplete) /\ (ShowsRunning' => ShowsRunning)
  BY <1>1 DEF ShowsComplete, ShowsRunning, Status
<1>3. ASSUME UNCHANGED <<process, stdout, procState, monitor>>,
             ShowsComplete' => ShowsComplete, ShowsRunning' => ShowsRunning
      PROVE  ShownInv'
  BY <1>1, <1>3, SameProcessKeepsDrained, QuietKeepsShown
<1>4. status' = status =>
        (ShowsComplete' => ShowsComplete) /\ (ShowsRunning' => ShowsRunning)
  BY DEF ShowsComplete, ShowsRunning
<1>5. CASE StartRefused \/ Stop
  <2>1. \E w \in WorkerStates \ {"running"} : status' = [status EXCEPT !.worker_state = w]
    BY <1>5 DEF StartRefused, Stop, IdleState, WorkerStates
  <2> QED
    BY <1>2, <1>3, <1>5, <2>1 DEF StartRefused, Stop, pipeVars
<1>6. CASE ShutdownRequested \/ StopReturns \/ NotifyAlarmMappingsChanged
  BY <1>3, <1>4, <1>6 DEF ShutdownRequested, StopReturns, NotifyAlarmMappingsChanged, pipeVars
<1>7. CASE NotifyRegistryChanged
  <2>1. (ShowsComplete' => ShowsComplete) /\ (ShowsRunning' => ShowsRunning)
    BY <1>1, <1>7 DEF NotifyRegistryChanged, ShowsComplete, ShowsRunning, Status
  <2> QED
    BY <1>3, <1>7, <2>1 DEF NotifyRegistryChanged, pipeVars
<1>8. CASE SendStep
  <2>1. (ShowsComplete' => ShowsComplete) /\ (ShowsRunning' => ShowsRunning)
    BY <1>1, <1>8 DEF SendStep, SendDelivered, SendBreaks, AfterSend, ShowsComplete,
       ShowsRunning, Status
  <2> QED
    BY <1>3, <1>8, <2>1 DEF SendStep, SendDelivered, SendBreaks, pipeVars
<1>9. CASE process = 0 /\ StartSpawns
  <2>1. Spawn(status) /\ stdout' = stdout
        /\ monitor' = [monitor EXCEPT ![process'] = "reading"]
    BY <1>9 DEF StartSpawns
  <2>2. \A p \in Pids : monitor'[p] \in {"delaying", "respawning"} => monitor'[p] = monitor[p]
    BY <1>1, <2>1
  <2> QED
    BY <1>1, <1>9, <2>1, <2>2, SpawnKeepsShown
<1>10. ASSUME NEW p \in Pids, MonitorReads(p) PROVE ShownInv'
  <2>1. /\ UNCHANGED <<process, procState, monitor>> /\ stdout[p] # <<>>
        /\ stdout' = [stdout EXCEPT ![p] = Tail(@)] /\ stdout \in [Pids -> Seq(Events)]
    BY <1>10 DEF MonitorReads, RInv, TypeOK, PipesTypeOK
  <2>2. p = process /\ monitor[p] = "reading" /\ procState[p] # "unborn"
    BY <1>10, <2>1 DEF MonitorReads, ShownInv, DrainedInv
  <2>3. \A q \in Pids : q # p => stdout'[q] = stdout[q]
    BY <2>1
  <2>4. DrainedInv'
    BY <2>1, <2>2, <2>3 DEF ShownInv, DrainedInv
  <2>5. \A q \in Pids : procState'[q] = "running" => q = p
    BY <2>1, <2>2 DEF RInv, SupervisionInv
  <2>6. /\ WillShowComplete(p)' => WillShowComplete(p)
        /\ WillShowRunning(p)' => WillShowRunning(p)
    BY <1>10, ReadingShowsNoMore
  <2> QED
    BY <1>1, <2>1, <2>4, <2>5, <2>6, ShowingNoMoreKeeps
<1>11. ASSUME NEW p \in Pids, MonitorSeesExit(p) PROVE ShownInv'
  <2>1. (ShowsComplete' => ShowsComplete) /\ (ShowsRunning' => ShowsRunning)
    BY <1>1, <1>11 DEF MonitorSeesExit, Exited, IdleState, ShowsComplete, ShowsRunning, Status
  <2>2. UNCHANGED <<process, stdout, procState>> /\ stdout[p] = <<>>
        /\ \A q \in Pids : q # p => monitor'[q] = monitor[q]
    BY <1>1, <1>11 DEF MonitorSeesExit, pipeVars
  <2>3. DrainedInv'
    BY <2>2, SameProcessKeepsDrained
  <2> QED
    BY <1>1, <2>1, <2>2, <2>3, QuietKeepsShown
<1>12. ASSUME NEW p \in Pids, RestartDelayEnds(p) \/ RespawnSkipped(p) \/ RespawnRaises(p)
       PROVE  ShownInv'
  <2>1. (ShowsComplete' => ShowsComplete) /\ (ShowsRunning' => ShowsRunning)
    BY <1>1, <1>12 DEF RestartDelayEnds, RespawnSkipped, RespawnRaises, ShowsComplete,
       ShowsRunning, Status
  <2>2. UNCHANGED <<process, stdout, procState>>
        /\ monitor[p] \in {"delaying", "respawning"}
        /\ \A q \in Pids : q # p => monitor'[q] = monitor[q]
    BY <1>1, <1>12 DEF RestartDelayEnds, RespawnSkipped, RespawnRaises, pipeVars
  <2>3. DrainedInv'
    BY <2>2, SameProcessKeepsDrained
  <2> QED
    BY <1>1, <2>1, <2>2, <2>3, QuietKeepsShown
<1>13. ASSUME NEW p \in Pids, Respawn(p) PROVE ShownInv'
  <2> DEFINE counted == [status EXCEPT !.restart_count = @ + 1]
  <2>1. counted \in Status
    <3>1. status.restart_count + 1 \in Nat
      BY <1>1 DEF Status
    <3> QED
      BY <1>1, <3>1 DEF Status
  <2>2. /\ Spawn(counted) /\ stdout' = stdout /\ p = process
        /\ monitor[p] = "respawning"
        /\ monitor' = [monitor EXCEPT ![p] = "done", ![process'] = "reading"]
    BY <1>13 DEF Respawn, MayRespawn
  <2>3. \A q \in Pids : monitor'[q] \in {"delaying", "respawning"} => monitor'[q] = monitor[q]
    BY <1>1, <2>2
  <2>4. stdout[process] = <<>>
    BY <2>2 DEF ShownInv, DrainedInv
  <2> HIDE DEF counted
  <2> QED
    BY <1>1, <2>1, <2>2, <2>3, <2>4, SpawnKeepsShown
<1> QED
  BY <1>5, <1>6, <1>7, <1>8, <1>9, <1>10, <1>11, <1>12, <1>13
     DEF WebStep, LifespanStep, RouteStep, MonitorStep

LEMMA TerminationKeepsShown ==
    ASSUME RInv, RInv', ShownInv, TerminateWorker
    PROVE  ShownInv'
<1>1. /\ UNCHANGED <<supervisorVars, stdout>> /\ procState[process] = "running"
      /\ procState' = [procState EXCEPT ![process] = "exited"]
      /\ procState \in [Pids -> {"unborn", "running", "exited"}]
  BY DEF TerminateWorker, StopTerminates, Ends, Running, RInv, TypeOK, PipesTypeOK
<1>2. \A p \in Pids : procState'[p] # "running"
  BY <1>1 DEF RInv, SupervisionInv
<1>3. DrainedInv'
  BY <1>1, SameProcessKeepsDrained DEF supervisorVars
<1> QED
  BY <1>2, <1>3 DEF ShownInv

\* An event a worker reports is shown after those that are still in its pipe.
LEMMA ReportIsShown ==
    ASSUME RInv, NEW p \in Pids, NEW m, NEW w, W!Report(p, m, w), UNCHANGED supervisorVars
    PROVE  /\ WillShowComplete(p)' => m \in Affirming \/ (WillShowComplete(p) /\ m \notin Denying)
           /\ WillShowRunning(p)' => m \in Starting \/ (WillShowRunning(p) /\ m \notin Halting)
<1>1. stdout[p] \in Seq(Events) /\ stdout'[p] = Append(stdout[p], m)
  <2>1. stdout \in [Pids -> Seq(Events)]
    BY DEF RInv, TypeOK, PipesTypeOK
  <2> QED
    BY <2>1, SamePipes DEF W!Report, WriteEvent
<1>2. (ShowsComplete' <=> ShowsComplete) /\ (ShowsRunning' <=> ShowsRunning)
  BY DEF supervisorVars, ShowsComplete, ShowsRunning
<1>3. ASSUME NEW on, NEW off
      PROVE  /\ Quiet(stdout'[p], off) => Quiet(stdout[p], off) /\ m \notin off
             /\ Lasts(stdout'[p], on, off) => m \in on \/ (Lasts(stdout[p], on, off) /\ m \notin off)
  <2>1. /\ Quiet(Append(stdout[p], m), off) => Quiet(stdout[p], off) /\ m \notin off
        /\ Lasts(Append(stdout[p], m), on, off) =>
             m \in on \/ (Lasts(stdout[p], on, off) /\ m \notin off)
    BY <1>1, LastIsWritten
  <2> QED
    BY <1>1, <2>1
<1>4. /\ WillShowComplete(p)' <=> \/ ShowsComplete' /\ Quiet(stdout'[p], Denying)
                                  \/ Lasts(stdout'[p], Affirming, Denying)
      /\ WillShowRunning(p)' <=> \/ ShowsRunning' /\ Quiet(stdout'[p], Halting)
                                 \/ Lasts(stdout'[p], Starting, Halting)
  BY DEF WillShowComplete, WillShowRunning, Quiet, Lasts
<1> QED
  BY <1>2, <1>3, <1>4 DEF WillShowComplete, WillShowRunning

\* A step of the live worker, which is the only one, writes to its own pipe only.
LEMMA LiveWorkerKeepsShown ==
    ASSUME RInv, ShownInv, NEW p \in Pids, procState[p] = "running",
           UNCHANGED supervisorVars, \A q \in Pids : q # p => stdout'[q] = stdout[q],
           \/ procState' = procState /\ Truthful(p)'
           \/ procState' = [procState EXCEPT ![p] = "exited"]
    PROVE  ShownInv'
<1>1. /\ procState \in [Pids -> {"unborn", "running", "exited"}]
      /\ UNCHANGED <<process, monitor>>
  BY DEF supervisorVars, RInv, TypeOK, PipesTypeOK
<1>2. p = process /\ monitor[p] = "reading" /\ \A q \in Pids : procState[q] = "running" => q = p
  BY DEF RInv, SupervisionInv
<1>3. procState'[p] # "unborn" /\ \A q \in Pids : q # p => procState'[q] = procState[q]
  BY <1>1
<1>4. DrainedInv'
  BY <1>1, <1>2, <1>3 DEF ShownInv, DrainedInv
<1>5. \A q \in Pids : procState'[q] = "running" => q = p /\ Truthful(p)'
  BY <1>1, <1>2
<1> QED
  BY <1>4, <1>5 DEF ShownInv

LEMMA ExitKeepsShown ==
    ASSUME RInv, ShownInv, NEW p \in Pids, W!Exit(p), UNCHANGED supervisorVars,
           procState[p] = "running"
    PROVE  ShownInv'
<1>1. procState' = [procState EXCEPT ![p] = "exited"] /\ stdout' = stdout
  BY SamePipes DEF W!Exit, Ends
<1> QED
  BY <1>1, LiveWorkerKeepsShown

LEMMA ContinueKeepsShown ==
    ASSUME RInv, ShownInv, NEW p \in Pids, NEW w, W!Continue(p, w), UNCHANGED supervisorVars,
           procState[p] = "running",
           \/ w.pc \in {"closing", "failed"}
           \/ w.pc = worker[p].pc /\ w.failed = worker[p].failed
           \/ worker[p].pc \in {"load", "waiting"} /\ w.pc \in {"load", "connect"}
    PROVE  ShownInv'
<1>1. worker'[p] = w /\ stdout' = stdout /\ procState' = procState
  BY DEF W!Continue, W!pipeVars, RInv, LoopInv
<1>2. Truthful(p)
  BY DEF ShownInv
<1>3. /\ WillShowComplete(p)' => WillShowComplete(p)
      /\ WillShowRunning(p)' => WillShowRunning(p)
  BY <1>1, NoNewsShowsNoMore DEF supervisorVars, ShowsComplete, ShowsRunning
<1>4. Truthful(p)'
  BY <1>1, <1>2, <1>3 DEF Truthful
<1> QED
  BY <1>1, <1>4, LiveWorkerKeepsShown

LEMMA ReportKeepsShown ==
    ASSUME RInv, ShownInv, NEW p \in Pids, NEW m, NEW w, W!Report(p, m, w),
           UNCHANGED supervisorVars, procState[p] = "running", w.pc # "exited",
           \/ w.pc \in {"closing", "failed"}
           \/ m \notin Affirming /\ (WillShowComplete(p) => m \in Denying)
           \/ w.pc = "load" /\ m \in Halting /\ m \notin Starting
           \/ /\ worker[p].pc = "connect" /\ w.pc = "build"
              /\ m \notin Affirming /\ m \notin Starting
           \/ /\ worker[p].pc = "build" /\ w.pc \in {"ack", "idle"}
              /\ m \in Denying /\ (w.failed => m \notin Affirming)
           \/ /\ worker[p].pc = "ack" /\ w.pc = "idle" /\ w.failed = worker[p].failed
              /\ m \notin Affirming
    PROVE  ShownInv'
<1>1. worker'[p] = w /\ procState' = procState /\ \A q \in Pids : q # p => stdout'[q] = stdout[q]
  BY SamePipes DEF W!Report, WriteEvent, RInv, LoopInv
<1>2. Truthful(p)
  BY DEF ShownInv
<1>3. /\ WillShowComplete(p)' => m \in Affirming \/ (WillShowComplete(p) /\ m \notin Denying)
      /\ WillShowRunning(p)' => m \in Starting \/ (WillShowRunning(p) /\ m \notin Halting)
  BY ReportIsShown
<1>4. Truthful(p)'
  BY <1>1, <1>2, <1>3 DEF Truthful
<1> QED
  BY <1>1, <1>4, LiveWorkerKeepsShown

\* What the events of a worker say.
LEMMA EventsSay ==
    /\ \A e \in PlainEvents : W!Event(e, 0, FALSE) \notin Affirming
    /\ \A b \in BOOLEAN : /\ W!Event("subscriptions_ready", 0, b) \in Denying
                          /\ W!Event("subscriptions_ready", 0, b) \in Affirming => b
    /\ \A e \in {"opc_disconnected", "subscriptions_progress"} :
         W!Event(e, 0, FALSE) \in Denying
    /\ W!Event("rebuild_started", 0, FALSE) \in Halting \ Starting
    /\ W!Event("opc_connected", 0, FALSE) \notin Starting
    /\ \A g : \A b : W!Event("rebuild_ack", g, b) \notin Affirming
<1>1. 0 \in Generations
  BY PipeConstants DEF PipeConstants, Generations
<1> QED
  BY <1>1 DEF Affirming, Denying, Starting, Halting, Events, EventNames, PlainEvents, W!Event

LEMMA WorkerKeepsShown ==
    ASSUME RInv, ShownInv, NEW p \in Pids, WorkerMoves(p)
    PROVE  ShownInv'
<1> DEFINE v == worker[p]
<1>1. /\ procState[p] = "running" /\ UNCHANGED supervisorVars
      /\ v \in Workers(Requested) /\ Requested \in Nat
  BY OnlyTheRunningMove, NumbersAreNatural DEF WorkerMoves, RInv, LoopInv
<1>2. Truthful(p) /\ v.failed \in BOOLEAN /\ v.queue \in Seq(Asked(Requested))
  BY <1>1 DEF ShownInv, Workers
<1>3. /\ W!NewSession(v).pc = "load" /\ \A r \in Results : W!Leaving(v, r).pc = "closing"
  BY <1>1, SessionsGoOn DEF Results, Workers
<1>4. ASSUME NEW x, NEW r
      PROVE  [v EXCEPT !.pc = x].pc = x /\ [v EXCEPT !.pc = x, !.result = r].pc = x
  BY <1>1 DEF Workers
<1>5. ASSUME W!Exit(p) PROVE ShownInv'
  BY <1>1, <1>5, ExitKeepsShown
<1>6. ASSUME NEW w, W!Continue(p, w),
             \/ w.pc \in {"closing", "failed"}
             \/ w.pc = v.pc /\ w.failed = v.failed
             \/ v.pc \in {"load", "waiting"} /\ w.pc \in {"load", "connect"}
      PROVE  ShownInv'
  BY <1>1, <1>6, ContinueKeepsShown
<1>7. ASSUME NEW m, NEW w, W!Report(p, m, w), m \notin Affirming,
             WillShowComplete(p) => m \in Denying, w.pc # "exited"
      PROVE  ShownInv'
  BY <1>1, <1>7, ReportKeepsShown
<1>8. CASE W!Boot(p)
  <2>1. ~WillShowComplete(p)
    BY <1>2, <1>8 DEF Truthful, W!Boot, W!At
  <2> QED
    BY <1>3, <1>7, <1>8, <2>1, EventsSay DEF W!Boot, PlainEvents
<1>9. CASE W!LoadTags(p)
  <2>1. PICK n \in 0..MaxBatches :
          W!Continue(p, [v EXCEPT !.pc = "connect", !.left = n, !.snap = Requested])
    BY <1>9 DEF W!LoadTags, Requested
  <2>2. [v EXCEPT !.pc = "connect", !.left = n, !.snap = Requested].pc = "connect"
    BY <1>1 DEF Workers
  <2> QED
    BY <1>6, <1>9, <2>1, <2>2 DEF W!LoadTags, W!At
<1>10. CASE W!LoadFails(p) \/ W!ConnectFails(p) \/ W!CloseFails(p)
  BY <1>4, <1>6, <1>10 DEF W!LoadFails, W!ConnectFails, W!CloseFails
<1>11. CASE W!Connect(p)
  <2>1. /\ W!Report(p, W!Event("opc_connected", 0, FALSE), [v EXCEPT !.pc = "build"])
        /\ v.pc = "connect" /\ [v EXCEPT !.pc = "build"].pc = "build"
    BY <1>4, <1>11 DEF W!Connect, W!At
  <2> QED
    BY <1>1, <2>1, EventsSay, ReportKeepsShown DEF PlainEvents
<1>12. CASE W!SubscribeBatch(p)
  <2>1. PICK w : W!Report(p, W!Event("subscriptions_progress", 0, FALSE), w)
                   /\ w.pc \in {"closing", "build"}
    <3>1. PICK f \in BOOLEAN :
            W!Report(p, W!Event("subscriptions_progress", 0, FALSE),
                     W!Polled([v EXCEPT !.left = @ - 1, !.failed = @ \/ f]))
      BY <1>12 DEF W!SubscribeBatch
    <3> DEFINE u == [v EXCEPT !.left = @ - 1, !.failed = @ \/ f]
    <3>2. u \in Workers(Requested) /\ u.pc = "build"
      <4>1. v.left \in Nat /\ v.left > 0 /\ v.pc = "build" /\ (v.failed \/ f) \in BOOLEAN
        BY <1>1, <1>12 DEF Workers, W!SubscribeBatch, W!At
      <4>2. v.left - 1 \in Nat
        BY <4>1
      <4> QED
        BY <1>1, <4>1, <4>2 DEF Workers
    <3>3. W!Report(p, W!Event("subscriptions_progress", 0, FALSE), W!Polled(u))
      BY <3>1
    <3> HIDE DEF u
    <3> QED
      BY <1>1, <3>2, <3>3, PolledGoesOn
  <2> QED
    BY <1>7, <2>1, EventsSay DEF PlainEvents
<1>13. CASE W!BuildFails(p)
  BY <1>3, <1>6, <1>13 DEF W!BuildFails, Results
<1>14. CASE W!SubscriptionsReady(p)
  <2> DEFINE w == [v EXCEPT !.retry = 0, !.pc = IF v.gen = 0 THEN "idle" ELSE "ack"]
  <2>1. w.pc \in {"idle", "ack"} /\ w.failed = v.failed
    BY <1>1 DEF Workers
  <2>2. W!Report(p, W!Event("subscriptions_ready", 0, ~v.failed), w) /\ v.pc = "build"
    BY <1>14 DEF W!SubscriptionsReady, W!At
  <2>3. /\ W!Event("subscriptions_ready", 0, ~v.failed) \in Denying
        /\ v.failed => W!Event("subscriptions_ready", 0, ~v.failed) \notin Affirming
    BY <1>2, EventsSay
  <2> HIDE DEF w
  <2> QED
    BY <1>1, <2>1, <2>2, <2>3, ReportKeepsShown
<1>15. CASE W!RebuildAck(p)
  <2> DEFINE w == [v EXCEPT !.gen = 0, !.pc = "idle"]
  <2>1. w.pc = "idle" /\ w.failed = v.failed
    BY <1>1 DEF Workers
  <2>2. W!Report(p, W!Event("rebuild_ack", v.gen, ~v.failed), w) /\ v.pc = "ack"
    BY <1>15 DEF W!RebuildAck, W!At
  <2>3. W!Event("rebuild_ack", v.gen, ~v.failed) \notin Affirming
    BY EventsSay
  <2> HIDE DEF w
  <2> QED
    BY <1>1, <2>1, <2>2, <2>3, ReportKeepsShown
<1>16. CASE W!ServeCommand(p)
  <2>1. \/ W!Polled(v).pc = "closing"
        \/ W!Polled(v).pc = v.pc /\ W!Polled(v).failed = v.failed
    BY <1>1, PolledGoesOn
  <2> QED
    BY <1>6, <1>16, <2>1 DEF W!ServeCommand
<1>17. CASE W!HealthcheckFails(p)
  BY <1>3, <1>6, <1>17 DEF W!HealthcheckFails, Results
<1>18. CASE W!CloseSession(p)
  <2>1. CASE v.result = "stop"
    BY <1>5, <1>18, <2>1 DEF W!CloseSession
  <2>2. CASE v.result = "rebuild"
    <3>1. W!Report(p, W!Event("rebuild_started", 0, FALSE), W!NewSession(v))
      BY <1>18, <2>2 DEF W!CloseSession
    <3> QED
      BY <1>1, <1>3, <3>1, EventsSay, ReportKeepsShown
  <2>3. CASE v.result # "stop" /\ v.result # "rebuild"
    <3>1. W!Continue(p, [v EXCEPT !.pc = "failed"])
      BY <1>18, <2>3 DEF W!CloseSession
    <3> QED
      BY <1>4, <1>6, <3>1
  <2> QED
    BY <2>1, <2>2, <2>3
<1>19. CASE W!SessionFailed(p)
  <2>1. PICK x \in {"backoff", "waiting"} :
          W!Report(p, W!Event("opc_disconnected", 0, FALSE), [v EXCEPT !.pc = x])
    BY <1>19 DEF W!SessionFailed
  <2> QED
    BY <1>4, <1>7, <2>1, EventsSay DEF PlainEvents
<1>20. CASE W!Backoff(p)
  <2>1. ~WillShowComplete(p)
    BY <1>2, <1>20 DEF Truthful, W!Backoff, W!At
  <2>2. PICK n : W!Report(p, W!Event("subscriptions_recovery", 0, FALSE),
                          [v EXCEPT !.pc = "waiting", !.retry = n])
    BY <1>20 DEF W!Backoff
  <2>3. [v EXCEPT !.pc = "waiting", !.retry = n].pc = "waiting"
    BY <1>1 DEF Workers
  <2> QED
    BY <1>7, <2>1, <2>2, <2>3, EventsSay DEF PlainEvents
<1>21. CASE W!WaitCommand(p)
  <2> DEFINE c == Head(v.queue)
             u == [v EXCEPT !.queue = Tail(@)]
  <2>1. v.pc = "waiting" /\ u.pc = v.pc /\ u.failed = v.failed
        /\ W!NewSession([u EXCEPT !.gen = c.generation]).pc = "load"
    BY <1>1, <1>21 DEF W!WaitCommand, W!At, Workers, W!NewSession
  <2>2. CASE c.command = "stop"
    BY <1>5, <1>21, <2>2 DEF W!WaitCommand
  <2>3. CASE c.command = "rebuild"
    <3>1. W!Continue(p, W!NewSession([u EXCEPT !.gen = c.generation]))
      BY <1>21, <2>3 DEF W!WaitCommand
    <3> QED
      BY <1>6, <2>1, <3>1
  <2>4. CASE c.command # "stop" /\ c.command # "rebuild"
    <3>1. W!Continue(p, u)
      BY <1>21, <2>4 DEF W!WaitCommand
    <3> QED
      BY <1>6, <2>1, <3>1
  <2> QED
    BY <2>2, <2>3, <2>4
<1>22. CASE W!WaitEnds(p)
  BY <1>3, <1>6, <1>22 DEF W!WaitEnds, W!At
<1>23. CASE W!Crash(p)
  BY <1>5, <1>23 DEF W!Crash
<1>24. CASE W!Reader(p)
  <2>1. /\ worker' = [worker EXCEPT ![p].queue = Append(@, Head(stdin[p]))]
        /\ UNCHANGED <<procState, stdout>>
    BY <1>24 DEF W!Reader, W!ReadCommand, W!StdinEnds
  <2>2. worker'[p].pc = v.pc /\ worker'[p].failed = v.failed
    BY <1>1, <2>1 DEF RInv, LoopInv, Workers
  <2>3. /\ WillShowComplete(p)' => WillShowComplete(p)
        /\ WillShowRunning(p)' => WillShowRunning(p)
    BY <1>1, <2>1, NoNewsShowsNoMore DEF supervisorVars, ShowsComplete, ShowsRunning
  <2>4. Truthful(p)'
    BY <1>2, <2>2, <2>3 DEF Truthful
  <2> QED
    BY <1>1, <2>1, <2>4, LiveWorkerKeepsShown
<1>25. CASE W!ReportRaisesInSession(p) \/ W!ReportRaisesOutside(p)
  BY <1>25 DEF W!ReportRaisesInSession, W!ReportRaisesOutside
<1> QED
  BY <1>8, <1>9, <1>10, <1>11, <1>12, <1>13, <1>14, <1>15, <1>16, <1>17, <1>18, <1>19,
     <1>20, <1>21, <1>22, <1>23, <1>24, <1>25 DEF WorkerMoves, W!Progress

LEMMA ShownInductive == RuntimeSpec => []ShownInv
<1>1. RuntimeInit => ShownInv
  BY DEF RuntimeInit, Init, ShownInv, DrainedInv
<1>2. RInv /\ RInv' /\ ShownInv /\ [RuntimeNext]_runtimeVars => ShownInv'
  <2> SUFFICES ASSUME RInv, RInv', ShownInv, [RuntimeNext]_runtimeVars PROVE ShownInv'
    OBVIOUS
  <2>1. CASE WebStep
    BY <2>1, WebKeepsShown
  <2>2. CASE TerminateWorker
    BY <2>2, TerminationKeepsShown
  <2>3. ASSUME NEW p \in Pids, WorkerMoves(p) PROVE ShownInv'
    BY <2>3, WorkerKeepsShown
  <2>4. CASE UNCHANGED runtimeVars
    BY <2>4 DEF runtimeVars, vars, supervisorVars, pipeVars, ShownInv, DrainedInv, Truthful,
       WillShowComplete, WillShowRunning, ShowsComplete, ShowsRunning, Quiet, Lasts
  <2> QED
    BY <2>1, <2>2, <2>3, <2>4 DEF RuntimeNext
<1> QED
  BY <1>1, <1>2, RuntimeInductive, PTL DEF RuntimeSpec

\* A console that shows "running" and a complete subscription, with nothing left
\* to read, tells the truth: through rebuilds, lost connections, failed builds,
\* crashes and respawns.
THEOREM ShownIsReal == RuntimeSpec => []ShownCompleteIsReal
<1>1. RInv /\ ShownInv => ShownCompleteIsReal
  <2> SUFFICES ASSUME RInv, ShownInv, status.subscription_complete,
                      status.worker_state = "running", Running, stdout[process] = <<>>
               PROVE  /\ worker[process].pc \in {"ack", "idle", "closing", "failed"}
                      /\ worker[process].pc \in {"ack", "idle"} => ~worker[process].failed
    BY DEF ShownCompleteIsReal
  <2>1. process \in Pids
    BY PipeConstants DEF PipeConstants, RInv, TypeOK, Running, Pids
  <2>2. WillShowComplete(process) /\ WillShowRunning(process)
    BY EmptyPipeShows DEF WillShowComplete, WillShowRunning, ShowsComplete, ShowsRunning
  <2>3. Truthful(process) /\ worker[process].pc \in Stages
    BY <2>1 DEF ShownInv, Running, RInv, LoopInv, Workers
  <2> QED
    BY <2>2, <2>3 DEF Truthful, Stages
<1> QED
  BY <1>1, RuntimeInductive, ShownInductive, PTL
=============================================================================
