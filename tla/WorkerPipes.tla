----------------------------- MODULE WorkerPipes -----------------------------
(***************************************************************************)
(* What the web process and a historian worker share: the process table of *)
(* the operating system and two pipes per worker, its stdin with commands  *)
(* and its stdout with status events, one JSON line each.  A pipe keeps    *)
(* order and loses nothing while its reader lives; a writer blocks while   *)
(* the pipe is full.  Processes are numbered in the order they are spawned.*)
(***************************************************************************)
EXTENDS Naturals, Sequences

CONSTANTS
    MaxSpawns,       \* bound: worker processes spawned in one behaviour
    MaxGeneration,   \* bound: registry changes notified
    PipeCapacity     \* lines an OS pipe holds before its writer blocks

ASSUME PipeConstants ==
    /\ MaxSpawns \in Nat
    /\ MaxGeneration \in Nat
    /\ PipeCapacity \in Nat \ {0}

VARIABLES
    procState,       \* what the operating system says of each process
    stdin, stdout    \* contents of the pipes of each process

pipeVars == <<procState, stdin, stdout>>

Pids        == 1..MaxSpawns
Generations == 0..MaxGeneration

\* The lines RuntimeSupervisor._send writes.  Only a rebuild has a generation.
Command(name, g) == [command |-> name, generation |-> g]
NoCommand == Command("none", 0)
Commands  == {Command("stop", 0), Command("reload_alarm_mappings", 0)}
               \cup {Command("rebuild", g) : g \in Generations \ {0}}

\* The status events the supervisor's protocol state depends on; `opc_state' is
\* split by the state it carries, and counts, times and texts are left out.
PlainEvents == {"worker_started", "opc_connected", "opc_disconnected",
                "subscriptions_progress", "rebuild_started", "subscriptions_recovery"}
Event(name, g, complete) ==
    [event |-> name, generation |-> g, complete |-> complete]
EventNames == PlainEvents \cup {"subscriptions_ready", "rebuild_ack"}
Events ==
    {m \in [event : EventNames, generation : Generations, complete : BOOLEAN] :
        /\ m.generation # 0 <=> m.event = "rebuild_ack"
        /\ m.event \in PlainEvents => ~m.complete}

PipesTypeOK ==
    /\ procState \in [Pids -> {"unborn", "running", "exited"}]
    /\ stdin \in [Pids -> Seq(Commands)]
    /\ stdout \in [Pids -> Seq(Events)]

\* The end of a process closes its pipes: commands it has not read are gone,
\* events it has written can still be read.
Ends(p) ==
    /\ procState' = [procState EXCEPT ![p] = "exited"]
    /\ stdin' = [stdin EXCEPT ![p] = <<>>]

\* A write to the worker's stdin, or by the worker to its stdout.
WriteCommand(p, c) ==
    /\ Len(stdin[p]) < PipeCapacity
    /\ stdin' = [stdin EXCEPT ![p] = Append(@, c)]

WriteEvent(p, m) ==
    /\ Len(stdout[p]) < PipeCapacity
    /\ stdout' = [stdout EXCEPT ![p] = Append(@, m)]
=============================================================================
