---------------------------- MODULE AlarmMappings ----------------------------
(***************************************************************************)
(* services/alarm_service.py and services/alarm_reload.py: request threads *)
(* create, update and delete the alarm mappings in Alarm_Lists and then    *)
(* announce the change twice, to the alarm player by incrementing the      *)
(* reload node on the OPC server, and to the historian through the         *)
(* supervisor (routes of OpcTagManager.py).                                *)
(*                                                                         *)
(* A transaction reads first and writes in a second statement, under READ  *)
(* COMMITTED and with no unique index on TagId, so the two are two         *)
(* actions; write and commit are one.  The node is read, incremented and   *)
(* written by every request on an OPC session of its own.                  *)
(*                                                                         *)
(* The player (alarm_sound, another program) samples the node and loads    *)
(* the mappings again when the value is not the one it saw last.           *)
(* AlarmActivity adds what the historian does with the mappings.           *)
(***************************************************************************)
EXTENDS Naturals, FiniteSets, Functions

CONSTANTS
    Tags,          \* tags an alarm can be mapped to, all active
    Configs,       \* what a mapping is configured with, as far as it matters
    Threads,       \* request threads of the web process
    ReloadModulus, \* values of the reload node's integer type
    FirstNodes,    \* values the reload node may hold at first
    MaxRequests,   \* bound: requests
    MaxFaults      \* bound: failing SQL, OPC and worker operations

ASSUME AlarmConstants ==
    /\ ReloadModulus \in Nat \ {0}
    /\ FirstNodes \subseteq 0..ReloadModulus - 1
    /\ MaxRequests \in Nat /\ MaxFaults \in Nat

VARIABLES
    alarms,        \* Alarm_Lists: the mapping of each AlarmId in use
    lastId,        \* the identity column
    request,       \* the request each thread works on
    node,          \* the value of the reload node
    player,        \* the value the player saw last and what it has loaded
    unannounced,   \* history: since then, a change was committed and the
                   \*   node was not written for it
    setBack,       \* history: since then, the node was set to a value other
                   \*   than the next one
    requests, faults

mappingVars == <<alarms, lastId, request, node, player, unannounced, setBack,
                 requests, faults>>

-----------------------------------------------------------------------------
AlarmIds    == 1..MaxRequests
Mapping     == [tag : Tags, config : Configs]
NoMappings  == <<>>

IdleRequest == [pc |-> "idle"]

\* No tag is mapped yet; the player has just connected.
MappingsInit ==
    /\ alarms = NoMappings
    /\ lastId = 0
    /\ request = [t \in Threads |-> IdleRequest]
    /\ node \in FirstNodes
    /\ player = [seen |-> node, loaded |-> alarms]
    /\ unannounced = FALSE
    /\ setBack = FALSE
    /\ requests = 0
    /\ faults = 0

-----------------------------------------------------------------------------
\* Mutant of Incremented: the maximum of the type is where it stays.
Saturating(v) == IF v + 1 < ReloadModulus THEN v + 1 ELSE v

\* increment_integer_variant: the next value of the node's type, after the
\* maximum the minimum.
Incremented(v) == (v + 1) % ReloadModulus

At(t, pc)     == request[t].pc = pc
Becomes(t, r) == request' = [request EXCEPT ![t] = r]
Fault         == faults < MaxFaults /\ faults' = faults + 1

Begin(t) == At(t, "idle") /\ requests < MaxRequests /\ requests' = requests + 1

\* create: the tag has no mapping yet, else the request is refused.
BeginCreate(t) ==
    /\ Begin(t)
    /\ \E m \in Mapping :
         IF \E i \in DOMAIN alarms : alarms[i].tag = m.tag
         THEN Becomes(t, IdleRequest)
         ELSE Becomes(t, [pc |-> "creating", mapping |-> m])
    /\ UNCHANGED <<alarms, lastId, node, player, unannounced, setBack, faults>>

\* update: the mapping is there; its tag does not change.
BeginUpdate(t) ==
    /\ Begin(t)
    /\ \E i \in DOMAIN alarms, c \in Configs :
         Becomes(t, [pc |-> "updating", id |-> i, config |-> c])
    /\ UNCHANGED <<alarms, lastId, node, player, unannounced, setBack, faults>>

BeginDelete(t) ==
    /\ Begin(t)
    /\ \E i \in DOMAIN alarms : Becomes(t, [pc |-> "deleting", id |-> i])
    /\ UNCHANGED <<alarms, lastId, node, player, unannounced, setBack, faults>>

\* INSERT and commit: nothing looks for a mapping of the tag again.
Inserted(t) ==
    /\ At(t, "creating")
    /\ lastId' = lastId + 1
    /\ alarms' = [i \in DOMAIN alarms \cup {lastId'} |->
                    IF i = lastId' THEN request[t].mapping ELSE alarms[i]]
    /\ Becomes(t, [pc |-> "saved", id |-> lastId'])
    /\ UNCHANGED <<node, player, unannounced, setBack, requests, faults>>

\* UPDATE ... WHERE AlarmId = ?: affects no row once the mapping was deleted.
Updated(t) ==
    /\ At(t, "updating")
    /\ alarms' = [i \in DOMAIN alarms |->
                    IF i = request[t].id
                    THEN [alarms[i] EXCEPT !.config = request[t].config]
                    ELSE alarms[i]]
    /\ Becomes(t, [pc |-> "saved", id |-> request[t].id])
    /\ UNCHANGED <<lastId, node, player, unannounced, setBack, requests, faults>>

\* A deleted mapping is not read again.
Deleted(t) ==
    /\ At(t, "deleting")
    /\ alarms' = Restrict(alarms, DOMAIN alarms \ {request[t].id})
    /\ Becomes(t, [pc |-> "announcing"])
    /\ UNCHANGED <<lastId, node, player, unannounced, setBack, requests, faults>>

\* Any statement of the transaction fails: rolled back, nothing announced.
TransactionFails(t) ==
    /\ request[t].pc \in {"creating", "updating", "deleting"}
    /\ Fault
    /\ Becomes(t, IdleRequest)
    /\ UNCHANGED <<alarms, lastId, node, player, unannounced, setBack, requests>>

-----------------------------------------------------------------------------
\* get(alarm_id) reads the saved mapping for the answer.
ReadBack(t) ==
    /\ At(t, "saved")
    /\ request[t].id \in DOMAIN alarms
    /\ Becomes(t, [pc |-> "announcing"])
    /\ UNCHANGED <<alarms, lastId, node, player, unannounced, setBack, requests, faults>>

\* Another request has deleted it: "was not found", and nothing is announced;
\* the request that deleted it announces.
ReadBackFindsNothing(t) ==
    /\ At(t, "saved")
    /\ request[t].id \notin DOMAIN alarms
    /\ Becomes(t, IdleRequest)
    /\ UNCHANGED <<alarms, lastId, node, player, unannounced, setBack, requests, faults>>

\* The query fails: an error for a change that is committed and that neither the
\* player nor the historian is told of.
ReadBackFails(t) ==
    /\ At(t, "saved")
    /\ Fault
    /\ unannounced' = TRUE
    /\ Becomes(t, IdleRequest)
    /\ UNCHANGED <<alarms, lastId, node, player, setBack, requests>>

\* notify(): connect and read the node.
ReadNode(t) ==
    /\ At(t, "announcing")
    /\ Becomes(t, [pc |-> "writing", read |-> node])
    /\ UNCHANGED <<alarms, lastId, node, player, unannounced, setBack, requests, faults>>

\* The value written is one more than the value read, which others may have
\* written since.
WriteNode(t) ==
    /\ At(t, "writing")
    /\ node' = Incremented(request[t].read)
    /\ setBack' = (setBack \/ node' \notin {node, Incremented(node)})
    /\ Becomes(t, [pc |-> "notifying"])
    /\ UNCHANGED <<alarms, lastId, player, unannounced, requests, faults>>

\* Mutant of AnnouncementFails: the request ends with the failure.
AnnouncementEnds(t) ==
    /\ request[t].pc \in {"announcing", "writing"}
    /\ Fault
    /\ unannounced' = TRUE
    /\ Becomes(t, IdleRequest)
    /\ UNCHANGED <<alarms, lastId, node, player, setBack, requests>>

\* Any step of _notify fails: the answer says so, the mapping stays saved, and
\* the historian is still notified.
AnnouncementFails(t) ==
    /\ request[t].pc \in {"announcing", "writing"}
    /\ Fault
    /\ unannounced' = TRUE
    /\ Becomes(t, [pc |-> "notifying"])
    /\ UNCHANGED <<alarms, lastId, node, player, setBack, requests>>

\* The route notifies the supervisor and answers.
Answered(t) ==
    /\ At(t, "notifying")
    /\ Becomes(t, IdleRequest)
    /\ UNCHANGED <<alarms, lastId, node, player, unannounced, setBack, requests, faults>>

\* The player samples the node.
PlayerReloads ==
    /\ node # player.seen
    /\ player' = [seen |-> node, loaded |-> alarms]
    /\ unannounced' = FALSE
    /\ setBack' = FALSE
    /\ UNCHANGED <<alarms, lastId, request, node, requests, faults>>
-----------------------------------------------------------------------------
RequestStep(t) ==
    \/ BeginCreate(t) \/ BeginUpdate(t) \/ BeginDelete(t)
    \/ Inserted(t) \/ Updated(t) \/ Deleted(t) \/ TransactionFails(t)
    \/ ReadBack(t) \/ ReadBackFindsNothing(t) \/ ReadBackFails(t)
    \/ ReadNode(t) \/ WriteNode(t) \/ AnnouncementFails(t)

MappingStep == PlayerReloads \/ \E t \in Threads : RequestStep(t)

AllAnswered == \A t \in Threads : At(t, "idle")

(***************************************************************************)
(* PlayerFollows: once every request has been answered and the player has  *)
(* seen the node, it plays the alarms that are configured - however the    *)
(* read, increment and write of several requests interleave, at the wrap   *)
(* of the node's type too - unless an announcement was given up, or a late *)
(* write took the node back to a value seen before (CounterMovesForward).  *)
(***************************************************************************)
PlayerFollows ==
    AllAnswered /\ node = player.seen /\ ~unannounced /\ ~setBack
        => player.loaded = alarms

(***************************************************************************)
(* CounterMovesForward: the "OPC-UA monotonic counter contract" of the     *)
(* reload node: it only ever goes to its next value.  A request that read  *)
(* the node long ago breaks it, and the player misses what was announced   *)
(* on the way back to the value it saw last.                               *)
(***************************************************************************)
CounterMovesForward == [][node' \in {node, Incremented(node)}]_mappingVars
=============================================================================
