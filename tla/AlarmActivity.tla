---------------------------- MODULE AlarmActivity ----------------------------
(***************************************************************************)
(* The live view of active alarms.  The historian worker loads the alarm   *)
(* mappings (workers/historian_worker.py, AlarmActivityDiagnostics), runs  *)
(* every value it gets through the alarm engine and reports transitions;   *)
(* the supervisor (services/runtime_supervisor.py, _apply_event) keeps the *)
(* view that the web console shows.  Composed with AlarmMappings: a route  *)
(* that has changed a mapping sends the worker reload_alarm_mappings.      *)
(*                                                                         *)
(* HistorianWorker and RuntimeSupervisor are the details of what is one    *)
(* variable `worker' here: connected and subscribed, between two sessions, *)
(* ended, and seen to have ended.  A session is given the value of every   *)
(* subscribed tag once and after that only changes.  Both pipes are FIFO.  *)
(***************************************************************************)
EXTENDS AlarmMappings, Sequences

CONSTANT
    MaxEvents      \* bound: events the stdout pipe holds before it blocks

ASSUME ActivityConstants == MaxEvents \in Nat

VARIABLES
    value,         \* the value of each tag on the OPC server
    due,           \* tags whose value the subscription has still to deliver
    worker,        \* "subscribed", "between", "ended" or "exited"
    commands,      \* reload commands in the stdin pipe or the command queue
    diagnostics,   \* the worker's mappings, and its engine's state for them
    events,        \* the stdout pipe
    view,          \* the supervisor's view
    loadFailed,    \* history: the last load of the worker has failed
    viewLost,      \* history: since the last load the worker has reported an
                   \*   error, which empties the view and not the engine
    untold         \* history: a change committed since the last load was never
                   \*   passed on to the supervisor

activityVars == <<value, due, worker, commands, diagnostics, events, view,
                  loadFailed, viewLost, untold>>
vars == <<mappingVars, activityVars>>

-----------------------------------------------------------------------------
Live == worker \in {"subscribed", "between"}

Engine(m)   == [loaded |-> m, awaiting |-> DOMAIN m, active |-> {}]
NoEngine    == Engine(NoMappings)
Unknown     == [state |-> "unknown", active |-> {}, count |-> 0]

\* What a load event, and what an activity event says.
StateEvent(s) == [state |-> s, id |-> 0, count |-> 0]
Activity(s, i, n) == [state |-> s, id |-> i, count |-> n]

\* The engine's view of an alarm (external): is its condition met?
Holds(m, v) == \/ m.config = "high" /\ v = 1
               \/ m.config = "low"  /\ v = 0

Enabled(m) == m.config # "off"

Init ==
    /\ MappingsInit
    /\ value \in [Tags -> 0..1]
    /\ due = {}
    /\ worker = "between"
    /\ commands = 0
    /\ diagnostics = NoEngine
    /\ events = <<>>
    /\ view = Unknown
    /\ loadFailed = FALSE
    /\ viewLost = FALSE
    /\ untold = FALSE

-----------------------------------------------------------------------------
\* notify_alarm_mappings_changed: one more command for a worker that lives.
Notified(n) == IF Live THEN n + 1 ELSE n

\* A request thread at work; a failed read of the saved mapping ends it without
\* a word to the supervisor.
Request(t) ==
    /\ RequestStep(t)
    /\ untold' = (untold \/ (At(t, "saved") /\ request'[t].pc = "idle"
                               /\ request[t].id \in DOMAIN alarms))
    /\ UNCHANGED <<value, due, worker, commands, diagnostics, events, view, loadFailed,
                   viewLost>>

\* The end of a route.
Notify(t) ==
    /\ Answered(t)
    /\ commands' = Notified(commands)
    /\ UNCHANGED <<value, due, worker, diagnostics, events, view, loadFailed,
                   viewLost, untold>>

Player == PlayerReloads /\ UNCHANGED activityVars

-----------------------------------------------------------------------------
Report(es) == /\ Len(events) + Len(es) <= MaxEvents
              /\ events' = events \o es

\* Mutant of Reloaded: the mappings are replaced, the engine is kept.
EngineKept(m) == [diagnostics EXCEPT !.loaded = m,
                                     !.awaiting = @ \cap DOMAIN m,
                                     !.active = @ \cap DOMAIN m]

\* replace_mappings: a new engine that awaits a first value of every alarm.
Reloaded(m) == Engine(m)

Load ==
    /\ diagnostics' = Reloaded(alarms)
    /\ Report(<<StateEvent("ready")>>)
    /\ loadFailed' = FALSE
    /\ viewLost' = FALSE
    /\ untold' = FALSE
    /\ UNCHANGED faults

\* _reload_alarm_diagnostics: after an error the engine goes on with what it had.
LoadFails ==
    /\ Fault
    /\ Report(<<StateEvent("error")>>)
    /\ loadFailed' = TRUE
    /\ viewLost' = TRUE
    /\ UNCHANGED <<diagnostics, untold>>

mappingsOnly == <<alarms, lastId, request, node, player, unannounced, setBack, requests>>

\* run_session loads the mappings, then subscribes every tag.
SessionBegins ==
    /\ worker = "between"
    /\ worker' = "subscribed"
    /\ due' = Tags
    /\ Load \/ LoadFails
    /\ UNCHANGED <<mappingsOnly, value, commands, view>>

\* The command poll of the session, between two batches or in the idle loop.
TakeReload ==
    /\ worker = "subscribed" /\ commands > 0
    /\ commands' = commands - 1
    /\ Load \/ LoadFails
    /\ UNCHANGED <<mappingsOnly, value, due, worker, view>>

\* The back-off between two sessions drops a reload: the next session loads.
DropReload ==
    /\ worker = "between" /\ commands > 0
    /\ commands' = commands - 1
    /\ UNCHANGED <<mappingVars, value, due, worker, diagnostics, events, view,
                   loadFailed, viewLost, untold>>

SessionEnds ==
    /\ worker = "subscribed" /\ Fault
    /\ worker' = "between"
    /\ due' = {}
    /\ UNCHANGED <<mappingsOnly, value, commands, diagnostics, events, view,
                   loadFailed, viewLost, untold>>

ValueChanges(t) ==
    /\ value' = [value EXCEPT ![t] = 1 - @]
    /\ due' = IF worker = "subscribed" THEN due \cup {t} ELSE due
    /\ UNCHANGED <<mappingVars, worker, commands, diagnostics, events, view,
                   loadFailed, viewLost, untold>>

\* What the engine finds of one alarm: nothing to report for an alarm that is
\* still inactive.
Found(i, v) ==
    LET now == Holds(diagnostics.loaded[i], v)
        was == i \in diagnostics.active
    IN  CASE i \in diagnostics.awaiting -> IF now THEN "ACTIVE" ELSE "NORMAL"
          [] now  -> IF was THEN "steady" ELSE "ACTIVE"
          [] OTHER -> IF was THEN "CLEARED" ELSE "none"

AlarmsOf(t)  == {i \in DOMAIN diagnostics.loaded : diagnostics.loaded[i].tag = t}
EnabledOf(t) == {i \in AlarmsOf(t) : Enabled(diagnostics.loaded[i])}

\* The engine once it has processed the value of t for some enabled alarms of t.
ActiveOnce(t, done) ==
    (diagnostics.active \ done) \cup {i \in done : Holds(diagnostics.loaded[i], value[t])}
ActiveAfter(t) == ActiveOnce(t, EnabledOf(t))

\* The enabled alarms of t a line is written about: an alarm that is still active
\* only ten seconds after the last line about it.
Reported(t) ==
    {ids \in SUBSET EnabledOf(t) :
       \A i \in EnabledOf(t) : /\ Found(i, value[t]) = "none" => i \notin ids
                               /\ Found(i, value[t]) \in {"ACTIVE", "NORMAL", "CLEARED"} => i \in ids}

\* A line about an alarm that is not enabled, with the count as it was, and about
\* one that is, with the count as it is.
Baseline(i)   == Activity("NORMAL", i, Cardinality(diagnostics.active))
Finding(t, i) == Activity(IF Found(i, value[t]) = "steady" THEN "ACTIVE" ELSE Found(i, value[t]),
                          i, Cardinality(ActiveAfter(t)))

\* The order in which the query has returned some alarms: it asks for none.
Orders(ids) == Bijection(1..Cardinality(ids), ids)

Baselined(t) == (AlarmsOf(t) \ EnabledOf(t)) \cap diagnostics.awaiting
Lines(t, lead, rest) == [k \in DOMAIN lead |-> Baseline(lead[k])]
                          \o [k \in DOMAIN rest |-> Finding(t, rest[k])]

FirstOf(order, n) == {order[k] : k \in {j \in DOMAIN order : j <= n}}

\* observe: first the disabled alarms of the tag that have not been seen yet, then
\* what the engine finds.
Observe(t) ==
    /\ diagnostics' = [diagnostics EXCEPT !.awaiting = @ \ AlarmsOf(t), !.active = ActiveAfter(t)]
    /\ \E lead \in Orders(Baselined(t)), ids \in Reported(t) : \E rest \in Orders(ids) :
         Report(Lines(t, lead, rest))
    /\ UNCHANGED <<faults, viewLost>>

\* observe, an exception: after n lines it reports an error.  A disabled alarm is
\* struck off before its line is sent, and the engine may fail half-way.
ObserveFails(t) ==
    /\ Fault /\ AlarmsOf(t) # {}
    /\ viewLost' = TRUE
    /\ \E lead \in Orders(Baselined(t)), ids \in Reported(t), done \in SUBSET EnabledOf(t) :
         \E rest \in Orders(ids) : \E n \in 0..Len(lead) + Len(rest) :
           /\ n < Len(lead) => done = {}
           /\ n > Len(lead) => done = EnabledOf(t)
           /\ diagnostics' = [diagnostics EXCEPT
                 !.awaiting = @ \ (done \cup FirstOf(lead, n + 1)),
                 !.active = ActiveOnce(t, done)]
           /\ Report(SubSeq(Lines(t, lead, rest), 1, n) \o <<StateEvent("error")>>)

\* datachange_notification: the subscription delivers the tag's latest value.
DataChange(t) ==
    /\ worker = "subscribed" /\ t \in due
    /\ due' = due \ {t}
    /\ Observe(t) \/ ObserveFails(t)
    /\ UNCHANGED <<mappingsOnly, value, worker, commands, view, loadFailed, untold>>

-----------------------------------------------------------------------------
\* Mutant of Applied: a load leaves the alarms in the view.
AppliedKeeping(v, e) ==
    CASE e.state = "ready"  -> [v EXCEPT !.state = "ready", !.count = 0]
      [] e.state = "error"  -> [v EXCEPT !.state = "error", !.count = 0]
      [] e.state = "ACTIVE" -> [state |-> "ready", active |-> v.active \cup {e.id},
                                count |-> e.count]
      [] OTHER -> [state |-> "ready", active |-> v.active \ {e.id}, count |-> e.count]

\* _apply_event: a load, done or failed, empties the view.
Applied(v, e) ==
    CASE e.state \in {"ready", "error"} -> [Unknown EXCEPT !.state = e.state]
      [] e.state = "ACTIVE" -> [state |-> "ready", active |-> v.active \cup {e.id},
                                count |-> e.count]
      [] OTHER -> [state |-> "ready", active |-> v.active \ {e.id}, count |-> e.count]

MonitorReads ==
    /\ events # <<>>
    /\ view' = Applied(view, Head(events))
    /\ events' = Tail(events)
    /\ UNCHANGED <<mappingVars, value, due, worker, commands, diagnostics,
                   loadFailed, viewLost, untold>>

\* The worker process ends: what it has written can still be read.
WorkerEnds ==
    /\ Live /\ Fault
    /\ worker' = "ended"
    /\ due' = {}
    /\ commands' = 0
    /\ diagnostics' = NoEngine
    /\ UNCHANGED <<mappingsOnly, value, events, view, loadFailed, viewLost, untold>>

\* _monitor: the output has come to its end.
MonitorSeesExit ==
    /\ worker = "ended" /\ events = <<>>
    /\ worker' = "exited"
    /\ view' = Unknown
    /\ UNCHANGED <<mappingVars, value, due, commands, diagnostics, events,
                   loadFailed, viewLost, untold>>

\* _spawn, after the restart delay.
Respawn ==
    /\ worker = "exited"
    /\ worker' = "between"
    /\ view' = Unknown
    /\ UNCHANGED <<mappingVars, value, due, commands, diagnostics, events,
                   loadFailed, viewLost, untold>>

-----------------------------------------------------------------------------
Next ==
    \/ \E t \in Threads : Request(t) \/ Notify(t)
    \/ Player
    \/ SessionBegins \/ TakeReload \/ DropReload \/ SessionEnds
    \/ \E t \in Tags : ValueChanges(t) \/ DataChange(t)
    \/ MonitorReads \/ WorkerEnds \/ MonitorSeesExit \/ Respawn

Spec == Init /\ [][Next]_vars

-----------------------------------------------------------------------------
(***************************************************************************)
(* DiagnosticsFollow: a connected worker that has no reload command left   *)
(* uses the mappings that are configured, whatever sessions, crashes and   *)
(* dropped commands lie between - unless its last load failed or a route   *)
(* never came to tell the supervisor.                                      *)
(***************************************************************************)
DiagnosticsFollow ==
    AllAnswered /\ worker = "subscribed" /\ commands = 0 /\ ~loadFailed /\ ~untold
        => diagnostics.loaded = alarms

(***************************************************************************)
(* ViewMatchesEngine: once its events are read, the supervisor's view is   *)
(* what the worker's engine believes, across reloads, reconnects and       *)
(* restarts, and the number shown is the number of alarms listed.  An      *)
(* error - a load that fails, an exception in observe - empties the view   *)
(* while the engine goes on (runtime_supervisor.py, _apply_event): until   *)
(* the next load alarms are missing from it, and the number shown is zero  *)
(* or the engine's, but still it lists no alarm the engine does not.       *)
(***************************************************************************)
ViewMatchesEngine ==
    Live /\ events = <<>> =>
        /\ view.active \subseteq diagnostics.active
        /\ view.count \in {0, Cardinality(diagnostics.active)}
        /\ ~viewLost => /\ view.active = diagnostics.active
                        /\ view.count = Cardinality(view.active)

(***************************************************************************)
(* ViewIsTruthful: in a quiet system the view lists no alarm but enabled   *)
(* ones whose condition holds now.  It lists them all, except those still  *)
(* without a value since the mappings were loaded (a reload forgets an     *)
(* active alarm until its tag changes), unless an exception in observe has *)
(* emptied it since.                                                       *)
(***************************************************************************)
ViewIsTruthful ==
    AllAnswered /\ worker = "subscribed" /\ commands = 0 /\ due = {}
      /\ events = <<>> /\ ~loadFailed /\ ~untold =>
        LET met == {i \in DOMAIN alarms : Holds(alarms[i], value[alarms[i].tag])}
        IN  /\ view.active \subseteq met \ diagnostics.awaiting
            /\ ~viewLost => view.active = met \ diagnostics.awaiting
=============================================================================
