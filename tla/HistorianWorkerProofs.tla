------------------------ MODULE HistorianWorkerProofs -----------------------
(***************************************************************************)
(* Proofs about HistorianWorker: what becomes of a pending generation, for *)
(* any number of workers, generations, batches, faults and pipe slots.     *)
(***************************************************************************)
EXTENDS HistorianWorker, TLAPS

-----------------------------------------------------------------------------
Stages == {"boot", "load", "connect", "build", "ack", "idle", "closing", "failed",
           "backoff", "waiting", "exited"}
Results == {"none", "stop", "rebuild", "build_error", "error"}

Reports == [event : EventNames, generation : Nat, complete : BOOLEAN]

WorkerStates == [pc : Stages, queue : Seq(Commands), eof : BOOLEAN, gen : Generations,
                 retry : Nat, result : Results, left : Nat, failed : BOOLEAN,
                 snap : Generations]

\* The types that the other parts of the invariant rely on.
WorkerTypes ==
    /\ procState \in [Pids -> {"running", "exited"}]
    /\ stdin \in [Pids -> Seq(Commands)]
    /\ stdout \in [Pids -> Seq(Reports)]
    /\ worker \in [Pids -> WorkerStates]
    /\ registry \in Generations

\* The commands that have been sent to a worker and not yet taken up.
Line(p) == worker[p].queue \o stdin[p]

IsRebuild(c) == c.command = "rebuild"

\* The rebuilds of a line ask for ever later generations, all of them later than
\* low, and none later than high.
Rising(s, low, high) ==
    \A i \in DOMAIN s : IsRebuild(s[i]) =>
        /\ low < s[i].generation /\ s[i].generation <= high
        /\ \A j \in DOMAIN s : i < j /\ IsRebuild(s[j]) => s[i].generation < s[j].generation

OrderInv ==
    \A p \in Pids : worker[p].gen <= registry /\ Rising(Line(p), worker[p].gen, registry)

WInv == WorkerTypes /\ OrderInv /\ AckIsFresh

-----------------------------------------------------------------------------
LEMMA CommandFields ==
    ASSUME NEW c \in Commands
    PROVE  c.generation \in Generations
<1>1. 0 \in Generations
  BY PipeConstants DEF Generations
<1>2. CASE c = Command("stop", 0) \/ c = Command("reload_alarm_mappings", 0)
  BY <1>1, <1>2 DEF Command
<1>3. ASSUME NEW g \in Generations \ {0}, c = Command("rebuild", g)
      PROVE  c.generation \in Generations
  BY <1>3 DEF Command
<1> QED
  BY <1>2, <1>3 DEF Commands

\* A line that is served, or grows by a command, keeps rising.
LEMMA RisingTail ==
    ASSUME NEW s \in Seq(Commands), s # <<>>, NEW low \in Nat, NEW high \in Nat,
           Rising(s, low, high)
    PROVE  /\ Rising(Tail(s), low, high)
           /\ IsRebuild(Head(s)) =>
                /\ low < Head(s).generation /\ Head(s).generation <= high
                /\ Rising(Tail(s), Head(s).generation, high)
<1>1. Len(s) \in Nat \ {0} /\ Head(s) = s[1]
  OBVIOUS
<1>2. \A i \in DOMAIN Tail(s) : i + 1 \in DOMAIN s /\ Tail(s)[i] = s[i + 1] /\ i \in Nat
  OBVIOUS
<1>3. Rising(Tail(s), low, high)
  BY <1>2 DEF Rising
<1>4. ASSUME IsRebuild(Head(s))
      PROVE  /\ low < Head(s).generation /\ Head(s).generation <= high
             /\ Rising(Tail(s), Head(s).generation, high)
  <2>1. 1 \in DOMAIN s
    BY <1>1
  <2>2. /\ low < s[1].generation /\ s[1].generation <= high
        /\ \A j \in DOMAIN s : 1 < j /\ IsRebuild(s[j]) => s[1].generation < s[j].generation
    BY <1>1, <1>4, <2>1 DEF Rising
  <2>3. \A i \in DOMAIN Tail(s) : IsRebuild(Tail(s)[i]) => s[1].generation < Tail(s)[i].generation
    BY <1>2, <2>2
  <2> QED
    BY <1>1, <1>3, <2>2, <2>3 DEF Rising
<1> QED
  BY <1>3, <1>4

LEMMA RisingAppend ==
    ASSUME NEW s \in Seq(Commands), NEW c \in Commands, NEW low \in Nat, NEW high \in Nat,
           NEW new \in Nat, high <= new, low <= high, Rising(s, low, high),
           IsRebuild(c) => c.generation = new /\ high < new
    PROVE  Rising(Append(s, c), low, new)
<1> DEFINE r == Append(s, c)
<1>1. \A i \in DOMAIN r : \/ i \in DOMAIN s /\ r[i] = s[i]
                          \/ i = Len(s) + 1 /\ r[i] = c
  OBVIOUS
<1>2. \A i \in DOMAIN r : i \in Nat
  OBVIOUS
<1>3. \A i \in DOMAIN s : s[i] \in Commands /\ s[i].generation \in Nat /\ i <= Len(s)
  BY CommandFields DEF Generations
<1>4. Len(s) \in Nat
  OBVIOUS
<1> HIDE DEF r
<1>5. ASSUME NEW i \in DOMAIN r, IsRebuild(r[i])
      PROVE  low < r[i].generation /\ r[i].generation <= new
  <2>1. CASE i \in DOMAIN s /\ r[i] = s[i]
    BY <1>3, <1>5, <2>1 DEF Rising
  <2>2. CASE r[i] = c
    BY <1>5, <2>2
  <2> QED
    BY <1>1, <2>1, <2>2
<1>6. ASSUME NEW i \in DOMAIN r, NEW j \in DOMAIN r, IsRebuild(r[i]), IsRebuild(r[j]), i < j
      PROVE  r[i].generation < r[j].generation
  <2>1. i \in DOMAIN s /\ r[i] = s[i]
    BY <1>1, <1>2, <1>3, <1>4, <1>6
  <2>2. CASE j \in DOMAIN s /\ r[j] = s[j]
    BY <1>6, <2>1, <2>2 DEF Rising
  <2>3. CASE r[j] = c
    BY <1>3, <1>6, <2>1, <2>3 DEF Rising
  <2> QED
    BY <1>1, <2>2, <2>3
<1>7. Rising(r, low, new)
  BY <1>5, <1>6 DEF Rising
<1> QED
  BY <1>7 DEF r

\* Nothing is left of what was sent to a process that has ended.
LEMMA RisingEmpty ==
    ASSUME NEW low, NEW high PROVE Rising(<<>>, low, high)
BY DEF Rising

-----------------------------------------------------------------------------
\* What a step of worker p on its own may do to the state the invariant is about:
\* go on in a state w, in which the pending generation is the same, is gone with
\* its acknowledgement, or is that of the command just taken from the queue.
Takes(v, w) ==
    /\ v.queue # <<>> /\ w.queue = Tail(v.queue)
    /\ w.gen = IF IsRebuild(Head(v.queue)) THEN Head(v.queue).generation ELSE v.gen

GoesOn(p, w) ==
    /\ worker' = [worker EXCEPT ![p] = w]
    /\ stdin' = stdin /\ registry' = registry
    /\ w.pc \in {"connect", "build", "ack"} => w.gen <= w.snap
    /\ \/ w.queue = worker[p].queue /\ w.gen = worker[p].gen
       \/ /\ w.queue = worker[p].queue /\ w.gen = 0
          /\ worker[p].pc = "ack" /\ stdout'[p] # stdout[p]
       \/ Takes(worker[p], w)

\* A report is one line more, and is of the type of the pipe.
LEMMA ReportGoesOn ==
    ASSUME WorkerTypes, NEW p \in Pids, NEW m \in Reports, NEW w, Report(p, m, w)
    PROVE  /\ stdout' \in [Pids -> Seq(Reports)] /\ stdout'[p] # stdout[p]
           /\ worker' = [worker EXCEPT ![p] = w]
           /\ stdin' = stdin /\ registry' = registry /\ procState' = procState
<1>1. stdout' = [stdout EXCEPT ![p] = Append(@, m)]
  BY DEF Report, WriteEvent
<1>2. stdout[p] \in Seq(Reports)
  BY DEF WorkerTypes
<1>3. Append(stdout[p], m) \in Seq(Reports) /\ Append(stdout[p], m) # stdout[p]
  <2>1. Len(Append(stdout[p], m)) = Len(stdout[p]) + 1 /\ Len(stdout[p]) \in Nat
    BY <1>2
  <2> QED
    BY <1>2, <2>1
<1> QED
  BY <1>1, <1>3 DEF WorkerTypes, Report, SameOutside

LEMMA ContinueGoesOn ==
    ASSUME NEW p \in Pids, NEW w, Continue(p, w)
    PROVE  /\ worker' = [worker EXCEPT ![p] = w]
           /\ stdin' = stdin /\ stdout' = stdout /\ registry' = registry
           /\ procState' = procState
BY DEF Continue, SameOutside, pipeVars

\* A command polled in a session: a rebuild ends it.
LEMMA PolledGoesOn ==
    ASSUME NEW v \in WorkerStates
    PROVE  /\ Polled(v) \in WorkerStates
           /\ \/ Polled(v).queue = v.queue /\ Polled(v).gen = v.gen
              \/ Takes(v, Polled(v))
           /\ Polled(v).pc \in {"connect", "build", "ack"} =>
                Polled(v).gen = v.gen /\ Polled(v).snap = v.snap /\ Polled(v).pc = v.pc
<1>1. CASE v.queue = <<>>
  BY <1>1 DEF Polled
<1>2. CASE v.queue # <<>>
  <2> DEFINE c == Head(v.queue)
             u == [v EXCEPT !.queue = Tail(@)]
  <2>1. c \in Commands /\ Tail(v.queue) \in Seq(Commands)
    BY <1>2 DEF WorkerStates
  <2>2. u \in WorkerStates /\ u.queue = Tail(v.queue) /\ u.gen = v.gen /\ u.snap = v.snap
        /\ u.pc = v.pc
    BY <2>1 DEF WorkerStates
  <2>3. c.generation \in Generations
    BY <2>1, CommandFields
  <2>4. \/ c.command = "reload_alarm_mappings" \/ c.command = "stop" \/ c.command = "rebuild"
    BY <2>1 DEF Commands, Command
  <2>5. CASE c.command = "reload_alarm_mappings"
    <3>1. Polled(v) = u
      BY <1>2, <2>5 DEF Polled
    <3> QED
      BY <1>2, <2>2, <2>5, <3>1 DEF Takes, IsRebuild
  <2>6. CASE c.command = "stop"
    <3>1. Polled(v) = [u EXCEPT !.pc = "closing", !.result = "stop"]
      BY <1>2, <2>6 DEF Polled, Leaving
    <3>2. Polled(v) \in WorkerStates /\ Polled(v).queue = u.queue /\ Polled(v).gen = u.gen
          /\ Polled(v).pc = "closing"
      BY <2>2, <3>1 DEF WorkerStates, Stages, Results
    <3> QED
      BY <1>2, <2>2, <2>6, <3>2 DEF Takes, IsRebuild
  <2>7. CASE c.command = "rebuild"
    <3>1. Polled(v) = [u EXCEPT !.gen = c.generation, !.pc = "closing", !.result = "rebuild"]
      BY <1>2, <2>7, <2>2 DEF Polled, Leaving, WorkerStates
    <3>2. Polled(v) \in WorkerStates /\ Polled(v).queue = u.queue
          /\ Polled(v).gen = c.generation /\ Polled(v).pc = "closing"
      BY <2>2, <2>3, <3>1 DEF WorkerStates, Stages, Results
    <3> QED
      BY <1>2, <2>2, <2>7, <3>2 DEF Takes, IsRebuild
  <2> QED
    BY <2>4, <2>5, <2>6, <2>7
<1> QED
  BY <1>1, <1>2

\* The two ways to leave a session, and a session anew, keep what is pending.
LEMMA SessionsKeepPending ==
    ASSUME NEW v \in WorkerStates, NEW r \in Results
    PROVE  /\ Leaving(v, r) \in WorkerStates /\ Leaving(v, r).pc = "closing"
           /\ Leaving(v, r).queue = v.queue /\ Leaving(v, r).gen = v.gen
           /\ NewSession(v) \in WorkerStates /\ NewSession(v).pc = "load"
           /\ NewSession(v).queue = v.queue /\ NewSession(v).gen = v.gen
BY DEF Leaving, NewSession, WorkerStates, Stages, Results

Ended(p) ==
    /\ procState' = [procState EXCEPT ![p] = "exited"]
    /\ stdin' = [stdin EXCEPT ![p] = <<>>]
    /\ worker' = [worker EXCEPT ![p] = Gone]
    /\ stdout' = stdout /\ registry' = registry

Advances(p) ==
    /\ stdout' \in [Pids -> Seq(Reports)] /\ procState' = procState
    /\ \E w \in WorkerStates : GoesOn(p, w)

LEMMA ExitEnds ==
    ASSUME NEW p \in Pids, Exit(p) PROVE Ended(p)
BY DEF Exit, Ends, Ended, SameOutside

\* A report, and a step without one, that keep the queue and the pending
\* generation, and do not carry it into a session.
LEMMA QuietAdvances ==
    ASSUME WInv, NEW p \in Pids, NEW w \in WorkerStates,
           w.pc \in {"connect", "build", "ack"} => w.gen <= w.snap,
           w.queue = worker[p].queue, w.gen = worker[p].gen,
           Continue(p, w) \/ \E m \in Reports : Report(p, m, w)
    PROVE  Advances(p)
<1>1. WorkerTypes
  BY DEF WInv
<1>2. CASE Continue(p, w)
  BY <1>1, <1>2, ContinueGoesOn DEF Advances, GoesOn, WorkerTypes
<1>3. ASSUME NEW m \in Reports, Report(p, m, w) PROVE Advances(p)
  BY <1>1, <1>3, ReportGoesOn DEF Advances, GoesOn
<1> QED
  BY <1>2, <1>3

LEMMA EventIsReport ==
    ASSUME NEW e \in EventNames, NEW g \in Generations, NEW b \in BOOLEAN
    PROVE  Event(e, g, b) \in Reports
BY DEF Event, Reports, Generations

LEMMA ZeroIsGeneration == 0 \in Generations
BY PipeConstants DEF PipeConstants, Generations

\* Every step of the main loop of a worker, and every fault it suffers.
LEMMA MainLoop ==
    ASSUME WInv, NEW p \in Pids, Progress(p) \/ Suffers(p)
    PROVE  Ended(p) \/ Advances(p)
<1> DEFINE v == worker[p]
<1>1. v \in WorkerStates /\ WorkerTypes
  BY DEF WInv, WorkerTypes
<1>2. v.pc \in {"connect", "build", "ack"} => v.gen <= v.snap
  BY DEF WInv, AckIsFresh
<1>3. v.gen <= registry /\ registry \in Generations
  BY DEF WInv, OrderInv, WorkerTypes
<1>4. v.gen \in Generations /\ v.failed \in BOOLEAN /\ v.result \in Results
  BY <1>1 DEF WorkerStates
<1>5. \A e \in EventNames, b \in BOOLEAN : Event(e, 0, b) \in Reports
  BY EventIsReport, ZeroIsGeneration
<1>6. {"worker_started", "opc_connected", "subscriptions_progress", "subscriptions_ready",
       "rebuild_ack", "rebuild_started", "opc_disconnected", "subscriptions_recovery"}
        \subseteq EventNames
  BY DEF EventNames, PlainEvents
<1>7. NewSession(v) \in WorkerStates /\ NewSession(v).pc = "load"
      /\ NewSession(v).queue = v.queue /\ NewSession(v).gen = v.gen
  BY <1>1, <1>4, SessionsKeepPending
<1>8. \A r \in Results :
        /\ Leaving(v, r) \in WorkerStates /\ Leaving(v, r).pc = "closing"
        /\ Leaving(v, r).queue = v.queue /\ Leaving(v, r).gen = v.gen
  BY <1>1, SessionsKeepPending
<1>9. \A x \in {"connect", "build", "ack", "idle", "failed", "backoff", "waiting"} :
        /\ [v EXCEPT !.pc = x] \in WorkerStates /\ [v EXCEPT !.pc = x].pc = x
        /\ [v EXCEPT !.pc = x].queue = v.queue /\ [v EXCEPT !.pc = x].gen = v.gen
        /\ [v EXCEPT !.pc = x].snap = v.snap
  BY <1>1 DEF WorkerStates, Stages
<1>10. \A r \in Results :
        /\ [v EXCEPT !.pc = "failed", !.result = r] \in WorkerStates
        /\ [v EXCEPT !.pc = "failed", !.result = r].pc = "failed"
        /\ [v EXCEPT !.pc = "failed", !.result = r].queue = v.queue
        /\ [v EXCEPT !.pc = "failed", !.result = r].gen = v.gen
  BY <1>1 DEF WorkerStates, Stages
<1>11. CASE Boot(p)
  BY <1>5, <1>6, <1>7, <1>11, QuietAdvances DEF Boot
<1>12. CASE LoadTags(p)
  <2>1. PICK n \in 0..MaxBatches :
          Continue(p, [v EXCEPT !.pc = "connect", !.left = n, !.snap = registry])
    BY <1>12 DEF LoadTags
  <2> DEFINE w == [v EXCEPT !.pc = "connect", !.left = n, !.snap = registry]
  <2>2. w \in WorkerStates /\ w.gen = v.gen /\ w.queue = v.queue /\ w.snap = registry
    <3>1. n \in Nat
      BY WorkerConstants DEF WorkerConstants
    <3> QED
      BY <1>1, <1>3, <3>1 DEF WorkerStates, Stages
  <2> HIDE DEF w
  <2> QED
    BY <1>3, <2>1, <2>2, QuietAdvances DEF w
<1>13. CASE LoadFails(p)
  BY <1>10, <1>13, QuietAdvances DEF LoadFails, Results
<1>14. CASE Connect(p)
  BY <1>2, <1>5, <1>6, <1>9, <1>14, QuietAdvances DEF Connect, At
<1>15. CASE ConnectFails(p)
  BY <1>10, <1>15, QuietAdvances DEF ConnectFails, Results
<1>16. CASE SubscribeBatch(p)
  <2>1. PICK refused \in BOOLEAN :
          Report(p, Event("subscriptions_progress", 0, FALSE),
                 Polled([v EXCEPT !.left = @ - 1, !.failed = @ \/ refused]))
    BY <1>16 DEF SubscribeBatch
  <2> DEFINE u == [v EXCEPT !.left = @ - 1, !.failed = @ \/ refused]
  <2>2. v.left \in Nat /\ v.left > 0 /\ v.pc = "build"
    BY <1>1, <1>16 DEF WorkerStates, SubscribeBatch, At
  <2>3. u \in WorkerStates /\ u.queue = v.queue /\ u.gen = v.gen /\ u.snap = v.snap /\ u.pc = v.pc
    <3>1. (v.failed \/ refused) \in BOOLEAN
      OBVIOUS
    <3>2. v.left - 1 \in Nat
      BY <2>2
    <3> QED
      BY <1>1, <3>1, <3>2 DEF WorkerStates
  <2> HIDE DEF u
  <2>4. /\ Polled(u) \in WorkerStates
        /\ \/ Polled(u).queue = u.queue /\ Polled(u).gen = u.gen
           \/ Takes(u, Polled(u))
        /\ Polled(u).pc \in {"connect", "build", "ack"} =>
             Polled(u).gen = u.gen /\ Polled(u).snap = u.snap /\ Polled(u).pc = u.pc
    BY <2>3, PolledGoesOn
  <2>5. Takes(u, Polled(u)) => Takes(v, Polled(u))
    BY <2>3 DEF Takes
  <2>6. Event("subscriptions_progress", 0, FALSE) \in Reports
    BY <1>5, <1>6
  <2>7. Report(p, Event("subscriptions_progress", 0, FALSE), Polled(u))
    BY <2>1 DEF u
  <2> QED
    BY <1>1, <1>2, <2>2, <2>3, <2>4, <2>5, <2>6, <2>7, ReportGoesOn DEF Advances, GoesOn
<1>17. CASE BuildFails(p)
  BY <1>8, <1>17, QuietAdvances DEF BuildFails, Results
<1>18. CASE SubscriptionsReady(p)
  <2> DEFINE w == [v EXCEPT !.retry = 0, !.pc = IF v.gen = 0 THEN "idle" ELSE "ack"]
  <2>1. w \in WorkerStates /\ w.queue = v.queue /\ w.gen = v.gen /\ w.snap = v.snap
    BY <1>1 DEF WorkerStates, Stages
  <2>2. Report(p, Event("subscriptions_ready", 0, ~v.failed), w) /\ v.pc = "build"
    BY <1>18 DEF SubscriptionsReady, At
  <2>3. Event("subscriptions_ready", 0, ~v.failed) \in Reports
    BY <1>5, <1>6
  <2> HIDE DEF w
  <2> QED
    BY <1>2, <2>1, <2>2, <2>3, QuietAdvances
<1>19. CASE RebuildAck(p)
  <2> DEFINE w == [v EXCEPT !.gen = 0, !.pc = "idle"]
  <2>1. w \in WorkerStates /\ w.queue = v.queue /\ w.gen = 0 /\ w.pc = "idle"
    BY <1>1, ZeroIsGeneration DEF WorkerStates, Stages
  <2>2. Report(p, Event("rebuild_ack", v.gen, ~v.failed), w) /\ v.pc = "ack"
    BY <1>19 DEF RebuildAck, At
  <2>3. Event("rebuild_ack", v.gen, ~v.failed) \in Reports
    BY <1>4, <1>6, EventIsReport
  <2> HIDE DEF w
  <2> QED
    BY <1>1, <2>1, <2>2, <2>3, ReportGoesOn DEF Advances, GoesOn
<1>20. CASE ServeCommand(p)
  <2>1. /\ Polled(v) \in WorkerStates
        /\ \/ Polled(v).queue = v.queue /\ Polled(v).gen = v.gen
           \/ Takes(v, Polled(v))
        /\ Polled(v).pc \in {"connect", "build", "ack"} => Polled(v).pc = v.pc
    BY <1>1, PolledGoesOn
  <2>2. Continue(p, Polled(v)) /\ v.pc = "idle"
    BY <1>20 DEF ServeCommand, At
  <2> QED
    BY <1>1, <2>1, <2>2, ContinueGoesOn DEF Advances, GoesOn, WorkerTypes
<1>21. CASE HealthcheckFails(p)
  BY <1>8, <1>21, QuietAdvances DEF HealthcheckFails, Results
<1>22. CASE CloseSession(p)
  <2>1. CASE v.result = "stop"
    BY <1>22, <2>1, ExitEnds DEF CloseSession
  <2>2. CASE v.result = "rebuild"
    <3>1. Report(p, Event("rebuild_started", 0, FALSE), NewSession(v))
      BY <1>22, <2>2 DEF CloseSession
    <3> QED
      BY <1>5, <1>6, <1>7, <3>1, QuietAdvances
  <2>3. CASE v.result # "stop" /\ v.result # "rebuild"
    <3>1. Continue(p, [v EXCEPT !.pc = "failed"])
      BY <1>22, <2>3 DEF CloseSession
    <3> QED
      BY <1>9, <3>1, QuietAdvances
  <2> QED
    BY <2>1, <2>2, <2>3
<1>23. CASE CloseFails(p)
  BY <1>10, <1>23, QuietAdvances DEF CloseFails, Results
<1>24. CASE SessionFailed(p)
  BY <1>5, <1>6, <1>9, <1>24, QuietAdvances DEF SessionFailed
<1>25. CASE Backoff(p)
  <2> DEFINE w == [v EXCEPT !.pc = "waiting",
                            !.retry = IF v.retry >= RetryAttempts THEN 0 ELSE v.retry + 1]
  <2>1. w \in WorkerStates /\ w.queue = v.queue /\ w.gen = v.gen /\ w.pc = "waiting"
    <3>1. (IF v.retry >= RetryAttempts THEN 0 ELSE v.retry + 1) \in Nat
      BY <1>1, WorkerConstants DEF WorkerConstants, WorkerStates
    <3> QED
      BY <1>1, <3>1 DEF WorkerStates, Stages
  <2>2. Report(p, Event("subscriptions_recovery", 0, FALSE), w)
    BY <1>25 DEF Backoff
  <2> HIDE DEF w
  <2> QED
    BY <1>5, <1>6, <2>1, <2>2, QuietAdvances
<1>26. CASE WaitCommand(p)
  <2> DEFINE c == Head(v.queue)
             u == [v EXCEPT !.queue = Tail(@)]
  <2>1. v.queue # <<>> /\ v.pc = "waiting"
    BY <1>26 DEF WaitCommand, At
  <2>2. c \in Commands /\ Tail(v.queue) \in Seq(Commands)
    BY <1>1, <2>1 DEF WorkerStates
  <2>3. c.generation \in Generations
    BY <2>2, CommandFields
  <2>4. u \in WorkerStates /\ u.queue = Tail(v.queue) /\ u.gen = v.gen /\ u.pc = v.pc
    BY <1>1, <2>2 DEF WorkerStates
  <2>5. CASE c.command = "stop"
    BY <1>26, <2>5, ExitEnds DEF WaitCommand
  <2>6. CASE c.command = "rebuild"
    <3> DEFINE g == [u EXCEPT !.gen = c.generation]
    <3>1. g \in WorkerStates /\ g.queue = Tail(v.queue) /\ g.gen = c.generation
      BY <2>3, <2>4 DEF WorkerStates
    <3>2. Continue(p, NewSession(g))
      BY <1>26, <2>6 DEF WaitCommand
    <3> HIDE DEF g
    <3>3. NewSession(g) \in WorkerStates /\ NewSession(g).pc = "load"
          /\ NewSession(g).queue = Tail(v.queue) /\ NewSession(g).gen = c.generation
      BY <1>4, <3>1, SessionsKeepPending
    <3>4. Takes(v, NewSession(g))
      BY <2>1, <2>6, <3>3 DEF Takes, IsRebuild
    <3> QED
      BY <1>1, <3>2, <3>3, <3>4, ContinueGoesOn DEF Advances, GoesOn, WorkerTypes
  <2>7. CASE c.command # "stop" /\ c.command # "rebuild"
    <3>1. Continue(p, u)
      BY <1>26, <2>7 DEF WaitCommand
    <3>2. Takes(v, u)
      BY <2>1, <2>4, <2>7 DEF Takes, IsRebuild
    <3> QED
      BY <1>1, <2>1, <2>4, <3>1, <3>2, ContinueGoesOn DEF Advances, GoesOn, WorkerTypes
  <2> QED
    BY <2>5, <2>6, <2>7
<1>27. CASE WaitEnds(p)
  BY <1>7, <1>27, QuietAdvances DEF WaitEnds
<1>28. CASE ReportRaisesInSession(p)
  BY <1>8, <1>28, QuietAdvances DEF ReportRaisesInSession, Results
<1>29. CASE ReportRaisesOutside(p)
  BY <1>29, ExitEnds DEF ReportRaisesOutside
<1>30. CASE Crash(p)
  BY <1>30, ExitEnds DEF Crash
<1> QED
  BY <1>11, <1>12, <1>13, <1>14, <1>15, <1>16, <1>17, <1>18, <1>19, <1>20, <1>21, <1>22,
     <1>23, <1>24, <1>25, <1>26, <1>27, <1>28, <1>29, <1>30 DEF Progress, Suffers

-----------------------------------------------------------------------------
LEMMA InitHolds == WorkerInit => WInv
<1> SUFFICES ASSUME WorkerInit PROVE WInv
  OBVIOUS
<1> USE DEF WorkerInit
<1>1. Fresh \in WorkerStates
  BY ZeroIsGeneration DEF Fresh, WorkerStates, Stages, Results
<1>2. WorkerTypes
  BY <1>1, ZeroIsGeneration DEF WorkerTypes
<1>3. \A p \in Pids : worker[p].gen = 0 /\ worker[p].pc = "boot" /\ Line(p) = <<>>
  BY DEF Fresh, Line
<1>4. OrderInv
  BY <1>3, RisingEmpty DEF OrderInv
<1>5. AckIsFresh
  BY <1>3 DEF AckIsFresh
<1> QED
  BY <1>2, <1>4, <1>5 DEF WInv

\* Taking a command from the queue takes it from the front of the line, and
\* moving one from the pipe to the queue leaves the line as it is.
LEMMA LineTail ==
    ASSUME NEW q \in Seq(Commands), NEW s \in Seq(Commands), q # <<>>
    PROVE  /\ Tail(q) \o s = Tail(q \o s) /\ Head(q \o s) = Head(q) /\ q \o s # <<>>
           /\ q \o s \in Seq(Commands)
<1>1. Len(q) \in Nat \ {0} /\ Len(s) \in Nat /\ Len(q \o s) = Len(q) + Len(s)
  OBVIOUS
<1>2. q \o s \in Seq(Commands) /\ q \o s # <<>>
  BY <1>1
<1>3. Head(q \o s) = Head(q)
  BY <1>1, <1>2
<1>4. Len(Tail(q) \o s) = Len(q) + Len(s) - 1 /\ Len(Tail(q \o s)) = Len(q) + Len(s) - 1
  BY <1>1, <1>2
<1>5. \A i \in 1..(Len(q) + Len(s) - 1) : (Tail(q) \o s)[i] = Tail(q \o s)[i]
  BY <1>1, <1>2
<1>6. Tail(q) \o s \in Seq(Commands) /\ Tail(q \o s) \in Seq(Commands)
  BY <1>1, <1>2
<1> QED
  BY <1>2, <1>3, <1>4, <1>5, <1>6

LEMMA LineShift ==
    ASSUME NEW q \in Seq(Commands), NEW s \in Seq(Commands), s # <<>>
    PROVE  Append(q, Head(s)) \o Tail(s) = q \o s
<1>1. Len(q) \in Nat /\ Len(s) \in Nat \ {0} /\ Len(q \o s) = Len(q) + Len(s)
  OBVIOUS
<1>2. /\ Head(s) = s[1] /\ Head(s) \in Commands /\ Tail(s) \in Seq(Commands)
      /\ Len(Tail(s)) = Len(s) - 1
  BY <1>1
<1>3. Append(q, Head(s)) \in Seq(Commands) /\ Len(Append(q, Head(s))) = Len(q) + 1
  BY <1>2
<1> DEFINE l == Append(q, Head(s)) \o Tail(s)
<1>4. l \in Seq(Commands) /\ Len(l) = Len(q) + Len(s) /\ q \o s \in Seq(Commands)
  BY <1>1, <1>2, <1>3
<1>5. \A i \in 1..(Len(q) + Len(s)) : l[i] = (q \o s)[i]
  <2> SUFFICES ASSUME NEW i \in 1..(Len(q) + Len(s)) PROVE l[i] = (q \o s)[i]
    OBVIOUS
  <2>1. CASE i <= Len(q)
    BY <1>1, <1>2, <1>3, <2>1
  <2>2. CASE i = Len(q) + 1
    BY <1>1, <1>2, <1>3, <2>2
  <2>3. CASE i > Len(q) + 1
    BY <1>1, <1>2, <1>3, <2>3
  <2> QED
    BY <1>1, <2>1, <2>2, <2>3
<1> HIDE DEF l
<1> QED
  BY <1>1, <1>4, <1>5 DEF l

LEMMA LineAppend ==
    ASSUME NEW q \in Seq(Commands), NEW s \in Seq(Commands), NEW c \in Commands
    PROVE  q \o Append(s, c) = Append(q \o s, c)
<1>1. Len(q) \in Nat /\ Len(s) \in Nat /\ Len(q \o s) = Len(q) + Len(s)
      /\ q \o s \in Seq(Commands) /\ Append(s, c) \in Seq(Commands)
      /\ Len(Append(s, c)) = Len(s) + 1
  OBVIOUS
<1> DEFINE l == q \o Append(s, c)
           r == Append(q \o s, c)
<1>2. l \in Seq(Commands) /\ r \in Seq(Commands)
      /\ Len(l) = Len(q) + Len(s) + 1 /\ Len(r) = Len(q) + Len(s) + 1
  BY <1>1
<1>3. \A i \in 1..(Len(q) + Len(s) + 1) : l[i] = r[i]
  BY <1>1
<1> HIDE DEF l, r
<1> QED
  BY <1>1, <1>2, <1>3 DEF l, r

-----------------------------------------------------------------------------
\* PendingGenerationKept, of one step and one worker.
KeepsPending(p) ==
    worker[p].gen # 0 /\ worker'[p].gen # worker[p].gen /\ procState'[p] = "running"
      => \/ worker'[p].gen > worker[p].gen
         \/ worker[p].pc = "ack" /\ stdout'[p] # stdout[p]

\* What the invariant says of one worker.
InvOf(p) ==
    /\ worker[p].gen <= registry /\ Rising(Line(p), worker[p].gen, registry)
    /\ worker[p].pc \in {"connect", "build", "ack"} => worker[p].gen <= worker[p].snap

LEMMA InvByWorker == WInv <=> WorkerTypes /\ \A p \in Pids : InvOf(p)
BY DEF WInv, OrderInv, AckIsFresh, InvOf

\* A worker that a step leaves alone, with its commands.
LEMMA UntouchedKeeps ==
    ASSUME NEW q \in Pids, InvOf(q), worker'[q] = worker[q], stdin'[q] = stdin[q],
           registry' = registry
    PROVE  InvOf(q)' /\ KeepsPending(q)
BY DEF InvOf, KeepsPending, Line

LEMMA TypesOf ==
    ASSUME WorkerTypes, NEW p \in Pids
    PROVE  /\ worker[p] \in WorkerStates /\ worker[p].queue \in Seq(Commands)
           /\ stdin[p] \in Seq(Commands) /\ Line(p) \in Seq(Commands)
           /\ worker[p].gen \in Nat /\ registry \in Nat
<1>1. worker[p] \in WorkerStates /\ stdin[p] \in Seq(Commands)
  BY DEF WorkerTypes
<1>2. worker[p].queue \in Seq(Commands) /\ worker[p].gen \in Nat
  BY <1>1 DEF WorkerStates, Generations
<1>3. registry \in Nat
  BY DEF WorkerTypes, Generations
<1> QED
  BY <1>1, <1>2, <1>3 DEF Line

LEMMA AdvanceKeeps ==
    ASSUME WInv, NEW p \in Pids, Advances(p)
    PROVE  WInv' /\ \A q \in Pids : KeepsPending(q)
<1> DEFINE v == worker[p]
<1>1. PICK w \in WorkerStates : GoesOn(p, w)
  BY DEF Advances
<1>2. WorkerTypes /\ \A q \in Pids : InvOf(q)
  BY InvByWorker
<1>3. WorkerTypes'
  BY <1>1, <1>2 DEF WorkerTypes, GoesOn, Advances
<1>4. worker'[p] = w /\ stdin'[p] = stdin[p] /\ registry' = registry
  BY <1>1, <1>2 DEF GoesOn, WorkerTypes
<1>5. /\ v.queue \in Seq(Commands) /\ stdin[p] \in Seq(Commands)
      /\ Line(p) \in Seq(Commands) /\ v.gen \in Nat /\ registry \in Nat
  BY <1>2, TypesOf
<1>6. Line(p)' = w.queue \o stdin[p]
  BY <1>4 DEF Line
<1>7. /\ v.gen <= registry /\ Rising(Line(p), v.gen, registry)
  BY <1>2 DEF InvOf
<1>8. w.pc \in {"connect", "build", "ack"} => w.gen <= w.snap
  BY <1>1 DEF GoesOn
<1>9. InvOf(p)' /\ KeepsPending(p)
  <2>1. CASE w.queue = v.queue /\ w.gen = v.gen
    BY <1>4, <1>6, <1>7, <1>8, <2>1 DEF InvOf, KeepsPending, Line
  <2>2. CASE /\ w.queue = v.queue /\ w.gen = 0
             /\ v.pc = "ack" /\ stdout'[p] # stdout[p]
    <3>1. Line(p)' = Line(p)
      BY <1>6, <2>2 DEF Line
    <3>2. \A i \in DOMAIN Line(p) : Line(p)[i].generation \in Nat
      BY <1>5, CommandFields DEF Generations
    <3>3. Rising(Line(p), 0, registry)
      BY <1>5, <1>7, <3>2 DEF Rising
    <3>4. KeepsPending(p)
      BY <2>2 DEF KeepsPending
    <3>5. 0 <= registry
      BY <1>5
    <3> QED
      BY <1>4, <1>8, <2>2, <3>1, <3>3, <3>4, <3>5 DEF InvOf
  <2>3. CASE Takes(v, w)
    <3>1. /\ v.queue # <<>> /\ w.queue = Tail(v.queue)
          /\ w.gen = IF IsRebuild(Head(v.queue)) THEN Head(v.queue).generation ELSE v.gen
      BY <2>3 DEF Takes
    <3>2. /\ Line(p)' = Tail(Line(p)) /\ Head(Line(p)) = Head(v.queue) /\ Line(p) # <<>>
      BY <1>5, <1>6, <3>1, LineTail DEF Line
    <3>3. /\ Rising(Tail(Line(p)), v.gen, registry)
          /\ IsRebuild(Head(Line(p))) =>
               /\ v.gen < Head(Line(p)).generation /\ Head(Line(p)).generation <= registry
               /\ Rising(Tail(Line(p)), Head(Line(p)).generation, registry)
      BY <1>5, <1>7, <3>2, RisingTail
    <3>4. CASE IsRebuild(Head(v.queue))
      <4>1. w.gen = Head(Line(p)).generation
        BY <3>1, <3>2, <3>4
      <4>2. v.gen < w.gen /\ w.gen <= registry /\ Rising(Line(p)', w.gen, registry)
        BY <3>2, <3>3, <3>4, <4>1
      <4>3. w.gen > v.gen
        BY <1>5, <4>2
      <4> QED
        BY <1>4, <1>8, <4>2, <4>3 DEF InvOf, KeepsPending
    <3>5. CASE ~IsRebuild(Head(v.queue))
      <4>1. w.gen = v.gen
        BY <3>1, <3>5
      <4> QED
        BY <1>4, <1>7, <1>8, <3>2, <3>3, <4>1 DEF InvOf, KeepsPending
    <3> QED
      BY <3>4, <3>5
  <2> QED
    BY <1>1, <2>1, <2>2, <2>3 DEF GoesOn
<1>10. \A q \in Pids \ {p} : InvOf(q)' /\ KeepsPending(q)
  <2> TAKE q \in Pids \ {p}
  <2>1. worker'[q] = worker[q] /\ stdin'[q] = stdin[q]
    BY <1>1, <1>2 DEF GoesOn, WorkerTypes
  <2> QED
    BY <1>2, <1>4, <2>1, UntouchedKeeps
<1> QED
  BY <1>3, <1>9, <1>10, InvByWorker DEF WInv, OrderInv, AckIsFresh, InvOf

LEMMA EndKeeps ==
    ASSUME WInv, NEW p \in Pids, Ended(p)
    PROVE  WInv' /\ \A q \in Pids : KeepsPending(q)
<1>1. WorkerTypes /\ \A q \in Pids : InvOf(q)
  BY InvByWorker
<1>2. Gone \in WorkerStates /\ Gone.queue = <<>> /\ Gone.gen = 0 /\ Gone.pc = "exited"
  <2>1. Fresh \in WorkerStates /\ Fresh.queue = <<>> /\ Fresh.gen = 0
    BY ZeroIsGeneration DEF Fresh, WorkerStates, Stages, Results
  <2>2. Gone = [Fresh EXCEPT !.pc = "exited"]
    BY DEF Gone
  <2> QED
    BY <2>1, <2>2 DEF WorkerStates, Stages
<1>3. WorkerTypes'
  BY <1>1, <1>2 DEF WorkerTypes, Ended
<1>4. worker'[p] = Gone /\ stdin'[p] = <<>> /\ procState'[p] = "exited" /\ registry' = registry
  BY <1>1 DEF Ended, WorkerTypes
<1>5. registry \in Nat
  BY <1>1, TypesOf
<1>6. Line(p)' = <<>>
  BY <1>2, <1>4 DEF Line
<1>7. InvOf(p)' /\ KeepsPending(p)
  BY <1>2, <1>4, <1>5, <1>6, RisingEmpty DEF InvOf, KeepsPending
<1>8. \A q \in Pids \ {p} : InvOf(q)' /\ KeepsPending(q)
  <2> TAKE q \in Pids \ {p}
  <2>1. worker'[q] = worker[q] /\ stdin'[q] = stdin[q]
    BY <1>1 DEF Ended, WorkerTypes
  <2> QED
    BY <1>1, <1>4, <2>1, UntouchedKeeps
<1> QED
  BY <1>3, <1>7, <1>8, InvByWorker DEF WInv, OrderInv, AckIsFresh, InvOf

\* The reader thread: a command moves from the pipe to the queue, or the end of
\* the pipe becomes a stop.
LEMMA ReaderKeeps ==
    ASSUME WInv, NEW p \in Pids, Reader(p)
    PROVE  WInv' /\ \A q \in Pids : KeepsPending(q)
<1> DEFINE v == worker[p]
<1>1. WorkerTypes /\ \A q \in Pids : InvOf(q)
  BY InvByWorker
<1>2. /\ v \in WorkerStates /\ v.queue \in Seq(Commands) /\ stdin[p] \in Seq(Commands)
      /\ Line(p) \in Seq(Commands) /\ v.gen \in Nat /\ registry \in Nat
  BY <1>1, TypesOf
<1>3. /\ v.gen <= registry /\ Rising(Line(p), v.gen, registry)
      /\ v.pc \in {"connect", "build", "ack"} => v.gen <= v.snap
  BY <1>1 DEF InvOf
<1>4. CASE ReadCommand(p)
  <2> DEFINE w == [v EXCEPT !.queue = Append(v.queue, Head(stdin[p]))]
  <2>1. stdin[p] # <<>>
    BY <1>4 DEF ReadCommand
  <2>2. Head(stdin[p]) \in Commands /\ Tail(stdin[p]) \in Seq(Commands)
    BY <1>2, <2>1
  <2>3. w \in WorkerStates /\ w.queue = Append(v.queue, Head(stdin[p]))
        /\ w.gen = v.gen /\ w.pc = v.pc /\ w.snap = v.snap
    <3>1. Append(v.queue, Head(stdin[p])) \in Seq(Commands)
      BY <1>2, <2>2
    <3> QED
      BY <1>2, <3>1 DEF WorkerStates
  <2>4. worker' = [worker EXCEPT ![p] = w]
    BY <1>4 DEF ReadCommand
  <2> HIDE DEF w
  <2>5. /\ stdin' = [stdin EXCEPT ![p] = Tail(stdin[p])] /\ registry' = registry
        /\ stdout' = stdout /\ procState' = procState
    BY <1>4 DEF ReadCommand, SameOutside
  <2>6. WorkerTypes'
    BY <1>1, <2>2, <2>3, <2>4, <2>5 DEF WorkerTypes
  <2>7. worker'[p] = w /\ stdin'[p] = Tail(stdin[p])
    BY <1>1, <2>4, <2>5 DEF WorkerTypes
  <2>8. Line(p)' = Line(p)
    BY <1>2, <2>1, <2>3, <2>7, LineShift DEF Line
  <2>9. InvOf(p)' /\ KeepsPending(p)
    BY <1>3, <2>3, <2>5, <2>7, <2>8 DEF InvOf, KeepsPending
  <2>10. \A q \in Pids \ {p} : InvOf(q)' /\ KeepsPending(q)
    <3> TAKE q \in Pids \ {p}
    <3>1. worker'[q] = worker[q] /\ stdin'[q] = stdin[q]
      BY <1>1, <2>4, <2>5 DEF WorkerTypes
    <3> QED
      BY <1>1, <2>5, <3>1, UntouchedKeeps
  <2> QED
    BY <2>6, <2>9, <2>10, InvByWorker DEF WInv, OrderInv, AckIsFresh, InvOf
<1>5. CASE StdinEnds(p)
  <2> DEFINE c == Command("stop", 0)
             w == [v EXCEPT !.eof = TRUE, !.queue = Append(v.queue, c)]
  <2>1. c \in Commands /\ ~IsRebuild(c)
    BY DEF Commands, Command, IsRebuild
  <2> HIDE DEF c
  <2>2. w \in WorkerStates /\ w.queue = Append(v.queue, c)
        /\ w.gen = v.gen /\ w.pc = v.pc /\ w.snap = v.snap
    <3>1. Append(v.queue, c) \in Seq(Commands)
      BY <1>2, <2>1
    <3> QED
      BY <1>2, <3>1 DEF WorkerStates
  <2>3. Continue(p, w) /\ stdin[p] = <<>>
    BY <1>5 DEF StdinEnds, c
  <2> HIDE DEF w
  <2>4. /\ worker' = [worker EXCEPT ![p] = w]
        /\ stdin' = stdin /\ stdout' = stdout /\ registry' = registry
        /\ procState' = procState
    BY <2>3, ContinueGoesOn
  <2>5. WorkerTypes'
    BY <1>1, <2>2, <2>4 DEF WorkerTypes
  <2>6. worker'[p] = w
    BY <1>1, <2>4 DEF WorkerTypes
  <2>7. Line(p) = v.queue /\ Line(p)' = Append(v.queue, c)
    <3>1. Append(v.queue, c) \in Seq(Commands)
      BY <1>2, <2>1
    <3>2. v.queue \o <<>> = v.queue /\ Append(v.queue, c) \o <<>> = Append(v.queue, c)
      BY <1>2, <3>1
    <3>3. stdin'[p] = <<>> /\ worker'[p].queue = Append(v.queue, c)
      BY <2>2, <2>3, <2>4, <2>6
    <3> QED
      BY <2>3, <3>2, <3>3 DEF Line
  <2>8. Rising(Append(v.queue, c), v.gen, registry)
    BY <1>2, <1>3, <2>1, <2>7, RisingAppend
  <2>9. InvOf(p)' /\ KeepsPending(p)
    BY <1>3, <2>2, <2>4, <2>6, <2>7, <2>8 DEF InvOf, KeepsPending
  <2>10. \A q \in Pids \ {p} : InvOf(q)' /\ KeepsPending(q)
    <3> TAKE q \in Pids \ {p}
    <3>1. worker'[q] = worker[q] /\ stdin'[q] = stdin[q]
      BY <1>1, <2>4 DEF WorkerTypes
    <3> QED
      BY <1>1, <2>4, <3>1, UntouchedKeeps
  <2> QED
    BY <2>5, <2>9, <2>10, InvByWorker DEF WInv, OrderInv, AckIsFresh, InvOf
<1> QED
  BY <1>4, <1>5 DEF Reader

\* The web process sends the next generation, or a command without one.
LEMMA ParentSendsKeeps ==
    ASSUME WInv, NEW p \in Pids, ParentSends(p)
    PROVE  WInv' /\ \A q \in Pids : KeepsPending(q)
<1>1. WorkerTypes /\ \A q \in Pids : InvOf(q)
  BY InvByWorker
<1>2. PICK c : /\ WriteCommand(p, c)
               /\ \/ c = Command("rebuild", registry') /\ registry < MaxGeneration
                     /\ registry' = registry + 1
                  \/ c \in {Command("stop", 0), Command("reload_alarm_mappings", 0)}
                     /\ registry' = registry
  BY DEF ParentSends
<1>3. registry \in Nat /\ registry' \in Generations /\ registry' \in Nat /\ registry <= registry'
  BY <1>1, <1>2, PipeConstants DEF PipeConstants, WorkerTypes, Generations
<1>4. c \in Commands /\ (IsRebuild(c) => c.generation = registry' /\ registry < registry')
  <2>1. CASE c = Command("rebuild", registry') /\ registry' = registry + 1
    <3>1. registry' \in Generations \ {0} /\ registry < registry'
      BY <1>3, <2>1
    <3> QED
      BY <2>1, <3>1 DEF Commands, Command, IsRebuild
  <2>2. CASE c \in {Command("stop", 0), Command("reload_alarm_mappings", 0)}
    BY <2>2 DEF Commands, Command, IsRebuild
  <2> QED
    BY <1>2, <2>1, <2>2
<1>5. /\ stdin' = [stdin EXCEPT ![p] = Append(stdin[p], c)]
      /\ worker' = worker /\ stdout' = stdout /\ procState' = procState
  BY <1>2 DEF ParentSends, WriteCommand, ownVars
<1>6. Append(stdin[p], c) \in Seq(Commands)
  BY <1>1, <1>4 DEF WorkerTypes
<1>7. WorkerTypes'
  BY <1>1, <1>3, <1>5, <1>6 DEF WorkerTypes
<1>8. InvOf(p)'
  <2>1. /\ worker[p].queue \in Seq(Commands) /\ stdin[p] \in Seq(Commands)
        /\ Line(p) \in Seq(Commands) /\ worker[p].gen \in Nat
    BY <1>1, TypesOf
  <2>2. stdin'[p] = Append(stdin[p], c)
    BY <1>1, <1>5 DEF WorkerTypes
  <2>3. Line(p)' = Append(Line(p), c)
    <3>1. Line(p)' = worker[p].queue \o Append(stdin[p], c)
      BY <1>5, <2>2 DEF Line
    <3>2. worker[p].queue \o Append(stdin[p], c) = Append(worker[p].queue \o stdin[p], c)
      BY <1>4, <2>1, LineAppend
    <3> QED
      BY <3>1, <3>2 DEF Line
  <2>4. Rising(Append(Line(p), c), worker[p].gen, registry')
    BY <1>1, <1>3, <1>4, <2>1, RisingAppend DEF InvOf
  <2>5. worker[p].gen <= registry'
    BY <1>1, <1>3, <2>1 DEF InvOf
  <2> QED
    BY <1>1, <1>5, <2>3, <2>4, <2>5 DEF InvOf
<1>9. \A q \in Pids \ {p} : InvOf(q)'
  <2> TAKE q \in Pids \ {p}
  <2>1. Line(q)' = Line(q) /\ worker'[q] = worker[q]
    BY <1>1, <1>5 DEF WorkerTypes, Line
  <2>2. Line(q) \in Seq(Commands) /\ worker[q].gen \in Nat
    BY <1>1, TypesOf
  <2>3. \A i \in DOMAIN Line(q) : Line(q)[i].generation \in Nat
    BY <2>2, CommandFields DEF Generations
  <2>4. Rising(Line(q), worker[q].gen, registry')
    BY <1>1, <1>3, <2>3 DEF InvOf, Rising
  <2>5. worker[q].gen <= registry'
    BY <1>1, <1>3, <2>2 DEF InvOf
  <2> QED
    BY <1>1, <2>1, <2>4, <2>5 DEF InvOf
<1>10. \A q \in Pids : KeepsPending(q)
  BY <1>5 DEF KeepsPending
<1> QED
  BY <1>7, <1>8, <1>9, <1>10, InvByWorker DEF WInv, OrderInv, AckIsFresh, InvOf

\* What the web process reads, its death, and the end of all are in no part of
\* the invariant but the types.
LEMMA OutsideKeeps ==
    ASSUME WInv, \/ \E p \in Pids : ParentReads(p)
                 \/ ParentDies
                 \/ UNCHANGED workerVars
    PROVE  WInv' /\ \A q \in Pids : KeepsPending(q)
<1>1. WorkerTypes /\ \A q \in Pids : InvOf(q)
  BY InvByWorker
<1>2. /\ worker' = worker /\ stdin' = stdin /\ registry' = registry /\ procState' = procState
  BY DEF ParentReads, ParentDies, workerVars, ownVars, pipeVars
<1>3. stdout' \in [Pids -> Seq(Reports)]
  <2>1. ASSUME NEW p \in Pids, ParentReads(p) PROVE stdout' \in [Pids -> Seq(Reports)]
    <3>1. stdout[p] # <<>> /\ stdout' = [stdout EXCEPT ![p] = Tail(stdout[p])]
      BY <2>1 DEF ParentReads
    <3>2. Tail(stdout[p]) \in Seq(Reports)
      BY <1>1, <3>1 DEF WorkerTypes
    <3> QED
      BY <1>1, <3>1, <3>2 DEF WorkerTypes
  <2>2. CASE ParentDies
    BY <2>2 DEF ParentDies
  <2>3. CASE UNCHANGED workerVars
    BY <1>1, <2>3 DEF workerVars, pipeVars, WorkerTypes
  <2> QED
    BY <2>1, <2>2, <2>3
<1>4. WorkerTypes'
  BY <1>1, <1>2, <1>3 DEF WorkerTypes
<1>5. \A q \in Pids : InvOf(q)' /\ KeepsPending(q)
  BY <1>1, <1>2, UntouchedKeeps
<1> QED
  BY <1>4, <1>5, InvByWorker DEF WInv, OrderInv, AckIsFresh, InvOf

LEMMA StepHolds ==
    ASSUME WInv, [WorkerNext]_workerVars
    PROVE  WInv' /\ \A q \in Pids : KeepsPending(q)
<1>1. ASSUME NEW p \in Pids, WorkerProcess(p)
      PROVE  WInv' /\ \A q \in Pids : KeepsPending(q)
  <2>1. CASE Progress(p) \/ Suffers(p)
    BY <2>1, MainLoop, AdvanceKeeps, EndKeeps
  <2>2. CASE Reader(p)
    BY <2>2, ReaderKeeps
  <2> QED
    BY <1>1, <2>1, <2>2 DEF WorkerProcess
<1>2. ASSUME NEW p \in Pids, ParentSends(p)
      PROVE  WInv' /\ \A q \in Pids : KeepsPending(q)
  BY <1>2, ParentSendsKeeps
<1>3. CASE (\E p \in Pids : ParentReads(p)) \/ ParentDies \/ UNCHANGED workerVars
  BY <1>3, OutsideKeeps
<1> QED
  BY <1>1, <1>2, <1>3 DEF WorkerNext

THEOREM WorkerInvariant == WorkerSpec => []WInv
<1>1. WInv /\ [WorkerNext]_workerVars => WInv'
  BY StepHolds
<1> QED
  BY <1>1, InitHolds, PTL DEF WorkerSpec

\* For any number of workers, generations and faults: what a worker acknowledges
\* was loaded after it was notified.
THEOREM AcknowledgementIsFresh == WorkerSpec => []AckIsFresh
<1>1. WInv => AckIsFresh
  BY DEF WInv
<1> QED
  BY <1>1, WorkerInvariant, PTL

\* For any number of workers, generations and faults: a generation that a worker
\* took up is pending until it is acknowledged or a later one is taken up.
THEOREM GenerationSurvives == WorkerSpec => PendingGenerationKept
<1> DEFINE Kept == \A p \in Pids :
              worker[p].gen # 0 /\ worker'[p].gen # worker[p].gen /\ procState'[p] = "running"
                => \/ worker'[p].gen > worker[p].gen
                   \/ worker[p].pc = "ack" /\ stdout'[p] # stdout[p]
<1>1. WInv /\ [WorkerNext]_workerVars => [Kept]_workerVars
  BY StepHolds DEF KeepsPending
<1>2. WorkerSpec => [][Kept]_workerVars
  BY <1>1, WorkerInvariant, PTL DEF WorkerSpec
<1> QED
  BY <1>2 DEF PendingGenerationKept
=============================================================================
