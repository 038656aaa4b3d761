----------------------------- MODULE TagRegistry -----------------------------
(***************************************************************************)
(* The tag registry: services/tag_registry.py (the TagMaster transactions),*)
(* services/tag_reconcile.py (a full browse of the OPC server applied to   *)
(* the registry), services/tag_fast_sync.py (one tag, resolved and applied)*)
(* and what of OpcTagManager.py drives them: the startup reconcile before  *)
(* the historian is started, the periodic one after it, and request        *)
(* threads.  Web processes, one per production line, share one TagMaster.  *)
(*                                                                         *)
(* A process with a line name is scoped: its transactions take the line's  *)
(* application lock and read with UPDLOCK, HOLDLOCK, so one transaction is *)
(* one action.  A legacy process, line NoLine, reads the table first and   *)
(* writes from what it has read, under READ COMMITTED and with no unique   *)
(* index on Path: read and write are two actions.  A transaction that      *)
(* fails, or whose process dies, is rolled back and so changes nothing.    *)
(*                                                                         *)
(* A browse-run id only tells the rows a transaction touched from the      *)
(* others and is left out, as are the TagLevel rows, which are a function  *)
(* of the path and rewritten with the row.                                 *)
(***************************************************************************)
EXTENDS Naturals, Sequences, FiniteSets, SequencesExt

CONSTANTS
    Paths,         \* full tag paths
    Attrs,         \* what a tag is registered with: its NodeId and DataType
    Absent,        \* the attribute of a path that is not on the OPC server
    Lines,         \* the web processes, by line name
    NoLine,        \* the line name of a legacy process, and of its rows
    ScopeOf,       \* channel patterns: the paths each line allows
    Syncers,       \* request threads that may run a fast sync
    LegacyRows,    \* ownerless rows a scoped registry may start with
    MaxRows,       \* bound: rows in TagMaster
    MaxChanges,    \* bound: changes of the OPC server
    MaxFaults      \* bound: failed browses and transactions, dying processes

ASSUME RegistryConstants ==
    /\ Absent \notin Attrs
    /\ ScopeOf \in [Lines -> SUBSET Paths]
    /\ \A r \in LegacyRows : r.path \in Paths /\ r.attr \in Attrs
    /\ MaxRows \in Nat /\ MaxChanges \in Nat /\ MaxFaults \in Nat

VARIABLES
    opc,           \* the OPC server: the attributes of its tags
    rows,          \* TagMaster; the index is the TagId
    web,           \* where the life of each web process stands
    reconciler,    \* the reconcile of each web process
    syncer,        \* the fast syncs under way
    owed,          \* the historian of a line owes a load of its tags
    subscribed,    \* the tags it loaded last
    quietly,       \* history: paths sync_existing_tag registered since then
    changes, faults

operations   == <<reconciler, syncer>>
historian    == <<owed, subscribed, quietly>>
registryVars == <<opc, rows, web, operations, historian, changes, faults>>

-----------------------------------------------------------------------------
Scoped(l)  == l # NoLine

\* Mutant of Owns: ownerless rows count as the line's own.
OwnsOwnerless(l, r) == Scoped(l) => r.line \in {l, NoLine}

Owns(l, r) == Scoped(l) => r.line = l          \* WHERE LineName = ?, if scoped
Tag(p, a)  == [path |-> p, attr |-> a]
Row(t, l)  == [path |-> t.path, attr |-> t.attr, active |-> TRUE, line |-> l]

\* Mutant of IdsOf: tags that are not active are not looked up.
IdsOfActive(read, l, p) ==
    {i \in DOMAIN read : Owns(l, read[i]) /\ read[i].path = p /\ read[i].active}

\* The ids of a path among the rows a process has read.
IdsOf(read, l, p) == {i \in DOMAIN read : Owns(l, read[i]) /\ read[i].path = p}

Refreshed(r, tags) ==
    [r EXCEPT !.active = TRUE, !.attr = (CHOOSE t \in tags : t.path = r.path).attr]

\* Mutant of Deactivates: by the rows that were read, not by the run that
\* touched them last.
DeactivatesRead(read, l, i) == Owns(l, rows[i]) /\ i \in DOMAIN read
Deactivates(read, l, i)     == Owns(l, rows[i])

\* TagMaster after the given tags were written by a process of line l that had
\* read `read': known paths are updated and activated in place, unknown ones
\* inserted, and a full apply deactivates every other row of the line.
Written(read, tags, l, full) ==
    LET hits == UNION {IdsOf(read, l, t.path) : t \in tags}
        new  == {t \in tags : IdsOf(read, l, t.path) = {}}
        kept == [i \in DOMAIN rows |->
                   IF i \in hits THEN Refreshed(rows[i], tags)
                   ELSE [rows[i] EXCEPT !.active = @ /\ ~(full /\ Deactivates(read, l, i))]]
    IN  kept \o SetToSeq({Row(t, l) : t \in new})

\* Mutant of CountsChange: reactivated tags are not counted.
CountsChangeOnly(read, tags, l) ==
    \/ \E t \in tags : \A i \in IdsOf(read, l, t.path) : read[i].attr # t.attr
    \/ \E i \in DOMAIN read : /\ Owns(l, read[i]) /\ read[i].active
                              /\ \A t \in tags : t.path # read[i].path

\* The counts of a full apply, taken from what was read: does any of added,
\* changed, reactivated and deactivated differ from 0?
CountsChange(read, tags, l) ==
    \/ \E t \in tags : \A i \in IdsOf(read, l, t.path) :
         ~read[i].active \/ read[i].attr # t.attr
    \/ \E i \in DOMAIN read : /\ Owns(l, read[i]) /\ read[i].active
                              /\ \A t \in tags : t.path # read[i].path

DuplicateIn(read, l) == \E p \in Paths : Cardinality(IdsOf(read, l, p)) > 1
LegacyConflict(l, tags) ==
    \E i \in DOMAIN rows, t \in tags : rows[i].line = NoLine /\ rows[i].path = t.path

ActiveTags(l) == {Tag(rows[i].path, rows[i].attr) :
                    i \in {j \in DOMAIN rows : Owns(l, rows[j]) /\ rows[j].active}}
Present(l)    == {Tag(p, opc[p]) : p \in {q \in ScopeOf[l] : opc[q] # Absent}}

IdleReconciler == [pc |-> "idle", left |-> {}, tags |-> {}, read |-> <<>>, changed |-> FALSE]
IdleSyncer     == [pc |-> "idle", line |-> NoLine, tags |-> {}, read |-> <<>>, notify |-> FALSE]

RegistryInit ==
    /\ opc \in [Paths -> Attrs \cup {Absent}]
    /\ \E old \in SUBSET LegacyRows : rows = SetToSeq({Row(t, NoLine) : t \in old})
    /\ web = [l \in Lines |-> "boot"]
    /\ reconciler = [l \in Lines |-> IdleReconciler]
    /\ syncer = [s \in Syncers |-> IdleSyncer]
    /\ owed = [l \in Lines |-> FALSE]
    /\ subscribed = [l \in Lines |-> {}]
    /\ quietly = [l \in Lines |-> {}]
    /\ changes = MaxChanges
    /\ faults = MaxFaults

Fault == faults > 0 /\ faults' = faults - 1

-----------------------------------------------------------------------------
\* TagReconcileService.reconcile.  Its lock turns a second call away.
Reconciler(l, pc) == reconciler[l].pc = pc
SetReconciler(l, r) == reconciler' = [reconciler EXCEPT ![l] = r]

BeginReconcile(l) ==
    /\ Reconciler(l, "idle") /\ web[l] \in {"boot", "serving"}
    /\ SetReconciler(l, [IdleReconciler EXCEPT !.pc = "browsing", !.left = ScopeOf[l]])
    /\ web' = [web EXCEPT ![l] = IF @ = "boot" THEN "startup" ELSE @]
    /\ UNCHANGED <<opc, rows, syncer, historian, changes, faults>>

\* discover: the browse reaches one path after another.
BrowsePath(l) ==
    /\ Reconciler(l, "browsing")
    /\ \E p \in reconciler[l].left :
         SetReconciler(l, [reconciler[l] EXCEPT
            !.left = @ \ {p},
            !.tags = IF opc[p] = Absent THEN @ ELSE @ \cup {Tag(p, opc[p])}])
    /\ UNCHANGED <<opc, rows, web, syncer, historian, changes, faults>>

\* Mutant of BrowseEnds: an empty browse leaves the reconcile lock held.
BrowseEndsHoldingLock(l) ==
    /\ Reconciler(l, "browsing") /\ reconciler[l].left = {}
    /\ reconciler[l].tags # {}
    /\ SetReconciler(l, [reconciler[l] EXCEPT !.pc = "applying"])
    /\ UNCHANGED <<opc, rows, web, syncer, historian, changes, faults>>

\* validate_snapshot: a browse that found nothing is not applied.
BrowseEnds(l) ==
    /\ Reconciler(l, "browsing") /\ reconciler[l].left = {}
    /\ SetReconciler(l, IF reconciler[l].tags = {} THEN IdleReconciler
                        ELSE [reconciler[l] EXCEPT !.pc = "applying"])
    /\ UNCHANGED <<opc, rows, web, syncer, historian, changes, faults>>

\* The browse, or the transaction, fails: nothing was written.
ReconcileFails(l) ==
    /\ ~Reconciler(l, "idle") /\ ~Reconciler(l, "committed") /\ Fault
    /\ SetReconciler(l, IdleReconciler)
    /\ UNCHANGED <<opc, rows, web, syncer, historian, changes>>

\* apply_snapshot, and _apply_scoped with a run id.
Committed(l, read) ==
    SetReconciler(l, [IdleReconciler EXCEPT
        !.pc = "committed", !.changed = CountsChange(read, reconciler[l].tags, l)])

ApplyScoped(l) ==
    /\ Scoped(l) /\ Reconciler(l, "applying")
    /\ IF LegacyConflict(l, reconciler[l].tags) \/ DuplicateIn(rows, l)
       THEN SetReconciler(l, IdleReconciler) /\ UNCHANGED rows
       ELSE /\ rows' = Written(rows, reconciler[l].tags, l, TRUE)
            /\ Committed(l, rows)
    /\ UNCHANGED <<opc, web, syncer, historian, changes, faults>>

ApplyReads(l) ==
    /\ ~Scoped(l) /\ Reconciler(l, "applying")
    /\ SetReconciler(l, IF DuplicateIn(rows, l) THEN IdleReconciler
                        ELSE [reconciler[l] EXCEPT !.pc = "writing", !.read = rows])
    /\ UNCHANGED <<opc, rows, web, syncer, historian, changes, faults>>

ApplyWrites(l) ==
    /\ Reconciler(l, "writing")
    /\ rows' = Written(reconciler[l].read, reconciler[l].tags, l, TRUE)
    /\ Committed(l, reconciler[l].read)
    /\ UNCHANGED <<opc, web, syncer, historian, changes, faults>>

\* The rebuild is requested after the commit, if the counts say anything has
\* changed, and never by the startup reconcile.
ReconcileNotifies(l) ==
    /\ Reconciler(l, "committed")
    /\ owed' = [owed EXCEPT ![l] = @ \/ (reconciler[l].changed /\ web[l] = "serving")]
    /\ SetReconciler(l, IdleReconciler)
    /\ UNCHANGED <<opc, rows, web, syncer, subscribed, quietly, changes, faults>>

\* app_lifespan: the historian is started after the startup reconcile, if there
\* is one, and loads the tags as soon as it runs.
Serve(l) ==
    /\ web[l] \in {"boot", "startup"} /\ Reconciler(l, "idle")
    /\ web' = [web EXCEPT ![l] = "serving"]
    /\ owed' = [owed EXCEPT ![l] = TRUE]
    /\ UNCHANGED <<opc, rows, operations, subscribed, quietly, changes, faults>>

-----------------------------------------------------------------------------
\* TagFastSyncService: sync notifies, sync_existing_tag does not.
Syncer(s, pc) == syncer[s].pc = pc
SetSyncer(s, r) == syncer' = [syncer EXCEPT ![s] = r]

\* The tag is resolved by exact path; one that is not visible within the
\* attempts, or is outside the scope, ends the request.
RequestSync(s) ==
    /\ Syncer(s, "idle")
    /\ \E l \in Lines, notify \in BOOLEAN :
         /\ web[l] = "serving"
         /\ \E p \in ScopeOf[l] :
              /\ opc[p] # Absent
              /\ SetSyncer(s, [IdleSyncer EXCEPT !.pc = "applying", !.line = l,
                                   !.tags = {Tag(p, opc[p])}, !.notify = notify])
    /\ UNCHANGED <<opc, rows, web, reconciler, historian, changes, faults>>

SyncFails(s) ==
    /\ syncer[s].pc \in {"applying", "writing"} /\ Fault
    /\ SetSyncer(s, IdleSyncer)
    /\ UNCHANGED <<opc, rows, web, reconciler, historian, changes>>

\* Mutant of SyncWritten: the one tag is applied as a full snapshot.
SyncWrittenFully(s, read) == Written(read, syncer[s].tags, syncer[s].line, TRUE)
SyncWritten(s, read)      == Written(read, syncer[s].tags, syncer[s].line, FALSE)

\* sync_tag, and _apply_scoped without a run id.
SyncCommits(s, read) ==
    LET l == syncer[s].line
        tags == syncer[s].tags
        table == SyncWritten(s, read) IN
    /\ rows' = table
    /\ SetSyncer(s, [syncer[s] EXCEPT !.pc = "committed", !.read = <<>>])
    /\ quietly' = [quietly EXCEPT ![l] =
                     IF syncer[s].notify \/ table = rows THEN @
                     ELSE @ \cup {t.path : t \in tags}]

SyncScoped(s) ==
    LET l == syncer[s].line IN
    /\ Syncer(s, "applying") /\ Scoped(l)
    /\ IF LegacyConflict(l, syncer[s].tags) \/ DuplicateIn(rows, l)
       THEN SetSyncer(s, IdleSyncer) /\ UNCHANGED <<rows, quietly>>
       ELSE SyncCommits(s, rows)
    /\ UNCHANGED <<opc, web, reconciler, owed, subscribed, changes, faults>>

\* upsert_tag: SELECT ... WHERE Path = ?, of which the first row is taken.
SyncSelects(s) ==
    LET l == syncer[s].line
        ids == UNION {IdsOf(rows, l, t.path) : t \in syncer[s].tags} IN
    /\ Syncer(s, "applying") /\ ~Scoped(l)
    /\ \E found \in {{i} : i \in ids} \cup (IF ids = {} THEN {{}} ELSE {}) :
         SetSyncer(s, [syncer[s] EXCEPT !.pc = "writing",
                                        !.read = [i \in found |-> rows[i]]])
    /\ UNCHANGED <<opc, rows, web, reconciler, historian, changes, faults>>

SyncWrites(s) ==
    /\ Syncer(s, "writing")
    /\ SyncCommits(s, syncer[s].read)
    /\ UNCHANGED <<opc, web, reconciler, owed, subscribed, changes, faults>>

SyncNotifies(s) ==
    /\ Syncer(s, "committed")
    /\ owed' = [owed EXCEPT ![syncer[s].line] = @ \/ syncer[s].notify]
    /\ SetSyncer(s, IdleSyncer)
    /\ UNCHANGED <<opc, rows, web, reconciler, subscribed, quietly, changes, faults>>

-----------------------------------------------------------------------------
\* The historian of a line loads the active tags: when a load is owed, and at
\* every reconnect (HistorianRuntime is the detail of this action).
HistorianLoads(l) ==
    /\ web[l] = "serving"
    /\ subscribed' = [subscribed EXCEPT ![l] = ActiveTags(l)]
    /\ owed' = [owed EXCEPT ![l] = FALSE]
    /\ quietly' = [quietly EXCEPT ![l] = {}]
    /\ UNCHANGED <<opc, rows, web, operations, changes, faults>>

\* A web process dies and is started again; its open transactions are rolled
\* back and its historian ends with it.
WebRestarts(l) ==
    /\ web[l] # "boot" /\ Fault
    /\ web' = [web EXCEPT ![l] = "boot"]
    /\ reconciler' = [reconciler EXCEPT ![l] = IdleReconciler]
    /\ syncer' = [s \in Syncers |-> IF syncer[s].line = l THEN IdleSyncer ELSE syncer[s]]
    /\ owed' = [owed EXCEPT ![l] = FALSE]
    /\ subscribed' = [subscribed EXCEPT ![l] = {}]
    /\ quietly' = [quietly EXCEPT ![l] = {}]
    /\ UNCHANGED <<opc, rows, changes>>

\* Somebody edits the OPC server.
OpcChanges ==
    /\ changes > 0 /\ changes' = changes - 1
    /\ \E p \in Paths, a \in Attrs \cup {Absent} : opc' = [opc EXCEPT ![p] = a]
    /\ opc' # opc
    /\ UNCHANGED <<rows, web, operations, historian, faults>>

ReconcileStep(l) == \/ BrowsePath(l) \/ BrowseEnds(l) \/ ApplyScoped(l)
                    \/ ApplyReads(l) \/ ApplyWrites(l) \/ ReconcileNotifies(l)
SyncStep(s) == SyncScoped(s) \/ SyncSelects(s) \/ SyncWrites(s) \/ SyncNotifies(s)

\* Bound: the table does not outgrow MaxRows.
RegistryNext ==
    /\ \/ \E l \in Lines : \/ BeginReconcile(l) \/ ReconcileStep(l) \/ ReconcileFails(l)
                           \/ Serve(l) \/ HistorianLoads(l) \/ WebRestarts(l)
       \/ \E s \in Syncers : RequestSync(s) \/ SyncStep(s) \/ SyncFails(s)
       \/ OpcChanges
    /\ Len(rows') <= MaxRows

RegistrySpec == RegistryInit /\ [][RegistryNext]_registryVars

\* The periodic reconcile task starts one reconcile after another, a reconcile
\* and a fast sync make a bounded number of bounded calls each, the application
\* comes up after its startup reconcile, and an owed load is made (this is
\* RebuildConverges of HistorianRuntime).
RegistryFairness ==
    /\ \A l \in Lines : /\ WF_registryVars(BeginReconcile(l))
                        /\ WF_registryVars(ReconcileStep(l))
                        /\ WF_registryVars(Serve(l))
                        /\ WF_registryVars(owed[l] /\ HistorianLoads(l))
    /\ \A s \in Syncers : WF_registryVars(SyncStep(s))

FairRegistrySpec == RegistrySpec /\ RegistryFairness

-----------------------------------------------------------------------------
\* A path names one tag of a line, and never both a tag of a line and an
\* ownerless one, however full applies, fast syncs, dying processes and the
\* other lines interleave: alarm mappings hang on the TagId of a path.
PathIsIdentity ==
    \A i, j \in DOMAIN rows :
        i # j /\ rows[i].path = rows[j].path
          => rows[i].line # rows[j].line /\ NoLine \notin {rows[i].line, rows[j].line}

\* Lines that share TagMaster leave each other alone: a row changes only in a
\* transaction of its own line, and an ownerless row in none of a scoped line.
LinesAreIsolated ==
    [][\A i \in DOMAIN rows : rows'[i] # rows[i] =>
         \/ /\ rows[i].line \in Lines
            /\ Reconciler(rows[i].line, "applying") \/ Reconciler(rows[i].line, "writing")
            /\ Reconciler(rows[i].line, "committed")'
         \/ \E s \in Syncers : /\ syncer[s].line = rows[i].line
                              /\ Syncer(s, "committed")' /\ ~Syncer(s, "committed")]_registryVars

\* A full apply leaves exactly the tags of its browse active, whatever was
\* committed while it browsed and since it read the table.
ApplyIsExact ==
    [][\A l \in Lines : ~Reconciler(l, "committed") /\ Reconciler(l, "committed")'
         => ActiveTags(l)' = reconciler[l].tags]_registryVars

\* A fast sync takes nothing away: every tag it does not name stays as it is.
SyncKeepsTheRest ==
    [][\A s \in Syncers : ~Syncer(s, "committed") /\ Syncer(s, "committed")'
         => LET named == {t.path : t \in syncer[s].tags} IN
            \A l \in Lines : {t \in ActiveTags(l) : t.path \notin named}
                              = {t \in ActiveTags(l)' : t.path \notin named}]_registryVars

\* With no transaction of the line under way and no load owed, the historian
\* subscribes the active tags, but for those that were registered quietly.
Settled(l) ==
    /\ web[l] = "serving" /\ ~owed[l] /\ ~Reconciler(l, "committed")
    /\ \A s \in Syncers : syncer[s].line = l => ~Syncer(s, "committed")
Followed(l) == {t \in ActiveTags(l) : t.path \notin quietly[l]}
                 = {t \in subscribed[l] : t.path \notin quietly[l]}
HistorianFollows == \A l \in Lines : Settled(l) => Followed(l)

\* Once the OPC server and the faults have come to rest, the active tags of
\* every line are those on the server, and the historian has them: unless the
\* server has none, or one of them is owned by nobody.
Reconcilable(l) == Present(l) # {} /\ ~LegacyConflict(l, Present(l))
RegistryConverges ==
    \A l \in Lines : <>[](Reconcilable(l) => ActiveTags(l) = Present(l) /\ Followed(l))
=============================================================================
