--------------------------- MODULE KepwareControl ----------------------------
(***************************************************************************)
(* The reload control in the Kepware project: services/                    *)
(* kepware_system_control.py, which makes and repairs a channel, a device, *)
(* a tag group and a tag of its own when a reload has failed, and the part *)
(* of services/kepware_config_api.py it works through: the cache that      *)
(* browsing shares with it and the creation and update of objects with a   *)
(* check before and a verification after.  The Kepware server is outside:  *)
(* somebody else may change its project, and a request that times out may  *)
(* have been served, or be served later.                                   *)
(*                                                                         *)
(* Objects are numbered by depth.  Write mode, bootstrap, repair and       *)
(* self-heal are enabled; the line scope is off, so that browsers and the  *)
(* control share one client.                                               *)
(***************************************************************************)
EXTENDS Naturals, FiniteSets

CONSTANTS
    Healers,         \* request threads whose reload failed
    Creators,        \* request threads that create the tag by the form
    Nobody,          \* holds no lock
    Projects,        \* what the Kepware project may hold at first
    Browsed,         \* bound: the levels whose collections browsers look at
    MaxMishaps,      \* bound: changes made by somebody else, and requests that
                     \* fail or time out
    MaxHeals         \* bound: heals and creations begun

Channel  == 1
Device   == 2
Group    == 3
TagLevel == 4
Levels  == Channel..TagLevel
Threads == Healers \cup Creators

\* What may be found under the name of a level.  A channel or a device is somebody
\* else's when its driver, model or id are not those of the contract, the tag
\* differs in its properties, and of a group nobody asks more than the name.
Kinds(n) == {"absent", "ours"} \cup (IF n \in {Channel, Device} THEN {"foreign"} ELSE {})
              \cup (IF n = TagLevel THEN {"drift"} ELSE {})

ASSUME KepwareConstants ==
    /\ MaxMishaps \in Nat /\ MaxHeals \in Nat
    /\ Nobody \notin Healers \cup Creators /\ Browsed \subseteq 1..4
    /\ Healers \cap Creators = {}
    /\ Projects \subseteq [Levels -> {"absent", "ours", "foreign", "drift"}]
    /\ \A p \in Projects, n \in Levels :
         p[n] \in Kinds(n) /\ (p[n] # "absent" => \A m \in Levels : m < n => p[m] # "absent")

VARIABLES
    project,         \* the objects of the hierarchy in Kepware
    revision,        \* PROJECT_ID of the tag
    late,            \* objects whose creation timed out and may still happen
    cache,           \* does the cached collection of a level list our object?
    fetch,           \* the GET a browser waits for, holding _cache_lock
    writeLock,       \* KepwareConfigApi._write_lock
    operationLock,   \* KepwareSystemControl._operation_lock
    op,              \* what each thread is doing
    outcome,         \* what its last operation answered
    reported,        \* history: objects an undisturbed creation has been answered for
    disturbed,       \* history: threads whose operation met a failing request
                     \* or somebody else's change
    overtaken,       \* history: healers whose latest inspection began before the
                     \* latest change of somebody else
    edits, timeouts, heals

server      == <<project, revision, late>>
client      == <<cache, fetch>>
luck        == <<timeouts, disturbed>>
others      == <<edits, overtaken>>
kepwareVars == <<server, client, writeLock, operationLock, op, outcome, reported, others, heals, luck>>

-----------------------------------------------------------------------------
IdleOp   == [phase |-> "none", at |-> "idle", level |-> 1, seen |-> 0]
NoFetch  == [level |-> 0, lists |-> FALSE]
NoAnswer == [phase |-> "none", state |-> "none"]
Missing  == {"missing_channel", "missing_device", "missing_tag"}
Settled  == {"ready", "tag_unverified"}    \* every object is in place

\* The state inspect reports for the level it stops at.
MissingState(n) == CASE n = Channel -> "missing_channel" [] n = Device -> "missing_device"
                     [] OTHER -> "missing_tag"

Parents(n)      == {m \in Levels : m < n}
Reachable(n)    == \A m \in Parents(n) : project[m] # "absent"
Listed(n)       == project[n] # "absent"

\* Mutant of Conflicts: the identity of the device is not compared.
ConflictsOfChannel(n) == n = Channel /\ project[n] = "foreign"

\* The channel or the device of that name is not the one of the contract.
Conflicts(n)    == project[n] = "foreign"

KepwareTypeOK ==
    /\ project \in [Levels -> {"absent", "ours", "foreign", "drift"}]
    /\ \A n \in Levels : project[n] \in Kinds(n)
    /\ revision \in 0..(MaxMishaps + MaxHeals) /\ late \subseteq Levels
    /\ cache \in [Levels -> {"none", "lists", "lacks"}]
    /\ fetch \in [level : 0..4, lists : BOOLEAN]
    /\ writeLock \in Threads \cup {Nobody} /\ operationLock \in Healers \cup {Nobody}
    /\ \A t \in Threads :
         /\ op[t].level \in Levels
         /\ (op[t].at \in {"post", "invalidate", "verify", "put", "verify update"}) = (writeLock = t)
    /\ reported \subseteq Levels

KepwareInit ==
    /\ project \in Projects
    /\ revision = 0 /\ late = {}
    /\ cache = [n \in Levels |-> "none"]
    /\ fetch = NoFetch
    /\ writeLock = Nobody /\ operationLock = Nobody
    /\ op = [t \in Threads |-> IdleOp]
    /\ outcome = [t \in Threads |-> NoAnswer]
    /\ reported = {} /\ disturbed = {} /\ overtaken = {}
    /\ edits = 0 /\ timeouts = 0 /\ heals = 0

-----------------------------------------------------------------------------
(* The Kepware server and whoever else works on its project.               *)

Mishap == edits + timeouts < MaxMishaps

\* A bootstrap under way is no longer alone with the project.
Disturb == disturbed' = Threads

\* Somebody creates, alters, replaces or deletes an object; what is below it
\* stays when the object itself does.
SomebodyEdits ==
    /\ Mishap /\ edits' = edits + 1
    /\ \E n \in Levels : \E kind \in Kinds(n), kept \in BOOLEAN :
         /\ Reachable(n)
         /\ kind = "absent" => Listed(n) /\ ~kept
         /\ project' = [m \in Levels |-> CASE m < n -> project[m]
                                           [] m = n -> kind
                                           [] OTHER -> IF kept THEN project[m] ELSE "absent"]
         /\ reported' = IF kept THEN reported ELSE {m \in reported : m < n}
         /\ revision' = IF n = TagLevel THEN revision + 1 ELSE revision
    /\ Disturb /\ overtaken' = Healers
    /\ UNCHANGED <<late, client, writeLock, operationLock, op, outcome, timeouts, heals>>

\* A creation that timed out is served after all.
LateCreation(n) ==
    /\ n \in late /\ late' = late \ {n}
    /\ project' = IF Reachable(n) /\ ~Listed(n) THEN [project EXCEPT ![n] = "ours"] ELSE project
    /\ Disturb
    /\ UNCHANGED <<revision, client, writeLock, operationLock, op, outcome, reported, others, timeouts, heals>>

-----------------------------------------------------------------------------
(* The client's cache.                                                     *)

\* What a GET of the collection of a level finds.
Cached(n) == IF Listed(n) THEN "lists" ELSE "lacks"

\* A browser misses the cache and asks Kepware, holding the lock of the cache;
\* a collection below a missing parent is an error, or empty for tags.
BrowserAsks(n) ==
    /\ n \in Browsed /\ fetch = NoFetch /\ cache[n] = "none"
    /\ Reachable(n) \/ n \in {Group, TagLevel}
    /\ fetch' = [level |-> n, lists |-> Listed(n)]
    /\ UNCHANGED <<server, cache, writeLock, operationLock, op, outcome, reported, others, heals, luck>>

BrowserStores ==
    /\ fetch # NoFetch
    /\ cache' = [cache EXCEPT ![fetch.level] = IF fetch.lists THEN "lists" ELSE "lacks"]
    /\ fetch' = NoFetch
    /\ UNCHANGED <<server, writeLock, operationLock, op, outcome, reported, others, heals, luck>>

\* The time to live of an entry passes, or a user asks for a refresh.
CacheExpires ==
    /\ fetch = NoFetch
    /\ \E ns \in SUBSET {n \in Levels : cache[n] # "none"} :
         ns # {} /\ cache' = [n \in Levels |-> IF n \in ns THEN "none" ELSE cache[n]]
    /\ UNCHANGED <<server, fetch, writeLock, operationLock, op, outcome, reported, others, heals, luck>>

-----------------------------------------------------------------------------
(* Steps of an operation.                                                  *)

GoTo(t, phase, at, n) ==
    op' = [op EXCEPT ![t].phase = phase, ![t].at = at, ![t].level = n]

Answer(t, state) ==
    /\ op' = [op EXCEPT ![t] = IdleOp]
    /\ outcome' = [outcome EXCEPT ![t] = [phase |-> op[t].phase, state |-> state]]
    /\ operationLock' = IF operationLock = t THEN Nobody ELSE operationLock

\* What an inspection is followed by, in ensure_for_reload_failure, bootstrap
\* and repair.
AfterInspect(t, state) ==
    LET phase == op[t].phase
        next(p, at, n) == op' = [op EXCEPT ![t].phase = p, ![t].at = at, ![t].level = n]
    IN  \/ /\ \/ /\ phase = "heal" /\ state \in Missing /\ next("first", "enter", 1)
              \/ /\ phase = "heal" /\ state = "drift_detected" /\ next("repair", "inspect", 1)
              \/ /\ phase = "repair" /\ state = "drift_detected" /\ next("repair", "read", TagLevel)
              \/ /\ phase = "first" /\ state = "missing_channel" /\ next("first", "check", Channel)
              \/ /\ phase = "first" /\ state \notin {"missing_channel", "ownership_conflict"}
                 /\ next("second", "inspect", 1)
              \/ /\ phase = "second" /\ state = "missing_device" /\ next("second", "check", Device)
              \/ /\ phase = "second" /\ state # "missing_device" /\ next("groups", "group", Group)
              \/ /\ phase = "third" /\ state = "missing_tag" /\ next("third", "check", TagLevel)
              \/ /\ phase = "third" /\ state # "missing_tag" /\ next("last", "inspect", 1)
           /\ UNCHANGED <<outcome, operationLock>>
        \/ /\ \/ phase = "heal" /\ state \notin Missing \cup {"drift_detected"}
              \/ phase = "repair" /\ state # "drift_detected"
              \/ phase = "first" /\ state = "ownership_conflict"
              \/ phase \in {"last", "repaired", "conflict"}
           /\ Answer(t, IF phase = "conflict" THEN "concurrency_conflict" ELSE state)

\* After a creation the operation goes on with its next phase.
AfterCreate(t) ==
    LET next(p) == GoTo(t, p, IF p = "groups" THEN "group" ELSE "inspect", 1)
    IN  CASE op[t].phase = "first"  -> next("second") /\ UNCHANGED <<outcome, operationLock>>
          [] op[t].phase = "second" -> next("groups") /\ UNCHANGED <<outcome, operationLock>>
          [] op[t].phase = "groups" -> next("third")  /\ UNCHANGED <<outcome, operationLock>>
          [] op[t].phase = "third"  -> next("last")   /\ UNCHANGED <<outcome, operationLock>>
          [] OTHER                  -> Answer(t, "created")

Begins == heals < MaxHeals /\ heals' = heals + 1

\* A GET of an operation never reads the cache, but stores what it got.
Gets(t, at) == op[t].at = at /\ fetch = NoFetch
Stores(n)   == cache' = [cache EXCEPT ![n] = Cached(n)]
TimesOut(t) == /\ Mishap /\ timeouts' = timeouts + 1
               /\ disturbed' = disturbed \cup {t}

\* ensure_for_reload_failure
HealBegins(t) ==
    /\ op[t].at = "idle" /\ Begins
    /\ op' = [op EXCEPT ![t] = [IdleOp EXCEPT !.phase = "heal", !.at = "inspect"]]
    /\ outcome' = [outcome EXCEPT ![t] = NoAnswer]
    /\ disturbed' = disturbed \ {t}
    /\ UNCHANGED <<server, client, writeLock, operationLock, reported, others, timeouts>>

CreatorBegins(t) ==
    /\ op[t].at = "idle" /\ Begins
    /\ op' = [op EXCEPT ![t] = [IdleOp EXCEPT !.phase = "form", !.at = "check", !.level = TagLevel]]
    /\ outcome' = [outcome EXCEPT ![t] = NoAnswer]
    /\ disturbed' = disturbed \ {t}
    /\ UNCHANGED <<server, client, writeLock, operationLock, reported, others, timeouts>>

BootstrapEnters(t) ==
    /\ op[t].at = "enter" /\ operationLock = Nobody
    /\ operationLock' = t
    /\ GoTo(t, "first", "inspect", 1)
    /\ UNCHANGED <<server, client, writeLock, outcome, reported, others, heals, luck>>

\* inspect, one object after another.  It stops at the first that is missing or
\* somebody else's; a collection below a missing parent, as any failing request,
\* ends it as not verified.  What OPC says of a tag in place decides whether it is
\* ready: its server may be out of reach, resolve another NodeId or offer a type
\* that the reload cannot use ("tag_unverified", a verification_failed with the
\* state of the tag ready).
Inspect(t) ==
    /\ Gets(t, "inspect")
    /\ LET n == op[t].level IN
       \/ /\ ~Listed(n) /\ (Reachable(n) \/ n = TagLevel)
          /\ AfterInspect(t, MissingState(n))
          /\ IF n = TagLevel THEN UNCHANGED cache ELSE Stores(n)
          /\ UNCHANGED luck
       \/ /\ ~Reachable(n) /\ n # TagLevel
          /\ AfterInspect(t, "verification_failed")
          /\ UNCHANGED <<cache, luck>>
       \/ /\ Listed(n) /\ Conflicts(n)
          /\ AfterInspect(t, "ownership_conflict")
          /\ Stores(n) /\ UNCHANGED luck
       \/ /\ Listed(n) /\ ~Conflicts(n) /\ n # TagLevel
          /\ GoTo(t, op[t].phase, "inspect", n + 1)
          /\ Stores(n) /\ UNCHANGED <<outcome, operationLock, luck>>
       \/ /\ n = TagLevel /\ project[n] = "drift"
          /\ AfterInspect(t, "drift_detected")
          /\ UNCHANGED <<cache, luck>>
       \/ /\ n = TagLevel /\ project[n] = "ours"
          /\ AfterInspect(t, "ready") \/ AfterInspect(t, "tag_unverified")
          /\ UNCHANGED <<cache, luck>>
       \/ /\ TimesOut(t)
          /\ AfterInspect(t, "verification_failed")
          /\ UNCHANGED cache
    /\ overtaken' = IF op[t].level = Channel THEN overtaken \ {t} ELSE overtaken
    /\ UNCHANGED <<server, fetch, writeLock, reported, edits, heals>>

\* An exception leaves the operation, and the locks it holds.
Raises(t) ==
    /\ Answer(t, "raised")
    /\ writeLock' = IF writeLock = t THEN Nobody ELSE writeLock

\* Mutant of CheckGroup: it is created without looking.
CheckGroupNever(t) ==
    /\ Gets(t, "group")
    /\ GoTo(t, "groups", "check", Group)
    /\ UNCHANGED <<server, client, writeLock, operationLock, outcome, reported, others, heals, luck>>

\* The group of the tag: created when it is not there.
CheckGroup(t) ==
    /\ Gets(t, "group")
    /\ \/ /\ Reachable(Group)
          /\ IF Listed(Group) THEN GoTo(t, "third", "inspect", 1) ELSE GoTo(t, "groups", "check", Group)
          /\ Stores(Group)
          /\ UNCHANGED <<writeLock, operationLock, outcome, luck>>
       \/ /\ ~Reachable(Group) /\ Raises(t) /\ UNCHANGED <<cache, luck>>
       \/ /\ TimesOut(t) /\ Raises(t) /\ UNCHANGED cache
    /\ UNCHANGED <<server, fetch, reported, others, heals>>

\* _create_verified, create_tag: under the lock of the client, refuse what
\* exists already or has no parent,
CheckAbsent(t) ==
    /\ Gets(t, "check") /\ writeLock = Nobody
    /\ LET n == op[t].level IN
       \/ /\ Reachable(n) /\ ~Listed(n)
          /\ writeLock' = t
          /\ GoTo(t, op[t].phase, "post", n)
          /\ Stores(n) /\ UNCHANGED <<outcome, operationLock, luck>>
       \/ /\ Listed(n) /\ Raises(t) /\ Stores(n) /\ UNCHANGED luck
       \/ /\ ~Reachable(n) /\ Raises(t) /\ UNCHANGED <<cache, luck>>
       \/ /\ TimesOut(t) /\ Raises(t) /\ UNCHANGED cache
    /\ UNCHANGED <<server, fetch, reported, others, heals>>

\* ... ask Kepware to create it, which may refuse, or not answer in time (a tag
\* created by the form disturbs a bootstrap),
Post(t) ==
    /\ op[t].at = "post"
    /\ LET n == op[t].level
           made == [project EXCEPT ![n] = "ours"] IN
       \/ /\ Reachable(n) /\ ~Listed(n) /\ project' = made
          /\ GoTo(t, op[t].phase, "invalidate", n)
          /\ disturbed' = IF t \in Creators THEN disturbed \cup (Threads \ {t}) ELSE disturbed
          /\ UNCHANGED <<late, writeLock, operationLock, outcome, timeouts>>
       \/ /\ Listed(n) \/ ~Reachable(n)
          /\ Raises(t)
          /\ UNCHANGED <<project, late, luck>>
       \/ /\ Mishap /\ timeouts' = timeouts + 1
          /\ disturbed' = disturbed \cup (IF t \in Creators THEN Threads ELSE {t})
          /\ Raises(t)
          /\ \/ Reachable(n) /\ ~Listed(n) /\ project' = made /\ UNCHANGED late
             \/ late' = late \cup {n} /\ UNCHANGED project
             \/ UNCHANGED <<project, late>>
    /\ UNCHANGED <<revision, client, reported, others, heals>>

\* Mutant of Invalidate: the cached collection stays.
InvalidateNothing(t) ==
    /\ Gets(t, "invalidate")
    /\ GoTo(t, op[t].phase, "verify", op[t].level)
    /\ UNCHANGED <<server, client, writeLock, operationLock, outcome, reported, others, heals, luck>>

\* ... forget the cached collection, once no browser is fetching,
Invalidate(t) ==
    /\ Gets(t, "invalidate")
    /\ cache' = [cache EXCEPT ![op[t].level] = "none"]
    /\ GoTo(t, op[t].phase, "verify", op[t].level)
    /\ UNCHANGED <<server, fetch, writeLock, operationLock, outcome, reported, others, heals, luck>>

\* ... and read the object back.  The verification of a tag reads the tag and not
\* the collection, and properties that differ are answered, not raised.
Verify(t) ==
    /\ Gets(t, "verify")
    /\ LET n == op[t].level
           found == project[n] = "ours" \/ (n = TagLevel /\ Listed(n)) IN
       \/ /\ found
          /\ reported' = IF t \in disturbed THEN reported ELSE reported \cup {n}
          /\ writeLock' = Nobody
          /\ AfterCreate(t)
          /\ IF n = TagLevel THEN UNCHANGED cache ELSE Stores(n)
          /\ UNCHANGED luck
       \/ /\ ~found /\ Raises(t)
          /\ UNCHANGED <<cache, reported, luck>>
       \/ /\ TimesOut(t) /\ Raises(t) /\ UNCHANGED <<cache, reported>>
    /\ UNCHANGED <<server, fetch, others, heals>>

-----------------------------------------------------------------------------
(* update_tag, for a repair.                                               *)

\* A fresh PROJECT_ID is read under the lock; a tag Kepware does not let be
\* changed is not repaired.  (What a repair reads before may also fail, by an
\* exception: an error either way.)
ReadRevision(t) ==
    /\ Gets(t, "read") /\ writeLock = Nobody
    /\ \/ /\ Listed(TagLevel)
          /\ writeLock' = t
          /\ op' = [op EXCEPT ![t].at = "put", ![t].seen = revision]
          /\ UNCHANGED <<operationLock, outcome, luck>>
       \/ /\ ~Listed(TagLevel) /\ Answer(t, "verification_failed")
          /\ UNCHANGED <<writeLock, luck>>
       \/ /\ Answer(t, "repair_not_allowed") /\ UNCHANGED <<writeLock, luck>>
       \/ /\ TimesOut(t) /\ Answer(t, "verification_failed") /\ UNCHANGED writeLock
    /\ UNCHANGED <<server, client, reported, others, heals>>

\* Kepware applies it to the revision it names only; a conflict is inspected
\* and reported, never retried.
Put(t) ==
    /\ op[t].at = "put"
    /\ LET applied == /\ Listed(TagLevel) /\ op[t].seen = revision
                      /\ project' = [project EXCEPT ![TagLevel] = "ours"]
                      /\ revision' = revision + 1
       IN
       \/ /\ applied
          /\ GoTo(t, op[t].phase, "verify update", TagLevel)
          /\ UNCHANGED <<writeLock, operationLock, outcome, luck>>
       \/ /\ Listed(TagLevel) /\ op[t].seen # revision
          /\ writeLock' = Nobody
          /\ GoTo(t, "conflict", "inspect", 1)
          /\ UNCHANGED <<project, revision, operationLock, outcome, luck>>
       \/ /\ ~Listed(TagLevel)
          /\ writeLock' = Nobody
          /\ Answer(t, "verification_failed")
          /\ UNCHANGED <<project, revision, luck>>
       \/ /\ TimesOut(t) /\ (applied \/ UNCHANGED <<project, revision>>)
          /\ writeLock' = Nobody
          /\ Answer(t, "verification_failed")
    /\ UNCHANGED <<late, client, reported, others, heals>>

VerifyUpdate(t) ==
    /\ Gets(t, "verify update")
    /\ writeLock' = Nobody
    /\ \/ /\ project[TagLevel] = "ours" /\ GoTo(t, "repaired", "inspect", 1)
          /\ UNCHANGED <<operationLock, outcome, luck>>
       \/ /\ project[TagLevel] # "ours" /\ Answer(t, "verification_failed")
          /\ UNCHANGED luck
       \/ TimesOut(t) /\ Answer(t, "verification_failed")
    /\ UNCHANGED <<server, client, reported, others, heals>>

KepwareNext ==
    \/ SomebodyEdits
    \/ \E n \in Levels : LateCreation(n) \/ BrowserAsks(n)
    \/ BrowserStores
    \/ CacheExpires
    \/ \E t \in Healers : HealBegins(t)
    \/ \E t \in Creators : CreatorBegins(t)
    \/ \E t \in Threads :
         \/ BootstrapEnters(t) \/ Inspect(t) \/ CheckGroup(t)
         \/ CheckAbsent(t) \/ Post(t) \/ Invalidate(t) \/ Verify(t)
         \/ ReadRevision(t) \/ Put(t) \/ VerifyUpdate(t)

KepwareSpec == KepwareInit /\ [][KepwareNext]_kepwareVars

-----------------------------------------------------------------------------
\* Once a creation was answered, browsing shows the object: no collection that
\* was fetched before the creation is in the cache after it, although browsers
\* fetch while it is made.  (kepware_config_api.py:107-171, :444-459, :670-671)
CreatedIsShown == \A n \in reported : cache[n] # "lacks"

\* Whatever an earlier bootstrap that stopped half way has left, one that is
\* disturbed by nothing leaves every object in place and the control's own: it
\* answers ready, or that OPC does not confirm the tag (verification_failed with
\* the state of the tag ready), and raises nothing.  (kepware_system_control.py:134-160)
BootstrapCompletes ==
    \A t \in Healers :
      LET a == outcome[t] IN
      t \notin disturbed /\ a.phase \in {"first", "second", "groups", "third", "last"} =>
        a.state \in Settled

\* A creation or a repair of the control takes effect only below a channel and a
\* device of its own, unless somebody has changed the project since the inspection
\* it acts on began: nothing but the existence of the parents is looked at between
\* that inspection and the request.  The group is made without an inspection that
\* says so, and only an operation which nothing has disturbed is sure of its parents.
\* (kepware_system_control.py:79-97, :138-159, kepware_config_api.py:643-658)
OwnershipIsRespected ==
    [][\A t \in Healers :
         LET n == op[t].level IN
         op[t].at \in {"post", "put"} /\ op'[t] # op[t] /\ project'[n] # project[n] =>
           \/ \A m \in {Channel, Device} \cap Parents(n) : project[m] = "ours"
           \/ IF n = Group THEN t \in disturbed ELSE t \in overtaken]_kepwareVars
=============================================================================
