------------------------- MODULE AlarmActivityProofs -------------------------
(***************************************************************************)
(* Proofs about AlarmMappings and AlarmActivity, for any number of tags,   *)
(* request threads, requests and failures.                                 *)
(*                                                                         *)
(* AInv is the inductive invariant of the worker's side: an engine that is *)
(* right about every tag with nothing left to deliver (EngineInv), a pipe  *)
(* that leads the view to what the engine believes, or after an error to a *)
(* part of it that is still true (PipeInv), and a command or a request     *)
(* behind every change not loaded yet (ToldInv).                           *)
(* PlayerInv is the invariant of the alarm player's side.                  *)
(***************************************************************************)
EXTENDS AlarmActivity, FiniteSetTheorems, TLAPS

-----------------------------------------------------------------------------
Nodes   == 0..ReloadModulus - 1
Loads   == {m \in UNION {[D -> Mapping] : D \in SUBSET Nat} : IsFiniteSet(DOMAIN m)}
Events  == [state : {"ready", "error", "ACTIVE", "NORMAL", "CLEARED"}, id : Nat, count : Nat]
Views   == [state : {"unknown", "ready", "error"}, active : SUBSET Nat, count : Nat]
Engines == [loaded : Loads, awaiting : SUBSET Nat, active : SUBSET Nat]

Requests ==
    [pc : {"idle", "announcing", "notifying"}]
      \cup [pc : {"creating"}, mapping : Mapping]
      \cup [pc : {"updating"}, id : Nat, config : Configs]
      \cup [pc : {"deleting", "saved"}, id : Nat]
      \cup [pc : {"writing"}, read : Nodes]

MappingTypes ==
    /\ alarms \in Loads /\ DOMAIN alarms \subseteq 1..lastId
    /\ lastId \in Nat
    /\ request \in [Threads -> Requests]
    /\ node \in Nodes
    /\ player \in [seen : Nodes, loaded : Loads]
    /\ unannounced \in BOOLEAN /\ setBack \in BOOLEAN
    /\ requests \in Nat /\ faults \in Nat

ActivityTypes ==
    /\ value \in [Tags -> 0..1]
    /\ due \subseteq Tags
    /\ worker \in {"subscribed", "between", "ended", "exited"}
    /\ commands \in Nat
    /\ diagnostics \in Engines /\ diagnostics.active \subseteq DOMAIN diagnostics.loaded
    /\ events \in Seq(Events)
    /\ view \in Views
    /\ loadFailed \in BOOLEAN /\ viewLost \in BOOLEAN /\ untold \in BOOLEAN

-----------------------------------------------------------------------------
LEMMA LoadIs ==
    ASSUME NEW m
    PROVE  m \in Loads <=> /\ m \in [DOMAIN m -> Mapping]
                           /\ DOMAIN m \subseteq Nat
                           /\ IsFiniteSet(DOMAIN m)
BY DEF Loads

LEMMA NoMappingsLoad == NoMappings \in Loads /\ DOMAIN NoMappings = {}
<1>1. DOMAIN NoMappings = {} /\ NoMappings \in [{} -> Mapping]
  BY DEF NoMappings
<1>2. QED
  BY <1>1, LoadIs, FS_EmptySet

LEMMA NextValue ==
    ASSUME NEW v \in Nodes
    PROVE  /\ Incremented(v) \in Nodes
           /\ Incremented(v) = IF v + 1 = ReloadModulus THEN 0 ELSE v + 1
<1>1. ReloadModulus \in Nat \ {0} /\ v \in Nat /\ v < ReloadModulus
  BY AlarmConstants DEF Nodes
<1>2. (v + 1) % ReloadModulus = IF v + 1 = ReloadModulus THEN 0 ELSE v + 1
  BY <1>1
<1>3. QED
  BY <1>1, <1>2 DEF Nodes, Incremented

LEMMA MappingsInitTyped == MappingsInit => MappingTypes
<1>1. SUFFICES ASSUME MappingsInit PROVE MappingTypes
  OBVIOUS
<1>2. node \in Nodes /\ player \in [seen : Nodes, loaded : Loads]
  BY <1>1, NoMappingsLoad, AlarmConstants DEF MappingsInit, Nodes
<1>3. request \in [Threads -> Requests]
  BY <1>1 DEF MappingsInit, IdleRequest, Requests
<1>4. QED
  BY <1>1, <1>2, <1>3, NoMappingsLoad DEF MappingsInit, MappingTypes

LEMMA RequestTyped ==
    ASSUME NEW t \in Threads, MappingTypes
    PROVE  /\ request[t] \in Requests
           /\ At(t, "creating") => request[t].mapping \in Mapping
           /\ At(t, "updating") => request[t].id \in Nat /\ request[t].config \in Configs
           /\ request[t].pc \in {"deleting", "saved"} => request[t].id \in Nat
           /\ At(t, "writing") => request[t].read \in Nodes
BY DEF MappingTypes, Requests, At

LEMMA InsertedTyped ==
    ASSUME NEW t \in Threads, MappingTypes, Inserted(t)
    PROVE  MappingTypes'
<1>1. request[t].mapping \in Mapping /\ lastId + 1 \in Nat
  BY RequestTyped DEF Inserted, MappingTypes
<1>2. alarms \in [DOMAIN alarms -> Mapping] /\ DOMAIN alarms \subseteq 1..lastId
        /\ IsFiniteSet(DOMAIN alarms)
  BY LoadIs DEF MappingTypes
<1>3. DOMAIN alarms' = DOMAIN alarms \cup {lastId + 1}
        /\ alarms' \in [DOMAIN alarms' -> Mapping]
  BY <1>1, <1>2 DEF Inserted
<1>4. IsFiniteSet(DOMAIN alarms')
  BY <1>2, <1>3, FS_AddElement
<1>5. DOMAIN alarms' \subseteq 1..lastId' /\ DOMAIN alarms' \subseteq Nat
  BY <1>1, <1>2, <1>3 DEF Inserted, MappingTypes
<1>6. alarms' \in Loads
  BY <1>3, <1>4, <1>5, LoadIs
<1>7. request' \in [Threads -> Requests]
  BY <1>1 DEF Inserted, MappingTypes, Becomes, Requests
<1>8. QED
  BY <1>1, <1>5, <1>6, <1>7 DEF Inserted, MappingTypes

LEMMA UpdatedTyped ==
    ASSUME NEW t \in Threads, MappingTypes, Updated(t)
    PROVE  MappingTypes'
<1>1. request[t].id \in Nat /\ request[t].config \in Configs
  BY RequestTyped DEF Updated
<1>2. alarms \in [DOMAIN alarms -> Mapping] /\ DOMAIN alarms \subseteq Nat
        /\ IsFiniteSet(DOMAIN alarms)
  BY LoadIs DEF MappingTypes
<1>3. DOMAIN alarms' = DOMAIN alarms /\ alarms' \in [DOMAIN alarms' -> Mapping]
  BY <1>1, <1>2 DEF Updated, Mapping
<1>4. alarms' \in Loads
  BY <1>2, <1>3, LoadIs
<1>5. request' \in [Threads -> Requests]
  BY <1>1 DEF Updated, MappingTypes, Becomes, Requests
<1>6. QED
  BY <1>3, <1>4, <1>5 DEF Updated, MappingTypes

LEMMA DeletedTyped ==
    ASSUME NEW t \in Threads, MappingTypes, Deleted(t)
    PROVE  MappingTypes'
<1>1. alarms \in [DOMAIN alarms -> Mapping] /\ DOMAIN alarms \subseteq Nat
        /\ IsFiniteSet(DOMAIN alarms)
  BY LoadIs DEF MappingTypes
<1>2. DOMAIN alarms' = DOMAIN alarms \ {request[t].id} /\ alarms' \in [DOMAIN alarms' -> Mapping]
  BY <1>1 DEF Deleted, Restrict
<1>3. alarms' \in Loads
  BY <1>1, <1>2, LoadIs, FS_Subset
<1>4. request' \in [Threads -> Requests]
  BY DEF Deleted, MappingTypes, Becomes, Requests
<1>5. QED
  BY <1>2, <1>3, <1>4 DEF Deleted, MappingTypes

LEMMA WritesTyped ==
    ASSUME NEW t \in Threads, MappingTypes, ReadNode(t) \/ WriteNode(t)
    PROVE  MappingTypes'
<1>1. CASE ReadNode(t)
  BY <1>1 DEF ReadNode, MappingTypes, Becomes, Requests
<1>2. CASE WriteNode(t)
  <2>1. node' \in Nodes
    BY <1>2, RequestTyped, NextValue DEF WriteNode
  <2>2. request' \in [Threads -> Requests]
    BY <1>2 DEF WriteNode, MappingTypes, Becomes, Requests
  <2>3. setBack' \in BOOLEAN
    BY <1>2 DEF WriteNode, MappingTypes
  <2>4. QED
    BY <1>2, <2>1, <2>2, <2>3 DEF WriteNode, MappingTypes
<1>3. QED
  BY <1>1, <1>2

LEMMA BeginsTyped ==
    ASSUME NEW t \in Threads, MappingTypes, BeginCreate(t) \/ BeginUpdate(t) \/ BeginDelete(t)
    PROVE  MappingTypes'
<1>1. requests' \in Nat
  BY DEF BeginCreate, BeginUpdate, BeginDelete, Begin, MappingTypes
<1>2. request' \in [Threads -> Requests]
  <2>1. CASE BeginCreate(t)
    BY <2>1 DEF BeginCreate, MappingTypes, Becomes, Requests, IdleRequest
  <2>2. CASE BeginUpdate(t)
    <3>1. PICK i \in DOMAIN alarms, c \in Configs : Becomes(t, [pc |-> "updating", id |-> i, config |-> c])
      BY <2>2 DEF BeginUpdate
    <3>2. i \in Nat
      BY <3>1, LoadIs DEF MappingTypes
    <3>3. QED
      BY <3>1, <3>2 DEF MappingTypes, Becomes, Requests
  <2>3. CASE BeginDelete(t)
    <3>1. PICK i \in DOMAIN alarms : Becomes(t, [pc |-> "deleting", id |-> i])
      BY <2>3 DEF BeginDelete
    <3>2. i \in Nat
      BY <3>1, LoadIs DEF MappingTypes
    <3>3. QED
      BY <3>1, <3>2 DEF MappingTypes, Becomes, Requests
  <2>4. QED
    BY <2>1, <2>2, <2>3
<1>3. QED
  BY <1>1, <1>2 DEF BeginCreate, BeginUpdate, BeginDelete, MappingTypes

LEMMA EndsTyped ==
    ASSUME NEW t \in Threads, MappingTypes,
           TransactionFails(t) \/ ReadBack(t) \/ ReadBackFindsNothing(t) \/ ReadBackFails(t)
             \/ AnnouncementFails(t) \/ Answered(t)
    PROVE  MappingTypes'
<1>1. request' \in [Threads -> Requests]
  BY DEF MappingTypes, Becomes, Requests, IdleRequest, TransactionFails, ReadBack,
         ReadBackFindsNothing, ReadBackFails, AnnouncementFails, Answered
<1>2. faults' = faults \/ faults' = faults + 1
  BY DEF Fault, TransactionFails, ReadBack, ReadBackFindsNothing, ReadBackFails,
         AnnouncementFails, Answered
<1>3. unannounced' = unannounced \/ unannounced' = TRUE
  BY DEF TransactionFails, ReadBack, ReadBackFindsNothing, ReadBackFails,
         AnnouncementFails, Answered
<1>4. faults' \in Nat /\ unannounced' \in BOOLEAN
  <2>1. faults' \in Nat
    BY <1>2 DEF MappingTypes
  <2>2. unannounced' \in BOOLEAN
    BY <1>3, Zenon DEF MappingTypes
  <2>3. QED
    BY <2>1, <2>2
<1>5. QED
  BY <1>1, <1>4 DEF MappingTypes, TransactionFails, ReadBack, ReadBackFindsNothing,
         ReadBackFails, AnnouncementFails, Answered

LEMMA RequestStepTyped ==
    ASSUME NEW t \in Threads, MappingTypes, RequestStep(t) \/ Answered(t)
    PROVE  MappingTypes'
BY InsertedTyped, UpdatedTyped, DeletedTyped, WritesTyped, BeginsTyped, EndsTyped
   DEF RequestStep

-----------------------------------------------------------------------------
(***************************************************************************)
(* What one call of observe(t) writes: lines about disabled alarms of the  *)
(* tag, with the count there was, then lines about enabled ones, with the  *)
(* count there is.                                                         *)
(***************************************************************************)
Met(i) == Holds(diagnostics.loaded[i], value[diagnostics.loaded[i].tag])

SaysBaseline(t, e) ==
    /\ e.id \in AlarmsOf(t) \ EnabledOf(t) /\ e.state = "NORMAL"
    /\ e.count = Cardinality(diagnostics.active)

SaysFinding(t, e) ==
    /\ e.id \in EnabledOf(t) /\ e.state \in {"ACTIVE", "NORMAL", "CLEARED"}
    /\ e.state = "ACTIVE" <=> Met(e.id)
    /\ e.count = Cardinality(ActiveAfter(t))

Tells(t, es) ==
    /\ es \in Seq(Events)
    /\ \A k \in 1..Len(es) : SaysBaseline(t, es[k]) \/ SaysFinding(t, es[k])
    /\ \A i \in EnabledOf(t) : ~(i \in diagnostics.active <=> Met(i))
                               => \E k \in 1..Len(es) : es[k].id = i
    /\ Len(es) > 0 => es[Len(es)].count = Cardinality(ActiveAfter(t))

LEMMA OrderIs ==
    ASSUME NEW S, IsFiniteSet(S), NEW order \in Orders(S)
    PROVE  /\ Cardinality(S) \in Nat
           /\ order \in [1..Cardinality(S) -> S]
           /\ DOMAIN order = 1..Cardinality(S)
           /\ \A i \in S : \E k \in 1..Cardinality(S) : order[k] = i
BY FS_CardinalityType DEF Orders, Bijection, Injection, Surjection

LEMMA ActiveOnceIs ==
    ASSUME NEW t, ActivityTypes, NEW done \in SUBSET EnabledOf(t)
    PROVE  ActiveOnce(t, done) \subseteq DOMAIN diagnostics.loaded
BY DEF ActivityTypes, ActiveOnce, EnabledOf, AlarmsOf

LEMMA ActiveIsFinite ==
    ASSUME NEW t, ActivityTypes
    PROVE  /\ IsFiniteSet(DOMAIN diagnostics.loaded) /\ DOMAIN diagnostics.loaded \subseteq Nat
           /\ IsFiniteSet(diagnostics.active) /\ Cardinality(diagnostics.active) \in Nat
           /\ ActiveAfter(t) \subseteq DOMAIN diagnostics.loaded
           /\ IsFiniteSet(ActiveAfter(t)) /\ Cardinality(ActiveAfter(t)) \in Nat
<1>1. diagnostics.loaded \in Loads /\ diagnostics.active \subseteq DOMAIN diagnostics.loaded
  BY DEF ActivityTypes, Engines
<1>2. IsFiniteSet(DOMAIN diagnostics.loaded) /\ DOMAIN diagnostics.loaded \subseteq Nat
  BY <1>1, LoadIs
<1>3. ActiveAfter(t) \subseteq DOMAIN diagnostics.loaded
  BY <1>1 DEF ActiveAfter, ActiveOnce, EnabledOf, AlarmsOf
<1>4. QED
  BY <1>1, <1>2, <1>3, FS_Subset, FS_CardinalityType

LEMMA FindingIs ==
    ASSUME NEW t, ActivityTypes, NEW ids \in Reported(t), NEW i \in EnabledOf(t)
    PROVE  /\ Met(i) <=> Holds(diagnostics.loaded[i], value[t])
           /\ i \in ids => Finding(t, i) \in Events /\ SaysFinding(t, Finding(t, i))
           /\ i \in ids => Finding(t, i).id = i /\ Finding(t, i).count = Cardinality(ActiveAfter(t))
           /\ ~(i \in diagnostics.active <=> Met(i)) => i \in ids
<1>1. Met(i) <=> Holds(diagnostics.loaded[i], value[t])
  BY DEF Met, EnabledOf, AlarmsOf
<1>2. Found(i, value[t]) \in {"ACTIVE", "NORMAL", "steady", "CLEARED", "none"}
  BY DEF Found
<1>3. ASSUME i \in ids
      PROVE  /\ Found(i, value[t]) # "none"
             /\ Found(i, value[t]) \in {"ACTIVE", "steady"} <=> Met(i)
  BY <1>1, <1>2, <1>3 DEF Found, Reported
<1>4. i \in Nat /\ Cardinality(ActiveAfter(t)) \in Nat
  BY ActiveIsFinite DEF EnabledOf, AlarmsOf
<1>5. ASSUME i \in ids
      PROVE  /\ Finding(t, i) \in Events /\ SaysFinding(t, Finding(t, i))
             /\ Finding(t, i).id = i /\ Finding(t, i).count = Cardinality(ActiveAfter(t))
  BY <1>2, <1>3, <1>4, <1>5 DEF Finding, Activity, Events, SaysFinding
<1>6. ~(i \in diagnostics.active <=> Met(i)) => Found(i, value[t]) \in {"ACTIVE", "NORMAL", "CLEARED"}
  BY <1>1 DEF Found
<1>7. QED
  BY <1>1, <1>5, <1>6 DEF Reported

LEMMA ConcatIs ==
    ASSUME NEW S, NEW p \in Seq(S), NEW q \in Seq(S)
    PROVE  /\ p \o q \in Seq(S) /\ Len(p \o q) = Len(p) + Len(q)
           /\ \A k \in 1..Len(p) : (p \o q)[k] = p[k]
           /\ \A k \in 1..Len(q) : (p \o q)[Len(p) + k] = q[k]
OBVIOUS

LEMMA LinesTell ==
    ASSUME NEW t \in Tags, ActivityTypes, NEW lead \in Orders(Baselined(t)),
           NEW ids \in Reported(t), NEW rest \in Orders(ids)
    PROVE  Tells(t, Lines(t, lead, rest))
<1> DEFINE first == Baselined(t)
<1>3. IsFiniteSet(first) /\ IsFiniteSet(ids) /\ ids \subseteq EnabledOf(t) /\ first \subseteq Nat
  <2>1. ids \subseteq EnabledOf(t)
    BY DEF Reported
  <2>2. QED
    BY <2>1, ActiveIsFinite, FS_Subset DEF Baselined, EnabledOf, AlarmsOf
<1>4. PICK m \in Nat, n \in Nat :
        /\ lead \in [1..m -> first] /\ DOMAIN lead = 1..m
        /\ rest \in [1..n -> ids] /\ DOMAIN rest = 1..n
        /\ \A i \in ids : \E k \in 1..n : rest[k] = i
  <2>1. /\ Cardinality(first) \in Nat /\ lead \in [1..Cardinality(first) -> first]
        /\ DOMAIN lead = 1..Cardinality(first)
    BY <1>3, OrderIs
  <2>2. /\ Cardinality(ids) \in Nat /\ rest \in [1..Cardinality(ids) -> ids]
        /\ DOMAIN rest = 1..Cardinality(ids)
        /\ \A i \in ids : \E k \in 1..Cardinality(ids) : rest[k] = i
    BY <1>3, OrderIs
  <2>3. QED
    BY <2>1, <2>2
<1>5. PICK ls : ls = [k \in 1..m |-> Baseline(lead[k])]
  OBVIOUS
<1>6. PICK rs : rs = [k \in 1..n |-> Finding(t, rest[k])]
  OBVIOUS
<1>7. Lines(t, lead, rest) = ls \o rs
  BY <1>4, <1>5, <1>6 DEF Lines
<1>8. /\ ls \in Seq(Events) /\ Len(ls) = m
      /\ \A k \in 1..m : SaysBaseline(t, ls[k])
  <2>1. \A k \in 1..m : ls[k] \in Events /\ SaysBaseline(t, ls[k])
    BY <1>3, <1>4, <1>5, ActiveIsFinite DEF Baselined, Baseline, Activity, Events, SaysBaseline
  <2>2. QED
    BY <1>4, <1>5, <2>1
<1>9. /\ rs \in Seq(Events) /\ Len(rs) = n
      /\ \A k \in 1..n : /\ SaysFinding(t, rs[k]) /\ rs[k].id = rest[k]
                          /\ rs[k].count = Cardinality(ActiveAfter(t))
  <2>1. \A k \in 1..n : /\ rs[k] \in Events /\ SaysFinding(t, rs[k]) /\ rs[k].id = rest[k]
                        /\ rs[k].count = Cardinality(ActiveAfter(t))
    BY <1>3, <1>4, <1>6, FindingIs
  <2>2. QED
    BY <1>4, <1>6, <2>1
<1>10. PICK es : es = ls \o rs
  OBVIOUS
<1>11. /\ es \in Seq(Events) /\ Len(es) = m + n
       /\ \A k \in 1..m : es[k] = ls[k]
       /\ \A k \in 1..n : es[m + k] = rs[k]
  <2>1. /\ ls \o rs \in Seq(Events) /\ Len(ls \o rs) = Len(ls) + Len(rs)
        /\ \A k \in 1..Len(ls) : (ls \o rs)[k] = ls[k]
        /\ \A k \in 1..Len(rs) : (ls \o rs)[Len(ls) + k] = rs[k]
    <3>1. ls \in Seq(Events) /\ rs \in Seq(Events)
      BY <1>8, <1>9
    <3>2. QED
      BY <3>1, ConcatIs
  <2>2. Len(ls) = m /\ Len(rs) = n
    BY <1>8, <1>9
  <2>3. es \in Seq(Events) /\ Len(es) = m + n
    BY <1>10, <2>1, <2>2
  <2>4. \A k \in 1..m : es[k] = ls[k]
    BY <1>10, <2>1, <2>2
  <2>5. \A k \in 1..n : es[m + k] = rs[k]
    BY <1>10, <2>1, <2>2
  <2>6. QED
    BY <2>3, <2>4, <2>5
<1>12. \A k \in 1..Len(es) : SaysBaseline(t, es[k]) \/ SaysFinding(t, es[k])
  <2>1. \A k \in 1..Len(es) : k \in 1..m \/ (k - m \in 1..n /\ k = m + (k - m))
    BY <1>4, <1>11
  <2>2. QED
    BY <1>8, <1>9, <1>11, <2>1
<1>13. \A i \in EnabledOf(t) : ~(i \in diagnostics.active <=> Met(i))
                                 => \E k \in 1..Len(es) : es[k].id = i
  <2>1. SUFFICES ASSUME NEW i \in EnabledOf(t), ~(i \in diagnostics.active <=> Met(i))
                 PROVE  \E k \in 1..Len(es) : es[k].id = i
    OBVIOUS
  <2>2. i \in ids
    BY <2>1, FindingIs
  <2>3. PICK k \in 1..n : rest[k] = i
    BY <1>4, <2>2
  <2>4. es[m + k].id = i /\ m + k \in 1..Len(es)
    <3>1. k \in Nat /\ m + k \in 1..m + n
      BY <1>4
    <3>2. es[m + k] = rs[k] /\ rs[k].id = rest[k]
      BY <1>9, <1>11
    <3>3. QED
      BY <1>11, <2>3, <3>1, <3>2
  <2>5. QED
    BY <2>4
<1>14. Len(es) > 0 => es[Len(es)].count = Cardinality(ActiveAfter(t))
  <2>1. CASE n > 0
    <3>1. es[m + n] = rs[n] /\ n \in 1..n
      BY <1>4, <1>11, <2>1
    <3>2. QED
      BY <1>9, <1>11, <3>1
  <2>2. CASE n = 0 /\ m > 0
    <3>1. ids = {}
      BY <1>4, <2>2
    <3>2. \A i \in EnabledOf(t) : i \in diagnostics.active <=> Met(i)
      BY <3>1, FindingIs
    <3>3. \A i \in EnabledOf(t) : Met(i) <=> Holds(diagnostics.loaded[i], value[t])
      BY FindingIs
    <3>4. ActiveAfter(t) = diagnostics.active
      BY <3>2, <3>3 DEF ActiveAfter, ActiveOnce
    <3>5. es[m] = ls[m] /\ m \in 1..m /\ Len(es) = m
      BY <1>4, <1>11, <2>2
    <3>6. QED
      BY <1>8, <3>4, <3>5 DEF SaysBaseline
  <2>3. QED
    BY <1>4, <1>11, <2>1, <2>2
<1>15. QED
  BY <1>7, <1>10, <1>11, <1>12, <1>13, <1>14 DEF Tells

LEMMA Observed ==
    ASSUME NEW t \in Tags, ActivityTypes, Observe(t)
    PROVE  /\ diagnostics' = [diagnostics EXCEPT !.awaiting = diagnostics.awaiting \ AlarmsOf(t),
                                                  !.active = ActiveAfter(t)]
           /\ UNCHANGED <<faults, viewLost>>
           /\ \E es : Tells(t, es) /\ Report(es)
BY LinesTell DEF Observe

(***************************************************************************)
(* What a call that ends with an exception leaves behind: some of the      *)
(* enabled alarms are processed, and some of the lines sent.               *)
(***************************************************************************)
LEMMA ObserveFailed ==
    ASSUME NEW t \in Tags, ActivityTypes, faults \in Nat, ObserveFails(t)
    PROVE  /\ faults' \in Nat /\ viewLost' = TRUE
           /\ \E done \in SUBSET EnabledOf(t), seen \in SUBSET Baselined(t) :
                diagnostics' = [diagnostics EXCEPT !.awaiting = diagnostics.awaiting \ (done \cup seen),
                                                   !.active = ActiveOnce(t, done)]
           /\ \E es : \E n \in Nat : /\ Tells(t, es) /\ n <= Len(es)
                                /\ Report(SubSeq(es, 1, n) \o <<StateEvent("error")>>)
<1>1. faults' \in Nat /\ viewLost' = TRUE
  BY DEF ObserveFails, Fault
<1>2. PICK lead \in Orders(Baselined(t)), ids \in Reported(t), done \in SUBSET EnabledOf(t) :
        \E rest \in Orders(ids) : \E n \in 0..Len(lead) + Len(rest) :
          /\ diagnostics' = [diagnostics EXCEPT
                !.awaiting = diagnostics.awaiting \ (done \cup FirstOf(lead, n + 1)),
                !.active = ActiveOnce(t, done)]
          /\ Report(SubSeq(Lines(t, lead, rest), 1, n) \o <<StateEvent("error")>>)
  BY DEF ObserveFails
<1>3. PICK rest \in Orders(ids) : \E n \in 0..Len(lead) + Len(rest) :
          /\ diagnostics' = [diagnostics EXCEPT
                !.awaiting = diagnostics.awaiting \ (done \cup FirstOf(lead, n + 1)),
                !.active = ActiveOnce(t, done)]
          /\ Report(SubSeq(Lines(t, lead, rest), 1, n) \o <<StateEvent("error")>>)
  BY <1>2
<1>4. PICK n \in 0..Len(lead) + Len(rest) :
          /\ diagnostics' = [diagnostics EXCEPT
                !.awaiting = diagnostics.awaiting \ (done \cup FirstOf(lead, n + 1)),
                !.active = ActiveOnce(t, done)]
          /\ Report(SubSeq(Lines(t, lead, rest), 1, n) \o <<StateEvent("error")>>)
  BY <1>3
<1>5. PICK seen : seen = FirstOf(lead, n + 1)
  OBVIOUS
<1>6. IsFiniteSet(Baselined(t)) /\ IsFiniteSet(ids)
  BY ActiveIsFinite, FS_Subset DEF Baselined, Reported, EnabledOf, AlarmsOf
<1>7. PICK k \in Nat, l \in Nat : /\ lead \in [1..k -> Baselined(t)] /\ DOMAIN lead = 1..k
                                /\ rest \in [1..l -> ids] /\ DOMAIN rest = 1..l
  <2>1. /\ Cardinality(Baselined(t)) \in Nat /\ lead \in [1..Cardinality(Baselined(t)) -> Baselined(t)]
        /\ DOMAIN lead = 1..Cardinality(Baselined(t))
    BY <1>6, OrderIs
  <2>2. /\ Cardinality(ids) \in Nat /\ rest \in [1..Cardinality(ids) -> ids]
        /\ DOMAIN rest = 1..Cardinality(ids)
    BY <1>6, OrderIs
  <2>3. QED
    BY <2>1, <2>2
<1>8. seen \in SUBSET Baselined(t)
  BY <1>5, <1>7 DEF FirstOf
<1>9. Tells(t, Lines(t, lead, rest))
  BY LinesTell
<1>10. Len(Lines(t, lead, rest)) = Len(lead) + Len(rest)
  <2>1. PICK ls : ls = [j \in 1..k |-> Baseline(lead[j])]
    OBVIOUS
  <2>2. PICK rs : rs = [j \in 1..l |-> Finding(t, rest[j])]
    OBVIOUS
  <2>3. PICK S : S = {ls[j] : j \in 1..k} \cup {rs[j] : j \in 1..l}
    OBVIOUS
  <2>4. ls \in [1..k -> S] /\ rs \in [1..l -> S]
    BY <2>1, <2>2, <2>3
  <2>5. ls \in Seq(S) /\ rs \in Seq(S) /\ Len(ls) = k /\ Len(rs) = l
    BY <1>7, <2>4
  <2>6. Len(ls \o rs) = k + l
    BY <2>5, ConcatIs
  <2>7. Lines(t, lead, rest) = ls \o rs
    BY <1>7, <2>1, <2>2 DEF Lines
  <2>8. Len(lead) = k /\ Len(rest) = l
    BY <1>7
  <2>9. QED
    BY <2>6, <2>7, <2>8
<1>11. n \in Nat /\ n <= Len(Lines(t, lead, rest))
  <2>1. Len(lead) \in Nat /\ Len(rest) \in Nat
    BY <1>7
  <2>2. QED
    BY <1>10, <2>1
<1>12. QED
  BY <1>1, <1>4, <1>5, <1>8, <1>9, <1>11

-----------------------------------------------------------------------------
(***************************************************************************)
(* The views the supervisor goes through from view v while it reads the    *)
(* events es.                                                              *)
(***************************************************************************)
Chain(vs, v, es) ==
    /\ vs \in [0..Len(es) -> Views]
    /\ vs[0] = v
    /\ \A k \in 1..Len(es) : vs[k] = Applied(vs[k - 1], es[k])

LEMMA AppliedTyped ==
    ASSUME NEW v \in Views, NEW e \in Events
    PROVE  Applied(v, e) \in Views
BY DEF Applied, Views, Events, Unknown

LEMMA ChainOfNone ==
    ASSUME NEW v \in Views
    PROVE  \E vs : Chain(vs, v, <<>>) /\ vs[0] = v
<1>1. PICK vs : vs = [k \in 0..0 |-> v]
  OBVIOUS
<1>2. Chain(vs, v, <<>>) /\ vs[0] = v
  BY <1>1 DEF Chain
<1>3. QED
  BY <1>2

LEMMA ChainOfOne ==
    ASSUME NEW v \in Views, NEW e \in Events
    PROVE  \E vs : Chain(vs, v, <<e>>) /\ vs[1] = Applied(v, e)
<1>1. PICK w \in Views : w = Applied(v, e)
  BY AppliedTyped
<1>2. PICK vs : vs = [k \in 0..1 |-> IF k = 0 THEN v ELSE w]
  OBVIOUS
<1>3. Len(<<e>>) = 1 /\ <<e>>[1] = e
  OBVIOUS
<1>4. vs \in [0..1 -> Views] /\ vs[0] = v /\ vs[1] = w
  BY <1>2
<1>5. \A k \in 1..1 : k = 1 /\ k - 1 = 0
  OBVIOUS
<1>6. Chain(vs, v, <<e>>)
  BY <1>1, <1>3, <1>4, <1>5 DEF Chain
<1>7. QED
  BY <1>1, <1>4, <1>6

LEMMA ChainTyped ==
    ASSUME NEW es \in Seq(Events), NEW v, NEW vs, Chain(vs, v, es)
    PROVE  /\ Len(es) \in Nat /\ vs[Len(es)] \in Views
           /\ \A k \in 1..Len(es) : es[k] \in Events
BY DEF Chain

LEMMA ChainsJoin ==
    ASSUME NEW es \in Seq(Events), NEW fs \in Seq(Events), NEW v, NEW vs, NEW ws,
           Chain(vs, v, es), Chain(ws, vs[Len(es)], fs)
    PROVE  \E us : Chain(us, v, es \o fs) /\ us[Len(es \o fs)] = ws[Len(fs)]
<1>1. PICK m \in Nat, n \in Nat : m = Len(es) /\ n = Len(fs)
  OBVIOUS
<1>2. PICK gs : gs = es \o fs
  OBVIOUS
<1>3. /\ Len(gs) = m + n
      /\ \A k \in 1..m : gs[k] = es[k]
      /\ \A k \in 1..n : gs[m + k] = fs[k]
  BY <1>1, <1>2, ConcatIs
<1>4. PICK us : us = [k \in 0..m + n |-> IF k <= m THEN vs[k] ELSE ws[k - m]]
  OBVIOUS
<1>5. /\ vs \in [0..m -> Views] /\ vs[0] = v
      /\ \A k \in 1..m : vs[k] = Applied(vs[k - 1], es[k])
  BY <1>1 DEF Chain
<1>6. /\ ws \in [0..n -> Views] /\ ws[0] = vs[m]
      /\ \A k \in 1..n : ws[k] = Applied(ws[k - 1], fs[k])
  BY <1>1 DEF Chain
<1>7. us \in [0..m + n -> Views] /\ us[0] = v
  <2>1. ASSUME NEW k \in 0..m + n
        PROVE  us[k] \in Views
    <3>1. CASE k <= m
      <4>1. us[k] = vs[k] /\ k \in 0..m
        BY <1>4, <3>1
      <4>2. QED
        BY <1>5, <4>1
    <3>2. CASE ~(k <= m)
      <4>1. us[k] = ws[k - m] /\ k - m \in 0..n
        BY <1>4, <3>2
      <4>2. QED
        BY <1>6, <4>1
    <3>3. QED
      BY <3>1, <3>2
  <2>2. us[0] = vs[0]
    BY <1>4
  <2>3. QED
    BY <1>4, <1>5, <2>1, <2>2
<1>8. us[m + n] = ws[n]
  <2>1. CASE n = 0
    BY <1>4, <1>6, <2>1
  <2>2. CASE n # 0
    BY <1>4, <2>2
  <2>3. QED
    BY <2>1, <2>2
<1>9. \A k \in 1..m : us[k] = vs[k] /\ us[k - 1] = vs[k - 1]
  BY <1>4
<1>10. \A k \in 1..n : us[m + k] = ws[k] /\ us[(m + k) - 1] = ws[k - 1]
  <2>1. SUFFICES ASSUME NEW k \in 1..n
                 PROVE  us[m + k] = ws[k] /\ us[(m + k) - 1] = ws[k - 1]
    OBVIOUS
  <2>2. m + k \in 0..m + n /\ ~(m + k <= m) /\ (m + k) - m = k
        /\ (m + k) - 1 \in 0..m + n /\ ((m + k) - 1) - m = k - 1
    OBVIOUS
  <2>3. CASE k = 1
    BY <1>4, <1>6, <2>2, <2>3
  <2>4. CASE k # 1
    BY <1>4, <2>2, <2>4
  <2>5. QED
    BY <2>3, <2>4
<1>11. \A k \in 1..m + n : us[k] = Applied(us[k - 1], gs[k])
  <2>1. SUFFICES ASSUME NEW k \in 1..m + n
                 PROVE  us[k] = Applied(us[k - 1], gs[k])
    OBVIOUS
  <2>2. CASE k <= m
    BY <1>3, <1>5, <1>9, <2>2
  <2>3. CASE ~(k <= m)
    <3>1. PICK l \in 1..n : k = m + l
      <4>1. k - m \in 1..n /\ k = m + (k - m)
        BY <2>3
      <4>2. QED
        BY <4>1
    <3>2. QED
      BY <1>3, <1>6, <1>10, <3>1
  <2>4. QED
    BY <2>2, <2>3
<1>12. Chain(us, v, gs) /\ us[Len(gs)] = ws[Len(fs)]
  BY <1>1, <1>3, <1>7, <1>8, <1>11 DEF Chain
<1>13. QED
  BY <1>2, <1>12

LEMMA ChainIsCut ==
    ASSUME NEW es \in Seq(Events), NEW v, NEW vs, Chain(vs, v, es), NEW n \in Nat, n <= Len(es)
    PROVE  /\ SubSeq(es, 1, n) \in Seq(Events)
           /\ \E us : Chain(us, v, SubSeq(es, 1, n))
<1>1. PICK fs : fs = SubSeq(es, 1, n)
  OBVIOUS
<1>2. fs \in Seq(Events) /\ Len(fs) = n /\ \A k \in 1..n : fs[k] = es[k]
  BY <1>1
<1>3. PICK us : us = [k \in 0..n |-> vs[k]]
  OBVIOUS
<1>4. /\ vs \in [0..Len(es) -> Views] /\ vs[0] = v
      /\ \A k \in 1..Len(es) : vs[k] = Applied(vs[k - 1], es[k])
  BY DEF Chain
<1>5. us \in [0..n -> Views] /\ us[0] = v
  <2>1. \A k \in 0..n : k \in 0..Len(es)
    OBVIOUS
  <2>2. \A k \in 0..n : us[k] \in Views
    BY <1>3, <1>4, <2>1
  <2>3. 0 \in 0..n
    OBVIOUS
  <2>4. QED
    BY <1>3, <1>4, <2>2, <2>3
<1>6. \A k \in 1..n : us[k] = Applied(us[k - 1], fs[k])
  <2>1. SUFFICES ASSUME NEW k \in 1..n PROVE us[k] = Applied(us[k - 1], fs[k])
    OBVIOUS
  <2>2. us[k] = vs[k] /\ us[k - 1] = vs[k - 1] /\ k \in 1..Len(es)
    BY <1>3
  <2>3. QED
    BY <1>2, <1>4, <2>2
<1>7. QED
  BY <1>1, <1>2, <1>5, <1>6 DEF Chain

LEMMA TailIs ==
    ASSUME NEW S, NEW s \in Seq(S), s # <<>>
    PROVE  /\ Head(s) = s[1] /\ Head(s) \in S
           /\ Tail(s) \in Seq(S) /\ Len(Tail(s)) = Len(s) - 1
           /\ \A k \in 1..Len(s) - 1 : Tail(s)[k] = s[k + 1]
OBVIOUS

LEMMA ChainMovesOn ==
    ASSUME NEW es \in Seq(Events), es # <<>>, NEW v, NEW vs, Chain(vs, v, es)
    PROVE  /\ Head(es) \in Events /\ Tail(es) \in Seq(Events)
           /\ \E us : Chain(us, Applied(v, Head(es)), Tail(es)) /\ us[Len(Tail(es))] = vs[Len(es)]
<1>1. PICK n \in Nat : Len(es) = n + 1
  <2>1. Len(es) \in Nat /\ Len(es) # 0
    OBVIOUS
  <2>2. Len(es) - 1 \in Nat /\ Len(es) = (Len(es) - 1) + 1
    BY <2>1
  <2>3. QED
    BY <2>2
<1>2. PICK fs \in Seq(Events) : fs = Tail(es)
  BY TailIs
<1>3. Len(fs) = n /\ \A k \in 1..n : fs[k] = es[k + 1]
  BY <1>1, <1>2, TailIs
<1>4. PICK us : us = [k \in 0..n |-> vs[k + 1]]
  OBVIOUS
<1>5. /\ vs \in [0..n + 1 -> Views] /\ vs[0] = v
      /\ \A k \in 1..n + 1 : vs[k] = Applied(vs[k - 1], es[k])
  BY <1>1 DEF Chain
<1>6. us \in [0..n -> Views] /\ us[n] = vs[n + 1]
  BY <1>4, <1>5
<1>7. us[0] = Applied(v, Head(es)) /\ Head(es) \in Events
  <2>1. us[0] = vs[1] /\ 1 \in 1..n + 1 /\ 1 - 1 = 0
    BY <1>4
  <2>2. Head(es) = es[1] /\ es[1] \in Events
    BY TailIs
  <2>3. vs[1] = Applied(vs[0], es[1])
    BY <1>5, <2>1
  <2>4. QED
    BY <1>5, <2>1, <2>2, <2>3
<1>8. \A k \in 1..n : us[k] = Applied(us[k - 1], fs[k])
  <2>1. SUFFICES ASSUME NEW k \in 1..n
                 PROVE  us[k] = Applied(us[k - 1], fs[k])
    OBVIOUS
  <2>2. k + 1 \in 1..n + 1 /\ (k + 1) - 1 = k /\ us[k] = vs[k + 1] /\ us[k - 1] = vs[k]
    BY <1>4
  <2>3. vs[k + 1] = Applied(vs[k], es[k + 1])
    BY <1>5, <2>2
  <2>4. QED
    BY <1>3, <2>2, <2>3
<1>9. Chain(us, Applied(v, Head(es)), fs) /\ us[Len(fs)] = vs[Len(es)]
  BY <1>1, <1>3, <1>6, <1>7, <1>8 DEF Chain
<1>10. QED
  BY <1>2, <1>7, <1>9

(***************************************************************************)
(* From any view, the lines of one call of observe can be read one by one; *)
(* from the engine's own view they lead to what the engine believes after  *)
(* the call, and from a part of it to a part of that.                      *)
(***************************************************************************)
LEMMA ChainOfLines ==
    ASSUME NEW t \in Tags, ActivityTypes, \A i \in diagnostics.active : Enabled(diagnostics.loaded[i]),
           NEW v \in Views, NEW es, Tells(t, es)
    PROVE  \E ws : /\ Chain(ws, v, es)
                   /\ ws[Len(es)].active \subseteq v.active \cup EnabledOf(t)
                   /\ v.active = diagnostics.active /\ v.count = Cardinality(diagnostics.active)
                        => /\ ws[Len(es)].active = ActiveAfter(t)
                           /\ ws[Len(es)].count = Cardinality(ActiveAfter(t))
                   /\ v.active \subseteq diagnostics.active
                        /\ v.count \in {0, Cardinality(diagnostics.active)}
                        => /\ ws[Len(es)].active \subseteq ActiveAfter(t)
                           /\ ws[Len(es)].count \in {0, Cardinality(ActiveAfter(t))}
<1>1. PICK n \in Nat : n = Len(es)
  BY DEF Tells
<1>2. PICK Up : Up = [k \in 0..n |-> {i \in Nat : \E j \in 1..k : es[j].id = i /\ es[j].state = "ACTIVE"}]
  OBVIOUS
<1>3. PICK Down : Down = [k \in 0..n |-> {i \in Nat : \E j \in 1..k : es[j].id = i /\ es[j].state # "ACTIVE"}]
  OBVIOUS
<1>4. PICK ws : ws = [k \in 0..n |-> IF k = 0 THEN v
                                   ELSE [state |-> "ready", active |-> (v.active \cup Up[k]) \ Down[k],
                                         count |-> es[k].count]]
  OBVIOUS
<1>5. \A k \in 1..n : /\ es[k] \in Events /\ es[k].state \in {"ACTIVE", "NORMAL", "CLEARED"}
                      /\ SaysBaseline(t, es[k]) \/ SaysFinding(t, es[k])
  BY <1>1 DEF Tells, SaysBaseline, SaysFinding
<1>6. \A j, k \in 1..n : es[j].id = es[k].id => (es[j].state = "ACTIVE" <=> es[k].state = "ACTIVE")
  BY <1>5 DEF SaysBaseline, SaysFinding
<1>7. ws \in [0..n -> Views] /\ ws[0] = v
  <2>1. \A k \in 1..n : [state |-> "ready", active |-> (v.active \cup Up[k]) \ Down[k],
                         count |-> es[k].count] \in Views
    BY <1>2, <1>5 DEF Views, Events
  <2>2. \A k \in 0..n : ws[k] \in Views
    BY <1>4, <2>1
  <2>3. ws[0] = v
    BY <1>4
  <2>4. QED
    BY <1>4, <2>2, <2>3
<1>8. \A k \in 1..n : ws[k] = Applied(ws[k - 1], es[k])
  <2>1. SUFFICES ASSUME NEW k \in 1..n
                 PROVE  ws[k] = Applied(ws[k - 1], es[k])
    OBVIOUS
  <2>2. PICK l \in 0..n : l = k - 1
    OBVIOUS
  <2>3. PICK e \in Events : e = es[k] /\ e.state \in {"ACTIVE", "NORMAL", "CLEARED"} /\ e.id \in Nat
    BY <1>5 DEF Events
  <2>4. ws[l].active = (v.active \cup Up[l]) \ Down[l]
    <3>1. CASE l = 0
      <4>1. Up[0] = {} /\ Down[0] = {}
        BY <1>2, <1>3
      <4>2. QED
        BY <1>7, <3>1, <4>1
    <3>2. CASE l # 0
      BY <1>4, <3>2
    <3>3. QED
      BY <3>1, <3>2
  <2>5. Up[k] = Up[l] \cup {i \in {e.id} : e.state = "ACTIVE"}
    <3>1. \A j : j \in 1..k <=> j \in 1..l \/ j = k
      BY <2>2
    <3>2. Up[k] = {i \in Nat : \E j \in 1..k : es[j].id = i /\ es[j].state = "ACTIVE"}
      BY <1>2
    <3>3. Up[l] = {i \in Nat : \E j \in 1..l : es[j].id = i /\ es[j].state = "ACTIVE"}
      BY <1>2
    <3>4. QED
      BY <2>3, <3>1, <3>2, <3>3
  <2>6. Down[k] = Down[l] \cup {i \in {e.id} : e.state # "ACTIVE"}
    <3>1. \A j : j \in 1..k <=> j \in 1..l \/ j = k
      BY <2>2
    <3>2. Down[k] = {i \in Nat : \E j \in 1..k : es[j].id = i /\ es[j].state # "ACTIVE"}
      BY <1>3
    <3>3. Down[l] = {i \in Nat : \E j \in 1..l : es[j].id = i /\ es[j].state # "ACTIVE"}
      BY <1>3
    <3>4. QED
      BY <2>3, <3>1, <3>2, <3>3
  <2>7. e.state = "ACTIVE" => e.id \notin Down[l]
    BY <1>3, <1>6, <2>2, <2>3
  <2>8. ws[k] = [state |-> "ready", active |-> (v.active \cup Up[k]) \ Down[k], count |-> e.count]
    BY <1>4, <2>3
  <2>9. CASE e.state = "ACTIVE"
    <3>1. (v.active \cup Up[k]) \ Down[k] = ws[l].active \cup {e.id}
      BY <2>4, <2>5, <2>6, <2>7, <2>9
    <3>2. QED
      BY <2>2, <2>3, <2>8, <2>9, <3>1 DEF Applied
  <2>10. CASE e.state # "ACTIVE"
    <3>1. (v.active \cup Up[k]) \ Down[k] = ws[l].active \ {e.id}
      BY <2>4, <2>5, <2>6, <2>10
    <3>2. e.state \notin {"ready", "error", "ACTIVE"}
      BY <2>3, <2>10
    <3>3. QED
      BY <2>2, <2>3, <2>8, <3>1, <3>2 DEF Applied
  <2>11. QED
    BY <2>9, <2>10
<1>9. Chain(ws, v, es)
  BY <1>1, <1>7, <1>8 DEF Chain
<1>10. /\ v.active = diagnostics.active /\ v.count = Cardinality(diagnostics.active)
            => ws[n].active = ActiveAfter(t) /\ ws[n].count = Cardinality(ActiveAfter(t))
       /\ ws[n].active \subseteq v.active \cup EnabledOf(t)
       /\ v.active \subseteq diagnostics.active /\ v.count \in {0, Cardinality(diagnostics.active)}
            => ws[n].active \subseteq ActiveAfter(t) /\ ws[n].count \in {0, Cardinality(ActiveAfter(t))}
  <2>1. \A i \in EnabledOf(t) : Met(i) <=> Holds(diagnostics.loaded[i], value[t])
    BY DEF Met, EnabledOf, AlarmsOf
  <2>2. \A i \in EnabledOf(t) : ~(i \in diagnostics.active <=> Met(i)) => \E k \in 1..n : es[k].id = i
    BY <1>1 DEF Tells
  <2>3. CASE n = 0
    <3>1. ActiveAfter(t) = diagnostics.active
      BY <2>1, <2>2, <2>3 DEF ActiveAfter, ActiveOnce
    <3>2. QED
      BY <1>7, <2>3, <3>1
  <2>4. CASE n # 0
    <3>1. /\ ws[n].active = (v.active \cup Up[n]) \ Down[n]
          /\ ws[n].count = es[n].count
      BY <1>4, <2>4
    <3>2. es[n].count = Cardinality(ActiveAfter(t))
      BY <1>1, <2>4 DEF Tells
    <3>3. Up[n] = {i \in Nat : \E j \in 1..n : es[j].id = i /\ es[j].state = "ACTIVE"}
      BY <1>2
    <3>4. Down[n] = {i \in Nat : \E j \in 1..n : es[j].id = i /\ es[j].state # "ACTIVE"}
      BY <1>3
    <3>5. \A i \in diagnostics.active : i \in AlarmsOf(t) => i \in EnabledOf(t)
      BY DEF EnabledOf
    <3>6. \A i \in Up[n] : i \in EnabledOf(t) /\ Met(i)
      BY <1>5, <3>3 DEF SaysBaseline, SaysFinding
    <3>7. \A i \in Down[n] : i \in AlarmsOf(t) /\ (i \in EnabledOf(t) => ~Met(i))
      BY <1>5, <3>4 DEF SaysBaseline, SaysFinding, EnabledOf
    <3>8. \A i \in EnabledOf(t) : ~(i \in diagnostics.active <=> Met(i)) => i \in Up[n] \/ i \in Down[n]
      <4>1. \A i \in EnabledOf(t) : i \in Nat
        BY ActiveIsFinite DEF EnabledOf, AlarmsOf
      <4>2. QED
        BY <2>2, <3>3, <3>4, <4>1
    <3>9. (diagnostics.active \cup Up[n]) \ Down[n] = ActiveAfter(t)
      BY <2>1, <3>5, <3>6, <3>7, <3>8 DEF ActiveAfter, ActiveOnce
    <3>10. v.active \subseteq diagnostics.active => (v.active \cup Up[n]) \ Down[n] \subseteq ActiveAfter(t)
      BY <3>9
    <3>11. (v.active \cup Up[n]) \ Down[n] \subseteq v.active \cup EnabledOf(t)
      BY <3>6
    <3>12. QED
      BY <3>1, <3>2, <3>9, <3>10, <3>11
  <2>5. QED
    BY <2>3, <2>4
<1>11. QED
  BY <1>1, <1>9, <1>10
-----------------------------------------------------------------------------
(***************************************************************************)
(* Types of the steps of the worker and the supervisor.                    *)
(***************************************************************************)
LEMMA EngineTyped ==
    ASSUME NEW m \in Loads
    PROVE  /\ Engine(m) \in Engines /\ Engine(m).active \subseteq DOMAIN Engine(m).loaded
           /\ Engine(m).loaded = m /\ Engine(m).awaiting = DOMAIN m /\ Engine(m).active = {}
BY LoadIs DEF Engine, Engines

LEMMA ViewsTyped ==
    /\ Unknown \in Views
    /\ StateEvent("ready") \in Events /\ StateEvent("error") \in Events
BY DEF Unknown, Views, StateEvent, Events

LEMMA ReportTyped ==
    ASSUME NEW es \in Seq(Events), events \in Seq(Events), Report(es)
    PROVE  events' \in Seq(Events)
<1>1. events \o es \in Seq(Events)
  BY ConcatIs
<1>2. QED
  BY <1>1 DEF Report

LEMMA LoadTyped ==
    ASSUME MappingTypes, ActivityTypes, Load
    PROVE  /\ diagnostics' = Engine(alarms) /\ Report(<<StateEvent("ready")>>)
           /\ diagnostics' \in Engines /\ diagnostics'.active \subseteq DOMAIN diagnostics'.loaded
           /\ events' \in Seq(Events) /\ ~loadFailed' /\ loadFailed' \in BOOLEAN /\ untold' = FALSE
           /\ viewLost' = FALSE
           /\ faults' = faults
<1>1. diagnostics' = Engine(alarms) /\ Report(<<StateEvent("ready")>>)
  BY DEF Load, Reloaded
<1>2. <<StateEvent("ready")>> \in Seq(Events)
  BY ViewsTyped
<1>3. events' \in Seq(Events)
  BY <1>1, <1>2, ReportTyped DEF ActivityTypes
<1>4. diagnostics' \in Engines /\ diagnostics'.active \subseteq DOMAIN diagnostics'.loaded
  BY <1>1, EngineTyped DEF MappingTypes
<1>5. QED
  BY <1>1, <1>3, <1>4 DEF Load

LEMMA LoadFailsTyped ==
    ASSUME ActivityTypes, faults \in Nat, LoadFails
    PROVE  /\ diagnostics' = diagnostics /\ Report(<<StateEvent("error")>>)
           /\ events' \in Seq(Events) /\ loadFailed' = TRUE /\ viewLost' = TRUE /\ untold' = untold
           /\ faults' \in Nat
<1>1. Report(<<StateEvent("error")>>)
  BY DEF LoadFails
<1>2. <<StateEvent("error")>> \in Seq(Events)
  BY ViewsTyped
<1>3. events' \in Seq(Events)
  BY <1>1, <1>2, ReportTyped DEF ActivityTypes
<1>4. faults' \in Nat
  BY DEF LoadFails, Fault
<1>5. QED
  BY <1>1, <1>3, <1>4 DEF LoadFails

LEMMA LoadsTyped ==
    ASSUME MappingTypes, ActivityTypes, SessionBegins \/ TakeReload
    PROVE  MappingTypes' /\ ActivityTypes'
<1>1. worker' = "subscribed" /\ due' \subseteq Tags /\ commands' \in Nat
  BY DEF SessionBegins, TakeReload, ActivityTypes
<1>2. UNCHANGED <<mappingsOnly, value, view>> /\ (Load \/ LoadFails)
  BY DEF SessionBegins, TakeReload
<1>3. /\ diagnostics' \in Engines /\ diagnostics'.active \subseteq DOMAIN diagnostics'.loaded
      /\ events' \in Seq(Events) /\ faults' \in Nat
      /\ loadFailed' \in BOOLEAN /\ viewLost' \in BOOLEAN /\ untold' \in BOOLEAN
  <2>1. CASE Load
    BY <2>1, LoadTyped DEF MappingTypes
  <2>2. CASE LoadFails
    BY <2>2, LoadFailsTyped DEF MappingTypes, ActivityTypes
  <2>3. QED
    BY <1>2, <2>1, <2>2
<1>4. MappingTypes'
  BY <1>2, <1>3 DEF mappingsOnly, MappingTypes
<1>5. ActivityTypes'
  BY <1>1, <1>2, <1>3 DEF ActivityTypes
<1>6. QED
  BY <1>4, <1>5

LEMMA DataChangeTyped ==
    ASSUME NEW t \in Tags, MappingTypes, ActivityTypes, DataChange(t)
    PROVE  MappingTypes' /\ ActivityTypes'
<1>1. UNCHANGED <<mappingsOnly, value, worker, commands, view, loadFailed, untold>>
      /\ due' = due \ {t} /\ (Observe(t) \/ ObserveFails(t))
  BY DEF DataChange
<1>2. diagnostics \in Engines /\ DOMAIN diagnostics.loaded \subseteq Nat
  BY ActiveIsFinite DEF ActivityTypes
<1>3. faults' \in Nat /\ viewLost' \in BOOLEAN /\ events' \in Seq(Events)
      /\ diagnostics' \in Engines /\ diagnostics'.active \subseteq DOMAIN diagnostics'.loaded
  <2>1. CASE Observe(t)
    <3>1. PICK es : Tells(t, es) /\ Report(es)
      BY <2>1, Observed
    <3>2. events' \in Seq(Events)
      BY <3>1, ReportTyped DEF ActivityTypes, Tells
    <3>3. diagnostics' = [diagnostics EXCEPT !.awaiting = diagnostics.awaiting \ AlarmsOf(t),
                                             !.active = ActiveAfter(t)]
      BY <2>1, Observed
    <3>4. ActiveAfter(t) \subseteq DOMAIN diagnostics.loaded
      BY ActiveIsFinite
    <3>5. diagnostics' \in Engines /\ diagnostics'.active \subseteq DOMAIN diagnostics'.loaded
      BY <1>2, <3>3, <3>4 DEF Engines
    <3>6. faults' \in Nat /\ viewLost' \in BOOLEAN
      BY <2>1, Observed DEF MappingTypes, ActivityTypes
    <3>7. QED
      BY <3>2, <3>5, <3>6
  <2>2. CASE ObserveFails(t)
    <3>1. PICK done \in SUBSET EnabledOf(t), seen \in SUBSET Baselined(t) :
            diagnostics' = [diagnostics EXCEPT !.awaiting = diagnostics.awaiting \ (done \cup seen),
                                               !.active = ActiveOnce(t, done)]
      BY <2>2, ObserveFailed DEF MappingTypes
    <3>2. ActiveOnce(t, done) \subseteq DOMAIN diagnostics.loaded
      BY <3>1, ActiveOnceIs
    <3>3. diagnostics' \in Engines /\ diagnostics'.active \subseteq DOMAIN diagnostics'.loaded
      BY <1>2, <3>1, <3>2 DEF Engines
    <3>4. PICK es : \E n \in Nat : /\ Tells(t, es) /\ n <= Len(es)
                                   /\ Report(SubSeq(es, 1, n) \o <<StateEvent("error")>>)
      BY <2>2, ObserveFailed DEF MappingTypes
    <3>5. PICK n \in Nat : /\ Tells(t, es) /\ n <= Len(es)
                          /\ Report(SubSeq(es, 1, n) \o <<StateEvent("error")>>)
      BY <3>4
    <3>6. PICK fs \in Seq(Events) : fs = SubSeq(es, 1, n) \o <<StateEvent("error")>>
      <4>1. SubSeq(es, 1, n) \in Seq(Events)
        <5>1. es \in Seq(Events)
          BY <3>5 DEF Tells
        <5>2. QED
          BY <3>5, <5>1
      <4>2. <<StateEvent("error")>> \in Seq(Events)
        BY ViewsTyped
      <4>3. QED
        BY <4>1, <4>2, ConcatIs
    <3>7. events' \in Seq(Events)
      BY <3>5, <3>6, ReportTyped DEF ActivityTypes
    <3>8. faults' \in Nat /\ viewLost' \in BOOLEAN
      BY <2>2, ObserveFailed DEF MappingTypes
    <3>9. QED
      BY <3>3, <3>7, <3>8
  <2>3. QED
    BY <1>1, <2>1, <2>2
<1>4. ActivityTypes'
  BY <1>1, <1>3 DEF ActivityTypes
<1>5. MappingTypes'
  BY <1>1, <1>3 DEF mappingsOnly, MappingTypes
<1>6. QED
  BY <1>4, <1>5

LEMMA MonitorTyped ==
    ASSUME MappingTypes, ActivityTypes, MonitorReads \/ MonitorSeesExit \/ Respawn
    PROVE  MappingTypes' /\ ActivityTypes'
<1>1. MappingTypes'
  BY DEF MonitorReads, MonitorSeesExit, Respawn, mappingVars, MappingTypes
<1>2. CASE MonitorReads
  <2>1. Head(events) \in Events /\ Tail(events) \in Seq(Events)
    BY <1>2, TailIs DEF MonitorReads, ActivityTypes
  <2>2. view' \in Views /\ events' \in Seq(Events)
    BY <1>2, <2>1, AppliedTyped DEF MonitorReads, ActivityTypes
  <2>3. QED
    BY <1>1, <1>2, <2>2 DEF MonitorReads, ActivityTypes
<1>3. CASE MonitorSeesExit \/ Respawn
  BY <1>1, <1>3, ViewsTyped DEF MonitorSeesExit, Respawn, ActivityTypes
<1>4. QED
  BY <1>2, <1>3

LEMMA SessionTyped ==
    ASSUME MappingTypes, ActivityTypes,
           DropReload \/ SessionEnds \/ WorkerEnds \/ \E t \in Tags : ValueChanges(t)
    PROVE  MappingTypes' /\ ActivityTypes'
<1>1. CASE DropReload
  <2>1. commands' \in Nat
    BY <1>1 DEF DropReload, ActivityTypes
  <2>2. QED
    BY <1>1, <2>1 DEF DropReload, mappingVars, MappingTypes, ActivityTypes
<1>2. CASE SessionEnds
  <2>1. faults' \in Nat
    BY <1>2 DEF SessionEnds, Fault, MappingTypes
  <2>2. QED
    BY <1>2, <2>1 DEF SessionEnds, mappingsOnly, MappingTypes, ActivityTypes
<1>3. CASE WorkerEnds
  <2>1. faults' \in Nat
    BY <1>3 DEF WorkerEnds, Fault, MappingTypes
  <2>2. diagnostics' \in Engines /\ diagnostics'.active \subseteq DOMAIN diagnostics'.loaded
    BY <1>3, EngineTyped, NoMappingsLoad DEF WorkerEnds, NoEngine
  <2>3. QED
    BY <1>3, <2>1, <2>2 DEF WorkerEnds, mappingsOnly, MappingTypes, ActivityTypes
<1>4. CASE \E t \in Tags : ValueChanges(t)
  <2>1. PICK t \in Tags : ValueChanges(t)
    BY <1>4
  <2>2. value' \in [Tags -> 0..1] /\ due' \subseteq Tags
    BY <2>1 DEF ValueChanges, ActivityTypes
  <2>3. QED
    BY <2>1, <2>2 DEF ValueChanges, mappingVars, MappingTypes, ActivityTypes
<1>5. QED
  BY <1>1, <1>2, <1>3, <1>4

LEMMA RequestsTyped ==
    ASSUME MappingTypes, ActivityTypes, Player \/ \E t \in Threads : Request(t) \/ Notify(t)
    PROVE  MappingTypes' /\ ActivityTypes'
<1>1. CASE Player
  BY <1>1 DEF Player, PlayerReloads, activityVars, MappingTypes, ActivityTypes
<1>2. ASSUME NEW t \in Threads, Request(t) PROVE MappingTypes' /\ ActivityTypes'
  <2>1. MappingTypes'
    BY <1>2, RequestStepTyped DEF Request
  <2>2. untold' \in BOOLEAN
    BY <1>2 DEF Request, ActivityTypes
  <2>3. QED
    BY <1>2, <2>1, <2>2 DEF Request, ActivityTypes
<1>3. ASSUME NEW t \in Threads, Notify(t) PROVE MappingTypes' /\ ActivityTypes'
  <2>1. MappingTypes'
    BY <1>3, RequestStepTyped DEF Notify
  <2>2. commands' \in Nat
    BY <1>3 DEF Notify, Notified, ActivityTypes
  <2>3. QED
    BY <1>3, <2>1, <2>2 DEF Notify, ActivityTypes
<1>4. QED
  BY <1>1, <1>2, <1>3

LEMMA NextTyped ==
    ASSUME MappingTypes, ActivityTypes, [Next]_vars
    PROVE  MappingTypes' /\ ActivityTypes'
<1>1. CASE Next
  BY <1>1, LoadsTyped, DataChangeTyped, MonitorTyped, SessionTyped, RequestsTyped DEF Next
<1>2. CASE UNCHANGED vars
  BY <1>2 DEF vars, mappingVars, activityVars, MappingTypes, ActivityTypes
<1>3. QED
  BY <1>1, <1>2

LEMMA InitTyped == Init => MappingTypes /\ ActivityTypes
<1>1. SUFFICES ASSUME Init PROVE MappingTypes /\ ActivityTypes
  OBVIOUS
<1>2. diagnostics \in Engines /\ diagnostics.active \subseteq DOMAIN diagnostics.loaded
  BY <1>1, EngineTyped, NoMappingsLoad DEF Init, NoEngine
<1>3. QED
  <2>1. MappingTypes
    BY <1>1, MappingsInitTyped DEF Init
  <2>2. events \in Seq(Events) /\ view \in Views
    BY <1>1, ViewsTyped DEF Init
  <2>3. ActivityTypes
    BY <1>1, <1>2, <2>2 DEF Init, ActivityTypes
  <2>4. QED
    BY <2>1, <2>3

(***************************************************************************)
(* The mappings, the requests, the engine, the pipe and the view keep      *)
(* their types; the mappings are finitely many, their ids among those the  *)
(* identity column has given out.                                          *)
(***************************************************************************)
THEOREM AlarmsAreTyped == Spec => [](MappingTypes /\ ActivityTypes)
<1>1. QED
  BY InitTyped, NextTyped, PTL DEF Spec

-----------------------------------------------------------------------------
(***************************************************************************)
(* The engine: an alarm it has a value for is active exactly if its        *)
(* condition holds for the value the server has, unless that value has     *)
(* still to be delivered or an exception has kept one from the engine.     *)
(***************************************************************************)
WorkerInv ==
    /\ worker \in {"ended", "exited"} => diagnostics = NoEngine
    /\ worker = "exited" => events = <<>>

EngineInv ==
    /\ diagnostics.awaiting \cap diagnostics.active = {}
    /\ \A i \in diagnostics.active : Enabled(diagnostics.loaded[i])
    /\ worker = "subscribed" /\ ~viewLost =>
         \A i \in DOMAIN diagnostics.loaded \ diagnostics.awaiting :
           diagnostics.loaded[i].tag \notin due => (i \in diagnostics.active <=> Met(i))

LEMMA NewEngineInv ==
    ASSUME NEW m \in Loads, diagnostics' = Engine(m)
    PROVE  EngineInv'
BY EngineTyped DEF EngineInv

LEMMA ConditionOfDisabled ==
    ASSUME NEW m, NEW v, ~Enabled(m)
    PROVE  ~Holds(m, v)
BY DEF Enabled, Holds

LEMMA EngineObserves ==
    ASSUME NEW t \in Tags, ActivityTypes, EngineInv, DataChange(t), Observe(t)
    PROVE  EngineInv'
<1>1. /\ diagnostics' = [diagnostics EXCEPT !.awaiting = diagnostics.awaiting \ AlarmsOf(t),
                                            !.active = ActiveAfter(t)]
      /\ value' = value /\ worker = "subscribed" /\ due' = due \ {t} /\ viewLost' = viewLost
  BY Observed DEF DataChange
<1>2. /\ diagnostics'.loaded = diagnostics.loaded
      /\ diagnostics'.awaiting = diagnostics.awaiting \ AlarmsOf(t)
      /\ diagnostics'.active = ActiveAfter(t)
  BY <1>1 DEF ActivityTypes, Engines
<1>3. diagnostics.active \subseteq DOMAIN diagnostics.loaded
  BY DEF ActivityTypes
<1>4. diagnostics'.awaiting \cap diagnostics'.active = {}
  BY <1>2 DEF EngineInv, ActiveAfter, ActiveOnce, EnabledOf
<1>5. \A i \in diagnostics'.active : Enabled(diagnostics'.loaded[i])
  BY <1>2 DEF EngineInv, ActiveAfter, ActiveOnce, EnabledOf
<1>6. ASSUME NEW i \in DOMAIN diagnostics.loaded \ diagnostics'.awaiting,
             diagnostics.loaded[i].tag \notin due',
             ~viewLost'
      PROVE  i \in diagnostics'.active <=> Met(i)
  <2>1. CASE i \in AlarmsOf(t)
    <3>1. Met(i) <=> Holds(diagnostics.loaded[i], value[t])
      BY <2>1 DEF Met, AlarmsOf
    <3>2. CASE i \in EnabledOf(t)
      BY <1>2, <3>1, <3>2 DEF ActiveAfter, ActiveOnce
    <3>3. CASE i \notin EnabledOf(t)
      <4>1. ~Enabled(diagnostics.loaded[i])
        BY <2>1, <3>3 DEF EnabledOf
      <4>2. ~Met(i) /\ i \notin diagnostics.active
        BY <3>1, <4>1, ConditionOfDisabled DEF EngineInv
      <4>3. QED
        BY <1>2, <3>3, <4>2 DEF ActiveAfter, ActiveOnce
    <3>4. QED
      BY <3>2, <3>3
  <2>2. CASE i \notin AlarmsOf(t)
    <3>1. diagnostics.loaded[i].tag # t /\ i \notin EnabledOf(t)
      BY <2>2, <1>6 DEF AlarmsOf, EnabledOf
    <3>2. diagnostics.loaded[i].tag \notin due /\ i \notin diagnostics.awaiting
      BY <1>1, <1>2, <1>6, <2>2, <3>1
    <3>3. i \in diagnostics.active <=> Met(i)
      BY <1>1, <1>6, <3>2 DEF EngineInv
    <3>4. i \in diagnostics'.active <=> i \in diagnostics.active
      BY <1>2, <3>1 DEF ActiveAfter, ActiveOnce
    <3>5. QED
      BY <3>3, <3>4
  <2>3. QED
    BY <2>1, <2>2
<1>7. \A i \in DOMAIN diagnostics.loaded : Met(i)' <=> Met(i)
  BY <1>1, <1>2 DEF Met
<1>8. QED
  BY <1>2, <1>4, <1>5, <1>6, <1>7 DEF EngineInv

LEMMA EngineFails ==
    ASSUME NEW t \in Tags, MappingTypes, ActivityTypes, EngineInv, ObserveFails(t)
    PROVE  EngineInv'
<1>1. PICK done \in SUBSET EnabledOf(t), seen \in SUBSET Baselined(t) :
        diagnostics' = [diagnostics EXCEPT !.awaiting = diagnostics.awaiting \ (done \cup seen),
                                           !.active = ActiveOnce(t, done)]
  BY ObserveFailed DEF MappingTypes
<1>2. /\ diagnostics'.loaded = diagnostics.loaded
      /\ diagnostics'.awaiting = diagnostics.awaiting \ (done \cup seen)
      /\ diagnostics'.active = ActiveOnce(t, done)
  BY <1>1 DEF ActivityTypes, Engines
<1>3. diagnostics'.awaiting \cap diagnostics'.active = {}
  BY <1>1, <1>2 DEF EngineInv, ActiveOnce
<1>4. \A i \in diagnostics'.active : Enabled(diagnostics'.loaded[i])
  BY <1>1, <1>2 DEF EngineInv, ActiveOnce, EnabledOf
<1>5. viewLost'
  BY ObserveFailed DEF MappingTypes
<1>6. QED
  BY <1>3, <1>4, <1>5 DEF EngineInv

LEMMA EngineKeeps ==
    ASSUME MappingTypes, ActivityTypes, WorkerInv, EngineInv, [Next]_vars
    PROVE  EngineInv'
<1>1. CASE UNCHANGED <<diagnostics, value, due, worker, viewLost>>
  BY <1>1 DEF EngineInv, Met
<1>2. CASE SessionBegins \/ TakeReload
  <2>1. CASE Load
    BY <2>1, LoadTyped, NewEngineInv DEF MappingTypes
  <2>2. CASE LoadFails
    BY <2>2 DEF LoadFails, EngineInv
  <2>3. QED
    BY <1>2, <2>1, <2>2 DEF SessionBegins, TakeReload
<1>3. CASE SessionEnds \/ MonitorSeesExit \/ Respawn
  <2>1. diagnostics' = diagnostics /\ worker' # "subscribed"
    BY <1>3 DEF SessionEnds, MonitorSeesExit, Respawn
  <2>2. QED
    BY <2>1 DEF EngineInv
<1>4. CASE WorkerEnds
  BY <1>4, NewEngineInv, NoMappingsLoad DEF WorkerEnds, NoEngine
<1>5. ASSUME NEW t \in Tags, ValueChanges(t) PROVE EngineInv'
  <2>1. /\ diagnostics' = diagnostics /\ worker' = worker
        /\ worker = "subscribed" => due' = due \cup {t}
        /\ viewLost' = viewLost
    BY <1>5 DEF ValueChanges
  <2>2. \A i \in DOMAIN diagnostics.loaded : diagnostics.loaded[i].tag # t => (Met(i)' <=> Met(i))
    <3>1. \A u \in Tags : u # t => value'[u] = value[u]
      BY <1>5 DEF ValueChanges, ActivityTypes
    <3>2. \A i \in DOMAIN diagnostics.loaded : diagnostics.loaded[i].tag \in Tags
      BY LoadIs DEF ActivityTypes, Engines, Mapping
    <3>3. QED
      BY <2>1, <3>1, <3>2 DEF Met
  <2>3. QED
    BY <2>1, <2>2 DEF EngineInv
<1>6. CASE DropReload \/ MonitorReads
  BY <1>1, <1>6 DEF DropReload, MonitorReads
<1>7. CASE Player \/ \E t \in Threads : Request(t) \/ Notify(t)
  <2>1. UNCHANGED <<diagnostics, value, due, worker, viewLost>>
    BY <1>7 DEF Player, Request, Notify, activityVars
  <2>2. QED
    BY <1>1, <2>1
<1>8. CASE UNCHANGED vars
  BY <1>1, <1>8 DEF vars, activityVars
<1>9. QED
  BY <1>2, <1>3, <1>4, <1>5, <1>6, <1>7, <1>8, EngineObserves, EngineFails DEF Next, DataChange

LEMMA WorkerKeeps ==
    ASSUME MappingTypes, ActivityTypes, WorkerInv, [Next]_vars
    PROVE  WorkerInv'
<1>1. CASE UNCHANGED <<diagnostics, worker, events>>
  BY <1>1 DEF WorkerInv
<1>2. CASE SessionBegins \/ TakeReload
  BY <1>2 DEF SessionBegins, TakeReload, WorkerInv
<1>3. CASE SessionEnds \/ MonitorSeesExit \/ Respawn \/ WorkerEnds
  BY <1>3 DEF SessionEnds, MonitorSeesExit, Respawn, WorkerEnds, WorkerInv
<1>4. CASE DropReload \/ \E t \in Tags : ValueChanges(t)
  BY <1>1, <1>4 DEF DropReload, ValueChanges
<1>5. CASE MonitorReads
  BY <1>5 DEF MonitorReads, WorkerInv
<1>6. CASE \E t \in Tags : DataChange(t)
  BY <1>6 DEF DataChange, WorkerInv
<1>7. CASE Player \/ \E t \in Threads : Request(t) \/ Notify(t)
  BY <1>1, <1>7 DEF Player, Request, Notify, activityVars
<1>8. CASE UNCHANGED vars
  BY <1>1, <1>8 DEF vars, activityVars
<1>9. QED
  BY <1>2, <1>3, <1>4, <1>5, <1>6, <1>7, <1>8 DEF Next

-----------------------------------------------------------------------------
(***************************************************************************)
(* The pipe: when the supervisor has read what is in it, its view is what  *)
(* the engine believes now or, after an error, a part of it, of which      *)
(* every alarm has its condition met or a value to be delivered.           *)
(***************************************************************************)
Agrees(v) == v.active = diagnostics.active /\ v.count = Cardinality(diagnostics.active)

IsPart(v) ==
    /\ v.active \subseteq diagnostics.active
    /\ v.count \in {0, Cardinality(diagnostics.active)}
    /\ worker = "subscribed" =>
         \A i \in v.active : diagnostics.loaded[i].tag \notin due => Met(i)

LeadsTo(v) == Live => IsPart(v) /\ (~viewLost => Agrees(v))

PipeInv == \E vs : Chain(vs, view, events) /\ LeadsTo(vs[Len(events)])

LEMMA PipeGrows ==
    ASSUME ActivityTypes, NEW es \in Seq(Events), Report(es), view' = view,
           NEW vs, Chain(vs, view, events), NEW ws, Chain(ws, vs[Len(events)], es)
    PROVE  \E us : Chain(us, view', events') /\ us[Len(events')] = ws[Len(es)]
<1>1. events \in Seq(Events) /\ events' = events \o es
  BY DEF ActivityTypes, Report
<1>2. PICK us : Chain(us, view, events \o es) /\ us[Len(events \o es)] = ws[Len(es)]
  BY <1>1, ChainsJoin
<1>3. QED
  BY <1>1, <1>2

\* The events es and then a report of a load or an error.
LEMMA PipeReports ==
    ASSUME ActivityTypes, view' = view, NEW vs, Chain(vs, view, events),
           NEW es \in Seq(Events), NEW ws, Chain(ws, vs[Len(events)], es),
           NEW s \in {"ready", "error"}, Report(es \o <<StateEvent(s)>>),
           viewLost' \/ diagnostics'.active = {}
    PROVE  PipeInv'
<1>1. PICK e \in Events : e = StateEvent(s)
  BY ViewsTyped
<1>2. ws[Len(es)] \in Views
  BY ChainTyped
<1>3. PICK one \in Seq(Events) : one = <<e>> /\ Len(one) = 1
  <2>1. <<e>> \in Seq(Events) /\ Len(<<e>>) = 1
    OBVIOUS
  <2>2. QED
    BY <2>1
<1>4. PICK xs : Chain(xs, ws[Len(es)], one) /\ xs[Len(one)] = Applied(ws[Len(es)], e)
  <2>1. \E xs : Chain(xs, ws[Len(es)], <<e>>) /\ xs[1] = Applied(ws[Len(es)], e)
    BY <1>2, ChainOfOne
  <2>2. QED
    BY <1>3, <2>1
<1>5. PICK fs \in Seq(Events) : fs = es \o one
  BY ConcatIs
<1>6. PICK ys : Chain(ys, vs[Len(events)], fs) /\ ys[Len(fs)] = xs[Len(one)]
  BY <1>4, <1>5, ChainsJoin
<1>7. PICK us : Chain(us, view', events') /\ us[Len(events')] = xs[Len(one)]
  BY <1>1, <1>3, <1>5, <1>6, PipeGrows
<1>8. xs[Len(one)].active = {} /\ xs[Len(one)].count = 0
  BY <1>1, <1>4 DEF Applied, StateEvent, Unknown
<1>9. LeadsTo(us[Len(events)])'
  BY <1>7, <1>8, FS_EmptySet DEF LeadsTo, IsPart, Agrees
<1>10. QED
  BY <1>7, <1>9 DEF PipeInv

LEMMA PipeLoads ==
    ASSUME ActivityTypes, PipeInv, view' = view, NEW s \in {"ready", "error"},
           Report(<<StateEvent(s)>>), viewLost' \/ diagnostics'.active = {}
    PROVE  PipeInv'
<1>1. PICK vs : Chain(vs, view, events)
  BY DEF PipeInv
<1>2. vs[Len(events)] \in Views
  BY <1>1, ChainTyped DEF ActivityTypes
<1>3. PICK ws : Chain(ws, vs[Len(events)], <<>>)
  BY <1>2, ChainOfNone
<1>4. <<>> \in Seq(Events) /\ <<>> \o <<StateEvent(s)>> = <<StateEvent(s)>>
  OBVIOUS
<1>5. QED
  BY <1>1, <1>3, <1>4, PipeReports

LEMMA PipeObserves ==
    ASSUME NEW t \in Tags, ActivityTypes, EngineInv, PipeInv, DataChange(t), Observe(t)
    PROVE  PipeInv'
<1>1. /\ view' = view /\ Live' = Live /\ viewLost' = viewLost
      /\ diagnostics' = [diagnostics EXCEPT !.awaiting = diagnostics.awaiting \ AlarmsOf(t),
                                            !.active = ActiveAfter(t)]
      /\ due' = due \ {t} /\ worker = "subscribed" /\ value' = value
  BY Observed DEF DataChange, Live
<1>2. PICK es : Tells(t, es) /\ Report(es)
  BY Observed
<1>3. PICK vs : Chain(vs, view, events) /\ LeadsTo(vs[Len(events)])
  BY DEF PipeInv
<1>4. PICK v \in Views : v = vs[Len(events)]
  BY <1>3, ChainTyped DEF ActivityTypes
<1>5. \A i \in diagnostics.active : Enabled(diagnostics.loaded[i])
  BY DEF EngineInv
<1>6. PICK ws : /\ Chain(ws, v, es)
                /\ ws[Len(es)].active \subseteq v.active \cup EnabledOf(t)
                /\ v.active = diagnostics.active /\ v.count = Cardinality(diagnostics.active)
                     => /\ ws[Len(es)].active = ActiveAfter(t)
                        /\ ws[Len(es)].count = Cardinality(ActiveAfter(t))
                /\ v.active \subseteq diagnostics.active
                     /\ v.count \in {0, Cardinality(diagnostics.active)}
                     => /\ ws[Len(es)].active \subseteq ActiveAfter(t)
                        /\ ws[Len(es)].count \in {0, Cardinality(ActiveAfter(t))}
  BY <1>2, <1>4, <1>5, ChainOfLines
<1>7. es \in Seq(Events)
  BY <1>2 DEF Tells
<1>8. PICK us : Chain(us, view', events') /\ us[Len(events')] = ws[Len(es)]
  BY <1>1, <1>2, <1>3, <1>4, <1>6, <1>7, PipeGrows
<1>9. diagnostics'.active = ActiveAfter(t) /\ diagnostics'.loaded = diagnostics.loaded
  BY <1>1 DEF ActivityTypes, Engines
<1>10. IsPart(v) /\ (~viewLost => Agrees(v))
  BY <1>1, <1>3, <1>4 DEF LeadsTo, Live
<1>11. /\ ws[Len(es)].active \subseteq ActiveAfter(t)
       /\ ws[Len(es)].count \in {0, Cardinality(ActiveAfter(t))}
       /\ ~viewLost => /\ ws[Len(es)].active = ActiveAfter(t)
                       /\ ws[Len(es)].count = Cardinality(ActiveAfter(t))
  BY <1>6, <1>10 DEF IsPart, Agrees
<1>12. ASSUME NEW i \in ws[Len(es)].active, diagnostics.loaded[i].tag \notin due \ {t}
       PROVE  Met(i)
  <2>1. CASE i \in EnabledOf(t)
    <3>1. Met(i) <=> Holds(diagnostics.loaded[i], value[t])
      BY <2>1 DEF Met, EnabledOf, AlarmsOf
    <3>2. QED
      BY <1>11, <1>12, <2>1, <3>1 DEF ActiveAfter, ActiveOnce
  <2>2. CASE i \notin EnabledOf(t)
    <3>1. i \in v.active /\ i \in diagnostics.active
      BY <1>6, <1>10, <1>12, <2>2 DEF IsPart
    <3>2. diagnostics.loaded[i].tag # t
      BY <1>5, <2>2, <3>1 DEF ActivityTypes, EnabledOf, AlarmsOf
    <3>3. diagnostics.loaded[i].tag \notin due
      BY <1>12, <3>2
    <3>4. QED
      BY <1>1, <1>10, <3>1, <3>3 DEF IsPart
  <2>3. QED
    BY <2>1, <2>2
<1>13. \A i : Met(i)' <=> Met(i)
  BY <1>1, <1>9 DEF Met
<1>14. IsPart(ws[Len(es)])'
  BY <1>1, <1>9, <1>11, <1>12, <1>13 DEF IsPart
<1>15. ~viewLost' => Agrees(ws[Len(es)])'
  BY <1>1, <1>9, <1>11 DEF Agrees
<1>16. LeadsTo(us[Len(events)])'
  BY <1>8, <1>14, <1>15 DEF LeadsTo
<1>17. QED
  BY <1>8, <1>16 DEF PipeInv

LEMMA PipeFails ==
    ASSUME NEW t \in Tags, MappingTypes, ActivityTypes, EngineInv, PipeInv,
           DataChange(t), ObserveFails(t)
    PROVE  PipeInv'
<1>1. view' = view /\ viewLost'
  BY ObserveFailed DEF DataChange, MappingTypes
<1>2. PICK es : \E n \in Nat : /\ Tells(t, es) /\ n <= Len(es)
                               /\ Report(SubSeq(es, 1, n) \o <<StateEvent("error")>>)
  BY ObserveFailed DEF MappingTypes
<1>3. PICK n \in Nat : /\ Tells(t, es) /\ n <= Len(es)
                      /\ Report(SubSeq(es, 1, n) \o <<StateEvent("error")>>)
  BY <1>2
<1>4. PICK vs : Chain(vs, view, events)
  BY DEF PipeInv
<1>5. vs[Len(events)] \in Views
  BY <1>4, ChainTyped DEF ActivityTypes
<1>6. \A i \in diagnostics.active : Enabled(diagnostics.loaded[i])
  BY DEF EngineInv
<1>7. PICK ws : Chain(ws, vs[Len(events)], es)
  BY <1>3, <1>5, <1>6, ChainOfLines
<1>8. es \in Seq(Events)
  BY <1>3 DEF Tells
<1>9. PICK fs \in Seq(Events) : fs = SubSeq(es, 1, n)
  BY <1>3, <1>7, <1>8, ChainIsCut
<1>10. PICK us : Chain(us, vs[Len(events)], fs)
  BY <1>3, <1>7, <1>8, <1>9, ChainIsCut
<1>11. Report(fs \o <<StateEvent("error")>>)
  BY <1>3, <1>9
<1>12. QED
  BY <1>1, <1>4, <1>10, <1>11, PipeReports

LEMMA PipeIsRead ==
    ASSUME ActivityTypes, PipeInv, MonitorReads
    PROVE  PipeInv'
<1>1. PICK vs : Chain(vs, view, events) /\ LeadsTo(vs[Len(events)])
  BY DEF PipeInv
<1>2. /\ events # <<>> /\ view' = Applied(view, Head(events)) /\ events' = Tail(events)
      /\ UNCHANGED <<worker, diagnostics, value, due, viewLost>>
  BY DEF MonitorReads
<1>3. PICK us : Chain(us, Applied(view, Head(events)), Tail(events)) /\ us[Len(Tail(events))] = vs[Len(events)]
  BY <1>1, <1>2, ChainMovesOn DEF ActivityTypes
<1>4. Chain(us, view', events') /\ us[Len(events')] = vs[Len(events)]
  BY <1>2, <1>3
<1>5. LeadsTo(us[Len(events)])'
  BY <1>1, <1>2, <1>4 DEF LeadsTo, IsPart, Met, Live, Agrees
<1>6. QED
  BY <1>4, <1>5 DEF PipeInv

LEMMA PipeRestarts ==
    ASSUME WorkerInv, MonitorSeesExit \/ Respawn
    PROVE  PipeInv'
<1>1. events' = <<>> /\ view' = Unknown /\ diagnostics' = NoEngine
  BY DEF MonitorSeesExit, Respawn, WorkerInv
<1>2. Unknown \in Views
  BY ViewsTyped
<1>3. PICK vs : Chain(vs, Unknown, <<>>) /\ vs[0] = Unknown
  BY <1>2, ChainOfNone
<1>4. Len(<<>>) = 0
  OBVIOUS
<1>5. Unknown.active = {} /\ Unknown.count = 0 /\ NoEngine.active = {}
  BY DEF Unknown, NoEngine, Engine
<1>6. Chain(vs, view', events') /\ LeadsTo(vs[Len(events)])'
  BY <1>1, <1>3, <1>4, <1>5, FS_EmptySet DEF LeadsTo, IsPart, Agrees
<1>7. QED
  BY <1>6 DEF PipeInv

LEMMA PipeKeeps ==
    ASSUME MappingTypes, ActivityTypes, WorkerInv, EngineInv, PipeInv, [Next]_vars
    PROVE  PipeInv'
<1>1. ASSUME UNCHANGED <<events, view, diagnostics, viewLost>>, Live' => Live,
             worker' = "subscribed" =>
               /\ worker = "subscribed"
               /\ \A i \in diagnostics.active :
                    diagnostics.loaded[i].tag \notin due' =>
                      /\ diagnostics.loaded[i].tag \notin due
                      /\ Met(i) => Met(i)'
      PROVE  PipeInv'
  <2>1. PICK vs : Chain(vs, view, events) /\ LeadsTo(vs[Len(events)])
    BY DEF PipeInv
  <2>2. Chain(vs, view', events') /\ vs[Len(events')] = vs[Len(events)]
    BY <1>1, <2>1
  <2>3. LeadsTo(vs[Len(events)])'
    BY <1>1, <2>1, <2>2 DEF LeadsTo, IsPart, Agrees
  <2>4. QED
    BY <2>2, <2>3 DEF PipeInv
<1>2. CASE SessionBegins \/ TakeReload
  <2>1. view' = view /\ (Load \/ LoadFails)
    BY <1>2 DEF SessionBegins, TakeReload
  <2>2. CASE Load
    <3>1. diagnostics'.active = {} /\ Report(<<StateEvent("ready")>>)
      BY <2>2, LoadTyped, EngineTyped DEF MappingTypes
    <3>2. QED
      BY <2>1, <3>1, PipeLoads
  <2>3. CASE LoadFails
    <3>1. viewLost' /\ Report(<<StateEvent("error")>>)
      BY <2>3 DEF LoadFails
    <3>2. QED
      BY <2>1, <3>1, PipeLoads
  <2>4. QED
    BY <2>1, <2>2, <2>3
<1>3. CASE MonitorSeesExit \/ Respawn
  BY <1>3, PipeRestarts
<1>4. CASE WorkerEnds
  <2>1. PICK vs : Chain(vs, view, events)
    BY DEF PipeInv
  <2>2. ~Live' /\ Chain(vs, view', events')
    BY <1>4, <2>1 DEF WorkerEnds, Live
  <2>3. QED
    BY <2>2 DEF PipeInv, LeadsTo
<1>5. CASE DropReload \/ SessionEnds
  BY <1>1, <1>5 DEF DropReload, SessionEnds, Live
<1>6. ASSUME NEW t \in Tags, ValueChanges(t) PROVE PipeInv'
  <2>1. /\ UNCHANGED <<events, view, diagnostics, viewLost, worker>>
        /\ worker = "subscribed" => due' = due \cup {t}
        /\ value' = [value EXCEPT ![t] = 1 - @]
    BY <1>6 DEF ValueChanges
  <2>2. \A u \in Tags : u # t => value'[u] = value[u]
    BY <2>1 DEF ActivityTypes
  <2>3. \A i \in DOMAIN diagnostics.loaded : diagnostics.loaded[i].tag \in Tags
    BY LoadIs DEF ActivityTypes, Engines, Mapping
  <2>4. \A i \in diagnostics.active : diagnostics.loaded[i].tag # t => (Met(i) <=> Met(i)')
    BY <2>1, <2>2, <2>3 DEF Met, ActivityTypes
  <2>5. QED
    BY <1>1, <2>1, <2>4 DEF Live
<1>7. CASE MonitorReads
  BY <1>7, PipeIsRead
<1>8. CASE Player \/ \E t \in Threads : Request(t) \/ Notify(t)
  <2>1. UNCHANGED <<events, view, diagnostics, viewLost, worker, due, value>>
    BY <1>8 DEF Player, Request, Notify, activityVars
  <2>2. QED
    BY <1>1, <2>1 DEF Live, Met
<1>9. CASE UNCHANGED vars
  BY <1>1, <1>9 DEF vars, activityVars, Live, Met
<1>10. ASSUME NEW t \in Tags, DataChange(t) PROVE PipeInv'
  BY <1>10, PipeObserves, PipeFails DEF DataChange
<1>11. QED
  BY <1>2, <1>3, <1>4, <1>5, <1>6, <1>7, <1>8, <1>9, <1>10 DEF Next

-----------------------------------------------------------------------------
(***************************************************************************)
(* The change a connected worker has not loaded: it has a command to take, *)
(* or a request is on its way to send it one.                              *)
(***************************************************************************)
Telling(t) ==
    \/ request[t].pc \in {"announcing", "writing", "notifying"}
    \/ At(t, "saved") /\ request[t].id \in DOMAIN alarms

ToldInv ==
    worker = "subscribed" /\ ~loadFailed /\ ~untold /\ diagnostics.loaded # alarms
        => commands > 0 \/ \E t \in Threads : Telling(t)

LEMMA OthersWait ==
    ASSUME NEW t \in Threads, MappingTypes, NEW r, Becomes(t, r)
    PROVE  /\ request'[t] = r
           /\ \A u \in Threads : u # t => request'[u] = request[u]
BY DEF MappingTypes, Becomes

LEMMA SamePlace ==
    ASSUME NEW t \in Threads, MappingTypes, Updated(t), request[t].id \notin DOMAIN alarms
    PROVE  alarms' = alarms
<1>1. alarms \in [DOMAIN alarms -> Mapping]
  BY LoadIs DEF MappingTypes
<1>2. QED
  BY <1>1 DEF Updated

LEMMA RequestKeepsTold ==
    ASSUME NEW t \in Threads, MappingTypes, ToldInv, Request(t)
    PROVE  ToldInv'
<1>1. UNCHANGED <<worker, commands, diagnostics, loadFailed>>
      /\ untold' = (untold \/ (At(t, "saved") /\ request'[t].pc = "idle" /\ request[t].id \in DOMAIN alarms))
  BY DEF Request
<1>2. SUFFICES ASSUME worker = "subscribed", ~loadFailed, ~untold', diagnostics.loaded # alarms'
               PROVE  commands > 0 \/ \E u \in Threads : Telling(u)'
  BY <1>1 DEF ToldInv
<1>3. ~untold /\ ~(At(t, "saved") /\ request'[t].pc = "idle" /\ request[t].id \in DOMAIN alarms)
  BY <1>1, <1>2
<1>4. CASE Telling(t)'
  BY <1>4
<1>5. CASE ~Telling(t)' /\ alarms' = alarms /\ ~Telling(t)
  <2>1. \A u \in Threads : u # t => request'[u] = request[u]
    BY OthersWait DEF Request, RequestStep, BeginCreate, BeginUpdate, BeginDelete, Inserted, Updated,
       Deleted, TransactionFails, ReadBack, ReadBackFindsNothing, ReadBackFails, ReadNode, WriteNode,
       AnnouncementFails
  <2>2. \A u \in Threads : Telling(u) => Telling(u)'
    BY <1>5, <2>1 DEF Telling, At
  <2>3. QED
    BY <1>1, <1>2, <1>3, <1>5, <2>2 DEF ToldInv
<1>6. CASE Inserted(t) \/ Updated(t) \/ Deleted(t)
  <2>1. CASE Inserted(t)
    <3>1. request'[t] = [pc |-> "saved", id |-> lastId + 1] /\ lastId + 1 \in DOMAIN alarms'
      BY <2>1, OthersWait DEF Inserted
    <3>2. Telling(t)'
      BY <3>1 DEF Telling, At
    <3>3. QED
      BY <3>2
  <2>2. CASE Updated(t)
    <3>1. request'[t] = [pc |-> "saved", id |-> request[t].id] /\ At(t, "updating")
      BY <2>2, OthersWait DEF Updated
    <3>2. CASE request[t].id \in DOMAIN alarms
      <4>1. request[t].id \in DOMAIN alarms'
        BY <2>2, <3>2 DEF Updated
      <4>2. Telling(t)'
        BY <3>1, <4>1 DEF Telling, At
      <4>3. QED
        BY <4>2
    <3>3. CASE request[t].id \notin DOMAIN alarms
      <4>1. alarms' = alarms /\ ~Telling(t)
        BY <2>2, <3>1, <3>3, SamePlace DEF Telling, At
      <4>2. QED
        BY <1>4, <1>5, <4>1
    <3>4. QED
      BY <3>2, <3>3
  <2>3. CASE Deleted(t)
    <3>1. request'[t] = [pc |-> "announcing"]
      BY <2>3, OthersWait DEF Deleted
    <3>2. Telling(t)'
      BY <3>1 DEF Telling
    <3>3. QED
      BY <3>2
  <2>4. QED
    BY <1>6, <2>1, <2>2, <2>3
<1>7. CASE BeginCreate(t) \/ BeginUpdate(t) \/ BeginDelete(t) \/ TransactionFails(t) \/ ReadBackFindsNothing(t)
  <2>1. alarms' = alarms /\ ~Telling(t)
    BY <1>7 DEF BeginCreate, BeginUpdate, BeginDelete, Begin, TransactionFails, ReadBackFindsNothing,
       Telling, At
  <2>2. QED
    BY <1>4, <1>5, <2>1
<1>8. CASE ReadBackFails(t)
  <2>1. alarms' = alarms /\ request'[t] = IdleRequest /\ At(t, "saved")
    BY <1>8, OthersWait DEF ReadBackFails
  <2>2. ~Telling(t)
    BY <1>3, <2>1 DEF Telling, At, IdleRequest
  <2>3. QED
    BY <1>4, <1>5, <2>1, <2>2
<1>9. CASE ReadBack(t) \/ ReadNode(t) \/ WriteNode(t) \/ AnnouncementFails(t)
  <2>1. request'[t].pc \in {"announcing", "writing", "notifying"}
    <3>1. CASE ReadBack(t)
      BY <3>1, OthersWait DEF ReadBack
    <3>2. CASE ReadNode(t)
      BY <3>2, OthersWait DEF ReadNode
    <3>3. CASE WriteNode(t)
      BY <3>3, OthersWait DEF WriteNode
    <3>4. CASE AnnouncementFails(t)
      BY <3>4, OthersWait DEF AnnouncementFails
    <3>5. QED
      BY <1>9, <3>1, <3>2, <3>3, <3>4
  <2>2. Telling(t)'
    BY <2>1 DEF Telling
  <2>3. QED
    BY <2>2
<1>10. QED
  BY <1>6, <1>7, <1>8, <1>9 DEF Request, RequestStep

LEMMA ToldKeeps ==
    ASSUME MappingTypes, ActivityTypes, ToldInv, [Next]_vars
    PROVE  ToldInv'
<1>1. ASSUME UNCHANGED <<alarms, request, commands, loadFailed, untold>>, diagnostics'.loaded = diagnostics.loaded,
             worker' = "subscribed" => worker = "subscribed"
      PROVE  ToldInv'
  BY <1>1 DEF ToldInv, Telling, At
<1>2. ASSUME NEW t \in Threads, Notify(t) PROVE ToldInv'
  <2>1. worker' = worker /\ commands' = Notified(commands)
    BY <1>2 DEF Notify
  <2>2. worker = "subscribed" => commands' > 0
    BY <2>1 DEF Notified, Live, ActivityTypes
  <2>3. QED
    BY <2>1, <2>2 DEF ToldInv
<1>3. CASE SessionBegins \/ TakeReload
  <2>1. alarms' = alarms /\ (Load \/ LoadFails)
    BY <1>3 DEF SessionBegins, TakeReload, mappingsOnly
  <2>2. CASE Load
    BY <2>1, <2>2, LoadTyped, EngineTyped DEF ToldInv, MappingTypes
  <2>3. CASE LoadFails
    BY <2>3 DEF LoadFails, ToldInv
  <2>4. QED
    BY <2>1, <2>2, <2>3
<1>4. ASSUME NEW t \in Tags, DataChange(t) PROVE ToldInv'
  <2>1. UNCHANGED <<mappingsOnly, worker, commands, loadFailed, untold>> /\ (Observe(t) \/ ObserveFails(t))
    BY <1>4 DEF DataChange
  <2>2. \E waiting, active : diagnostics' = [diagnostics EXCEPT !.awaiting = waiting, !.active = active]
    <3>1. CASE Observe(t)
      BY <3>1, Observed
    <3>2. CASE ObserveFails(t)
      BY <3>2, ObserveFailed DEF MappingTypes
    <3>3. QED
      BY <2>1, <3>1, <3>2
  <2>3. diagnostics'.loaded = diagnostics.loaded
    BY <2>2 DEF ActivityTypes, Engines
  <2>4. QED
    BY <1>1, <2>1, <2>3 DEF mappingsOnly
<1>5. CASE SessionEnds \/ WorkerEnds \/ MonitorSeesExit \/ Respawn \/ DropReload
  <2>1. worker' # "subscribed"
    BY <1>5 DEF SessionEnds, WorkerEnds, MonitorSeesExit, Respawn, DropReload
  <2>2. QED
    BY <2>1 DEF ToldInv
<1>6. CASE MonitorReads
  BY <1>1, <1>6 DEF MonitorReads, mappingVars
<1>7. ASSUME NEW t \in Tags, ValueChanges(t) PROVE ToldInv'
  BY <1>1, <1>7 DEF ValueChanges, mappingVars
<1>8. CASE Player
  BY <1>1, <1>8 DEF Player, PlayerReloads, activityVars
<1>9. CASE UNCHANGED vars
  BY <1>1, <1>9 DEF vars, mappingVars, activityVars
<1>10. QED
  BY <1>2, <1>3, <1>4, <1>5, <1>6, <1>7, <1>8, <1>9, RequestKeepsTold DEF Next

(***************************************************************************)
(* The inductive invariant, and what it says of the worker and its view.   *)
(***************************************************************************)
AInv == MappingTypes /\ ActivityTypes /\ WorkerInv /\ EngineInv /\ PipeInv /\ ToldInv

LEMMA InitAInv == Init => AInv
<1>1. SUFFICES ASSUME Init PROVE AInv
  OBVIOUS
<1>2. MappingTypes /\ ActivityTypes
  BY <1>1, InitTyped
<1>3. WorkerInv /\ ToldInv
  BY <1>1 DEF Init, WorkerInv, ToldInv
<1>4. NoEngine.active = {} /\ NoEngine.awaiting = {}
  BY EngineTyped, NoMappingsLoad DEF NoEngine
<1>5. EngineInv
  BY <1>1, <1>4 DEF Init, EngineInv
<1>6. PipeInv
  <2>1. PICK vs : Chain(vs, Unknown, <<>>) /\ vs[0] = Unknown
    BY ViewsTyped, ChainOfNone
  <2>2. Unknown.active = {} /\ Unknown.count = 0 /\ Len(<<>>) = 0
    BY DEF Unknown
  <2>3. Chain(vs, view, events) /\ LeadsTo(vs[Len(events)])
    BY <1>1, <1>4, <2>1, <2>2, FS_EmptySet DEF Init, LeadsTo, IsPart, Agrees
  <2>4. QED
    BY <2>3 DEF PipeInv
<1>7. QED
  BY <1>2, <1>3, <1>5, <1>6 DEF AInv

LEMMA AlarmInvariant == Spec => []AInv
<1>1. AInv /\ [Next]_vars => AInv'
  BY NextTyped, WorkerKeeps, EngineKeeps, PipeKeeps, ToldKeeps DEF AInv
<1>2. QED
  BY InitAInv, <1>1, PTL DEF Spec

LEMMA AInvDiagnostics == AInv => DiagnosticsFollow
BY DEF AInv, ToldInv, Telling, At, AllAnswered, DiagnosticsFollow, ActivityTypes

LEMMA AInvView == AInv => ViewMatchesEngine
<1>1. SUFFICES ASSUME AInv, Live, events = <<>>
               PROVE  IsPart(view) /\ (~viewLost => Agrees(view))
  BY DEF ViewMatchesEngine, IsPart, Agrees
<1>2. PICK vs : Chain(vs, view, events) /\ LeadsTo(vs[Len(events)])
  BY <1>1 DEF AInv, PipeInv
<1>3. Len(events) = 0
  BY <1>1
<1>4. QED
  BY <1>1, <1>2, <1>3 DEF Chain, LeadsTo

LEMMA AInvTruth == AInv => ViewIsTruthful
<1> DEFINE met == {i \in DOMAIN alarms : Holds(alarms[i], value[alarms[i].tag])}
<1>1. SUFFICES ASSUME AInv, AllAnswered, worker = "subscribed", commands = 0, due = {}, events = <<>>,
                      ~loadFailed, ~untold
               PROVE  /\ view.active \subseteq met \ diagnostics.awaiting
                      /\ ~viewLost => view.active = met \ diagnostics.awaiting
  BY DEF ViewIsTruthful
<1>2. diagnostics.loaded = alarms
  BY <1>1, AInvDiagnostics DEF DiagnosticsFollow
<1>3. IsPart(view) /\ (~viewLost => view.active = diagnostics.active)
  <2>1. PICK vs : Chain(vs, view, events) /\ LeadsTo(vs[Len(events)])
    BY <1>1 DEF AInv, PipeInv
  <2>2. Len(events) = 0
    BY <1>1
  <2>3. QED
    BY <1>1, <2>1, <2>2 DEF Chain, LeadsTo, Agrees, Live
<1>4. diagnostics.active \subseteq DOMAIN alarms
  BY <1>1, <1>2 DEF AInv, ActivityTypes
<1>5. diagnostics.awaiting \cap diagnostics.active = {}
  BY <1>1 DEF AInv, EngineInv
<1>6. \A i \in view.active : Met(i) /\ i \in diagnostics.active
  BY <1>1, <1>3 DEF IsPart
<1>7. view.active \subseteq met \ diagnostics.awaiting
  BY <1>2, <1>4, <1>5, <1>6 DEF Met
<1>8. ASSUME ~viewLost
      PROVE  view.active = met \ diagnostics.awaiting
  <2>1. \A i \in DOMAIN alarms \ diagnostics.awaiting :
          i \in diagnostics.active <=> Holds(alarms[i], value[alarms[i].tag])
    BY <1>1, <1>2, <1>8 DEF AInv, EngineInv, Met
  <2>2. QED
    BY <1>3, <1>4, <1>5, <1>8, <2>1
<1>9. QED
  BY <1>7, <1>8

(***************************************************************************)
(* A connected worker without a reload command uses the mappings that are  *)
(* configured (DiagnosticsFollow).                                         *)
(***************************************************************************)
THEOREM WorkerFollows == Spec => []DiagnosticsFollow
BY AlarmInvariant, AInvDiagnostics, PTL

(***************************************************************************)
(* Once its events are read, the supervisor's view is the engine's, and a  *)
(* part of it where an error - a failed load, an exception in observe -    *)
(* has emptied the view since the last load (ViewMatchesEngine).           *)
(***************************************************************************)
THEOREM ViewMatches == Spec => []ViewMatchesEngine
BY AlarmInvariant, AInvView, PTL

(***************************************************************************)
(* In a quiet system the view lists only alarms whose condition holds, and *)
(* all of them but those still without a value, or lost with an exception  *)
(* in observe since the last load (ViewIsTruthful).                        *)
(***************************************************************************)
THEOREM ViewTellsTheTruth == Spec => []ViewIsTruthful
BY AlarmInvariant, AInvTruth, PTL

-----------------------------------------------------------------------------
(***************************************************************************)
(* The reload node: k writes after the value the player saw last, each of  *)
(* them of another request, so that k and the requests that may still      *)
(* write are no more than the requests there were.  As long as there are   *)
(* fewer of them than the node has values, the node does not come back to  *)
(* the value the player saw.                                               *)
(***************************************************************************)
Busy    == {"creating", "updating", "deleting", "saved", "announcing", "writing"}
Pending == {t \in Threads : request[t].pc \in Busy}

\* t will write a value the player has not seen, if none was written since.
Carries(t) ==
    \/ At(t, "announcing")
    \/ At(t, "saved") /\ request[t].id \in DOMAIN alarms
    \/ At(t, "writing") /\ request[t].read = player.seen

Ahead(k) ==
    /\ node = player.seen + k \/ node = player.seen + k - ReloadModulus
    /\ k + Cardinality(Pending) <= requests
    /\ ~unannounced => player.loaded = alarms \/ k >= 1 \/ \E t \in Threads : Carries(t)

PlayerInv ==
    /\ IsFiniteSet(Pending) /\ Cardinality(Pending) <= requests /\ requests <= MaxRequests
    /\ ~setBack => \E k \in Nat : Ahead(k)

LEMMA PendingIs ==
    ASSUME NEW t \in Threads, MappingTypes, IsFiniteSet(Pending), NEW r, Becomes(t, r)
    PROVE  /\ IsFiniteSet(Pending') /\ Cardinality(Pending) \in Nat /\ Cardinality(Pending') \in Nat
           /\ r.pc \in Busy => Cardinality(Pending') <= Cardinality(Pending) + 1
           /\ r.pc \in Busy /\ request[t].pc \in Busy => Cardinality(Pending') = Cardinality(Pending)
           /\ r.pc \notin Busy => Cardinality(Pending') <= Cardinality(Pending)
           /\ r.pc \notin Busy /\ request[t].pc \in Busy => Cardinality(Pending') = Cardinality(Pending) - 1
<1>1. request'[t] = r /\ \A u \in Threads : u # t => request'[u] = request[u]
  BY OthersWait
<1>2. r.pc \in Busy => Pending' = Pending \cup {t}
  BY <1>1 DEF Pending
<1>3. r.pc \notin Busy => Pending' = Pending \ {t}
  BY <1>1 DEF Pending
<1>4. t \in Pending <=> request[t].pc \in Busy
  BY DEF Pending
<1>5. /\ IsFiniteSet(Pending \cup {t}) /\ IsFiniteSet(Pending \ {t})
      /\ Cardinality(Pending) \in Nat
      /\ Cardinality(Pending \cup {t}) = IF t \in Pending THEN Cardinality(Pending) ELSE Cardinality(Pending) + 1
      /\ Cardinality(Pending \ {t}) = IF t \in Pending THEN Cardinality(Pending) - 1 ELSE Cardinality(Pending)
  BY FS_AddElement, FS_RemoveElement, FS_CardinalityType
<1>6. IsFiniteSet(Pending') /\ Cardinality(Pending') \in Nat
  BY <1>2, <1>3, <1>5, FS_CardinalityType
<1>7. CASE r.pc \in Busy
  <2>1. Cardinality(Pending') = IF t \in Pending THEN Cardinality(Pending) ELSE Cardinality(Pending) + 1
    BY <1>2, <1>5, <1>7
  <2>2. QED
    BY <1>4, <1>5, <1>6, <1>7, <2>1
<1>8. CASE r.pc \notin Busy
  <2>1. Cardinality(Pending') = IF t \in Pending THEN Cardinality(Pending) - 1 ELSE Cardinality(Pending)
    BY <1>3, <1>5, <1>8
  <2>2. QED
    BY <1>4, <1>5, <1>6, <1>8, <2>1
<1>9. QED
  BY <1>7, <1>8

LEMMA WaitersCarry ==
    ASSUME NEW t \in Threads, MappingTypes, NEW r, Becomes(t, r), UNCHANGED <<alarms, player>>,
           NEW u \in Threads, u # t, Carries(u)
    PROVE  Carries(u)'
BY OthersWait DEF Carries, At

\* A step that writes nothing and takes no announcement away.
LEMMA QuietStep ==
    ASSUME MappingTypes, PlayerInv, UNCHANGED <<node, player, setBack, unannounced>>,
           IsFiniteSet(Pending'), Cardinality(Pending) \in Nat, Cardinality(Pending') \in Nat,
           requests' \in Nat, requests' <= MaxRequests,
           Cardinality(Pending') - Cardinality(Pending) <= requests' - requests,
           \/ alarms' = alarms /\ \A k \in Nat : Ahead(k) /\ k = 0 /\ (\E u \in Threads : Carries(u))
                                              => \E u \in Threads : Carries(u)'
           \/ \E u \in Threads : Carries(u)'
    PROVE  PlayerInv'
<1>1. requests \in Nat
  BY DEF MappingTypes
<1>2. Cardinality(Pending') <= requests'
  BY <1>1 DEF PlayerInv
<1>3. ASSUME ~setBack'
      PROVE  \E k \in Nat : Ahead(k)'
  <2>1. PICK k \in Nat : Ahead(k)
    BY <1>3 DEF PlayerInv
  <2>2. k + Cardinality(Pending') <= requests'
    BY <1>1, <2>1 DEF Ahead
  <2>3. ~unannounced' => player'.loaded = alarms' \/ k >= 1 \/ \E u \in Threads : Carries(u)'
    BY <2>1 DEF Ahead
  <2>4. Ahead(k)'
    BY <2>1, <2>2, <2>3 DEF Ahead
  <2>5. QED
    BY <2>4
<1>4. QED
  BY <1>2, <1>3 DEF PlayerInv

\* A step after which an announcement is missing.
LEMMA MissingAnnouncement ==
    ASSUME MappingTypes, PlayerInv, UNCHANGED <<node, player, setBack, requests>>, unannounced',
           IsFiniteSet(Pending'), Cardinality(Pending) \in Nat, Cardinality(Pending') \in Nat,
           Cardinality(Pending') <= Cardinality(Pending)
    PROVE  PlayerInv'
<1>1. requests \in Nat
  BY DEF MappingTypes
<1>2. Cardinality(Pending') <= requests'
  BY <1>1 DEF PlayerInv
<1>3. ASSUME ~setBack'
      PROVE  \E k \in Nat : Ahead(k)'
  <2>1. PICK k \in Nat : Ahead(k)
    BY <1>3 DEF PlayerInv
  <2>2. k + Cardinality(Pending') <= requests'
    BY <1>1, <2>1 DEF Ahead
  <2>3. Ahead(k)'
    BY <2>1, <2>2 DEF Ahead
  <2>4. QED
    BY <2>3
<1>4. QED
  BY <1>2, <1>3 DEF PlayerInv

LEMMA BeginsKeepPlayer ==
    ASSUME NEW t \in Threads, MappingTypes, PlayerInv, BeginCreate(t) \/ BeginUpdate(t) \/ BeginDelete(t)
    PROVE  PlayerInv'
<1>1. PICK r : Becomes(t, r) /\ r.pc \in {"idle", "creating", "updating", "deleting"}
  <2>1. CASE BeginCreate(t)
    BY <2>1 DEF BeginCreate, IdleRequest
  <2>2. CASE BeginUpdate(t)
    BY <2>2 DEF BeginUpdate
  <2>3. CASE BeginDelete(t)
    BY <2>3 DEF BeginDelete
  <2>4. QED
    BY <2>1, <2>2, <2>3
<1>2. /\ UNCHANGED <<alarms, node, player, setBack, unannounced>> /\ At(t, "idle")
      /\ requests' = requests + 1 /\ requests < MaxRequests
  BY DEF BeginCreate, BeginUpdate, BeginDelete, Begin
<1>3. /\ IsFiniteSet(Pending') /\ Cardinality(Pending) \in Nat /\ Cardinality(Pending') \in Nat
      /\ Cardinality(Pending') <= Cardinality(Pending) + 1
  BY <1>1, PendingIs DEF PlayerInv
<1>4. requests \in Nat /\ requests' \in Nat /\ requests' <= MaxRequests
      /\ Cardinality(Pending') - Cardinality(Pending) <= requests' - requests
  BY <1>2, <1>3, AlarmConstants DEF MappingTypes
<1>5. ~Carries(t)
  BY <1>2 DEF Carries, At
<1>6. \A u \in Threads : Carries(u) => Carries(u)'
  BY <1>1, <1>2, <1>5, WaitersCarry
<1>7. QED
  BY <1>2, <1>3, <1>4, <1>6, QuietStep

LEMMA ChangesKeepPlayer ==
    ASSUME NEW t \in Threads, MappingTypes, PlayerInv, Inserted(t) \/ Updated(t) \/ Deleted(t)
    PROVE  PlayerInv'
<1>1. UNCHANGED <<node, player, setBack, unannounced, requests>>
  BY DEF Inserted, Updated, Deleted
<1>2. PICK r : Becomes(t, r) /\ r.pc \in Busy /\ request[t].pc \in Busy /\ ~Carries(t)
  <2>1. CASE Inserted(t)
    BY <2>1 DEF Inserted, Busy, Carries, At
  <2>2. CASE Updated(t)
    BY <2>2 DEF Updated, Busy, Carries, At
  <2>3. CASE Deleted(t)
    BY <2>3 DEF Deleted, Busy, Carries, At
  <2>4. QED
    BY <2>1, <2>2, <2>3
<1>3. /\ IsFiniteSet(Pending') /\ Cardinality(Pending) \in Nat /\ Cardinality(Pending') \in Nat
      /\ Cardinality(Pending') = Cardinality(Pending)
  BY <1>2, PendingIs DEF PlayerInv
<1>4. requests' \in Nat /\ requests' <= MaxRequests
      /\ Cardinality(Pending') - Cardinality(Pending) <= requests' - requests
  BY <1>1, <1>3 DEF MappingTypes, PlayerInv
<1>5. Carries(t)' \/ alarms' = alarms
  <2>1. CASE Inserted(t)
    <3>1. request'[t] = [pc |-> "saved", id |-> lastId + 1] /\ lastId + 1 \in DOMAIN alarms'
      BY <2>1, OthersWait DEF Inserted
    <3>2. QED
      BY <3>1 DEF Carries, At
  <2>2. CASE Updated(t)
    <3>1. request'[t] = [pc |-> "saved", id |-> request[t].id] /\ DOMAIN alarms' = DOMAIN alarms
      BY <2>2, OthersWait DEF Updated
    <3>2. QED
      BY <2>2, <3>1, SamePlace DEF Carries, At
  <2>3. CASE Deleted(t)
    BY <2>3, OthersWait DEF Deleted, Carries, At
  <2>4. QED
    BY <2>1, <2>2, <2>3
<1>6. alarms' = alarms => \A u \in Threads : Carries(u) => Carries(u)'
  BY <1>1, <1>2, WaitersCarry
<1>7. QED
  BY <1>1, <1>3, <1>4, <1>5, <1>6, QuietStep

LEMMA EndsKeepPlayer ==
    ASSUME NEW t \in Threads, MappingTypes, PlayerInv,
           TransactionFails(t) \/ ReadBackFindsNothing(t) \/ Answered(t) \/ ReadBack(t)
    PROVE  PlayerInv'
<1>1. UNCHANGED <<alarms, node, player, setBack, unannounced, requests>>
  BY DEF TransactionFails, ReadBackFindsNothing, Answered, ReadBack
<1>2. PICK r : /\ Becomes(t, r)
               /\ r.pc \notin Busy \/ request[t].pc \in Busy
               /\ Carries(t) => r.pc = "announcing"
  <2>1. CASE TransactionFails(t)
    BY <2>1 DEF TransactionFails, IdleRequest, Busy, Carries, At
  <2>2. CASE ReadBackFindsNothing(t)
    BY <2>2 DEF ReadBackFindsNothing, IdleRequest, Busy, Carries, At
  <2>3. CASE Answered(t)
    BY <2>3 DEF Answered, IdleRequest, Busy, Carries, At
  <2>4. CASE ReadBack(t)
    BY <2>4 DEF ReadBack, Busy, At
  <2>5. QED
    BY <2>1, <2>2, <2>3, <2>4
<1>3. /\ IsFiniteSet(Pending') /\ Cardinality(Pending) \in Nat /\ Cardinality(Pending') \in Nat
      /\ Cardinality(Pending') <= Cardinality(Pending)
  <2>1. IsFiniteSet(Pending)
    BY DEF PlayerInv
  <2>2. QED
    BY <1>2, <2>1, PendingIs
<1>4. requests' \in Nat /\ requests' <= MaxRequests
      /\ Cardinality(Pending') - Cardinality(Pending) <= requests' - requests
  BY <1>1, <1>3 DEF MappingTypes, PlayerInv
<1>5. Carries(t) => Carries(t)'
  BY <1>2, OthersWait DEF Carries, At
<1>6. \A u \in Threads : Carries(u) => Carries(u)'
  BY <1>1, <1>2, <1>5, WaitersCarry
<1>7. QED
  BY <1>1, <1>3, <1>4, <1>6, QuietStep

LEMMA FailuresKeepPlayer ==
    ASSUME NEW t \in Threads, MappingTypes, PlayerInv, ReadBackFails(t) \/ AnnouncementFails(t)
    PROVE  PlayerInv'
<1>1. UNCHANGED <<node, player, setBack, requests>> /\ unannounced'
  BY DEF ReadBackFails, AnnouncementFails
<1>2. PICK r : Becomes(t, r) /\ r.pc \notin Busy
  BY DEF ReadBackFails, AnnouncementFails, IdleRequest, Busy
<1>3. /\ IsFiniteSet(Pending') /\ Cardinality(Pending) \in Nat /\ Cardinality(Pending') \in Nat
      /\ Cardinality(Pending') <= Cardinality(Pending)
  BY <1>2, PendingIs DEF PlayerInv
<1>4. QED
  BY <1>1, <1>3, MissingAnnouncement

LEMMA ReadKeepsPlayer ==
    ASSUME NEW t \in Threads, MappingTypes, PlayerInv, ReadNode(t)
    PROVE  PlayerInv'
<1>1. UNCHANGED <<alarms, node, player, setBack, unannounced, requests>>
  BY DEF ReadNode
<1>2. Becomes(t, [pc |-> "writing", read |-> node]) /\ request[t].pc \in Busy
  BY DEF ReadNode, At, Busy
<1>3. /\ IsFiniteSet(Pending') /\ Cardinality(Pending) \in Nat /\ Cardinality(Pending') \in Nat
      /\ Cardinality(Pending') = Cardinality(Pending)
  BY <1>2, PendingIs DEF PlayerInv, Busy
<1>4. requests' \in Nat /\ requests' <= MaxRequests
      /\ Cardinality(Pending') - Cardinality(Pending) <= requests' - requests
  BY <1>1, <1>3 DEF MappingTypes, PlayerInv
<1>5. ASSUME NEW k \in Nat, Ahead(k), k = 0
      PROVE  Carries(t)'
  <2>1. node = player.seen
    <3>1. node \in Nat /\ player.seen \in Nat /\ node < ReloadModulus /\ player.seen < ReloadModulus
          /\ ReloadModulus \in Nat
      BY AlarmConstants DEF MappingTypes, Nodes
    <3>2. QED
      BY <1>5, <3>1 DEF Ahead
  <2>2. request'[t] = [pc |-> "writing", read |-> node]
    BY <1>2, OthersWait
  <2>3. QED
    BY <1>1, <2>1, <2>2 DEF Carries, At
<1>6. QED
  BY <1>1, <1>3, <1>4, <1>5, QuietStep

LEMMA OneFurther ==
    ASSUME NEW M \in Nat \ {0}, NEW n \in 0..M - 1, NEW s \in 0..M - 1, NEW k \in Nat, k < M,
           n = s + k \/ n = s + k - M,
           NEW next, next = IF n + 1 = M THEN 0 ELSE n + 1
    PROVE  next = s + (k + 1) \/ next = s + (k + 1) - M
OBVIOUS

LEMMA WriteKeepsPlayer ==
    ASSUME MaxRequests < ReloadModulus,
           NEW t \in Threads, MappingTypes, PlayerInv, WriteNode(t)
    PROVE  PlayerInv'
<1>1. /\ UNCHANGED <<alarms, player, unannounced, requests>>
      /\ node' = Incremented(request[t].read)
      /\ setBack' = (setBack \/ node' \notin {node, Incremented(node)})
      /\ Becomes(t, [pc |-> "notifying"]) /\ request[t].pc \in Busy
  BY DEF WriteNode, At, Busy
<1>2. /\ IsFiniteSet(Pending') /\ Cardinality(Pending) \in Nat /\ Cardinality(Pending') \in Nat
      /\ Cardinality(Pending') = Cardinality(Pending) - 1
  BY <1>1, PendingIs DEF PlayerInv, Busy
<1>3. requests \in Nat /\ MaxRequests \in Nat /\ ReloadModulus \in Nat \ {0} /\ node \in Nodes
      /\ player.seen \in Nodes /\ requests <= MaxRequests
  BY AlarmConstants DEF MappingTypes, PlayerInv
<1>4. Cardinality(Pending') <= requests'
  BY <1>1, <1>2, <1>3 DEF PlayerInv
<1>5. ASSUME ~setBack'
      PROVE  \E k \in Nat : Ahead(k)'
  <2>1. PICK k \in Nat : Ahead(k)
    BY <1>1, <1>5 DEF PlayerInv
  <2>2. k + Cardinality(Pending) <= requests
    BY <2>1 DEF Ahead
  <2>3. k < ReloadModulus
    BY <1>2, <1>3, <2>2
  <2>4. CASE node' = Incremented(node)
    <3>1. Incremented(node) = IF node + 1 = ReloadModulus THEN 0 ELSE node + 1
      BY <1>3, NextValue
    <3>2. node' = player.seen + (k + 1) \/ node' = player.seen + (k + 1) - ReloadModulus
      <4>1. node = player.seen + k \/ node = player.seen + k - ReloadModulus
        BY <2>1 DEF Ahead
      <4>2. node \in 0..ReloadModulus - 1 /\ player.seen \in 0..ReloadModulus - 1
        BY <1>3 DEF Nodes
      <4>3. QED
        BY <1>3, <2>3, <2>4, <3>1, <4>1, <4>2, OneFurther
    <3>3. (k + 1) + Cardinality(Pending') <= requests'
      BY <1>1, <1>2, <1>3, <2>2
    <3>4. Ahead(k + 1)'
      BY <1>1, <3>2, <3>3 DEF Ahead
    <3>5. QED
      BY <3>4
  <2>5. CASE node' # Incremented(node)
    <3>1. node' = node
      BY <1>1, <1>5, <2>5
    <3>2. k + Cardinality(Pending') <= requests'
      BY <1>1, <1>2, <1>3, <2>2
    <3>3. ASSUME k = 0, Carries(t) PROVE FALSE
      <4>1. node = player.seen
        BY <1>3, <2>1, <3>3 DEF Ahead, Nodes
      <4>2. request[t].read = player.seen
        BY <3>3 DEF Carries, WriteNode, At
      <4>3. QED
        BY <1>1, <2>5, <4>1, <4>2
    <3>4. ~unannounced' => player'.loaded = alarms' \/ k >= 1 \/ \E u \in Threads : Carries(u)'
      <4>1. CASE k >= 1
        BY <4>1
      <4>2. CASE k = 0
        <5>1. \A u \in Threads : Carries(u) => Carries(u)'
          BY <1>1, <3>3, <4>2, WaitersCarry
        <5>2. QED
          BY <1>1, <2>1, <4>2, <5>1 DEF Ahead
      <4>3. QED
        BY <4>1, <4>2
    <3>5. Ahead(k)'
      BY <1>1, <2>1, <3>1, <3>2, <3>4 DEF Ahead
    <3>6. QED
      BY <3>5
  <2>6. QED
    BY <2>4, <2>5
<1>6. QED
  BY <1>1, <1>2, <1>3, <1>4, <1>5 DEF PlayerInv

LEMMA SampleKeepsPlayer ==
    ASSUME MappingTypes, PlayerInv, PlayerReloads
    PROVE  PlayerInv'
<1>1. /\ player' = [seen |-> node, loaded |-> alarms] /\ Pending' = Pending
      /\ UNCHANGED <<alarms, node, requests>>
  BY DEF PlayerReloads, Pending
<1>2. IsFiniteSet(Pending) /\ Cardinality(Pending) <= requests /\ requests <= MaxRequests
  BY DEF PlayerInv
<1>3. node \in Nat /\ node = node + 0 /\ Cardinality(Pending) \in Nat
  BY <1>2, AlarmConstants, FS_CardinalityType DEF MappingTypes, Nodes
<1>4. node' = player'.seen + 0 /\ player'.loaded = alarms'
  BY <1>1, <1>3
<1>5. 0 + Cardinality(Pending') <= requests'
  BY <1>1, <1>2, <1>3
<1>6. Ahead(0)'
  BY <1>4, <1>5 DEF Ahead
<1>7. QED
  BY <1>1, <1>2, <1>6 DEF PlayerInv

LEMMA PlayerKeeps ==
    ASSUME MaxRequests < ReloadModulus, MappingTypes, PlayerInv, [Next]_vars
    PROVE  PlayerInv'
<1>1. CASE UNCHANGED mappingsOnly
  BY <1>1 DEF mappingsOnly, PlayerInv, Ahead, Pending, Carries, At
<1>2. ASSUME NEW t \in Threads, RequestStep(t) \/ Answered(t)
      PROVE  PlayerInv'
  BY <1>2, BeginsKeepPlayer, ChangesKeepPlayer, EndsKeepPlayer, FailuresKeepPlayer, ReadKeepsPlayer,
     WriteKeepsPlayer DEF RequestStep
<1>3. CASE \E t \in Threads : Request(t) \/ Notify(t)
  BY <1>2, <1>3 DEF Request, Notify
<1>4. CASE Player
  BY <1>4, SampleKeepsPlayer DEF Player
<1>5. CASE SessionBegins \/ TakeReload \/ SessionEnds \/ WorkerEnds
  BY <1>1, <1>5 DEF SessionBegins, TakeReload, SessionEnds, WorkerEnds
<1>6. CASE \/ DropReload \/ MonitorReads \/ MonitorSeesExit \/ Respawn
           \/ \E t \in Tags : ValueChanges(t) \/ DataChange(t)
  BY <1>1, <1>6 DEF DropReload, MonitorReads, MonitorSeesExit, Respawn, ValueChanges, DataChange,
     mappingVars, mappingsOnly
<1>7. CASE UNCHANGED vars
  BY <1>1, <1>7 DEF vars, mappingVars, mappingsOnly
<1>8. QED
  BY <1>3, <1>4, <1>5, <1>6, <1>7 DEF Next

LEMMA InitPlayerInv == Init => PlayerInv
<1>1. SUFFICES ASSUME Init PROVE PlayerInv
  OBVIOUS
<1>2. Pending = {} /\ IsFiniteSet(Pending) /\ Cardinality(Pending) = 0
  BY <1>1, FS_EmptySet DEF Init, MappingsInit, Pending, Busy, IdleRequest
<1>3. node = player.seen + 0 /\ requests = 0 /\ player.loaded = alarms
  BY <1>1, AlarmConstants DEF Init, MappingsInit
<1>4. Ahead(0)
  BY <1>2, <1>3 DEF Ahead
<1>5. QED
  BY <1>2, <1>3, <1>4, AlarmConstants DEF PlayerInv

LEMMA PlayerInvFollows ==
    ASSUME MaxRequests < ReloadModulus, MappingTypes, PlayerInv
    PROVE  PlayerFollows
<1>1. SUFFICES ASSUME AllAnswered, node = player.seen, ~unannounced, ~setBack
               PROVE  player.loaded = alarms
  BY DEF PlayerFollows
<1>2. PICK k \in Nat : Ahead(k)
  BY <1>1 DEF PlayerInv
<1>3. \A t \in Threads : ~Carries(t)
  BY <1>1 DEF AllAnswered, Carries, At
<1>4. k < ReloadModulus
  <2>1. k + Cardinality(Pending) <= requests /\ requests <= MaxRequests /\ Cardinality(Pending) \in Nat
    BY <1>2, FS_CardinalityType DEF Ahead, PlayerInv
  <2>2. QED
    BY <2>1, AlarmConstants DEF MappingTypes
<1>5. k = 0
  <2>1. node \in Nat /\ ReloadModulus \in Nat
    BY AlarmConstants DEF MappingTypes, Nodes
  <2>2. QED
    BY <1>1, <1>2, <1>4, <2>1 DEF Ahead
<1>6. QED
  BY <1>1, <1>2, <1>3, <1>5 DEF Ahead

(***************************************************************************)
(* Once every request is answered and the player has seen the node, it     *)
(* plays the alarms that are configured (PlayerFollows), as long as there  *)
(* are fewer requests than the node has values: with as many, the node may *)
(* come back to the value the player saw before it samples it again.       *)
(***************************************************************************)
THEOREM PlayerPlaysWhatIsConfigured ==
    ASSUME MaxRequests < ReloadModulus
    PROVE  Spec => []PlayerFollows
<1>1. MappingTypes /\ ActivityTypes /\ PlayerInv /\ [Next]_vars => (MappingTypes /\ ActivityTypes /\ PlayerInv)'
  BY NextTyped, PlayerKeeps
<1>2. MappingTypes /\ ActivityTypes /\ PlayerInv => PlayerFollows
  BY PlayerInvFollows
<1>3. QED
  BY InitTyped, InitPlayerInv, <1>1, <1>2, PTL DEF Spec
=============================================================================
