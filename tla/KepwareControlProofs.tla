------------------------ MODULE KepwareControlProofs ------------------------
(***************************************************************************)
(* Proofs that browsing shows what a creation was answered for, that the   *)
(* control writes only below what is its own, and that a bootstrap         *)
(* which nothing disturbs completes, for any number of threads, failures   *)
(* and changes made by somebody else.                                      *)
(***************************************************************************)
EXTENDS KepwareControl, TLAPS

Made == {"invalidate", "verify"}

\* The cache does not lack the object, nor does a browser hold an answer that does.
Shown(n) == cache[n] # "lacks" /\ ~(fetch.level = n /\ ~fetch.lists)

OpTypes ==
    /\ op = [t \in Threads |-> op[t]]
    /\ \A t \in Threads : /\ DOMAIN op[t] = {"phase", "at", "level", "seen"}
                          /\ op[t].level \in Levels
CacheTypes ==
    /\ project \in [Levels -> {"absent", "ours", "foreign", "drift"}]
    /\ \A n \in Levels : project[n] \in Kinds(n)
    /\ cache \in [Levels -> {"none", "lists", "lacks"}]
    /\ fetch \in [level : 0..4, lists : BOOLEAN]
    /\ reported \subseteq Levels

\* An object that was answered for is there and shown; one that an undisturbed
\* operation has made is there, and shown once its collection was invalidated.
Answered   == \A n \in reported : Listed(n) /\ Shown(n)
Underway(t) ==
    /\ op[t].at \in Made => Listed(op[t].level)
    /\ op[t].at = "verify" => Shown(op[t].level)

KepwareInv == OpTypes /\ CacheTypes /\ Answered /\ \A t \in Threads \ disturbed : Underway(t)

-----------------------------------------------------------------------------
\* What the parts of an operation do to its record.
OnlyOp(t) == OpTypes' /\ \A u \in Threads \ {t} : op'[u] = op[u]

LEMMA GoToFacts ==
    ASSUME OpTypes, NEW t \in Threads, NEW phase, NEW at, NEW n \in Levels,
           GoTo(t, phase, at, n)
    PROVE  OnlyOp(t) /\ op'[t].at = at /\ op'[t].level = n
BY DEF OpTypes, GoTo, OnlyOp

LEMMA AnswerFacts ==
    ASSUME OpTypes, NEW t \in Threads, NEW state, Answer(t, state)
    PROVE  OnlyOp(t) /\ op'[t].at = "idle"
BY DEF OpTypes, Answer, OnlyOp, IdleOp, Levels, Channel, TagLevel

LEMMA AfterInspectFacts ==
    ASSUME OpTypes, NEW t \in Threads, NEW state, AfterInspect(t, state)
    PROVE  OnlyOp(t) /\ op'[t].at \notin Made
<1>1. CASE \E s : Answer(t, s)
  BY <1>1, AnswerFacts DEF Made
<1>2. CASE \E p : \E n \in Levels, at \in {"enter", "inspect", "read", "check", "group"} :
             GoTo(t, p, at, n)
  BY <1>2, GoToFacts DEF Made
<1>3. {1, Channel, Device, Group, TagLevel} \subseteq Levels
  BY DEF Levels, Channel, Device, Group, TagLevel
<1> QED
  BY <1>1, <1>2, <1>3 DEF AfterInspect, GoTo

LEMMA AfterCreateFacts ==
    ASSUME OpTypes, NEW t \in Threads, AfterCreate(t)
    PROVE  OnlyOp(t) /\ op'[t].at \notin Made
<1>1. 1 \in Levels
  BY DEF Levels, Channel, TagLevel
<1>2. (\E s : Answer(t, s)) \/ \E p : \E at \in {"inspect", "group"} : GoTo(t, p, at, 1)
  BY DEF AfterCreate
<1> QED
  BY <1>1, <1>2, AnswerFacts, GoToFacts DEF Made

\* An object of the control's own may be on any level.
LEMMA OursIsAKind == \A n : "ours" \in Kinds(n)
BY DEF Kinds

\* A collection is stored as the server has it.
LEMMA StoresFacts ==
    ASSUME CacheTypes, NEW m \in Levels, Stores(m) \/ UNCHANGED cache, UNCHANGED fetch
    PROVE  /\ cache' \in [Levels -> {"none", "lists", "lacks"}]
           /\ \A n \in Levels : Listed(n) /\ Shown(n) => Shown(n)'
BY DEF CacheTypes, Stores, Cached, Listed, Shown

-----------------------------------------------------------------------------
\* A step that takes nothing away, answers for nothing and makes nothing.
LEMMA Harmless ==
    ASSUME KepwareInv, OpTypes', CacheTypes',
           \A n \in Levels : Listed(n) => Listed(n)',
           \A n \in Levels : Listed(n) /\ Shown(n) => Shown(n)',
           reported' \subseteq reported,
           \A t \in Threads : op'[t].at \in Made =>
               op'[t] = op[t] /\ (t \in disturbed => t \in disturbed')
    PROVE  KepwareInv'
<1>1. Answered'
  BY DEF KepwareInv, CacheTypes, Answered
<1>2. ASSUME NEW t \in Threads, t \notin disturbed' PROVE Underway(t)'
  <2>1. CASE op'[t].at \in Made
    <3>1. op'[t] = op[t] /\ Underway(t) /\ op[t].level \in Levels
      BY <1>2, <2>1 DEF KepwareInv, OpTypes
    <3> QED
      BY <2>1, <3>1 DEF Underway, Made
  <2>2. CASE op'[t].at \notin Made
    BY <2>2 DEF Underway, Made
  <2> QED
    BY <2>1, <2>2
<1> QED
  BY <1>1, <1>2 DEF KepwareInv

LEMMA HarmlessOf ==
    ASSUME KepwareInv, NEW t \in Threads, OnlyOp(t), op'[t].at \notin Made, CacheTypes',
           \A n \in Levels : Listed(n) => Listed(n)',
           \A n \in Levels : Listed(n) /\ Shown(n) => Shown(n)',
           reported' \subseteq reported, disturbed \subseteq disturbed' \cup {t}
    PROVE  KepwareInv'
BY Harmless DEF OnlyOp

LEMMA KepwareStarts == ASSUME KepwareInit PROVE KepwareInv
BY KepwareConstants
   DEF KepwareConstants, KepwareInit, KepwareInv, OpTypes, CacheTypes, Answered, Underway, Made,
       IdleOp, NoFetch, Levels, Channel, TagLevel

-----------------------------------------------------------------------------
(* The server, whoever else works on it, and the browsers.                 *)

\* What an edit of an object leaves.
LEMMA EditFacts ==
    ASSUME CacheTypes, SomebodyEdits
    PROVE  \E n \in Levels, kind \in {"absent", "ours", "foreign", "drift"}, kept \in BOOLEAN :
             /\ kind \in Kinds(n) /\ Reachable(n) /\ (kind = "absent" => kept = FALSE)
             /\ project' \in [Levels -> {"absent", "ours", "foreign", "drift"}]
             /\ project'[n] = kind
             /\ \A m \in Levels : m < n => project'[m] = project[m]
             /\ \A m \in Levels : n < m => project'[m] = IF kept = TRUE THEN project[m] ELSE "absent"
             /\ reported' = IF kept = TRUE THEN reported ELSE {m \in reported : m < n}
<1>1. PICK n \in Levels : \E kind \in Kinds(n), kept \in BOOLEAN :
         /\ Reachable(n)
         /\ kind = "absent" => Listed(n) /\ ~kept
         /\ project' = [m \in Levels |-> CASE m < n -> project[m]
                                           [] m = n -> kind
                                           [] OTHER -> IF kept THEN project[m] ELSE "absent"]
         /\ reported' = IF kept THEN reported ELSE {m \in reported : m < n}
  BY DEF SomebodyEdits
<1>2. PICK kind \in Kinds(n) : \E kept \in BOOLEAN :
         /\ Reachable(n)
         /\ kind = "absent" => Listed(n) /\ ~kept
         /\ project' = [m \in Levels |-> CASE m < n -> project[m]
                                           [] m = n -> kind
                                           [] OTHER -> IF kept THEN project[m] ELSE "absent"]
         /\ reported' = IF kept THEN reported ELSE {m \in reported : m < n}
  BY <1>1
<1>3. PICK kept \in BOOLEAN :
         /\ Reachable(n)
         /\ kind = "absent" => Listed(n) /\ ~kept
         /\ project' = [m \in Levels |-> CASE m < n -> project[m]
                                           [] m = n -> kind
                                           [] OTHER -> IF kept THEN project[m] ELSE "absent"]
         /\ reported' = IF kept THEN reported ELSE {m \in reported : m < n}
  BY <1>2
<1>4. kind \in {"absent", "ours", "foreign", "drift"}
  BY DEF Kinds
<1>5. \A m \in Levels : project[m] \in {"absent", "ours", "foreign", "drift"}
  BY DEF CacheTypes
<1>6. project' \in [Levels -> {"absent", "ours", "foreign", "drift"}]
  BY <1>3, <1>4, <1>5
<1>7. project'[n] = kind /\ \A m \in Levels : m < n => project'[m] = project[m]
  BY <1>3 DEF Levels, Channel, TagLevel
<1>8. \A m \in Levels : n < m => project'[m] = IF kept = TRUE THEN project[m] ELSE "absent"
  <2>1. \A m \in Levels : n < m => ~(m < n) /\ m # n
    BY DEF Levels, Channel, TagLevel
  <2> QED
    BY <1>3, <2>1
<1>9. /\ Reachable(n) /\ (kind = "absent" => kept = FALSE)
      /\ reported' = IF kept = TRUE THEN reported ELSE {m \in reported : m < n}
  BY <1>3
<1> QED
  BY <1>4, <1>6, <1>7, <1>8, <1>9

\* Every level is the edited one, above it or below it.
LEMMA LevelsCompare ==
    \A m, n \in Levels : m < n \/ m = n \/ n < m
BY DEF Levels, Channel, TagLevel

LEMMA EditsKeep ==
    ASSUME KepwareInv, SomebodyEdits PROVE KepwareInv'
<1>1. UNCHANGED <<op, cache, fetch>> /\ disturbed' = Threads
  BY DEF SomebodyEdits, Disturb, client
<1>2. CacheTypes
  BY DEF KepwareInv
<1>3. PICK n \in Levels, kind \in {"absent", "ours", "foreign", "drift"}, kept \in BOOLEAN :
             /\ kind \in Kinds(n) /\ Reachable(n) /\ (kind = "absent" => kept = FALSE)
             /\ project' \in [Levels -> {"absent", "ours", "foreign", "drift"}]
             /\ project'[n] = kind
             /\ \A m \in Levels : m < n => project'[m] = project[m]
             /\ \A m \in Levels : n < m => project'[m] = IF kept = TRUE THEN project[m] ELSE "absent"
             /\ reported' = IF kept = TRUE THEN reported ELSE {m \in reported : m < n}
  BY <1>2, EditFacts
<1>4. \A m \in Levels : "absent" \in Kinds(m)
  BY DEF Kinds
<1>5. \A m \in Levels : project'[m] \in Kinds(m)
  BY <1>2, <1>3, <1>4, LevelsCompare DEF CacheTypes
<1>6. reported' \subseteq reported
  BY <1>3
<1>7. CacheTypes'
  BY <1>1, <1>2, <1>3, <1>5, <1>6 DEF CacheTypes
<1>8. Answered'
  <2>1. ASSUME NEW m \in reported' PROVE Listed(m)'
    <3>1. m \in Levels /\ Listed(m)
      BY <1>2, <1>6, <2>1 DEF KepwareInv, CacheTypes, Answered
    <3>2. CASE kept = TRUE
      BY <1>3, <3>1, <3>2, LevelsCompare DEF Listed
    <3>3. CASE kept # TRUE
      BY <1>3, <2>1, <3>1, <3>3 DEF Listed
    <3> QED
      BY <3>2, <3>3
  <2> QED
    BY <1>1, <1>6, <2>1 DEF KepwareInv, Answered, Shown
<1> QED
  BY <1>1, <1>7, <1>8 DEF KepwareInv, OpTypes

LEMMA LateKeeps ==
    ASSUME KepwareInv, NEW k \in Levels, LateCreation(k) PROVE KepwareInv'
<1>1. /\ UNCHANGED <<op, cache, fetch, reported>> /\ disturbed' = Threads
      /\ project' = project \/ project' = [project EXCEPT ![k] = "ours"]
  BY DEF LateCreation, Disturb, client
<1>2. CacheTypes' /\ \A n \in Levels : Listed(n) => Listed(n)'
  BY <1>1, OursIsAKind DEF KepwareInv, CacheTypes, Listed
<1>3. OpTypes' /\ \A n \in Levels : Shown(n) => Shown(n)'
  BY <1>1 DEF KepwareInv, OpTypes, Shown
<1> QED
  BY <1>1, <1>2, <1>3, Harmless

LEMMA BrowsersKeep ==
    ASSUME KepwareInv, (\E k \in Levels : BrowserAsks(k)) \/ BrowserStores \/ CacheExpires
    PROVE  KepwareInv'
<1>1. UNCHANGED <<op, project, reported, disturbed>>
  BY DEF BrowserAsks, BrowserStores, CacheExpires, server, luck
<1>2. CacheTypes' /\ \A n \in Levels : Listed(n) /\ Shown(n) => Shown(n)'
  <2>1. ASSUME NEW k \in Levels, BrowserAsks(k)
        PROVE  CacheTypes' /\ \A n \in Levels : Listed(n) /\ Shown(n) => Shown(n)'
    <3>1. fetch' = [level |-> k, lists |-> Listed(k)] /\ UNCHANGED cache
      BY <2>1 DEF BrowserAsks
    <3>2. k \in 0..4 /\ Listed(k) \in BOOLEAN
      BY DEF Levels, Channel, TagLevel, Listed
    <3>3. /\ fetch'.level = k /\ fetch'.lists = Listed(k)
          /\ fetch' \in [level : 0..4, lists : BOOLEAN]
      BY <3>1, <3>2
    <3> QED
      BY <1>1, <3>1, <3>3 DEF KepwareInv, CacheTypes, Shown
  <2>2. CASE BrowserStores
    <3>1. /\ fetch # NoFetch /\ fetch' = NoFetch
          /\ cache' = [cache EXCEPT ![fetch.level] = IF fetch.lists THEN "lists" ELSE "lacks"]
      BY <2>2 DEF BrowserStores
    <3>2. cache' \in [Levels -> {"none", "lists", "lacks"}]
      BY <3>1 DEF KepwareInv, CacheTypes
    <3>3. fetch' \in [level : 0..4, lists : BOOLEAN] /\ fetch'.level = 0
      BY <3>1 DEF NoFetch
    <3>4. \A n \in Levels : Shown(n) => cache'[n] # "lacks"
      BY <3>1 DEF KepwareInv, CacheTypes, Shown
    <3>5. \A n \in Levels : n # 0
      BY DEF Levels, Channel, TagLevel
    <3> QED
      BY <1>1, <3>2, <3>3, <3>4, <3>5 DEF KepwareInv, CacheTypes, Shown
  <2>3. CASE CacheExpires
    <3>1. PICK ns : cache' = [n \in Levels |-> IF n \in ns THEN "none" ELSE cache[n]]
      BY <2>3 DEF CacheExpires
    <3>2. UNCHANGED fetch
      BY <2>3 DEF CacheExpires
    <3> QED
      BY <1>1, <3>1, <3>2 DEF KepwareInv, CacheTypes, Shown
  <2> QED
    BY <2>1, <2>2, <2>3
<1>3. OpTypes' /\ \A n \in Levels : Listed(n) => Listed(n)'
  BY <1>1 DEF KepwareInv, OpTypes, Listed
<1> QED
  BY <1>1, <1>2, <1>3, Harmless

-----------------------------------------------------------------------------
(* The operations.                                                         *)

\* Those that neither make an object nor verify one.
LEMMA ReadingKeeps ==
    ASSUME KepwareInv, NEW t \in Threads,
           \/ HealBegins(t) \/ CreatorBegins(t) \/ BootstrapEnters(t) \/ Inspect(t)
           \/ CheckGroup(t) \/ CheckAbsent(t) \/ ReadRevision(t) \/ VerifyUpdate(t)
    PROVE  KepwareInv'
<1>1. OpTypes /\ CacheTypes /\ op[t].level \in Levels
  BY DEF KepwareInv, OpTypes
<1>2. {1, Channel, Device, Group, TagLevel} \subseteq Levels
  BY DEF Levels, Channel, Device, Group, TagLevel
<1>3. UNCHANGED <<project, fetch, reported>>
  BY DEF HealBegins, CreatorBegins, BootstrapEnters, Inspect, CheckGroup, CheckAbsent,
         ReadRevision, VerifyUpdate, server, client
<1>4. UNCHANGED cache \/ \E m \in Levels : Stores(m)
  BY <1>1, <1>2
     DEF HealBegins, CreatorBegins, BootstrapEnters, Inspect, CheckGroup, CheckAbsent,
         ReadRevision, VerifyUpdate, client
<1>5. /\ CacheTypes' /\ \A n \in Levels : Listed(n) => Listed(n)'
      /\ \A n \in Levels : Listed(n) /\ Shown(n) => Shown(n)'
  <2>1. PICK m \in Levels : UNCHANGED cache \/ Stores(m)
    BY <1>1, <1>4
  <2>2. /\ cache' \in [Levels -> {"none", "lists", "lacks"}]
        /\ \A n \in Levels : Listed(n) /\ Shown(n) => Shown(n)'
    BY <1>1, <1>3, <2>1, StoresFacts
  <2> QED
    BY <1>1, <1>3, <2>2 DEF CacheTypes, Listed
<1>6. disturbed \subseteq disturbed' \cup {t}
  BY DEF HealBegins, CreatorBegins, BootstrapEnters, Inspect, CheckGroup, CheckAbsent,
         ReadRevision, VerifyUpdate, TimesOut, luck
<1>7. OnlyOp(t) /\ op'[t].at \notin Made
  <2>1. ASSUME NEW q, DOMAIN q = {"phase", "at", "level", "seen"}, q.level \in Levels,
               q.at \notin Made, op' = [op EXCEPT ![t] = q]
        PROVE  OnlyOp(t) /\ op'[t].at \notin Made
    BY <1>1, <2>1 DEF OnlyOp, OpTypes
  <2>2. CASE op' = [op EXCEPT ![t].at = "put", ![t].seen = revision]
    BY <1>1, <2>2 DEF OnlyOp, OpTypes, Made
  <2>3. CASE \E p : \E at \in {"inspect", "check", "post"}, n \in Levels : GoTo(t, p, at, n)
    BY <1>1, <2>3, GoToFacts DEF Made
  <2>4. CASE \E state : Answer(t, state)
    BY <1>1, <2>4, AnswerFacts DEF Made
  <2>5. CASE \E state : AfterInspect(t, state)
    BY <1>1, <2>5, AfterInspectFacts
  <2>6. CASE HealBegins(t) \/ CreatorBegins(t)
    <3>1. CASE HealBegins(t)
      <4> DEFINE q == [IdleOp EXCEPT !.phase = "heal", !.at = "inspect"]
      <4>1. DOMAIN q = {"phase", "at", "level", "seen"} /\ q.level = 1 /\ q.at = "inspect"
        BY DEF IdleOp
      <4>2. op' = [op EXCEPT ![t] = q]
        BY <3>1 DEF HealBegins
      <4> HIDE DEF q
      <4> QED
        BY <1>2, <2>1, <4>1, <4>2 DEF Made
    <3>2. CASE CreatorBegins(t)
      <4> DEFINE q == [IdleOp EXCEPT !.phase = "form", !.at = "check", !.level = TagLevel]
      <4>1. DOMAIN q = {"phase", "at", "level", "seen"} /\ q.level = TagLevel /\ q.at = "check"
        BY DEF IdleOp
      <4>2. op' = [op EXCEPT ![t] = q]
        BY <3>2 DEF CreatorBegins
      <4> HIDE DEF q
      <4> QED
        BY <1>2, <2>1, <4>1, <4>2 DEF Made
    <3> QED
      BY <2>6, <3>1, <3>2
  <2>7. BootstrapEnters(t) =>
          \E p : \E at \in {"inspect", "check", "post"}, n \in Levels : GoTo(t, p, at, n)
    BY <1>2 DEF BootstrapEnters
  <2>8. Inspect(t) =>
          \/ \E state : AfterInspect(t, state)
          \/ \E p : \E at \in {"inspect", "check", "post"}, n \in Levels : GoTo(t, p, at, n)
    <3>1. \A n \in Levels : n # TagLevel => n + 1 \in Levels
      BY DEF Levels, Channel, TagLevel
    <3> QED
      BY <1>1, <3>1 DEF Inspect
  <2>9. CheckGroup(t) \/ CheckAbsent(t) =>
          \/ \E state : Answer(t, state)
          \/ \E p : \E at \in {"inspect", "check", "post"}, n \in Levels : GoTo(t, p, at, n)
    BY <1>1, <1>2 DEF CheckGroup, CheckAbsent, Raises
  <2>10. ReadRevision(t) =>
          \/ \E state : Answer(t, state)
          \/ op' = [op EXCEPT ![t].at = "put", ![t].seen = revision]
    BY DEF ReadRevision
  <2>11. VerifyUpdate(t) =>
          \/ \E state : Answer(t, state)
          \/ \E p : \E at \in {"inspect", "check", "post"}, n \in Levels : GoTo(t, p, at, n)
    BY <1>2 DEF VerifyUpdate
  <2> QED
    BY <2>2, <2>3, <2>4, <2>5, <2>6, <2>7, <2>8, <2>9, <2>10, <2>11
<1> QED
  BY <1>3, <1>5, <1>6, <1>7, HarmlessOf

\* An update of the tag leaves it where it is.
LEMMA PutKeeps ==
    ASSUME KepwareInv, NEW t \in Threads, Put(t) PROVE KepwareInv'
<1>1. OpTypes /\ CacheTypes /\ TagLevel \in Levels /\ 1 \in Levels
  BY DEF KepwareInv, Levels, Channel, TagLevel
<1>2. /\ UNCHANGED <<cache, fetch, reported>> /\ disturbed \subseteq disturbed'
      /\ project' = project \/ project' = [project EXCEPT ![TagLevel] = "ours"]
  BY DEF Put, client, luck, TimesOut
<1>3. CacheTypes' /\ \A n \in Levels : Listed(n) => Listed(n)'
  BY <1>1, <1>2, OursIsAKind DEF CacheTypes, Listed
<1>4. \A n \in Levels : Shown(n) => Shown(n)'
  BY <1>2 DEF Shown
<1>5. OnlyOp(t) /\ op'[t].at \notin Made
  <2>1. \/ \E state : Answer(t, state)
        \/ \E p : \E at \in {"verify update", "inspect"}, n \in Levels : GoTo(t, p, at, n)
    BY <1>1 DEF Put
  <2> QED
    BY <1>1, <2>1, AnswerFacts, GoToFacts DEF Made
<1> QED
  BY <1>2, <1>3, <1>4, <1>5, HarmlessOf

\* What was posted is there.
LEMMA PostKeeps ==
    ASSUME KepwareInv, NEW t \in Threads, Post(t) PROVE KepwareInv'
<1> DEFINE n == op[t].level
<1>1. OpTypes /\ CacheTypes /\ n \in Levels
  BY DEF KepwareInv, OpTypes
<1>2. /\ UNCHANGED <<cache, fetch, reported>> /\ disturbed \subseteq disturbed'
      /\ project' = project \/ project' = [project EXCEPT ![n] = "ours"]
  BY DEF Post, client, luck
<1>3. CacheTypes' /\ \A k \in Levels : Listed(k) => Listed(k)'
  BY <1>1, <1>2, OursIsAKind DEF CacheTypes, Listed
<1>4. \A k \in Levels : Shown(k) => Shown(k)'
  BY <1>2 DEF Shown
<1>5. CASE /\ project' = [project EXCEPT ![n] = "ours"]
           /\ GoTo(t, op[t].phase, "invalidate", n)
  <2>1. OnlyOp(t) /\ op'[t].at = "invalidate" /\ op'[t].level = n
    BY <1>1, <1>5, GoToFacts
  <2>2. project'[n] = "ours"
    BY <1>1, <1>5 DEF CacheTypes
  <2>3. Underway(t)'
    BY <2>1, <2>2 DEF Underway, Listed
  <2>4. ASSUME NEW u \in Threads \ {t}, u \notin disturbed' PROVE Underway(u)'
    <3>1. op'[u] = op[u] /\ Underway(u) /\ op[u].level \in Levels
      BY <1>2, <2>1, <2>4 DEF OnlyOp, KepwareInv, OpTypes
    <3> QED
      BY <1>3, <1>4, <3>1 DEF Underway
  <2>5. Answered'
    BY <1>2, <1>3, <1>4 DEF KepwareInv, CacheTypes, Answered
  <2> QED
    BY <1>3, <2>1, <2>3, <2>4, <2>5 DEF OnlyOp, KepwareInv
<1>6. CASE Raises(t)
  <2>1. OnlyOp(t) /\ op'[t].at \notin Made
    BY <1>1, <1>6, AnswerFacts DEF Raises, Made
  <2> QED
    BY <1>2, <1>3, <1>4, <2>1, HarmlessOf
<1> QED
  BY <1>5, <1>6 DEF Post

\* Invalidated while no browser is fetching, the collection is shown from then on.
LEMMA InvalidateKeeps ==
    ASSUME KepwareInv, NEW t \in Threads, Invalidate(t) PROVE KepwareInv'
<1> DEFINE n == op[t].level
<1>1. OpTypes /\ CacheTypes /\ n \in Levels /\ op[t].at = "invalidate" /\ fetch = NoFetch
  BY DEF KepwareInv, OpTypes, Invalidate, Gets
<1>2. /\ cache' = [cache EXCEPT ![n] = "none"] /\ GoTo(t, op[t].phase, "verify", n)
      /\ UNCHANGED <<project, fetch, reported, disturbed>>
  BY DEF Invalidate, server, luck
<1>3. CacheTypes' /\ \A k \in Levels : Listed(k)' = Listed(k)
  BY <1>1, <1>2 DEF CacheTypes, Listed
<1>4. cache'[n] = "none" /\ \A k \in Levels : Shown(k) => Shown(k)'
  BY <1>1, <1>2 DEF CacheTypes, Shown
<1>5. OnlyOp(t) /\ op'[t].at = "verify" /\ op'[t].level = n
  BY <1>1, <1>2, GoToFacts
<1>6. ASSUME t \notin disturbed PROVE Underway(t)'
  <2>1. Listed(n)
    BY <1>1, <1>6 DEF KepwareInv, Underway, Made
  <2>2. fetch.level # n
    BY <1>1 DEF NoFetch, Levels, Channel, TagLevel
  <2> QED
    BY <1>2, <1>3, <1>4, <1>5, <2>1, <2>2, <1>1 DEF Underway, Shown
<1>7. ASSUME NEW u \in Threads \ {t}, u \notin disturbed PROVE Underway(u)'
  <2>1. op'[u] = op[u] /\ Underway(u) /\ op[u].level \in Levels
    BY <1>5, <1>7 DEF OnlyOp, KepwareInv, OpTypes
  <2> QED
    BY <1>3, <1>4, <2>1 DEF Underway
<1>8. Answered'
  BY <1>2, <1>3, <1>4 DEF KepwareInv, CacheTypes, Answered
<1> QED
  BY <1>2, <1>3, <1>5, <1>6, <1>7, <1>8 DEF OnlyOp, KepwareInv

\* A creation is answered when its object has been seen, and is shown then.
LEMMA VerifyKeeps ==
    ASSUME KepwareInv, NEW t \in Threads, Verify(t) PROVE KepwareInv'
<1> DEFINE n == op[t].level
<1>1. OpTypes /\ CacheTypes /\ n \in Levels /\ op[t].at = "verify"
  BY DEF KepwareInv, OpTypes, Verify, Gets
<1>2. UNCHANGED <<project, fetch>> /\ (UNCHANGED cache \/ Stores(n))
  BY DEF Verify, server
<1>3. /\ cache' \in [Levels -> {"none", "lists", "lacks"}]
      /\ \A k \in Levels : Listed(k) /\ Shown(k) => Shown(k)'
  BY <1>1, <1>2, StoresFacts
<1>4. \A k \in Levels : Listed(k)' = Listed(k)
  BY <1>2 DEF Listed
<1>5. CASE /\ AfterCreate(t) /\ UNCHANGED disturbed
           /\ reported' = (IF t \in disturbed THEN reported ELSE reported \cup {n})
  <2>1. OnlyOp(t) /\ op'[t].at \notin Made
    BY <1>1, <1>5, AfterCreateFacts
  <2>2. CacheTypes'
    BY <1>1, <1>2, <1>3, <1>5 DEF CacheTypes
  <2>3. t \notin disturbed => Listed(n) /\ Shown(n)
    BY <1>1 DEF KepwareInv, Underway, Made
  <2>4. Answered'
    BY <1>1, <1>3, <1>4, <1>5, <2>3 DEF KepwareInv, CacheTypes, Answered
  <2>5. ASSUME NEW u \in Threads, u \notin disturbed PROVE Underway(u)'
    <3>1. CASE u = t
      BY <2>1, <3>1 DEF Underway, Made
    <3>2. CASE u # t
      <4>1. op'[u] = op[u] /\ Underway(u) /\ op[u].level \in Levels
        BY <2>1, <2>5, <3>2 DEF OnlyOp, KepwareInv, OpTypes
      <4> QED
        BY <1>3, <1>4, <4>1 DEF Underway, Made
    <3> QED
      BY <3>1, <3>2
  <2> QED
    BY <1>5, <2>1, <2>2, <2>4, <2>5 DEF OnlyOp, KepwareInv
<1>6. CASE Raises(t) /\ UNCHANGED reported /\ disturbed \subseteq disturbed'
  <2>1. OnlyOp(t) /\ op'[t].at \notin Made
    BY <1>1, <1>6, AnswerFacts DEF Raises, Made
  <2>2. CacheTypes'
    BY <1>1, <1>2, <1>3, <1>6 DEF CacheTypes
  <2> QED
    BY <1>3, <1>4, <1>6, <2>1, <2>2, HarmlessOf
<1> QED
  BY <1>5, <1>6 DEF Verify, luck, TimesOut

LEMMA KepwareStepKeeps ==
    ASSUME KepwareInv, [KepwareNext]_kepwareVars PROVE KepwareInv'
<1>1. CASE UNCHANGED kepwareVars
  BY <1>1 DEF kepwareVars, server, client, luck, KepwareInv, OpTypes, CacheTypes, Answered,
              Underway, Listed, Shown
<1>2. \A t \in Healers \cup Creators : t \in Threads
  BY DEF Threads
<1> QED
  BY <1>1, <1>2, EditsKeep, LateKeeps, BrowsersKeep, ReadingKeeps, PutKeeps, PostKeeps,
     InvalidateKeeps, VerifyKeeps
     DEF KepwareNext

\* CreatedIsShown: once a creation was answered, no collection in the cache lacks
\* its object, though browsers fetch and store while it is made
\* (kepware_config_api.py, _create_verified).
THEOREM CreationsAreShown == KepwareSpec => []CreatedIsShown
<1>1. KepwareInit => KepwareInv
  BY KepwareStarts
<1>2. KepwareInv /\ [KepwareNext]_kepwareVars => KepwareInv'
  BY KepwareStepKeeps
<1>3. KepwareInv => CreatedIsShown
  BY DEF KepwareInv, Answered, Shown, CreatedIsShown
<1> QED
  BY <1>1, <1>2, <1>3, PTL DEF KepwareSpec

-----------------------------------------------------------------------------
(* What is above the objects the control makes or changes.                 *)

\* An object that was inspected as the control's own may have been deleted
\* since, but unless somebody has changed the project none is foreign.
Firm(m) == project[m] \in {"ours", "absent"}

\* What an operation has seen in its latest inspection.
Footing(t) ==
    /\ op[t].at = "inspect" => \A m \in Parents(op[t].level) : Firm(m)
    /\ op[t].at \in {"check", "post", "read", "put"} /\ op[t].level \in {Device, TagLevel} =>
         \A m \in {Channel, Device} \cap Parents(op[t].level) : Firm(m)

\* Nothing is below what is absent.
Nested == \A n \in Levels : Listed(n) => Reachable(n)

OwnInv == Nested /\ \A t \in Healers \ overtaken : Footing(t)

\* What any step but an edit may do to an object.
ToOurs == \A n \in Levels : project'[n] \in {project[n], "ours"}

LEMMA FootingStays ==
    ASSUME KepwareInv, ToOurs, NEW t \in Threads, Footing(t), op'[t] = op[t]
    PROVE  Footing(t)'
<1>1. \A m \in Levels : Firm(m) => Firm(m)'
  BY DEF ToOurs, Firm
<1>2. {Channel, Device} \subseteq Levels /\ \A m \in Levels : Parents(m) \subseteq Levels
  BY DEF Levels, Channel, Device, TagLevel, Parents
<1>3. op[t].level \in Levels /\ Parents(op[t].level) \subseteq Levels
  BY <1>2 DEF KepwareInv, OpTypes
<1> QED
  BY <1>1, <1>2, <1>3 DEF Footing, Parents

LEMMA OwnIsKept ==
    ASSUME KepwareInv, OwnInv, ToOurs, Nested', NEW t \in Threads,
           \A u \in Threads \ {t} : op'[u] = op[u] /\ (u \in overtaken => u \in overtaken'),
           t \in Healers \ overtaken' => Footing(t)'
    PROVE  OwnInv'
<1>1. ASSUME NEW u \in Healers, u \notin overtaken' PROVE Footing(u)'
  <2>1. CASE u = t
    BY <1>1, <2>1
  <2>2. CASE u # t
    BY <1>1, <2>2, FootingStays DEF OwnInv, Threads
  <2> QED
    BY <2>1, <2>2
<1> QED
  BY <1>1 DEF OwnInv

\* Where an inspection leads.
LEMMA AfterInspectGoes ==
    ASSUME OpTypes, NEW t \in Threads, NEW state, AfterInspect(t, state)
    PROVE  \/ op'[t].at \in {"idle", "enter", "group"}
           \/ op'[t].at = "inspect" /\ op'[t].level = 1
           \/ op'[t].at = "check" /\ op'[t].level = Channel
           \/ op'[t].at = "check" /\ op'[t].level = Device /\ state = "missing_device"
           \/ op'[t].at = "check" /\ op'[t].level = TagLevel /\ state = "missing_tag"
           \/ op'[t].at = "read" /\ op'[t].level = TagLevel /\ state = "drift_detected"
<1>1. CASE \E s : Answer(t, s)
  BY <1>1, AnswerFacts
<1>2. {1, Channel, Device, Group, TagLevel} \subseteq Levels
  BY DEF Levels, Channel, Device, Group, TagLevel
<1>3. CASE \E p : \/ GoTo(t, p, "enter", 1) \/ GoTo(t, p, "inspect", 1) \/ GoTo(t, p, "group", Group)
                  \/ GoTo(t, p, "check", Channel)
                  \/ GoTo(t, p, "check", Device) /\ state = "missing_device"
                  \/ GoTo(t, p, "check", TagLevel) /\ state = "missing_tag"
                  \/ GoTo(t, p, "read", TagLevel) /\ state = "drift_detected"
  BY <1>2, <1>3, GoToFacts
<1> QED
  BY <1>1, <1>3 DEF AfterInspect, GoTo

LEMMA InspectFoots ==
    ASSUME KepwareInv, OwnInv, NEW t \in Healers, t \notin overtaken', Inspect(t)
    PROVE  Footing(t)'
<1> DEFINE n == op[t].level
<1>1. OpTypes /\ CacheTypes /\ n \in Levels /\ project' = project /\ op[t].at = "inspect"
      /\ t \in Threads
  BY DEF KepwareInv, OpTypes, Inspect, Gets, server, Threads
<1>2. \A m \in Parents(n) : Firm(m)
  <2>1. CASE n = Channel
    BY <2>1 DEF Parents, Levels, Channel, TagLevel
  <2>2. CASE n # Channel
    <3>1. t \notin overtaken
      BY <2>2 DEF Inspect
    <3> QED
      BY <1>1, <3>1 DEF OwnInv, Footing
  <2> QED
    BY <2>1, <2>2
<1>3. ASSUME NEW state, AfterInspect(t, state), state \notin Missing \cup {"drift_detected"}
      PROVE  Footing(t)'
  <2>1. \/ op'[t].at \in {"idle", "enter", "group"}
        \/ op'[t].at = "inspect" /\ op'[t].level = 1
        \/ op'[t].at = "check" /\ op'[t].level = Channel
    BY <1>1, <1>3, AfterInspectGoes DEF Missing
  <2> QED
    BY <2>1 DEF Footing, Parents, Levels, Channel, Device, TagLevel
<1>4. CASE AfterInspect(t, MissingState(n))
  <2>1. MissingState(n) = "missing_device" => n = Device
    BY DEF MissingState
  <2>2. MissingState(n) = "missing_tag" => n \in {Group, TagLevel}
    BY <1>1 DEF MissingState, Levels, Channel, Device, Group, TagLevel
  <2>3. MissingState(n) # "drift_detected"
    BY DEF MissingState
  <2>4. \/ op'[t].at \in {"idle", "enter", "group"}
        \/ op'[t].at = "inspect" /\ op'[t].level = 1
        \/ op'[t].at = "check" /\ op'[t].level = Channel
        \/ op'[t].at = "check" /\ op'[t].level = Device /\ n = Device
        \/ op'[t].at = "check" /\ op'[t].level = TagLevel /\ n \in {Group, TagLevel}
    BY <1>1, <1>4, <2>1, <2>2, <2>3, AfterInspectGoes
  <2>5. \A m \in Parents(n) : Firm(m)'
    BY <1>1, <1>2 DEF Firm
  <2> QED
    BY <2>4, <2>5 DEF Footing, Parents, Levels, Channel, Device, Group, TagLevel
<1>5. CASE /\ Listed(n) /\ ~Conflicts(n) /\ n # TagLevel
           /\ GoTo(t, op[t].phase, "inspect", n + 1)
  <2>1. n + 1 \in Levels
    BY <1>1, <1>5 DEF Levels, Channel, TagLevel
  <2>2. Firm(n)
    BY <1>1, <1>5 DEF CacheTypes, Kinds, Firm, Listed, Conflicts
  <2>3. op'[t].at = "inspect" /\ op'[t].level = n + 1
    BY <1>1, <1>5, <2>1, GoToFacts
  <2>4. \A m \in Parents(n + 1) : Firm(m)'
    <3>1. \A m \in Parents(n + 1) : m \in Parents(n) \cup {n}
      BY <1>1 DEF Parents, Levels, Channel, TagLevel
    <3> QED
      BY <1>1, <1>2, <2>2, <3>1 DEF Firm
  <2> QED
    BY <2>3, <2>4 DEF Footing
<1>6. CASE n = TagLevel /\ AfterInspect(t, "drift_detected")
  <2>1. \/ op'[t].at \in {"idle", "enter", "group"}
        \/ op'[t].at = "inspect" /\ op'[t].level = 1
        \/ op'[t].at = "check" /\ op'[t].level = Channel
        \/ op'[t].at = "read" /\ op'[t].level = TagLevel
    BY <1>1, <1>6, AfterInspectGoes
  <2>2. \A m \in Parents(TagLevel) : Firm(m)'
    BY <1>1, <1>2, <1>6 DEF Firm
  <2> QED
    BY <2>1, <2>2 DEF Footing, Parents, Levels, Channel, Device, TagLevel
<1> QED
  BY <1>3, <1>4, <1>5, <1>6 DEF Inspect, Missing

LEMMA OperationsFoot ==
    ASSUME KepwareInv, OwnInv, NEW t \in Healers, t \notin overtaken, project' = project,
           \/ HealBegins(t) \/ BootstrapEnters(t) \/ CheckGroup(t) \/ CheckAbsent(t)
           \/ Invalidate(t) \/ Verify(t) \/ ReadRevision(t) \/ VerifyUpdate(t)
    PROVE  Footing(t)'
<1>1. /\ OpTypes /\ t \in Threads /\ op[t].level \in Levels /\ Footing(t)
      /\ {1, Channel, Group, TagLevel} \subseteq Levels
  BY DEF KepwareInv, OwnInv, OpTypes, Levels, Channel, Group, TagLevel, Threads
<1>2. ASSUME op'[t].at \notin {"inspect", "check", "post", "read", "put"} PROVE Footing(t)'
  BY <1>2 DEF Footing
<1>3. ASSUME NEW state, Answer(t, state) PROVE Footing(t)'
  BY <1>1, <1>2, <1>3, AnswerFacts
<1>4. ASSUME NEW p, GoTo(t, p, "inspect", 1) PROVE Footing(t)'
  <2>1. op'[t].at = "inspect" /\ op'[t].level = 1
    BY <1>1, <1>4, GoToFacts
  <2> QED
    BY <2>1 DEF Footing, Parents, Levels, Channel
<1>5. ASSUME NEW p, NEW at \in {"group", "invalidate", "verify"}, NEW n \in Levels, GoTo(t, p, at, n)
      PROVE  Footing(t)'
  BY <1>1, <1>2, <1>5, GoToFacts
<1>6. CASE HealBegins(t)
  <2> DEFINE q == [IdleOp EXCEPT !.phase = "heal", !.at = "inspect"]
  <2>1. op'[t] = q /\ q.at = "inspect" /\ q.level = 1
    BY <1>1, <1>6 DEF HealBegins, IdleOp, OpTypes
  <2> QED
    BY <2>1 DEF Footing, Parents, Levels, Channel
<1>8. CASE BootstrapEnters(t)
  BY <1>4, <1>8 DEF BootstrapEnters
<1>9. CASE CheckGroup(t)
  <2>1. ASSUME GoTo(t, "groups", "check", Group) PROVE Footing(t)'
    <3>1. op'[t].at = "check" /\ op'[t].level = Group
      BY <1>1, <2>1, GoToFacts
    <3> QED
      BY <3>1 DEF Footing, Device, Group, TagLevel
  <2> QED
    BY <1>3, <1>4, <1>9, <2>1 DEF CheckGroup, Raises
<1>10. CASE CheckAbsent(t)
  <2>1. ASSUME op[t].at = "check", GoTo(t, op[t].phase, "post", op[t].level) PROVE Footing(t)'
    <3>1. op'[t].at = "post" /\ op'[t].level = op[t].level
      BY <1>1, <2>1, GoToFacts
    <3> QED
      BY <1>1, <2>1, <3>1 DEF Footing, Firm
  <2> QED
    BY <1>3, <1>10, <2>1 DEF CheckAbsent, Raises, Gets
<1>11. CASE Invalidate(t)
  BY <1>1, <1>5, <1>11 DEF Invalidate
<1>12. CASE Verify(t)
  <2>1. ASSUME AfterCreate(t) PROVE Footing(t)'
    <3>1. \/ \E s : Answer(t, s)
          \/ \E p : GoTo(t, p, "inspect", 1) \/ GoTo(t, p, "group", 1)
      BY <2>1 DEF AfterCreate
    <3> QED
      BY <1>1, <1>3, <1>4, <1>5, <3>1
  <2> QED
    BY <1>3, <1>12, <2>1 DEF Verify, Raises
<1>13. CASE ReadRevision(t)
  <2>1. ASSUME op[t].at = "read", op' = [op EXCEPT ![t].at = "put", ![t].seen = revision]
        PROVE  Footing(t)'
    <3>1. op'[t].at = "put" /\ op'[t].level = op[t].level
      BY <1>1, <2>1 DEF OpTypes
    <3> QED
      BY <1>1, <2>1, <3>1 DEF Footing, Firm
  <2> QED
    BY <1>3, <1>13, <2>1 DEF ReadRevision, Gets
<1>14. CASE VerifyUpdate(t)
  BY <1>3, <1>4, <1>14 DEF VerifyUpdate
<1> QED
  BY <1>6, <1>8, <1>9, <1>10, <1>11, <1>12, <1>13, <1>14

\* Nothing comes to be below what is absent, whether the project stays as it is or
\* an object is made below parents that are there.
LEMMA NestedStays ==
    ASSUME KepwareInv, Nested, project' = project PROVE Nested' /\ ToOurs
BY DEF Nested, Listed, Reachable, ToOurs

LEMMA NestedWithOurs ==
    ASSUME CacheTypes, Nested, NEW n \in Levels, Reachable(n),
           project' = [project EXCEPT ![n] = "ours"]
    PROVE  Nested' /\ ToOurs /\ \A m \in Levels \ {n} : project'[m] = project[m]
<1>1. project'[n] = "ours" /\ \A m \in Levels \ {n} : project'[m] = project[m]
  BY DEF CacheTypes
<1>2. \A m \in Levels : Parents(m) \subseteq Levels
  BY DEF Parents
<1> QED
  BY <1>1, <1>2 DEF Nested, Listed, Reachable, ToOurs

LEMMA EditNests ==
    ASSUME KepwareInv, OwnInv, SomebodyEdits PROVE OwnInv'
<1>1. CacheTypes /\ overtaken' = Healers
  BY DEF KepwareInv, SomebodyEdits
<1>2. PICK n \in Levels, kind \in {"absent", "ours", "foreign", "drift"}, kept \in BOOLEAN :
             /\ kind \in Kinds(n) /\ Reachable(n) /\ (kind = "absent" => kept = FALSE)
             /\ project' \in [Levels -> {"absent", "ours", "foreign", "drift"}]
             /\ project'[n] = kind
             /\ \A m \in Levels : m < n => project'[m] = project[m]
             /\ \A m \in Levels : n < m => project'[m] = IF kept = TRUE THEN project[m] ELSE "absent"
             /\ reported' = IF kept = TRUE THEN reported ELSE {m \in reported : m < n}
  BY <1>1, EditFacts
<1>3. ASSUME NEW m \in Levels, Listed(m)', NEW k \in Levels, k < m PROVE project'[k] # "absent"
  <2>1. CASE m < n \/ m = n
    <3>1. k < n
      BY <1>3, <2>1 DEF Levels, Channel, TagLevel
    <3>2. project'[k] = project[k] /\ (m < n => project'[m] = project[m])
      BY <1>2, <3>1
    <3>3. m < n => Reachable(m)
      BY <1>3, <3>2 DEF OwnInv, Nested, Listed
    <3>4. Reachable(n)
      BY <1>2
    <3> QED
      BY <1>3, <2>1, <3>1, <3>2, <3>3, <3>4 DEF Reachable, Parents
  <2>2. CASE n < m
    <3>1. kept = TRUE /\ project'[m] = project[m]
      BY <1>2, <1>3, <2>2 DEF Listed
    <3>2. Reachable(m)
      BY <1>3, <3>1 DEF OwnInv, Nested, Listed
    <3>3. project[k] # "absent"
      BY <1>3, <3>2 DEF Reachable, Parents
    <3> QED
      BY <1>2, <3>1, <3>3, LevelsCompare
  <2> QED
    BY <2>1, <2>2, LevelsCompare
<1> QED
  BY <1>1, <1>3 DEF OwnInv, Nested, Reachable, Parents

\* What a creation or an update does to the project.
LEMMA WritesOurs ==
    ASSUME KepwareInv, OwnInv, NEW t \in Threads, Post(t) \/ Put(t)
    PROVE  /\ Nested' /\ ToOurs
           /\ \/ project' = project
              \/ Post(t) /\ Reachable(op[t].level) /\ \A m \in Levels \ {op[t].level} : project'[m] = project[m]
              \/ Put(t) /\ Reachable(TagLevel) /\ \A m \in Levels \ {TagLevel} : project'[m] = project[m]
<1>1. CacheTypes /\ Nested /\ op[t].level \in Levels /\ TagLevel \in Levels
  BY DEF KepwareInv, OpTypes, OwnInv, Levels, Channel, TagLevel
<1>2. CASE project' = project
  BY <1>1, <1>2, NestedStays
<1>3. CASE Post(t) /\ project' # project
  <2>1. Reachable(op[t].level) /\ project' = [project EXCEPT ![op[t].level] = "ours"]
    BY <1>3 DEF Post
  <2> QED
    BY <1>1, <1>3, <2>1, NestedWithOurs
<1>4. CASE Put(t) /\ project' # project
  <2>1. Listed(TagLevel) /\ project' = [project EXCEPT ![TagLevel] = "ours"]
    BY <1>4 DEF Put
  <2>2. Reachable(TagLevel)
    BY <1>1, <2>1 DEF Nested
  <2> QED
    BY <1>1, <1>4, <2>1, <2>2, NestedWithOurs
<1> QED
  BY <1>2, <1>3, <1>4

LEMMA OwnStepKeeps ==
    ASSUME KepwareInv, OwnInv, [KepwareNext]_kepwareVars
    PROVE  OwnInv'
<1>1. Healers \subseteq Threads /\ Creators \subseteq Threads /\ Nested /\ Healers \cap Creators = {}
  BY KepwareConstants DEF Threads, OwnInv, KepwareConstants
<1>2. CASE \/ UNCHANGED kepwareVars
           \/ (\E k \in Levels : BrowserAsks(k)) \/ BrowserStores \/ CacheExpires
  <2>1. UNCHANGED <<project, op, overtaken>>
    BY <1>2 DEF kepwareVars, server, others, BrowserAsks, BrowserStores, CacheExpires
  <2> QED
    BY <1>1, <2>1, NestedStays, FootingStays DEF OwnInv
<1>3. ASSUME NEW k \in Levels, LateCreation(k) PROVE OwnInv'
  <2>1. UNCHANGED <<op, overtaken>>
    BY <1>3 DEF LateCreation, others
  <2>2. Nested' /\ ToOurs
    <3>1. CASE project' = project
      BY <1>1, <3>1, NestedStays
    <3>2. CASE Reachable(k) /\ project' = [project EXCEPT ![k] = "ours"]
      BY <1>1, <3>2, NestedWithOurs DEF KepwareInv
    <3> QED
      BY <1>3, <3>1, <3>2 DEF LateCreation
  <2> QED
    BY <1>1, <2>1, <2>2, FootingStays DEF OwnInv
<1>4. ASSUME NEW t \in Threads,
             \/ t \in Healers /\ HealBegins(t)
             \/ t \in Creators /\ CreatorBegins(t)
             \/ BootstrapEnters(t) \/ CheckGroup(t) \/ CheckAbsent(t) \/ Invalidate(t)
             \/ Verify(t) \/ ReadRevision(t) \/ VerifyUpdate(t) \/ Inspect(t)
      PROVE  OwnInv'
  <2>1. project' = project /\ (overtaken' = overtaken \/ (Inspect(t) /\ overtaken' = overtaken \ {t}))
    <3>1. Inspect(t) => project' = project /\ overtaken' \in {overtaken, overtaken \ {t}}
      BY DEF Inspect, server
    <3>2. HealBegins(t) \/ CreatorBegins(t) => project' = project /\ overtaken' = overtaken
      BY DEF HealBegins, CreatorBegins, server, others
    <3>3. \/ BootstrapEnters(t) \/ CheckGroup(t) \/ CheckAbsent(t) \/ Invalidate(t)
          \/ Verify(t) \/ ReadRevision(t) \/ VerifyUpdate(t)
          => project' = project /\ overtaken' = overtaken
      BY DEF BootstrapEnters, CheckGroup, CheckAbsent, Invalidate, Verify, ReadRevision,
         VerifyUpdate, server, others
    <3> QED
      BY <1>4, <3>1, <3>2, <3>3
  <2>2. t \in Healers \ overtaken' => Footing(t)'
    BY <1>1, <1>4, <2>1, InspectFoots, OperationsFoot
  <2>3. \A u \in Threads \ {t} : op'[u] = op[u]
    <3>1. OpTypes
      BY DEF KepwareInv
    <3>2. (\E r : op' = [op EXCEPT ![t] = r]) => \A u \in Threads \ {t} : op'[u] = op[u]
      BY <3>1 DEF OpTypes
    <3>3. \E r : op' = [op EXCEPT ![t] = r]
      BY <1>4 DEF HealBegins, CreatorBegins, BootstrapEnters, CheckGroup, CheckAbsent,
         Invalidate, Verify, ReadRevision, VerifyUpdate, Inspect, GoTo, Answer, Raises,
         AfterInspect, AfterCreate
    <3> QED
      BY <3>2, <3>3
  <2>4. \A u \in Threads \ {t} : u \in overtaken => u \in overtaken'
    BY <2>1
  <2> QED
    BY <1>1, <2>1, <2>2, <2>3, <2>4, NestedStays, OwnIsKept
<1>5. ASSUME NEW t \in Threads, Post(t) \/ Put(t) PROVE OwnInv'
  <2>1. Nested' /\ ToOurs
    BY <1>5, WritesOurs
  <2>2. OpTypes /\ {1, TagLevel, op[t].level} \subseteq Levels /\ overtaken' = overtaken
    <3>1. overtaken' = overtaken
      BY <1>5 DEF Post, Put, others
    <3>2. OpTypes /\ op[t].level \in Levels
      BY DEF KepwareInv, OpTypes
    <3> QED
      BY <3>1, <3>2 DEF Levels, Channel, TagLevel
  <2>3. \/ GoTo(t, op[t].phase, "invalidate", op[t].level)
        \/ GoTo(t, op[t].phase, "verify update", TagLevel) \/ GoTo(t, "conflict", "inspect", 1)
        \/ \E s : Answer(t, s)
    BY <1>5 DEF Post, Put, Raises
  <2>4. OnlyOp(t) /\ \/ op'[t].at \in {"invalidate", "verify update", "idle"}
                     \/ op'[t].at = "inspect" /\ op'[t].level = 1
    BY <2>2, <2>3, GoToFacts, AnswerFacts
  <2>5. Footing(t)'
    <3>1. \A m : m \notin Parents(1)
      BY DEF Parents, Levels, Channel, TagLevel
    <3> QED
      BY <2>4, <3>1 DEF Footing
  <2>6. \A u \in Threads \ {t} : op'[u] = op[u] /\ (u \in overtaken => u \in overtaken')
    BY <2>2, <2>4 DEF OnlyOp
  <2> QED
    BY <2>1, <2>5, <2>6, OwnIsKept
<1>6. CASE (\E t \in Healers : HealBegins(t)) \/ \E t \in Creators : CreatorBegins(t)
  BY <1>1, <1>4, <1>6
<1>7. CASE \E t \in Threads : \/ BootstrapEnters(t) \/ CheckGroup(t) \/ CheckAbsent(t)
                             \/ Invalidate(t) \/ Verify(t) \/ ReadRevision(t)
                             \/ VerifyUpdate(t) \/ Inspect(t)
  BY <1>4, <1>7
<1> QED
  BY <1>2, <1>3, <1>5, <1>6, <1>7, EditNests DEF KepwareNext

-----------------------------------------------------------------------------
(* A bootstrap that nothing disturbs.                                      *)

Boot     == {"first", "second", "groups", "third", "last"}
Creating == {"check", "post", "invalidate", "verify"}
Works(phase, at) == phase \in Boot /\ at # "enter"

\* What each phase of a bootstrap makes.
MakesIn(phase, n) == \/ phase = "first" /\ n = Channel
                     \/ phase = "second" /\ n = Device
                     \/ phase = "groups" /\ n = Group
                     \/ phase = "third" /\ n = TagLevel

\* Where an operation may be.
Plan(t, phase, at, n) ==
    \/ phase = "none" /\ at = "idle"
    \/ phase = "form" /\ at \in Creating /\ n = TagLevel /\ t \in Creators
    \/ /\ t \in Healers
       /\ \/ phase = "first" /\ at = "enter"
          \/ /\ phase \in {"heal", "first", "second", "third", "last", "repair", "repaired", "conflict"}
             /\ at = "inspect"
          \/ phase = "repair" /\ at \in {"read", "put", "verify update"}
          \/ phase = "groups" /\ at = "group"
          \/ MakesIn(phase, n) /\ at \in Creating

Own(n) == project[n] \notin {"absent", "foreign"}
OwnAbove(n) == \A m \in Parents(n) : Own(m)

\* What a bootstrap that is alone with the project may rely on.
Sound(phase, at, n) ==
    /\ at = "inspect" => OwnAbove(n)
    /\ phase = "second" => Own(Channel)
    /\ phase \in {"groups", "third", "last"} => Listed(Channel) /\ Listed(Device)
    /\ phase \in {"third", "last"} => Listed(Group)
    /\ phase = "last" => Listed(TagLevel)
    /\ at \in {"check", "post"} => ~Listed(n)
    /\ at \in {"invalidate", "verify"} => project[n] = "ours" \/ (n = TagLevel /\ Listed(n))

\* An operation follows its plan; a bootstrap holds the lock while it works.
Planned(t) ==
    /\ Plan(t, op[t].phase, op[t].at, op[t].level)
    /\ Works(op[t].phase, op[t].at) => operationLock = t

Steady(t) == Works(op[t].phase, op[t].at) => Sound(op[t].phase, op[t].at, op[t].level)

\* A heal has found everything its own down to where it inspects, and a bootstrap
\* begins, and goes on, where nothing but what is its own is in the project.
Clear == \A n \in Levels : project[n] \in {"absent", "ours"}

Clean(t) ==
    /\ op[t].phase = "heal" /\ op[t].at = "inspect" =>
         \A m \in Parents(op[t].level) : project[m] = "ours"
    /\ op[t].phase \in Boot => Clear

CleanInv == \A t \in Healers \ disturbed : Clean(t)

BootInv ==
    /\ outcome = [t \in Threads |-> outcome[t]]
    /\ \A t \in Threads : Planned(t)
    /\ \A t \in Healers \ disturbed : Steady(t)
    /\ BootstrapCompletes

\* How an operation goes on: it is answered, or it moves by its plan.
Ends(t, state) ==
    /\ Answer(t, state)
    /\ t \in Healers \ disturbed' /\ op[t].phase \in Boot => state \in Settled

Moves(t, phase, at, n) ==
    /\ op'[t].phase = phase /\ op'[t].at = at /\ op'[t].level = n /\ UNCHANGED outcome
    /\ Plan(t, phase, at, n)
    /\ \/ UNCHANGED operationLock /\ (Works(phase, at) => op[t].phase \in Boot /\ op[t].at # "enter")
       \/ operationLock = Nobody /\ operationLock' = t

Alone(t) == t \in Healers \ disturbed'

GoesOn(t) ==
    /\ OnlyOp(t) /\ disturbed \subseteq disturbed'
    /\ \/ \E state : Ends(t, state)
       \/ \E phase, at, n : Moves(t, phase, at, n)
    /\ Alone(t) => Steady(t)'

\* The levels, and what is above each.
LEMMA LevelFacts ==
    /\ Channel = 1 /\ Device = 2 /\ Group = 3 /\ TagLevel = 4
    /\ Levels = {Channel, Device, Group, TagLevel}
    /\ Parents(Channel) = {} /\ Parents(Device) = {Channel}
    /\ Parents(Group) = {Channel, Device} /\ Parents(TagLevel) = {Channel, Device, Group}
BY DEF Levels, Parents, Channel, Device, Group, TagLevel

\* An operation that is answered.
LEMMA IdleFacts ==
    ASSUME OpTypes, NEW t \in Threads, NEW state, Answer(t, state), BootInv
    PROVE  /\ op'[t] = IdleOp /\ OnlyOp(t)
           /\ outcome' = [u \in Threads |-> outcome'[u]]
           /\ outcome'[t].phase = op[t].phase /\ outcome'[t].state = state
           /\ \A u \in Threads \ {t} : outcome'[u] = outcome[u]
           /\ operationLock' = IF operationLock = t THEN Nobody ELSE operationLock
<1>1. op'[t] = IdleOp /\ OnlyOp(t)
  BY AnswerFacts DEF OpTypes, Answer
<1> DEFINE a == [phase |-> op[t].phase, state |-> state]
<1>2. outcome' = [outcome EXCEPT ![t] = a] /\ a.phase = op[t].phase /\ a.state = state
  BY DEF Answer
<1>3. outcome = [u \in Threads |-> outcome[u]]
  BY DEF BootInv
<1> HIDE DEF a
<1> QED
  BY <1>1, <1>2, <1>3 DEF Answer

\* An operation that goes on while the others stand still.
LEMMA GoingOnKeeps ==
    ASSUME OpTypes, BootInv, NEW t \in Threads, GoesOn(t),
           \A u \in Healers \ disturbed' : u # t /\ op'[u] = op[u] /\ Steady(u) => Steady(u)'
    PROVE  BootInv'
<1>1. OnlyOp(t) /\ Nobody \notin Threads /\ Healers \subseteq Threads
  BY KepwareConstants DEF GoesOn, KepwareConstants, Threads
<1>2. ASSUME NEW state, Ends(t, state) PROVE BootInv'
  <2>1. /\ op'[t] = IdleOp
        /\ outcome' = [u \in Threads |-> outcome'[u]]
        /\ outcome'[t].phase = op[t].phase /\ outcome'[t].state = state
        /\ \A u \in Threads \ {t} : outcome'[u] = outcome[u]
        /\ operationLock' = IF operationLock = t THEN Nobody ELSE operationLock
    BY <1>2, IdleFacts DEF Ends
  <2>2. op'[t].phase = "none" /\ op'[t].at = "idle"
    BY <2>1 DEF IdleOp
  <2>3. ASSUME NEW u \in Threads PROVE Planned(u)'
    <3>1. CASE u = t
      BY <2>2, <3>1 DEF Planned, Plan, Works, Boot
    <3>2. CASE u # t
      <4>1. op'[u] = op[u] /\ Planned(u)
        BY <1>1, <3>2 DEF OnlyOp, BootInv
      <4>2. operationLock = u => operationLock' = u
        BY <2>1, <3>2
      <4> QED
        BY <4>1, <4>2 DEF Planned
    <3> QED
      BY <3>1, <3>2
  <2>4. ASSUME NEW u \in Healers, u \notin disturbed' PROVE Steady(u)'
    <3>1. CASE u = t
      BY <2>4, <3>1 DEF GoesOn, Alone
    <3>2. CASE u # t
      BY <1>1, <2>4, <3>2 DEF OnlyOp, BootInv, GoesOn
    <3> QED
      BY <3>1, <3>2
  <2>5. BootstrapCompletes'
    <3>1. ASSUME NEW u \in Healers, u \notin disturbed', outcome'[u].phase \in Boot
          PROVE  outcome'[u].state \in Settled
      <4>1. CASE u = t
        BY <1>2, <2>1, <3>1, <4>1 DEF Ends
      <4>2. CASE u # t
        BY <1>1, <2>1, <3>1, <4>2 DEF BootInv, BootstrapCompletes, Boot, GoesOn
      <4> QED
        BY <4>1, <4>2
    <3> QED
      BY <3>1 DEF BootstrapCompletes, Boot
  <2> QED
    BY <2>1, <2>3, <2>4, <2>5 DEF BootInv
<1>3. ASSUME NEW phase, NEW at, NEW n, Moves(t, phase, at, n) PROVE BootInv'
  <2>1. /\ op'[t].phase = phase /\ op'[t].at = at /\ op'[t].level = n
        /\ Plan(t, phase, at, n) /\ UNCHANGED outcome
    BY <1>3 DEF Moves
  <2>2. ASSUME NEW u \in Threads PROVE Planned(u)'
    <3>1. CASE u = t
      <4>1. Works(phase, at) => operationLock' = t
        BY <1>3 DEF Moves, BootInv, Planned, Works
      <4> QED
        BY <2>1, <3>1, <4>1 DEF Planned
    <3>2. CASE u # t
      <4>1. op'[u] = op[u] /\ Planned(u)
        BY <1>1, <3>2 DEF OnlyOp, BootInv
      <4>2. operationLock = u => operationLock' = u
        BY <1>1, <1>3 DEF Moves
      <4> QED
        BY <4>1, <4>2 DEF Planned
    <3> QED
      BY <3>1, <3>2
  <2>3. ASSUME NEW u \in Healers, u \notin disturbed' PROVE Steady(u)'
    <3>1. CASE u = t
      BY <2>3, <3>1 DEF GoesOn, Alone
    <3>2. CASE u # t
      BY <1>1, <2>3, <3>2 DEF OnlyOp, BootInv, GoesOn
    <3> QED
      BY <3>1, <3>2
  <2>4. BootstrapCompletes'
    BY <2>1, <1>3 DEF BootInv, BootstrapCompletes, GoesOn, Alone
  <2> QED
    BY <2>1, <2>2, <2>3, <2>4 DEF BootInv
<1> QED
  BY <1>2, <1>3 DEF GoesOn

\* A move that keeps the lock where it is.
LEMMA MovesOn ==
    ASSUME OpTypes, NEW t \in Threads, NEW phase, NEW at, NEW n \in Levels,
           GoTo(t, phase, at, n), UNCHANGED <<outcome, operationLock>>, Plan(t, phase, at, n),
           disturbed \subseteq disturbed',
           Works(phase, at) => Works(op[t].phase, op[t].at),
           Alone(t) /\ Works(phase, at) => Sound(phase, at, n)'
    PROVE  GoesOn(t)
<1>1. OnlyOp(t) /\ op'[t].at = at /\ op'[t].level = n
  BY GoToFacts
<1>2. op'[t].phase = phase
  BY DEF GoTo, OpTypes
<1>3. Moves(t, phase, at, n)
  BY <1>1, <1>2 DEF Moves, Works
<1>4. Alone(t) => Steady(t)'
  BY <1>1, <1>2 DEF Steady
<1> QED
  BY <1>1, <1>3, <1>4 DEF GoesOn

\* An operation that is answered, and fails only when it was disturbed.
LEMMA IsAnswered ==
    ASSUME OpTypes, BootInv, NEW t \in Threads, NEW state, Answer(t, state),
           disturbed \subseteq disturbed',
           Alone(t) /\ op[t].phase \in Boot => state \in Settled
    PROVE  GoesOn(t)
<1>1. op'[t] = IdleOp /\ OnlyOp(t)
  BY IdleFacts
<1>2. Steady(t)'
  <2>1. op'[t].phase = "none"
    BY <1>1 DEF IdleOp
  <2> QED
    BY <2>1 DEF Steady, Works, Boot
<1>3. Ends(t, state)
  BY DEF Ends, Alone
<1> QED
  BY <1>1, <1>2, <1>3 DEF GoesOn

-----------------------------------------------------------------------------
\* What an inspection has found, when nobody disturbs it.
Judged(state) ==
    \/ state = "missing_channel" /\ ~Listed(Channel)
    \/ state = "missing_device" /\ Own(Channel) /\ ~Listed(Device)
    \/ /\ state = "missing_tag" /\ Own(Channel) /\ Own(Device)
       /\ ~Listed(Group) \/ (Own(Group) /\ ~Listed(TagLevel))
    \/ state \in Settled /\ OwnAbove(TagLevel) /\ Listed(TagLevel)

\* Where an inspection leads, by the phase it is of.
LEMMA AfterInspectBoots ==
    ASSUME OpTypes, BootInv, NEW t \in Threads, NEW state, AfterInspect(t, state),
           op[t].at = "inspect", disturbed \subseteq disturbed', project' = project,
           Alone(t) /\ op[t].phase \in Boot => Judged(state)
    PROVE  GoesOn(t)
<1> DEFINE phase == op[t].phase
<1>1. /\ t \in Healers
      /\ phase \in {"heal", "first", "second", "third", "last", "repair", "repaired", "conflict"}
  BY DEF BootInv, Planned, Plan, Creating
<1>2. Alone(t) /\ phase \in Boot => Judged(state) /\ Sound(phase, "inspect", op[t].level)
  BY DEF BootInv, Steady, Works, Alone
<1>3. \A n : (Listed(n)' <=> Listed(n)) /\ (Own(n)' <=> Own(n)) /\ (OwnAbove(n)' <=> OwnAbove(n))
  BY DEF Listed, Own, OwnAbove
<1>4. Levels = {Channel, Device, Group, TagLevel} /\ Channel = 1
  BY LevelFacts
<1>5. ASSUME NEW s, Answer(t, s), Alone(t) /\ phase \in Boot => s \in Settled PROVE GoesOn(t)
  BY <1>5, IsAnswered
<1>6. ASSUME NEW p, NEW at, NEW n \in Levels, GoTo(t, p, at, n), UNCHANGED <<outcome, operationLock>>,
             Plan(t, p, at, n), Works(p, at) => phase \in Boot,
             Alone(t) /\ Works(p, at) => Sound(p, at, n)'
      PROVE  GoesOn(t)
  BY <1>6, MovesOn DEF Works
<1>7. CASE phase = "heal" /\ state \in Missing /\ GoTo(t, "first", "enter", 1) /\ UNCHANGED <<outcome, operationLock>>
  BY <1>1, <1>4, <1>6, <1>7 DEF Plan, Works
<1>8. CASE phase = "heal" /\ GoTo(t, "repair", "inspect", 1) /\ UNCHANGED <<outcome, operationLock>>
  BY <1>1, <1>4, <1>6, <1>8 DEF Plan, Works, Boot
<1>9. CASE phase = "repair" /\ GoTo(t, "repair", "read", TagLevel) /\ UNCHANGED <<outcome, operationLock>>
  BY <1>1, <1>4, <1>6, <1>9 DEF Plan, Works, Boot
<1>10. CASE /\ phase = "first" /\ state = "missing_channel" /\ GoTo(t, "first", "check", Channel)
            /\ UNCHANGED <<outcome, operationLock>>
  <2>1. Alone(t) => Sound("first", "check", Channel)'
    BY <1>2, <1>3, <1>10 DEF Boot, Judged, Settled, Sound
  <2> QED
    BY <1>1, <1>4, <1>6, <1>10, <2>1 DEF Plan, MakesIn, Creating, Boot
<1>11. CASE /\ phase = "first" /\ state \notin {"missing_channel", "ownership_conflict"}
            /\ GoTo(t, "second", "inspect", 1) /\ UNCHANGED <<outcome, operationLock>>
  <2>1. Alone(t) => Own(Channel) /\ OwnAbove(Channel)
    BY <1>2, <1>11, LevelFacts DEF Boot, Judged, OwnAbove
  <2>2. Alone(t) => Sound("second", "inspect", Channel)'
    BY <1>3, <2>1 DEF Sound
  <2> QED
    BY <1>1, <1>4, <1>6, <1>11, <2>2 DEF Plan, Boot
<1>12. CASE /\ phase = "second" /\ state = "missing_device" /\ GoTo(t, "second", "check", Device)
            /\ UNCHANGED <<outcome, operationLock>>
  <2>1. Alone(t) => Sound("second", "check", Device)'
    BY <1>2, <1>3, <1>12 DEF Boot, Judged, Settled, Sound
  <2> QED
    BY <1>1, <1>4, <1>6, <1>12, <2>1 DEF Plan, MakesIn, Creating, Boot
<1>13. CASE /\ phase = "second" /\ state # "missing_device" /\ GoTo(t, "groups", "group", Group)
            /\ UNCHANGED <<outcome, operationLock>>
  <2>1. Alone(t) => Own(Channel)
    BY <1>2, <1>13 DEF Boot, Sound
  <2>2. Alone(t) => Listed(Device)
    BY <1>2, <1>4, <1>13, <2>1, LevelFacts DEF Boot, Judged, Own, OwnAbove, Listed
  <2>3. Alone(t) => Sound("groups", "group", Group)'
    BY <1>3, <2>1, <2>2 DEF Sound, Own, Listed
  <2> QED
    BY <1>1, <1>4, <1>6, <1>13, <2>3 DEF Plan, Boot
<1>14. CASE /\ phase = "third" /\ state = "missing_tag" /\ GoTo(t, "third", "check", TagLevel)
            /\ UNCHANGED <<outcome, operationLock>>
  <2>1. Alone(t) => Sound("third", "check", TagLevel)'
    BY <1>2, <1>3, <1>14 DEF Boot, Judged, Settled, Sound
  <2> QED
    BY <1>1, <1>4, <1>6, <1>14, <2>1 DEF Plan, MakesIn, Creating, Boot
<1>15. CASE /\ phase = "third" /\ state # "missing_tag" /\ GoTo(t, "last", "inspect", 1)
            /\ UNCHANGED <<outcome, operationLock>>
  <2>1. Alone(t) => Listed(Channel) /\ Listed(Device) /\ Listed(Group)
    BY <1>2, <1>15 DEF Boot, Sound
  <2>2. Alone(t) => Listed(TagLevel)
    BY <1>2, <1>4, <1>15, <2>1, LevelFacts DEF Boot, Judged, Own, OwnAbove, Listed
  <2>3. OwnAbove(Channel)
    BY LevelFacts DEF OwnAbove
  <2>4. Alone(t) => Sound("last", "inspect", Channel)'
    BY <1>3, <2>1, <2>2, <2>3 DEF Sound
  <2> QED
    BY <1>1, <1>4, <1>6, <1>15, <2>4 DEF Plan, Boot
<1>16. CASE phase \in {"heal", "repair", "repaired", "conflict"} /\ \E s : Answer(t, s)
  BY <1>5, <1>16 DEF Boot
<1>17. CASE phase = "first" /\ state = "ownership_conflict" /\ Answer(t, state)
  BY <1>2, <1>5, <1>17 DEF Boot, Judged, Settled
<1>18. CASE phase = "last" /\ Answer(t, state)
  <2>1. Alone(t) => Listed(Channel) /\ Listed(Device) /\ Listed(Group) /\ Listed(TagLevel)
    BY <1>2, <1>18 DEF Boot, Sound
  <2>2. Alone(t) => state \in Settled
    BY <1>2, <1>18, <2>1, LevelFacts DEF Boot, Judged, OwnAbove
  <2> QED
    BY <1>5, <1>18, <2>2
<1> QED
  BY <1>7, <1>8, <1>9, <1>10, <1>11, <1>12, <1>13, <1>14, <1>15, <1>16, <1>17, <1>18
     DEF AfterInspect, GoTo

\* An inspection stops at the first level that is not the control's own, and one
\* of an undisturbed bootstrap finds nothing of somebody else.
LEMMA InspectBoots ==
    ASSUME OpTypes, CacheTypes, BootInv, CleanInv, NEW t \in Threads, Inspect(t)
    PROVE  GoesOn(t)
<1> DEFINE n == op[t].level
<1>1. /\ n \in Levels /\ op[t].at = "inspect" /\ project' = project /\ disturbed \subseteq disturbed'
      /\ t \in Healers
      /\ op[t].phase \in {"heal", "first", "second", "third", "last", "repair", "repaired", "conflict"}
  BY DEF OpTypes, Inspect, Gets, server, luck, TimesOut, BootInv, Planned, Plan, Creating
<1>2. Alone(t) /\ op[t].phase \in Boot =>
        Clear /\ OwnAbove(n) /\ Sound(op[t].phase, "inspect", n)
  BY <1>1 DEF BootInv, CleanInv, Clean, Alone, Steady, Works, Sound
<1>3. ASSUME NEW state, AfterInspect(t, state), Alone(t) /\ op[t].phase \in Boot => Judged(state)
      PROVE  GoesOn(t)
  BY <1>1, <1>3, AfterInspectBoots
<1>4. CASE ~Listed(n) /\ AfterInspect(t, MissingState(n))
  <2>1. OwnAbove(n) => Judged(MissingState(n))
    BY <1>1, <1>4, LevelFacts DEF Judged, MissingState, OwnAbove
  <2> QED
    BY <1>2, <1>3, <1>4, <2>1
<1>5. CASE ~Reachable(n) /\ AfterInspect(t, "verification_failed")
  <2>1. ~OwnAbove(n)
    BY <1>5 DEF OwnAbove, Own, Reachable
  <2> QED
    BY <1>2, <1>3, <1>5, <2>1
<1>6. CASE Conflicts(n) /\ AfterInspect(t, "ownership_conflict")
  <2>1. ~Clear
    BY <1>1, <1>6 DEF Conflicts, Clear
  <2> QED
    BY <1>2, <1>3, <1>6, <2>1
<1>7. CASE /\ Listed(n) /\ ~Conflicts(n) /\ n # TagLevel /\ GoTo(t, op[t].phase, "inspect", n + 1)
           /\ UNCHANGED <<outcome, operationLock>>
  <2>1. n + 1 \in Levels /\ Own(n) /\ Parents(n + 1) = Parents(n) \cup {n}
    BY <1>1, <1>7, LevelFacts DEF Own, Listed, Conflicts
  <2>2. OwnAbove(n) => OwnAbove(n + 1)
    BY <2>1 DEF OwnAbove
  <2>3. PICK p, k : p = op[t].phase /\ k = n + 1
    OBVIOUS
  <2>4. Alone(t) /\ Works(p, "inspect") => Sound(p, "inspect", k)
    BY <1>2, <2>2, <2>3 DEF Sound, Works
  <2>5. Sound(p, "inspect", k) => Sound(p, "inspect", k)'
    BY <1>1 DEF Sound, Own, OwnAbove, Listed
  <2> QED
    BY <1>1, <1>7, <2>1, <2>3, <2>4, <2>5, MovesOn DEF Plan, Works
<1>8. CASE n = TagLevel /\ project[n] = "drift" /\ AfterInspect(t, "drift_detected")
  <2>1. ~Clear
    BY <1>1, <1>8 DEF Clear
  <2> QED
    BY <1>2, <1>3, <1>8, <2>1
<1>9. CASE /\ n = TagLevel /\ project[n] = "ours"
           /\ AfterInspect(t, "ready") \/ AfterInspect(t, "tag_unverified")
  BY <1>2, <1>3, <1>9 DEF Judged, Settled, Listed
<1>10. CASE TimesOut(t) /\ AfterInspect(t, "verification_failed")
  BY <1>3, <1>10 DEF TimesOut, Alone
<1> QED
  BY <1>4, <1>5, <1>6, <1>7, <1>8, <1>9, <1>10 DEF Inspect

-----------------------------------------------------------------------------
(* The other steps of an operation.                                        *)

\* A bootstrap takes the lock and inspects again.
LEMMA EnterBoots ==
    ASSUME OpTypes, BootInv, NEW t \in Threads, BootstrapEnters(t)
    PROVE  GoesOn(t)
<1>1. /\ operationLock = Nobody /\ operationLock' = t /\ GoTo(t, "first", "inspect", 1)
      /\ UNCHANGED <<outcome, disturbed>> /\ t \in Healers
  BY DEF BootstrapEnters, luck, BootInv, Planned, Plan, Creating
<1>2. Channel = 1 /\ 1 \in Levels /\ OwnAbove(Channel)'
  BY LevelFacts DEF OwnAbove
<1>3. OnlyOp(t) /\ op'[t].at = "inspect" /\ op'[t].level = 1
  BY <1>1, <1>2, GoToFacts
<1>4. op'[t].phase = "first"
  BY <1>1 DEF GoTo, OpTypes
<1>5. Moves(t, "first", "inspect", 1)
  BY <1>1, <1>3, <1>4 DEF Moves, Plan
<1>6. Steady(t)'
  BY <1>2, <1>3, <1>4 DEF Steady, Sound
<1> QED
  BY <1>1, <1>3, <1>5, <1>6 DEF GoesOn

\* The group is made only where it is not.
LEMMA GroupBoots ==
    ASSUME OpTypes, CacheTypes, BootInv, NEW t \in Threads, CheckGroup(t)
    PROVE  GoesOn(t)
<1>1. /\ op[t].at = "group" /\ op[t].phase = "groups" /\ t \in Healers
      /\ project' = project /\ disturbed \subseteq disturbed'
  BY DEF CheckGroup, Gets, server, luck, TimesOut, BootInv, Planned, Plan, Creating
<1>2. Alone(t) => Listed(Channel) /\ Listed(Device)
  BY <1>1 DEF BootInv, Alone, Steady, Works, Boot, Sound
<1>3. \A n : Listed(n)' <=> Listed(n)
  BY <1>1 DEF Listed
<1>4. CASE Listed(Group) /\ GoTo(t, "third", "inspect", 1) /\ UNCHANGED <<outcome, operationLock>>
  <2>1. OwnAbove(Channel)' /\ Channel = 1 /\ 1 \in Levels
    BY LevelFacts DEF OwnAbove
  <2>2. Alone(t) => Sound("third", "inspect", 1)'
    BY <1>2, <1>3, <1>4, <2>1 DEF Sound
  <2> QED
    BY <1>1, <1>4, <2>1, <2>2, MovesOn DEF Plan, Works, Boot
<1>5. CASE ~Listed(Group) /\ GoTo(t, "groups", "check", Group) /\ UNCHANGED <<outcome, operationLock>>
  <2>1. Alone(t) => Sound("groups", "check", Group)'
    BY <1>2, <1>3, <1>5 DEF Sound
  <2>2. Group \in Levels
    BY LevelFacts
  <2> QED
    BY <1>1, <1>5, <2>1, <2>2, MovesOn DEF Plan, MakesIn, Creating, Works, Boot
<1>6. CASE ~Reachable(Group) /\ Raises(t)
  <2>1. ~Alone(t)
    BY <1>2, <1>6, LevelFacts DEF Reachable, Listed
  <2> QED
    BY <1>1, <1>6, <2>1, IsAnswered DEF Raises
<1>7. CASE TimesOut(t) /\ Raises(t)
  <2>1. ~Alone(t)
    BY <1>7 DEF TimesOut, Alone
  <2> QED
    BY <1>1, <1>7, <2>1, IsAnswered DEF Raises
<1> QED
  BY <1>4, <1>5, <1>6, <1>7 DEF CheckGroup

\* What is above the object a bootstrap makes.
LEMMA MakesBelow ==
    ASSUME NEW phase \in Boot, NEW at \in Creating, NEW n, MakesIn(phase, n), Sound(phase, at, n)
    PROVE  Reachable(n) /\ n \in Levels
BY LevelFacts DEF MakesIn, Sound, Reachable, Listed, Own

\* The check before a creation finds what the bootstrap has found.
LEMMA AbsentBoots ==
    ASSUME OpTypes, CacheTypes, BootInv, NEW t \in Threads, CheckAbsent(t)
    PROVE  GoesOn(t)
<1>0. PICK n, phase : n = op[t].level /\ phase = op[t].phase
  OBVIOUS
<1>1. /\ op[t].at = "check" /\ n \in Levels /\ Plan(t, phase, "check", n)
      /\ project' = project /\ disturbed \subseteq disturbed'
  BY <1>0 DEF OpTypes, CheckAbsent, Gets, server, luck, TimesOut, BootInv, Planned
<1>2. Alone(t) /\ phase \in Boot => Sound(phase, "check", n)
  BY <1>0, <1>1 DEF BootInv, Alone, Steady, Works
<1>3. phase \in Boot => MakesIn(phase, n)
  BY <1>1 DEF Plan, Boot
<1>4. Alone(t) /\ phase \in Boot => Reachable(n) /\ ~Listed(n)
  BY <1>2, <1>3, MakesBelow DEF Creating, Sound
<1>5. CASE GoTo(t, phase, "post", n) /\ UNCHANGED <<outcome, operationLock>>
  <2>1. Sound(phase, "check", n) => Sound(phase, "post", n)'
    BY <1>1 DEF Sound, Own, OwnAbove, Listed
  <2>2. Plan(t, phase, "post", n)
    BY <1>1 DEF Plan, Creating
  <2> QED
    BY <1>1, <1>2, <1>5, <2>1, <2>2, <1>0, MovesOn DEF Works
<1>6. CASE Raises(t) /\ (Listed(n) \/ ~Reachable(n) \/ ~Alone(t))
  BY <1>1, <1>4, <1>6, <1>0, IsAnswered DEF Raises
<1> QED
  BY <1>0, <1>5, <1>6 DEF CheckAbsent, TimesOut, Alone

\* A creation is refused only when the project was changed meanwhile.
LEMMA PostBoots ==
    ASSUME OpTypes, CacheTypes, BootInv, NEW t \in Threads, Post(t)
    PROVE  GoesOn(t)
<1>0. PICK n, phase : n = op[t].level /\ phase = op[t].phase
  OBVIOUS
<1>1. /\ op[t].at = "post" /\ n \in Levels /\ Plan(t, phase, "post", n)
      /\ disturbed \subseteq disturbed'
  BY <1>0 DEF OpTypes, Post, server, luck, TimesOut, BootInv, Planned
<1>2. Alone(t) /\ phase \in Boot => Sound(phase, "post", n)
  BY <1>0, <1>1 DEF BootInv, Alone, Steady, Works
<1>3. phase \in Boot => MakesIn(phase, n)
  BY <1>1 DEF Plan, Boot
<1>4. Alone(t) /\ phase \in Boot => Reachable(n) /\ ~Listed(n)
  BY <1>2, <1>3, MakesBelow DEF Creating, Sound
<1>5. CASE /\ GoTo(t, phase, "invalidate", n) /\ UNCHANGED <<outcome, operationLock>>
           /\ project' = [project EXCEPT ![n] = "ours"]
  <2>1. project'[n] = "ours" /\ \A m \in Levels : Own(m) => Own(m)'
    BY <1>1, <1>5 DEF CacheTypes, Own
  <2>2. \A m \in Levels : Listed(m) => Listed(m)'
    BY <1>1, <1>5 DEF CacheTypes, Listed
  <2>3. phase \in Boot /\ Sound(phase, "post", n) => Sound(phase, "invalidate", n)'
    BY <1>3, <2>1, <2>2, LevelFacts DEF Sound, MakesIn
  <2>4. Plan(t, phase, "invalidate", n)
    BY <1>1 DEF Plan, Creating
  <2> QED
    BY <1>1, <1>2, <1>5, <2>3, <2>4, <1>0, MovesOn DEF Works
<1>6. CASE Raises(t) /\ (Listed(n) \/ ~Reachable(n) \/ t \in disturbed' \/ t \in Creators)
  <2>1. t \in Creators => t \notin Healers
    BY KepwareConstants DEF KepwareConstants
  <2> QED
    BY <1>1, <1>4, <1>6, <2>1, <1>0, IsAnswered DEF Raises, Alone
<1> QED
  BY <1>0, <1>5, <1>6 DEF Post

\* Forgetting the collection changes nothing a bootstrap relies on.
LEMMA InvalidateBoots ==
    ASSUME OpTypes, CacheTypes, BootInv, NEW t \in Threads, Invalidate(t)
    PROVE  GoesOn(t)
<1>0. PICK n, phase : n = op[t].level /\ phase = op[t].phase
  OBVIOUS
<1>1. /\ op[t].at = "invalidate" /\ n \in Levels /\ Plan(t, phase, "invalidate", n)
      /\ project' = project /\ disturbed' = disturbed
      /\ GoTo(t, phase, "verify", n) /\ UNCHANGED <<outcome, operationLock>>
  BY <1>0 DEF OpTypes, Invalidate, Gets, server, luck, BootInv, Planned
<1>2. Alone(t) /\ phase \in Boot => Sound(phase, "invalidate", n)
  BY <1>0, <1>1 DEF BootInv, Alone, Steady, Works
<1>3. Sound(phase, "invalidate", n) => Sound(phase, "verify", n)'
  BY <1>1 DEF Sound, Own, OwnAbove, Listed
<1>4. Plan(t, phase, "verify", n)
  BY <1>1 DEF Plan, Creating
<1> QED
  BY <1>1, <1>2, <1>3, <1>4, <1>0, MovesOn DEF Works

\* What was made is found, and the next phase begins.
LEMMA VerifyBoots ==
    ASSUME OpTypes, CacheTypes, BootInv, NEW t \in Threads, Verify(t)
    PROVE  GoesOn(t)
<1>0. PICK n, phase : n = op[t].level /\ phase = op[t].phase
  OBVIOUS
<1>1. /\ op[t].at = "verify" /\ n \in Levels /\ Plan(t, phase, "verify", n)
      /\ project' = project /\ disturbed \subseteq disturbed'
  BY <1>0 DEF OpTypes, Verify, Gets, server, luck, TimesOut, BootInv, Planned
<1>2. Alone(t) /\ phase \in Boot => Sound(phase, "verify", n)
  BY <1>0, <1>1 DEF BootInv, Alone, Steady, Works
<1>3. \/ phase = "form" /\ t \in Creators
      \/ t \in Healers /\ MakesIn(phase, n)
  BY <1>1 DEF Plan
<1>4. /\ Channel = 1 /\ 1 \in Levels /\ OwnAbove(Channel)'
      /\ \A m : (Listed(m)' <=> Listed(m)) /\ (Own(m)' <=> Own(m)) /\ (OwnAbove(m)' <=> OwnAbove(m))
  BY <1>1, LevelFacts DEF OwnAbove, Own, Listed
<1>5. ASSUME NEW p \in Boot, NEW at \in {"inspect", "group"}, GoTo(t, p, at, 1),
             UNCHANGED <<outcome, operationLock>>, phase \in Boot, Plan(t, p, at, 1),
             Alone(t) => Sound(p, at, 1)'
      PROVE  GoesOn(t)
  BY <1>1, <1>4, <1>5, <1>0, MovesOn DEF Works
<1>6. CASE AfterCreate(t)
  <2>1. CASE phase = "first"
    <3>1. GoTo(t, "second", "inspect", 1) /\ UNCHANGED <<outcome, operationLock>>
      BY <1>0, <1>6, <2>1 DEF AfterCreate
    <3>2. Alone(t) => Sound("second", "inspect", 1)'
      BY <1>2, <1>3, <1>4, <2>1, LevelFacts DEF Sound, Boot, MakesIn, Own
    <3> QED
      BY <1>3, <1>5, <2>1, <3>1, <3>2 DEF Plan, Boot
  <2>2. CASE phase = "second"
    <3>1. GoTo(t, "groups", "group", 1) /\ UNCHANGED <<outcome, operationLock>>
      BY <1>0, <1>6, <2>2 DEF AfterCreate
    <3>2. Alone(t) => Sound("groups", "group", 1)'
      BY <1>2, <1>3, <1>4, <2>2, LevelFacts DEF Sound, Boot, MakesIn, Own, Listed
    <3> QED
      BY <1>3, <1>5, <2>2, <3>1, <3>2 DEF Plan, Boot
  <2>3. CASE phase = "groups"
    <3>1. GoTo(t, "third", "inspect", 1) /\ UNCHANGED <<outcome, operationLock>>
      BY <1>0, <1>6, <2>3 DEF AfterCreate
    <3>2. Alone(t) => Sound("third", "inspect", 1)'
      BY <1>2, <1>3, <1>4, <2>3, LevelFacts DEF Sound, Boot, MakesIn, Listed
    <3> QED
      BY <1>3, <1>5, <2>3, <3>1, <3>2 DEF Plan, Boot
  <2>4. CASE phase = "third"
    <3>1. GoTo(t, "last", "inspect", 1) /\ UNCHANGED <<outcome, operationLock>>
      BY <1>0, <1>6, <2>4 DEF AfterCreate
    <3>2. Alone(t) => Sound("last", "inspect", 1)'
      BY <1>2, <1>3, <1>4, <2>4, LevelFacts DEF Sound, Boot, MakesIn, Listed
    <3> QED
      BY <1>3, <1>5, <2>4, <3>1, <3>2 DEF Plan, Boot
  <2>5. CASE phase = "form"
    <3>1. Answer(t, "created")
      BY <1>0, <1>6, <2>5 DEF AfterCreate
    <3> QED
      BY <1>1, <2>5, <3>1, <1>0, IsAnswered DEF Boot
  <2> QED
    BY <1>3, <2>1, <2>2, <2>3, <2>4, <2>5 DEF MakesIn
<1>7. CASE /\ Raises(t)
           /\ ~(project[n] = "ours" \/ (n = TagLevel /\ Listed(n))) \/ TimesOut(t)
  <2>1. ~Alone(t) \/ phase \notin Boot
    BY <1>2, <1>7 DEF Sound, TimesOut, Alone
  <2> QED
    BY <1>1, <1>7, <2>1, <1>0, IsAnswered DEF Raises
<1> QED
  BY <1>0, <1>6, <1>7 DEF Verify

\* A repair is no part of a bootstrap.
LEMMA RepairBoots ==
    ASSUME OpTypes, CacheTypes, BootInv, NEW t \in Threads,
           ReadRevision(t) \/ Put(t) \/ VerifyUpdate(t)
    PROVE  GoesOn(t)
<1>1. op[t].phase = "repair" /\ t \in Healers /\ disturbed \subseteq disturbed'
  BY DEF ReadRevision, Put, VerifyUpdate, Gets, luck, TimesOut, BootInv, Planned, Plan, Creating,
         MakesIn
<1>2. ASSUME NEW s, Answer(t, s) PROVE GoesOn(t)
  BY <1>1, <1>2, IsAnswered DEF Boot
<1>3. ASSUME NEW p \in {"repair", "repaired", "conflict"}, NEW at, NEW n \in Levels,
             GoTo(t, p, at, n), UNCHANGED <<outcome, operationLock>>, Plan(t, p, at, n)
      PROVE  GoesOn(t)
  BY <1>1, <1>3, MovesOn DEF Works, Boot
<1>4. CASE /\ op' = [op EXCEPT ![t].at = "put", ![t].seen = revision]
           /\ UNCHANGED <<outcome, operationLock>>
  <2>1. OnlyOp(t) /\ op'[t].phase = "repair" /\ op'[t].at = "put" /\ op'[t].level = op[t].level
    BY <1>1, <1>4 DEF OpTypes, OnlyOp
  <2>2. Moves(t, "repair", "put", op[t].level)
    BY <1>1, <1>4, <2>1 DEF Moves, Plan, Works, Boot
  <2> QED
    BY <1>1, <2>1, <2>2 DEF GoesOn, Steady, Works, Boot
<1>5. 1 \in Levels /\ TagLevel \in Levels
  BY LevelFacts
<1>6. ReadRevision(t) => GoesOn(t)
  BY <1>2, <1>4 DEF ReadRevision
<1>7. Put(t) => GoesOn(t)
  <2>1. Put(t) => \/ \E s : Answer(t, s)
                  \/ /\ UNCHANGED <<outcome, operationLock>>
                     /\ \/ GoTo(t, op[t].phase, "verify update", TagLevel)
                        \/ GoTo(t, "conflict", "inspect", 1)
    BY DEF Put
  <2> QED
    BY <1>1, <1>2, <1>3, <1>5, <2>1 DEF Plan
<1>8. VerifyUpdate(t) => GoesOn(t)
  BY <1>1, <1>2, <1>3, <1>5 DEF VerifyUpdate, Plan
<1> QED
  BY <1>6, <1>7, <1>8

-----------------------------------------------------------------------------
\* What nothing but an object of its own has been added to stays sound.
LEMMA SteadyStays ==
    ASSUME OpTypes, NEW u \in Threads, op'[u] = op[u], Steady(u),
           \/ project' = project
           \/ Listed(TagLevel) /\ project' = [project EXCEPT ![TagLevel] = "ours"], CacheTypes
    PROVE  Steady(u)'
<1>1. PICK p, at, n : p = op[u].phase /\ at = op[u].at /\ n = op[u].level
  OBVIOUS
<1>2. n \in Levels
  BY <1>1 DEF OpTypes
<1>3. Works(p, at) => Sound(p, at, n)
  BY <1>1 DEF Steady
<1>4. Sound(p, at, n) => Sound(p, at, n)'
  <2>1. CASE project' = project
    BY <2>1 DEF Sound, Own, OwnAbove, Listed
  <2>2. CASE Listed(TagLevel) /\ project' = [project EXCEPT ![TagLevel] = "ours"]
    <3>1. \A m \in {Channel, Device, Group} : project'[m] = project[m]
      BY <2>2, LevelFacts DEF CacheTypes
    <3>2. project'[TagLevel] = "ours"
      BY <2>2, LevelFacts DEF CacheTypes
    <3>3. \A k \in Levels : OwnAbove(k)' <=> OwnAbove(k)
      BY <3>1, LevelFacts DEF OwnAbove, Own
    <3>4. \A k \in Levels : Listed(k)' <=> Listed(k)
      BY <2>2, <3>1, <3>2, LevelFacts DEF Listed
    <3>5. (Own(Channel)' <=> Own(Channel)) /\ (project[n] = "ours" => project'[n] = "ours")
      BY <1>2, <3>1, <3>2, LevelFacts DEF Own
    <3> QED
      BY <1>2, <3>3, <3>4, <3>5, LevelFacts DEF Sound
  <2> QED
    BY <2>1, <2>2
<1>5. op'[u].phase = p /\ op'[u].at = at /\ op'[u].level = n
  BY <1>1
<1> QED
  BY <1>3, <1>4, <1>5 DEF Steady

\* A thread that begins.
LEMMA BeginningKeeps ==
    ASSUME OpTypes, CacheTypes, BootInv, NEW t \in Threads,
           (t \in Healers /\ HealBegins(t)) \/ (t \in Creators /\ CreatorBegins(t))
    PROVE  BootInv'
<1>1. /\ UNCHANGED <<project, operationLock>> /\ disturbed' = disturbed \ {t}
      /\ outcome' = [outcome EXCEPT ![t] = NoAnswer]
  BY DEF HealBegins, CreatorBegins, server
<1>2. PICK q : /\ op' = [op EXCEPT ![t] = q]
               /\ \/ q.phase = "heal" /\ q.at = "inspect" /\ t \in Healers
                  \/ q.phase = "form" /\ q.at = "check" /\ q.level = TagLevel /\ t \in Creators
  <2>1. CASE t \in Healers /\ HealBegins(t)
    <3> DEFINE q == [IdleOp EXCEPT !.phase = "heal", !.at = "inspect"]
    <3>1. q.phase = "heal" /\ q.at = "inspect" /\ op' = [op EXCEPT ![t] = q]
      BY <2>1 DEF HealBegins, IdleOp
    <3> HIDE DEF q
    <3> QED
      BY <2>1, <3>1
  <2>2. CASE t \in Creators /\ CreatorBegins(t)
    <3> DEFINE q == [IdleOp EXCEPT !.phase = "form", !.at = "check", !.level = TagLevel]
    <3>1. q.phase = "form" /\ q.at = "check" /\ q.level = TagLevel /\ op' = [op EXCEPT ![t] = q]
      BY <2>2 DEF CreatorBegins, IdleOp
    <3> HIDE DEF q
    <3> QED
      BY <2>2, <3>1
  <2> QED
    BY <2>1, <2>2
<1>3. op'[t] = q /\ \A u \in Threads \ {t} : op'[u] = op[u]
  BY <1>2 DEF OpTypes
<1>4. /\ outcome' = [u \in Threads |-> outcome'[u]] /\ outcome'[t] = NoAnswer
      /\ \A u \in Threads \ {t} : outcome'[u] = outcome[u]
  <2>1. outcome = [u \in Threads |-> outcome[u]]
    BY DEF BootInv
  <2> QED
    BY <1>1, <2>1
<1>5. ASSUME NEW u \in Threads PROVE Planned(u)'
  <2>1. CASE u = t
    BY <1>2, <1>3, <2>1 DEF Planned, Plan, Creating, Works, Boot
  <2>2. CASE u # t
    <3>1. op'[u] = op[u] /\ Planned(u)
      BY <1>3, <2>2 DEF BootInv
    <3> QED
      BY <1>1, <3>1 DEF Planned
  <2> QED
    BY <2>1, <2>2
<1>6. ASSUME NEW u \in Healers, u \notin disturbed' PROVE Steady(u)'
  <2>1. CASE u = t
    BY <1>2, <1>3, <2>1 DEF Steady, Works, Boot
  <2>2. CASE u # t
    <3>1. op'[u] = op[u] /\ Steady(u) /\ u \in Threads
      BY <1>1, <1>3, <1>6, <2>2 DEF BootInv, Threads
    <3> QED
      BY <1>1, <3>1, SteadyStays
  <2> QED
    BY <2>1, <2>2
<1>7. BootstrapCompletes'
  <2>1. NoAnswer.phase \notin Boot
    BY DEF NoAnswer, Boot
  <2>2. ASSUME NEW u \in Healers, u \notin disturbed', outcome'[u].phase \in Boot
        PROVE  outcome'[u].state \in Settled
    <3>1. u # t /\ u \in Threads
      BY <1>4, <2>1, <2>2 DEF Threads
    <3>2. u \notin disturbed /\ outcome'[u] = outcome[u]
      BY <1>1, <1>4, <2>2, <3>1
    <3> QED
      BY <2>2, <3>2 DEF BootInv, BootstrapCompletes, Boot
  <2> QED
    BY <2>2 DEF BootstrapCompletes, Boot
<1> QED
  BY <1>4, <1>5, <1>6, <1>7 DEF BootInv

\* A step of no operation: of a browser, or one that disturbs every bootstrap.
LEMMA ElsewhereKeeps ==
    ASSUME OpTypes, CacheTypes, BootInv,
           \/ UNCHANGED kepwareVars \/ SomebodyEdits \/ BrowserStores \/ CacheExpires
           \/ \E n \in Levels : LateCreation(n) \/ BrowserAsks(n)
    PROVE  BootInv'
<1>1. /\ UNCHANGED <<op, outcome, operationLock>>
      /\ (project' = project /\ disturbed' = disturbed) \/ disturbed' = Threads
  BY DEF kepwareVars, server, luck, SomebodyEdits, Disturb, BrowserStores, CacheExpires,
         LateCreation, BrowserAsks
<1>2. \A t \in Threads : Planned(t)'
  BY <1>1 DEF BootInv, Planned
<1>3. Healers \subseteq Threads
  BY DEF Threads
<1>4. ASSUME NEW t \in Healers, t \notin disturbed' PROVE Steady(t)'
  BY <1>1, <1>3, <1>4, SteadyStays DEF BootInv
<1>5. BootstrapCompletes'
  BY <1>1, <1>3 DEF BootInv, BootstrapCompletes
<1> QED
  BY <1>1, <1>2, <1>4, <1>5 DEF BootInv

\* A creation of another request disturbs the bootstrap, one of another
\* bootstrap waits for the lock.
LEMMA BootStepKeeps ==
    ASSUME OpTypes, CacheTypes, BootInv, CleanInv, [KepwareNext]_kepwareVars
    PROVE  BootInv'
<1>1. ASSUME NEW t \in Threads, GoesOn(t),
             \/ project' = project
             \/ Listed(TagLevel) /\ project' = [project EXCEPT ![TagLevel] = "ours"]
      PROVE  BootInv'
  <2>1. \A u \in Healers : u \in Threads
    BY DEF Threads
  <2> QED
    BY <1>1, <2>1, GoingOnKeeps, SteadyStays
<1>2. ASSUME NEW t \in Threads, Post(t) PROVE BootInv'
  <2>1. GoesOn(t)
    BY <1>2, PostBoots
  <2>2. CASE project' = project
    BY <1>1, <2>1, <2>2
  <2>3. CASE project' # project
    <3>1. op[t].at = "post" /\ (t \in Creators => Threads \ {t} \subseteq disturbed')
      BY <1>2, <2>3 DEF Post
    <3>2. t \notin Creators => op[t].phase \in Boot
      BY <3>1 DEF BootInv, Planned, Plan, MakesIn, Boot, Creating
    <3>3. ASSUME NEW u \in Healers \ disturbed', u # t, op'[u] = op[u] PROVE Steady(u)'
      <4>1. u \in Threads /\ operationLock = t
        BY <3>1, <3>2, <3>3 DEF Threads, BootInv, Planned, Works
      <4>2. ~Works(op[u].phase, op[u].at)
        BY <3>3, <4>1 DEF BootInv, Planned
      <4> QED
        BY <3>3, <4>2 DEF Steady
    <3> QED
      BY <2>1, <3>3, GoingOnKeeps
  <2> QED
    BY <2>2, <2>3
<1>3. ASSUME NEW t \in Threads,
             \/ BootstrapEnters(t) \/ Inspect(t) \/ CheckGroup(t) \/ CheckAbsent(t)
             \/ Invalidate(t) \/ Verify(t) \/ ReadRevision(t) \/ Put(t) \/ VerifyUpdate(t)
      PROVE  BootInv'
  <2>1. GoesOn(t)
    BY <1>3, EnterBoots, InspectBoots, GroupBoots, AbsentBoots, InvalidateBoots, VerifyBoots,
       RepairBoots
  <2>2. \/ project' = project
        \/ Listed(TagLevel) /\ project' = [project EXCEPT ![TagLevel] = "ours"]
    BY <1>3 DEF BootstrapEnters, Inspect, CheckGroup, CheckAbsent, Invalidate, Verify,
       ReadRevision, Put, VerifyUpdate, server
  <2> QED
    BY <1>1, <2>1, <2>2
<1>4. \A t \in Healers \cup Creators : t \in Threads
  BY DEF Threads
<1> QED
  BY <1>2, <1>3, <1>4, BeginningKeeps, ElsewhereKeeps DEF KepwareNext

-----------------------------------------------------------------------------
(* What an undisturbed bootstrap finds in the project.                     *)

\* An operation is healing, or a bootstrap, only because it was so before.
Follows(t) ==
    /\ op'[t].phase \in Boot => op[t].phase \in Boot
    /\ op'[t].phase # "heal"

LEMMA GoToPhase ==
    ASSUME OpTypes, NEW t \in Threads, NEW phase, NEW at, NEW n \in Levels,
           GoTo(t, phase, at, n), phase # "heal", phase \in Boot => op[t].phase \in Boot
    PROVE  Follows(t)
BY DEF OpTypes, GoTo, Follows

LEMMA AnswerPhase ==
    ASSUME OpTypes, NEW t \in Threads, NEW state, Answer(t, state)
    PROVE  Follows(t)
BY DEF OpTypes, Answer, Follows, IdleOp, Boot

\* The phases that follow an inspection of any operation but a heal.
LEMMA AfterInspectPhase ==
    ASSUME OpTypes, NEW t \in Threads, NEW state, AfterInspect(t, state), op[t].phase # "heal"
    PROVE  Follows(t)
<1>1. CASE \E s : Answer(t, s)
  BY <1>1, AnswerPhase
<1>2. ASSUME NEW p, NEW at, NEW n \in Levels, GoTo(t, p, at, n), p # "heal",
             p \in Boot => op[t].phase \in Boot
      PROVE  Follows(t)
  BY <1>2, GoToPhase
<1>3. CASE ~\E s : Answer(t, s)
  <2>1. {1, Channel, Device, Group, TagLevel} \subseteq Levels
    BY DEF Levels, Channel, Device, Group, TagLevel
  <2>2. \/ op[t].phase = "repair" /\ GoTo(t, "repair", "read", TagLevel)
        \/ /\ op[t].phase \in Boot
           /\ \E p \in Boot : \/ GoTo(t, p, "check", Channel) \/ GoTo(t, p, "inspect", 1)
                             \/ GoTo(t, p, "check", Device) \/ GoTo(t, p, "group", Group)
                             \/ GoTo(t, p, "check", TagLevel)
    BY <1>3 DEF AfterInspect, GoTo, Boot
  <2>3. "repair" \notin Boot /\ \A p \in Boot : p # "heal"
    BY DEF Boot
  <2> QED
    BY <1>2, <2>1, <2>2, <2>3
<1> QED
  BY <1>1, <1>3

\* A step of an operation other than an inspection of a heal.
LEMMA StepFollows ==
    ASSUME OpTypes, BootInv, NEW t \in Threads,
           \/ BootstrapEnters(t) \/ CheckGroup(t) \/ CheckAbsent(t) \/ Post(t) \/ Invalidate(t)
           \/ Verify(t) \/ ReadRevision(t) \/ Put(t) \/ VerifyUpdate(t)
           \/ Inspect(t) /\ op[t].phase # "heal"
    PROVE  Follows(t)
<1>1. /\ op[t].level \in Levels /\ {1, Channel, Device, Group, TagLevel} \subseteq Levels
      /\ \A n \in Levels : n # TagLevel => n + 1 \in Levels
  BY DEF OpTypes, Levels, Channel, Device, Group, TagLevel
<1>2. Plan(t, op[t].phase, op[t].at, op[t].level)
  BY DEF BootInv, Planned
<1>3. ASSUME NEW s, Answer(t, s) PROVE Follows(t)
  BY <1>3, AnswerPhase
<1>4. ASSUME NEW p, NEW at, NEW n \in Levels, GoTo(t, p, at, n), p # "heal",
             p \in Boot => op[t].phase \in Boot
      PROVE  Follows(t)
  BY <1>4, GoToPhase
<1>5. op[t].at \notin {"inspect"} => op[t].phase # "heal"
  BY <1>2 DEF Plan, MakesIn
<1>6. CASE BootstrapEnters(t)
  <2>1. op[t].phase = "first" /\ GoTo(t, "first", "inspect", 1)
    BY <1>2, <1>6 DEF BootstrapEnters, Plan, Creating
  <2> QED
    BY <1>1, <1>4, <2>1 DEF Boot
<1>7. CASE CheckGroup(t)
  <2>1. op[t].phase = "groups"
    BY <1>2, <1>7 DEF CheckGroup, Gets, Plan, Creating
  <2>2. \/ GoTo(t, "third", "inspect", 1) \/ GoTo(t, "groups", "check", Group)
        \/ \E s : Answer(t, s)
    BY <1>7 DEF CheckGroup, Raises
  <2> QED
    BY <1>1, <1>3, <1>4, <2>1, <2>2 DEF Boot
<1>8. CASE CheckAbsent(t) \/ Post(t) \/ Invalidate(t)
  <2>1. op[t].phase # "heal"
    BY <1>5, <1>8 DEF CheckAbsent, Post, Invalidate, Gets
  <2>2. \/ \E at : GoTo(t, op[t].phase, at, op[t].level)
        \/ \E s : Answer(t, s)
    BY <1>8 DEF CheckAbsent, Post, Invalidate, Raises
  <2> QED
    BY <1>1, <1>3, <1>4, <2>1, <2>2
<1>9. CASE Verify(t)
  <2>1. \/ op[t].phase \in Boot /\ \E p \in Boot : \E at : GoTo(t, p, at, 1)
        \/ \E s : Answer(t, s)
    BY <1>9 DEF Verify, AfterCreate, Raises, Boot
  <2>2. \A p \in Boot : p # "heal"
    BY DEF Boot
  <2> QED
    BY <1>1, <1>3, <1>4, <2>1, <2>2
<1>10. CASE ReadRevision(t)
  <2>1. op[t].phase # "heal"
    BY <1>5, <1>10 DEF ReadRevision, Gets
  <2>2. \/ op' = [op EXCEPT ![t].at = "put", ![t].seen = revision] \/ \E s : Answer(t, s)
    BY <1>10 DEF ReadRevision
  <2> QED
    BY <1>3, <2>1, <2>2 DEF Follows, OpTypes
<1>11. CASE Put(t) \/ VerifyUpdate(t)
  <2>1. op[t].phase # "heal"
    BY <1>5, <1>11 DEF Put, VerifyUpdate, Gets
  <2>2. \/ GoTo(t, op[t].phase, "verify update", TagLevel) \/ GoTo(t, "conflict", "inspect", 1)
        \/ GoTo(t, "repaired", "inspect", 1) \/ \E s : Answer(t, s)
    BY <1>11 DEF Put, VerifyUpdate
  <2>3. "conflict" \notin Boot /\ "repaired" \notin Boot
    BY DEF Boot
  <2> QED
    BY <1>1, <1>3, <1>4, <2>1, <2>2, <2>3
<1>12. CASE Inspect(t) /\ op[t].phase # "heal"
  <2>1. \/ \E state : AfterInspect(t, state)
        \/ op[t].level # TagLevel /\ GoTo(t, op[t].phase, "inspect", op[t].level + 1)
    BY <1>12 DEF Inspect
  <2> QED
    BY <1>1, <1>4, <1>12, <2>1, AfterInspectPhase
<1> QED
  BY <1>6, <1>7, <1>8, <1>9, <1>10, <1>11, <1>12

\* A heal that finds an object missing has found what is above it its own, and
\* nothing is below it.
LEMMA HealCleans ==
    ASSUME KepwareInv, OwnInv, NEW t \in Threads, Inspect(t), op[t].phase = "heal", Clean(t)
    PROVE  Clean(t)'
<1> DEFINE n == op[t].level
<1>1. /\ n \in Levels /\ project' = project /\ OpTypes /\ CacheTypes /\ Nested
      /\ \A m \in Parents(n) : project[m] = "ours"
  BY DEF KepwareInv, OwnInv, OpTypes, Inspect, Gets, server, Clean
<1>2. ASSUME NEW state, AfterInspect(t, state)
      PROVE  /\ ~(op'[t].phase = "heal" /\ op'[t].at = "inspect")
             /\ op'[t].phase \in Boot => state \in Missing
  <2>1. CASE GoTo(t, "first", "enter", 1) /\ state \in Missing
    BY <1>1, <2>1 DEF GoTo, OpTypes
  <2>2. CASE GoTo(t, "repair", "inspect", 1)
    BY <1>1, <2>2 DEF GoTo, OpTypes, Boot
  <2>3. CASE \E s : Answer(t, s)
    BY <1>1, <2>3 DEF Answer, OpTypes, Boot, IdleOp
  <2> QED
    BY <1>2, <2>1, <2>2, <2>3 DEF AfterInspect, GoTo
<1>3. ~Listed(n) => Clear
  <2>1. ASSUME ~Listed(n), NEW m \in Levels PROVE project[m] \in {"absent", "ours"}
    <3>1. CASE m < n
      BY <1>1, <3>1 DEF Parents
    <3>2. CASE m = n
      BY <2>1, <3>2 DEF Listed
    <3>3. CASE n < m
      BY <1>1, <2>1, <3>3 DEF Nested, Listed, Reachable, Parents
    <3> QED
      BY <1>1, <3>1, <3>2, <3>3, LevelsCompare
  <2> QED
    BY <2>1 DEF Clear
<1>4. Clear => Clear'
  BY <1>1 DEF Clear
<1>5. CASE ~Listed(n) /\ \E state : AfterInspect(t, state)
  BY <1>2, <1>3, <1>4, <1>5 DEF Clean
<1>6. CASE \E state \in {"verification_failed", "ownership_conflict", "drift_detected", "ready",
                         "tag_unverified"} : AfterInspect(t, state)
  <2>1. PICK state \in {"verification_failed", "ownership_conflict", "drift_detected", "ready",
                         "tag_unverified"} : AfterInspect(t, state)
    BY <1>6
  <2>2. state \notin Missing
    BY <2>1 DEF Missing
  <2> QED
    BY <1>2, <2>1, <2>2 DEF Clean
<1>7. CASE Listed(n) /\ ~Conflicts(n) /\ n # TagLevel /\ GoTo(t, op[t].phase, "inspect", n + 1)
  <2>1. n + 1 \in Levels /\ Parents(n + 1) = Parents(n) \cup {n}
    BY <1>1, <1>7, LevelFacts
  <2>2. project[n] = "ours"
    BY <1>1, <1>7 DEF CacheTypes, Kinds, Listed, Conflicts
  <2>3. op'[t].phase = "heal" /\ op'[t].level = n + 1
    BY <1>1, <1>7, <2>1 DEF GoTo, OpTypes
  <2>4. \A m \in Parents(n + 1) : project'[m] = "ours"
    BY <1>1, <2>1, <2>2
  <2> QED
    BY <2>3, <2>4 DEF Clean, Boot
<1> QED
  BY <1>5, <1>6, <1>7 DEF Inspect

LEMMA CleanStepKeeps ==
    ASSUME KepwareInv, OwnInv, BootInv, CleanInv, [KepwareNext]_kepwareVars
    PROVE  CleanInv'
<1>1. Healers \subseteq Threads /\ Creators \subseteq Threads /\ Healers \cap Creators = {}
  BY KepwareConstants DEF Threads, KepwareConstants
<1>2. OpTypes /\ CacheTypes /\ Nested
  BY DEF KepwareInv, OwnInv
<1>3. ASSUME ToOurs, NEW u \in Threads, Clean(u), op'[u] = op[u] PROVE Clean(u)'
  <2>1. Clear => Clear'
    BY <1>3 DEF ToOurs, Clear
  <2>2. \A m \in Parents(op[u].level) : project[m] = "ours" => project'[m] = "ours"
    BY <1>3 DEF ToOurs, Parents
  <2> QED
    BY <1>3, <2>1, <2>2 DEF Clean
<1>4. ASSUME ToOurs, NEW t \in Threads, OnlyOp(t), disturbed \subseteq disturbed' \cup {t},
             t \in Healers \ disturbed' => Clean(t)'
      PROVE  CleanInv'
  <2>1. ASSUME NEW u \in Healers, u \notin disturbed', u # t PROVE Clean(u)'
    BY <1>1, <1>3, <1>4, <2>1 DEF OnlyOp, CleanInv
  <2> QED
    BY <1>4, <2>1 DEF CleanInv
<1>5. CASE \/ UNCHANGED kepwareVars \/ BrowserStores \/ CacheExpires
           \/ \E n \in Levels : BrowserAsks(n)
  <2>1. UNCHANGED <<project, op, disturbed>>
    BY <1>5 DEF kepwareVars, server, luck, BrowserAsks, BrowserStores, CacheExpires
  <2>2. ToOurs
    BY <2>1 DEF ToOurs
  <2> QED
    BY <1>1, <1>3, <2>1, <2>2 DEF CleanInv
<1>6. CASE SomebodyEdits \/ \E n \in Levels : LateCreation(n)
  BY <1>1, <1>6 DEF SomebodyEdits, LateCreation, Disturb, CleanInv
<1>7. ASSUME NEW t \in Threads,
             (t \in Healers /\ HealBegins(t)) \/ (t \in Creators /\ CreatorBegins(t))
      PROVE  CleanInv'
  <2>1. project' = project /\ disturbed' = disturbed \ {t}
    BY <1>7 DEF HealBegins, CreatorBegins, server
  <2>2. ToOurs
    BY <2>1 DEF ToOurs
  <2>3. OnlyOp(t)
    <3>1. ASSUME NEW q, DOMAIN q = {"phase", "at", "level", "seen"}, q.level \in Levels,
                 op' = [op EXCEPT ![t] = q]
          PROVE  OnlyOp(t)
      BY <1>2, <3>1 DEF OnlyOp, OpTypes
    <3>2. DOMAIN IdleOp = {"phase", "at", "level", "seen"} /\ 1 \in Levels /\ TagLevel \in Levels
      BY DEF IdleOp, Levels, Channel, TagLevel
    <3>3. CASE HealBegins(t)
      <4> DEFINE q == [IdleOp EXCEPT !.phase = "heal", !.at = "inspect"]
      <4>1. DOMAIN q = {"phase", "at", "level", "seen"} /\ q.level = 1
        BY DEF IdleOp
      <4>2. op' = [op EXCEPT ![t] = q]
        BY <3>3 DEF HealBegins
      <4> HIDE DEF q
      <4> QED
        BY <3>1, <3>2, <4>1, <4>2
    <3>4. CASE CreatorBegins(t)
      <4> DEFINE q == [IdleOp EXCEPT !.phase = "form", !.at = "check", !.level = TagLevel]
      <4>1. DOMAIN q = {"phase", "at", "level", "seen"} /\ q.level = TagLevel
        BY DEF IdleOp
      <4>2. op' = [op EXCEPT ![t] = q]
        BY <3>4 DEF CreatorBegins
      <4> HIDE DEF q
      <4> QED
        BY <3>1, <3>2, <4>1, <4>2
    <3> QED
      BY <1>7, <3>3, <3>4
  <2>4. t \in Healers => Clean(t)'
    <3>1. ASSUME t \in Healers PROVE Clean(t)'
      <4>1. HealBegins(t)
        BY <1>1, <1>7, <3>1
      <4> DEFINE q == [IdleOp EXCEPT !.phase = "heal", !.at = "inspect"]
      <4>2. op'[t] = q /\ q.phase = "heal" /\ q.level = 1
        BY <1>2, <4>1 DEF HealBegins, IdleOp, OpTypes
      <4>3. \A m : m \notin Parents(1)
        BY DEF Parents, Levels, Channel, TagLevel
      <4> QED
        BY <4>2, <4>3 DEF Clean, Boot
    <3> QED
      BY <3>1
  <2> QED
    BY <1>4, <2>1, <2>2, <2>3, <2>4
<1>8. ASSUME NEW t \in Threads,
             \/ BootstrapEnters(t) \/ Inspect(t) \/ CheckGroup(t) \/ CheckAbsent(t) \/ Post(t)
             \/ Invalidate(t) \/ Verify(t) \/ ReadRevision(t) \/ Put(t) \/ VerifyUpdate(t)
      PROVE  CleanInv'
  <2>1. GoesOn(t)
    BY <1>2, <1>8, EnterBoots, InspectBoots, GroupBoots, AbsentBoots, PostBoots, InvalidateBoots,
       VerifyBoots, RepairBoots
  <2>2. ToOurs
    <3>1. CASE Post(t) \/ Put(t)
      BY <3>1, WritesOurs
    <3>2. CASE ~(Post(t) \/ Put(t))
      <4>1. project' = project
        BY <1>8, <3>2 DEF BootstrapEnters, Inspect, CheckGroup, CheckAbsent, Invalidate, Verify,
           ReadRevision, VerifyUpdate, server
      <4> QED
        BY <4>1 DEF ToOurs
    <3> QED
      BY <3>1, <3>2
  <2>3. ASSUME t \in Healers, t \notin disturbed' PROVE Clean(t)'
    <3>1. Clean(t)
      BY <2>1, <2>3 DEF CleanInv, GoesOn
    <3>2. CASE Inspect(t) /\ op[t].phase = "heal"
      BY <3>1, <3>2, HealCleans
    <3>3. CASE ~(Inspect(t) /\ op[t].phase = "heal")
      <4>1. Follows(t)
        BY <1>2, <1>8, <3>3, StepFollows
      <4>2. Clear => Clear'
        BY <2>2 DEF ToOurs, Clear
      <4> QED
        BY <3>1, <4>1, <4>2 DEF Clean, Follows
    <3> QED
      BY <3>2, <3>3
  <2> QED
    BY <1>4, <2>1, <2>2, <2>3 DEF GoesOn
<1>9. \A t \in Healers \cup Creators : t \in Threads
  BY <1>1
<1> QED
  BY <1>5, <1>6, <1>7, <1>8, <1>9 DEF KepwareNext

\* All of it, from the start and at every step.
ControlInv == KepwareInv /\ OwnInv /\ BootInv /\ CleanInv

LEMMA ControlStarts == ASSUME KepwareInit PROVE ControlInv
<1>1. /\ op = [t \in Threads |-> IdleOp] /\ outcome = [t \in Threads |-> NoAnswer]
      /\ \A t \in Healers : t \in Threads
  BY DEF KepwareInit, Threads
<1>2. \A t \in Threads : op[t].phase = "none" /\ op[t].at = "idle" /\ outcome[t].phase = "none"
  BY <1>1 DEF IdleOp, NoAnswer
<1>3. outcome = [t \in Threads |-> outcome[t]]
  BY <1>1
<1>4. \A t \in Threads : Planned(t) /\ Steady(t) /\ Footing(t) /\ Clean(t)
  BY <1>2 DEF Planned, Plan, Works, Boot, Steady, Footing, Clean
<1>5. BootstrapCompletes
  BY <1>1, <1>2 DEF BootstrapCompletes
<1>6. Nested
  <2>1. project \in Projects
    BY DEF KepwareInit
  <2>2. \A n \in Levels : project[n] # "absent" => \A m \in Levels : m < n => project[m] # "absent"
    BY <2>1, KepwareConstants DEF KepwareConstants
  <2> QED
    BY <2>2 DEF Nested, Listed, Reachable, Parents
<1> QED
  BY <1>1, <1>3, <1>4, <1>5, <1>6, KepwareStarts DEF ControlInv, BootInv, OwnInv, CleanInv

LEMMA ControlStepKeeps ==
    ASSUME ControlInv, [KepwareNext]_kepwareVars PROVE ControlInv'
BY KepwareStepKeeps, OwnStepKeeps, BootStepKeeps, CleanStepKeeps DEF ControlInv, KepwareInv

\* BootstrapCompletes: a bootstrap that met no failing request and no change of
\* somebody else finds or makes every object, whatever an earlier one has left,
\* and leaves them in place whatever OPC says of the tag (kepware_system_control.py,
\* inspect and bootstrap); inspections and creations of other requests go on
\* meanwhile.
THEOREM BootstrapsComplete == KepwareSpec => []BootstrapCompletes
<1>1. KepwareInit => ControlInv
  BY ControlStarts
<1>2. ControlInv /\ [KepwareNext]_kepwareVars => ControlInv'
  BY ControlStepKeeps
<1>3. ControlInv => BootstrapCompletes
  BY DEF ControlInv, BootInv
<1> QED
  BY <1>1, <1>2, <1>3, PTL DEF KepwareSpec

-----------------------------------------------------------------------------
(* What is not the control's own is left alone.                            *)

\* One step, for OwnershipIsRespected.
Respects ==
    \A t \in Healers :
      LET n == op[t].level IN
      op[t].at \in {"post", "put"} /\ op'[t] # op[t] /\ project'[n] # project[n] =>
        \/ \A m \in {Channel, Device} \cap Parents(n) : project[m] = "ours"
        \/ IF n = Group THEN t \in disturbed ELSE t \in overtaken

\* What a write takes effect below.
LEMMA WritesBelowOwn ==
    ASSUME ControlInv, NEW t \in Healers, Post(t) \/ Put(t),
           project'[op[t].level] # project[op[t].level]
    PROVE  \/ \A m \in {Channel, Device} \cap Parents(op[t].level) : project[m] = "ours"
           \/ IF op[t].level = Group THEN t \in disturbed ELSE t \in overtaken
<1> DEFINE n == op[t].level
<1>1. /\ t \in Threads /\ n \in Levels /\ op[t].at \in {"post", "put"}
      /\ KepwareInv /\ OwnInv /\ BootInv /\ CleanInv
  BY DEF ControlInv, KepwareInv, OpTypes, Threads, Post, Put
<1>2. Reachable(n)
  BY <1>1, WritesOurs
<1>3. {Channel, Device} \subseteq Levels
  BY LevelFacts
<1>4. CASE n = Channel
  BY <1>4, LevelFacts
<1>5. CASE n \in {Device, TagLevel} /\ t \notin overtaken
  <2>1. \A m \in {Channel, Device} \cap Parents(n) : Firm(m)
    BY <1>1, <1>5 DEF OwnInv, Footing
  <2> QED
    BY <1>2, <2>1 DEF Firm, Reachable
<1>6. CASE n = Group /\ t \notin disturbed
  <2>1. Plan(t, op[t].phase, op[t].at, n) /\ t \notin Creators
    BY <1>1, KepwareConstants DEF BootInv, Planned, KepwareConstants
  <2>2. op[t].at = "post"
    <3>1. n # TagLevel
      BY <1>6, LevelFacts
    <3>2. Put(t) => project'[n] = project[n]
      BY <1>1, <3>1 DEF Put, KepwareInv, CacheTypes
    <3> QED
      BY <3>2 DEF Post
  <2>3. op[t].phase \in Boot
    BY <2>1, <2>2 DEF Plan, MakesIn, Boot
  <2>4. Clear
    BY <1>1, <1>6, <2>3 DEF CleanInv, Clean
  <2> QED
    BY <1>2, <1>3, <2>4 DEF Clear, Reachable
<1>7. n # Group /\ n # Channel => n \in {Device, TagLevel}
  BY <1>1, LevelFacts
<1>8. Group \notin {Device, TagLevel, Channel}
  BY LevelFacts
<1> QED
  BY <1>4, <1>5, <1>6, <1>7, <1>8

LEMMA StepRespects ==
    ASSUME ControlInv, [KepwareNext]_kepwareVars PROVE Respects
<1>1. ASSUME NEW t \in Healers, op[t].at \in {"post", "put"}, op'[t] # op[t],
             project'[op[t].level] # project[op[t].level]
      PROVE  Post(t) \/ Put(t)
  <2>1. op' # op /\ project' # project /\ OpTypes /\ t \in Threads
    BY <1>1 DEF ControlInv, KepwareInv, Threads
  <2>2. ~UNCHANGED kepwareVars
    BY <2>1 DEF kepwareVars
  <2>3. ~(SomebodyEdits \/ \E n \in Levels : LateCreation(n))
    BY <2>1 DEF SomebodyEdits, LateCreation
  <2>4. PICK u \in Threads : Post(u) \/ Put(u)
    BY <2>1, <2>2, <2>3 DEF KepwareNext, BrowserAsks, BrowserStores, CacheExpires, HealBegins,
       CreatorBegins, BootstrapEnters, Inspect, CheckGroup, CheckAbsent, Invalidate, Verify,
       ReadRevision, VerifyUpdate, server
  <2>5. \E r : op' = [op EXCEPT ![u] = r]
    BY <2>4 DEF Post, Put, GoTo, Answer, Raises
  <2>6. u = t
    BY <1>1, <2>1, <2>5 DEF OpTypes
  <2> QED
    BY <2>4, <2>6
<1> QED
  BY <1>1, WritesBelowOwn DEF Respects

\* OwnershipIsRespected: what the control makes or repairs takes effect only below
\* a channel and a device of its own, unless somebody has changed the project since
\* the inspection it acts on began; for the group, unless anything has disturbed
\* the bootstrap (kepware_system_control.py, inspect, bootstrap and repair).
THEOREM OwnershipHolds == KepwareSpec => OwnershipIsRespected
<1>1. KepwareInit => ControlInv
  BY ControlStarts
<1>2. ControlInv /\ [KepwareNext]_kepwareVars => ControlInv' /\ Respects
  BY ControlStepKeeps, StepRespects
<1> QED
  BY <1>1, <1>2, PTL DEF KepwareSpec, OwnershipIsRespected, Respects
=============================================================================
