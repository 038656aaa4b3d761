-------------------------- MODULE TagRegistryProofs -------------------------
(***************************************************************************)
(* Proofs about TagRegistry where every web process has a line name: what  *)
(* the transactions of any number of lines do to one TagMaster, and that   *)
(* the historian of each line learns of it.                                *)
(*                                                                         *)
(* The facts about one transaction (WrittenFacts, TransactionTags,         *)
(* CountsTell) come first, then the invariant and the theorems.            *)
(***************************************************************************)
EXTENDS TagRegistry, FiniteSetTheorems, TLAPS

\* Every process has a line name, and TagMaster has at first one ownerless row
\* of a path at most.
ScopedDeployment ==
    /\ NoLine \notin Lines
    /\ IsFiniteSet(LegacyRows)
    /\ \A r \in LegacyRows : \A q \in LegacyRows : r.path = q.path => r = q

-----------------------------------------------------------------------------
TagSet == [path : Paths, attr : Attrs]
RowSet == [path : Paths, attr : Attrs, active : BOOLEAN, line : Lines \cup {NoLine}]

\* One attribute of each path.
OneEach(tags) == \A t \in tags : \A u \in tags : t.path = u.path => t = u

Snapshot(tags) == tags \subseteq TagSet /\ IsFiniteSet(tags) /\ OneEach(tags)

-----------------------------------------------------------------------------
\* The sequence of a finite set has each of its elements once.
LEMMA SequenceOfSet ==
    ASSUME NEW S, IsFiniteSet(S)
    PROVE  /\ SetToSeq(S) \in Seq(S)
           /\ \A x \in S : \E i \in DOMAIN SetToSeq(S) : SetToSeq(S)[i] = x
           /\ \A i \in DOMAIN SetToSeq(S) : \A j \in DOMAIN SetToSeq(S) :
                i # j => SetToSeq(S)[i] # SetToSeq(S)[j]
<1> DEFINE n == Cardinality(S)
<1>1. n \in Nat /\ ExistsBijection(1..n, S)
  BY FS_CardinalityType
<1>2. \E f \in [1..n -> S] : IsInjective(f)
  BY <1>1 DEF ExistsBijection, Bijection, Injection
<1>3. SetToSeq(S) \in [1..n -> S] /\ IsInjective(SetToSeq(S))
  BY <1>2 DEF SetToSeq
<1>4. SetToSeq(S) \in Injection(1..n, S)
  BY <1>3 DEF Injection, IsInjective
<1>5. Cardinality(1..n) = n
  BY <1>1, FS_Bijection, FS_CardinalityType, FS_Interval
<1>6. SetToSeq(S) \in Surjection(1..n, S)
  <2>1. Cardinality(1..n) = Cardinality(S)
    BY <1>5
  <2> HIDE DEF n
  <2> QED
    BY <1>4, <2>1, FS_Injection
<1> HIDE DEF n
<1> QED
  BY <1>1, <1>3, <1>6 DEF IsInjective, Surjection

LEMMA RowsOfTags ==
    ASSUME NEW tags, IsFiniteSet(tags), NEW l
    PROVE  IsFiniteSet({Row(t, l) : t \in tags})
<1> DEFINE S == {Row(t, l) : t \in tags}
           f == [t \in tags |-> Row(t, l)]
<1>1. f \in Surjection(tags, S)
  BY DEF Surjection
<1> HIDE DEF S, f
<1>2. IsFiniteSet(S)
  BY <1>1, FS_Surjection
<1> QED
  BY <1>2 DEF S

LEMMA TagsAreOwn ==
    ASSUME NEW read, NEW l \in Lines, ScopedDeployment, NEW q, NEW i \in IdsOf(read, l, q)
    PROVE  i \in DOMAIN read /\ read[i].line = l /\ read[i].path = q
BY DEF ScopedDeployment, IdsOf, Owns, Scoped

\* What a transaction of line l makes of TagMaster: no row leaves its place, its
\* path or its line; rows of others stay as they are; and new rows are of tags
\* that had none, each of them once.
TableAfter(table, tags, l) ==
    /\ table \in Seq(RowSet) /\ DOMAIN rows \subseteq DOMAIN table
    /\ \A i \in DOMAIN rows : /\ table[i].path = rows[i].path
                              /\ table[i].line = rows[i].line
                              /\ rows[i].line # l => table[i] = rows[i]
    /\ \A i \in DOMAIN table \ DOMAIN rows :
         \E t \in tags : table[i] = Row(t, l) /\ IdsOf(rows, l, t.path) = {}
    /\ \A i \in DOMAIN table \ DOMAIN rows : \A j \in DOMAIN table \ DOMAIN rows :
         i # j => table[i] # table[j]

\* What it makes of the line's own tags: those given are active as given, and
\* the others stay as they are or, after a full apply, are not active.
TagsAfter(table, tags, l, full) ==
    /\ \A i \in DOMAIN rows : rows[i].line = l =>
         /\ \A t \in tags : t.path = rows[i].path => table[i].active /\ table[i].attr = t.attr
         /\ (\A t \in tags : t.path # rows[i].path) =>
              /\ table[i].attr = rows[i].attr
              /\ IF full THEN ~table[i].active ELSE table[i].active = rows[i].active
    /\ \A t \in tags : IdsOf(rows, l, t.path) = {} =>
         \E i \in DOMAIN table \ DOMAIN rows : table[i] = Row(t, l)

LEMMA WrittenFacts ==
    ASSUME ScopedDeployment, NEW l \in Lines, rows \in Seq(RowSet),
           NEW tags, Snapshot(tags), NEW full \in BOOLEAN
    PROVE  /\ TableAfter(Written(rows, tags, l, full), tags, l)
           /\ TagsAfter(Written(rows, tags, l, full), tags, l, full)
<1> DEFINE hits == UNION {IdsOf(rows, l, t.path) : t \in tags}
           new  == {t \in tags : IdsOf(rows, l, t.path) = {}}
           kept == [i \in DOMAIN rows |->
                      IF i \in hits THEN Refreshed(rows[i], tags)
                      ELSE [rows[i] EXCEPT !.active = @ /\ ~(full /\ Deactivates(rows, l, i))]]
           fresh == SetToSeq({Row(t, l) : t \in new})
           W == kept \o fresh
<1>1. Written(rows, tags, l, full) = W
  BY DEF Written
<1>2. \A i \in DOMAIN rows : rows[i] \in RowSet
  OBVIOUS
<1>3. ASSUME NEW i \in hits
      PROVE  /\ i \in DOMAIN rows /\ rows[i].line = l
             /\ \E t \in tags : t.path = rows[i].path
  <2>1. PICK t \in tags : i \in IdsOf(rows, l, t.path)
    BY <1>3
  <2> QED
    BY <2>1, TagsAreOwn
<1>4. ASSUME NEW i \in DOMAIN rows
      PROVE  /\ kept[i] \in RowSet
             /\ kept[i].path = rows[i].path /\ kept[i].line = rows[i].line
             /\ rows[i].line # l => kept[i] = rows[i]
  <2>1. rows[i] \in RowSet
    BY <1>2
  <2>2. CASE i \in hits
    <3> DEFINE a == (CHOOSE t \in tags : t.path = rows[i].path).attr
    <3>1. PICK t \in tags : t.path = rows[i].path
      BY <1>3, <2>2
    <3>2. a \in Attrs
      BY <3>1 DEF Snapshot, TagSet
    <3>3. kept[i] = [rows[i] EXCEPT !.active = TRUE, !.attr = a]
      BY <2>2 DEF Refreshed
    <3> HIDE DEF a, kept
    <3>4. rows[i].line = l
      BY <1>3, <2>2
    <3> QED
      BY <2>1, <3>2, <3>3, <3>4 DEF RowSet
  <2>3. CASE i \notin hits
    <3> DEFINE b == rows[i].active /\ ~(full /\ Deactivates(rows, l, i))
    <3>1. kept[i] = [rows[i] EXCEPT !.active = b]
      BY <2>3
    <3>2. b \in BOOLEAN
      OBVIOUS
    <3>3. rows[i].line # l => b = rows[i].active
      <4>1. rows[i].line # l => ~Deactivates(rows, l, i)
        BY DEF ScopedDeployment, Deactivates, Owns, Scoped
      <4>2. rows[i].active \in BOOLEAN
        BY <2>1 DEF RowSet
      <4> QED
        BY <4>1, <4>2
    <3> HIDE DEF b, kept
    <3> QED
      BY <2>1, <3>1, <3>2, <3>3 DEF RowSet
  <2> QED
    BY <2>2, <2>3
<1>4a. ASSUME NEW i \in DOMAIN rows, rows[i].line = l
       PROVE  /\ \A t \in tags : t.path = rows[i].path =>
                   kept[i].active /\ kept[i].attr = t.attr
              /\ (\A t \in tags : t.path # rows[i].path) =>
                   /\ kept[i].attr = rows[i].attr
                   /\ IF full THEN ~kept[i].active ELSE kept[i].active = rows[i].active
  <2>1. rows[i] \in RowSet
    BY <1>2
  <2>2. ASSUME NEW t \in tags, t.path = rows[i].path
        PROVE  kept[i].active /\ kept[i].attr = t.attr
    <3> DEFINE c == CHOOSE u \in tags : u.path = rows[i].path
    <3>1. i \in hits
      BY <1>4a, <2>2 DEF IdsOf, Owns
    <3>2. c = t
      BY <2>2 DEF Snapshot, OneEach
    <3>3. kept[i] = [rows[i] EXCEPT !.active = TRUE, !.attr = c.attr]
      BY <3>1 DEF Refreshed
    <3> HIDE DEF c, kept
    <3> QED
      BY <2>1, <3>2, <3>3 DEF RowSet
  <2>3. ASSUME \A t \in tags : t.path # rows[i].path
        PROVE  /\ kept[i].attr = rows[i].attr
               /\ IF full THEN ~kept[i].active ELSE kept[i].active = rows[i].active
    <3> DEFINE b == rows[i].active /\ ~(full /\ Deactivates(rows, l, i))
    <3>1. i \notin hits
      BY <1>3, <2>3
    <3>2. kept[i] = [rows[i] EXCEPT !.active = b]
      BY <3>1
    <3>3. Deactivates(rows, l, i)
      BY <1>4a DEF Deactivates, Owns
    <3>4. b = (rows[i].active /\ ~full)
      BY <3>3
    <3>5. rows[i].active \in BOOLEAN
      BY <2>1 DEF RowSet
    <3> HIDE DEF b, kept
    <3> QED
      BY <2>1, <3>2, <3>4, <3>5 DEF RowSet
  <2> QED
    BY <2>2, <2>3
<1>5. kept \in Seq(RowSet) /\ Len(kept) = Len(rows) /\ DOMAIN kept = DOMAIN rows
  <2>1. DOMAIN rows = 1..Len(rows) /\ Len(rows) \in Nat
    OBVIOUS
  <2>2. kept \in [1..Len(rows) -> RowSet]
    <3>1. kept = [i \in 1..Len(rows) |-> kept[i]]
      BY <2>1
    <3> HIDE DEF kept
    <3> QED
      BY <1>4, <2>1, <3>1
  <2> HIDE DEF kept
  <2> QED
    BY <2>1, <2>2
<1>6. /\ fresh \in Seq({Row(t, l) : t \in new})
      /\ \A x \in {Row(t, l) : t \in new} : \E i \in DOMAIN fresh : fresh[i] = x
      /\ \A i \in DOMAIN fresh : \A j \in DOMAIN fresh : i # j => fresh[i] # fresh[j]
  <2>1. IsFiniteSet(new)
    BY FS_Subset DEF Snapshot
  <2> HIDE DEF new
  <2>2. IsFiniteSet({Row(t, l) : t \in new})
    BY <2>1, RowsOfTags
  <2> QED
    BY <2>2, SequenceOfSet
<1>7. \A i \in DOMAIN fresh : \E t \in new : fresh[i] = Row(t, l)
  <2> HIDE DEF fresh, new
  <2>1. \A i \in DOMAIN fresh : fresh[i] \in {Row(t, l) : t \in new}
    BY <1>6
  <2> QED
    BY <2>1
<1>8. \A t \in tags : Row(t, l) \in RowSet
  BY DEF Snapshot, TagSet, Row, RowSet
<1>9. fresh \in Seq(RowSet)
  <2>1. {Row(t, l) : t \in new} \subseteq RowSet
    BY <1>8
  <2> HIDE DEF fresh, new
  <2> QED
    BY <1>6, <2>1
<1>10. /\ new \subseteq tags /\ \A t \in new : IdsOf(rows, l, t.path) = {}
       /\ \A t \in tags : IdsOf(rows, l, t.path) = {} => t \in new
  OBVIOUS
<1>10a. \A t \in new : \E i \in DOMAIN fresh : fresh[i] = Row(t, l)
  <2> HIDE DEF fresh, new
  <2> QED
    BY <1>6
<1> HIDE DEF kept, fresh, new, hits
<1>11. /\ W \in Seq(RowSet) /\ Len(W) = Len(kept) + Len(fresh)
       /\ \A i \in 1..Len(kept) : W[i] = kept[i]
       /\ \A i \in Len(kept) + 1..Len(W) : W[i] = fresh[i - Len(kept)]
  BY <1>5, <1>9
<1>12. /\ Len(kept) \in Nat /\ Len(fresh) \in Nat /\ DOMAIN rows = 1..Len(kept)
       /\ DOMAIN W = 1..Len(W) /\ DOMAIN fresh = 1..Len(fresh)
  BY <1>5, <1>9, <1>11
<1> HIDE DEF W
<1>13. DOMAIN rows \subseteq DOMAIN W
  BY <1>11, <1>12
<1>14. ASSUME NEW i \in DOMAIN W \ DOMAIN rows
       PROVE  /\ i - Len(kept) \in DOMAIN fresh /\ i \in Nat
              /\ W[i] = fresh[i - Len(kept)]
  BY <1>11, <1>12
<1>15. \A i \in DOMAIN W \ DOMAIN rows :
         \E t \in tags : W[i] = Row(t, l) /\ IdsOf(rows, l, t.path) = {}
  BY <1>7, <1>10, <1>14
<1>16. ASSUME NEW i \in DOMAIN W \ DOMAIN rows, NEW j \in DOMAIN W \ DOMAIN rows, i # j
       PROVE  W[i] # W[j]
  <2>1. i - Len(kept) # j - Len(kept)
    BY <1>12, <1>14, <1>16
  <2> QED
    BY <1>6, <1>14, <2>1
<1>17. TableAfter(W, tags, l)
  BY <1>4, <1>11, <1>12, <1>13, <1>15, <1>16 DEF TableAfter
<1>18. ASSUME NEW t \in tags, IdsOf(rows, l, t.path) = {}
       PROVE  \E i \in DOMAIN W \ DOMAIN rows : W[i] = Row(t, l)
  <2>1. PICK k \in DOMAIN fresh : fresh[k] = Row(t, l)
    BY <1>10, <1>10a, <1>18
  <2>2. k + Len(kept) \in DOMAIN W \ DOMAIN rows
    BY <1>11, <1>12
  <2>3. W[k + Len(kept)] = fresh[k]
    BY <1>12, <1>14, <2>2
  <2> QED
    BY <2>1, <2>2, <2>3
<1>19. TagsAfter(W, tags, l, full)
  <2>1. \A i \in DOMAIN rows : W[i] = kept[i]
    BY <1>11, <1>12
  <2> QED
    BY <1>4a, <1>18, <2>1 DEF TagsAfter
<1> QED
  BY <1>1, <1>17, <1>19

\* Such a transaction leaves a path one row, when the line it is of has none of
\* its tags in an ownerless row.
LEMMA WrittenKeepsIdentity ==
    ASSUME ScopedDeployment, NEW l \in Lines, rows \in Seq(RowSet),
           NEW tags, Snapshot(tags), NEW full \in BOOLEAN,
           ~LegacyConflict(l, tags), PathIsIdentity,
           rows' = Written(rows, tags, l, full)
    PROVE  PathIsIdentity'
<1>0. TableAfter(rows', tags, l)
  <2>1. TableAfter(Written(rows, tags, l, full), tags, l)
    BY WrittenFacts
  <2> QED
    BY <2>1
<1>1. /\ rows' \in Seq(RowSet) /\ DOMAIN rows \subseteq DOMAIN rows'
      /\ \A i \in DOMAIN rows : rows'[i].path = rows[i].path /\ rows'[i].line = rows[i].line
      /\ \A i \in DOMAIN rows' \ DOMAIN rows :
           \E t \in tags : rows'[i] = Row(t, l) /\ IdsOf(rows, l, t.path) = {}
      /\ \A i \in DOMAIN rows' \ DOMAIN rows : \A j \in DOMAIN rows' \ DOMAIN rows :
           i # j => rows'[i] # rows'[j]
  BY <1>0 DEF TableAfter
<1>2. l # NoLine
  BY DEF ScopedDeployment
<1>3. ASSUME NEW i \in DOMAIN rows, NEW t \in tags, IdsOf(rows, l, t.path) = {},
             rows[i].path = t.path
      PROVE  rows[i].line # l /\ rows[i].line # NoLine
  <2>1. rows[i].line # l
    BY <1>2, <1>3 DEF IdsOf, Owns
  <2>2. rows[i].line # NoLine
    BY <1>3 DEF LegacyConflict
  <2> QED
    BY <2>1, <2>2
<1>4. ASSUME NEW i \in DOMAIN rows', NEW j \in DOMAIN rows',
             i # j, rows'[i].path = rows'[j].path
      PROVE  /\ rows'[i].line # rows'[j].line
             /\ NoLine \notin {rows'[i].line, rows'[j].line}
  <2>1. CASE i \in DOMAIN rows /\ j \in DOMAIN rows
    BY <1>1, <1>4, <2>1 DEF PathIsIdentity
  <2>2. CASE i \in DOMAIN rows /\ j \notin DOMAIN rows
    <3>1. PICK t \in tags : rows'[j] = Row(t, l) /\ IdsOf(rows, l, t.path) = {}
      BY <1>1, <1>4, <2>2
    <3>2. rows'[j].line = l /\ rows[i].path = t.path
      BY <1>1, <1>4, <2>2, <3>1 DEF Row
    <3> QED
      BY <1>1, <1>2, <1>3, <2>2, <3>1, <3>2
  <2>3. CASE i \notin DOMAIN rows /\ j \in DOMAIN rows
    <3>1. PICK t \in tags : rows'[i] = Row(t, l) /\ IdsOf(rows, l, t.path) = {}
      BY <1>1, <1>4, <2>3
    <3>2. rows'[i].line = l /\ rows[j].path = t.path
      BY <1>1, <1>4, <2>3, <3>1 DEF Row
    <3> QED
      BY <1>1, <1>2, <1>3, <2>3, <3>1, <3>2
  <2>4. CASE i \notin DOMAIN rows /\ j \notin DOMAIN rows
    <3>1. PICK t \in tags : rows'[i] = Row(t, l)
      BY <1>1, <1>4, <2>4
    <3>2. PICK u \in tags : rows'[j] = Row(u, l)
      BY <1>1, <1>4, <2>4
    <3>3. t.path = u.path
      BY <1>4, <3>1, <3>2 DEF Row
    <3>4. t = u
      BY <3>3 DEF Snapshot, OneEach
    <3> QED
      BY <1>1, <1>4, <2>4, <3>1, <3>2, <3>4
  <2> QED
    BY <2>1, <2>2, <2>3, <2>4
<1> QED
  BY <1>4 DEF PathIsIdentity
-----------------------------------------------------------------------------
\* What the transactions and the browses hold in hand; a scoped process never
\* stands between a read and a write.
Reconcilers == [pc : {"idle", "browsing", "applying", "committed"}, left : SUBSET Paths,
                tags : SUBSET TagSet, read : {<<>>}, changed : BOOLEAN]
SyncRecords == [pc : {"idle", "applying", "committed"}, line : Lines \cup {NoLine},
                tags : SUBSET TagSet, read : {<<>>}, notify : BOOLEAN]

RegistryTypes ==
    /\ opc \in [Paths -> Attrs \cup {Absent}]
    /\ rows \in Seq(RowSet)
    /\ reconciler \in [Lines -> Reconcilers]
    /\ syncer \in [Syncers -> SyncRecords]

\* A browse has found each path once and has none of those still ahead of it.
BrowseSnapshot(r) == Snapshot(r.tags) /\ \A t \in r.tags : t.path \notin r.left
SyncSnapshot(r)   == Snapshot(r.tags) /\ (r.pc # "idle" => r.line \in Lines)

Snapshots == /\ \A l \in Lines : BrowseSnapshot(reconciler[l])
             /\ \A s \in Syncers : SyncSnapshot(syncer[s])

RegistryInv == RegistryTypes /\ Snapshots /\ PathIsIdentity

LEMMA IdleRecords ==
    /\ IdleReconciler \in Reconcilers /\ BrowseSnapshot(IdleReconciler)
    /\ IdleSyncer \in SyncRecords /\ SyncSnapshot(IdleSyncer)
BY FS_EmptySet DEF IdleReconciler, Reconcilers, BrowseSnapshot, Snapshot, OneEach,
                   IdleSyncer, SyncRecords, SyncSnapshot

LEMMA ReconcilerSet ==
    ASSUME RegistryTypes, Snapshots, NEW l \in Lines,
           NEW r \in Reconcilers, BrowseSnapshot(r), SetReconciler(l, r)
    PROVE  /\ reconciler' \in [Lines -> Reconcilers] /\ reconciler'[l] = r
           /\ \A m \in Lines : BrowseSnapshot(reconciler'[m])
BY DEF RegistryTypes, Snapshots, SetReconciler

LEMMA SyncerSet ==
    ASSUME RegistryTypes, Snapshots, NEW s \in Syncers,
           NEW r \in SyncRecords, SyncSnapshot(r), SetSyncer(s, r)
    PROVE  /\ syncer' \in [Syncers -> SyncRecords] /\ syncer'[s] = r
           /\ \A u \in Syncers : SyncSnapshot(syncer'[u])
BY DEF RegistryTypes, Snapshots, SetSyncer

LEMMA RegistryStarts == ASSUME ScopedDeployment, RegistryInit PROVE RegistryInv
<1>1. PICK old \in SUBSET LegacyRows : rows = SetToSeq({Row(t, NoLine) : t \in old})
  BY DEF RegistryInit
<1> DEFINE S == {Row(t, NoLine) : t \in old}
<1>2. IsFiniteSet(S)
  <2>1. IsFiniteSet(old)
    BY FS_Subset DEF ScopedDeployment
  <2> QED
    BY <2>1, RowsOfTags
<1>3. S \subseteq RowSet
  <2>1. \A t \in old : t.path \in Paths /\ t.attr \in Attrs
    BY RegistryConstants DEF RegistryConstants
  <2>2. ASSUME NEW t \in old PROVE Row(t, NoLine) \in RowSet
    BY <2>1 DEF Row, RowSet
  <2> QED
    BY <2>2
<1>4. ASSUME NEW r \in S, NEW q \in S, r.path = q.path PROVE r = q
  <2>1. PICK t \in old : r = Row(t, NoLine)
    OBVIOUS
  <2>2. PICK u \in old : q = Row(u, NoLine)
    OBVIOUS
  <2>3. t.path = u.path
    BY <1>4, <2>1, <2>2 DEF Row
  <2>4. t = u
    BY <2>3 DEF ScopedDeployment
  <2> QED
    BY <2>1, <2>2, <2>4
<1> HIDE DEF S
<1>5. /\ SetToSeq(S) \in Seq(S)
      /\ \A i \in DOMAIN SetToSeq(S) : \A j \in DOMAIN SetToSeq(S) :
           i # j => SetToSeq(S)[i] # SetToSeq(S)[j]
  BY <1>2, SequenceOfSet
<1>6. rows = SetToSeq(S)
  BY <1>1 DEF S
<1>7. rows \in Seq(RowSet)
  BY <1>3, <1>5, <1>6
<1>8. PathIsIdentity
  <2>1. rows \in Seq(S)
    BY <1>5, <1>6
  <2>2. ASSUME NEW i \in DOMAIN rows, NEW j \in DOMAIN rows, i # j
        PROVE  rows[i].path # rows[j].path
    BY <1>4, <1>5, <1>6, <2>1, <2>2
  <2> QED
    BY <2>2 DEF PathIsIdentity
<1> QED
  BY <1>7, <1>8, IdleRecords DEF RegistryInit, RegistryInv, RegistryTypes, Snapshots

-----------------------------------------------------------------------------
\* Actions that leave TagMaster alone keep what is said of its rows.
LEMMA TableUntouched ==
    ASSUME PathIsIdentity, UNCHANGED rows PROVE PathIsIdentity'
BY DEF PathIsIdentity

LEMMA BrowseKeeps ==
    ASSUME ScopedDeployment, RegistryInv, NEW l \in Lines,
           BeginReconcile(l) \/ BrowsePath(l) \/ BrowseEnds(l) \/ ReconcileFails(l)
             \/ ReconcileNotifies(l)
    PROVE  RegistryInv'
<1> DEFINE r == reconciler[l]
<1>1. r \in Reconcilers /\ BrowseSnapshot(r)
  BY DEF RegistryInv, RegistryTypes, Snapshots
<1>3. UNCHANGED <<opc, rows, syncer>>
  BY DEF BeginReconcile, BrowsePath, BrowseEnds, ReconcileFails, ReconcileNotifies
<1>4. \E q \in Reconcilers : BrowseSnapshot(q) /\ SetReconciler(l, q)
  <2>1. CASE BeginReconcile(l)
    <3> DEFINE q == [IdleReconciler EXCEPT !.pc = "browsing", !.left = ScopeOf[l]]
    <3>1. ScopeOf[l] \in SUBSET Paths
      BY RegistryConstants DEF RegistryConstants
    <3>2. q \in Reconcilers /\ BrowseSnapshot(q)
      BY <3>1, FS_EmptySet DEF IdleReconciler, Reconcilers, BrowseSnapshot, Snapshot, OneEach
    <3>3. SetReconciler(l, q)
      BY <2>1 DEF BeginReconcile
    <3> QED
      BY <3>2, <3>3
  <2>2. CASE BrowsePath(l)
    <3>1. PICK p \in r.left :
            SetReconciler(l, [r EXCEPT
              !.left = @ \ {p},
              !.tags = IF opc[p] = Absent THEN @ ELSE @ \cup {Tag(p, opc[p])}])
      BY <2>2 DEF BrowsePath
    <3> DEFINE found == IF opc[p] = Absent THEN r.tags ELSE r.tags \cup {Tag(p, opc[p])}
               q == [r EXCEPT !.left = @ \ {p}, !.tags = found]
    <3>2. p \in Paths /\ (opc[p] # Absent => opc[p] \in Attrs)
      BY <1>1 DEF RegistryInv, RegistryTypes, Reconcilers
    <3>3. Snapshot(found)
      <4>1. r.tags \subseteq TagSet /\ IsFiniteSet(r.tags) /\ OneEach(r.tags)
        BY <1>1 DEF BrowseSnapshot, Snapshot
      <4>2. IsFiniteSet(found)
        BY <4>1, FS_AddElement
      <4>3. found \subseteq TagSet
        BY <3>2, <4>1 DEF TagSet, Tag
      <4>4. \A t \in r.tags : t.path # p
        BY <1>1 DEF BrowseSnapshot
      <4>5. OneEach(found)
        BY <4>1, <4>4 DEF OneEach, Tag
      <4> QED
        BY <4>2, <4>3, <4>5 DEF Snapshot
    <3>4. \A t \in found : t.path \notin r.left \ {p}
      BY <1>1 DEF BrowseSnapshot, Tag
    <3> HIDE DEF found
    <3>5. q \in Reconcilers /\ q.tags = found /\ q.left = r.left \ {p}
      BY <1>1, <3>3 DEF Reconcilers, Snapshot
    <3>6. BrowseSnapshot(q)
      BY <3>3, <3>4, <3>5 DEF BrowseSnapshot
    <3>7. SetReconciler(l, q)
      BY <3>1 DEF found
    <3> QED
      BY <3>5, <3>6, <3>7
  <2>3. CASE BrowseEnds(l)
    <3> DEFINE q == [r EXCEPT !.pc = "applying"]
    <3>1. q \in Reconcilers /\ BrowseSnapshot(q)
      BY <1>1 DEF Reconcilers, BrowseSnapshot
    <3>2. SetReconciler(l, IdleReconciler) \/ SetReconciler(l, q)
      BY <2>3 DEF BrowseEnds
    <3> QED
      BY <3>1, <3>2, IdleRecords
  <2>4. CASE ReconcileFails(l) \/ ReconcileNotifies(l)
    BY <2>4, IdleRecords DEF ReconcileFails, ReconcileNotifies
  <2> QED
    BY <2>1, <2>2, <2>3, <2>4
<1>5. PICK q \in Reconcilers : BrowseSnapshot(q) /\ SetReconciler(l, q)
  BY <1>4
<1>6. /\ reconciler' \in [Lines -> Reconcilers]
      /\ \A m \in Lines : BrowseSnapshot(reconciler'[m])
  BY <1>5, ReconcilerSet DEF RegistryInv
<1> QED
  BY <1>3, <1>6, TableUntouched DEF RegistryInv, RegistryTypes, Snapshots
-----------------------------------------------------------------------------
\* The active tags of a line are those of its own active rows.
LEMMA OwnActiveTags ==
    ASSUME ScopedDeployment, NEW l \in Lines
    PROVE  /\ \A x : x \in ActiveTags(l) <=>
                \E i \in DOMAIN rows : /\ rows[i].line = l /\ rows[i].active
                                      /\ x = Tag(rows[i].path, rows[i].attr)
           /\ \A x : x \in ActiveTags(l)' <=>
                \E i \in DOMAIN rows' : /\ rows'[i].line = l /\ rows'[i].active
                                       /\ x = Tag(rows'[i].path, rows'[i].attr)
<1>1. l # NoLine
  BY DEF ScopedDeployment
<1> QED
  BY <1>1 DEF ActiveTags, Owns, Scoped

\* What a transaction does to the active tags: it leaves those of other lines
\* alone, a full apply leaves exactly its own, and another one changes those of
\* the paths it names only.
LEMMA TransactionTags ==
    ASSUME ScopedDeployment, NEW l \in Lines, rows \in Seq(RowSet),
           NEW tags, Snapshot(tags), NEW full \in BOOLEAN,
           rows' = Written(rows, tags, l, full)
    PROVE  /\ rows' \in Seq(RowSet)
           /\ \A m \in Lines \ {l} : ActiveTags(m)' = ActiveTags(m)
           /\ full => ActiveTags(l)' = tags
           /\ ~full => \A x : (\A t \in tags : t.path # x.path) =>
                               (x \in ActiveTags(l)' <=> x \in ActiveTags(l))
<1>1. TableAfter(rows', tags, l) /\ TagsAfter(rows', tags, l, full)
  <2>1. /\ TableAfter(Written(rows, tags, l, full), tags, l)
        /\ TagsAfter(Written(rows, tags, l, full), tags, l, full)
    BY WrittenFacts
  <2> QED
    BY <2>1
<1>2. /\ rows' \in Seq(RowSet) /\ DOMAIN rows \subseteq DOMAIN rows'
      /\ \A i \in DOMAIN rows : /\ rows'[i].path = rows[i].path
                                /\ rows'[i].line = rows[i].line
                                /\ rows[i].line # l => rows'[i] = rows[i]
      /\ \A i \in DOMAIN rows' \ DOMAIN rows :
           \E t \in tags : rows'[i] = Row(t, l) /\ IdsOf(rows, l, t.path) = {}
  BY <1>1 DEF TableAfter
<1>3. /\ \A i \in DOMAIN rows : rows[i].line = l =>
           /\ \A t \in tags : t.path = rows[i].path =>
                rows'[i].active /\ rows'[i].attr = t.attr
           /\ (\A t \in tags : t.path # rows[i].path) =>
                /\ rows'[i].attr = rows[i].attr
                /\ IF full THEN ~rows'[i].active ELSE rows'[i].active = rows[i].active
      /\ \A t \in tags : IdsOf(rows, l, t.path) = {} =>
           \E i \in DOMAIN rows' \ DOMAIN rows : rows'[i] = Row(t, l)
  BY <1>1 DEF TagsAfter
<1>4. \A t \in tags : t = Tag(t.path, t.attr)
  BY DEF Snapshot, TagSet, Tag
<1>5. ASSUME NEW m \in Lines \ {l} PROVE ActiveTags(m)' = ActiveTags(m)
  <2>1. ASSUME NEW i \in DOMAIN rows', rows'[i].line = m
        PROVE  i \in DOMAIN rows /\ rows'[i] = rows[i]
    BY <1>2, <2>1 DEF Row
  <2>2. ASSUME NEW i \in DOMAIN rows, rows[i].line = m
        PROVE  i \in DOMAIN rows' /\ rows'[i] = rows[i]
    BY <1>2, <2>2
  <2>3. \A x : x \in ActiveTags(m)' <=> x \in ActiveTags(m)
    BY <2>1, <2>2, OwnActiveTags
  <2> QED
    BY <2>3
<1>6. ASSUME full PROVE ActiveTags(l)' = tags
  <2>1. ASSUME NEW x \in ActiveTags(l)' PROVE x \in tags
    <3>1. PICK i \in DOMAIN rows' : /\ rows'[i].line = l /\ rows'[i].active
                                     /\ x = Tag(rows'[i].path, rows'[i].attr)
      BY <2>1, OwnActiveTags
    <3>2. CASE i \in DOMAIN rows
      <4>1. PICK t \in tags : t.path = rows[i].path
        BY <1>2, <1>3, <1>6, <3>1, <3>2
      <4>2. rows'[i].attr = t.attr /\ rows'[i].path = t.path
        BY <1>2, <1>3, <3>1, <3>2, <4>1
      <4> QED
        BY <1>4, <3>1, <4>2
    <3>3. CASE i \notin DOMAIN rows
      <4>1. PICK t \in tags : rows'[i] = Row(t, l)
        BY <1>2, <3>3
      <4> QED
        BY <1>4, <3>1, <4>1 DEF Row
    <3> QED
      BY <3>2, <3>3
  <2>2. ASSUME NEW t \in tags PROVE t \in ActiveTags(l)'
    <3>1. CASE IdsOf(rows, l, t.path) = {}
      <4>1. PICK i \in DOMAIN rows' : rows'[i] = Row(t, l)
        BY <1>3, <3>1
      <4>2. /\ rows'[i].line = l /\ rows'[i].active
            /\ t = Tag(rows'[i].path, rows'[i].attr)
        BY <1>4, <4>1 DEF Row
      <4> QED
        BY <4>2, OwnActiveTags
    <3>2. CASE IdsOf(rows, l, t.path) # {}
      <4>1. PICK i \in IdsOf(rows, l, t.path) : TRUE
        BY <3>2
      <4>2. i \in DOMAIN rows /\ rows[i].line = l /\ rows[i].path = t.path
        BY <4>1, TagsAreOwn
      <4>3. /\ i \in DOMAIN rows' /\ rows'[i].line = l /\ rows'[i].active
            /\ t = Tag(rows'[i].path, rows'[i].attr)
        BY <1>2, <1>3, <1>4, <4>2
      <4> QED
        BY <4>3, OwnActiveTags
    <3> QED
      BY <3>1, <3>2
  <2> QED
    BY <2>1, <2>2
<1>7. ASSUME ~full, NEW x, \A t \in tags : t.path # x.path
      PROVE  x \in ActiveTags(l)' <=> x \in ActiveTags(l)
  <2>1. ASSUME NEW i \in DOMAIN rows', x = Tag(rows'[i].path, rows'[i].attr)
        PROVE  i \in DOMAIN rows
    <3>1. \A t \in tags : rows'[i] # Row(t, l)
      BY <1>7, <2>1 DEF Tag, Row
    <3> QED
      BY <1>2, <3>1
  <2>2. ASSUME NEW i \in DOMAIN rows, rows[i].line = l, x.path = rows[i].path
        PROVE  /\ rows'[i].attr = rows[i].attr /\ rows'[i].active = rows[i].active
               /\ rows'[i].path = rows[i].path /\ rows'[i].line = l /\ i \in DOMAIN rows'
    BY <1>2, <1>3, <1>7, <2>2
  <2>3. ASSUME x \in ActiveTags(l)' PROVE x \in ActiveTags(l)
    <3>1. PICK i \in DOMAIN rows' : /\ rows'[i].line = l /\ rows'[i].active
                                     /\ x = Tag(rows'[i].path, rows'[i].attr)
      BY <2>3, OwnActiveTags
    <3>2. i \in DOMAIN rows /\ rows[i].line = l /\ x.path = rows[i].path
      BY <1>2, <2>1, <3>1 DEF Tag
    <3> QED
      BY <2>2, <3>1, <3>2, OwnActiveTags
  <2>4. ASSUME x \in ActiveTags(l) PROVE x \in ActiveTags(l)'
    <3>1. PICK i \in DOMAIN rows : /\ rows[i].line = l /\ rows[i].active
                                    /\ x = Tag(rows[i].path, rows[i].attr)
      BY <2>4, OwnActiveTags
    <3>2. x.path = rows[i].path
      BY <3>1 DEF Tag
    <3> QED
      BY <2>2, <3>1, <3>2, OwnActiveTags
  <2> QED
    BY <2>3, <2>4
<1> QED
  BY <1>2, <1>5, <1>6, <1>7
-----------------------------------------------------------------------------
\* The two transactions of a scoped line, where nothing turns them down.
FullCommit(l) ==
    /\ Reconciler(l, "applying") /\ ~LegacyConflict(l, reconciler[l].tags)
    /\ rows' = Written(rows, reconciler[l].tags, l, TRUE)
    /\ Committed(l, rows)
    /\ UNCHANGED <<opc, web, syncer, historian>>

SyncCommit(s) ==
    /\ Syncer(s, "applying") /\ ~LegacyConflict(syncer[s].line, syncer[s].tags)
    /\ SyncCommits(s, rows)
    /\ UNCHANGED <<opc, web, reconciler, owed, subscribed>>

LEMMA ApplyCases ==
    ASSUME NEW l \in Lines, ApplyScoped(l)
    PROVE  \/ FullCommit(l)
           \/ /\ Reconciler(l, "applying") /\ SetReconciler(l, IdleReconciler)
              /\ UNCHANGED <<opc, rows, web, syncer, historian>>
BY DEF ApplyScoped, FullCommit

LEMMA SyncCases ==
    ASSUME NEW s \in Syncers, SyncScoped(s)
    PROVE  \/ SyncCommit(s)
           \/ /\ Syncer(s, "applying") /\ SetSyncer(s, IdleSyncer)
              /\ UNCHANGED <<opc, rows, web, reconciler, historian>>
BY DEF SyncScoped, SyncCommit, historian

LEMMA ApplyKeeps ==
    ASSUME ScopedDeployment, RegistryInv, NEW l \in Lines, ApplyScoped(l)
    PROVE  RegistryInv'
<1>1. CASE UNCHANGED <<opc, rows, syncer>> /\ SetReconciler(l, IdleReconciler)
  <2>1. /\ reconciler' \in [Lines -> Reconcilers]
        /\ \A m \in Lines : BrowseSnapshot(reconciler'[m])
    BY <1>1, IdleRecords, ReconcilerSet DEF RegistryInv
  <2> QED
    BY <1>1, <2>1, TableUntouched DEF RegistryInv, RegistryTypes, Snapshots
<1>2. CASE FullCommit(l)
  <2> DEFINE tags == reconciler[l].tags
             q == [IdleReconciler EXCEPT !.pc = "committed",
                                         !.changed = CountsChange(rows, tags, l)]
  <2>1. Snapshot(tags) /\ rows \in Seq(RowSet)
    BY DEF RegistryInv, RegistryTypes, Snapshots, BrowseSnapshot
  <2>2. /\ ~LegacyConflict(l, tags) /\ rows' = Written(rows, tags, l, TRUE)
        /\ SetReconciler(l, q) /\ UNCHANGED <<opc, syncer>>
    BY <1>2 DEF FullCommit, Committed
  <2>3. CountsChange(rows, tags, l) \in BOOLEAN
    BY DEF CountsChange
  <2>4. q \in Reconcilers /\ BrowseSnapshot(q)
    BY <2>3, FS_EmptySet
       DEF IdleReconciler, Reconcilers, BrowseSnapshot, Snapshot, OneEach
  <2> HIDE DEF q, tags
  <2>5. /\ reconciler' \in [Lines -> Reconcilers]
        /\ \A m \in Lines : BrowseSnapshot(reconciler'[m])
    BY <2>2, <2>4, ReconcilerSet DEF RegistryInv
  <2>6. PathIsIdentity'
    BY <2>1, <2>2, WrittenKeepsIdentity DEF RegistryInv
  <2>7. rows' \in Seq(RowSet)
    BY <2>1, <2>2, TransactionTags
  <2> QED
    BY <2>2, <2>5, <2>6, <2>7 DEF RegistryInv, RegistryTypes, Snapshots
<1> QED
  BY <1>1, <1>2, ApplyCases

LEMMA SyncKeeps ==
    ASSUME ScopedDeployment, RegistryInv, NEW s \in Syncers,
           RequestSync(s) \/ SyncFails(s) \/ SyncScoped(s) \/ SyncNotifies(s)
    PROVE  RegistryInv'
<1> DEFINE r == syncer[s]
<1>1. r \in SyncRecords /\ SyncSnapshot(r)
  BY DEF RegistryInv, RegistryTypes, Snapshots
<1>2. CASE UNCHANGED <<opc, rows, reconciler>> /\ SetSyncer(s, IdleSyncer)
  <2>1. /\ syncer' \in [Syncers -> SyncRecords]
        /\ \A u \in Syncers : SyncSnapshot(syncer'[u])
    BY <1>2, IdleRecords, SyncerSet DEF RegistryInv
  <2> QED
    BY <1>2, <2>1, TableUntouched DEF RegistryInv, RegistryTypes, Snapshots
<1>3. CASE RequestSync(s)
  <2>1. PICK l \in Lines, notify \in BOOLEAN :
          \E p \in ScopeOf[l] :
            /\ opc[p] # Absent
            /\ SetSyncer(s, [IdleSyncer EXCEPT !.pc = "applying", !.line = l,
                                 !.tags = {Tag(p, opc[p])}, !.notify = notify])
    BY <1>3 DEF RequestSync
  <2>2. PICK p \in ScopeOf[l] :
            /\ opc[p] # Absent
            /\ SetSyncer(s, [IdleSyncer EXCEPT !.pc = "applying", !.line = l,
                                 !.tags = {Tag(p, opc[p])}, !.notify = notify])
    BY <2>1
  <2> DEFINE q == [IdleSyncer EXCEPT !.pc = "applying", !.line = l,
                                     !.tags = {Tag(p, opc[p])}, !.notify = notify]
  <2>3. p \in Paths /\ opc[p] \in Attrs
    BY <2>2, RegistryConstants DEF RegistryConstants, RegistryInv, RegistryTypes
  <2>4. Snapshot({Tag(p, opc[p])})
    <3>1. Tag(p, opc[p]) \in TagSet
      BY <2>3 DEF Tag, TagSet
    <3> QED
      BY <3>1, FS_Singleton DEF Snapshot, OneEach
  <2>5. q \in SyncRecords /\ SyncSnapshot(q)
    BY <2>4 DEF IdleSyncer, SyncRecords, SyncSnapshot, Snapshot
  <2>6. SetSyncer(s, q)
    BY <2>2
  <2> HIDE DEF q
  <2>7. /\ syncer' \in [Syncers -> SyncRecords]
        /\ \A u \in Syncers : SyncSnapshot(syncer'[u])
    BY <2>5, <2>6, SyncerSet DEF RegistryInv
  <2> QED
    BY <1>3, <2>7, TableUntouched DEF RequestSync, RegistryInv, RegistryTypes, Snapshots
<1>4. CASE SyncCommit(s)
  <2> DEFINE l == r.line
             tags == r.tags
             q == [r EXCEPT !.pc = "committed", !.read = <<>>]
  <2>1. l \in Lines /\ Snapshot(tags) /\ rows \in Seq(RowSet)
    BY <1>1, <1>4 DEF SyncCommit, Syncer, SyncSnapshot, RegistryInv, RegistryTypes
  <2>2. /\ ~LegacyConflict(l, tags) /\ rows' = Written(rows, tags, l, FALSE)
        /\ SetSyncer(s, q) /\ UNCHANGED <<opc, reconciler>>
    BY <1>4 DEF SyncCommit, SyncCommits, SyncWritten
  <2>3. q \in SyncRecords /\ SyncSnapshot(q)
    BY <1>1, <2>1 DEF SyncRecords, SyncSnapshot
  <2> HIDE DEF q, tags, l
  <2>4. /\ syncer' \in [Syncers -> SyncRecords]
        /\ \A u \in Syncers : SyncSnapshot(syncer'[u])
    BY <2>2, <2>3, SyncerSet DEF RegistryInv
  <2>5. PathIsIdentity'
    BY <2>1, <2>2, WrittenKeepsIdentity DEF RegistryInv
  <2>6. rows' \in Seq(RowSet)
    BY <2>1, <2>2, TransactionTags
  <2> QED
    BY <2>2, <2>4, <2>5, <2>6 DEF RegistryInv, RegistryTypes, Snapshots
<1>5. CASE SyncFails(s) \/ SyncNotifies(s)
  BY <1>2, <1>5 DEF SyncFails, SyncNotifies
<1> QED
  BY <1>2, <1>3, <1>4, <1>5, SyncCases

\* No action of the unscoped transactions can happen.
LEMMA NeverHalfway ==
    ASSUME ScopedDeployment, RegistryInv
    PROVE  /\ \A l \in Lines : ~ApplyReads(l) /\ ~ApplyWrites(l)
           /\ \A s \in Syncers : ~SyncSelects(s) /\ ~SyncWrites(s)
<1>1. \A l \in Lines : ~ApplyReads(l) /\ ~ApplyWrites(l)
  BY DEF ScopedDeployment, Scoped, ApplyReads, ApplyWrites, Reconciler, RegistryInv,
         RegistryTypes, Reconcilers
<1>2. \A s \in Syncers : ~SyncSelects(s)
  BY DEF ScopedDeployment, Scoped, SyncSelects, Syncer, RegistryInv, Snapshots, SyncSnapshot
<1>3. \A s \in Syncers : ~SyncWrites(s)
  BY DEF SyncWrites, Syncer, RegistryInv, RegistryTypes, SyncRecords
<1> QED
  BY <1>1, <1>2, <1>3

LEMMA RegistryStepKeeps ==
    ASSUME ScopedDeployment, RegistryInv, [RegistryNext]_registryVars
    PROVE  RegistryInv'
<1>1. ASSUME NEW l \in Lines,
             BeginReconcile(l) \/ BrowsePath(l) \/ BrowseEnds(l) \/ ReconcileFails(l)
               \/ ReconcileNotifies(l)
      PROVE  RegistryInv'
  BY <1>1, BrowseKeeps
<1>2. ASSUME NEW l \in Lines, ApplyScoped(l) PROVE RegistryInv'
  BY <1>2, ApplyKeeps
<1>3. ASSUME NEW s \in Syncers,
             RequestSync(s) \/ SyncFails(s) \/ SyncScoped(s) \/ SyncNotifies(s)
      PROVE  RegistryInv'
  BY <1>3, SyncKeeps
<1>4. ASSUME NEW l \in Lines, Serve(l) \/ HistorianLoads(l) PROVE RegistryInv'
  <2>1. UNCHANGED <<opc, rows, reconciler, syncer>>
    BY <1>4 DEF Serve, HistorianLoads, operations
  <2> QED
    BY <2>1, TableUntouched DEF RegistryInv, RegistryTypes, Snapshots
<1>5. ASSUME NEW l \in Lines, WebRestarts(l) PROVE RegistryInv'
  <2>1. /\ UNCHANGED <<opc, rows>> /\ reconciler' = [reconciler EXCEPT ![l] = IdleReconciler]
        /\ syncer' = [s \in Syncers |-> IF syncer[s].line = l THEN IdleSyncer ELSE syncer[s]]
    BY <1>5 DEF WebRestarts
  <2>2. /\ reconciler' \in [Lines -> Reconcilers]
        /\ \A m \in Lines : BrowseSnapshot(reconciler'[m])
    BY <2>1, IdleRecords DEF RegistryInv, RegistryTypes, Snapshots
  <2>3. /\ syncer' \in [Syncers -> SyncRecords]
        /\ \A u \in Syncers : SyncSnapshot(syncer'[u])
    BY <2>1, IdleRecords DEF RegistryInv, RegistryTypes, Snapshots
  <2> QED
    BY <2>1, <2>2, <2>3, TableUntouched DEF RegistryInv, RegistryTypes, Snapshots
<1>6. CASE OpcChanges
  <2>1. UNCHANGED <<rows, reconciler, syncer>>
    BY <1>6 DEF OpcChanges, operations
  <2>2. opc' \in [Paths -> Attrs \cup {Absent}]
    BY <1>6 DEF OpcChanges, RegistryInv, RegistryTypes
  <2> QED
    BY <2>1, <2>2, TableUntouched DEF RegistryInv, RegistryTypes, Snapshots
<1>7. CASE UNCHANGED registryVars
  BY <1>7, TableUntouched DEF registryVars, operations, RegistryInv, RegistryTypes, Snapshots
<1> QED
  BY <1>1, <1>2, <1>3, <1>4, <1>5, <1>6, <1>7, NeverHalfway
     DEF RegistryNext, ReconcileStep, SyncStep

\* The inductive invariant holds in every state of a scoped deployment.
THEOREM RegistryInvariant ==
    ASSUME ScopedDeployment PROVE RegistrySpec => []RegistryInv
<1>1. RegistryInit => RegistryInv
  BY RegistryStarts
<1>2. RegistryInv /\ [RegistryNext]_registryVars => RegistryInv'
  BY RegistryStepKeeps
<1> QED
  BY <1>1, <1>2, PTL DEF RegistrySpec

\* PathIsIdentity: a path keeps one TagId in a line, whatever interleaves.
THEOREM OneRowPerPath ==
    ASSUME ScopedDeployment PROVE RegistrySpec => []PathIsIdentity
<1>1. RegistryInv => PathIsIdentity
  BY DEF RegistryInv
<1> QED
  BY <1>1, RegistryInvariant, PTL
-----------------------------------------------------------------------------
\* A step is one of the two transactions, or leaves TagMaster as it is and
\* commits nothing.
QuietStep ==
    /\ UNCHANGED rows
    /\ \A l \in Lines : reconciler'[l].pc = "committed" => reconciler[l].pc = "committed"
    /\ \A s \in Syncers : syncer'[s].pc = "committed" => syncer[s].pc = "committed"

LEMMA StepShape ==
    ASSUME ScopedDeployment, RegistryInv, [RegistryNext]_registryVars
    PROVE  \/ \E l \in Lines : FullCommit(l)
           \/ \E s \in Syncers : SyncCommit(s)
           \/ QuietStep
<1>1. reconciler \in [Lines -> Reconcilers] /\ syncer \in [Syncers -> SyncRecords]
  BY DEF RegistryInv, RegistryTypes
<1>2. ASSUME NEW l \in Lines, NEW r \in Reconcilers,
             r.pc # "committed", SetReconciler(l, r), UNCHANGED <<rows, syncer>>
      PROVE  QuietStep
  BY <1>1, <1>2 DEF SetReconciler, QuietStep
<1>3. ASSUME NEW s \in Syncers, NEW r \in SyncRecords,
             r.pc # "committed", SetSyncer(s, r), UNCHANGED <<rows, reconciler>>
      PROVE  QuietStep
  BY <1>1, <1>3 DEF SetSyncer, QuietStep
<1>4. /\ IdleReconciler \in Reconcilers /\ IdleReconciler.pc # "committed"
      /\ IdleSyncer \in SyncRecords /\ IdleSyncer.pc # "committed"
  BY IdleRecords DEF IdleReconciler, IdleSyncer
<1>5. ASSUME NEW l \in Lines, BeginReconcile(l) PROVE QuietStep
  BY <1>1, <1>5 DEF BeginReconcile, SetReconciler, IdleReconciler, QuietStep
<1>6. ASSUME NEW l \in Lines, BrowsePath(l) PROVE QuietStep
  <2>1. reconciler[l] \in Reconcilers /\ reconciler[l].pc = "browsing"
    BY <1>1, <1>6 DEF BrowsePath, Reconciler
  <2>2. PICK p : SetReconciler(l, [reconciler[l] EXCEPT
                   !.left = @ \ {p},
                   !.tags = IF opc[p] = Absent THEN @ ELSE @ \cup {Tag(p, opc[p])}])
    BY <1>6 DEF BrowsePath
  <2>3. UNCHANGED <<rows, syncer>> /\ reconciler'[l].pc = "browsing"
        /\ \A m \in Lines \ {l} : reconciler'[m] = reconciler[m]
    BY <1>1, <1>6, <2>1, <2>2 DEF BrowsePath, SetReconciler, Reconcilers
  <2> QED
    BY <2>3 DEF QuietStep
<1>7. ASSUME NEW l \in Lines, BrowseEnds(l) PROVE QuietStep
  <2> DEFINE q == [reconciler[l] EXCEPT !.pc = "applying"]
  <2>1. q \in Reconcilers /\ q.pc # "committed"
    BY <1>1 DEF Reconcilers
  <2>2. SetReconciler(l, IdleReconciler) \/ SetReconciler(l, q)
    BY <1>7 DEF BrowseEnds
  <2>3. UNCHANGED <<rows, syncer>>
    BY <1>7 DEF BrowseEnds
  <2> HIDE DEF q
  <2> QED
    BY <1>2, <1>4, <2>1, <2>2, <2>3
<1>8. ASSUME NEW l \in Lines, ReconcileFails(l) \/ ReconcileNotifies(l) PROVE QuietStep
  BY <1>2, <1>4, <1>8 DEF ReconcileFails, ReconcileNotifies
<1>9. ASSUME NEW l \in Lines, ApplyScoped(l) PROVE FullCommit(l) \/ QuietStep
  BY <1>2, <1>4, <1>9, ApplyCases
<1>10. ASSUME NEW l \in Lines, Serve(l) \/ HistorianLoads(l) PROVE QuietStep
  BY <1>10 DEF Serve, HistorianLoads, operations, QuietStep
<1>11. ASSUME NEW l \in Lines, WebRestarts(l) PROVE QuietStep
  BY <1>1, <1>4, <1>11 DEF WebRestarts, QuietStep
<1>12. ASSUME NEW s \in Syncers, RequestSync(s) PROVE QuietStep
  BY <1>1, <1>12 DEF RequestSync, SetSyncer, IdleSyncer, QuietStep
<1>13. ASSUME NEW s \in Syncers, SyncFails(s) \/ SyncNotifies(s) PROVE QuietStep
  BY <1>3, <1>4, <1>13 DEF SyncFails, SyncNotifies
<1>14. ASSUME NEW s \in Syncers, SyncScoped(s) PROVE SyncCommit(s) \/ QuietStep
  BY <1>3, <1>4, <1>14, SyncCases
<1>15. CASE OpcChanges \/ UNCHANGED registryVars
  BY <1>15 DEF OpcChanges, registryVars, operations, QuietStep
<1> QED
  BY <1>5, <1>6, <1>7, <1>8, <1>9, <1>10, <1>11, <1>12, <1>13, <1>14, <1>15, NeverHalfway
     DEF RegistryNext, ReconcileStep, SyncStep

\* What each transaction makes of TagMaster and of its record.
LEMMA FullCommitFacts ==
    ASSUME ScopedDeployment, RegistryInv, NEW l \in Lines, FullCommit(l)
    PROVE  /\ Snapshot(reconciler[l].tags) /\ rows \in Seq(RowSet)
           /\ rows' = Written(rows, reconciler[l].tags, l, TRUE)
           /\ reconciler[l].pc = "applying" /\ reconciler'[l].pc = "committed"
           /\ reconciler'[l].changed = CountsChange(rows, reconciler[l].tags, l)
           /\ \A m \in Lines \ {l} : reconciler'[m] = reconciler[m]
           /\ UNCHANGED <<syncer, web, owed, subscribed, quietly>>
<1>1. /\ Snapshot(reconciler[l].tags) /\ rows \in Seq(RowSet)
      /\ reconciler \in [Lines -> Reconcilers]
  BY DEF RegistryInv, RegistryTypes, Snapshots, BrowseSnapshot
<1> QED
  BY <1>1 DEF FullCommit, Committed, SetReconciler, IdleReconciler, Reconciler, historian

LEMMA SyncCommitFacts ==
    ASSUME ScopedDeployment, RegistryInv, NEW s \in Syncers, SyncCommit(s)
    PROVE  /\ syncer[s].line \in Lines
           /\ Snapshot(syncer[s].tags) /\ rows \in Seq(RowSet)
           /\ rows' = Written(rows, syncer[s].tags, syncer[s].line, FALSE)
           /\ syncer[s].pc = "applying" /\ syncer'[s].pc = "committed"
           /\ syncer'[s].line = syncer[s].line /\ syncer'[s].notify = syncer[s].notify
           /\ \A u \in Syncers \ {s} : syncer'[u] = syncer[u]
           /\ UNCHANGED reconciler
<1>1. /\ SyncSnapshot(syncer[s]) /\ rows \in Seq(RowSet)
      /\ syncer \in [Syncers -> SyncRecords] /\ syncer[s] \in SyncRecords
  BY DEF RegistryInv, RegistryTypes, Snapshots
<1>2. syncer[s].pc = "applying"
  BY DEF SyncCommit, Syncer
<1>3. syncer' = [syncer EXCEPT ![s] = [syncer[s] EXCEPT !.pc = "committed", !.read = <<>>]]
  BY DEF SyncCommit, SyncCommits, SetSyncer
<1>4. /\ syncer'[s].pc = "committed" /\ syncer'[s].line = syncer[s].line
      /\ syncer'[s].notify = syncer[s].notify
      /\ \A u \in Syncers \ {s} : syncer'[u] = syncer[u]
  BY <1>1, <1>3 DEF SyncRecords
<1>5. /\ rows' = Written(rows, syncer[s].tags, syncer[s].line, FALSE)
      /\ UNCHANGED reconciler
  BY DEF SyncCommit, SyncCommits, SyncWritten
<1> QED
  BY <1>1, <1>2, <1>4, <1>5 DEF SyncSnapshot

\* LinesAreIsolated: a row changes in a transaction of its own line only.
THEOREM LinesStayIsolated ==
    ASSUME ScopedDeployment PROVE RegistrySpec => LinesAreIsolated
<1> DEFINE Isolated ==
      \A i \in DOMAIN rows : rows'[i] # rows[i] =>
         \/ /\ rows[i].line \in Lines
            /\ Reconciler(rows[i].line, "applying") \/ Reconciler(rows[i].line, "writing")
            /\ Reconciler(rows[i].line, "committed")'
         \/ \E s \in Syncers : /\ syncer[s].line = rows[i].line
                              /\ Syncer(s, "committed")' /\ ~Syncer(s, "committed")
<1>1. ASSUME RegistryInv, [RegistryNext]_registryVars PROVE [Isolated]_registryVars
  <2>1. ASSUME NEW l \in Lines, FullCommit(l) PROVE Isolated
    <3>1. TableAfter(Written(rows, reconciler[l].tags, l, TRUE), reconciler[l].tags, l)
      BY <1>1, <2>1, FullCommitFacts, WrittenFacts
    <3>2. \A i \in DOMAIN rows : rows'[i] # rows[i] =>
            rows[i].line = l /\ rows'[i].line = l
      BY <1>1, <2>1, <3>1, FullCommitFacts DEF TableAfter
    <3>3. reconciler[l].pc = "applying" /\ reconciler'[l].pc = "committed"
      BY <1>1, <2>1, FullCommitFacts
    <3> QED
      BY <3>2, <3>3 DEF Reconciler
  <2>2. ASSUME NEW s \in Syncers, SyncCommit(s) PROVE Isolated
    <3>1. TableAfter(Written(rows, syncer[s].tags, syncer[s].line, FALSE),
                     syncer[s].tags, syncer[s].line)
      BY <1>1, <2>2, SyncCommitFacts, WrittenFacts
    <3>2. \A i \in DOMAIN rows : rows'[i] # rows[i] => rows[i].line = syncer[s].line
      BY <1>1, <2>2, <3>1, SyncCommitFacts DEF TableAfter
    <3>3. syncer[s].pc = "applying" /\ syncer'[s].pc = "committed"
      BY <1>1, <2>2, SyncCommitFacts
    <3> QED
      BY <3>2, <3>3 DEF Syncer
  <2>3. CASE QuietStep
    BY <2>3 DEF QuietStep
  <2> QED
    BY <1>1, <2>1, <2>2, <2>3, StepShape
<1>2. RegistryInv /\ [RegistryNext]_registryVars => [Isolated]_registryVars
  BY <1>1
<1> QED
  BY <1>2, RegistryInvariant, PTL DEF RegistrySpec, LinesAreIsolated

\* ApplyIsExact: a full apply leaves exactly the tags of its browse active.
THEOREM AppliesAreExact ==
    ASSUME ScopedDeployment PROVE RegistrySpec => ApplyIsExact
<1> DEFINE Exact ==
      \A l \in Lines : ~Reconciler(l, "committed") /\ Reconciler(l, "committed")'
         => ActiveTags(l)' = reconciler[l].tags
<1>1. ASSUME RegistryInv, [RegistryNext]_registryVars PROVE [Exact]_registryVars
  <2>1. ASSUME NEW l \in Lines, FullCommit(l) PROVE Exact
    <3>1. ActiveTags(l)' = reconciler[l].tags
      BY <1>1, <2>1, FullCommitFacts, TransactionTags
    <3>2. \A m \in Lines \ {l} : reconciler'[m] = reconciler[m]
      BY <1>1, <2>1, FullCommitFacts
    <3> QED
      BY <3>1, <3>2 DEF Reconciler
  <2>2. ASSUME NEW s \in Syncers, SyncCommit(s) PROVE Exact
    BY <1>1, <2>2, SyncCommitFacts DEF Reconciler
  <2>3. CASE QuietStep
    BY <2>3 DEF QuietStep, Reconciler
  <2> QED
    BY <1>1, <2>1, <2>2, <2>3, StepShape
<1>2. RegistryInv /\ [RegistryNext]_registryVars => [Exact]_registryVars
  BY <1>1
<1> QED
  BY <1>2, RegistryInvariant, PTL DEF RegistrySpec, ApplyIsExact

\* SyncKeepsTheRest: a fast sync changes the active tags of its own paths only.
THEOREM SyncsKeepTheRest ==
    ASSUME ScopedDeployment PROVE RegistrySpec => SyncKeepsTheRest
<1> DEFINE Kept ==
      \A s \in Syncers : ~Syncer(s, "committed") /\ Syncer(s, "committed")'
         => LET named == {t.path : t \in syncer[s].tags} IN
            \A l \in Lines : {t \in ActiveTags(l) : t.path \notin named}
                              = {t \in ActiveTags(l)' : t.path \notin named}
<1>1. ASSUME RegistryInv, [RegistryNext]_registryVars PROVE [Kept]_registryVars
  <2>1. ASSUME NEW l \in Lines, FullCommit(l) PROVE Kept
    BY <1>1, <2>1, FullCommitFacts DEF Syncer
  <2>2. ASSUME NEW s \in Syncers, SyncCommit(s) PROVE Kept
    <3> DEFINE named == {t.path : t \in syncer[s].tags}
    <3>1. PICK m \in Lines : m = syncer[s].line
      BY <1>1, <2>2, SyncCommitFacts
    <3>2. rows' = Written(rows, syncer[s].tags, m, FALSE)
      BY <1>1, <2>2, <3>1, SyncCommitFacts
    <3>3. /\ \A l \in Lines \ {m} : ActiveTags(l)' = ActiveTags(l)
          /\ \A x : (\A t \in syncer[s].tags : t.path # x.path) =>
                    (x \in ActiveTags(m)' <=> x \in ActiveTags(m))
      BY <1>1, <2>2, <3>2, SyncCommitFacts, TransactionTags
    <3>4. ASSUME NEW l \in Lines
          PROVE  {t \in ActiveTags(l) : t.path \notin named}
                   = {t \in ActiveTags(l)' : t.path \notin named}
      BY <3>3
    <3>5. \A u \in Syncers \ {s} : syncer'[u] = syncer[u]
      BY <1>1, <2>2, SyncCommitFacts
    <3> QED
      BY <3>4, <3>5 DEF Syncer
  <2>3. CASE QuietStep
    BY <2>3 DEF QuietStep, Syncer
  <2> QED
    BY <1>1, <2>1, <2>2, <2>3, StepShape
<1>2. RegistryInv /\ [RegistryNext]_registryVars => [Kept]_registryVars
  BY <1>1
<1> QED
  BY <1>2, RegistryInvariant, PTL DEF RegistrySpec, SyncKeepsTheRest
-----------------------------------------------------------------------------
HistorianTypes ==
    /\ web \in [Lines -> {"boot", "startup", "serving"}]
    /\ owed \in [Lines -> BOOLEAN]
    /\ subscribed \in [Lines -> SUBSET TagSet]
    /\ quietly \in [Lines -> SUBSET Paths]

\* A load is owed, or a transaction that will ask for one has committed.
OnItsWay(l) ==
    \/ owed[l]
    \/ reconciler[l].pc = "committed" /\ reconciler[l].changed
    \/ \E s \in Syncers : /\ syncer[s].pc = "committed" /\ syncer[s].line = l
                          /\ syncer[s].notify

FollowedOrOnItsWay == \A l \in Lines : web[l] = "serving" => Followed(l) \/ OnItsWay(l)

HistorianInv == RegistryInv /\ HistorianTypes /\ FollowedOrOnItsWay

\* A full apply whose counts are all 0 finds the active tags as it leaves them.
LEMMA CountsTell ==
    ASSUME ScopedDeployment, PathIsIdentity, NEW l \in Lines, NEW tags, Snapshot(tags),
           ~CountsChange(rows, tags, l)
    PROVE  ActiveTags(l) = tags
<1>1. \A t \in tags : t = Tag(t.path, t.attr)
  BY DEF Snapshot, TagSet, Tag
<1>2. ASSUME NEW t \in tags
      PROVE  \E i \in DOMAIN rows : /\ rows[i].line = l /\ rows[i].path = t.path
                                    /\ rows[i].active /\ rows[i].attr = t.attr
  <2>1. PICK i \in IdsOf(rows, l, t.path) : rows[i].active /\ rows[i].attr = t.attr
    BY DEF CountsChange
  <2>2. i \in DOMAIN rows /\ rows[i].line = l /\ rows[i].path = t.path
    BY TagsAreOwn
  <2> QED
    BY <2>1, <2>2
<1>3. ASSUME NEW t \in tags PROVE t \in ActiveTags(l)
  BY <1>1, <1>2, OwnActiveTags
<1>4. ASSUME NEW x \in ActiveTags(l) PROVE x \in tags
  <2>1. PICK i \in DOMAIN rows : /\ rows[i].line = l /\ rows[i].active
                                  /\ x = Tag(rows[i].path, rows[i].attr)
    BY OwnActiveTags
  <2>2. PICK t \in tags : t.path = rows[i].path
    BY <2>1 DEF CountsChange, Owns
  <2>3. PICK j \in DOMAIN rows : /\ rows[j].line = l /\ rows[j].path = t.path
                                  /\ rows[j].attr = t.attr
    BY <1>2
  <2>4. i = j
    BY <2>1, <2>2, <2>3 DEF PathIsIdentity
  <2> QED
    BY <1>1, <2>1, <2>2, <2>3, <2>4
<1> QED
  BY <1>3, <1>4

LEMMA ActiveTagsType ==
    ASSUME ScopedDeployment, rows \in Seq(RowSet), NEW l \in Lines
    PROVE  ActiveTags(l) \in SUBSET TagSet
<1>1. \A i \in DOMAIN rows : rows[i] \in RowSet
  OBVIOUS
<1>2. \A i \in DOMAIN rows : Tag(rows[i].path, rows[i].attr) \in TagSet
  BY <1>1 DEF RowSet, TagSet, Tag
<1> QED
  BY <1>2, OwnActiveTags

LEMMA HistorianTypesKept ==
    ASSUME ScopedDeployment, RegistryInv, HistorianTypes, [RegistryNext]_registryVars
    PROVE  HistorianTypes'
<1>1. ASSUME NEW l \in Lines,
             BeginReconcile(l) \/ BrowsePath(l) \/ BrowseEnds(l) \/ ReconcileFails(l)
               \/ ApplyScoped(l)
      PROVE  HistorianTypes'
  BY <1>1 DEF BeginReconcile, BrowsePath, BrowseEnds, ReconcileFails, ApplyScoped, historian,
              HistorianTypes
<1>2. ASSUME NEW l \in Lines, ReconcileNotifies(l) PROVE HistorianTypes'
  <2> DEFINE b == owed[l] \/ (reconciler[l].changed /\ web[l] = "serving")
  <2>1. b \in BOOLEAN
    OBVIOUS
  <2>2. owed' = [owed EXCEPT ![l] = b] /\ UNCHANGED <<web, subscribed, quietly>>
    BY <1>2 DEF ReconcileNotifies
  <2> HIDE DEF b
  <2> QED
    BY <2>1, <2>2 DEF HistorianTypes
<1>3. ASSUME NEW l \in Lines, Serve(l) PROVE HistorianTypes'
  BY <1>3 DEF Serve, HistorianTypes
<1>4. ASSUME NEW l \in Lines, HistorianLoads(l) PROVE HistorianTypes'
  <2>1. ActiveTags(l) \in SUBSET TagSet
    BY ActiveTagsType DEF RegistryInv, RegistryTypes
  <2>2. /\ subscribed' = [subscribed EXCEPT ![l] = ActiveTags(l)]
        /\ owed' = [owed EXCEPT ![l] = FALSE] /\ quietly' = [quietly EXCEPT ![l] = {}]
        /\ UNCHANGED web
    BY <1>4 DEF HistorianLoads
  <2> QED
    BY <2>1, <2>2 DEF HistorianTypes
<1>5. ASSUME NEW l \in Lines, WebRestarts(l) PROVE HistorianTypes'
  BY <1>5 DEF WebRestarts, HistorianTypes
<1>6. ASSUME NEW s \in Syncers, RequestSync(s) \/ SyncFails(s) PROVE HistorianTypes'
  BY <1>6 DEF RequestSync, SyncFails, historian, HistorianTypes
<1>7. ASSUME NEW s \in Syncers, SyncScoped(s) PROVE HistorianTypes'
  <2>1. CASE SyncCommit(s)
    <3>1. PICK m \in Lines : m = syncer[s].line
      BY <2>1, SyncCommitFacts
    <3> DEFINE Q == IF syncer[s].notify \/ rows' = rows THEN quietly[m]
                    ELSE quietly[m] \cup {t.path : t \in syncer[s].tags}
    <3>2. quietly' = [quietly EXCEPT ![m] = Q] /\ UNCHANGED <<web, owed, subscribed>>
      BY <2>1, <3>1 DEF SyncCommit, SyncCommits
    <3>3. syncer[s].tags \subseteq TagSet
      BY <2>1, SyncCommitFacts DEF Snapshot
    <3>4. \A t \in syncer[s].tags : t.path \in Paths
      BY <3>3 DEF TagSet
    <3>5. Q \in SUBSET Paths
      BY <3>4 DEF HistorianTypes
    <3> HIDE DEF Q
    <3> QED
      BY <3>2, <3>5 DEF HistorianTypes
  <2>2. CASE UNCHANGED <<web, historian>>
    BY <2>2 DEF historian, HistorianTypes
  <2> QED
    BY <1>7, <2>1, <2>2, SyncCases
<1>8. ASSUME NEW s \in Syncers, SyncNotifies(s) PROVE HistorianTypes'
  <2> DEFINE m == syncer[s].line
             b == owed[m] \/ syncer[s].notify
  <2>1. b \in BOOLEAN
    OBVIOUS
  <2>2. owed' = [owed EXCEPT ![m] = b] /\ UNCHANGED <<web, subscribed, quietly>>
    BY <1>8 DEF SyncNotifies
  <2> HIDE DEF b, m
  <2> QED
    BY <2>1, <2>2 DEF HistorianTypes
<1>9. CASE OpcChanges \/ UNCHANGED registryVars
  BY <1>9 DEF OpcChanges, registryVars, historian, HistorianTypes
<1> QED
  BY <1>1, <1>2, <1>3, <1>4, <1>5, <1>6, <1>7, <1>8, <1>9, NeverHalfway
     DEF RegistryNext, ReconcileStep, SyncStep
-----------------------------------------------------------------------------
\* What remains of a line whose tags and load are left alone.
LEMMA StillFollowed ==
    ASSUME FollowedOrOnItsWay, UNCHANGED <<rows, subscribed, quietly>>, NEW l \in Lines,
           web'[l] = "serving" => web[l] = "serving", OnItsWay(l) => OnItsWay(l)'
    PROVE  web'[l] = "serving" => Followed(l)' \/ OnItsWay(l)'
<1>1. Followed(l) => Followed(l)'
  BY DEF Followed, ActiveTags
<1> QED
  BY <1>1 DEF FollowedOrOnItsWay

\* Records that do not stand after a commit owe nothing.
LEMMA ReconcilerOwesNothing ==
    ASSUME FollowedOrOnItsWay, NEW m \in Lines, reconciler[m].pc # "committed",
           \A k \in Lines \ {m} : reconciler'[k] = reconciler[k],
           UNCHANGED <<rows, syncer, historian>>,
           \A k \in Lines : web'[k] = "serving" => web[k] = "serving"
    PROVE  FollowedOrOnItsWay'
<1>1. ASSUME NEW l \in Lines, OnItsWay(l) PROVE OnItsWay(l)'
  BY <1>1 DEF OnItsWay, historian
<1> QED
  BY <1>1, StillFollowed DEF FollowedOrOnItsWay, historian

LEMMA SyncerOwesNothing ==
    ASSUME FollowedOrOnItsWay, NEW s \in Syncers, syncer[s].pc # "committed",
           \A u \in Syncers \ {s} : syncer'[u] = syncer[u],
           UNCHANGED <<rows, web, reconciler, historian>>
    PROVE  FollowedOrOnItsWay'
<1>1. ASSUME NEW l \in Lines, OnItsWay(l) PROVE OnItsWay(l)'
  BY <1>1 DEF OnItsWay, historian
<1> QED
  BY <1>1, StillFollowed DEF FollowedOrOnItsWay, historian

LEMMA FullCommitTells ==
    ASSUME ScopedDeployment, HistorianInv, NEW m \in Lines, FullCommit(m)
    PROVE  FollowedOrOnItsWay'
<1> USE DEF HistorianInv
<1> DEFINE tags == reconciler[m].tags
<1>1. /\ \A l \in Lines \ {m} : ActiveTags(l)' = ActiveTags(l)
      /\ ActiveTags(m)' = tags
  BY FullCommitFacts, TransactionTags
<1>2. /\ reconciler[m].pc = "applying" /\ reconciler'[m].pc = "committed"
      /\ reconciler'[m].changed = CountsChange(rows, tags, m)
      /\ \A l \in Lines \ {m} : reconciler'[l] = reconciler[l]
      /\ UNCHANGED <<syncer, web, owed, subscribed, quietly>>
  BY FullCommitFacts
<1>3. CountsChange(rows, tags, m) => OnItsWay(m)'
  BY <1>2 DEF OnItsWay
<1>4. ~CountsChange(rows, tags, m) => ActiveTags(m)' = ActiveTags(m)
  BY <1>1, CountsTell, FullCommitFacts DEF RegistryInv
<1>5. ASSUME NEW l \in Lines, web'[l] = "serving" PROVE Followed(l)' \/ OnItsWay(l)'
  <2>1. OnItsWay(l) => OnItsWay(l)'
    BY <1>2 DEF OnItsWay
  <2>2. ActiveTags(l)' = ActiveTags(l) => (Followed(l) => Followed(l)')
    BY <1>2 DEF Followed
  <2>3. Followed(l) \/ OnItsWay(l)
    BY <1>2, <1>5 DEF FollowedOrOnItsWay
  <2> QED
    BY <1>1, <1>3, <1>4, <2>1, <2>2, <2>3
<1> QED
  BY <1>5 DEF FollowedOrOnItsWay

LEMMA SyncCommitTells ==
    ASSUME ScopedDeployment, HistorianInv, NEW s \in Syncers, SyncCommit(s)
    PROVE  FollowedOrOnItsWay'
<1> USE DEF HistorianInv
<1> DEFINE tags == syncer[s].tags
<1>1. PICK m \in Lines : m = syncer[s].line
  BY SyncCommitFacts
<1>2. /\ \A l \in Lines \ {m} : ActiveTags(l)' = ActiveTags(l)
      /\ \A x : (\A t \in tags : t.path # x.path) =>
                (x \in ActiveTags(m)' <=> x \in ActiveTags(m))
  BY <1>1, SyncCommitFacts, TransactionTags
<1>3. /\ syncer[s].pc = "applying" /\ syncer'[s].pc = "committed" /\ syncer'[s].line = m
      /\ syncer'[s].notify = syncer[s].notify
      /\ \A u \in Syncers \ {s} : syncer'[u] = syncer[u]
      /\ UNCHANGED <<web, reconciler, owed, subscribed>>
  BY <1>1, SyncCommitFacts DEF SyncCommit
<1>4. quietly' = [quietly EXCEPT ![m] = IF syncer[s].notify \/ rows' = rows THEN @
                                        ELSE @ \cup {t.path : t \in tags}]
  BY <1>1 DEF SyncCommit, SyncCommits
<1>5. /\ \A l \in Lines \ {m} : quietly'[l] = quietly[l]
      /\ ~syncer[s].notify /\ rows' # rows =>
           quietly'[m] = quietly[m] \cup {t.path : t \in tags}
      /\ rows' = rows => quietly'[m] = quietly[m]
  BY <1>4 DEF HistorianTypes
<1>6. ASSUME NEW l \in Lines, OnItsWay(l) PROVE OnItsWay(l)'
  BY <1>3, <1>6 DEF OnItsWay
<1>7. ASSUME NEW l \in Lines \ {m}, Followed(l) PROVE Followed(l)'
  BY <1>2, <1>3, <1>5, <1>7 DEF Followed
<1>8. syncer[s].notify => OnItsWay(m)'
  BY <1>3 DEF OnItsWay
<1>9. ASSUME ~syncer[s].notify, Followed(m) PROVE Followed(m)'
  <2>1. CASE rows' = rows
    BY <1>3, <1>5, <1>9, <2>1 DEF Followed, ActiveTags
  <2>2. CASE rows' # rows
    <3>1. quietly'[m] = quietly[m] \cup {t.path : t \in tags}
      BY <1>5, <1>9, <2>2
    <3>2. ASSUME NEW x, x.path \notin quietly'[m]
          PROVE  /\ x.path \notin quietly[m]
                 /\ x \in ActiveTags(m)' <=> x \in ActiveTags(m)
      BY <1>2, <3>1, <3>2
    <3>3. subscribed'[m] = subscribed[m]
      BY <1>3
    <3>4. \A x : x.path \notin quietly[m] =>
                 (x \in ActiveTags(m) <=> x \in subscribed[m])
      BY <1>9 DEF Followed
    <3>5. \A x : x.path \notin quietly'[m] =>
                 (x \in ActiveTags(m)' <=> x \in subscribed'[m])
      BY <3>2, <3>3, <3>4
    <3> QED
      BY <3>5 DEF Followed
  <2> QED
    BY <2>1, <2>2
<1> QED
  BY <1>3, <1>6, <1>7, <1>8, <1>9 DEF FollowedOrOnItsWay

LEMMA FollowedKept ==
    ASSUME ScopedDeployment, HistorianInv, [RegistryNext]_registryVars
    PROVE  FollowedOrOnItsWay'
<1> USE DEF HistorianInv
<1>1. /\ reconciler \in [Lines -> Reconcilers] /\ syncer \in [Syncers -> SyncRecords]
      /\ HistorianTypes /\ FollowedOrOnItsWay
  BY DEF RegistryInv, RegistryTypes
<1>2. ASSUME NEW m \in Lines,
             BeginReconcile(m) \/ BrowsePath(m) \/ BrowseEnds(m) \/ ReconcileFails(m)
      PROVE  FollowedOrOnItsWay'
  <2>1. reconciler[m].pc # "committed"
    BY <1>2 DEF BeginReconcile, BrowsePath, BrowseEnds, ReconcileFails, Reconciler
  <2>2. \A k \in Lines \ {m} : reconciler'[k] = reconciler[k]
    BY <1>1, <1>2
       DEF BeginReconcile, BrowsePath, BrowseEnds, ReconcileFails, SetReconciler
  <2>3. UNCHANGED <<rows, syncer, historian>>
    BY <1>2 DEF BeginReconcile, BrowsePath, BrowseEnds, ReconcileFails
  <2>4. \A k \in Lines : web'[k] = "serving" => web[k] = "serving"
    BY <1>1, <1>2
       DEF BeginReconcile, BrowsePath, BrowseEnds, ReconcileFails, HistorianTypes
  <2> QED
    BY <1>1, <2>1, <2>2, <2>3, <2>4, ReconcilerOwesNothing
<1>3. ASSUME NEW m \in Lines, ApplyScoped(m) PROVE FollowedOrOnItsWay'
  <2>1. CASE /\ Reconciler(m, "applying") /\ SetReconciler(m, IdleReconciler)
             /\ UNCHANGED <<opc, rows, web, syncer, historian>>
    <3>1. /\ reconciler[m].pc # "committed"
          /\ \A k \in Lines \ {m} : reconciler'[k] = reconciler[k]
      BY <1>1, <2>1 DEF Reconciler, SetReconciler
    <3> QED
      BY <1>1, <2>1, <3>1, ReconcilerOwesNothing
  <2> QED
    BY <1>3, <2>1, ApplyCases, FullCommitTells
<1>4. ASSUME NEW m \in Lines, ReconcileNotifies(m) PROVE FollowedOrOnItsWay'
  <2>1. /\ \A k \in Lines \ {m} : reconciler'[k] = reconciler[k] /\ owed'[k] = owed[k]
        /\ owed'[m] = (owed[m] \/ (reconciler[m].changed /\ web[m] = "serving"))
        /\ UNCHANGED <<rows, web, syncer, subscribed, quietly>>
    BY <1>1, <1>4 DEF ReconcileNotifies, SetReconciler, HistorianTypes
  <2>2. ASSUME NEW l \in Lines, web[l] = "serving", OnItsWay(l) PROVE OnItsWay(l)'
    BY <2>1, <2>2 DEF OnItsWay
  <2>3. ASSUME NEW l \in Lines, web'[l] = "serving" PROVE Followed(l)' \/ OnItsWay(l)'
    BY <1>1, <2>1, <2>2, <2>3, StillFollowed
  <2> QED
    BY <2>3 DEF FollowedOrOnItsWay
<1>5. ASSUME NEW m \in Lines, Serve(m) PROVE FollowedOrOnItsWay'
  <2>1. /\ owed'[m] /\ \A k \in Lines \ {m} : owed'[k] = owed[k] /\ web'[k] = web[k]
        /\ UNCHANGED <<rows, reconciler, syncer, subscribed, quietly>>
    BY <1>1, <1>5 DEF Serve, operations, HistorianTypes
  <2>2. OnItsWay(m)' /\ \A l \in Lines : OnItsWay(l) => OnItsWay(l)'
    BY <2>1 DEF OnItsWay
  <2>3. ASSUME NEW l \in Lines, web'[l] = "serving" PROVE Followed(l)' \/ OnItsWay(l)'
    BY <1>1, <2>1, <2>2, <2>3, StillFollowed
  <2> QED
    BY <2>3 DEF FollowedOrOnItsWay
<1>6. ASSUME NEW s \in Syncers, RequestSync(s) \/ SyncFails(s) PROVE FollowedOrOnItsWay'
  <2>1. /\ syncer[s].pc # "committed"
        /\ \A u \in Syncers \ {s} : syncer'[u] = syncer[u]
        /\ UNCHANGED <<rows, web, reconciler, historian>>
    BY <1>1, <1>6 DEF RequestSync, SyncFails, Syncer, SetSyncer
  <2> QED
    BY <1>1, <2>1, SyncerOwesNothing
<1>7. ASSUME NEW s \in Syncers, SyncScoped(s) PROVE FollowedOrOnItsWay'
  <2>1. CASE /\ Syncer(s, "applying") /\ SetSyncer(s, IdleSyncer)
             /\ UNCHANGED <<opc, rows, web, reconciler, historian>>
    <3>1. /\ syncer[s].pc # "committed"
          /\ \A u \in Syncers \ {s} : syncer'[u] = syncer[u]
      BY <1>1, <2>1 DEF Syncer, SetSyncer
    <3> QED
      BY <1>1, <2>1, <3>1, SyncerOwesNothing
  <2> QED
    BY <1>7, <2>1, SyncCases, SyncCommitTells
<1>8. ASSUME NEW s \in Syncers, SyncNotifies(s) PROVE FollowedOrOnItsWay'
  <2>1. PICK m \in Lines : m = syncer[s].line
    BY <1>8 DEF SyncNotifies, Syncer, RegistryInv, Snapshots, SyncSnapshot
  <2>2. /\ \A u \in Syncers \ {s} : syncer'[u] = syncer[u]
        /\ \A k \in Lines \ {m} : owed'[k] = owed[k]
        /\ owed'[m] = (owed[m] \/ syncer[s].notify)
        /\ UNCHANGED <<rows, web, reconciler, subscribed, quietly>>
    BY <1>1, <1>8, <2>1 DEF SyncNotifies, SetSyncer, HistorianTypes
  <2>3. ASSUME NEW l \in Lines, OnItsWay(l) PROVE OnItsWay(l)'
    BY <2>1, <2>2, <2>3 DEF OnItsWay
  <2> QED
    BY <1>1, <2>2, <2>3, StillFollowed DEF FollowedOrOnItsWay
<1>9. ASSUME NEW m \in Lines, HistorianLoads(m) PROVE FollowedOrOnItsWay'
  <2>1. /\ UNCHANGED <<rows, web, reconciler, syncer>>
        /\ subscribed'[m] = ActiveTags(m)
        /\ \A k \in Lines \ {m} : /\ subscribed'[k] = subscribed[k]
                                   /\ quietly'[k] = quietly[k] /\ owed'[k] = owed[k]
    BY <1>1, <1>9 DEF HistorianLoads, operations, HistorianTypes
  <2>2. Followed(m)'
    BY <2>1 DEF Followed, ActiveTags
  <2>3. ASSUME NEW l \in Lines \ {m} PROVE OnItsWay(l)' = OnItsWay(l)
    BY <2>1 DEF OnItsWay
  <2>4. ASSUME NEW l \in Lines \ {m}, Followed(l) PROVE Followed(l)'
    BY <2>1, <2>4 DEF Followed, ActiveTags
  <2> QED
    BY <1>1, <2>1, <2>2, <2>3, <2>4 DEF FollowedOrOnItsWay
<1>10. ASSUME NEW m \in Lines, WebRestarts(m) PROVE FollowedOrOnItsWay'
  <2>1. /\ UNCHANGED rows /\ web'[m] = "boot"
        /\ \A k \in Lines \ {m} : /\ web'[k] = web[k] /\ reconciler'[k] = reconciler[k]
                                   /\ subscribed'[k] = subscribed[k]
                                   /\ quietly'[k] = quietly[k] /\ owed'[k] = owed[k]
        /\ \A u \in Syncers : syncer[u].line # m => syncer'[u] = syncer[u]
    BY <1>1, <1>10 DEF WebRestarts, HistorianTypes
  <2>2. ASSUME NEW l \in Lines \ {m}, OnItsWay(l) PROVE OnItsWay(l)'
    BY <2>1, <2>2 DEF OnItsWay
  <2>3. ASSUME NEW l \in Lines \ {m}, Followed(l) PROVE Followed(l)'
    BY <2>1, <2>3 DEF Followed, ActiveTags
  <2> QED
    BY <1>1, <2>1, <2>2, <2>3 DEF FollowedOrOnItsWay
<1>11. CASE OpcChanges \/ UNCHANGED registryVars
  <2>1. UNCHANGED <<rows, web, reconciler, syncer, owed, subscribed, quietly>>
    BY <1>11 DEF OpcChanges, registryVars, operations, historian
  <2>2. \A l \in Lines : OnItsWay(l) => OnItsWay(l)'
    BY <2>1 DEF OnItsWay
  <2> QED
    BY <1>1, <2>1, <2>2, StillFollowed DEF FollowedOrOnItsWay
<1> QED
  BY <1>2, <1>3, <1>4, <1>5, <1>6, <1>7, <1>8, <1>9, <1>10, <1>11, NeverHalfway
     DEF RegistryNext, ReconcileStep, SyncStep

\* HistorianFollows: no change of the registry is kept from the historian of its
\* line, but what was registered quietly.
THEOREM ChangesReachTheHistorian ==
    ASSUME ScopedDeployment PROVE RegistrySpec => []HistorianFollows
<1>1. RegistryInit => HistorianTypes /\ FollowedOrOnItsWay
  BY DEF RegistryInit, HistorianTypes, FollowedOrOnItsWay
<1>2. HistorianInv /\ [RegistryNext]_registryVars => HistorianInv'
  BY HistorianTypesKept, FollowedKept, RegistryStepKeeps DEF HistorianInv
<1>3. HistorianInv => HistorianFollows
  BY DEF HistorianInv, FollowedOrOnItsWay, OnItsWay, HistorianFollows, Settled, Reconciler,
         Syncer
<1>4. RegistryInit => HistorianInv
  BY <1>1, RegistryStarts DEF HistorianInv
<1> QED
  BY <1>2, <1>3, <1>4, PTL DEF RegistrySpec
=============================================================================
