---------------------------- MODULE ServicesProofs ---------------------------
(***************************************************************************)
(* What holds of three services of the application that share no state:    *)
(* the tag knowledge, the network inventory and the values of the          *)
(* historian, each for every value of its own constants.                   *)
(***************************************************************************)
EXTENDS TagKnowledge, NetworkInventory, HistorianValues, FiniteSetTheorems, TLAPS

-----------------------------------------------------------------------------
(* TagKnowledge: any number of writers, files, versions, failures, crashes *)

\* Whoever is saving holds the lock of the store.
SaverHoldsLock == \A w \in Writers : save[w].at # "idle" => saveLock = w

\* What is being saved is the version after the active one, with images that
\* exist; once its Markdown is written the file holds it.
SaveInv ==
    \A w \in Writers :
      /\ save[w].at # "idle" =>
           /\ save[w].content.version = active.version + 1
           /\ save[w].content.attachments \subseteq images
      /\ save[w].at = "written" =>
           /\ save[w].file # NoFile
           /\ markdown[save[w].file] = save[w].content

\* The inductive invariant.
KInv == KnowledgeTypeOK /\ SaverHoldsLock /\ SaveInv /\ ActiveIsWhole

\* It holds of an empty directory ...
LEMMA KnowledgeInitInv == KnowledgeInit => KInv
<1> SUFFICES ASSUME KnowledgeInit PROVE KInv
  OBVIOUS
<1> USE KnowledgeConstants DEF KnowledgeInit, IdleSave, Index0, Version
<1>1. Version(0, NoFile, {}) \in MarkdownContents
  BY DEF MarkdownContents
<1>2. KnowledgeTypeOK
  <2>1. save \in [Writers -> [at : {"idle", "checked", "written"},
                              file : FileNames \cup {NoFile}, content : MarkdownContents]]
    BY <1>1
  <2>2. /\ markdown \in [FileNames -> MarkdownContents \cup {NoFile}]
        /\ active \in [file : FileNames \cup {NoFile}, version : 0..MaxSaves]
    OBVIOUS
  <2>3. images = {} /\ leftover = FALSE /\ saveLock = NoFile /\ stops = 0
    OBVIOUS
  <2>4. 0 \in 0..MaxStops
    OBVIOUS
  <2> HIDE DEF KnowledgeInit
  <2> QED
    BY <2>1, <2>2, <2>3, <2>4 DEF KnowledgeTypeOK
<1>3. SaverHoldsLock /\ SaveInv
  BY DEF SaverHoldsLock, SaveInv
<1>4. ActiveIsWhole
  BY DEF ActiveIsWhole
<1> QED
  BY <1>2, <1>3, <1>4 DEF KInv

\* Every step keeps the types; a save is begun below the bound of versions only.
LEMMA KnowledgeTypeStep == KInv /\ [KnowledgeNext]_knowledgeVars => KnowledgeTypeOK'
<1> SUFFICES ASSUME KInv, [KnowledgeNext]_knowledgeVars PROVE KnowledgeTypeOK'
  OBVIOUS
<1> USE KnowledgeConstants DEF KInv, KnowledgeTypeOK, directory
<1>0. IdleSave \in [at : {"idle", "checked", "written"},
                    file : FileNames \cup {NoFile}, content : MarkdownContents]
  BY DEF IdleSave, Version, MarkdownContents
<1>1. ASSUME NEW i \in Images, StoreAttachment(i) PROVE KnowledgeTypeOK'
  BY <1>1 DEF StoreAttachment
<1>2. ASSUME NEW w \in Writers, NEW text \in Texts, NEW atts \in SUBSET Images,
             BeginSave(w, text, atts)
      PROVE  KnowledgeTypeOK'
  <2>1. active.version + 1 \in 0..MaxSaves
    BY <1>2 DEF BeginSave
  <2>2. Version(active.version + 1, text, atts) \in MarkdownContents
    BY <2>1 DEF Version, MarkdownContents
  <2> QED
    BY <1>2, <2>2 DEF BeginSave
<1>3. ASSUME NEW w \in Writers, WriteMarkdown(w) PROVE KnowledgeTypeOK'
  <2> PICK f \in FileNames :
         /\ markdown' = [markdown EXCEPT ![f] = save[w].content]
         /\ save' = [save EXCEPT ![w].at = "written", ![w].file = f]
    BY <1>3 DEF WriteMarkdown, Available
  <2> QED
    BY <1>3 DEF WriteMarkdown
<1>4. ASSUME NEW w \in Writers, ActivateVersion(w) PROVE KnowledgeTypeOK'
  BY <1>0, <1>4 DEF ActivateVersion, SaveEnds, MarkdownContents
<1>5. ASSUME NEW w \in Writers, LeftoverRefuses(w) PROVE KnowledgeTypeOK'
  BY <1>0, <1>5 DEF LeftoverRefuses, SaveEnds
<1>6. ASSUME NEW w \in Writers, SaveFails(w) PROVE KnowledgeTypeOK'
  BY <1>0, <1>6 DEF SaveFails, SaveEnds, Stop
<1>7. ASSUME StoreDies PROVE KnowledgeTypeOK'
  <2>1. stops' \in 0..MaxStops
    BY <1>7 DEF StoreDies, Stop
  <2>3. leftover' \in BOOLEAN
    BY <1>7, Zenon DEF StoreDies
  <2>2. save' = [w \in Writers |-> IdleSave] /\ saveLock' = NoFile
        /\ UNCHANGED <<markdown, active, images>>
    BY <1>7 DEF StoreDies
  <2> QED
    BY <1>0, <2>1, <2>2, <2>3
<1>8. ASSUME UNCHANGED knowledgeVars PROVE KnowledgeTypeOK'
  BY <1>8 DEF knowledgeVars
<1> QED
  BY <1>1, <1>2, <1>3, <1>4, <1>5, <1>6, <1>7, <1>8 DEF KnowledgeNext

\* One saver at a time: a save begins with the lock free and ends by freeing it.
LEMMA SaverStep == KInv /\ [KnowledgeNext]_knowledgeVars => SaverHoldsLock'
<1> SUFFICES ASSUME KInv, [KnowledgeNext]_knowledgeVars PROVE SaverHoldsLock'
  OBVIOUS
<1> USE KnowledgeConstants DEF KInv, KnowledgeTypeOK, SaverHoldsLock, directory
<1>1. ASSUME NEW i \in Images, StoreAttachment(i) PROVE SaverHoldsLock'
  BY <1>1 DEF StoreAttachment
<1>2. ASSUME NEW w \in Writers, NEW text \in Texts, NEW atts \in SUBSET Images,
             BeginSave(w, text, atts)
      PROVE  SaverHoldsLock'
  BY <1>2 DEF BeginSave
<1>3. ASSUME NEW w \in Writers, WriteMarkdown(w) PROVE SaverHoldsLock'
  BY <1>3 DEF WriteMarkdown
<1>4. ASSUME NEW w \in Writers, save[w].at # "idle", SaveEnds(w) PROVE SaverHoldsLock'
  BY <1>4 DEF SaveEnds, IdleSave
<1>5. ASSUME StoreDies PROVE SaverHoldsLock'
  BY <1>5 DEF StoreDies, IdleSave
<1>6. ASSUME UNCHANGED knowledgeVars PROVE SaverHoldsLock'
  BY <1>6 DEF knowledgeVars
<1> QED
  BY <1>1, <1>2, <1>3, <1>4, <1>5, <1>6
     DEF KnowledgeNext, ActivateVersion, LeftoverRefuses, SaveFails

\* What is being saved stays the next version, and its file stays as written: no
\* other file is Available, and only the holder of the lock moves the index.
LEMMA SaveStep == KInv /\ [KnowledgeNext]_knowledgeVars => SaveInv'
<1> SUFFICES ASSUME KInv, [KnowledgeNext]_knowledgeVars PROVE SaveInv'
  OBVIOUS
<1> USE KnowledgeConstants DEF KInv, KnowledgeTypeOK, SaverHoldsLock, SaveInv, directory
<1>1. ASSUME NEW i \in Images, StoreAttachment(i) PROVE SaveInv'
  BY <1>1 DEF StoreAttachment
<1>2. ASSUME NEW w \in Writers, NEW text \in Texts, NEW atts \in SUBSET Images,
             BeginSave(w, text, atts)
      PROVE  SaveInv'
  BY <1>2 DEF BeginSave, Valid, Version
<1>3. ASSUME NEW w \in Writers, WriteMarkdown(w) PROVE SaveInv'
  <2> PICK f \in Available :
         /\ markdown' = [markdown EXCEPT ![f] = save[w].content]
         /\ save' = [save EXCEPT ![w].at = "written", ![w].file = f]
    BY <1>3 DEF WriteMarkdown
  <2> QED
    BY <1>3 DEF WriteMarkdown, Available
<1>4. ASSUME NEW w \in Writers, ActivateVersion(w) PROVE SaveInv'
  <2>1. \A u \in Writers : save'[u].at = "idle"
    BY <1>4 DEF ActivateVersion, SaveEnds, IdleSave
  <2> QED
    BY <2>1
<1>5. ASSUME NEW w \in Writers, save[w].at # "idle", SaveEnds(w),
             UNCHANGED <<markdown, active, images>>
      PROVE  SaveInv'
  BY <1>5 DEF SaveEnds, IdleSave
<1>6. ASSUME StoreDies PROVE SaveInv'
  BY <1>6 DEF StoreDies, IdleSave
<1>7. ASSUME UNCHANGED knowledgeVars PROVE SaveInv'
  BY <1>7 DEF knowledgeVars
<1> QED
  BY <1>1, <1>2, <1>3, <1>4, <1>5, <1>6, <1>7
     DEF KnowledgeNext, LeftoverRefuses, SaveFails

\* The index is only ever moved to a version that has been written whole.
LEMMA WholeStep == KInv /\ [KnowledgeNext]_knowledgeVars => ActiveIsWhole'
<1> SUFFICES ASSUME KInv, [KnowledgeNext]_knowledgeVars PROVE ActiveIsWhole'
  OBVIOUS
<1> USE KnowledgeConstants DEF KInv, KnowledgeTypeOK, ActiveIsWhole, directory
<1>1. ASSUME NEW i \in Images, StoreAttachment(i) PROVE ActiveIsWhole'
  BY <1>1 DEF StoreAttachment
<1>2. ASSUME NEW w \in Writers, WriteMarkdown(w) PROVE ActiveIsWhole'
  <2> PICK f \in Available : markdown' = [markdown EXCEPT ![f] = save[w].content]
    BY <1>2 DEF WriteMarkdown
  <2> QED
    BY <1>2 DEF WriteMarkdown, Available
<1>3. ASSUME NEW w \in Writers, ActivateVersion(w) PROVE ActiveIsWhole'
  <2>1. /\ active'.file = save[w].file /\ active'.version = save[w].content.version
        /\ UNCHANGED <<markdown, images>>
    BY <1>3 DEF ActivateVersion
  <2>2. /\ markdown[save[w].file] = save[w].content
        /\ save[w].content.attachments \subseteq images
        /\ save[w].content \in MarkdownContents
    BY <1>3 DEF ActivateVersion, SaveInv
  <2> QED
    BY <2>1, <2>2
<1>4. ASSUME UNCHANGED <<markdown, active, images>> PROVE ActiveIsWhole'
  BY <1>4
<1> QED
  BY <1>1, <1>2, <1>3, <1>4
     DEF KnowledgeNext, BeginSave, LeftoverRefuses, SaveFails, StoreDies, knowledgeVars

\* ... and of every state after.
LEMMA KnowledgeInvariant == KnowledgeSpec => []KInv
<1>1. KInv /\ [KnowledgeNext]_knowledgeVars => KInv'
  BY KnowledgeTypeStep, SaverStep, SaveStep, WholeStep DEF KInv
<1> QED
  BY KnowledgeInitInv, <1>1, PTL DEF KnowledgeSpec

-----------------------------------------------------------------------------
\* The store keeps its types: the versions count up to what was saved.
\* (tag_knowledge.py, TagKnowledgeStore)
THEOREM KnowledgeTypes == KnowledgeSpec => []KnowledgeTypeOK
BY KnowledgeInvariant, PTL DEF KInv

\* Wherever a save stops, the index names a whole version.
\* (tag_knowledge.py:170-191)
THEOREM ActiveVersionIsWhole == KnowledgeSpec => []ActiveIsWhole
BY KnowledgeInvariant, PTL DEF KInv

\* Versions follow each other and files are never rewritten.
\* (tag_knowledge.py:170-191, :377)
THEOREM KnowledgeVersionsAdvance == KnowledgeSpec => VersionsAdvance
<1> DEFINE A == /\ active' # active => active'.version = active.version + 1
                /\ \A f \in FileNames : markdown[f] # NoFile => markdown'[f] = markdown[f]
<1>1. ASSUME KInv, [KnowledgeNext]_knowledgeVars PROVE A
  <2> USE KnowledgeConstants DEF KInv, KnowledgeTypeOK, directory
  <2>1. ASSUME NEW w \in Writers, WriteMarkdown(w) PROVE A
    <3> PICK f \in Available : markdown' = [markdown EXCEPT ![f] = save[w].content]
      BY <2>1 DEF WriteMarkdown
    <3> QED
      BY <1>1, <2>1 DEF WriteMarkdown, Available
  <2>2. ASSUME NEW w \in Writers, ActivateVersion(w) PROVE A
    BY <1>1, <2>2 DEF ActivateVersion, SaveInv
  <2>3. ASSUME UNCHANGED <<markdown, active>> PROVE A
    BY <2>3
  <2>4. \/ UNCHANGED <<markdown, active>>
        \/ \E w \in Writers : WriteMarkdown(w) \/ ActivateVersion(w)
    BY <1>1
       DEF KnowledgeNext, StoreAttachment, BeginSave, LeftoverRefuses, SaveFails,
           StoreDies, knowledgeVars
  <2> HIDE DEF A
  <2> QED
    BY <2>1, <2>2, <2>3, <2>4
<1>2. KInv /\ [KnowledgeNext]_knowledgeVars => [A]_knowledgeVars
  BY <1>1
<1> QED
  BY <1>2, KnowledgeInvariant, PTL DEF KnowledgeSpec, VersionsAdvance

-----------------------------------------------------------------------------
(* NetworkInventory: any networks, ranges, scans, records and restarts.    *)

\* Where a view stands before its query of the evidence.
Reading == {"manuals", "devices", "evidence"}

\* What was known when a view began is known to the tables until the view reads
\* the evidence, then to the view, and is then none of the free addresses.
ViewInv ==
  /\ \E S : runs \in Seq(S)
  /\ DOMAIN view = {"at", "network", "before", "scans", "manuals", "devices", "known", "free"}
  /\ view.at \in {"none", "runs", "shown"} \cup Reading
  /\ view.at \in Reading => view.before \subseteq Evidence(view.network)
  /\ view.at = "runs" => view.before \subseteq view.known
  /\ HistoryProtects

\* Saving a run adds it to the runs, and nothing else.
LEMMA AppendRange ==
  ASSUME NEW S, NEW s \in Seq(S), NEW e
  PROVE  Append(s, e) \in Seq(S \cup {e}) /\ Range(Append(s, e)) = Range(s) \cup {e}
<1>1. s \in Seq(S \cup {e})
  OBVIOUS
<1>2. /\ Append(s, e) \in Seq(S \cup {e}) /\ Len(Append(s, e)) = Len(s) + 1
      /\ \A i \in 1..Len(s) : Append(s, e)[i] = s[i]
      /\ Append(s, e)[Len(s) + 1] = e
  BY <1>1
<1>3. DOMAIN s = 1..Len(s) /\ Len(s) \in Nat /\ DOMAIN Append(s, e) = 1..Len(s) + 1
  BY <1>1, <1>2
<1>4. Range(Append(s, e)) \subseteq Range(s) \cup {e}
  BY <1>2, <1>3 DEF Range
<1>5. Range(s) \subseteq Range(Append(s, e)) /\ e \in Range(Append(s, e))
  BY <1>2, <1>3 DEF Range
<1> QED
  BY <1>2, <1>4, <1>5

\* The history only grows: no step of the application takes evidence away.
LEMMA EvidenceGrows ==
  ASSUME Range(runs) \subseteq Range(runs'), manuals \subseteq manuals', NEW n
  PROVE  Evidence(n) \subseteq Evidence(n)'
<1>1. ManualsOf(n) \subseteq ManualsOf(n)'
  BY DEF ManualsOf
<1> QED
  BY <1>1 DEF Evidence

\* A known address is not merged as free.
LEMMA KnownIsNotFree ==
  ASSUME NEW a, a \in view.known PROVE Merged(a) # "Candidate Free"
BY DEF Merged

LEMMA ViewStarts == ASSUME InventoryInit PROVE ViewInv
<1>1. runs \in Seq({})
  BY DEF InventoryInit
<1>2. view = NoView
  BY DEF InventoryInit
<1> QED
  BY <1>1, <1>2 DEF NoView, ViewInv, HistoryProtects, Reading

\* The history may grow while the view is left alone or forgotten.
LEMMA TablesGrow ==
  ASSUME ViewInv, \E S : runs' \in Seq(S), Range(runs) \subseteq Range(runs'),
         manuals \subseteq manuals', view' \in {view, NoView}
  PROVE  ViewInv'
<1>1. CASE view' = view
  <2>1. Evidence(view.network) \subseteq Evidence(view.network)'
    BY EvidenceGrows, <1>1 DEF Evidence, ManualsOf
  <2> QED
    BY <1>1, <2>1 DEF ViewInv, HistoryProtects
<1>2. CASE view' = NoView
  BY <1>2 DEF NoView, ViewInv, HistoryProtects, Reading
<1> QED
  BY <1>1, <1>2

\* A step of a scan leaves the view alone, and takes nothing from the tables.
LEMMA WritesKeep ==
  ASSUME ViewInv, NEW s \in Scanners,
         \/ ScanBegins(s) \/ Snapshot(s) \/ Probe(s) \/ CollectNeighbors(s)
         \/ ScanCompletes(s) \/ ScanFails(s) \/ Persist(s)
  PROVE  ViewInv'
<1>1. CASE ~Persist(s)
  <2>1. UNCHANGED <<tables, view>>
    BY <1>1 DEF ScanBegins, Snapshot, Probe, CollectNeighbors, ScanCompletes, ScanFails
  <2>2. (\E S : runs' \in Seq(S)) /\ Range(runs) \subseteq Range(runs')
    BY <2>1 DEF ViewInv, tables
  <2> QED
    BY <2>1, <2>2, TablesGrow DEF tables
<1>2. CASE Persist(s)
  <2> DEFINE r == [network |-> scan.network, complete |-> scan.complete,
                   scans |-> scan.found, devices |-> scan.devices]
  <2>1. runs' = Append(runs, r) /\ UNCHANGED <<manuals, view>>
    BY <1>2 DEF Persist
  <2> HIDE DEF r
  <2>2. PICK S : runs \in Seq(S)
    BY DEF ViewInv
  <2>3. runs' \in Seq(S \cup {r}) /\ Range(runs') = Range(runs) \cup {r}
    BY <2>1, <2>2, AppendRange
  <2> QED
    BY <2>1, <2>3, TablesGrow
<1> QED
  BY <1>1, <1>2

LEMMA ReadsKeep ==
  ASSUME ViewInv, ViewBegins \/ ReadManuals \/ ReadDevices \/ ReadEvidence \/ ReadRuns
  PROVE  ViewInv'
<1> DEFINE Fields == {"at", "network", "before", "scans", "manuals", "devices", "known",
                      "free"}
<1>1. UNCHANGED <<runs, manuals, profiles>>
  BY DEF ViewBegins, ReadManuals, ReadDevices, ReadEvidence, ReadRuns, ViewReads, tables,
         profileVars
<1>2. /\ DOMAIN view = Fields /\ \E S : runs' \in Seq(S)
      /\ \A n : Evidence(n)' = Evidence(n)
  BY <1>1 DEF ViewInv, Evidence, ManualsOf
<1> HIDE DEF Fields
<1>3. CASE ViewBegins
  <2>1. PICK n \in DOMAIN profiles :
          view' = [NoView EXCEPT !.at = "manuals", !.network = n, !.before = Evidence(n),
                                 !.scans = LatestScans(n)]
    BY <1>3 DEF ViewBegins
  <2>2. /\ DOMAIN view' = Fields /\ view'.at = "manuals" /\ view'.network = n
        /\ view'.before = Evidence(n)
    BY <2>1 DEF NoView, Fields
  <2>3. Evidence(view.network)' = Evidence(n)
    BY <1>1, <2>2 DEF Evidence, ManualsOf
  <2> QED
    BY <1>2, <2>2, <2>3 DEF ViewInv, HistoryProtects, Reading, Fields
<1>4. CASE ReadManuals \/ ReadDevices
  <2>1. /\ view.at \in Reading /\ view'.at \in {"devices", "evidence"}
        /\ DOMAIN view' = Fields /\ view'.network = view.network
        /\ view'.before = view.before
    BY <1>2, <1>4 DEF ReadManuals, ReadDevices, ViewReads, Reading, Fields
  <2>2. Evidence(view.network)' = Evidence(view.network)
    BY <1>1, <2>1 DEF Evidence, ManualsOf
  <2> QED
    BY <1>2, <2>1, <2>2 DEF ViewInv, HistoryProtects, Reading, Fields
<1>5. CASE ReadEvidence
  <2>1. /\ view.at \in Reading /\ view'.at = "runs" /\ DOMAIN view' = Fields
        /\ view'.before = view.before /\ view'.known = Evidence(view.network)
    BY <1>2, <1>5 DEF ReadEvidence, ViewReads, Reading, Fields
  <2> QED
    BY <1>2, <2>1 DEF ViewInv, HistoryProtects, Reading, Fields
<1>6. CASE ReadRuns
  <2> DEFINE free == {a \in profiles[view.network] :
                        Merged(a) = "Candidate Free" /\ ~Overlapping(a)}
  <2>1. free \cap view.known = {}
    BY KnownIsNotFree
  <2>2. view.at = "runs"
    BY <1>6 DEF ReadRuns, ViewReads
  <2>3. view' = [[NoView EXCEPT !.network = view.network, !.before = view.before,
                                !.free = free] EXCEPT !.at = "shown"]
    BY <1>6 DEF ReadRuns, ViewReads
  <2> HIDE DEF free
  <2>4. /\ view'.at = "shown" /\ DOMAIN view' = Fields /\ view'.before = view.before
        /\ view'.free = free
    BY <2>3 DEF NoView, Fields
  <2>5. free \cap view.before = {}
    BY <2>1, <2>2 DEF ViewInv
  <2> QED
    BY <1>2, <2>4, <2>5 DEF ViewInv, HistoryProtects, Reading, Fields
<1> QED
  BY <1>3, <1>4, <1>5, <1>6

LEMMA InventoryStepKeeps ==
  ASSUME ViewInv, [InventoryNext]_inventoryVars PROVE ViewInv'
<1>1. CASE UNCHANGED inventoryVars
  BY <1>1 DEF inventoryVars, tables, ViewInv, HistoryProtects, Evidence, ManualsOf
<1>2. CASE LoadProfiles \/ SaveManual \/ Restart
  <2>1. UNCHANGED runs /\ manuals \subseteq manuals' /\ view' \in {view, NoView}
    BY <1>2 DEF LoadProfiles, SaveManual, Restart, tables
  <2>2. (\E S : runs' \in Seq(S)) /\ Range(runs) \subseteq Range(runs')
    BY <2>1 DEF ViewInv
  <2> QED
    BY <2>1, <2>2, TablesGrow
<1>3. ASSUME NEW s \in Scanners,
             \/ ScanBegins(s) \/ Snapshot(s) \/ Probe(s) \/ CollectNeighbors(s)
             \/ ScanCompletes(s) \/ ScanFails(s) \/ Persist(s)
      PROVE  ViewInv'
  BY <1>3, WritesKeep
<1>4. CASE ViewBegins \/ ReadManuals \/ ReadDevices \/ ReadEvidence \/ ReadRuns
  BY <1>4, ReadsKeep
<1> QED
  BY <1>1, <1>2, <1>3, <1>4 DEF InventoryNext

\* HistoryProtects: no view calls an address free that anything was known of when
\* the view began (store.current, merge_current).
THEOREM KnownAddressesAreProtected == InventorySpec => []HistoryProtects
<1>1. InventoryInit => ViewInv
  BY ViewStarts
<1>2. ViewInv /\ [InventoryNext]_inventoryVars => ViewInv'
  BY InventoryStepKeeps
<1>3. ViewInv => HistoryProtects
  BY DEF ViewInv
<1> QED
  BY <1>1, <1>2, <1>3, PTL DEF InventorySpec

-----------------------------------------------------------------------------
\* What a scan has counted and what is left for it add up: at the next network
\* to what the networks to do hold, at a network to that and its own.
Working == {"probe", "save"}

Counts ==
  /\ DOMAIN progress = {"status", "scanned", "total"}
  /\ progress.scanned \in Nat /\ progress.total \in Nat

ScanTypes ==
  /\ DOMAIN scan = {"at", "todo", "left", "network", "complete", "devices", "found",
                    "baseline", "all", "saved"}
  /\ scan.at \in {"none", "next"} \cup Working
  /\ profiles \in Configs \cup {Unassigned} /\ config \in Configs

\* While a scan runs.
ScanUnderway ==
  /\ profiles \in Configs /\ progress.status = "running"
  /\ scan.all \subseteq DOMAIN profiles /\ scan.todo \subseteq scan.all
  /\ scan.saved \in Nat /\ scan.saved + Cardinality(scan.todo) = Cardinality(scan.all)

BetweenNetworks == progress.scanned + Cardinality(AddressesOf(scan.todo)) = progress.total

AtNetwork ==
  /\ scan.network \in scan.todo /\ scan.left \subseteq profiles[scan.network]
  /\ DOMAIN scan.found = profiles[scan.network] \ scan.left
  /\ scan.baseline \in Nat
  /\ progress.scanned = scan.baseline + Cardinality(DOMAIN scan.found)
  /\ scan.baseline + Cardinality(AddressesOf(scan.todo)) = progress.total

ScanInv ==
  /\ Counts /\ ScanTypes
  /\ scan.at # "none" => ScanUnderway
  /\ scan.at = "next" => BetweenNetworks
  /\ scan.at \in Working => AtNetwork
  /\ scan.at = "save" => scan.left = {}
  /\ ProgressAddsUp

\* The addresses of some networks are those of one of them and of the others.
LEMMA OneNetworkLess ==
  ASSUME profiles \in Configs, NEW S, S \subseteq DOMAIN profiles, NEW n \in S
  PROVE  /\ IsFiniteSet(profiles[n]) /\ Cardinality(profiles[n]) \in Nat
         /\ IsFiniteSet(S) /\ Cardinality(S) \in Nat
         /\ Cardinality(S \ {n}) = Cardinality(S) - 1
         /\ Cardinality(AddressesOf(S \ {n})) \in Nat
         /\ Cardinality(AddressesOf(S)) = Cardinality(profiles[n]) + Cardinality(AddressesOf(S \ {n}))
<1>1. /\ IsFiniteSet(Networks) /\ IsFiniteSet(Addresses)
      /\ DOMAIN profiles \subseteq Networks /\ \A m \in DOMAIN profiles : profiles[m] \subseteq Addresses
  BY InventoryConstants DEF InventoryConstants
<1>2. /\ IsFiniteSet(S) /\ IsFiniteSet(profiles[n]) /\ IsFiniteSet(S \ {n}) /\ IsFiniteSet({n})
  <2>1. S \in SUBSET Networks /\ profiles[n] \in SUBSET Addresses /\ S \ {n} \in SUBSET Networks
    BY <1>1
  <2> QED
    BY <1>1, <2>1, FS_Subset, FS_Singleton
<1>3. /\ Cardinality(S) \in Nat /\ Cardinality(profiles[n]) \in Nat
      /\ Cardinality(S \ {n}) = Cardinality(S) - 1
  BY <1>2, FS_CardinalityType, FS_RemoveElement
<1>4. IsFiniteSet(AddressesOf(S \ {n})) /\ Cardinality(AddressesOf(S \ {n})) \in Nat
  <2>1. IsFiniteSet((S \ {n}) \X Addresses)
    BY <1>1, <1>2, FS_Product
  <2>2. AddressesOf(S \ {n}) \in SUBSET ((S \ {n}) \X Addresses)
    BY DEF AddressesOf
  <2>3. IsFiniteSet(AddressesOf(S \ {n}))
    BY <2>1, <2>2, FS_Subset
  <2> QED
    BY <2>3, FS_CardinalityType
<1>5. /\ IsFiniteSet({n} \X profiles[n])
      /\ Cardinality({n} \X profiles[n]) = Cardinality(profiles[n])
  <2>1. Cardinality({n}) = 1
    BY FS_Singleton
  <2>2. /\ IsFiniteSet({n} \X profiles[n])
        /\ Cardinality({n} \X profiles[n]) = Cardinality({n}) * Cardinality(profiles[n])
    BY <1>2, FS_Product
  <2>3. \A k \in Nat : 1 * k = k
    OBVIOUS
  <2> QED
    BY <1>3, <2>1, <2>2, <2>3
<1>6. /\ AddressesOf(S) = ({n} \X profiles[n]) \cup AddressesOf(S \ {n})
      /\ ({n} \X profiles[n]) \cap AddressesOf(S \ {n}) = {}
  BY <1>1 DEF AddressesOf
<1>7. Cardinality(AddressesOf(S)) = Cardinality(profiles[n]) + Cardinality(AddressesOf(S \ {n}))
  <2>1. PICK X, Y : X = {n} \X profiles[n] /\ Y = AddressesOf(S \ {n})
    OBVIOUS
  <2>2. Cardinality(X \cup Y) = Cardinality(X) + Cardinality(Y) - Cardinality(X \cap Y)
    BY <1>4, <1>5, <2>1, FS_Union
  <2>3. Cardinality(X \cap Y) = 0
    BY <1>6, <2>1, FS_EmptySet
  <2>4. /\ Cardinality(X) \in Nat /\ Cardinality(Y) \in Nat
        /\ Cardinality(X) = Cardinality(profiles[n]) /\ AddressesOf(S) = X \cup Y
    BY <1>3, <1>4, <1>5, <1>6, <2>1
  <2>5. Cardinality(X \cup Y) = Cardinality(X) + Cardinality(Y)
    BY <2>2, <2>3, <2>4
  <2> QED
    BY <2>1, <2>4, <2>5
<1> QED
  BY <1>2, <1>3, <1>4, <1>7

\* What is counted is a finite number.
LEMMA AddressesAreFinite ==
  ASSUME profiles \in Configs, NEW S, S \subseteq DOMAIN profiles
  PROVE  /\ IsFiniteSet(S) /\ Cardinality(S) \in Nat
         /\ Cardinality(AddressesOf(S)) \in Nat
         /\ S = {} => Cardinality(AddressesOf(S)) = 0
<1>1. /\ IsFiniteSet(Networks) /\ IsFiniteSet(Addresses) /\ DOMAIN profiles \subseteq Networks
  BY InventoryConstants DEF InventoryConstants
<1>2. IsFiniteSet(S)
  <2>1. S \in SUBSET Networks
    BY <1>1
  <2> QED
    BY <1>1, <2>1, FS_Subset
<1>3. IsFiniteSet(AddressesOf(S))
  <2>1. IsFiniteSet(S \X Addresses)
    BY <1>1, <1>2, FS_Product
  <2>2. AddressesOf(S) \in SUBSET (S \X Addresses)
    BY DEF AddressesOf
  <2> QED
    BY <2>1, <2>2, FS_Subset
<1>4. S = {} => AddressesOf(S) = {}
  BY DEF AddressesOf
<1> QED
  BY <1>2, <1>3, <1>4, FS_CardinalityType, FS_EmptySet

\* The part of a set that is left.
LEMMA LeftOf ==
  ASSUME NEW A, IsFiniteSet(A), NEW L, L \subseteq A
  PROVE  /\ Cardinality(A \ L) \in Nat /\ Cardinality(A \ L) <= Cardinality(A)
         /\ Cardinality(A) \in Nat
         /\ \A a \in L : Cardinality(A \ (L \ {a})) = Cardinality(A \ L) + 1
<1>1. IsFiniteSet(A \ L) /\ Cardinality(A \ L) <= Cardinality(A)
  <2>1. A \ L \in SUBSET A
    OBVIOUS
  <2> QED
    BY <2>1, FS_Subset
<1>2. \A a \in L : A \ (L \ {a}) = (A \ L) \cup {a} /\ a \notin A \ L
  OBVIOUS
<1>3. Cardinality(A \ L) \in Nat /\ Cardinality(A) \in Nat
  BY <1>1, FS_CardinalityType
<1>4. ASSUME NEW a \in L PROVE Cardinality(A \ (L \ {a})) = Cardinality(A \ L) + 1
  <2>1. Cardinality((A \ L) \cup {a}) = Cardinality(A \ L) + 1
    BY <1>1, <1>2, FS_AddElement
  <2> QED
    BY <1>2, <2>1
<1> QED
  BY <1>1, <1>3, <1>4

\* No scan has counted anything.
LEMMA ScanningStarts == ASSUME InventoryInit PROVE ScanInv
BY DEF InventoryInit, ScanInv, Counts, ScanTypes, ProgressAddsUp, NoScan, Idle, Working

\* A scan begins with nothing counted and every network to do.
LEMMA BeginKeeps ==
  ASSUME ScanInv, NEW s \in Scanners, ScanBegins(s) PROVE ScanInv'
<1>1. PICK chosen \in {{n} : n \in DOMAIN profiles} \cup {DOMAIN profiles} :
         /\ scan' = [NoScan EXCEPT !.at = "next", !.todo = chosen, !.all = chosen]
         /\ progress' = [status |-> "running", scanned |-> 0, total |-> Cardinality(AddressesOf(chosen))]
  BY DEF ScanBegins
<1>2. /\ scan'.at = "next" /\ scan'.todo = chosen /\ scan'.all = chosen /\ scan'.saved = 0
      /\ DOMAIN scan' = DOMAIN NoScan
  BY <1>1 DEF NoScan
<1>3. /\ profiles \in Configs /\ config \in Configs /\ UNCHANGED <<profiles, config>>
      /\ chosen \subseteq DOMAIN profiles
  BY <1>1 DEF ScanBegins, ScanInv, ScanTypes, profileVars
<1>4. Cardinality(AddressesOf(chosen)) \in Nat /\ Cardinality(chosen) \in Nat
  BY <1>3, AddressesAreFinite
<1>5. /\ progress'.status = "running" /\ progress'.scanned = 0
      /\ progress'.total = Cardinality(AddressesOf(chosen))
      /\ DOMAIN progress' = {"status", "scanned", "total"}
  BY <1>1
<1>6. AddressesOf(scan.todo)' = AddressesOf(chosen)
  BY <1>2, <1>3 DEF AddressesOf
<1>7. BetweenNetworks'
  BY <1>4, <1>5, <1>6 DEF BetweenNetworks
<1>8. ScanUnderway'
  BY <1>2, <1>3, <1>4, <1>5 DEF ScanUnderway
<1>9. Counts' /\ ProgressAddsUp'
  BY <1>4, <1>5 DEF Counts, ProgressAddsUp
<1>10. ScanTypes'
  BY <1>2, <1>3 DEF ScanTypes, NoScan
<1> QED
  BY <1>2, <1>7, <1>8, <1>9, <1>10 DEF ScanInv, Working

\* The count so far becomes the baseline of the network.
LEMMA SnapshotKeeps ==
  ASSUME ScanInv, NEW s \in Scanners, Snapshot(s) PROVE ScanInv'
<1>0. PICK n : n = (CHOOSE x \in scan.todo : TRUE) /\ n \in scan.todo
  BY DEF Snapshot
<1>2. /\ scan'.at = "probe" /\ scan'.network = n /\ scan'.left = profiles[n] /\ scan'.found = << >>
      /\ scan'.baseline = progress.scanned /\ scan'.todo = scan.todo /\ scan'.all = scan.all
      /\ scan'.saved = scan.saved /\ DOMAIN scan' = DOMAIN scan
  BY <1>0 DEF Snapshot, ScanInv, ScanTypes
<1>3. UNCHANGED <<progress, profiles, config>> /\ scan.at = "next"
  BY DEF Snapshot, profileVars
<1>4. Counts /\ ScanTypes /\ ScanUnderway /\ BetweenNetworks /\ ProgressAddsUp
  BY <1>3 DEF ScanInv
<1>5. AddressesOf(scan.todo)' = AddressesOf(scan.todo)
  BY <1>2, <1>3 DEF AddressesOf
<1>6. DOMAIN scan'.found = {} /\ Cardinality({}) = 0 /\ profiles[n] \ profiles[n] = {}
  BY <1>2, FS_EmptySet
<1>7. AtNetwork'
  <2>1. /\ scan'.network \in scan'.todo /\ scan'.left \subseteq profiles'[scan'.network]
        /\ DOMAIN scan'.found = profiles'[scan'.network] \ scan'.left
    BY <1>0, <1>2, <1>3, <1>6
  <2>2. /\ scan'.baseline \in Nat
        /\ progress'.scanned = scan'.baseline + Cardinality(DOMAIN scan'.found)
    BY <1>2, <1>3, <1>4, <1>6 DEF Counts
  <2>3. scan'.baseline + Cardinality(AddressesOf(scan.todo)') = progress'.total
    BY <1>2, <1>3, <1>4, <1>5 DEF BetweenNetworks
  <2> QED
    BY <2>1, <2>2, <2>3 DEF AtNetwork
<1>8. ScanUnderway'
  BY <1>2, <1>3, <1>4 DEF ScanUnderway
<1>9. Counts' /\ ProgressAddsUp'
  BY <1>2, <1>3, <1>4 DEF Counts, ProgressAddsUp
<1>10. ScanTypes'
  BY <1>2, <1>3, <1>4 DEF ScanTypes, Working
<1> QED
  BY <1>2, <1>7, <1>8, <1>9, <1>10 DEF ScanInv, Working

\* What is counted at a network stays within the total.
LEMMA AtNetworkFits ==
  ASSUME Counts, ScanUnderway, AtNetwork
  PROVE  /\ IsFiniteSet(profiles[scan.network])
         /\ Cardinality(profiles[scan.network]) \in Nat
         /\ Cardinality(AddressesOf(scan.todo \ {scan.network})) \in Nat
         /\ scan.baseline + Cardinality(profiles[scan.network])
              + Cardinality(AddressesOf(scan.todo \ {scan.network})) = progress.total
<1>1. scan.todo \subseteq DOMAIN profiles /\ scan.network \in scan.todo /\ profiles \in Configs
  BY DEF ScanUnderway, AtNetwork
<1>2. PICK S, n : S = scan.todo /\ n = scan.network
  OBVIOUS
<1>3. /\ IsFiniteSet(profiles[n]) /\ Cardinality(profiles[n]) \in Nat
      /\ Cardinality(AddressesOf(S \ {n})) \in Nat
      /\ Cardinality(AddressesOf(S)) = Cardinality(profiles[n]) + Cardinality(AddressesOf(S \ {n}))
  BY <1>1, <1>2, OneNetworkLess
<1> QED
  BY <1>2, <1>3 DEF AtNetwork

\* One more address is counted, of those that were left.
LEMMA ProbeKeeps ==
  ASSUME ScanInv, NEW s \in Scanners, Probe(s) PROVE ScanInv'
<1>0. PICK a : a = (CHOOSE x \in scan.left : TRUE) /\ a \in scan.left
  BY DEF Probe
<1>2. /\ scan.at = "probe" /\ UNCHANGED <<profiles, config>>
      /\ progress' = [progress EXCEPT !.scanned = scan.baseline + Cardinality(DOMAIN scan.found) + 1]
  BY DEF Probe, profileVars
<1>3. Counts /\ ScanTypes /\ ScanUnderway /\ AtNetwork
  BY <1>2 DEF ScanInv, Working
<1>4. /\ scan'.at = "probe" /\ scan'.network = scan.network /\ scan'.left = scan.left \ {a}
      /\ DOMAIN scan'.found = DOMAIN scan.found \cup {a}
      /\ scan'.baseline = scan.baseline /\ scan'.todo = scan.todo /\ scan'.all = scan.all
      /\ scan'.saved = scan.saved /\ DOMAIN scan' = DOMAIN scan
  BY <1>0, <1>2, <1>3 DEF Probe, ScanTypes
<1>5. /\ progress'.scanned = scan.baseline + Cardinality(DOMAIN scan.found) + 1
      /\ progress'.status = progress.status /\ progress'.total = progress.total
      /\ DOMAIN progress' = DOMAIN progress
  BY <1>2, <1>3 DEF Counts
<1>6. PICK A, L : A = profiles[scan.network] /\ L = scan.left
  OBVIOUS
<1>7. L \subseteq A /\ IsFiniteSet(A) /\ DOMAIN scan.found = A \ L /\ DOMAIN scan'.found = A \ (L \ {a})
  BY <1>0, <1>3, <1>4, <1>6, AtNetworkFits DEF AtNetwork
<1>8. /\ Cardinality(A \ L) \in Nat /\ Cardinality(A) \in Nat
      /\ Cardinality(A \ (L \ {a})) = Cardinality(A \ L) + 1
      /\ Cardinality(A \ (L \ {a})) <= Cardinality(A)
  <2>1. L \ {a} \subseteq A
    BY <1>7
  <2>2. a \in L
    BY <1>0, <1>6
  <2>3. /\ Cardinality(A \ L) \in Nat /\ Cardinality(A) \in Nat
        /\ \A b \in L : Cardinality(A \ (L \ {b})) = Cardinality(A \ L) + 1
    BY <1>7, LeftOf
  <2>4. Cardinality(A \ (L \ {a})) <= Cardinality(A)
    BY <1>7, <2>1, LeftOf
  <2> QED
    BY <2>2, <2>3, <2>4
<1>15. /\ Cardinality(DOMAIN scan.found) \in Nat /\ scan.baseline \in Nat
       /\ Cardinality(DOMAIN scan'.found) = Cardinality(DOMAIN scan.found) + 1
       /\ Cardinality(DOMAIN scan'.found) <= Cardinality(A)
  BY <1>3, <1>7, <1>8 DEF AtNetwork
<1>9. AddressesOf(scan.todo)' = AddressesOf(scan.todo)
  BY <1>2, <1>4 DEF AddressesOf
<1>10. AtNetwork'
  <2>1. /\ scan'.network \in scan'.todo /\ scan'.left \subseteq profiles'[scan'.network]
        /\ DOMAIN scan'.found = profiles'[scan'.network] \ scan'.left
    BY <1>2, <1>3, <1>4, <1>6, <1>7 DEF AtNetwork
  <2>2. /\ scan'.baseline \in Nat
        /\ progress'.scanned = scan'.baseline + Cardinality(DOMAIN scan'.found)
    BY <1>4, <1>5, <1>15
  <2>3. scan'.baseline + Cardinality(AddressesOf(scan.todo)') = progress'.total
    BY <1>3, <1>4, <1>5, <1>9 DEF AtNetwork
  <2> QED
    BY <2>1, <2>2, <2>3 DEF AtNetwork
<1>11. ScanUnderway'
  BY <1>2, <1>3, <1>4, <1>5 DEF ScanUnderway
<1>12. Counts'
  BY <1>3, <1>5, <1>15 DEF Counts
<1>13. ProgressAddsUp'
  <2>1. PICK rest : /\ rest = Cardinality(AddressesOf(scan.todo \ {scan.network})) /\ rest \in Nat
                    /\ scan.baseline + Cardinality(A) + rest = progress.total
    BY <1>3, <1>6, AtNetworkFits
  <2>2. progress'.scanned <= progress'.total
    BY <1>5, <1>8, <1>15, <2>1
  <2> QED
    BY <1>3, <1>5, <2>2 DEF ProgressAddsUp, ScanUnderway
<1>14. ScanTypes'
  BY <1>2, <1>3, <1>4 DEF ScanTypes
<1> QED
  BY <1>4, <1>10, <1>11, <1>12, <1>13, <1>14 DEF ScanInv, Working

\* The neighbour table changes what was found, not where.
LEMMA NeighborsKeep ==
  ASSUME ScanInv, NEW s \in Scanners, CollectNeighbors(s) PROVE ScanInv'
<1>2. /\ scan.at = "probe" /\ scan.left = {} /\ UNCHANGED <<profiles, config, progress>>
  BY DEF CollectNeighbors, profileVars
<1>3. Counts /\ ScanTypes /\ ScanUnderway /\ AtNetwork /\ ProgressAddsUp
  BY <1>2 DEF ScanInv, Working
<1>4. /\ scan'.at = "save" /\ scan'.network = scan.network /\ scan'.left = scan.left
      /\ DOMAIN scan'.found = DOMAIN scan.found
      /\ scan'.baseline = scan.baseline /\ scan'.todo = scan.todo /\ scan'.all = scan.all
      /\ scan'.saved = scan.saved /\ DOMAIN scan' = DOMAIN scan
  BY <1>3 DEF CollectNeighbors, ScanTypes
<1>5. AddressesOf(scan.todo)' = AddressesOf(scan.todo)
  BY <1>2, <1>4 DEF AddressesOf
<1>6. AtNetwork'
  BY <1>2, <1>3, <1>4, <1>5 DEF AtNetwork
<1>7. ScanUnderway'
  BY <1>2, <1>3, <1>4 DEF ScanUnderway
<1>8. Counts' /\ ProgressAddsUp'
  BY <1>2, <1>3 , <1>4 DEF Counts, ProgressAddsUp
<1>9. ScanTypes'
  BY <1>2, <1>3, <1>4 DEF ScanTypes, Working
<1> QED
  BY <1>2, <1>4, <1>6, <1>7, <1>8, <1>9 DEF ScanInv, Working

\* A network that is saved is one less to do.
LEMMA PersistKeeps ==
  ASSUME ScanInv, NEW s \in Scanners, Persist(s) PROVE ScanInv'
<1>1. /\ scan' = [NoScan EXCEPT !.at = "next", !.todo = scan.todo \ {scan.network},
                               !.all = scan.all, !.saved = scan.saved + 1]
      /\ scan.at = "save" /\ UNCHANGED <<profiles, config, progress>>
  BY DEF Persist, profileVars
<1>2. Counts /\ ScanTypes /\ ScanUnderway /\ AtNetwork /\ ProgressAddsUp /\ scan.left = {}
  BY <1>1 DEF ScanInv, Working
<1>3. /\ scan'.at = "next" /\ scan'.todo = scan.todo \ {scan.network} /\ scan'.all = scan.all
      /\ scan'.saved = scan.saved + 1 /\ DOMAIN scan' = DOMAIN NoScan
  BY <1>1 DEF NoScan
<1>4. AddressesOf(scan.todo)' = AddressesOf(scan.todo \ {scan.network})
  BY <1>1, <1>3 DEF AddressesOf
<1>5. progress.scanned = scan.baseline + Cardinality(profiles[scan.network])
  <2>1. profiles[scan.network] \ {} = profiles[scan.network]
    OBVIOUS
  <2> QED
    BY <1>2, <2>1 DEF AtNetwork
<1>6. BetweenNetworks'
  BY <1>1, <1>2, <1>4, <1>5, AtNetworkFits DEF BetweenNetworks, AtNetwork
<1>7. ScanUnderway'
  <2>1. PICK S, n : S = scan.todo /\ n = scan.network
    OBVIOUS
  <2>2. Cardinality(S \ {n}) = Cardinality(S) - 1 /\ Cardinality(S) \in Nat
    BY <1>2, <2>1, OneNetworkLess DEF ScanUnderway, AtNetwork
  <2>3. /\ scan'.saved \in Nat
        /\ scan'.saved + Cardinality(scan'.todo) = Cardinality(scan'.all)
    BY <1>2, <1>3, <2>1, <2>2 DEF ScanUnderway
  <2> QED
    BY <1>1, <1>2, <1>3, <2>3 DEF ScanUnderway
<1>8. Counts' /\ ProgressAddsUp'
  BY <1>1, <1>2 DEF Counts, ProgressAddsUp, ScanUnderway
<1>9. ScanTypes'
  BY <1>1, <1>2, <1>3 DEF ScanTypes, NoScan
<1> QED
  BY <1>3, <1>6, <1>7, <1>8, <1>9 DEF ScanInv, Working

\* A scan that ends has counted everything, or says that it failed.
LEMMA ScanEndsKeeps ==
  ASSUME ScanInv, NEW s \in Scanners, ScanCompletes(s) \/ ScanFails(s) PROVE ScanInv'
<1>1. /\ scan' = [NoScan EXCEPT !.all = scan.all, !.saved = scan.saved]
      /\ UNCHANGED <<profiles, config>>
  BY DEF ScanCompletes, ScanFails, profileVars
<1>2. /\ scan'.at = "none" /\ scan'.all = scan.all /\ scan'.saved = scan.saved
      /\ DOMAIN scan' = DOMAIN NoScan
  BY <1>1 DEF NoScan
<1>3. Counts /\ ScanTypes /\ ProgressAddsUp
  BY DEF ScanInv
<1>4. PICK status \in {"completed", "error"} :
        /\ progress' = [progress EXCEPT !.status = status]
        /\ status = "completed" => scan.at = "next" /\ scan.todo = {}
  BY DEF ScanCompletes, ScanFails
<1>5. /\ progress'.status = status /\ progress'.scanned = progress.scanned
      /\ progress'.total = progress.total /\ DOMAIN progress' = DOMAIN progress
  BY <1>3, <1>4 DEF Counts
<1>6. status = "completed" =>
        progress.scanned = progress.total /\ scan.saved = Cardinality(scan.all)
  <2>1. SUFFICES ASSUME scan.at = "next", scan.todo = {}
                 PROVE  progress.scanned = progress.total /\ scan.saved = Cardinality(scan.all)
    BY <1>4
  <2>2. ScanUnderway /\ BetweenNetworks
    BY <2>1 DEF ScanInv
  <2>3. Cardinality(scan.todo) = 0 /\ Cardinality(AddressesOf(scan.todo)) = 0
    <3>1. \A S : S = scan.todo => Cardinality(S) = 0 /\ Cardinality(AddressesOf(S)) = 0
      BY <2>1, <2>2, AddressesAreFinite, FS_EmptySet DEF ScanUnderway
    <3> QED
      BY <3>1
  <2>4. Cardinality(scan.all) \in Nat
    BY <2>2, AddressesAreFinite DEF ScanUnderway
  <2> QED
    BY <1>3, <2>2, <2>3, <2>4 DEF ScanUnderway, BetweenNetworks, Counts
<1>7. Counts' /\ ProgressAddsUp'
  BY <1>2, <1>3, <1>5, <1>6 DEF Counts, ProgressAddsUp
<1>8. ScanTypes'
  BY <1>1, <1>2, <1>3 DEF ScanTypes, NoScan
<1> QED
  BY <1>2, <1>7, <1>8 DEF ScanInv, Working

\* Profiles are loaded before the first scan; a restart forgets the scan.
LEMMA OutsideKeeps ==
  ASSUME ScanInv,
         \/ LoadProfiles \/ SaveManual \/ Restart \/ UNCHANGED inventoryVars
         \/ ViewBegins \/ ReadManuals \/ ReadDevices \/ ReadEvidence \/ ReadRuns
  PROVE  ScanInv'
<1>1. CASE Restart
  BY <1>1 DEF Restart, ScanInv, Counts, ScanTypes, ProgressAddsUp, NoScan, Idle, Working
<1>2. CASE LoadProfiles
  <2>1. UNCHANGED <<scan, progress, config>> /\ profiles' = config /\ profiles = Unassigned
    BY <1>2 DEF LoadProfiles, scanVars
  <2>2. scan.at = "none"
    BY <2>1, InventoryConstants DEF ScanInv, ScanUnderway, InventoryConstants
  <2> QED
    BY <2>1, <2>2 DEF ScanInv, Counts, ScanTypes, ProgressAddsUp, Working
<1>3. CASE UNCHANGED <<scan, progress, config, profiles>>
  BY <1>3 DEF ScanInv, Counts, ScanTypes, ScanUnderway, BetweenNetworks, AtNetwork, AddressesOf,
     ProgressAddsUp
<1> QED
  BY <1>1, <1>2, <1>3
     DEF SaveManual, ViewBegins, ReadManuals, ReadDevices, ReadEvidence, ReadRuns, ViewReads,
         profileVars, scanVars, inventoryVars

\* ProgressAddsUp: whatever networks a scan was asked for and whenever it fails,
\* the progress never passes its total, and says completed only when every
\* address of every network was counted and every network's run saved
\* (NetworkInventory.scan, scan_network).
THEOREM ScansAddUp == InventorySpec => []ProgressAddsUp
<1>1. InventoryInit => ScanInv
  BY ScanningStarts
<1>2. ScanInv /\ [InventoryNext]_inventoryVars => ScanInv'
  BY BeginKeeps, SnapshotKeeps, ProbeKeeps, NeighborsKeep, PersistKeeps, ScanEndsKeeps,
     OutsideKeeps DEF InventoryNext
<1>3. ScanInv => ProgressAddsUp
  BY DEF ScanInv
<1> QED
  BY <1>1, <1>2, <1>3, PTL DEF InventorySpec

-----------------------------------------------------------------------------
(* HistorianValues: any tags, lines, registries, channels and values.      *)

\* The types that the other parts of the invariant rely on.
ValueTypes ==
    /\ scope \in Lines \cup {NoLine} /\ registry \in Registries
    /\ value \in [Tags -> Values]
    /\ clients \in [Lines -> Lines \cup {NoLine}]
    /\ stored \in [Lines -> [Tags -> Values \cup {NoValue}]]

\* A session is one of rows that were not refused: the tags loaded and not read
\* as disabled; and only their values are notified.
SessionInv ==
    /\ session \in {"off", "on"}
    /\ session = "on" => ~Refused /\ eligible = Loaded \ seenDisabled
    /\ session = "off" => eligible = {}
    /\ due \subseteq eligible

\* A client that is kept is one of the database it is kept for.
ClientsInv == \A d \in Lines : clients[d] \in {NoLine, d}

\* Whatever has been notified and written is up to date.
CurrentInv ==
    \A t \in eligible \ (due \cup missed) : stored[DatabaseOf(t)][t] = value[t]

VInv == ValueTypes /\ SessionInv /\ ClientsInv /\ PointsAreOfTheLine /\ CurrentInv

-----------------------------------------------------------------------------
\* What a tag of a session is: a registered tag of a line, whose path and node
\* are of its line's channels when the worker has a scope.
LEMMA LoadedTag ==
    ASSUME ValueTypes, ~Refused, NEW t \in Loaded
    PROVE  /\ t \in Tags
           /\ DatabaseOf(t) \in Lines
           /\ scope # NoLine => /\ DatabaseOf(t) = scope
                                /\ registry[t].node[1] \in ChannelsOf[scope]
<1>1. t \in Tags /\ t \in Selected /\ AllowsTag(t)
  BY DEF Loaded, Selected
<1>2. registry[t].line \in Lines \cup {NoLine}
  BY <1>1, ValueConstants DEF ValueTypes
<1>3. registry[t].line # NoLine
  BY <1>1 DEF Refused
<1>4. scope # NoLine => registry[t].line = scope
  BY <1>1 DEF Selected
<1>5. scope # NoLine => registry[t].node[1] \in ChannelsOf[scope]
  BY <1>1 DEF AllowsTag
<1> QED
  BY <1>1, <1>2, <1>3, <1>4, <1>5 DEF DatabaseOf

\* A tag with a value due is one of a session, and its point goes to the database
\* of its line, by whichever client.
LEMMA DueTag ==
    ASSUME VInv, NEW t \in due
    PROVE  /\ session = "on" /\ ~Refused /\ t \in Loaded /\ t \in Tags
           /\ DatabaseOf(t) \in Lines /\ ClientOf(t) = DatabaseOf(t)
           /\ scope # NoLine => /\ DatabaseOf(t) = scope
                                /\ registry[t].node[1] \in ChannelsOf[scope]
<1>1. session = "on" /\ ~Refused /\ t \in Loaded
  BY DEF VInv, SessionInv
<1>2. ValueTypes
  BY DEF VInv
<1>3. /\ t \in Tags /\ DatabaseOf(t) \in Lines
      /\ scope # NoLine => /\ DatabaseOf(t) = scope
                           /\ registry[t].node[1] \in ChannelsOf[scope]
  BY <1>1, <1>2, LoadedTag
<1>4. clients[DatabaseOf(t)] \in {NoLine, DatabaseOf(t)}
  BY <1>3 DEF VInv, ClientsInv
<1>5. ClientOf(t) = DatabaseOf(t)
  BY <1>4 DEF ClientOf
<1> QED
  BY <1>1, <1>3, <1>5

\* What the rows and the scope decide does not change while they do not.
LEMMA RowsDecide ==
    ASSUME UNCHANGED settings
    PROVE  /\ Loaded' = Loaded /\ Refused' = Refused
           /\ \A t : DatabaseOf(t)' = DatabaseOf(t)
BY DEF settings, Loaded, Selected, AllowsTag, Refused, DatabaseOf

-----------------------------------------------------------------------------
LEMMA InitHolds == ValuesInit => VInv
<1> SUFFICES ASSUME ValuesInit PROVE VInv
  OBVIOUS
<1> USE DEF ValuesInit
<1>1. ValueTypes
  BY DEF ValueTypes, Nothing
<1>2. SessionInv
  BY DEF SessionInv
<1>3. ClientsInv
  BY DEF ClientsInv
<1>4. PointsAreOfTheLine
  BY DEF PointsAreOfTheLine, Nothing
<1>5. CurrentInv
  BY DEF CurrentInv
<1> QED
  BY <1>1, <1>2, <1>3, <1>4, <1>5 DEF VInv

\* The value of a tag changes: nothing is stored, and the tag is due.
LEMMA ChangeKeeps ==
    ASSUME VInv, NEW t \in Tags, ChangeValue(t)
    PROVE  VInv'
<1> USE DEF ChangeValue, writer
<1>1. UNCHANGED settings /\ UNCHANGED <<session, eligible, seenDisabled, clients, stored, missed>>
  OBVIOUS
<1>2. /\ Loaded' = Loaded /\ Refused' = Refused
      /\ \A u : DatabaseOf(u)' = DatabaseOf(u)
  BY <1>1, RowsDecide
<1>3. PICK v \in Values : value' = [value EXCEPT ![t] = v]
  OBVIOUS
<1>4. ValueTypes'
  BY <1>1, <1>3 DEF VInv, ValueTypes, settings
<1>5. SessionInv'
  BY <1>1, <1>2 DEF VInv, SessionInv
<1>6. ClientsInv'
  BY <1>1 DEF VInv, ClientsInv
<1>7. PointsAreOfTheLine'
  BY <1>1 DEF VInv, PointsAreOfTheLine, settings
<1>8. CurrentInv'
  <2> SUFFICES ASSUME NEW u \in eligible, u \notin due', u \notin missed
               PROVE  stored[DatabaseOf(u)][u] = value'[u]
    BY <1>1, <1>2 DEF CurrentInv
  <2>1. u \notin due /\ u # t
    OBVIOUS
  <2>2. stored[DatabaseOf(u)][u] = value[u]
    BY <2>1 DEF VInv, CurrentInv
  <2>3. value'[u] = value[u]
    BY <1>3, <2>1 DEF VInv, ValueTypes
  <2> QED
    BY <2>2, <2>3
<1> QED
  BY <1>4, <1>5, <1>6, <1>7, <1>8 DEF VInv

\* A session begins with everything due, and ends with nothing.
LEMMA SessionKeeps ==
    ASSUME VInv, BeginSession \/ EndSession
    PROVE  VInv'
<1>1. UNCHANGED settings /\ UNCHANGED <<value, stored, missed>>
  BY DEF BeginSession, EndSession, plant, writer
<1>2. /\ Loaded' = Loaded /\ Refused' = Refused
  BY <1>1, RowsDecide
<1>3. clients' = clients \/ clients' = [d \in Lines |-> NoLine]
  BY DEF BeginSession, EndSession, writer
<1>4. ValueTypes'
  BY <1>1, <1>3 DEF VInv, ValueTypes, settings
<1>5. SessionInv' /\ eligible' = due'
  <2>1. CASE EndSession
    BY <2>1 DEF EndSession, SessionInv
  <2>2. CASE BeginSession
    <3>1. PICK unread : /\ eligible' = Eligible(unread)
                        /\ seenDisabled' = {t \in Loaded : StateOf(t, unread) = "disabled"}
      BY <2>2 DEF BeginSession
    <3>2. eligible' = Loaded \ seenDisabled'
      BY <3>1 DEF Eligible
    <3>3. session' = "on" /\ due' = eligible' /\ ~Refused
      BY <2>2 DEF BeginSession
    <3> QED
      BY <1>2, <3>2, <3>3 DEF SessionInv
  <2> QED
    BY <2>1, <2>2
<1>6. ClientsInv'
  BY <1>3 DEF VInv, ClientsInv
<1>7. PointsAreOfTheLine'
  BY <1>1 DEF VInv, PointsAreOfTheLine, settings
<1>8. CurrentInv'
  BY <1>5 DEF CurrentInv
<1> QED
  BY <1>4, <1>5, <1>6, <1>7, <1>8 DEF VInv

\* A value is written, or is not and counts as missed.  Either way nothing else
\* is touched but the point of the tag, in the database of its line.
LEMMA WriteKeeps ==
    ASSUME VInv, NEW t \in Tags, DropValue(t) \/ WriteValue(t) \/ WriteFails(t)
    PROVE  VInv'
<1>1. UNCHANGED settings /\ UNCHANGED <<value, session, eligible, seenDisabled>>
  BY DEF DropValue, WriteValue, WriteFails, plant
<1>2. /\ Loaded' = Loaded /\ Refused' = Refused
      /\ \A u : DatabaseOf(u)' = DatabaseOf(u)
  BY <1>1, RowsDecide
<1>3. t \in due /\ due' = due \ {t}
  BY DEF DropValue, WriteValue, WriteFails, Writable
<1>4. /\ DatabaseOf(t) \in Lines /\ ClientOf(t) = DatabaseOf(t)
      /\ scope # NoLine => /\ DatabaseOf(t) = scope
                           /\ registry[t].node[1] \in ChannelsOf[scope]
  BY <1>3, DueTag
<1>5. \/ clients' = clients
      \/ clients' = [clients EXCEPT ![DatabaseOf(t)] = DatabaseOf(t)]
  BY <1>4 DEF DropValue, WriteValue, WriteFails
<1>6. \/ stored' = stored
      \/ stored' = [stored EXCEPT ![DatabaseOf(t)][t] = value[t]]
  BY <1>4 DEF DropValue, WriteValue, WriteFails
<1>7. \/ missed' = missed \cup {t}
      \/ /\ missed' = missed \ {t}
         /\ stored' = [stored EXCEPT ![DatabaseOf(t)][t] = value[t]]
  BY <1>4 DEF DropValue, WriteValue, WriteFails
<1>8. \A u \in Tags, d \in Lines : u # t \/ d # DatabaseOf(t) => stored'[d][u] = stored[d][u]
  BY <1>4, <1>6 DEF VInv, ValueTypes
<1>9. ValueTypes'
  <2>1. value[t] \in Values
    BY DEF VInv, ValueTypes
  <2>2. stored' \in [Lines -> [Tags -> Values \cup {NoValue}]]
    BY <1>4, <1>6, <2>1 DEF VInv, ValueTypes
  <2>3. clients' \in [Lines -> Lines \cup {NoLine}]
    BY <1>4, <1>5 DEF VInv, ValueTypes
  <2> QED
    BY <1>1, <2>2, <2>3 DEF VInv, ValueTypes, settings
<1>10. SessionInv'
  BY <1>1, <1>2, <1>3 DEF VInv, SessionInv
<1>11. ClientsInv'
  BY <1>4, <1>5 DEF VInv, ClientsInv, ValueTypes
<1>12. PointsAreOfTheLine'
  <2> SUFFICES ASSUME NEW d \in Lines, NEW u \in Tags, stored'[d][u] # NoValue
               PROVE  /\ d = registry[u].line
                      /\ scope # NoLine =>
                           d = scope /\ registry[u].node[1] \in ChannelsOf[scope]
    BY <1>1 DEF PointsAreOfTheLine, settings
  <2>1. CASE u = t /\ d = DatabaseOf(t)
    BY <1>4, <2>1 DEF DatabaseOf
  <2>2. CASE ~(u = t /\ d = DatabaseOf(t))
    BY <1>8, <2>2 DEF VInv, PointsAreOfTheLine
  <2> QED
    BY <2>1, <2>2
<1>13. CurrentInv'
  <2> SUFFICES ASSUME NEW u \in eligible, u \notin due', u \notin missed'
               PROVE  stored'[DatabaseOf(u)][u] = value[u]
    BY <1>1, <1>2 DEF CurrentInv
  <2>1. CASE u = t
    BY <1>4, <1>7, <2>1 DEF VInv, ValueTypes
  <2>2. CASE u # t
    <3>1. u \notin due /\ u \notin missed
      BY <1>3, <1>7, <2>2
    <3>2. stored[DatabaseOf(u)][u] = value[u]
      BY <3>1 DEF VInv, CurrentInv
    <3>3. session = "on" /\ ~Refused /\ u \in Loaded
      BY <1>3 DEF VInv, SessionInv
    <3>4. u \in Tags /\ DatabaseOf(u) \in Lines
      BY <3>3, LoadedTag DEF VInv
    <3> QED
      BY <1>8, <2>2, <3>2, <3>4
  <2> QED
    BY <2>1, <2>2
<1> QED
  BY <1>9, <1>10, <1>11, <1>12, <1>13 DEF VInv

\* A device that is switched, and a database that has cooled down, are in no part
\* of the invariant.
LEMMA OthersKeep ==
    ASSUME VInv, UNCHANGED <<settings, value, session, eligible, seenDisabled, due,
                             clients, stored, missed>>
    PROVE  VInv'
<1>1. /\ Loaded' = Loaded /\ Refused' = Refused
      /\ \A u : DatabaseOf(u)' = DatabaseOf(u)
  BY RowsDecide
<1> QED
  BY <1>1 DEF VInv, ValueTypes, SessionInv, ClientsInv, PointsAreOfTheLine, CurrentInv, settings

LEMMA StepHolds == VInv /\ [ValuesNext]_valueVars => VInv'
<1> SUFFICES ASSUME VInv, [ValuesNext]_valueVars PROVE VInv'
  OBVIOUS
<1>1. ASSUME NEW t \in Tags, ChangeValue(t) PROVE VInv'
  BY <1>1, ChangeKeeps
<1>2. ASSUME NEW t \in Tags, DropValue(t) \/ WriteValue(t) \/ WriteFails(t) PROVE VInv'
  BY <1>2, WriteKeeps
<1>3. ASSUME NEW k \in DeviceKeys, SwitchDevice(k) PROVE VInv'
  BY <1>3, OthersKeep DEF SwitchDevice, writer
<1>4. CASE BeginSession \/ EndSession
  BY <1>4, SessionKeeps
<1>5. ASSUME NEW d \in Lines, CooldownEnds(d) PROVE VInv'
  BY <1>5, OthersKeep DEF CooldownEnds, plant
<1>6. CASE UNCHANGED valueVars
  BY <1>6, OthersKeep DEF valueVars, plant, writer
<1> QED
  BY <1>1, <1>2, <1>3, <1>4, <1>5, <1>6 DEF ValuesNext

THEOREM ValuesInvariant == ValuesSpec => []VInv
<1> QED
  BY InitHolds, StepHolds, PTL DEF ValuesSpec

\* For any lines and rows: no value is stored in the database of another line, and
\* a worker with a scope stores none that another line's channels showed.
THEOREM PointsStayInTheLine == ValuesSpec => []PointsAreOfTheLine
<1>1. VInv => PointsAreOfTheLine
  BY DEF VInv
<1> QED
  BY <1>1, ValuesInvariant, PTL

\* Whatever was silent, failed or restarted before: when nothing is due any more,
\* every tag of the session is stored as it is, but for those whose device was
\* read as disabled and those whose last write was refused or failed.
THEOREM ValuesAreStored == ValuesSpec => []LatestValuesAreStored
<1>1. VInv => LatestValuesAreStored
  BY DEF VInv, SessionInv, CurrentInv, LatestValuesAreStored
<1> QED
  BY <1>1, ValuesInvariant, PTL
=============================================================================
