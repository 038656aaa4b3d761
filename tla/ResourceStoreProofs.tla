-------------------------- MODULE ResourceStoreProofs --------------------------
(***************************************************************************)
(* What holds of ResourceStore for any number of requests, documents,      *)
(* profiles, resources, versions, failures and crashes.                    *)
(***************************************************************************)
EXTENDS ResourceStore, TLAPS

-----------------------------------------------------------------------------
\* The steps at which a request has a file in its place that no index names yet,
\* and those at which it has one or may have to remove one.
Placing == {"moved", "edited", "profiled"}
Busy    == Placing \cup {"failed"}

Indexes == [type : UploadTypes \cup ProfileTypes \cup {None}, name : Names \cup {None},
            versions : Seq([stamp : Stamps, sha : Contents])]
Jobs == [place : (0..MaxResources) \X (0..MaxVersions) \X (Stamps \cup {None}),
         content : Contents \cup {None}, entry : Indexes, profile : Profiles \cup {None},
         token : 0..MaxTokens, owner : LinkedTags \cup Ids \cup {None}, linked : SUBSET Ids]

StepNames == {"idle", "moved", "edited", "profiled", "linking", "failed"}
MadeBy    == [by : {"nobody", "upload", "supplier", "part"}, token : 0..MaxTokens]

\* The types, in parts for the steps that touch only some of them.
IndexTypes   == index \in [Ids -> Indexes] /\ \A r \in Ids : Active(r) <= MaxVersions
DiskTypes    == /\ files \in [Places -> Contents \cup {None}]
                /\ profile \in [Ids -> Profiles \cup {None}]
                /\ links \in [LinkedTags \cup Ids -> SUBSET Ids]
RequestTypes == /\ lock \in Requests \cup {None} /\ step \in [Requests -> StepNames]
                /\ job \in [Requests -> Jobs]
HistoryTypes == made \in [Ids -> MadeBy] /\ interrupted \subseteq Ids
CountTypes   == /\ last \in 0..MaxResources /\ tokens \in 0..MaxTokens
                /\ diskFaults \in 0..MaxDiskFaults
                /\ \A d \in decisions : d.token \in 1..tokens /\ d.candidates \in SUBSET Ids

ResourceTypes == IndexTypes /\ DiskTypes /\ RequestTypes /\ HistoryTypes /\ CountTypes

\* Whoever has a file in place, or links in memory, holds the lock.
WriterHoldsLock == \A t \in Requests : step[t] \in Placing \cup {"linking"} => lock = t

\* Ids are given out in order; a resource is seen, and has a profile, only once
\* it is indexed, and until then one request at most works on it.
IdsInv ==
    /\ \A r \in Existing : r <= last
    /\ \A r \in Ids : profile[r] # None => Exists(r)
    /\ \A t \in Requests : step[t] \in Busy => job[t].place \in Places /\ job[t].place[1] <= last
    /\ \A t, u \in Requests :
         t # u /\ step[t] \in Busy /\ step[u] \in Busy /\ job[t].place[1] = job[u].place[1]
           => Exists(job[t].place[1])

\* The index about to be written adds the version of the file in place.
EntryInv ==
    \A t \in Requests : step[t] \in Placing =>
      LET r == job[t].place[1] IN
        /\ job[t].content \in Contents
        /\ job[t].place[2] = Active(r) + 1
        /\ job[t].entry.versions = Append(index[r].versions, Item(job[t].place[3], job[t].content))

\* A file in place stays what it was, but for a name to which an earlier move
\* failed, whose clean-up may have taken it.
InPlace(f, c) == files[f] = c \/ (files[f] = None /\ f \in unmoved)

\* A file still to be removed is nobody's, but for such names.
NotIndexed(f) == \A v \in 1..Active(f[1]) : f # <<f[1], v, index[f[1]].versions[v].stamp>>

FilesInv ==
    /\ \A t \in Requests : step[t] \in Placing => InPlace(job[t].place, job[t].content)
    /\ \A t \in Requests : step[t] = "failed" =>
         \/ job[t].place \in unmoved
         \/ files[job[t].place] # None /\ NotIndexed(job[t].place)
    /\ \A t, u \in Requests :
         t # u /\ step[t] \in Busy /\ step[u] \in Busy =>
           job[t].place # job[u].place \/ job[t].place \in unmoved

\* What is indexed, or about to be, is an upload that was not there yet or the
\* rendering of a profile for its very place.
ContentInv ==
    /\ \A r \in Existing : \A v \in 1..Active(r) :
         LET c == index[r].versions[v].sha IN
         (\E d \in Docs : c = Uploaded(d)) \/ (c.id = r /\ c.version = v)
    /\ \A t \in Requests :
         /\ step[t] = "moved" =>
              /\ \E d \in Docs : job[t].content = Uploaded(d)
              /\ ~Duplicate(job[t].content)
         /\ step[t] \in {"edited", "profiled"} =>
              job[t].content = Rendered(job[t].profile, job[t].place[1], job[t].place[2])

\* No two uploads of one type and name without a confirmation, also with the one
\* that is about to be indexed; an edit renames profiles only.
NameInv ==
    /\ \A r \in Ids : made[r].by = "upload" => Exists(r) /\ profile[r] = None
    /\ \A t \in Requests :
         LET j == job[t] IN
         /\ step[t] = "moved" /\ Exists(j.place[1]) =>
              j.entry.type = index[j.place[1]].type /\ j.entry.name = index[j.place[1]].name
         /\ step[t] = "moved" /\ ~Exists(j.place[1]) /\ j.token = 0 =>
              \A q \in Existing : made[q].by = "upload" =>
                ~(index[q].type = j.entry.type /\ index[q].name = j.entry.name)
         /\ step[t] \in {"edited", "profiled"} => profile[j.place[1]] # None /\ j.profile # None

\* The version of a resource that was rendered last.
RenderedAt(r, v) ==
    /\ v \in 1..Active(r) /\ index[r].versions[v].sha.id = r
    /\ \A w \in 1..Active(r) : index[r].versions[w].sha.id = r => w <= v

RenderInv ==
    /\ \A r \in Existing : profile[r] # None => \E v \in 1..Active(r) : RenderedAt(r, v)
    /\ \A t \in Requests : step[t] = "profiled" => profile[job[t].place[1]] = job[t].profile

\* A links file about to be written differs from the present one by one link.
LinkInv ==
    \A t \in Requests : step[t] = "linking" =>
      /\ job[t].owner \in LinkedTags \cup Ids
      /\ \E r \in Ids : job[t].linked \in {links[job[t].owner] \cup {r}, links[job[t].owner] \ {r}}

\* The inductive invariant.
RInv ==
    /\ ResourceTypes /\ WriterHoldsLock /\ IdsInv /\ EntryInv
    /\ ContentInv /\ NameInv /\ RenderInv /\ LinkInv

-----------------------------------------------------------------------------
(* Jobs and items.                                                         *)

LEMMA NoJobIsAJob == NoJob \in Jobs /\ NoIndex \in Indexes /\ NoIndex.versions = <<>>
BY ResourceConstants DEF NoJob, NoIndex, Index, Jobs, Indexes

\* What is uploaded and what is rendered are contents.
LEMMA ContentTypes ==
    /\ \A d \in Docs : Uploaded(d) \in Contents /\ Uploaded(d).id = 0
    /\ \A p \in Profiles, r \in Ids, v \in Versions :
         /\ Rendered(p, r, v) \in Contents
         /\ Rendered(p, r, v).id = r /\ Rendered(p, r, v).version = v /\ Rendered(p, r, v).text = p
BY ResourceConstants DEF Uploaded, Rendered, Contents, Ids, Versions

\* A version more at the end of the versions of a resource.
LEMMA VersionAppended ==
  ASSUME NEW vs \in Seq([stamp : Stamps, sha : Contents]), NEW s \in Stamps, NEW c \in Contents
  PROVE  LET ws == Append(vs, Item(s, c)) IN
         /\ ws \in Seq([stamp : Stamps, sha : Contents]) /\ ws # <<>>
         /\ Len(vs) \in Nat /\ Len(ws) = Len(vs) + 1
         /\ \A v \in 1..Len(vs) : ws[v] = vs[v]
         /\ ws[Len(vs) + 1].stamp = s /\ ws[Len(vs) + 1].sha = c
         /\ Append(<<>>, Item(s, c)) = <<Item(s, c)>>
<1>1. Item(s, c) \in [stamp : Stamps, sha : Contents] /\ Item(s, c).stamp = s /\ Item(s, c).sha = c
  BY DEF Item
<1> DEFINE i == Item(s, c)
<1> HIDE DEF i
<1>2. /\ Append(vs, i) \in Seq([stamp : Stamps, sha : Contents])
      /\ Len(vs) \in Nat /\ Len(Append(vs, i)) = Len(vs) + 1
      /\ \A v \in 1..Len(vs) : Append(vs, i)[v] = vs[v]
      /\ Append(vs, i)[Len(vs) + 1] = i
      /\ Append(<<>>, i) = <<i>>
  BY <1>1 DEF i
<1>3. Append(vs, i) # <<>>
  BY <1>1, <1>2 DEF i
<1> QED
  BY <1>1, <1>2, <1>3 DEF i

\* At first there is no resource and no request.
LEMMA ResourceInitInv == ResourceInit => RInv /\ FilesInv /\ IndexedFilesExist
<1> SUFFICES ASSUME ResourceInit PROVE RInv /\ FilesInv /\ IndexedFilesExist
  OBVIOUS
<1> USE ResourceConstants, NoJobIsAJob DEF ResourceInit
<1>1. \A r \in Ids : index[r].versions = <<>> /\ Active(r) = 0 /\ ~Exists(r)
  BY DEF Active, Exists
<1>2. ResourceTypes
  <2>1. index \in [Ids -> Indexes] /\ job \in [Requests -> Jobs]
    OBVIOUS
  <2>2. /\ files \in [Places -> Contents \cup {None}]
        /\ profile \in [Ids -> Profiles \cup {None}]
        /\ links \in [LinkedTags \cup Ids -> SUBSET Ids]
        /\ made \in [Ids -> [by : {"nobody", "upload", "supplier", "part"}, token : 0..MaxTokens]]
    OBVIOUS
  <2>3. /\ last \in 0..MaxResources /\ tokens \in 0..MaxTokens /\ diskFaults \in 0..MaxDiskFaults
        /\ lock \in Requests \cup {None} /\ interrupted \subseteq Ids /\ decisions = {}
        /\ step \in [Requests -> {"idle", "moved", "edited", "profiled", "linking", "failed"}]
    OBVIOUS
  <2>4. \A r \in Ids : Active(r) <= MaxVersions
    BY <1>1
  <2> HIDE DEF ResourceInit
  <2> QED
    BY <2>1, <2>2, <2>3, <2>4
       DEF ResourceTypes, IndexTypes, DiskTypes, RequestTypes, HistoryTypes, CountTypes,
           StepNames, MadeBy
<1>3. Existing = {} /\ (\A t \in Requests : step[t] = "idle") /\ \A r \in Ids : profile[r] = None
  BY <1>1 DEF Existing
<1>4. WriterHoldsLock /\ EntryInv /\ FilesInv /\ RenderInv /\ LinkInv /\ IndexedFilesExist
  BY <1>3 DEF IndexedFilesExist, WriterHoldsLock, EntryInv, FilesInv, RenderInv, LinkInv, Placing, Busy
<1>5. IdsInv /\ ContentInv
  BY <1>3 DEF IdsInv, ContentInv, Placing, Busy
<1>6. NameInv
  BY <1>3 DEF NameInv
<1> QED
  BY <1>2, <1>4, <1>5, <1>6 DEF RInv

-----------------------------------------------------------------------------
(* Types.                                                                  *)

LEMMA TypesAreOK == ResourceTypes => ResourceTypeOK
BY DEF ResourceTypes, IndexTypes, DiskTypes, RequestTypes, CountTypes, ResourceTypeOK, Indexes,
       StepNames

\* A request enters or leaves the lock, or fails.
LEMMA RequestTypesStep ==
  ASSUME RequestTypes, NEW t \in Requests, NEW j \in Jobs, NEW at \in StepNames
  PROVE  /\ Enter(t, at, j) => RequestTypes'
         /\ Leave(t) => RequestTypes'
         /\ lock' \in {lock, None} /\ step' = [step EXCEPT ![t] = at]
              /\ job' \in {job, [job EXCEPT ![t] = j], [job EXCEPT ![t] = NoJob]}
              => RequestTypes'
BY NoJobIsAJob DEF RequestTypes, Enter, Leave, StepNames

\* A decision asked for: the candidates are resources.
LEMMA AskTypes ==
  ASSUME ResourceTypes, NEW by, NEW t, NEW n, NEW d, NEW alike \in SUBSET Ids, Ask(by, t, n, d, alike)
  PROVE  ResourceTypes'
<1>1. CountTypes'
  BY ResourceConstants DEF Ask, Decision, ResourceTypes, CountTypes
<1>2. UNCHANGED <<index, files, profile, links, lock, step, job, made, interrupted>>
  BY DEF Ask, places, history
<1> QED
  BY <1>1, <1>2 DEF ResourceTypes, IndexTypes, DiskTypes, RequestTypes, HistoryTypes, Active

\* A job about the file of a version, and the entry that will name it.
FileJob(j, r, v, s, c, e) ==
    /\ j \in Jobs /\ j.place \in Places
    /\ j.place = <<r, v, s>> /\ j.place[1] = r /\ j.place[2] = v /\ j.place[3] = s
    /\ j.content = c /\ j.entry = e

\* The jobs of an upload, of a new version, and of the edit of a profile.
UploadJob(f, c, k, e) == [NoJob EXCEPT !.place = f, !.content = c, !.token = k, !.entry = e]
VersionJob(f, c, e)   == [NoJob EXCEPT !.place = f, !.content = c, !.entry = e]
EditJob(f, c, p, e)   == [NoJob EXCEPT !.place = f, !.content = c, !.profile = p, !.entry = e]

LEMMA FileJobs ==
  ASSUME NEW r \in Ids, NEW v \in Versions, NEW s \in Stamps, NEW c \in Contents, NEW e \in Indexes
  PROVE  /\ \A k \in 0..MaxTokens : LET j == UploadJob(<<r, v, s>>, c, k, e) IN
              FileJob(j, r, v, s, c, e) /\ j.token = k
         /\ FileJob(VersionJob(<<r, v, s>>, c, e), r, v, s, c, e)
         /\ \A p \in Profiles : LET j == EditJob(<<r, v, s>>, c, p, e) IN
              FileJob(j, r, v, s, c, e) /\ j.profile = p
<1> DEFINE f == <<r, v, s>>
<1>1. /\ f \in Places /\ f \in (0..MaxResources) \X (0..MaxVersions) \X (Stamps \cup {None})
      /\ f[1] = r /\ f[2] = v /\ f[3] = s
  BY ResourceConstants DEF Places, Ids, Versions
<1> HIDE DEF f
<1>2. \A j : j \in Jobs /\ j.place = f /\ j.content = c /\ j.entry = e => FileJob(j, r, v, s, c, e)
  BY <1>1 DEF FileJob, f
<1>3. ASSUME NEW k \in 0..MaxTokens
      PROVE  FileJob(UploadJob(f, c, k, e), r, v, s, c, e) /\ UploadJob(f, c, k, e).token = k
  <2>1. LET j == UploadJob(f, c, k, e) IN
          j.place = f /\ j.content = c /\ j.entry = e /\ j.token = k
    BY DEF NoJob, UploadJob
  <2>2. UploadJob(f, c, k, e) \in Jobs
    BY <1>1, NoJobIsAJob DEF Jobs, UploadJob
  <2> QED
    BY <1>2, <2>1, <2>2
<1>4. FileJob(VersionJob(f, c, e), r, v, s, c, e)
  <2>1. LET j == VersionJob(f, c, e) IN j.place = f /\ j.content = c /\ j.entry = e
    BY DEF NoJob, VersionJob
  <2>2. VersionJob(f, c, e) \in Jobs
    BY <1>1, NoJobIsAJob DEF Jobs, VersionJob
  <2> QED
    BY <1>2, <2>1, <2>2
<1>5. ASSUME NEW p \in Profiles
      PROVE  FileJob(EditJob(f, c, p, e), r, v, s, c, e) /\ EditJob(f, c, p, e).profile = p
  <2>1. LET j == EditJob(f, c, p, e) IN
          j.place = f /\ j.content = c /\ j.entry = e /\ j.profile = p
    BY DEF NoJob, EditJob
  <2>2. EditJob(f, c, p, e) \in Jobs
    BY <1>1, NoJobIsAJob DEF Jobs, EditJob
  <2> QED
    BY <1>2, <2>1, <2>2
<1> QED
  BY <1>3, <1>4, <1>5 DEF f

-----------------------------------------------------------------------------
(* What the steps do, for the invariants: a request starts with a file put *)
(* in place or gives up at once, a resource is published, or what an       *)
(* action says.                                                            *)

\* The place of a new file: free, in a resource that exists or in the next one.
NewPlace(j) ==
    LET r == j.place[1] IN
    /\ j \in Jobs /\ j.place \in Places /\ files[j.place] = None
    /\ j.place[2] = Active(r) + 1
    /\ (r = last + 1 /\ last' = last + 1) \/ (Exists(r) /\ last' = last)

\* What will be written to the index.
NewEntry(j) ==
    /\ j.content \in Contents
    /\ j.entry.versions = Append(index[j.place[1]].versions, Item(j.place[3], j.content))

Uploading(j) ==
    LET r == j.place[1] IN
    /\ \E d \in Docs : j.content = Uploaded(d)
    /\ ~Duplicate(j.content)
    /\ Exists(r) => j.entry.type = index[r].type /\ j.entry.name = index[r].name
    /\ ~Exists(r) /\ j.token = 0 => SimilarUploads(j.entry.type, j.entry.name) = {}

Editing(j) ==
    /\ j.content = Rendered(j.profile, j.place[1], j.place[2])
    /\ profile[j.place[1]] # None /\ j.profile # None

Starts(t, at, j) ==
    /\ Ready(t) /\ Enter(t, at, j)
    /\ files' = [files EXCEPT ![j.place] = j.content]
    /\ UNCHANGED <<index, profile, links, history>>

GivesUp(t, j) ==
    /\ Ready(t)
    /\ step' = [step EXCEPT ![t] = "failed"]
    /\ job' = [job EXCEPT ![t] = j]
    /\ unmoved' = unmoved \cup {j.place}
    /\ UNCHANGED <<places, made, interrupted, lock>>

\* A resource that exists not yet has no versions.
LEMMA NextIsNew == RInv => \A r \in Ids : r > last => ~Exists(r) /\ Active(r) = 0 /\ profile[r] = None
<1> SUFFICES ASSUME RInv, NEW r \in Ids, r > last PROVE ~Exists(r) /\ Active(r) = 0 /\ profile[r] = None
  OBVIOUS
<1>1. ~Exists(r)
  BY ResourceConstants DEF RInv, IdsInv, Existing, Ids, ResourceTypes, CountTypes
<1>2. Active(r) = 0
  BY <1>1 DEF Exists, Active
<1> QED
  BY <1>1, <1>2 DEF RInv, IdsInv

LEMMA UploadNewStarts ==
  ASSUME RInv, NEW t \in Requests, NEW type \in UploadTypes, NEW n \in Names, NEW d \in Docs,
         NEW k \in 0..MaxTokens, UploadNew(t, type, n, d, k)
  PROVE  \E j : /\ NewPlace(j) /\ NewEntry(j) /\ Uploading(j) /\ j.place[1] = last + 1
                /\ Starts(t, "moved", j) \/ GivesUp(t, j)
<1> DEFINE r == last + 1
           c == Uploaded(d)
<1>1. PICK s \in FreshStamps(r, 1) :
        Move(t, [NoJob EXCEPT !.place = <<r, 1, s>>, !.content = c, !.token = k,
                              !.entry = Index(type, n, <<Item(s, c)>>)])
  BY DEF UploadNew
<1> DEFINE e == Index(type, n, <<Item(s, c)>>)
           j == UploadJob(<<r, 1, s>>, c, k, e)
<1>2. r \in Ids /\ last' = r /\ Ready(t) /\ ~Duplicate(c)
  BY ResourceConstants DEF UploadNew, RInv, ResourceTypes, CountTypes, Ids
<1>3. ~Exists(r) /\ Active(r) = 0 /\ index[r].versions = <<>> /\ 1 \in Versions
  BY <1>2, NextIsNew, ResourceConstants DEF RInv, ResourceTypes, CountTypes, Versions, Exists
<1>4. s \in Stamps /\ files[<<r, 1, s>>] = None /\ c \in Contents
  BY ContentTypes DEF FreshStamps
<1>5. e.versions = Append(index[r].versions, Item(s, c)) /\ e.type = type /\ e.name = n /\ e \in Indexes
  BY <1>2, <1>3, <1>4, VersionAppended DEF Index, Indexes, RInv, ResourceTypes, IndexTypes
<1>6. Move(t, j)
  BY <1>1 DEF UploadJob
<1> HIDE DEF r, c, e
<1>7. FileJob(j, r, 1, s, c, e) /\ j.token = k
  <2>1. r \in Ids /\ 1 \in Versions /\ s \in Stamps /\ c \in Contents /\ e \in Indexes
    BY <1>2, <1>3, <1>4, <1>5
  <2> QED
    BY <2>1, FileJobs
<1> HIDE DEF j
<1>8. /\ j \in Jobs /\ j.place \in Places /\ j.place = <<r, 1, s>> /\ j.place[1] = r
      /\ j.place[2] = 1 /\ j.place[3] = s /\ j.content = c /\ j.entry = e /\ j.token = k
  BY <1>7 DEF FileJob
<1>9. NewPlace(j)
  BY <1>2, <1>3, <1>4, <1>8 DEF NewPlace, r
<1>10. NewEntry(j)
  BY <1>4, <1>5, <1>8 DEF NewEntry
<1>11. Uploading(j)
  <2>1. k = 0 => SimilarUploads(type, n) = {}
    BY DEF UploadNew, Confirmed, Decision, RInv, ResourceTypes, CountTypes
  <2> QED
    BY <1>2, <1>3, <1>5, <1>8, <2>1 DEF Uploading, c
<1>12. Starts(t, "moved", j) \/ GivesUp(t, j)
  BY <1>2, <1>6 DEF Move, Starts, GivesUp, UploadNew, places, history
<1> QED
  BY <1>8, <1>9, <1>10, <1>11, <1>12 DEF r

LEMMA UploadVersionStarts ==
  ASSUME RInv, NEW t \in Requests, NEW r \in Ids, NEW d \in Docs, UploadVersion(t, r, d)
  PROVE  \E j : /\ NewPlace(j) /\ NewEntry(j) /\ Uploading(j)
                /\ Starts(t, "moved", j) \/ GivesUp(t, j)
<1> DEFINE v == Active(r) + 1
           c == Uploaded(d)
<1>1. PICK s \in FreshStamps(r, v) :
        Move(t, [NoJob EXCEPT !.place = <<r, v, s>>, !.content = c,
                              !.entry = [index[r] EXCEPT !.versions = Append(@, Item(s, c))]])
  BY DEF UploadVersion
<1> DEFINE e == [index[r] EXCEPT !.versions = Append(@, Item(s, c))]
           j == VersionJob(<<r, v, s>>, c, e)
<1>2. Ready(t) /\ Exists(r) /\ ~Duplicate(c) /\ last' = last /\ index[r] \in Indexes
  BY DEF UploadVersion, RInv, ResourceTypes, IndexTypes
<1>3. v \in Versions /\ index[r].versions \in Seq([stamp : Stamps, sha : Contents])
  <2>1. index[r].versions \in Seq([stamp : Stamps, sha : Contents])
    BY <1>2 DEF Indexes
  <2>2. Active(r) \in Nat
    BY <2>1 DEF Active
  <2>3. Active(r) < MaxVersions
    BY DEF UploadVersion
  <2> QED
    BY <2>1, <2>2, <2>3, ResourceConstants DEF Versions
<1>4. s \in Stamps /\ files[<<r, v, s>>] = None /\ c \in Contents
  BY ContentTypes DEF FreshStamps
<1>5. /\ e.versions = Append(index[r].versions, Item(s, c)) /\ e \in Indexes
      /\ e.type = index[r].type /\ e.name = index[r].name
  BY <1>2, <1>3, <1>4, VersionAppended DEF Indexes
<1>6. Move(t, j)
  BY <1>1 DEF VersionJob
<1> HIDE DEF v, c, e
<1>7. FileJob(j, r, v, s, c, e)
  BY <1>3, <1>4, <1>5, FileJobs
<1> HIDE DEF j
<1>8. /\ j \in Jobs /\ j.place \in Places /\ j.place = <<r, v, s>> /\ j.place[1] = r
      /\ j.place[2] = v /\ j.place[3] = s /\ j.content = c /\ j.entry = e
  BY <1>7 DEF FileJob
<1>9. NewPlace(j)
  BY <1>2, <1>4, <1>8 DEF NewPlace, v
<1>10. NewEntry(j)
  BY <1>4, <1>5, <1>8 DEF NewEntry
<1>11. Uploading(j)
  BY <1>2, <1>5, <1>8 DEF Uploading, c
<1>12. Starts(t, "moved", j) \/ GivesUp(t, j)
  BY <1>2, <1>6 DEF Move, Starts, GivesUp, UploadVersion, places, history
<1> QED
  BY <1>9, <1>10, <1>11, <1>12

LEMMA EditStarts ==
  ASSUME RInv, NEW t \in Requests, NEW r \in Ids, NEW p \in Profiles, EditWritesVersion(t, r, p)
  PROVE  \E j : NewPlace(j) /\ NewEntry(j) /\ Editing(j) /\ Starts(t, "edited", j)
<1> DEFINE v == Active(r) + 1
           c == Rendered(p, r, v)
<1>1. PICK s \in FreshStamps(r, v) :
        /\ files' = [files EXCEPT ![<<r, v, s>>] = c]
        /\ Enter(t, "edited",
                 [NoJob EXCEPT !.place = <<r, v, s>>, !.content = c, !.profile = p,
                               !.entry = Index(index[r].type, NameOf[p],
                                               Append(index[r].versions, Item(s, c)))])
  BY DEF EditWritesVersion
<1> DEFINE e == Index(index[r].type, NameOf[p], Append(index[r].versions, Item(s, c)))
           j == EditJob(<<r, v, s>>, c, p, e)
<1>2. Ready(t) /\ last' = last /\ index[r] \in Indexes /\ profile[r] # None /\ Exists(r) /\ p # None
  BY ResourceConstants DEF EditWritesVersion, RInv, ResourceTypes, IndexTypes, IdsInv
<1>3. v \in Versions /\ index[r].versions \in Seq([stamp : Stamps, sha : Contents])
  <2>1. index[r].versions \in Seq([stamp : Stamps, sha : Contents])
    BY <1>2 DEF Indexes
  <2>2. Active(r) \in Nat
    BY <2>1 DEF Active
  <2>3. Active(r) < MaxVersions
    BY DEF EditWritesVersion
  <2> QED
    BY <2>1, <2>2, <2>3, ResourceConstants DEF Versions
<1>4. s \in Stamps /\ files[<<r, v, s>>] = None /\ c \in Contents
  BY <1>3, ContentTypes DEF FreshStamps
<1>5. e.versions = Append(index[r].versions, Item(s, c)) /\ e \in Indexes
  BY <1>2, <1>3, <1>4, VersionAppended, ResourceConstants DEF Indexes, Index
<1>6. files' = [files EXCEPT ![<<r, v, s>>] = c] /\ Enter(t, "edited", j)
  BY <1>1 DEF EditJob
<1> HIDE DEF v, c, e
<1>7. FileJob(j, r, v, s, c, e) /\ j.profile = p
  BY <1>3, <1>4, <1>5, FileJobs
<1> HIDE DEF j
<1>8. /\ j \in Jobs /\ j.place \in Places /\ j.place = <<r, v, s>> /\ j.place[1] = r
      /\ j.place[2] = v /\ j.place[3] = s /\ j.content = c /\ j.entry = e
  BY <1>7 DEF FileJob
<1>9. NewPlace(j)
  BY <1>2, <1>4, <1>8 DEF NewPlace, v
<1>10. NewEntry(j)
  BY <1>4, <1>5, <1>8 DEF NewEntry
<1>11. Editing(j)
  BY <1>2, <1>7, <1>8 DEF Editing, c
<1>12. Starts(t, "edited", j)
  BY <1>2, <1>6, <1>8 DEF Starts, EditWritesVersion, history
<1> QED
  BY <1>9, <1>10, <1>11, <1>12

\* A resource that is published, with its first version and its profile, is the
\* next one.
Publishes(r, p, s, type, by) ==
    /\ r = last + 1 /\ r \in Ids /\ last' = r /\ p \in Profiles /\ s \in Stamps /\ by # "upload"
    /\ files[<<r, 1, s>>] = None
    /\ files' = [files EXCEPT ![<<r, 1, s>>] = Rendered(p, r, 1)]
    /\ index' = [index EXCEPT ![r] = Index(type, NameOf[p], <<Item(s, Rendered(p, r, 1))>>)]
    /\ profile' = [profile EXCEPT ![r] = p]
    /\ made'[r].by # "upload" /\ \A q \in Ids \ {r} : made'[q] = made[q]
    /\ UNCHANGED <<links, lock, step, job, interrupted, unmoved>>

LEMMA CreationPublishes ==
  ASSUME RInv, NEW t \in Requests, NEW p \in Profiles,
         \/ CreateSupplier(t, p)
         \/ \E k \in 0..MaxTokens : CreatePart(t, p, k)
  PROVE  \E r, s : \E type \in ProfileTypes, by \in {"supplier", "part"} : Publishes(r, p, s, type, by)
<1>1. PICK type \in ProfileTypes, by \in {"supplier", "part"}, k \in 0..MaxTokens :
        Publish(type, p, by, k)
  BY ResourceConstants DEF CreateSupplier, CreatePart, ProfileTypes
<1> DEFINE r == last + 1
<1>2. PICK s \in FreshStamps(r, 1) :
        /\ files' = [files EXCEPT ![<<r, 1, s>>] = Rendered(p, r, 1)]
        /\ index' = [index EXCEPT ![r] = Index(type, NameOf[p], <<Item(s, Rendered(p, r, 1))>>)]
  BY <1>1 DEF Publish
<1>3. r \in Ids /\ last' = r /\ s \in Stamps /\ files[<<r, 1, s>>] = None
  BY <1>1, ResourceConstants DEF Publish, RInv, ResourceTypes, CountTypes, Ids, FreshStamps
<1>4. made'[r].by # "upload" /\ \A q \in Ids \ {r} : made'[q] = made[q]
  BY <1>1, <1>3 DEF Publish, RInv, ResourceTypes, HistoryTypes
<1>5. profile' = [profile EXCEPT ![r] = p] /\ UNCHANGED <<links, lock, step, job, interrupted, unmoved>>
  BY <1>1 DEF Publish
<1> HIDE DEF r
<1>6. Publishes(r, p, s, type, by)
  BY <1>2, <1>3, <1>4, <1>5 DEF Publishes, r
<1> QED
  BY <1>6

-----------------------------------------------------------------------------
(* The types are kept.                                                     *)

\* A count that may grow by one, and an index that stays.
LEMMA UnchangedTypes ==
    /\ IndexTypes /\ UNCHANGED index => IndexTypes'
    /\ DiskTypes /\ UNCHANGED <<files, profile, links>> => DiskTypes'
    /\ RequestTypes /\ UNCHANGED <<lock, step, job>> => RequestTypes'
    /\ HistoryTypes /\ UNCHANGED <<made, interrupted>> => HistoryTypes'
    /\ CountTypes /\ UNCHANGED <<last, tokens, decisions>> /\ (\E f : Fault(f)) => CountTypes'
    /\ CountTypes /\ UNCHANGED <<last, tokens, diskFaults>> /\ decisions' \subseteq decisions
         => CountTypes'
BY ResourceConstants
   DEF IndexTypes, DiskTypes, RequestTypes, HistoryTypes, CountTypes, Active, Fault

LEMMA StartTypes ==
  ASSUME ResourceTypes, NEW t \in Requests, NEW at \in {"moved", "edited"}, NEW j,
         NewPlace(j), NewEntry(j), Starts(t, at, j) \/ GivesUp(t, j)
  PROVE  IndexTypes' /\ DiskTypes' /\ RequestTypes' /\ HistoryTypes'
<1>1. j \in Jobs /\ j.place \in Places /\ j.content \in Contents
  BY DEF NewPlace, NewEntry
<1>2. UNCHANGED <<index, profile, links, made, interrupted>>
  BY DEF Starts, GivesUp, places, history
<1>3. files' \in {files, [files EXCEPT ![j.place] = j.content]}
  BY DEF Starts, GivesUp, places
<1>4. DiskTypes'
  BY <1>1, <1>2, <1>3 DEF ResourceTypes, DiskTypes
<1>5. RequestTypes'
  BY <1>1 DEF ResourceTypes, RequestTypes, Starts, GivesUp, Enter, StepNames
<1> QED
  BY <1>2, <1>4, <1>5, UnchangedTypes DEF ResourceTypes

LEMMA PublishTypes ==
  ASSUME ResourceTypes, NEW r, NEW p, NEW s, NEW type \in ProfileTypes, NEW by,
         Publishes(r, p, s, type, by)
  PROVE  IndexTypes' /\ DiskTypes' /\ RequestTypes'
<1> DEFINE c == Rendered(p, r, 1)
<1>1. r \in Ids /\ p \in Profiles /\ s \in Stamps /\ c \in Contents /\ <<r, 1, s>> \in Places /\ 1 \in Versions
  BY ContentTypes, ResourceConstants DEF Publishes, Versions, Places
<1>2. Index(type, NameOf[p], <<Item(s, c)>>) \in Indexes
  <2> HIDE DEF c
  <2>1. Item(s, c) \in [stamp : Stamps, sha : Contents]
    BY <1>1 DEF Item
  <2>2. <<Item(s, c)>> \in Seq([stamp : Stamps, sha : Contents])
    BY <2>1
  <2> QED
    BY <1>1, <2>2, ResourceConstants DEF Index, Indexes
<1>3. /\ index' = [index EXCEPT ![r] = Index(type, NameOf[p], <<Item(s, c)>>)]
      /\ files' = [files EXCEPT ![<<r, 1, s>>] = c] /\ profile' = [profile EXCEPT ![r] = p]
      /\ UNCHANGED <<links, lock, step, job>>
  BY DEF Publishes
<1>4. \A q \in Ids : Active(q)' <= MaxVersions
  <2>1. index'[r].versions = <<Item(s, c)>> /\ \A q \in Ids \ {r} : index'[q] = index[q]
    BY <1>1, <1>3 DEF Index, ResourceTypes, IndexTypes
  <2> HIDE DEF c
  <2>2. Active(r)' = 1 /\ \A q \in Ids \ {r} : Active(q)' = Active(q)
    BY <2>1 DEF Active
  <2>3. \A q \in Ids : Active(q) <= MaxVersions
    BY DEF ResourceTypes, IndexTypes
  <2> QED
    BY <2>2, <2>3, ResourceConstants
<1> HIDE DEF c
<1>5. IndexTypes' /\ DiskTypes'
  BY <1>1, <1>2, <1>3, <1>4 DEF ResourceTypes, IndexTypes, DiskTypes
<1> QED
  BY <1>3, <1>5, UnchangedTypes DEF ResourceTypes

\* The index a request writes has one version more.
LEMMA WriteIndexTypes ==
  ASSUME RInv, NEW t \in Requests, WriteIndex(t)
  PROVE  /\ ResourceTypes' /\ job[t].place[1] \in Ids
         /\ \A r \in Ids : index'[r] = IF r = job[t].place[1] THEN job[t].entry ELSE index[r]
<1>0. PICK j, r : j = job[t] /\ r = j.place[1]
  OBVIOUS
<1>1. /\ j \in Jobs /\ r \in Ids /\ j.place[2] \in Versions /\ j.place[3] \in Stamps
      /\ j.content \in Contents /\ step[t] \in Placing /\ j.entry \in Indexes
  BY <1>0 DEF WriteIndex, RInv, ResourceTypes, RequestTypes, IdsInv, EntryInv, Placing, Busy, Places, Jobs
<1>2. index' = [index EXCEPT ![r] = j.entry] /\ Leave(t) /\ j.place[2] = Active(r) + 1
  BY <1>0, <1>1 DEF WriteIndex, RInv, EntryInv
<1>3. Len(j.entry.versions) = Active(r) + 1
  <2>1. j.entry.versions = Append(index[r].versions, Item(j.place[3], j.content))
    BY <1>0, <1>1 DEF RInv, EntryInv
  <2> QED
    BY <1>1, <2>1, VersionAppended DEF RInv, ResourceTypes, IndexTypes, Indexes, Active
<1>4. index \in [Ids -> Indexes]
  BY DEF RInv, ResourceTypes, IndexTypes
<1>5. \A q \in Ids : index'[q] = IF q = r THEN j.entry ELSE index[q]
  BY <1>1, <1>2, <1>4
<1>6. IndexTypes'
  <2>1. \A q \in Ids : Active(q)' <= MaxVersions
    <3>1. Active(r)' = Len(index'[r].versions) /\ \A q \in Ids \ {r} : Active(q)' = Active(q)
      BY <1>1, <1>5 DEF Active
    <3>2. Active(r)' \in Versions
      BY <1>1, <1>2, <1>3, <1>5, <3>1
    <3>3. \A q \in Ids : Active(q) <= MaxVersions
      BY DEF RInv, ResourceTypes, IndexTypes
    <3> QED
      BY <3>1, <3>2, <3>3, ResourceConstants DEF Versions
  <2>2. index' \in [Ids -> Indexes]
    BY <1>1, <1>2, <1>4
  <2> QED
    BY <2>1, <2>2 DEF IndexTypes
<1>7. HistoryTypes'
  <2>2. j.token \in 0..MaxTokens
    BY <1>1 DEF Jobs
  <2>3. made' \in {made, [made EXCEPT ![r] = [by |-> "upload", token |-> j.token]]}
    BY <1>0 DEF WriteIndex
  <2>4. interrupted' \in {interrupted, interrupted \ {r}}
    BY <1>0 DEF WriteIndex
  <2> QED
    BY <1>1, <2>2, <2>3, <2>4 DEF RInv, ResourceTypes, HistoryTypes, MadeBy
<1>8. RequestTypes' /\ DiskTypes' /\ CountTypes'
  <2>1. RequestTypes'
    BY <1>2, NoJobIsAJob DEF Leave, RInv, ResourceTypes, RequestTypes, StepNames
  <2>2. /\ UNCHANGED <<files, profile, links, last, tokens, diskFaults>>
        /\ decisions' \subseteq decisions
    BY DEF WriteIndex
  <2> QED
    BY <2>1, <2>2, UnchangedTypes DEF RInv, ResourceTypes
<1> QED
  BY <1>0, <1>1, <1>5, <1>6, <1>7, <1>8 DEF ResourceTypes

\* A creation counts a resource, remembers how it came to be, and uses a token.
LEMMA CreationTypes ==
  ASSUME RInv, NEW t \in Requests, NEW p \in Profiles,
         \/ CreateSupplier(t, p)
         \/ \E k \in 0..MaxTokens : CreatePart(t, p, k)
  PROVE  ResourceTypes'
<1>1. PICK type \in ProfileTypes, by \in {"supplier", "part"}, k \in 0..MaxTokens :
        Publish(type, p, by, k) /\ decisions' \subseteq decisions
  BY ResourceConstants DEF CreateSupplier, CreatePart, ProfileTypes
<1>2. PICK r, s : \E ty \in ProfileTypes, b \in {"supplier", "part"} : Publishes(r, p, s, ty, b)
  BY CreationPublishes
<1>3. IndexTypes' /\ DiskTypes' /\ RequestTypes'
  BY <1>2, PublishTypes DEF RInv
<1>4. /\ last' = last + 1 /\ last < MaxResources /\ UNCHANGED <<tokens, diskFaults, interrupted>>
      /\ made' = [made EXCEPT ![last + 1] = [by |-> by, token |-> k]]
  BY <1>1 DEF Publish
<1>5. HistoryTypes'
  BY <1>4 DEF RInv, ResourceTypes, HistoryTypes, MadeBy
<1>6. CountTypes'
  BY <1>1, <1>4, ResourceConstants DEF RInv, ResourceTypes, CountTypes
<1> QED
  BY <1>3, <1>5, <1>6 DEF ResourceTypes

\* The remaining steps of a request that has something in hand.
LEMMA RequestStepTypes ==
  ASSUME RInv, NEW t \in Requests,
         \/ UploadFails(t) \/ CleanUp(t) \/ EditWritesProfile(t) \/ EditFails(t)
         \/ WriteLinks(t) \/ LinkFails(t)
  PROVE  ResourceTypes'
<1>1. job[t] \in Jobs /\ t \in Requests
  BY DEF RInv, ResourceTypes, RequestTypes
<1>2. step[t] \in Busy => job[t].place \in Places /\ job[t].place[1] \in Ids
  BY DEF RInv, IdsInv, Places
<1>3. RequestTypes'
  BY NoJobIsAJob
     DEF RInv, ResourceTypes, RequestTypes, StepNames, UploadFails, CleanUp, EditWritesProfile,
         EditFails, WriteLinks, LinkFails, Leave
<1>4. IndexTypes'
  <2>1. UNCHANGED index
    BY DEF UploadFails, CleanUp, EditWritesProfile, EditFails, WriteLinks, LinkFails, places
  <2> QED
    BY <2>1, UnchangedTypes DEF RInv, ResourceTypes
<1>5. DiskTypes'
  <2>1. /\ UNCHANGED files \/ (step[t] \in Busy /\ files' = [files EXCEPT ![job[t].place] = None])
        /\ \/ UNCHANGED profile
           \/ step[t] \in Busy /\ profile' = [profile EXCEPT ![job[t].place[1]] = job[t].profile]
        /\ UNCHANGED links \/ links' = [links EXCEPT ![job[t].owner] = job[t].linked]
    BY DEF UploadFails, CleanUp, EditWritesProfile, EditFails, WriteLinks, LinkFails, places,
           Busy, Placing
  <2>2. job[t].profile \in Profiles \cup {None} /\ job[t].linked \in SUBSET Ids
    BY <1>1 DEF Jobs
  <2>3. files' \in [Places -> Contents \cup {None}]
    BY <1>2, <2>1 DEF RInv, ResourceTypes, DiskTypes
  <2>4. profile' \in [Ids -> Profiles \cup {None}]
    BY <1>2, <2>1, <2>2 DEF RInv, ResourceTypes, DiskTypes
  <2>5. links' \in [LinkedTags \cup Ids -> SUBSET Ids]
    BY <2>1, <2>2 DEF RInv, ResourceTypes, DiskTypes
  <2> QED
    BY <2>3, <2>4, <2>5 DEF DiskTypes
<1>6. HistoryTypes'
  <2>1. UNCHANGED made
    BY DEF UploadFails, CleanUp, EditWritesProfile, EditFails, WriteLinks, LinkFails, history
  <2>2. \/ UNCHANGED interrupted
        \/ step[t] \in Busy /\ interrupted' = interrupted \cup {job[t].place[1]}
    BY DEF UploadFails, CleanUp, EditWritesProfile, EditFails, WriteLinks, LinkFails, history,
           Busy, Placing
  <2> QED
    BY <1>2, <2>1, <2>2 DEF RInv, ResourceTypes, HistoryTypes
<1>7. CountTypes'
  <2>1. /\ UNCHANGED <<last, tokens, decisions>>
        /\ UNCHANGED diskFaults \/ \E f : Fault(f)
    BY DEF UploadFails, CleanUp, EditWritesProfile, EditFails, WriteLinks, LinkFails
  <2> QED
    BY <2>1, UnchangedTypes DEF RInv, ResourceTypes
<1> QED
  BY <1>3, <1>4, <1>5, <1>6, <1>7 DEF ResourceTypes

\* A change of links: the owner, and what it will refer to.
LEMMA ReadLinksTypes ==
  ASSUME RInv, NEW t \in Requests, NEW o \in LinkedTags \cup Ids, NEW r \in Ids, ReadLinks(t, o, r)
  PROVE  /\ ResourceTypes'
         /\ \E j \in Jobs : /\ Enter(t, "linking", j) /\ j.owner = o
                            /\ j.linked \in {links[o] \cup {r}, links[o] \ {r}}
<1> DEFINE s == IF r \in links[o] THEN links[o] \ {r} ELSE links[o] \cup {r}
           j == LinkJob(o, s)
<1>1. links[o] \in SUBSET Ids
  BY DEF RInv, ResourceTypes, DiskTypes
<1>2. s \in SUBSET Ids /\ s \in {links[o] \cup {r}, links[o] \ {r}}
  BY <1>1
<1>3. Enter(t, "linking", j)
  BY DEF ReadLinks
<1> HIDE DEF s
<1>4. j \in Jobs
  BY <1>2, NoJobIsAJob DEF LinkJob, Jobs
<1>5. j.owner = o /\ j.linked = s
  BY DEF LinkJob, NoJob
<1> HIDE DEF j
<1>6. RequestTypes'
  BY <1>3, <1>4, RequestTypesStep DEF RInv, ResourceTypes, StepNames
<1>7. UNCHANGED <<index, files, profile, links, decisions, last, tokens, made, interrupted, diskFaults>>
  BY DEF ReadLinks, places, history
<1>8. IndexTypes' /\ DiskTypes' /\ HistoryTypes' /\ CountTypes'
  BY <1>7, UnchangedTypes DEF RInv, ResourceTypes
<1> QED
  BY <1>2, <1>3, <1>4, <1>5, <1>6, <1>8 DEF ResourceTypes

\* An upload or an edit that starts.
LEMMA StartingTypes ==
  ASSUME RInv, NEW t \in Requests,
         \/ \E type \in UploadTypes, n \in Names, d \in Docs, k \in 0..MaxTokens :
              UploadNew(t, type, n, d, k)
         \/ \E r \in Ids, d \in Docs : UploadVersion(t, r, d)
         \/ \E r \in Ids, p \in Profiles : EditWritesVersion(t, r, p)
  PROVE  ResourceTypes'
<1>1. \E at \in {"moved", "edited"} : \E j : NewPlace(j) /\ NewEntry(j) /\ (Starts(t, at, j) \/ GivesUp(t, j))
  BY UploadNewStarts, UploadVersionStarts, EditStarts
<1>2. IndexTypes' /\ DiskTypes' /\ RequestTypes' /\ HistoryTypes'
  BY <1>1, StartTypes DEF RInv
<1>3. /\ UNCHANGED last \/ (last < MaxResources /\ last' = last + 1)
      /\ UNCHANGED <<tokens, decisions>>
      /\ UNCHANGED diskFaults \/ \E f : Fault(f)
  <2>1. \A i, j : Move(i, j) => UNCHANGED diskFaults \/ \E f : Fault(f)
    BY DEF Move
  <2>2. CASE \E type \in UploadTypes, n \in Names, d \in Docs, k \in 0..MaxTokens :
               UploadNew(t, type, n, d, k)
    <3>1. PICK j : Move(t, j)
      BY <2>2 DEF UploadNew
    <3>2. last < MaxResources /\ last' = last + 1 /\ UNCHANGED <<tokens, decisions>>
      BY <2>2 DEF UploadNew
    <3> QED
      BY <2>1, <3>1, <3>2
  <2>3. CASE \E r \in Ids, d \in Docs : UploadVersion(t, r, d)
    <3>1. PICK j : Move(t, j)
      BY <2>3 DEF UploadVersion
    <3>2. UNCHANGED <<last, tokens, decisions>>
      BY <2>3 DEF UploadVersion
    <3> QED
      BY <2>1, <3>1, <3>2
  <2>4. CASE \E r \in Ids, p \in Profiles : EditWritesVersion(t, r, p)
    BY <2>4 DEF EditWritesVersion
  <2> QED
    BY <2>2, <2>3, <2>4
<1>4. CountTypes'
  BY <1>3, ResourceConstants DEF RInv, ResourceTypes, CountTypes, Fault
<1> QED
  BY <1>2, <1>4 DEF ResourceTypes

\* A crash empties the requests and may leave edits half way.
LEMMA CrashTypes == RInv /\ Crash => ResourceTypes'
<1> SUFFICES ASSUME RInv, Crash PROVE ResourceTypes'
  OBVIOUS
<1>1. UNCHANGED <<index, files, profile, links, last, tokens, made>> /\ decisions' = {}
  BY DEF Crash, places
<1>2. RequestTypes'
  BY NoJobIsAJob DEF Crash, RequestTypes, StepNames
<1>3. HistoryTypes'
  <2>1. \A t \in Requests : step[t] = "profiled" => job[t].place[1] \in Ids
    BY DEF RInv, IdsInv, Busy, Placing, Places
  <2> QED
    BY <1>1, <2>1 DEF Crash, RInv, ResourceTypes, HistoryTypes
<1>4. CountTypes'
  BY <1>1, ResourceConstants DEF Crash, Fault, RInv, ResourceTypes, CountTypes
<1> QED
  BY <1>1, <1>2, <1>3, <1>4, UnchangedTypes DEF RInv, ResourceTypes

\* A token that expires, or a step of something else.
LEMMA RestTypes == RInv /\ (TokenExpires \/ UNCHANGED resourceVars) => ResourceTypes'
<1> SUFFICES ASSUME RInv, TokenExpires \/ UNCHANGED resourceVars PROVE ResourceTypes'
  OBVIOUS
<1>1. /\ UNCHANGED <<index, files, profile, links, last, tokens, made, interrupted, lock, step, job, diskFaults>>
      /\ decisions' \subseteq decisions
  BY DEF TokenExpires, resourceVars, places, history
<1> QED
  BY <1>1, UnchangedTypes DEF RInv, ResourceTypes

-----------------------------------------------------------------------------
(* The effects of the steps.                                               *)

\* The file of an edit or of a failed upload is unlinked.
Removes(t) ==
    /\ step[t] \in {"edited", "profiled", "failed"} /\ step'[t] = "idle"
    /\ files' = [files EXCEPT ![job[t].place] = None]

\* Nothing is begun: every request stays where it is, fails or has done.
Ends ==
    /\ UNCHANGED <<index, profile, last, made, unmoved>>
    /\ \A u \in Requests : step'[u] # "idle" =>
         /\ job'[u] = job[u]
         /\ step'[u] = step[u] \/ (step[u] = "moved" /\ step'[u] = "failed")
    /\ \A u \in Requests : step'[u] \in Placing \cup {"linking"} => lock' = u
    /\ \/ UNCHANGED links
       \/ \E t \in Requests : WriteLinks(t) /\ \A u \in Requests : step'[u] # "linking"
    /\ \/ UNCHANGED files
       \/ \E t \in Requests : Removes(t)
    /\ interrupted \subseteq interrupted'
    /\ \A u \in Requests :
         step[u] = "profiled" => step'[u] = "profiled" \/ job[u].place[1] \in interrupted'

\* While a request holds the lock, or takes it, no other has a file in place.
LEMMA Alone ==
  ASSUME RInv, NEW t \in Requests, lock \in {t, None}
  PROVE  \A u \in Requests \ {t} : step[u] \in {"idle", "failed"}
BY ResourceConstants
   DEF RInv, WriterHoldsLock, Placing, ResourceTypes, RequestTypes, StepNames

\* A request that leaves the lock it holds.
LEMMA LeavingEnds ==
  ASSUME RInv, NEW t \in Requests, step[t] \in Placing \cup {"linking"},
         UNCHANGED <<index, profile, last, made, unmoved>>,
         UNCHANGED links \/ WriteLinks(t), UNCHANGED files \/ Removes(t),
         interrupted \subseteq interrupted', step[t] = "profiled" => job[t].place[1] \in interrupted',
         \/ Leave(t)
         \/ step[t] = "moved" /\ step' = [step EXCEPT ![t] = "failed"] /\ UNCHANGED job
  PROVE  Ends
<1>1. lock = t
  BY DEF RInv, WriterHoldsLock
<1>2. \A u \in Requests \ {t} : step[u] \in {"idle", "failed"}
  BY <1>1, Alone
<1>3. step \in [Requests -> StepNames] /\ job \in [Requests -> Jobs]
  BY DEF RInv, ResourceTypes, RequestTypes
<1>4. \A u \in Requests \ {t} : step'[u] = step[u] /\ job'[u] = job[u]
  BY <1>3 DEF Leave
<1>5. step'[t] = "idle" \/ (step[t] = "moved" /\ step'[t] = "failed" /\ job'[t] = job[t])
  BY <1>3 DEF Leave
<1>6. \A u \in Requests : step'[u] # "linking"
  BY <1>2, <1>4, <1>5
<1> QED
  BY <1>2, <1>4, <1>5, <1>6 DEF Ends, Placing

LEMMA EndsCases ==
  ASSUME RInv,
         \/ \E t \in Requests : \/ UploadFails(t) \/ CleanUp(t) \/ EditFails(t)
                                \/ WriteLinks(t) \/ LinkFails(t)
         \/ \E by, t, n, d, alike : Ask(by, t, n, d, alike)
         \/ Crash \/ TokenExpires \/ UNCHANGED resourceVars
  PROVE  Ends
<1>1. CASE \E t \in Requests : UploadFails(t) \/ EditFails(t) \/ WriteLinks(t) \/ LinkFails(t)
  <2>1. PICK t \in Requests : UploadFails(t) \/ EditFails(t) \/ WriteLinks(t) \/ LinkFails(t)
    BY <1>1
  <2>2. step[t] \in Placing \cup {"linking"} /\ UNCHANGED <<index, profile, last, made, unmoved>>
    BY <2>1 DEF UploadFails, EditFails, WriteLinks, LinkFails, places, history, Placing
  <2>3. \/ Leave(t)
        \/ step[t] = "moved" /\ step' = [step EXCEPT ![t] = "failed"] /\ UNCHANGED job
    BY <2>1 DEF UploadFails, EditFails, WriteLinks, LinkFails
  <2>4. /\ UNCHANGED links \/ WriteLinks(t)
        /\ interrupted \subseteq interrupted'
        /\ step[t] = "profiled" => job[t].place[1] \in interrupted'
    BY <2>1 DEF UploadFails, EditFails, WriteLinks, LinkFails, places, history
  <2>5. UNCHANGED files \/ Removes(t)
    BY <2>1 DEF UploadFails, EditFails, WriteLinks, LinkFails, places, Leave, Removes,
                RInv, ResourceTypes, RequestTypes
  <2> QED
    BY <2>2, <2>3, <2>4, <2>5, LeavingEnds
<1>2. CASE \E t \in Requests : CleanUp(t)
  <2>1. PICK t \in Requests : CleanUp(t)
    BY <1>2
  <2>2. /\ UNCHANGED <<index, profile, last, made, links, lock, interrupted, unmoved>>
        /\ step[t] = "failed" /\ files' = [files EXCEPT ![job[t].place] = None]
        /\ step' = [step EXCEPT ![t] = "idle"] /\ job' = [job EXCEPT ![t] = NoJob]
    BY <2>1 DEF CleanUp, history
  <2>3. step'[t] = "idle" /\ \A u \in Requests \ {t} : step'[u] = step[u] /\ job'[u] = job[u]
    BY <2>2 DEF RInv, ResourceTypes, RequestTypes
  <2> QED
    BY <2>2, <2>3 DEF Ends, Removes, RInv, WriterHoldsLock, Placing
<1>3. CASE Crash
  BY <1>3 DEF Crash, places, Ends, Placing
<1>4. CASE \/ \E by, t, n, d, alike : Ask(by, t, n, d, alike)
           \/ TokenExpires \/ UNCHANGED resourceVars
  <2>1. UNCHANGED <<index, files, profile, last, made, interrupted, unmoved, links, lock, step, job>>
    BY <1>4 DEF Ask, TokenExpires, resourceVars, places, history
  <2> QED
    BY <2>1 DEF Ends, RInv, WriterHoldsLock
<1> QED
  BY <1>1, <1>2, <1>3, <1>4

\* Every step has one of seven effects.
Begins(t, j) ==
    /\ NewPlace(j) /\ NewEntry(j)
    /\ \/ Starts(t, "moved", j) /\ Uploading(j)
       \/ Starts(t, "edited", j) /\ Editing(j)

Effects ==
    \/ Ends
    \/ \E t \in Requests : \E j : Begins(t, j)
    \/ \E t \in Requests : \E j : NewPlace(j) /\ GivesUp(t, j)
    \/ \E r, p, s : \E type \in ProfileTypes, by \in {"supplier", "part"} : Publishes(r, p, s, type, by)
    \/ \E t \in Requests : WriteIndex(t)
    \/ \E t \in Requests : EditWritesProfile(t)
    \/ \E t \in Requests, o \in LinkedTags \cup Ids, r \in Ids : ReadLinks(t, o, r)

LEMMA StepEffects ==
  ASSUME RInv, [ResourceNext]_resourceVars
  PROVE  Effects /\ ResourceTypes'
<1>1. ASSUME NEW t \in Requests, NEW type \in UploadTypes, NEW n \in Names, NEW d \in Docs,
             ReviewUpload(t, type, n, d)
      PROVE  Effects /\ ResourceTypes'
  <2>1. SimilarUploads(type, n) \in SUBSET Ids
    BY DEF SimilarUploads, Existing
  <2> QED
    BY <1>1, <2>1, AskTypes, EndsCases DEF ReviewUpload, RInv, Effects
<1>2. ASSUME NEW t \in Requests, NEW p \in Profiles, ReviewPart(t, p)
      PROVE  Effects /\ ResourceTypes'
  <2>1. SimilarParts(p) \in SUBSET Ids
    BY DEF SimilarParts, Existing
  <2> QED
    BY <1>2, <2>1, AskTypes, EndsCases DEF ReviewPart, RInv, Effects
<1>3. ASSUME NEW t \in Requests, NEW type \in UploadTypes, NEW n \in Names, NEW d \in Docs,
             NEW k \in 0..MaxTokens, UploadNew(t, type, n, d, k)
      PROVE  Effects /\ ResourceTypes'
  BY <1>3, StartingTypes, UploadNewStarts DEF Effects, Begins
<1>4. ASSUME NEW t \in Requests, NEW r \in Ids, NEW d \in Docs, UploadVersion(t, r, d)
      PROVE  Effects /\ ResourceTypes'
  BY <1>4, StartingTypes, UploadVersionStarts DEF Effects, Begins
<1>5. ASSUME NEW t \in Requests, NEW r \in Ids, NEW p \in Profiles, EditWritesVersion(t, r, p)
      PROVE  Effects /\ ResourceTypes'
  BY <1>5, StartingTypes, EditStarts DEF Effects, Begins
<1>6. ASSUME NEW t \in Requests, NEW p \in Profiles,
             \/ CreateSupplier(t, p)
             \/ \E k \in 0..MaxTokens : CreatePart(t, p, k)
      PROVE  Effects /\ ResourceTypes'
  BY <1>6, CreationTypes, CreationPublishes DEF Effects
<1>7. ASSUME NEW t \in Requests, WriteIndex(t) \/ EditWritesProfile(t)
      PROVE  Effects /\ ResourceTypes'
  BY <1>7, WriteIndexTypes, RequestStepTypes DEF Effects
<1>8. ASSUME NEW t \in Requests,
             UploadFails(t) \/ CleanUp(t) \/ EditFails(t) \/ WriteLinks(t) \/ LinkFails(t)
      PROVE  Effects /\ ResourceTypes'
  BY <1>8, RequestStepTypes, EndsCases DEF Effects
<1>9. ASSUME NEW t \in Requests, NEW o \in LinkedTags \cup Ids, NEW r \in Ids, ReadLinks(t, o, r)
      PROVE  Effects /\ ResourceTypes'
  BY <1>9, ReadLinksTypes DEF Effects
<1>10. CASE Crash \/ TokenExpires \/ UNCHANGED resourceVars
  BY <1>10, CrashTypes, RestTypes, EndsCases DEF Effects
<1>11. CASE \E t \in Requests : Document(t)
  BY <1>11, <1>1, <1>3, <1>4, <1>7, <1>8 DEF Document
<1>12. CASE \E t \in Requests : ProfileStore(t)
  BY <1>12, <1>2, <1>5, <1>6, <1>7, <1>8 DEF ProfileStore
<1>13. CASE \E t \in Requests : Linking(t)
  BY <1>13, <1>8, <1>9 DEF Linking
<1> QED
  BY <1>10, <1>11, <1>12, <1>13 DEF ResourceNext

-----------------------------------------------------------------------------
(* Each effect keeps the invariant.                                        *)

RestInv ==
    /\ WriterHoldsLock /\ IdsInv /\ EntryInv /\ ContentInv /\ NameInv /\ RenderInv /\ LinkInv

\* What the index says of a resource whose entry stays.
LEMMA SameIndex ==
  ASSUME UNCHANGED index
  PROVE  /\ Existing' = Existing
         /\ \A r : Active(r)' = Active(r) /\ (Exists(r)' <=> Exists(r))
         /\ \A c : Duplicate(c)' <=> Duplicate(c)
         /\ \A ty, n : SimilarUploads(ty, n)' = SimilarUploads(ty, n)
BY DEF Existing, Active, Exists, Duplicate, SimilarUploads

LEMMA EndsKeeps ==
  ASSUME RInv, Ends
  PROVE  RestInv'
<1>1. UNCHANGED <<index, profile, last, made>>
  BY DEF Ends
<1>2. /\ Existing' = Existing
      /\ \A r : Active(r)' = Active(r) /\ (Exists(r)' <=> Exists(r))
      /\ \A c : Duplicate(c)' <=> Duplicate(c)
  BY <1>1, SameIndex
<1>3. ASSUME NEW u \in Requests, step'[u] # "idle"
      PROVE  /\ job'[u] = job[u]
             /\ step'[u] = step[u] \/ (step[u] = "moved" /\ step'[u] = "failed")
  BY <1>3 DEF Ends
<1>4. \A u \in Requests : (step'[u] \in Busy => step[u] \in Busy /\ job'[u] = job[u])
                       /\ (step'[u] \in Placing \cup {"linking"} => step[u] = step'[u] /\ job'[u] = job[u])
  BY <1>3 DEF Busy, Placing
<1>5. WriterHoldsLock'
  BY DEF Ends, WriterHoldsLock
<1>6. IdsInv'
  BY <1>1, <1>2, <1>4 DEF RInv, IdsInv
<1>7. EntryInv'
  BY <1>1, <1>2, <1>4 DEF RInv, EntryInv
<1>8. ContentInv'
  BY <1>1, <1>2, <1>4 DEF RInv, ContentInv, Placing
<1>9. NameInv'
  BY <1>1, <1>2, <1>4 DEF RInv, NameInv, Placing
<1>10. RenderInv'
  <2>1. \A r, v : RenderedAt(r, v)' <=> RenderedAt(r, v)
    BY <1>1, <1>2 DEF RenderedAt
  <2> QED
    BY <1>1, <1>2, <1>4, <2>1 DEF RInv, RenderInv, Placing
<1>11. LinkInv'
  <2>1. CASE UNCHANGED links
    BY <1>4, <2>1 DEF RInv, LinkInv
  <2>2. CASE \A u \in Requests : step'[u] # "linking"
    BY <2>2 DEF LinkInv
  <2> QED
    BY <2>1, <2>2 DEF Ends
<1> QED
  BY <1>5, <1>6, <1>7, <1>8, <1>9, <1>10, <1>11 DEF RestInv

\* A request puts a file in place, or gives up before it does.
LEMMA BeginsKeeps ==
  ASSUME RInv, NEW t \in Requests, NEW j, Begins(t, j) \/ (NewPlace(j) /\ GivesUp(t, j))
  PROVE  RestInv'
<1>1. /\ NewPlace(j) /\ Ready(t) /\ UNCHANGED <<index, profile, links, made>>
      /\ \/ step' = [step EXCEPT ![t] = "failed"] /\ UNCHANGED lock
         \/ /\ NewEntry(j) /\ lock' = t
            /\ \/ step' = [step EXCEPT ![t] = "moved"] /\ Uploading(j)
               \/ step' = [step EXCEPT ![t] = "edited"] /\ Editing(j)
      /\ job' = [job EXCEPT ![t] = j]
  BY DEF Begins, Starts, GivesUp, Enter, places, history
<1>2. /\ Existing' = Existing
      /\ \A r : Active(r)' = Active(r) /\ (Exists(r)' <=> Exists(r))
      /\ \A c : Duplicate(c)' <=> Duplicate(c)
  BY <1>1, SameIndex
<1>3. lock = None /\ step[t] = "idle" /\ \A u \in Requests \ {t} : step[u] \in {"idle", "failed"}
  BY <1>1, Alone DEF Ready
<1>4. step \in [Requests -> StepNames] /\ job \in [Requests -> Jobs]
  BY DEF RInv, ResourceTypes, RequestTypes
<1>5. /\ \A u \in Requests \ {t} : step'[u] = step[u] /\ job'[u] = job[u]
      /\ job'[t] = j
  BY <1>1, <1>4
<1>6. \/ step'[t] = "failed"
      \/ step'[t] = "moved" /\ NewEntry(j) /\ Uploading(j) /\ lock' = t
      \/ step'[t] = "edited" /\ NewEntry(j) /\ Editing(j) /\ lock' = t
  BY <1>1, <1>4
<1>7. WriterHoldsLock'
  BY <1>3, <1>5, <1>6 DEF WriterHoldsLock, Placing
<1>8. IdsInv'
  <2>1. \/ j.place[1] = last + 1 /\ last' = last + 1
        \/ Exists(j.place[1]) /\ last' = last
    BY <1>1 DEF NewPlace
  <2>2. j.place \in Places /\ j.place[1] \in Ids /\ last \in Nat /\ Ids \subseteq Nat
    BY <1>1, ResourceConstants DEF NewPlace, Places, Ids, RInv, ResourceTypes, CountTypes
  <2>3. last' \in Nat /\ last <= last' /\ j.place[1] <= last'
    <3>1. PICK r \in Ids : r = j.place[1]
      BY <2>2
    <3>2. Exists(r) => r <= last
      BY DEF RInv, IdsInv, Existing
    <3>3. last' \in Nat /\ last <= last' /\ r <= last'
      BY <2>1, <2>2, <3>1, <3>2
    <3> QED
      BY <3>1, <3>3
  <2>4. \A r \in Existing' : r <= last'
    BY <1>2, <2>2, <2>3 DEF RInv, IdsInv, Existing
  <2>5. \A u \in Requests : step'[u] \in Busy => job'[u].place \in Places /\ job'[u].place[1] <= last'
    <3>1. ASSUME NEW u \in Requests \ {t}, step'[u] \in Busy
          PROVE  job'[u].place \in Places /\ job'[u].place[1] <= last'
      <4>1. job[u].place \in Places /\ job[u].place[1] <= last /\ job[u].place[1] \in Ids
        BY <1>5, <3>1 DEF RInv, IdsInv, Places
      <4>2. PICK f : f = job[u].place
        OBVIOUS
      <4>3. PICK r \in Ids : r = f[1]
        BY <4>1, <4>2
      <4>4. r <= last'
        BY <2>2, <2>3, <4>1, <4>2, <4>3
      <4>5. job'[u].place = f
        BY <1>5, <4>2
      <4> QED
        BY <4>1, <4>2, <4>3, <4>4, <4>5
    <3> QED
      BY <1>5, <2>2, <2>3, <3>1
  <2>6. \A u, w \in Requests :
          u # w /\ step'[u] \in Busy /\ step'[w] \in Busy /\ job'[u].place[1] = job'[w].place[1]
            => Exists(job'[u].place[1])
    <3>1. \A u \in Requests \ {t} : step[u] \in Busy => job[u].place[1] <= last /\ job[u].place[1] \in Ids
      BY DEF RInv, IdsInv, Places
    <3>2. \A u \in Requests \ {t} : step[u] \in Busy /\ job[u].place[1] = j.place[1] => Exists(j.place[1])
      BY <2>1, <2>2, <3>1
    <3> QED
      BY <1>5, <3>2 DEF RInv, IdsInv
  <2>7. \A r \in Ids : profile'[r] # None => Exists(r)'
    BY <1>1, <1>2 DEF RInv, IdsInv
  <2> QED
    BY <1>2, <2>4, <2>5, <2>6, <2>7 DEF IdsInv
<1>9. EntryInv'
  <2>1. step'[t] \in Placing => NewEntry(j) /\ j.place[2] = Active(j.place[1]) + 1
    BY <1>1, <1>6 DEF NewPlace, Placing
  <2>2. \A u \in Requests : step'[u] \in Placing => u = t
    BY <1>3, <1>5 DEF Placing
  <2> QED
    BY <1>1, <1>2, <1>5, <2>1, <2>2 DEF EntryInv, NewEntry
<1>10. ContentInv'
  <2>1. \A u \in Requests \ {t} : step'[u] \notin Placing
    BY <1>3, <1>5 DEF Placing
  <2> QED
    BY <1>1, <1>2, <1>5, <1>6, <2>1 DEF RInv, ContentInv, Placing, Uploading, Editing
<1>11. NameInv'
  <2>1. \A u \in Requests \ {t} : step'[u] \notin Placing
    BY <1>3, <1>5 DEF Placing
  <2>2. \A r \in Ids : made'[r].by = "upload" => Exists(r)' /\ profile'[r] = None
    BY <1>1, <1>2 DEF RInv, NameInv
  <2>3. step'[t] = "moved" /\ ~Exists(j.place[1]) /\ j.token = 0 =>
          \A q \in Existing : made[q].by = "upload" =>
            ~(index[q].type = j.entry.type /\ index[q].name = j.entry.name)
    BY <1>6 DEF Uploading, SimilarUploads
  <2> QED
    BY <1>1, <1>2, <1>5, <1>6, <2>1, <2>2, <2>3 DEF NameInv, Placing, Uploading, Editing
<1>12. RenderInv'
  <2>1. \A r, v : RenderedAt(r, v)' <=> RenderedAt(r, v)
    BY <1>1, <1>2 DEF RenderedAt
  <2>2. \A u \in Requests : step'[u] # "profiled"
    BY <1>3, <1>5, <1>6
  <2> QED
    BY <1>1, <1>2, <2>1, <2>2 DEF RInv, RenderInv
<1>13. LinkInv'
  BY <1>3, <1>5, <1>6 DEF LinkInv
<1> QED
  BY <1>7, <1>8, <1>9, <1>10, <1>11, <1>12, <1>13 DEF RestInv

\* A published resource is a new one with one version.
LEMMA PublishesAdds ==
  ASSUME RInv, NEW r, NEW p, NEW s, NEW type \in ProfileTypes, NEW by, Publishes(r, p, s, type, by)
  PROVE  LET c == Rendered(p, r, 1) IN
         /\ r \in Ids /\ ~Exists(r) /\ last' = last + 1 /\ r = last'
         /\ c \in Contents /\ c.id = r /\ c.version = 1
         /\ index'[r].versions = <<Item(s, c)>> /\ index'[r].versions[1].sha = c
         /\ index'[r].versions[1].stamp = s
         /\ Active(r)' = 1 /\ Exists(r)'
         /\ \A q \in Ids \ {r} : index'[q] = index[q] /\ profile'[q] = profile[q] /\ made'[q] = made[q]
         /\ \A q \in Ids \ {r} : Active(q)' = Active(q) /\ (Exists(q)' <=> Exists(q))
         /\ profile'[r] = p /\ p # None /\ profile[r] = None
         /\ \A u \in Requests : step[u] \in Busy => job[u].place[1] \in Ids \ {r}
<1> DEFINE c == Rendered(p, r, 1)
<1>1. /\ r \in Ids /\ p \in Profiles /\ s \in Stamps /\ r = last + 1 /\ last' = r /\ p # None
      /\ \A q \in Ids \ {r} : made'[q] = made[q]
  BY ResourceConstants DEF Publishes
<1>2. c \in Contents /\ c.id = r /\ c.version = 1
  BY <1>1, ContentTypes, ResourceConstants DEF Versions
<1>3. ~Exists(r) /\ profile[r] = None
  <2>1. r > last
    BY <1>1, ResourceConstants DEF Ids, RInv, ResourceTypes, CountTypes
  <2> QED
    BY <1>1, <2>1, NextIsNew
<1> HIDE DEF c
<1>4. /\ index' = [index EXCEPT ![r] = Index(type, NameOf[p], <<Item(s, c)>>)]
      /\ profile' = [profile EXCEPT ![r] = p]
  BY DEF Publishes, c
<1>5. /\ index'[r].versions = <<Item(s, c)>>
      /\ \A q \in Ids \ {r} : index'[q] = index[q] /\ profile'[q] = profile[q]
      /\ profile'[r] = p
  BY <1>1, <1>4 DEF Index, RInv, ResourceTypes, IndexTypes, DiskTypes
<1>6. index'[r].versions[1].sha = c /\ index'[r].versions[1].stamp = s /\ Active(r)' = 1 /\ Exists(r)'
  BY <1>5 DEF Item, Active, Exists
<1>7. \A q \in Ids \ {r} : Active(q)' = Active(q) /\ (Exists(q)' <=> Exists(q))
  BY <1>5 DEF Active, Exists
<1>8. \A u \in Requests : step[u] \in Busy => job[u].place[1] \in Ids \ {r}
  <2>1. ASSUME NEW u \in Requests, step[u] \in Busy
        PROVE  job[u].place[1] \in Ids \ {r}
    <3>1. PICK q : q = job[u].place[1]
      OBVIOUS
    <3>2. q \in Ids /\ q <= last
      BY <2>1, <3>1 DEF RInv, IdsInv, Places
    <3>3. q # r
      BY <1>1, <3>2, ResourceConstants DEF Ids, RInv, ResourceTypes, CountTypes
    <3> QED
      BY <3>1, <3>2, <3>3
  <2> QED
    BY <2>1
<1> QED
  BY <1>1, <1>2, <1>3, <1>5, <1>6, <1>7, <1>8 DEF c

LEMMA PublishesKeeps ==
  ASSUME RInv, NEW r, NEW p, NEW s, NEW type \in ProfileTypes, NEW by, Publishes(r, p, s, type, by)
  PROVE  RestInv'
<1> DEFINE c == Rendered(p, r, 1)
<1>1. /\ r \in Ids /\ ~Exists(r) /\ last' = last + 1 /\ r = last'
      /\ c \in Contents /\ c.id = r /\ c.version = 1
      /\ index'[r].versions[1].sha = c /\ Active(r)' = 1 /\ Exists(r)'
      /\ \A q \in Ids \ {r} : index'[q] = index[q] /\ profile'[q] = profile[q] /\ made'[q] = made[q]
      /\ \A q \in Ids \ {r} : Active(q)' = Active(q) /\ (Exists(q)' <=> Exists(q))
      /\ profile'[r] = p /\ p # None
      /\ \A u \in Requests : step[u] \in Busy => job[u].place[1] \in Ids \ {r}
  BY PublishesAdds
<1> HIDE DEF c
<1>2. UNCHANGED <<links, lock, step, job>> /\ made'[r].by # "upload"
  BY DEF Publishes
<1>3. Existing' = Existing \cup {r}
  BY <1>1 DEF Existing
<1>4. Placing \subseteq Busy
  BY DEF Busy
<1>5. WriterHoldsLock'
  BY <1>2 DEF RInv, WriterHoldsLock
<1>6. IdsInv'
  <2>1. last \in Nat /\ Ids \subseteq Nat
    BY ResourceConstants DEF Ids, RInv, ResourceTypes, CountTypes
  <2>2. \A q \in Existing' : q <= last'
    BY <1>1, <1>3, <2>1 DEF RInv, IdsInv, Existing
  <2>3. \A q \in Ids : profile'[q] # None => Exists(q)'
    BY <1>1 DEF RInv, IdsInv
  <2>4. ASSUME NEW u \in Requests, step'[u] \in Busy
        PROVE  job'[u].place \in Places /\ job'[u].place[1] <= last'
    <3>1. PICK q : q = job[u].place[1]
      OBVIOUS
    <3>2. q \in Ids /\ q <= last /\ job[u].place \in Places
      BY <1>2, <2>4, <3>1 DEF RInv, IdsInv, Places
    <3>3. q <= last'
      BY <1>1, <2>1, <3>2
    <3> QED
      BY <1>2, <3>1, <3>2, <3>3
  <2>5. ASSUME NEW u \in Requests, NEW w \in Requests, u # w, step'[u] \in Busy, step'[w] \in Busy,
               job'[u].place[1] = job'[w].place[1]
        PROVE  Exists(job[u].place[1])'
    <3>1. Exists(job[u].place[1]) /\ job[u].place[1] \in Ids \ {r}
      BY <1>1, <1>2, <2>5 DEF RInv, IdsInv
    <3>2. PICK q \in Ids \ {r} : q = job[u].place[1]
      BY <3>1
    <3>3. Exists(q)'
      BY <1>1, <3>1, <3>2
    <3>4. job'[u].place[1] = q
      BY <1>2, <3>2
    <3> QED
      BY <3>3, <3>4 DEF Exists
  <2> QED
    BY <2>2, <2>3, <2>4, <2>5 DEF IdsInv
<1>7. EntryInv'
  <2>1. SUFFICES ASSUME NEW u \in Requests, step[u] \in Placing
                 PROVE  /\ job[u].content \in Contents
                        /\ job[u].place[2] = Len(index'[job[u].place[1]].versions) + 1
                        /\ job[u].entry.versions = Append(index'[job[u].place[1]].versions,
                                                          Item(job[u].place[3], job[u].content))
    BY <1>2 DEF EntryInv, Active
  <2>2. job[u].place[1] \in Ids \ {r}
    BY <1>1, <1>4, <2>1
  <2>3. index'[job[u].place[1]] = index[job[u].place[1]]
    BY <1>1, <2>2
  <2> QED
    BY <2>1, <2>3 DEF RInv, EntryInv, Active
<1>8. ContentInv'
  <2>1. \A q \in Existing' : \A v \in 1..Active(q)' :
          LET d == index'[q].versions[v].sha IN
          (\E e \in Docs : d = Uploaded(e)) \/ (d.id = q /\ d.version = v)
    BY <1>1, <1>3 DEF RInv, ContentInv, Existing
  <2>2. \A x : x.id = 0 /\ ~Duplicate(x) => ~Duplicate(x)'
    <3>1. SUFFICES ASSUME NEW x, x.id = 0, ~Duplicate(x), NEW q \in Existing',
                          NEW v \in 1..Len(index'[q].versions), index'[q].versions[v].sha = x
                   PROVE  FALSE
      BY DEF Duplicate, Active
    <3>2. CASE q = r
      <4>1. x = c
        BY <1>1, <3>1, <3>2 DEF Active
      <4> QED
        BY <1>1, <3>1, <4>1 DEF Ids
    <3>3. CASE q # r
      BY <1>1, <1>3, <3>1, <3>3 DEF Duplicate, Active, Existing
    <3> QED
      BY <3>2, <3>3
  <2>3. \A u \in Requests : step[u] = "moved" => job[u].content.id = 0
    BY ContentTypes DEF RInv, ContentInv
  <2> QED
    BY <1>2, <2>1, <2>2, <2>3 DEF RInv, ContentInv
<1>9. NameInv'
  <2>1. \A q \in Ids : made'[q].by = "upload" => Exists(q)' /\ profile'[q] = None
    BY <1>1, <1>2 DEF RInv, NameInv
  <2>2. ASSUME NEW u \in Requests
        PROVE  LET j == job[u] IN
         /\ step[u] = "moved" /\ Exists(j.place[1])' =>
              j.entry.type = index'[j.place[1]].type /\ j.entry.name = index'[j.place[1]].name
         /\ step[u] = "moved" /\ ~Exists(j.place[1])' /\ j.token = 0 =>
              \A q \in Existing' : made'[q].by = "upload" =>
                ~(index'[q].type = j.entry.type /\ index'[q].name = j.entry.name)
         /\ step[u] \in {"edited", "profiled"} => profile'[j.place[1]] # None /\ j.profile # None
    <3>1. CASE step[u] \in Placing
      <4>1. PICK q \in Ids \ {r} : q = job[u].place[1]
        BY <1>1, <1>4, <3>1
      <4>2. index'[q] = index[q] /\ (Exists(q)' <=> Exists(q)) /\ profile'[q] = profile[q]
        BY <1>1
      <4>3. Exists(job[u].place[1])' <=> Exists(job[u].place[1])
        BY <1>2, <4>1, <4>2 DEF Exists
      <4> QED
        BY <1>1, <1>2, <1>3, <4>1, <4>2, <4>3 DEF RInv, NameInv, Existing
    <3>2. CASE step[u] \notin Placing
      BY <3>2 DEF Placing
    <3> QED
      BY <3>1, <3>2
  <2> QED
    BY <1>2, <2>1, <2>2 DEF NameInv, Exists
<1>10. RenderInv'
  <2>1. \A q \in Ids \ {r} : \A v : RenderedAt(q, v)' <=> RenderedAt(q, v)
    BY <1>1 DEF RenderedAt
  <2>2. RenderedAt(r, 1)'
    BY <1>1 DEF RenderedAt
  <2>3. \A q \in Existing' : profile'[q] # None => \E v \in 1..Active(q)' : RenderedAt(q, v)'
    BY <1>1, <1>3, <2>1, <2>2 DEF RInv, RenderInv, Existing
  <2>4. \A u \in Requests : step[u] = "profiled" => job[u].place[1] \in Ids \ {r}
    BY <1>1 DEF Busy, Placing
  <2> QED
    BY <1>1, <1>2, <2>3, <2>4 DEF RInv, RenderInv
<1>11. LinkInv'
  BY <1>2 DEF RInv, LinkInv
<1> QED
  BY <1>5, <1>6, <1>7, <1>8, <1>9, <1>10, <1>11 DEF RestInv

\* The index that is written: a version more of one resource.
LEMMA WriteIndexAdds ==
  ASSUME RInv, NEW t \in Requests, WriteIndex(t), NEW j, NEW r, NEW v,
         j = job[t], r = j.place[1], v = Active(r) + 1
  PROVE  /\ j \in Jobs /\ r \in Ids /\ v \in Versions /\ Active(r) \in Nat
         /\ j.place = <<r, v, j.place[3]>> /\ j.place[2] = v /\ j.place \in Places /\ j.content \in Contents
         /\ index'[r].type = j.entry.type /\ index'[r].name = j.entry.name
         /\ index'[r].versions = Append(index[r].versions, Item(j.place[3], j.content))
         /\ Active(r)' = v /\ Exists(r)'
         /\ \A w \in 1..Active(r) : index'[r].versions[w] = index[r].versions[w]
         /\ index'[r].versions[v].sha = j.content /\ index'[r].versions[v].stamp = j.place[3]
         /\ \A q \in Ids \ {r} : index'[q] = index[q]
         /\ \A q \in Ids \ {r} : Active(q)' = Active(q) /\ (Exists(q)' <=> Exists(q))
         /\ UNCHANGED <<profile, links, last>>
         /\ step[t] \in {"moved", "profiled"} /\ step'[t] = "idle" /\ lock = t /\ lock' = None
         /\ \A u \in Requests \ {t} : /\ step[u] \in {"idle", "failed"}
                                      /\ step'[u] = step[u] /\ job'[u] = job[u]
         /\ \A u \in Requests : step'[u] \in {"idle", "failed"}
<1> DEFINE s == j.place[3]
<1>1. step[t] \in {"moved", "profiled"} /\ step[t] \in Placing /\ step[t] \in Busy
  BY DEF WriteIndex, Placing, Busy
<1>2. j \in Jobs /\ r \in Ids /\ index[r] \in Indexes
  BY WriteIndexTypes DEF RInv, ResourceTypes, RequestTypes, IndexTypes
<1>3. /\ j.place \in Places /\ j.content \in Contents /\ j.place[2] = v
      /\ j.entry.versions = Append(index[r].versions, Item(s, j.content))
  BY <1>1 DEF RInv, IdsInv, EntryInv
<1>4. v \in Versions /\ s \in Stamps /\ j.place = <<r, v, s>>
  BY <1>3 DEF Places
<1>5. /\ \A q \in Ids \ {r} : index'[q] = index[q]
      /\ index'[r].type = j.entry.type /\ index'[r].name = j.entry.name
      /\ index'[r].versions = Append(index[r].versions, Item(s, j.content))
  BY <1>2, <1>3, WriteIndexTypes
<1> HIDE DEF s
<1>6. /\ Len(index'[r].versions) = Len(index[r].versions) + 1 /\ Len(index[r].versions) \in Nat
      /\ \A w \in 1..Len(index[r].versions) : index'[r].versions[w] = index[r].versions[w]
      /\ index'[r].versions[Len(index[r].versions) + 1].sha = j.content
      /\ index'[r].versions[Len(index[r].versions) + 1].stamp = s
      /\ index'[r].versions # <<>>
  <2>1. PICK vs \in Seq([stamp : Stamps, sha : Contents]), c \in Contents :
          vs = index[r].versions /\ c = j.content
    BY <1>2, <1>3 DEF Indexes
  <2>2. /\ Append(vs, Item(s, c)) # <<>> /\ Len(vs) \in Nat
        /\ Len(Append(vs, Item(s, c))) = Len(vs) + 1
        /\ \A w \in 1..Len(vs) : Append(vs, Item(s, c))[w] = vs[w]
        /\ Append(vs, Item(s, c))[Len(vs) + 1].stamp = s /\ Append(vs, Item(s, c))[Len(vs) + 1].sha = c
    BY <1>4, VersionAppended
  <2>3. index'[r].versions = Append(vs, Item(s, c))
    BY <1>5, <2>1
  <2> QED
    BY <2>1, <2>2, <2>3
<1>7. \A q \in Ids \ {r} : Active(q)' = Active(q) /\ (Exists(q)' <=> Exists(q))
  BY <1>5 DEF Active, Exists
<1>8. Active(r)' = v /\ Exists(r)' /\ Active(r) \in Nat
  BY <1>6 DEF Active, Exists
<1>9. \A w \in 1..Active(r) : index'[r].versions[w] = index[r].versions[w]
  BY <1>6 DEF Active
<1>10. index'[r].versions[v].sha = j.content /\ index'[r].versions[v].stamp = s
  BY <1>6 DEF Active
<1>11. Leave(t) /\ UNCHANGED <<profile, links, last>>
  BY DEF WriteIndex
<1>12. lock = t
  BY <1>1 DEF RInv, WriterHoldsLock
<1>13. \A u \in Requests \ {t} : step[u] \in {"idle", "failed"}
  BY <1>12, Alone
<1>14. /\ step'[t] = "idle" /\ lock' = None
       /\ \A u \in Requests \ {t} : step'[u] = step[u] /\ job'[u] = job[u]
  BY <1>11 DEF Leave, RInv, ResourceTypes, RequestTypes
<1>15. \A u \in Requests : step'[u] \in {"idle", "failed"}
  BY <1>13, <1>14
<1>16. j.place = <<r, v, j.place[3]>>
  BY <1>4 DEF s
<1> QED
  BY <1>1, <1>2, <1>3, <1>4, <1>5, <1>7, <1>8, <1>9, <1>10, <1>11, <1>12, <1>13, <1>14, <1>15, <1>16
     DEF s

LEMMA WriteIndexKeeps ==
  ASSUME RInv, NEW t \in Requests, WriteIndex(t)
  PROVE  RestInv'
<1>1. PICK j, r, v : j = job[t] /\ r = j.place[1] /\ v = Active(r) + 1
  OBVIOUS
<1>2. /\ j \in Jobs /\ r \in Ids /\ Active(r) \in Nat /\ j.place[2] = v /\ Active(r)' = v /\ Exists(r)'
      /\ index'[r].type = j.entry.type /\ index'[r].name = j.entry.name
      /\ \A w \in 1..Active(r) : index'[r].versions[w] = index[r].versions[w]
      /\ index'[r].versions[v].sha = j.content
      /\ \A q \in Ids \ {r} : index'[q] = index[q]
      /\ \A q \in Ids \ {r} : Active(q)' = Active(q) /\ (Exists(q)' <=> Exists(q))
      /\ UNCHANGED <<profile, links, last>> /\ step[t] \in {"moved", "profiled"} /\ step'[t] = "idle"
      /\ \A u \in Requests \ {t} : step[u] \in {"idle", "failed"} /\ step'[u] = step[u] /\ job'[u] = job[u]
      /\ \A u \in Requests : step'[u] \in {"idle", "failed"}
  BY <1>1, WriteIndexAdds
<1>3. Existing' = Existing \cup {r} /\ r <= last
  <2>1. r <= last
    BY <1>1, <1>2 DEF RInv, IdsInv, Busy, Placing
  <2> QED
    BY <1>2, <2>1 DEF Existing
<1>4. WriterHoldsLock' /\ EntryInv' /\ LinkInv'
  BY <1>2 DEF WriterHoldsLock, EntryInv, LinkInv, Placing
<1>5. IdsInv'
  <2>1. (\A q \in Existing' : q <= last') /\ \A q \in Ids : profile'[q] # None => Exists(q)'
    BY <1>2, <1>3 DEF RInv, IdsInv
  <2>2. \A u \in Requests : step'[u] \in Busy => u # t /\ step[u] \in Busy /\ job'[u] = job[u]
    BY <1>2 DEF Busy, Placing
  <2>3. \A u \in Requests : step'[u] \in Busy => job'[u].place \in Places /\ job'[u].place[1] <= last'
    BY <1>2, <2>2 DEF RInv, IdsInv
  <2>4. ASSUME NEW u \in Requests, NEW w \in Requests, u # w, step'[u] \in Busy, step'[w] \in Busy,
               job'[u].place[1] = job'[w].place[1]
        PROVE  Exists(job[u].place[1])' /\ job'[u] = job[u]
    <3>1. PICK q : q = job[u].place[1]
      OBVIOUS
    <3>2. q \in Ids /\ Exists(q)
      BY <2>2, <2>4, <3>1 DEF RInv, IdsInv, Places
    <3>3. Exists(q)' /\ job'[u] = job[u]
      BY <1>2, <2>2, <2>4, <3>2
    <3> QED
      BY <3>1, <3>3 DEF Exists
  <2> QED
    BY <2>1, <2>3, <2>4 DEF IdsInv, Exists
<1>6. ContentInv'
  <2>1. (\E d \in Docs : j.content = Uploaded(d)) \/ (j.content.id = r /\ j.content.version = v)
    <3>1. CASE step[t] = "moved"
      BY <1>1, <3>1 DEF RInv, ContentInv
    <3>2. CASE step[t] = "profiled"
      <4>1. j.content = Rendered(j.profile, r, v)
        BY <1>1, <1>2, <3>2 DEF RInv, ContentInv
      <4> QED
        BY <4>1 DEF Rendered
    <3> QED
      BY <1>2, <3>1, <3>2
  <2>2. ASSUME NEW q \in Existing', NEW w \in 1..Active(q)'
        PROVE  LET c == index'[q].versions[w].sha IN
                 (\E d \in Docs : c = Uploaded(d)) \/ (c.id = q /\ c.version = w)
    <3>1. CASE q # r
      BY <1>2, <1>3, <3>1 DEF RInv, ContentInv, Existing
    <3>2. CASE q = r /\ w = v
      BY <1>2, <2>1, <3>2
    <3>3. CASE q = r /\ w # v
      <4>1. w \in 1..Active(r)
        BY <1>1, <1>2, <3>3
      <4>2. r \in Existing
        BY <1>2, <4>1 DEF Existing, Exists, Active
      <4> QED
        BY <1>2, <3>3, <4>1, <4>2 DEF RInv, ContentInv
    <3> QED
      BY <3>1, <3>2, <3>3
  <2> QED
    BY <1>2, <2>2 DEF ContentInv
<1>7. NameInv'
  <2>1. ASSUME NEW q \in Ids, made'[q].by = "upload"
        PROVE  Exists(q)' /\ profile'[q] = None
    <3>1. CASE made'[q] = made[q]
      BY <1>2, <2>1, <3>1 DEF RInv, NameInv
    <3>2. CASE made'[q] # made[q]
      <4>1. ~Exists(r) /\ q = r
        BY <1>1, <2>1, <3>2 DEF WriteIndex, RInv, ResourceTypes, HistoryTypes
      <4> QED
        BY <1>2, <4>1 DEF RInv, IdsInv
    <3> QED
      BY <3>1, <3>2
  <2> QED
    BY <1>2, <2>1 DEF NameInv
<1>8. RenderInv'
  <2>1. \A q \in Ids \ {r} : \A w : RenderedAt(q, w)' <=> RenderedAt(q, w)
    BY <1>2 DEF RenderedAt
  <2>2. ASSUME profile[r] # None
        PROVE  \E w \in 1..Active(r)' : RenderedAt(r, w)'
    <3>1. CASE j.content.id = r
      <4>1. RenderedAt(r, v)'
        BY <1>1, <1>2, <3>1 DEF RenderedAt
      <4> QED
        BY <1>1, <1>2, <4>1
    <3>2. CASE j.content.id # r
      <4>1. r \in Existing
        BY <1>2, <2>2 DEF RInv, IdsInv, Existing
      <4>2. PICK w \in 1..Active(r) : RenderedAt(r, w)
        BY <2>2, <4>1 DEF RInv, RenderInv
      <4>3. index[r].versions[w].sha.id = r
            /\ \A x \in 1..Active(r) : index[r].versions[x].sha.id = r => x <= w
        BY <4>2 DEF RenderedAt
      <4>4. index'[r].versions[w].sha.id = r /\ w \in 1..v
        BY <1>1, <1>2, <4>3
      <4>5. \A x \in 1..v : x \in 1..Active(r) \/ x = v
        BY <1>1, <1>2
      <4>6. \A x \in 1..v : index'[r].versions[x].sha.id = r => x <= w
        BY <1>1, <1>2, <3>2, <4>3, <4>5
      <4>7. RenderedAt(r, w)'
        BY <1>2, <4>4, <4>6 DEF RenderedAt
      <4> QED
        BY <1>2, <4>4, <4>7
    <3> QED
      BY <3>1, <3>2
  <2>3. \A q \in Existing' : profile'[q] # None => \E w \in 1..Active(q)' : RenderedAt(q, w)'
    BY <1>2, <1>3, <2>1, <2>2 DEF RInv, RenderInv, Existing
  <2> QED
    BY <1>2, <2>3 DEF RenderInv
<1> QED
  BY <1>4, <1>5, <1>6, <1>7, <1>8 DEF RestInv

\* An edit replaces the profile of a resource that has one.
LEMMA EditKeeps ==
  ASSUME RInv, NEW t \in Requests, EditWritesProfile(t)
  PROVE  RestInv'
<1>1. PICK j, r : j = job[t] /\ r = j.place[1]
  OBVIOUS
<1>2. /\ step[t] = "edited" /\ UNCHANGED <<index, links, last, made, lock, job>>
      /\ step' = [step EXCEPT ![t] = "profiled"] /\ profile' = [profile EXCEPT ![r] = j.profile]
  BY <1>1 DEF EditWritesProfile, history
<1>3. /\ Existing' = Existing
      /\ \A q : Active(q)' = Active(q) /\ (Exists(q)' <=> Exists(q))
      /\ \A c : Duplicate(c)' <=> Duplicate(c)
  BY <1>2, SameIndex
<1>4. lock = t /\ \A u \in Requests \ {t} : step[u] \in {"idle", "failed"}
  <2>1. lock = t
    BY <1>2 DEF RInv, WriterHoldsLock, Placing
  <2> QED
    BY <2>1, Alone
<1>5. step'[t] = "profiled" /\ \A u \in Requests \ {t} : step'[u] = step[u]
  BY <1>2 DEF RInv, ResourceTypes, RequestTypes
<1>6. r \in Ids /\ profile[r] # None /\ j.profile # None
  BY <1>1, <1>2 DEF RInv, IdsInv, NameInv, Placing, Busy, Places
<1>7. profile'[r] = j.profile /\ \A q \in Ids \ {r} : profile'[q] = profile[q]
  BY <1>2, <1>6 DEF RInv, ResourceTypes, DiskTypes
<1>8. WriterHoldsLock'
  BY <1>2, <1>4, <1>5 DEF RInv, WriterHoldsLock, Placing
<1>9. IdsInv'
  <2>1. \A q \in Ids : profile'[q] # None => Exists(q)'
    BY <1>3, <1>6, <1>7 DEF RInv, IdsInv
  <2>2. \A u \in Requests : step'[u] \in Busy => step[u] \in Busy
    BY <1>2, <1>5 DEF Busy, Placing
  <2> QED
    BY <1>2, <1>3, <2>1, <2>2 DEF RInv, IdsInv
<1>10. EntryInv' /\ ContentInv'
  <2>1. \A u \in Requests : step'[u] \in Placing => u = t /\ step[u] \in Placing
    BY <1>2, <1>4, <1>5 DEF Placing
  <2>2. \A u \in Requests \ {t} : step'[u] \notin Placing
    BY <1>4, <1>5 DEF Placing
  <2> QED
    BY <1>2, <1>3, <1>5, <2>1, <2>2 DEF RInv, EntryInv, ContentInv, Placing
<1>11. NameInv'
  <2>1. \A q \in Ids : made[q].by = "upload" => q # r /\ Exists(q)' /\ profile'[q] = None
    BY <1>3, <1>6, <1>7 DEF RInv, NameInv
  <2> QED
    BY <1>1, <1>2, <1>4, <1>5, <1>6, <1>7, <2>1 DEF NameInv
<1>12. RenderInv'
  <2>1. \A q, v : RenderedAt(q, v)' <=> RenderedAt(q, v)
    BY <1>2, <1>3 DEF RenderedAt
  <2>2. \A q \in Ids : profile'[q] # None => profile[q] # None
    BY <1>6, <1>7
  <2>3. \A u \in Requests : step'[u] = "profiled" => u = t
    BY <1>4, <1>5
  <2> QED
    BY <1>1, <1>2, <1>3, <1>7, <2>1, <2>2, <2>3 DEF RInv, RenderInv, Existing
<1>13. LinkInv'
  BY <1>4, <1>5 DEF LinkInv
<1> QED
  BY <1>8, <1>9, <1>10, <1>11, <1>12, <1>13 DEF RestInv

\* A change of links is computed under the lock.
LEMMA ReadLinksKeeps ==
  ASSUME RInv, NEW t \in Requests, NEW o \in LinkedTags \cup Ids, NEW r \in Ids, ReadLinks(t, o, r)
  PROVE  RestInv'
<1>1. PICK j \in Jobs : /\ Enter(t, "linking", j) /\ j.owner = o
                        /\ j.linked \in {links[o] \cup {r}, links[o] \ {r}}
  BY ReadLinksTypes
<1>2. Ready(t) /\ UNCHANGED <<index, profile, links, last, made>>
  BY DEF ReadLinks, places, history
<1>3. /\ Existing' = Existing
      /\ \A q : Active(q)' = Active(q) /\ (Exists(q)' <=> Exists(q))
      /\ \A c : Duplicate(c)' <=> Duplicate(c)
  BY <1>2, SameIndex
<1>4. \A u \in Requests \ {t} : step[u] \in {"idle", "failed"}
  BY <1>2, Alone DEF Ready
<1>5. /\ lock' = t /\ step'[t] = "linking" /\ job'[t] = j
      /\ \A u \in Requests \ {t} : step'[u] = step[u] /\ job'[u] = job[u]
  BY <1>1 DEF Enter, RInv, ResourceTypes, RequestTypes
<1>6. \A u \in Requests : step'[u] \notin Placing
  BY <1>4, <1>5 DEF Placing
<1>7. WriterHoldsLock' /\ EntryInv'
  BY <1>4, <1>5, <1>6 DEF WriterHoldsLock, EntryInv
<1>8. IdsInv'
  <2>1. \A u \in Requests : step'[u] \in Busy => step[u] \in Busy /\ job'[u] = job[u]
    BY <1>5 DEF Busy, Placing
  <2> QED
    BY <1>2, <1>3, <2>1 DEF RInv, IdsInv
<1>9. ContentInv' /\ NameInv'
  BY <1>2, <1>3, <1>6 DEF RInv, ContentInv, NameInv, Placing
<1>10. RenderInv'
  <2>1. \A q, v : RenderedAt(q, v)' <=> RenderedAt(q, v)
    BY <1>2, <1>3 DEF RenderedAt
  <2> QED
    BY <1>2, <1>3, <1>6, <2>1 DEF RInv, RenderInv, Placing
<1>11. LinkInv'
  BY <1>1, <1>2, <1>4, <1>5 DEF LinkInv
<1> QED
  BY <1>7, <1>8, <1>9, <1>10, <1>11 DEF RestInv

\* The invariant is inductive.
LEMMA ResourceInvStep == RInv /\ [ResourceNext]_resourceVars => RInv'
<1> SUFFICES ASSUME RInv, [ResourceNext]_resourceVars PROVE RInv'
  OBVIOUS
<1>1. Effects /\ ResourceTypes'
  BY StepEffects
<1>2. RestInv'
  BY <1>1, EndsKeeps, BeginsKeeps, PublishesKeeps, WriteIndexKeeps, EditKeeps, ReadLinksKeeps
     DEF Effects
<1> QED
  BY <1>1, <1>2 DEF RInv, RestInv

-----------------------------------------------------------------------------
(* The contents and names of uploads.                                      *)

\* Which effects change an index, and how.
LEMMA IndexEffects ==
  ASSUME RInv, [ResourceNext]_resourceVars
  PROVE  \/ UNCHANGED <<index, made>>
         \/ \E r, p, s : \E type \in ProfileTypes, by \in {"supplier", "part"} :
              Publishes(r, p, s, type, by)
         \/ \E t \in Requests : WriteIndex(t)
<1>1. Effects
  BY StepEffects
<1> QED
  BY <1>1 DEF Effects, Ends, Begins, Starts, GivesUp, EditWritesProfile, ReadLinks, history, places

ContentsDistinct ==
    \A r, q \in Existing : \A v \in 1..Active(r), w \in 1..Active(q) :
      index[r].versions[v].sha = index[q].versions[w].sha => r = q /\ v = w

NamesConfirmed ==
    \A r, q \in Existing :
      r # q /\ made[r].by = "upload" /\ made[q].by = "upload"
      /\ index[r].type = index[q].type /\ index[r].name = index[q].name
        => made[r].token # 0 \/ made[q].token # 0

LEMMA Distinct == UploadsAreDistinct <=> ContentsDistinct /\ NamesConfirmed
BY DEF UploadsAreDistinct, ContentsDistinct, NamesConfirmed

\* A content comes in that no index lists.
LEMMA NewContent ==
  ASSUME RInv, ContentsDistinct, NEW r \in Ids, NEW v \in Nat, v = Active(r) + 1, Active(r)' = v,
         \A w \in 1..Active(r) : index'[r].versions[w] = index[r].versions[w],
         ~Duplicate(index'[r].versions[v].sha), Existing' = Existing \cup {r}, Active(r) \in Nat,
         \A q \in Ids \ {r} : index'[q] = index[q] /\ Active(q)' = Active(q)
  PROVE  ContentsDistinct'
<1> DEFINE c == index'[r].versions[v].sha
<1>1. ASSUME NEW q \in Existing', NEW w \in 1..Active(q)', ~(q = r /\ w = v)
      PROVE  /\ q \in Existing /\ w \in 1..Active(q) /\ index'[q].versions[w] = index[q].versions[w]
             /\ index'[q].versions[w].sha # c
  <2>1. CASE q = r
    <3>1. w \in 1..Active(r)
      BY <1>1, <2>1
    <3>2. r \in Existing
      BY <3>1 DEF Existing, Exists, Active
    <3> QED
      BY <2>1, <3>1, <3>2 DEF Duplicate
  <2>2. CASE q # r
    BY <1>1, <2>2 DEF Duplicate, Existing
  <2> QED
    BY <2>1, <2>2
<1>2. SUFFICES ASSUME NEW q1 \in Existing', NEW q2 \in Existing',
                      NEW w1 \in 1..Active(q1)', NEW w2 \in 1..Active(q2)',
                      index'[q1].versions[w1].sha = index'[q2].versions[w2].sha
               PROVE  q1 = q2 /\ w1 = w2
  BY DEF ContentsDistinct
<1>3. CASE q1 = r /\ w1 = v
  BY <1>1, <1>2, <1>3
<1>4. CASE q2 = r /\ w2 = v
  BY <1>1, <1>2, <1>4
<1>5. CASE ~(q1 = r /\ w1 = v) /\ ~(q2 = r /\ w2 = v)
  BY <1>1, <1>2, <1>5 DEF ContentsDistinct
<1> QED
  BY <1>3, <1>4, <1>5

\* A rendering of a version that is not there is no duplicate.
LEMMA RenderingIsNew ==
  ASSUME RInv, NEW r \in Ids, NEW v \in Nat, v = Active(r) + 1, Active(r) \in Nat, NEW c,
         c.id = r, c.version = v
  PROVE  ~Duplicate(c)
<1> SUFFICES ASSUME NEW q \in Existing, NEW w \in 1..Active(q), index[q].versions[w].sha = c
             PROVE  FALSE
  BY DEF Duplicate
<1>1. (\E d \in Docs : c = Uploaded(d)) \/ (c.id = q /\ c.version = w)
  BY DEF RInv, ContentInv
<1>2. CASE \E d \in Docs : c = Uploaded(d)
  BY <1>2, ContentTypes DEF Ids
<1>3. CASE c.id = q /\ c.version = w
  BY <1>3
<1> QED
  BY <1>1, <1>2, <1>3

LEMMA DistinctStep ==
  ASSUME RInv, UploadsAreDistinct, [ResourceNext]_resourceVars
  PROVE  UploadsAreDistinct'
<1>0. ContentsDistinct /\ NamesConfirmed
  BY Distinct
<1>1. CASE UNCHANGED <<index, made>>
  BY <1>1 DEF UploadsAreDistinct, Existing, Exists, Active
<1>2. ASSUME NEW r, NEW p, NEW s, NEW type \in ProfileTypes, NEW by, Publishes(r, p, s, type, by)
      PROVE  UploadsAreDistinct'
  <2>1. PICK c : c = Rendered(p, r, 1)
    OBVIOUS
  <2>2. /\ r \in Ids /\ ~Exists(r) /\ c.id = r /\ c.version = 1
        /\ index'[r].versions[1].sha = c /\ Active(r)' = 1 /\ Exists(r)'
        /\ \A q \in Ids \ {r} : index'[q] = index[q] /\ made'[q] = made[q]
        /\ \A q \in Ids \ {r} : Active(q)' = Active(q) /\ (Exists(q)' <=> Exists(q))
    BY <1>2, <2>1, PublishesAdds
  <2>3. Existing' = Existing \cup {r} /\ made'[r].by # "upload"
    BY <1>2, <2>2 DEF Existing, Publishes
  <2>4. Active(r) = 0
    BY <2>2 DEF Exists, Active
  <2>5. ~Duplicate(c)
    BY <2>2, <2>4, RenderingIsNew
  <2>6. ContentsDistinct'
    BY <1>0, <2>2, <2>3, <2>4, <2>5, NewContent
  <2>7. NamesConfirmed'
    BY <1>0, <2>2, <2>3 DEF NamesConfirmed, Existing
  <2> QED
    BY <2>6, <2>7 DEF UploadsAreDistinct, ContentsDistinct, NamesConfirmed
<1>3. ASSUME NEW t \in Requests, WriteIndex(t)
      PROVE  UploadsAreDistinct'
  <2>1. PICK j, r, v : j = job[t] /\ r = j.place[1] /\ v = Active(r) + 1
    OBVIOUS
  <2>2. /\ r \in Ids /\ Active(r) \in Nat /\ j.place[2] = v /\ Active(r)' = v /\ Exists(r)'
        /\ index'[r].type = j.entry.type /\ index'[r].name = j.entry.name
        /\ \A w \in 1..Active(r) : index'[r].versions[w] = index[r].versions[w]
        /\ index'[r].versions[v].sha = j.content
        /\ \A q \in Ids \ {r} : index'[q] = index[q]
        /\ \A q \in Ids \ {r} : Active(q)' = Active(q) /\ (Exists(q)' <=> Exists(q))
        /\ step[t] \in {"moved", "profiled"}
    BY <1>3, <2>1, WriteIndexAdds
  <2>3. Existing' = Existing \cup {r}
    BY <2>2 DEF Existing
  <2>4. ~Duplicate(j.content)
    <3>1. CASE step[t] = "moved"
      BY <2>1, <3>1 DEF RInv, ContentInv
    <3>2. CASE step[t] = "profiled"
      <4>1. j.content = Rendered(j.profile, r, v)
        BY <2>1, <2>2, <3>2 DEF RInv, ContentInv
      <4>2. j.content.id = r /\ j.content.version = v /\ v \in Nat
        BY <2>1, <2>2, <4>1 DEF Rendered
      <4> QED
        BY <2>1, <2>2, <4>2, RenderingIsNew
    <3> QED
      BY <2>2, <3>1, <3>2
  <2>5. ContentsDistinct'
    BY <1>0, <2>1, <2>2, <2>3, <2>4, NewContent
  <2>6. \A q \in Ids \ {r} : made'[q] = made[q]
    BY <1>3, <2>1 DEF WriteIndex, RInv, ResourceTypes, HistoryTypes
  <2>7. NamesConfirmed'
    <3>1. CASE Exists(r)
      <4>1. UNCHANGED made /\ Existing' = Existing
        BY <1>3, <2>1, <2>2, <2>3, <3>1 DEF WriteIndex, Existing
      <4>2. made[r].by = "upload" => index'[r].type = index[r].type /\ index'[r].name = index[r].name
        <5>1. made[r].by = "upload" => step[t] = "moved"
          BY <2>1, <2>2 DEF RInv, NameInv
        <5> QED
          BY <2>1, <2>2, <3>1, <5>1 DEF RInv, NameInv
      <4> QED
        BY <1>0, <2>2, <4>1, <4>2 DEF NamesConfirmed, Existing
    <3>2. CASE ~Exists(r)
      <4>1. made'[r] = [by |-> "upload", token |-> j.token]
        BY <1>3, <2>1, <2>2, <3>2 DEF WriteIndex, RInv, ResourceTypes, HistoryTypes
      <4>2. step[t] = "moved"
        BY <2>1, <2>2, <3>2 DEF RInv, NameInv, IdsInv
      <4>3. j.token = 0 => \A q \in Existing : made[q].by = "upload" =>
              ~(index[q].type = j.entry.type /\ index[q].name = j.entry.name)
        BY <2>1, <3>2, <4>2 DEF RInv, NameInv
      <4> QED
        BY <1>0, <2>2, <2>3, <2>6, <4>1, <4>3 DEF NamesConfirmed, Existing
    <3> QED
      BY <3>1, <3>2
  <2> QED
    BY <2>5, <2>7 DEF UploadsAreDistinct, ContentsDistinct, NamesConfirmed
<1> QED
  BY <1>1, <1>2, <1>3, IndexEffects

-----------------------------------------------------------------------------
(* The revision of a profile.                                              *)

\* The text rendered last among the first n of some versions.
RevisionOf(vs, n, r) ==
    LET own == {v \in 1..n : vs[v].sha.id = r}
    IN  vs[CHOOSE v \in own : \A w \in own : w <= v].sha.text

LEMMA RevisionIs ==
  ASSUME NEW vs, NEW n \in Nat, NEW r, NEW v \in 1..n, vs[v].sha.id = r,
         \A w \in 1..n : vs[w].sha.id = r => w <= v
  PROVE  RevisionOf(vs, n, r) = vs[v].sha.text
<1> DEFINE own == {w \in 1..n : vs[w].sha.id = r}
<1>1. v \in own /\ \A w \in own : w <= v
  OBVIOUS
<1>2. \A x \in own : (\A w \in own : w <= x) => x = v
  BY <1>1
<1>3. (CHOOSE x \in own : \A w \in own : w <= x) = v
  <2> HIDE DEF own
  <2> QED
    BY <1>1, <1>2
<1> QED
  BY <1>3 DEF RevisionOf

Lags(r)    == profile[r] # None /\ profile[r] # LastRendered(r)
Excused(r) == r \in interrupted \/ \E t \in Requests : step[t] = "profiled" /\ job[t].place[1] = r

\* The version rendered last is of the profile, whatever is uploaded on top.
LastFollows ==
    \A r \in Existing :
      profile[r] # None /\ profile[r] # LastRendered(r) =>
        r \in interrupted \/ \E t \in Requests : step[t] = "profiled" /\ job[t].place[1] = r

LEMMA LagsAreExcused == LastFollows <=> \A r \in Existing : Lags(r) => Excused(r)
BY DEF LastFollows, Lags, Excused

\* What the steps that leave the index and the profiles keep.
LEMMA ExcusesStay ==
  ASSUME RInv, LastFollows, UNCHANGED <<index, profile>>,
         interrupted \subseteq interrupted',
         \A u \in Requests : step[u] = "profiled" =>
           \/ step'[u] = "profiled" /\ job'[u] = job[u]
           \/ job[u].place[1] \in interrupted'
  PROVE  LastFollows'
<1>1. Existing' = Existing
  BY SameIndex
<1>2. \A r : LastRendered(r)' = LastRendered(r)
  BY DEF LastRendered, Active
<1>3. \A r : Lags(r)' <=> Lags(r)
  BY <1>2 DEF Lags
<1>4. \A r : Excused(r) => Excused(r)'
  BY DEF Excused
<1>5. \A r \in Existing' : Lags(r)' => Excused(r)'
  BY <1>1, <1>3, <1>4, LagsAreExcused
<1> QED
  BY <1>5 DEF LastFollows, Lags, Excused

\* One resource changes, and is what was rendered last for it or excused.
LEMMA OneRevision ==
  ASSUME RInv, LastFollows, NEW r \in Ids,
         \A q \in Ids \ {r} : index'[q] = index[q] /\ profile'[q] = profile[q],
         \A q \in Ids \ {r} : Excused(q) => Excused(q)',
         Lags(r)' => Excused(r)'
  PROVE  LastFollows'
<1>1. \A q \in Ids \ {r} : q \in Existing' <=> q \in Existing
  BY DEF Existing, Exists
<1>2. \A q \in Ids \ {r} : LastRendered(q)' = LastRendered(q)
  BY DEF LastRendered, Active
<1>3. \A q \in Ids \ {r} : Lags(q)' <=> Lags(q)
  BY <1>2 DEF Lags
<1>4. \A q \in Existing' : Lags(q)' => Excused(q)'
  <2>1. Existing' \subseteq Ids
    BY DEF Existing
  <2> QED
    BY <1>1, <1>3, <2>1, LagsAreExcused
<1> QED
  BY <1>4 DEF LastFollows, Lags, Excused

LEMMA RevisionStep ==
  ASSUME RInv, LastFollows, [ResourceNext]_resourceVars
  PROVE  LastFollows'
<1>1. Effects /\ RInv'
  BY StepEffects, ResourceInvStep
<1>2. CASE Ends
  BY <1>2, ExcusesStay DEF Ends
<1>3. ASSUME NEW t \in Requests, NEW j, Begins(t, j) \/ GivesUp(t, j)
      PROVE  LastFollows'
  <2>1. /\ UNCHANGED <<index, profile, interrupted>> /\ step[t] = "idle"
        /\ job' = [job EXCEPT ![t] = j]
        /\ \E at : step' = [step EXCEPT ![t] = at]
    BY <1>3 DEF Begins, Starts, GivesUp, Enter, Ready, places, history
  <2>2. \A u \in Requests : step[u] = "profiled" => step'[u] = "profiled" /\ job'[u] = job[u]
    BY <2>1 DEF RInv, ResourceTypes, RequestTypes
  <2> QED
    BY <2>1, <2>2, ExcusesStay
<1>4. ASSUME NEW t \in Requests, NEW o \in LinkedTags \cup Ids, NEW r \in Ids, ReadLinks(t, o, r)
      PROVE  LastFollows'
  <2>1. /\ UNCHANGED <<index, profile, interrupted>> /\ step[t] = "idle"
        /\ \E j : job' = [job EXCEPT ![t] = j]
        /\ step' = [step EXCEPT ![t] = "linking"]
    BY <1>4 DEF ReadLinks, Enter, Ready, places, history
  <2>2. \A u \in Requests : step[u] = "profiled" => step'[u] = "profiled" /\ job'[u] = job[u]
    BY <2>1 DEF RInv, ResourceTypes, RequestTypes
  <2> QED
    BY <2>1, <2>2, ExcusesStay
<1>5. ASSUME NEW r, NEW p, NEW s, NEW type \in ProfileTypes, NEW by, Publishes(r, p, s, type, by)
      PROVE  LastFollows'
  <2>1. PICK c : c = Rendered(p, r, 1)
    OBVIOUS
  <2>2. /\ r \in Ids /\ c.id = r /\ c.text = p
        /\ index'[r].versions[1].sha = c /\ Active(r)' = 1 /\ profile'[r] = p
        /\ \A q \in Ids \ {r} : index'[q] = index[q] /\ profile'[q] = profile[q]
    BY <1>5, <2>1, PublishesAdds DEF Rendered
  <2>3. \A q : Excused(q) => Excused(q)'
    BY <1>5 DEF Publishes, Excused
  <2>4. LastRendered(r)' = p
    <3>1. PICK vs : vs = index'[r].versions
      OBVIOUS
    <3>2. LastRendered(r)' = RevisionOf(vs, 1, r)
      BY <2>2, <3>1 DEF LastRendered, RevisionOf
    <3>3. RevisionOf(vs, 1, r) = vs[1].sha.text
      <4>1. 1 \in 1..1 /\ vs[1].sha.id = r /\ \A w \in 1..1 : w <= 1
        BY <2>2, <3>1
      <4> QED
        BY <4>1, RevisionIs
    <3> QED
      BY <2>2, <3>1, <3>2, <3>3
  <2>5. ~Lags(r)'
    BY <2>2, <2>4 DEF Lags
  <2> QED
    BY <2>2, <2>3, <2>5, OneRevision
<1>6. ASSUME NEW t \in Requests, EditWritesProfile(t)
      PROVE  LastFollows'
  <2>1. PICK j, r : j = job[t] /\ r = j.place[1]
    OBVIOUS
  <2>2. /\ step[t] = "edited" /\ UNCHANGED <<index, job, interrupted>>
        /\ step' = [step EXCEPT ![t] = "profiled"] /\ profile' = [profile EXCEPT ![r] = j.profile]
    BY <1>6, <2>1 DEF EditWritesProfile, history
  <2>3. r \in Ids /\ \A q \in Ids \ {r} : profile'[q] = profile[q]
    BY <2>1, <2>2 DEF RInv, IdsInv, Placing, Busy, Places, ResourceTypes, DiskTypes
  <2>4. step'[t] = "profiled" /\ \A u \in Requests \ {t} : step'[u] = step[u]
    BY <2>2 DEF RInv, ResourceTypes, RequestTypes
  <2>5. Excused(r)' /\ \A q : Excused(q) => Excused(q)'
    BY <2>1, <2>2, <2>4 DEF Excused
  <2> QED
    BY <2>2, <2>3, <2>5, OneRevision
<1>7. ASSUME NEW t \in Requests, WriteIndex(t)
      PROVE  LastFollows'
  <2>1. PICK j, r, v : j = job[t] /\ r = j.place[1] /\ v = Active(r) + 1
    OBVIOUS
  <2>2. /\ r \in Ids /\ Active(r) \in Nat /\ j.place[2] = v /\ Active(r)' = v
        /\ \A w \in 1..Active(r) : index'[r].versions[w] = index[r].versions[w]
        /\ index'[r].versions[v].sha = j.content
        /\ \A q \in Ids \ {r} : index'[q] = index[q]
        /\ UNCHANGED profile /\ step[t] \in {"moved", "profiled"}
        /\ \A u \in Requests \ {t} : step[u] \in {"idle", "failed"}
    BY <1>7, <2>1, WriteIndexAdds
  <2>3. interrupted' = IF step[t] = "profiled" THEN interrupted \ {r} ELSE interrupted
    BY <1>7, <2>1 DEF WriteIndex
  <2>4. \A q \in Ids \ {r} : Excused(q) => Excused(q)'
    BY <2>1, <2>2, <2>3 DEF Excused
  <2>5. CASE step[t] = "profiled"
    <3>1. j.content = Rendered(j.profile, r, v) /\ profile[r] = j.profile
      BY <2>1, <2>2, <2>5 DEF RInv, ContentInv, RenderInv
    <3>2. j.content.id = r /\ j.content.text = j.profile
      BY <3>1 DEF Rendered
    <3>3. PICK vs : vs = index'[r].versions
      OBVIOUS
    <3>4. /\ v \in Nat /\ v \in 1..v /\ vs[v].sha.id = r
          /\ \A w \in 1..v : vs[w].sha.id = r => w <= v
      BY <2>1, <2>2, <3>2, <3>3
    <3>5. LastRendered(r)' = j.profile
      <4>1. LastRendered(r)' = RevisionOf(vs, v, r)
        BY <2>2, <3>3 DEF LastRendered, RevisionOf
      <4>2. RevisionOf(vs, v, r) = vs[v].sha.text
        BY <3>4, RevisionIs
      <4> QED
        BY <2>2, <3>2, <3>3, <4>1, <4>2
    <3>6. ~Lags(r)'
      BY <2>2, <3>1, <3>5 DEF Lags
    <3> QED
      BY <2>2, <2>4, <3>6, OneRevision
  <2>6. CASE step[t] = "moved"
    <3>1. j.content.id = 0 /\ r # 0
      BY <2>1, <2>2, <2>6, ContentTypes DEF RInv, ContentInv, Ids
    <3>2. Excused(r) => Excused(r)'
      BY <2>1, <2>2, <2>3, <2>6 DEF Excused
    <3>3. Lags(r)' => Lags(r) /\ r \in Existing
      <4>1. SUFFICES ASSUME profile[r] # None PROVE LastRendered(r)' = LastRendered(r) /\ r \in Existing
        BY <2>2 DEF Lags
      <4>2. r \in Existing
        BY <2>2, <4>1 DEF RInv, IdsInv, Existing
      <4>3. PICK x \in 1..Active(r) : RenderedAt(r, x)
        BY <4>1, <4>2 DEF RInv, RenderInv
      <4>4. PICK n, vs, ws : n = Active(r) /\ vs = index[r].versions /\ ws = index'[r].versions
        OBVIOUS
      <4>5. /\ n \in Nat /\ x \in 1..n /\ vs[x].sha.id = r
            /\ \A w \in 1..n : vs[w].sha.id = r => w <= x
        BY <2>2, <4>3, <4>4 DEF RenderedAt
      <4>6. /\ v \in Nat /\ x \in 1..v /\ ws[x].sha.id = r /\ ws[x] = vs[x]
            /\ \A w \in 1..v : ws[w].sha.id = r => w <= x
        <5>1. v = n + 1 /\ ws[v].sha.id # r /\ \A w \in 1..n : ws[w] = vs[w]
          BY <2>1, <2>2, <3>1, <4>4
        <5>2. \A w \in 1..v : w \in 1..n \/ w = v
          BY <4>5, <5>1
        <5> QED
          BY <4>5, <5>1, <5>2
      <4>7. RevisionOf(vs, n, r) = vs[x].sha.text /\ RevisionOf(ws, v, r) = ws[x].sha.text
        BY <4>5, <4>6, RevisionIs
      <4>8. LastRendered(r) = RevisionOf(vs, n, r) /\ LastRendered(r)' = RevisionOf(ws, v, r)
        BY <2>2, <4>4 DEF LastRendered, RevisionOf
      <4> QED
        BY <4>2, <4>6, <4>7, <4>8
    <3> QED
      BY <2>2, <2>4, <3>2, <3>3, LagsAreExcused, OneRevision
  <2> QED
    BY <2>2, <2>5, <2>6
<1> QED
  BY <1>1, <1>2, <1>3, <1>4, <1>5, <1>6, <1>7 DEF Effects

LEMMA ElementOf ==
  ASSUME NEW S, NEW vs \in Seq(S), NEW v \in 1..Len(vs)
  PROVE  vs[v] \in S
OBVIOUS

\* What an index lists has a place and a content.
LEMMA IndexedPlaces ==
  ASSUME RInv, NEW r \in Ids, NEW v \in 1..Active(r)
  PROVE  /\ index[r].versions[v].stamp \in Stamps /\ index[r].versions[v].sha \in Contents
         /\ v \in Versions /\ r \in Existing
<1>1. PICK vs \in Seq([stamp : Stamps, sha : Contents]) : vs = index[r].versions
  BY DEF RInv, ResourceTypes, IndexTypes, Indexes
<1>2. Active(r) = Len(vs) /\ Len(vs) \in Nat /\ v \in 1..Len(vs)
  BY <1>1 DEF Active
<1>3. vs[v] \in [stamp : Stamps, sha : Contents]
  BY <1>2, ElementOf
<1>4. Len(vs) <= MaxVersions
  BY <1>2 DEF RInv, ResourceTypes, IndexTypes
<1>5. v \in Versions
  BY <1>2, <1>4, ResourceConstants DEF Versions
<1>6. r \in Existing
  BY <1>1, <1>2 DEF Existing, Exists
<1> QED
  BY <1>1, <1>3, <1>5, <1>6

\* The active version was uploaded, or it is the one rendered last.
LEMMA ActiveFollows ==
  ASSUME RInv, LastFollows
  PROVE  RevisionFollowsProfile
<1> SUFFICES ASSUME NEW r \in Existing, profile[r] # None, ~Excused(r)
             PROVE  \/ Revision(r) = Rendered(profile[r], r, Active(r))
                    \/ Revision(r) \in {Uploaded(d) : d \in Docs} /\ LastRendered(r) = profile[r]
  BY DEF RevisionFollowsProfile, Excused
<1>1. LastRendered(r) = profile[r]
  BY DEF LastFollows, Excused
<1>2. PICK vs, n : vs = index[r].versions /\ n = Active(r)
  OBVIOUS
<1>3. r \in Ids /\ n \in 1..n /\ n \in Nat
  <2>1. r \in Ids /\ vs # <<>>
    BY <1>2 DEF Existing, Exists
  <2>2. vs \in Seq([stamp : Stamps, sha : Contents]) /\ n = Len(vs)
    BY <1>2, <2>1 DEF RInv, ResourceTypes, IndexTypes, Indexes, Active
  <2> QED
    BY <2>1, <2>2
<1>4. PICK c \in Contents : c = vs[n].sha /\ c = Revision(r)
  BY <1>2, <1>3, IndexedPlaces DEF Revision
<1>5. (\E d \in Docs : c = Uploaded(d)) \/ (c.id = r /\ c.version = n)
  BY <1>2, <1>3, <1>4 DEF RInv, ContentInv
<1>6. CASE c.id = r /\ c.version = n
  <2>1. RevisionOf(vs, n, r) = c.text
    <3>1. vs[n].sha.id = r /\ vs[n].sha.text = c.text
      BY <1>4, <1>6
    <3>2. \A w \in 1..n : vs[w].sha.id = r => w <= n
      OBVIOUS
    <3>3. n \in Nat /\ n \in 1..n
      BY <1>3
    <3>4. RevisionOf(vs, n, r) = vs[n].sha.text
      BY <3>1, <3>2, <3>3, RevisionIs
    <3> QED
      BY <3>1, <3>4
  <2>2. LastRendered(r) = RevisionOf(vs, n, r)
    BY <1>2 DEF LastRendered, RevisionOf
  <2>3. c = [text |-> c.text, id |-> c.id, version |-> c.version]
    BY DEF Contents
  <2> QED
    BY <1>1, <1>2, <1>4, <1>6, <2>1, <2>2, <2>3 DEF Rendered
<1> QED
  BY <1>1, <1>4, <1>5, <1>6

-----------------------------------------------------------------------------
(* Nothing is forgotten.                                                   *)

KeepsHistory ==
    /\ \A r \in Ids : index'[r] # index[r] =>
         \E i \in [stamp : Stamps, sha : Contents] :
           index'[r].versions = Append(index[r].versions, i)
    /\ \A o \in DOMAIN links : links'[o] # links[o] =>
         \E r \in Ids : links'[o] \in {links[o] \cup {r}, links[o] \ {r}}

LEMMA HistoryStep ==
  ASSUME RInv, [ResourceNext]_resourceVars
  PROVE  KeepsHistory
<1>1. ASSUME NEW r \in Ids, index'[r] # index[r]
      PROVE  \E i \in [stamp : Stamps, sha : Contents] :
               index'[r].versions = Append(index[r].versions, i)
  <2>1. ASSUME NEW q, NEW p, NEW s, NEW type \in ProfileTypes, NEW by, Publishes(q, p, s, type, by)
        PROVE  \E i \in [stamp : Stamps, sha : Contents] :
                 index'[r].versions = Append(index[r].versions, i)
    <3>1. PICK c : c = Rendered(p, q, 1)
      OBVIOUS
    <3>2. /\ c \in Contents /\ index'[q].versions = <<Item(s, c)>> /\ ~Exists(q)
          /\ \A x \in Ids \ {q} : index'[x] = index[x]
      BY <2>1, <3>1, PublishesAdds
    <3>3. q = r /\ s \in Stamps /\ index[r].versions = <<>>
      BY <1>1, <2>1, <3>2 DEF Publishes, Exists
    <3>4. Item(s, c) \in [stamp : Stamps, sha : Contents]
      BY <3>2, <3>3 DEF Item
    <3>5. PICK i \in [stamp : Stamps, sha : Contents] : i = Item(s, c)
      BY <3>4
    <3>6. Append(<<>>, i) = <<i>>
      OBVIOUS
    <3> QED
      BY <3>2, <3>3, <3>5, <3>6
  <2>2. ASSUME NEW t \in Requests, WriteIndex(t)
        PROVE  \E i \in [stamp : Stamps, sha : Contents] :
                 index'[r].versions = Append(index[r].versions, i)
    <3>1. PICK j, q, v : j = job[t] /\ q = j.place[1] /\ v = Active(q) + 1
      OBVIOUS
    <3>2. j.place \in Places /\ j.content \in Contents
      BY <2>2, <3>1, WriteIndexAdds
    <3>3. \A x \in Ids \ {q} : index'[x] = index[x]
      BY <2>2, <3>1, WriteIndexAdds
    <3>4. index'[q].versions = Append(index[q].versions, Item(j.place[3], j.content))
      BY <2>2, <3>1, WriteIndexAdds
    <3>5. Item(j.place[3], j.content) \in [stamp : Stamps, sha : Contents] /\ q = r
      BY <1>1, <3>2, <3>3 DEF Item, Places
    <3> QED
      BY <3>4, <3>5
  <2> QED
    BY <1>1, <2>1, <2>2, IndexEffects
<1>2. ASSUME NEW o \in DOMAIN links, links'[o] # links[o]
      PROVE  \E r \in Ids : links'[o] \in {links[o] \cup {r}, links[o] \ {r}}
  <2>1. PICK t \in Requests : WriteLinks(t)
    BY <1>2, StepEffects
       DEF Effects, Ends, Begins, Starts, GivesUp, Publishes, WriteIndex, EditWritesProfile,
           ReadLinks, history, places
  <2>2. step[t] = "linking" /\ links' = [links EXCEPT ![job[t].owner] = job[t].linked]
    BY <2>1 DEF WriteLinks
  <2>3. o = job[t].owner /\ links'[o] = job[t].linked
    BY <1>2, <2>2 DEF RInv, ResourceTypes, DiskTypes
  <2> QED
    BY <2>2, <2>3 DEF RInv, LinkInv
<1> QED
  BY <1>1, <1>2 DEF KeepsHistory

-----------------------------------------------------------------------------
(* The files the indexes list.                                             *)

\* A file put in a place no index lists, or removed from it, disturbs no index;
\* nor does a removal where a move has failed.
LEMMA OtherFiles ==
  ASSUME IndexedFilesExist, RInv, UNCHANGED index, unmoved \subseteq unmoved',
         NEW f \in Places, NEW c, NotIndexed(f) \/ (f \in unmoved /\ c = None),
         files' = [files EXCEPT ![f] = c]
  PROVE  IndexedFilesExist'
<1>1. Existing' = Existing /\ \A r : Active(r)' = Active(r)
  BY SameIndex
<1>2. ASSUME NEW r \in Existing, NEW v \in 1..Active(r), NEW g,
             g = <<r, v, index[r].versions[v].stamp>>
      PROVE  files'[g] = index[r].versions[v].sha \/ (files'[g] = None /\ g \in unmoved')
  <2>1. g \in Places
    <3>1. r \in Ids
      BY DEF Existing
    <3> QED
      BY <1>2, <3>1, IndexedPlaces DEF Places
  <2>2. files[g] = index[r].versions[v].sha \/ (files[g] = None /\ g \in unmoved)
    BY <1>2 DEF IndexedFilesExist
  <2>3. files \in [Places -> Contents \cup {None}]
    BY DEF RInv, ResourceTypes, DiskTypes
  <2>4. CASE g # f
    BY <2>1, <2>2, <2>3, <2>4
  <2>5. CASE g = f
    <3>1. g[1] = r
      BY <1>2
    <3>2. ~NotIndexed(f)
      BY <1>2, <2>5, <3>1 DEF NotIndexed
    <3> QED
      BY <2>1, <2>3, <2>5, <3>2
  <2> QED
    BY <2>4, <2>5
<1> QED
  BY <1>1, <1>2 DEF IndexedFilesExist

FInv == RInv /\ FilesInv /\ IndexedFilesExist

\* The file after the last version of a resource is in no index.
LEMMA NextIsNotIndexed ==
  ASSUME RInv, NEW f \in Places, f[2] = Active(f[1]) + 1
  PROVE  NotIndexed(f)
<1>1. PICK r \in Ids : r = f[1]
  BY DEF Places
<1>2. index[r].versions \in Seq([stamp : Stamps, sha : Contents])
  BY DEF RInv, ResourceTypes, IndexTypes, Indexes
<1>3. Active(r) \in Nat
  BY <1>2 DEF Active
<1>4. \A v \in 1..Active(r) : v # Active(r) + 1
  BY <1>3
<1> QED
  BY <1>1, <1>4 DEF NotIndexed

\* A request that ends leaves the file of every other request, and every listed
\* file, in place.
LEMMA EndsKeepsFiles ==
  ASSUME FInv, Ends
  PROVE  FilesInv' /\ IndexedFilesExist'
<1>1. /\ UNCHANGED <<index, unmoved>>
      /\ Existing' = Existing
      /\ \A r : Active(r)' = Active(r) /\ (Exists(r)' <=> Exists(r))
  BY SameIndex DEF Ends
<1>2. ASSUME NEW u \in Requests, step'[u] # "idle"
      PROVE  /\ job'[u] = job[u]
             /\ step'[u] = step[u] \/ (step[u] = "moved" /\ step'[u] = "failed")
  BY <1>2 DEF Ends
<1>3. \A u \in Requests : step'[u] \in Busy => /\ step[u] \in Busy /\ job'[u] = job[u]
                                              /\ job[u].place \in Places
  BY <1>2 DEF Busy, Placing, FInv, RInv, IdsInv
<1>4. \A u \in Requests : step'[u] \in Busy =>
        \/ files'[job[u].place] = files[job[u].place]
        \/ files'[job[u].place] = None /\ job[u].place \in unmoved
  <2>1. CASE UNCHANGED files
    BY <2>1
  <2>2. ASSUME NEW t \in Requests, Removes(t), NEW u \in Requests, step'[u] \in Busy
        PROVE  \/ files'[job[u].place] = files[job[u].place]
               \/ files'[job[u].place] = None /\ job[u].place \in unmoved
    <3>1. step[t] \in Busy /\ step[u] \in Busy /\ u # t
      BY <1>3, <2>2 DEF Removes, Busy, Placing
    <3>2. job[u].place # job[t].place \/ job[u].place \in unmoved
      BY <3>1 DEF FInv, FilesInv
    <3>3. job[u].place \in Places /\ files \in [Places -> Contents \cup {None}]
      BY <1>3, <2>2 DEF FInv, RInv, ResourceTypes, DiskTypes
    <3> QED
      BY <2>2, <3>2, <3>3 DEF Removes
  <2> QED
    BY <2>1, <2>2 DEF Ends
<1>5. ASSUME NEW u \in Requests, step'[u] = "failed", job[u].place \notin unmoved
      PROVE  files'[job[u].place] # None /\ NotIndexed(job[u].place)
  <2>1. files'[job[u].place] = files[job[u].place] /\ job[u].place \in Places
    BY <1>3, <1>4, <1>5 DEF Busy
  <2>2. CASE step[u] = "failed"
    BY <1>5, <2>1, <2>2 DEF FInv, FilesInv
  <2>3. CASE step[u] # "failed"
    <3>1. step[u] = "moved" /\ step[u] \in Placing
      BY <1>2, <1>5, <2>3 DEF Placing
    <3>2. files[job[u].place] = job[u].content /\ job[u].content \in Contents
      BY <1>5, <3>1 DEF FInv, FilesInv, InPlace, RInv, EntryInv
    <3>3. job[u].place[2] = Active(job[u].place[1]) + 1
      BY <3>1 DEF FInv, RInv, EntryInv
    <3>4. NotIndexed(job[u].place)
      BY <2>1, <3>3, NextIsNotIndexed DEF FInv
    <3> QED
      BY <2>1, <3>2, <3>4, NoneIsNoContent
  <2> QED
    BY <2>2, <2>3
<1>6. FilesInv'
  <2>1. ASSUME NEW u \in Requests, step'[u] \in Placing
        PROVE  InPlace(job[u].place, job[u].content)'
    <3>1. step[u] \in Placing /\ step'[u] \in Busy /\ job'[u] = job[u]
      BY <1>2, <2>1 DEF Busy, Placing
    <3>2. InPlace(job[u].place, job[u].content)
      BY <3>1 DEF FInv, FilesInv
    <3> QED
      BY <1>1, <1>4, <3>1, <3>2 DEF InPlace
  <2>2. \A u \in Requests : step'[u] = "failed" =>
          \/ job'[u].place \in unmoved'
          \/ /\ files'[job'[u].place] # None
             /\ \A v \in 1..Len(index'[job'[u].place[1]].versions) :
                  job'[u].place # <<job'[u].place[1], v, index'[job'[u].place[1]].versions[v].stamp>>
    BY <1>1, <1>3, <1>5 DEF Busy, NotIndexed, Active
  <2>3. \A t, u \in Requests :
          t # u /\ step'[t] \in Busy /\ step'[u] \in Busy =>
            job'[t].place # job'[u].place \/ job'[t].place \in unmoved'
    BY <1>1, <1>3 DEF FInv, FilesInv
  <2> QED
    BY <2>1, <2>2, <2>3 DEF FilesInv, NotIndexed, Active
<1>7. IndexedFilesExist'
  <2>1. CASE UNCHANGED files
    BY <1>1, <2>1 DEF FInv, IndexedFilesExist
  <2>2. ASSUME NEW t \in Requests, Removes(t)
        PROVE  IndexedFilesExist'
    <3>1. step[t] \in Busy /\ job[t].place \in Places
      BY <2>2 DEF Removes, Busy, Placing, FInv, RInv, IdsInv
    <3>2. NotIndexed(job[t].place) \/ job[t].place \in unmoved
      <4>1. CASE step[t] = "failed"
        BY <4>1 DEF FInv, FilesInv
      <4>2. CASE step[t] \in Placing
        BY <3>1, <4>2, NextIsNotIndexed DEF FInv, RInv, EntryInv
      <4> QED
        BY <3>1, <4>1, <4>2 DEF Busy
    <3> QED
      BY <1>1, <2>2, <3>1, <3>2, OtherFiles DEF FInv, Removes
  <2> QED
    BY <2>1, <2>2 DEF Ends
<1> QED
  BY <1>6, <1>7

\* A file still to be removed is not where a new one is put, unless a move there
\* has failed.
LEMMA PlaceIsNew ==
  ASSUME FInv, NEW j, NewPlace(j), NEW u \in Requests, step[u] = "failed"
  PROVE  job[u].place # j.place \/ job[u].place \in unmoved
BY DEF FInv, FilesInv, NewPlace

LEMMA BeginsKeepsFiles ==
  ASSUME FInv, NEW t \in Requests, NEW j, NewPlace(j), Begins(t, j) \/ GivesUp(t, j)
  PROVE  FilesInv' /\ IndexedFilesExist'
<1>1. /\ Ready(t) /\ UNCHANGED index /\ job' = [job EXCEPT ![t] = j]
      /\ unmoved \subseteq unmoved'
      /\ \/ /\ step' = [step EXCEPT ![t] = "failed"] /\ UNCHANGED files /\ j.place \in unmoved'
         \/ /\ \E at \in {"moved", "edited"} : step' = [step EXCEPT ![t] = at]
            /\ files' = [files EXCEPT ![j.place] = j.content]
  BY DEF Begins, Starts, GivesUp, Enter, places, history
<1>2. /\ Existing' = Existing
      /\ \A r : Active(r)' = Active(r) /\ (Exists(r)' <=> Exists(r))
  BY <1>1, SameIndex
<1>3. /\ \A u \in Requests \ {t} : step'[u] = step[u] /\ job'[u] = job[u]
      /\ job'[t] = j
  BY <1>1 DEF FInv, RInv, ResourceTypes, RequestTypes
<1>4. \A u \in Requests \ {t} : step[u] \in {"idle", "failed"}
  BY <1>1, Alone DEF Ready, FInv
<1>5. \A u \in Requests \ {t} : step[u] \in Busy =>
        /\ step[u] = "failed" /\ job[u].place \in Places
        /\ job[u].place # j.place \/ job[u].place \in unmoved
  BY <1>4, PlaceIsNew DEF Busy, Placing, FInv, RInv, IdsInv
<1>6. j.place \in Places /\ files \in [Places -> Contents \cup {None}]
  BY DEF NewPlace, FInv, RInv, ResourceTypes, DiskTypes
<1>7. NotIndexed(j.place)
  BY <1>6, NextIsNotIndexed DEF NewPlace, FInv
<1>8. \/ step'[t] = "failed" /\ j.place \in unmoved'
      \/ step'[t] \in {"moved", "edited"} /\ files'[j.place] = j.content
  <2>1. step \in [Requests -> StepNames]
    BY DEF FInv, RInv, ResourceTypes, RequestTypes
  <2> QED
    BY <1>1, <1>6, <2>1
<1>9. FilesInv'
  <2>1. \A u \in Requests : step'[u] \in Placing => InPlace(job[u].place, job[u].content)'
    BY <1>3, <1>4, <1>8 DEF Placing, InPlace
  <2>2. \A u \in Requests : step'[u] = "failed" =>
          \/ job'[u].place \in unmoved'
          \/ /\ files'[job'[u].place] # None
             /\ \A v \in 1..Len(index'[job'[u].place[1]].versions) :
                  job'[u].place # <<job'[u].place[1], v, index'[job'[u].place[1]].versions[v].stamp>>
    <3>1. ASSUME NEW u \in Requests \ {t}, step[u] = "failed", job[u].place \notin unmoved
          PROVE  files'[job[u].place] # None /\ NotIndexed(job[u].place)
      <4>1. files[job[u].place] # None /\ NotIndexed(job[u].place)
        BY <3>1 DEF FInv, FilesInv
      <4>2. job[u].place # j.place /\ job[u].place \in Places
        BY <1>5, <3>1 DEF Busy
      <4> QED
        BY <1>1, <1>6, <4>1, <4>2
    <3>2. ASSUME NEW u \in Requests \ {t}, step'[u] = "failed"
          PROVE  \/ job'[u].place \in unmoved'
                 \/ /\ files'[job'[u].place] # None
                    /\ \A v \in 1..Len(index'[job'[u].place[1]].versions) :
                         job'[u].place # <<job'[u].place[1], v, index'[job'[u].place[1]].versions[v].stamp>>
      BY <1>1, <1>3, <3>1, <3>2 DEF NotIndexed, Active
    <3> QED
      BY <1>3, <1>8, <3>2
  <2>3. \A u, w \in Requests :
          u # w /\ step'[u] \in Busy /\ step'[w] \in Busy =>
            job'[u].place # job'[w].place \/ job'[u].place \in unmoved'
    BY <1>1, <1>3, <1>5 DEF FInv, FilesInv
  <2> QED
    BY <2>1, <2>2, <2>3 DEF FilesInv, NotIndexed, Active
<1>10. IndexedFilesExist'
  <2>1. CASE UNCHANGED files
    BY <1>1, <1>2, <2>1 DEF FInv, IndexedFilesExist
  <2>2. CASE files' = [files EXCEPT ![j.place] = j.content]
    BY <1>1, <1>6, <1>7, <2>2, OtherFiles DEF FInv
  <2> QED
    BY <1>1, <2>1, <2>2
<1> QED
  BY <1>9, <1>10

LEMMA PublishesKeepsFiles ==
  ASSUME FInv, NEW r, NEW p, NEW s, NEW type \in ProfileTypes, NEW by, Publishes(r, p, s, type, by)
  PROVE  FilesInv' /\ IndexedFilesExist'
<1>1. PICK c : c = Rendered(p, r, 1)
  OBVIOUS
<1>2. /\ r \in Ids /\ ~Exists(r)
      /\ index'[r].versions[1].sha = c /\ index'[r].versions[1].stamp = s /\ Active(r)' = 1
      /\ \A q \in Ids \ {r} : index'[q] = index[q]
      /\ \A q \in Ids \ {r} : Active(q)' = Active(q) /\ (Exists(q)' <=> Exists(q))
      /\ \A u \in Requests : step[u] \in Busy => job[u].place[1] \in Ids \ {r}
  BY <1>1, PublishesAdds DEF FInv
<1>3. PICK f : f = <<r, 1, s>>
  OBVIOUS
<1>4. /\ files' = [files EXCEPT ![f] = c] /\ UNCHANGED <<step, job, unmoved>> /\ s \in Stamps
  BY <1>1, <1>3 DEF Publishes
<1>5. f \in Places /\ f[1] = r
  BY <1>2, <1>3, <1>4, ResourceConstants DEF Places, Versions
<1>6. files'[f] = c /\ \A g \in Places : g[1] # r => files'[g] = files[g]
  BY <1>4, <1>5 DEF FInv, RInv, ResourceTypes, DiskTypes
<1>7. \A u \in Requests : step[u] \in Busy =>
        job[u].place \in Places /\ files'[job[u].place] = files[job[u].place]
  BY <1>2, <1>6 DEF FInv, RInv, IdsInv
<1>8. FilesInv'
  <2>1. \A u \in Requests : step[u] \in Placing => InPlace(job[u].place, job[u].content)'
    BY <1>4, <1>7 DEF FInv, FilesInv, InPlace, Busy
  <2>2. ASSUME NEW u \in Requests, step[u] = "failed", job[u].place \notin unmoved
        PROVE  files'[job[u].place] # None /\ NotIndexed(job[u].place)'
    <3>1. /\ files[job[u].place] # None
          /\ NotIndexed(job[u].place) /\ files'[job[u].place] = files[job[u].place]
      BY <1>7, <2>2 DEF FInv, FilesInv, Busy
    <3>2. PICK q \in Ids \ {r} : q = job[u].place[1]
      BY <1>2, <2>2 DEF Busy
    <3>3. index'[q] = index[q]
      BY <1>2
    <3>4. index'[job[u].place[1]] = index[job[u].place[1]]
      BY <3>2, <3>3
    <3> QED
      BY <1>4, <3>1, <3>4 DEF NotIndexed, Active
  <2>3. \A t, u \in Requests :
          t # u /\ step[t] \in Busy /\ step[u] \in Busy =>
            job[t].place # job[u].place \/ job[t].place \in unmoved
    BY DEF FInv, FilesInv
  <2> QED
    BY <1>4, <2>1, <2>2, <2>3 DEF FilesInv
<1>9. IndexedFilesExist'
  <2>1. ASSUME NEW q \in Existing', NEW v \in 1..Active(q)'
        PROVE  InPlace(<<q, v, index[q].versions[v].stamp>>, index[q].versions[v].sha)'
    <3>1. CASE q = r
      <4>1. v = 1
        BY <1>2, <2>1, <3>1
      <4> QED
        BY <1>2, <1>3, <1>6, <3>1, <4>1 DEF InPlace
    <3>2. CASE q # r
      <4>1. q \in Existing /\ q \in Ids \ {r} /\ v \in 1..Active(q)
        BY <1>2, <2>1, <3>2 DEF Existing
      <4>2. /\ index[q].versions[v].stamp \in Stamps /\ v \in Versions
        BY <4>1, IndexedPlaces DEF FInv
      <4>3. <<q, v, index[q].versions[v].stamp>> \in Places
        BY <4>1, <4>2 DEF Places
      <4>4. InPlace(<<q, v, index[q].versions[v].stamp>>, index[q].versions[v].sha)
        BY <4>1 DEF FInv, IndexedFilesExist, InPlace
      <4> QED
        BY <1>2, <1>4, <1>6, <3>2, <4>1, <4>3, <4>4 DEF InPlace
    <3> QED
      BY <3>1, <3>2
  <2> QED
    BY <2>1 DEF IndexedFilesExist, InPlace
<1> QED
  BY <1>8, <1>9

LEMMA WriteIndexKeepsFiles ==
  ASSUME FInv, NEW t \in Requests, WriteIndex(t)
  PROVE  FilesInv' /\ IndexedFilesExist'
<1>1. PICK j, r, v : j = job[t] /\ r = j.place[1] /\ v = Active(r) + 1
  OBVIOUS
<1>2. /\ r \in Ids /\ Active(r) \in Nat /\ j.place = <<r, v, j.place[3]>>
      /\ Active(r)' = v /\ Exists(r)'
      /\ \A w \in 1..Active(r) : index'[r].versions[w] = index[r].versions[w]
      /\ index'[r].versions[v].sha = j.content /\ index'[r].versions[v].stamp = j.place[3]
      /\ \A q \in Ids \ {r} : index'[q] = index[q]
      /\ \A q \in Ids \ {r} : Active(q)' = Active(q) /\ (Exists(q)' <=> Exists(q))
      /\ step[t] \in {"moved", "profiled"} /\ step'[t] = "idle"
      /\ \A u \in Requests \ {t} : step[u] \in {"idle", "failed"} /\ step'[u] = step[u] /\ job'[u] = job[u]
  <2>1. RInv
    BY DEF FInv
  <2>2. j.place = <<r, v, j.place[3]>> /\ index'[r].versions[v].stamp = j.place[3]
    <3>1. j.place \in Places /\ j.place[2] = v
      BY <1>1, <2>1, WriteIndexAdds
    <3>2. index'[r].versions[v].stamp = j.place[3]
      BY <1>1, <2>1, WriteIndexAdds
    <3> QED
      BY <1>1, <3>1, <3>2 DEF Places
  <2>3. /\ r \in Ids /\ Active(r) \in Nat /\ Active(r)' = v /\ Exists(r)'
        /\ \A w \in 1..Active(r) : index'[r].versions[w] = index[r].versions[w]
        /\ index'[r].versions[v].sha = j.content
        /\ \A q \in Ids \ {r} : index'[q] = index[q]
    BY <1>1, <2>1, WriteIndexAdds
  <2>4. \A q \in Ids \ {r} : Active(q)' = Active(q) /\ (Exists(q)' <=> Exists(q))
    BY <1>1, <2>1, WriteIndexAdds
  <2>5. /\ step[t] \in {"moved", "profiled"} /\ step'[t] = "idle"
        /\ \A u \in Requests \ {t} :
             step[u] \in {"idle", "failed"} /\ step'[u] = step[u] /\ job'[u] = job[u]
    BY <1>1, <2>1, WriteIndexAdds
  <2> QED
    BY <2>2, <2>3, <2>4, <2>5
<1>3. UNCHANGED <<files, unmoved>>
  BY DEF WriteIndex
<1>4. InPlace(j.place, j.content)
  BY <1>1, <1>2 DEF FInv, FilesInv, Placing
<1>5. \A w \in 1..v : w \in 1..Active(r) \/ w = v
  BY <1>1, <1>2
<1>6. ASSUME NEW u \in Requests \ {t}, step[u] = "failed", NEW f, f = job[u].place, f \notin unmoved
      PROVE  /\ files[f] # None
             /\ \A w \in 1..Len(index'[f[1]].versions) : f # <<f[1], w, index'[f[1]].versions[w].stamp>>
  <2>1. files[f] # None /\ NotIndexed(f) /\ f # j.place
    BY <1>1, <1>2, <1>6 DEF FInv, FilesInv, Busy, Placing
  <2>2. PICK q \in Ids : q = f[1]
    BY <1>6 DEF FInv, RInv, IdsInv, Busy, Places
  <2>3. CASE q # r
    <3>1. index'[q] = index[q]
      BY <1>2, <2>2, <2>3
    <3> QED
      BY <2>1, <2>2, <3>1 DEF NotIndexed, Active
  <2>4. CASE q = r
    <3>3. \A w \in 1..Active(r) : f # <<r, w, index[r].versions[w].stamp>>
      BY <2>1, <2>2, <2>4 DEF NotIndexed
    <3>4. \A w \in 1..v : f # <<r, w, index'[r].versions[w].stamp>>
      BY <1>2, <1>5, <2>1, <3>3
    <3>5. Len(index'[r].versions) = v
      BY <1>2 DEF Active
    <3> QED
      BY <2>1, <2>2, <2>4, <3>4, <3>5
  <2> QED
    BY <2>3, <2>4
<1>7. FilesInv'
  <2>1. \A u \in Requests : step'[u] \notin Placing
    BY <1>2 DEF Placing
  <2>2. \A u \in Requests : step'[u] = "failed" => u # t /\ step[u] = "failed" /\ job'[u] = job[u]
    BY <1>2
  <2>3. \A u \in Requests : step'[u] = "failed" =>
          \/ job'[u].place \in unmoved'
          \/ /\ files'[job'[u].place] # None
             /\ \A w \in 1..Len(index'[job'[u].place[1]].versions) :
                  job'[u].place # <<job'[u].place[1], w, index'[job'[u].place[1]].versions[w].stamp>>
    BY <1>3, <1>6, <2>2
  <2>4. \A u, w \in Requests :
          u # w /\ step'[u] \in Busy /\ step'[w] \in Busy =>
            job'[u].place # job'[w].place \/ job'[u].place \in unmoved'
    BY <1>3, <2>1, <2>2 DEF FInv, FilesInv, Busy
  <2> QED
    BY <2>1, <2>3, <2>4 DEF FilesInv, NotIndexed, Active
<1>8. IndexedFilesExist'
  <2>1. ASSUME NEW q \in Existing', NEW w \in 1..Active(q)'
        PROVE  InPlace(<<q, w, index[q].versions[w].stamp>>, index[q].versions[w].sha)'
    <3>1. CASE q = r /\ w = v
      BY <1>2, <1>3, <1>4, <3>1 DEF InPlace
    <3>2. CASE q = r /\ w # v
      <4>1. w \in 1..Active(r)
        BY <1>2, <1>5, <2>1, <3>2
      <4>2. r \in Existing
        BY <1>2, <4>1, IndexedPlaces DEF FInv
      <4> QED
        BY <1>2, <1>3, <3>2, <4>1, <4>2 DEF FInv, IndexedFilesExist, InPlace
    <3>3. CASE q # r
      <4>1. q \in Existing /\ q \in Ids \ {r} /\ w \in 1..Active(q)
        BY <1>2, <2>1, <3>3 DEF Existing
      <4> QED
        BY <1>2, <1>3, <4>1 DEF FInv, IndexedFilesExist, InPlace
    <3> QED
      BY <3>1, <3>2, <3>3
  <2> QED
    BY <2>1 DEF IndexedFilesExist, InPlace
<1> QED
  BY <1>7, <1>8

\* The profile is replaced, or links are read: no file is touched.
LEMMA OtherStepsKeepFiles ==
  ASSUME FInv, NEW t \in Requests,
         \/ EditWritesProfile(t)
         \/ \E o \in LinkedTags \cup Ids, r \in Ids : ReadLinks(t, o, r)
  PROVE  FilesInv' /\ IndexedFilesExist'
<1>1. UNCHANGED <<index, files, unmoved>>
  BY DEF EditWritesProfile, ReadLinks, places, history
<1>2. /\ Existing' = Existing
      /\ \A r : Active(r)' = Active(r) /\ (Exists(r)' <=> Exists(r))
  BY <1>1, SameIndex
<1>3. IndexedFilesExist'
  BY <1>1, <1>2 DEF FInv, IndexedFilesExist
<1>4. \A f : NotIndexed(f)' <=> NotIndexed(f)
  BY <1>1, <1>2 DEF NotIndexed
<1>5. \A u \in Requests :
        /\ step'[u] \in Placing => step[u] \in Placing /\ job'[u] = job[u]
        /\ step'[u] = "failed" => step[u] = "failed" /\ job'[u] = job[u]
  <2>1. \/ step[t] = "edited" /\ step' = [step EXCEPT ![t] = "profiled"] /\ UNCHANGED job
        \/ step' = [step EXCEPT ![t] = "linking"] /\ \E j : job' = [job EXCEPT ![t] = j]
    BY DEF EditWritesProfile, ReadLinks, Enter
  <2> QED
    BY <2>1 DEF Placing, FInv, RInv, ResourceTypes, RequestTypes
<1>6. \A u \in Requests : step'[u] \in Busy => step[u] \in Busy /\ job'[u] = job[u]
  BY <1>5 DEF Busy
<1>7. FilesInv'
  <2>1. \A u \in Requests : step'[u] \in Placing => InPlace(job[u].place, job[u].content)'
    BY <1>1, <1>5 DEF FInv, FilesInv, InPlace
  <2>2. \A u \in Requests : step'[u] = "failed" =>
          \/ job'[u].place \in unmoved'
          \/ /\ files'[job'[u].place] # None
             /\ \A w \in 1..Len(index'[job'[u].place[1]].versions) :
                  job'[u].place # <<job'[u].place[1], w, index'[job'[u].place[1]].versions[w].stamp>>
    BY <1>1, <1>5 DEF FInv, FilesInv, NotIndexed, Active
  <2>3. \A u, w \in Requests :
          u # w /\ step'[u] \in Busy /\ step'[w] \in Busy =>
            job'[u].place # job'[w].place \/ job'[u].place \in unmoved'
    BY <1>1, <1>6 DEF FInv, FilesInv
  <2> QED
    BY <2>1, <2>2, <2>3 DEF FilesInv, NotIndexed, Active
<1> QED
  BY <1>3, <1>7

LEMMA FilesStep ==
  ASSUME FInv, [ResourceNext]_resourceVars
  PROVE  FInv'
<1>1. Effects /\ RInv'
  BY StepEffects, ResourceInvStep DEF FInv
<1>2. ASSUME NEW t \in Requests, NEW j, NewPlace(j), Begins(t, j) \/ GivesUp(t, j)
      PROVE  FilesInv' /\ IndexedFilesExist'
  BY <1>2, BeginsKeepsFiles
<1>3. FilesInv' /\ IndexedFilesExist'
  BY <1>1, <1>2, EndsKeepsFiles, PublishesKeepsFiles, WriteIndexKeepsFiles, OtherStepsKeepFiles
     DEF Effects, Begins
<1> QED
  BY <1>1, <1>3 DEF FInv

-----------------------------------------------------------------------------
(* The theorems.                                                           *)

LEMMA ResourceInvHolds == ResourceSpec => []RInv
<1>1. ResourceInit => RInv
  BY ResourceInitInv
<1>2. RInv /\ [ResourceNext]_resourceVars => RInv'
  BY ResourceInvStep
<1> QED
  BY <1>1, <1>2, PTL DEF ResourceSpec

\* Indexes, files, profiles, links and requests stay in their types and every
\* resource within its versions, whatever fails.
THEOREM ResourcesAreTyped == ResourceSpec => []ResourceTypeOK
<1>1. RInv => ResourceTypeOK
  BY TypesAreOK DEF RInv
<1> QED
  BY <1>1, ResourceInvHolds, PTL

\* No content is stored twice and no two uploads share a type and a name without
\* a confirmation.  (shared_resources.py:94-116, :128-140)
THEOREM UploadsStayDistinct == ResourceSpec => []UploadsAreDistinct
<1>1. ResourceInit => UploadsAreDistinct
  BY DEF ResourceInit, UploadsAreDistinct, Existing, Exists, NoIndex, Index
<1>2. RInv /\ UploadsAreDistinct /\ [ResourceNext]_resourceVars => UploadsAreDistinct'
  BY DistinctStep
<1> QED
  BY <1>1, <1>2, ResourceInvHolds, PTL DEF ResourceSpec

\* A profile is what the active version renders, or what the last rendering does
\* when a document was uploaded on top of it, but for an edit that is under way
\* or was interrupted.  (shared_resources.py:187-190, supplier_profiles.py:126-147,
\* equipment_parts.py:87-106)
THEOREM RevisionsFollow == ResourceSpec => []RevisionFollowsProfile
<1>1. ResourceInit => LastFollows
  BY DEF ResourceInit, LastFollows, Existing, Exists, NoIndex, Index
<1>2. RInv /\ LastFollows /\ [ResourceNext]_resourceVars => LastFollows'
  BY RevisionStep
<1>3. RInv /\ LastFollows => RevisionFollowsProfile
  BY ActiveFollows
<1> QED
  BY <1>1, <1>2, <1>3, ResourceInvHolds, PTL DEF ResourceSpec

\* Versions are only added and links change one by one.  (shared_resources.py:
\* 136-139, :229-244, resource_relationships.py:66-87)
THEOREM HistoryStays == ResourceSpec => HistoryIsKept
<1>1. RInv /\ [ResourceNext]_resourceVars => [KeepsHistory]_resourceVars
  BY HistoryStep
<1>2. ResourceSpec => [][KeepsHistory]_resourceVars
  BY <1>1, ResourceInvHolds, PTL DEF ResourceSpec
<1> QED
  BY <1>2 DEF HistoryIsKept, KeepsHistory

\* Whatever fails, every version an index lists has its file, with its content;
\* it can be missing, and only missing, where an earlier move to the same name
\* failed, whose clean-up runs outside the lock.  (shared_resources.py:103-122,
\* :128-145, supplier_profiles.py:137-147)
THEOREM ListedFilesExist == ResourceSpec => []IndexedFilesExist
<1>1. ResourceInit => FInv
  BY ResourceInitInv DEF FInv
<1>2. FInv /\ [ResourceNext]_resourceVars => FInv'
  BY FilesStep
<1>3. FInv => IndexedFilesExist
  BY DEF FInv
<1> QED
  BY <1>1, <1>2, <1>3, PTL DEF ResourceSpec
=============================================================================
