---------------------------- MODULE ResourceStore ----------------------------
(***************************************************************************)
(* The shared resources: services/shared_resources.py (uploaded documents  *)
(* with versions, links from tags), services/supplier_profiles.py and      *)
(* services/equipment_parts.py (resources whose versions are Markdown      *)
(* rendered from a profile) and services/resource_relationships.py (links  *)
(* between resources).  All four keep files, not rows, and share one lock  *)
(* in one process.                                                         *)
(*                                                                         *)
(* A file is written, moved or unlinked atomically and so is a JSON file   *)
(* replaced; between two of them the disk may refuse or the process die.   *)
(* An uploaded stream is already in its temporary file when an operation   *)
(* starts.  A SHA-256 is the content it is of, and whatever find_similar   *)
(* compares is one name.                                                   *)
(***************************************************************************)
EXTENDS Naturals, Sequences, FiniteSets

CONSTANTS
    Requests,      \* request threads
    UploadTypes,   \* resource types documents are uploaded as
    Names,         \* display names of uploaded documents
    Docs,          \* contents of uploaded files
    Profiles,      \* what a supplier or part profile may say
    NameOf,        \* the display name in a profile
    LinkedTags,    \* tags that carry references
    Stamps,        \* time and suffix in the name of a versioned file
    None,          \* no file, no profile, nobody holds the lock
    Failures,      \* steps that may fail: "move", "profile", "index", "crash"
    MaxResources,  \* bound: resources
    MaxVersions,   \* bound: versions of a resource
    MaxTokens,     \* bound: confirmations asked for
    MaxDiskFaults  \* bound: failing steps and crashes

ASSUME ResourceConstants ==
    /\ MaxResources \in Nat /\ MaxVersions \in Nat \ {0} /\ MaxTokens \in Nat
    /\ MaxDiskFaults \in Nat
    /\ NameOf \in [Profiles -> Names]
    /\ None \notin Requests \cup Profiles

VARIABLES
    index,         \* resource.json of each resource: type, name and versions
    files,         \* the versioned files, by resource, version and stamp
    profile,       \* profile.json of each resource
    links,         \* references.json of tags, relationships.json of resources
    decisions,     \* confirmations asked for and neither used nor expired
    last,          \* the resource ids generated so far
    tokens,        \* the tokens generated so far
    lock,          \* SharedResourceStore._write_lock
    step,          \* where each request stands
    job,           \* what it is about to write
    made,          \* history: how a resource came to be
    interrupted,   \* history: resources with an edit that failed half way
    unmoved,       \* history: places an uploaded file could not be moved to
    diskFaults

places       == <<index, files, profile, links>>
history      == <<made, interrupted, unmoved>>
resourceVars == <<places, decisions, last, tokens, lock, step, job, history, diskFaults>>

-----------------------------------------------------------------------------
Ids       == 1..MaxResources
Versions  == 1..MaxVersions
Places    == Ids \X Versions \X Stamps
ProfileTypes == {"Supplier", "EquipmentPart"}

\* Which resources may own links to which (tags may refer to any).
AllowedRelationships ==
    [o \in {"EquipmentPart", "Supplier"} |->
       IF o = "Supplier" THEN {"Quotation"}
       ELSE {"Manual", "Drawing", "Quotation", "GeneralDocument"}]

\* The content of a file: an uploaded document, or a profile rendered for a
\* version of a resource, whose id and version are part of the text.
Uploaded(d)       == [text |-> d, id |-> 0, version |-> 0]
Rendered(p, r, v) == [text |-> p, id |-> r, version |-> v]
Contents == [text : Docs \cup Profiles, id : 0..MaxResources, version : 0..MaxVersions]

ASSUME NoneIsNoContent == None \notin Contents

Item(s, c) == [stamp |-> s, sha |-> c]
Index(t, n, vs) == [type |-> t, name |-> n, versions |-> vs]
NoIndex    == Index(None, None, <<>>)

Exists(r)  == index[r].versions # <<>>
Active(r)  == Len(index[r].versions)
Existing   == {r \in Ids : Exists(r)}

\* Mutant of Duplicate: only the active versions are compared.
DuplicateOfActive(c) == \E r \in Existing : index[r].versions[Active(r)].sha = c

\* find_by_sha256
Duplicate(c) == \E r \in Existing : \E v \in 1..Active(r) : index[r].versions[v].sha = c

\* find_similar_resources, and find_similar of the parts
SimilarUploads(t, n) == {r \in Existing : index[r].type = t /\ index[r].name = n}
SimilarParts(p) == {r \in Existing : /\ index[r].type = "EquipmentPart"
                                     /\ profile[r] \in Profiles
                                     /\ NameOf[profile[r]] = NameOf[p]}

\* Mutant of FreshStamps: the directory is not looked at.
AnyStamps(r, v)   == Stamps

\* _versioned_filename: a name the directory does not hold yet.
FreshStamps(r, v) == {s \in Stamps : files[<<r, v, s>>] = None}

NoJob == [place |-> <<0, 0, None>>, content |-> None, entry |-> NoIndex, profile |-> None,
          token |-> 0, owner |-> None, linked |-> {}]
Decision(k, by, t, n, d, alike) ==
    [token |-> k, by |-> by, type |-> t, name |-> n, doc |-> d, candidates |-> alike]

\* A confirmation is needed exactly when there are candidates, and names the
\* request it was given for and at least one of them.
Confirmed(k, by, t, n, d, alike) ==
    IF alike = {} THEN k = 0
    ELSE \E c \in decisions :
           c = Decision(k, by, t, n, d, c.candidates) /\ c.candidates \cap alike # {}

ResourceTypeOK ==
    /\ index \in [Ids -> [type : UploadTypes \cup ProfileTypes \cup {None}, name : Names \cup {None},
                          versions : Seq([stamp : Stamps, sha : Contents])]]
    /\ \A r \in Ids : Active(r) <= MaxVersions
    /\ files \in [Places -> Contents \cup {None}]
    /\ profile \in [Ids -> Profiles \cup {None}]
    /\ links \in [LinkedTags \cup Ids -> SUBSET Ids]
    /\ last \in 0..MaxResources /\ tokens \in 0..MaxTokens /\ diskFaults \in 0..MaxDiskFaults
    /\ lock \in Requests \cup {None}
    /\ step \in [Requests -> {"idle", "moved", "edited", "profiled", "linking", "failed"}]
    /\ \A d \in decisions : d.token \in 1..tokens /\ d.candidates \in SUBSET Ids

ResourceInit ==
    /\ index = [r \in Ids |-> NoIndex]
    /\ files = [f \in Places |-> None]
    /\ profile = [r \in Ids |-> None]
    /\ links = [o \in LinkedTags \cup Ids |-> {}]
    /\ decisions = {} /\ last = 0 /\ tokens = 0
    /\ lock = None
    /\ step = [t \in Requests |-> "idle"]
    /\ job = [t \in Requests |-> NoJob]
    /\ made = [r \in Ids |-> [by |-> "nobody", token |-> 0]]
    /\ interrupted = {} /\ unmoved = {}
    /\ diskFaults = 0

-----------------------------------------------------------------------------
(* Documents.                                                              *)

Ready(t) == lock = None /\ step[t] = "idle"

Enter(t, at, j) ==
    /\ lock' = t
    /\ step' = [step EXCEPT ![t] = at]
    /\ job' = [job EXCEPT ![t] = j]

\* The request leaves the lock and has nothing more to do.
Leave(t) ==
    /\ lock' = None
    /\ step' = [step EXCEPT ![t] = "idle"]
    /\ job' = [job EXCEPT ![t] = NoJob]

Fault(f) == f \in Failures /\ diskFaults < MaxDiskFaults /\ diskFaults' = diskFaults + 1

\* A similar resource exists and no confirmation came with the request: the
\* candidates are answered, with a token to upload it as a separate one.
Ask(by, t, n, d, alike) ==
    /\ alike # {} /\ tokens < MaxTokens
    /\ tokens' = tokens + 1
    /\ decisions' = decisions \cup {Decision(tokens + 1, by, t, n, d, alike)}
    /\ UNCHANGED <<places, last, lock, step, job, history, diskFaults>>

ReviewUpload(t, type, n, d) ==
    /\ Ready(t) /\ ~Duplicate(Uploaded(d))
    /\ Ask("upload", type, n, d, SimilarUploads(type, n))

TokenExpires == \E d \in decisions :
    /\ decisions' = decisions \ {d}
    /\ UNCHANGED <<places, last, tokens, lock, step, job, history, diskFaults>>

\* The uploaded file is moved to its place and the index written next; or the
\* move fails, the lock is left and the clean-up of the request comes after it,
\* though another request may have taken the name by then.
Move(t, j) ==
    \/ /\ Enter(t, "moved", j)
       /\ files' = [files EXCEPT ![j.place] = j.content]
       /\ UNCHANGED <<unmoved, diskFaults>>
    \/ /\ Fault("move")
       /\ step' = [step EXCEPT ![t] = "failed"]
       /\ job' = [job EXCEPT ![t] = j]
       /\ unmoved' = unmoved \cup {j.place}
       /\ UNCHANGED <<files, lock>>

\* upload_new
UploadNew(t, type, n, d, k) ==
    /\ Ready(t) /\ last < MaxResources
    /\ ~Duplicate(Uploaded(d))
    /\ Confirmed(k, "upload", type, n, d, SimilarUploads(type, n))
    /\ last' = last + 1
    /\ \E s \in FreshStamps(last + 1, 1) :
         Move(t, [NoJob EXCEPT !.place = <<last + 1, 1, s>>, !.content = Uploaded(d), !.token = k,
                               !.entry = Index(type, n, <<Item(s, Uploaded(d))>>)])
    /\ UNCHANGED <<index, profile, links, decisions, tokens, made, interrupted>>

\* upload_version: of any resource, also of one with a profile.
UploadVersion(t, r, d) ==
    /\ Ready(t) /\ Exists(r) /\ Active(r) < MaxVersions
    /\ ~Duplicate(Uploaded(d))
    /\ \E s \in FreshStamps(r, Active(r) + 1) :
         Move(t, [NoJob EXCEPT !.place = <<r, Active(r) + 1, s>>, !.content = Uploaded(d),
                               !.entry = [index[r] EXCEPT !.versions = Append(@, Item(s, Uploaded(d)))]])
    /\ UNCHANGED <<index, profile, links, decisions, last, tokens, made, interrupted>>

\* The index is replaced, the token used up, and the request is done.
WriteIndex(t) ==
    /\ step[t] \in {"moved", "profiled"}
    /\ LET r == job[t].place[1] IN
         /\ index' = [index EXCEPT ![r] = job[t].entry]
         /\ made' = IF Exists(r) THEN made
                    ELSE [made EXCEPT ![r] = [by |-> "upload", token |-> job[t].token]]
         /\ interrupted' = IF step[t] = "profiled" THEN interrupted \ {r} ELSE interrupted
    /\ decisions' = {d \in decisions : d.token # job[t].token}
    /\ Leave(t)
    /\ UNCHANGED <<files, profile, links, last, tokens, unmoved, diskFaults>>

\* The index of an upload cannot be replaced: the exception leaves the lock.
UploadFails(t) ==
    /\ step[t] = "moved" /\ Fault("index")
    /\ lock' = None
    /\ step' = [step EXCEPT ![t] = "failed"]
    /\ UNCHANGED <<places, decisions, last, tokens, job, history>>

\* ... and its handler, outside the lock, unlinks the file of that name.
CleanUp(t) ==
    /\ step[t] = "failed"
    /\ files' = [files EXCEPT ![job[t].place] = None]
    /\ step' = [step EXCEPT ![t] = "idle"]
    /\ job' = [job EXCEPT ![t] = NoJob]
    /\ UNCHANGED <<index, profile, links, decisions, last, tokens, lock, history, diskFaults>>

-----------------------------------------------------------------------------
(* Profiles.                                                               *)

\* A profile, its first version and its index are made in a staging directory
\* that becomes the resource's by one rename: until then nothing is seen of it.
Publish(type, p, by, k) ==
    /\ last < MaxResources /\ last' = last + 1
    /\ \E s \in FreshStamps(last + 1, 1) :
         LET c == Rendered(p, last + 1, 1) IN
         /\ files' = [files EXCEPT ![<<last + 1, 1, s>>] = c]
         /\ index' = [index EXCEPT ![last + 1] = Index(type, NameOf[p], <<Item(s, c)>>)]
    /\ profile' = [profile EXCEPT ![last + 1] = p]
    /\ made' = [made EXCEPT ![last + 1] = [by |-> by, token |-> k]]
    /\ UNCHANGED <<links, tokens, lock, step, job, interrupted, unmoved, diskFaults>>

\* SupplierProfileStore.create: without the lock and without a review.
CreateSupplier(t, p) ==
    /\ step[t] = "idle"
    /\ Publish("Supplier", p, "supplier", 0)
    /\ UNCHANGED decisions

ReviewPart(t, p) ==
    /\ Ready(t)
    /\ Ask("part", "EquipmentPart", NameOf[p], p, SimilarParts(p))

\* EquipmentPartStore.create
CreatePart(t, p, k) ==
    /\ Ready(t)
    /\ Confirmed(k, "part", "EquipmentPart", NameOf[p], p, SimilarParts(p))
    /\ Publish("EquipmentPart", p, "part", k)
    /\ decisions' = {d \in decisions : d.token # k}

\* edit of both profile stores: unless the profile is the stored one, the
\* Markdown of the next version is written, then the profile, then the index.
EditWritesVersion(t, r, p) ==
    /\ Ready(t)
    /\ index[r].type \in ProfileTypes /\ profile[r] \notin {None, p}
    /\ Active(r) < MaxVersions
    /\ LET c == Rendered(p, r, Active(r) + 1) IN
       \E s \in FreshStamps(r, Active(r) + 1) :
         /\ files' = [files EXCEPT ![<<r, Active(r) + 1, s>>] = c]
         /\ Enter(t, "edited",
                  [NoJob EXCEPT !.place = <<r, Active(r) + 1, s>>, !.content = c, !.profile = p,
                                !.entry = Index(index[r].type, NameOf[p],
                                                Append(index[r].versions, Item(s, c)))])
    /\ UNCHANGED <<index, profile, links, decisions, last, tokens, history, diskFaults>>

\* Mutant of EditWritesProfile: the edit ends with the profile.
EditEndsWithProfile(t) ==
    /\ step[t] = "edited"
    /\ profile' = [profile EXCEPT ![job[t].place[1]] = job[t].profile]
    /\ Leave(t)
    /\ UNCHANGED <<index, files, links, decisions, last, tokens, history, diskFaults>>

EditWritesProfile(t) ==
    /\ step[t] = "edited"
    /\ profile' = [profile EXCEPT ![job[t].place[1]] = job[t].profile]
    /\ step' = [step EXCEPT ![t] = "profiled"]
    /\ UNCHANGED <<index, files, links, decisions, last, tokens, lock, job, history, diskFaults>>

\* The profile or the index cannot be replaced: the Markdown is unlinked under
\* the lock, a profile that was replaced stays.
EditFails(t) ==
    /\ \/ step[t] = "edited" /\ Fault("profile") /\ UNCHANGED interrupted
       \/ /\ step[t] = "profiled" /\ Fault("index")
          /\ interrupted' = interrupted \cup {job[t].place[1]}
    /\ files' = [files EXCEPT ![job[t].place] = None]
    /\ Leave(t)
    /\ UNCHANGED <<index, profile, links, decisions, last, tokens, made, unmoved>>

-----------------------------------------------------------------------------
(* Links, of tags and of resources: read, changed and replaced as a whole. *)

Linkable(o, r) ==
    /\ Exists(r)
    /\ \/ o \in LinkedTags
       \/ /\ o \in Existing \ {r} /\ index[o].type \in DOMAIN AllowedRelationships
          /\ index[r].type \in AllowedRelationships[index[o].type]

LinkJob(o, set) == [NoJob EXCEPT !.owner = o, !.linked = set]

\* Mutant of ReadLinks: the lock is not taken.
ReadLinksUnlocked(t, o, r) ==
    /\ step[t] = "idle" /\ Linkable(o, r)
    /\ step' = [step EXCEPT ![t] = "linking"]
    /\ job' = [job EXCEPT ![t] = LinkJob(o, IF r \in links[o] THEN links[o] \ {r}
                                                              ELSE links[o] \cup {r})]
    /\ UNCHANGED <<places, decisions, last, tokens, lock, history, diskFaults>>

\* link and unlink; linking what is linked already changes nothing.
ReadLinks(t, o, r) ==
    /\ Ready(t) /\ Linkable(o, r)
    /\ Enter(t, "linking", LinkJob(o, IF r \in links[o] THEN links[o] \ {r} ELSE links[o] \cup {r}))
    /\ UNCHANGED <<places, decisions, last, tokens, history, diskFaults>>

WriteLinks(t) ==
    /\ step[t] = "linking"
    /\ links' = [links EXCEPT ![job[t].owner] = job[t].linked]
    /\ Leave(t)
    /\ UNCHANGED <<index, files, profile, decisions, last, tokens, history, diskFaults>>

LinkFails(t) ==
    /\ step[t] = "linking" /\ Fault("index")
    /\ Leave(t)
    /\ UNCHANGED <<places, decisions, last, tokens, history>>

\* The process dies: files stay as they are, what it had in memory is gone.
Crash ==
    /\ Fault("crash")
    /\ lock' = None /\ decisions' = {}
    /\ step' = [t \in Requests |-> "idle"]
    /\ job' = [t \in Requests |-> NoJob]
    /\ interrupted' = interrupted \cup {job[t].place[1] : t \in {u \in Requests : step[u] = "profiled"}}
    /\ UNCHANGED <<places, last, tokens, made, unmoved>>

-----------------------------------------------------------------------------
Document(t) ==
    \/ \E type \in UploadTypes, n \in Names, d \in Docs :
         \/ ReviewUpload(t, type, n, d)
         \/ \E k \in 0..MaxTokens : UploadNew(t, type, n, d, k)
    \/ \E r \in Ids, d \in Docs : UploadVersion(t, r, d)
    \/ WriteIndex(t)
    \/ UploadFails(t)
    \/ CleanUp(t)

ProfileStore(t) ==
    \/ \E p \in Profiles :
         \/ CreateSupplier(t, p)
         \/ ReviewPart(t, p)
         \/ \E k \in 0..MaxTokens : CreatePart(t, p, k)
         \/ \E r \in Ids : EditWritesVersion(t, r, p)
    \/ EditWritesProfile(t)
    \/ EditFails(t)

Linking(t) ==
    \/ \E o \in LinkedTags \cup Ids, r \in Ids : ReadLinks(t, o, r)
    \/ WriteLinks(t)
    \/ LinkFails(t)

ResourceNext ==
    \/ \E t \in Requests : Document(t) \/ ProfileStore(t) \/ Linking(t)
    \/ TokenExpires
    \/ Crash

ResourceSpec == ResourceInit /\ [][ResourceNext]_resourceVars

-----------------------------------------------------------------------------
\* Whatever fails, and wherever the process dies, every version an index lists
\* has its file, with the content whose SHA-256 the index gives, and never
\* another's.  One case is excepted, for the code does not exclude it: the file
\* of a version could not be moved to a name, a second request moved its own
\* there and listed it, and the clean-up of the first, which runs outside the
\* lock, unlinks it; then the file is missing.  (shared_resources.py:103-122,
\* :128-145, supplier_profiles.py:137-147)
IndexedFilesExist ==
    \A r \in Existing : \A v \in 1..Active(r) :
      LET i == index[r].versions[v]
          f == <<r, v, i.stamp>>
      IN  files[f] = i.sha \/ (files[f] = None /\ f \in unmoved)

\* No content is stored twice, whatever uploads, versions and edits race, and
\* of two uploads of the same type and name one was confirmed after a review.
\* (shared_resources.py:94-116, :128-140)
UploadsAreDistinct ==
    \A r, q \in Existing :
      /\ \A v \in 1..Active(r), w \in 1..Active(q) :
           index[r].versions[v].sha = index[q].versions[w].sha => r = q /\ v = w
      /\ /\ r # q /\ made[r].by = "upload" /\ made[q].by = "upload"
         /\ index[r].type = index[q].type /\ index[r].name = index[q].name
         => made[r].token # 0 \/ made[q].token # 0

\* canonical_revision: what an integration compares, of the active version.
Revision(r) == index[r].versions[Active(r)].sha

\* The text of the version of a resource that was rendered last.
LastRendered(r) ==
    LET own == {v \in 1..Active(r) : index[r].versions[v].sha.id = r}
    IN  index[r].versions[CHOOSE v \in own : \A w \in own : w <= v].sha.text

\* A profile is what the active version of its resource renders, or, when a
\* document was uploaded on top of it, what the version rendered last does: so
\* no edit changes a profile under an integration that compares revisions.  One
\* case is excepted, and it is not only the time of an edit: after an edit whose
\* index could not be written, or whose process died, the profile is new and
\* the revision old, and sending the same profile again answers "unchanged"
\* (against md/ENGINEERING_RELATIONSHIP_CONTRACT.md:51-52, "meaningful edits change
\* the token").  (shared_resources.py:187-190,
\* supplier_profiles.py:126-147, equipment_parts.py:87-106)
RevisionFollowsProfile ==
    \A r \in Existing : profile[r] # None =>
      \/ Revision(r) = Rendered(profile[r], r, Active(r))
      \/ Revision(r) \in {Uploaded(d) : d \in Docs} /\ LastRendered(r) = profile[r]
      \/ r \in interrupted
      \/ \E t \in Requests : step[t] = "profiled" /\ job[t].place[1] = r

\* Versions are only ever added, one at a time, and a links file changes by
\* the one link its request is about.  (shared_resources.py:136-139, :229-244,
\* resource_relationships.py:66-87)
HistoryIsKept ==
    [][/\ \A r \in Ids : index'[r] # index[r] =>
            \E i \in [stamp : Stamps, sha : Contents] :
              index'[r].versions = Append(index[r].versions, i)
       /\ \A o \in DOMAIN links : links'[o] # links[o] =>
            \E r \in Ids : links'[o] \in {links[o] \cup {r}, links[o] \ {r}}]_resourceVars
=============================================================================
