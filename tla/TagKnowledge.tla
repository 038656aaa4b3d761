---------------------------- MODULE TagKnowledge -----------------------------
(***************************************************************************)
(* The knowledge kept about one tag, services/tag_knowledge.py: a directory*)
(* of Markdown files, one for each version, the images they show, and an   *)
(* index that names the active version.  The lock of the store orders the  *)
(* savers in the web process; attachments and readers take no lock.        *)
(***************************************************************************)
EXTENDS Naturals, FiniteSets

CONSTANTS
    Writers,          \* request threads that save
    Images,           \* attachments, by the random part of their file name
    Texts,            \* what the fields of a version may say
    FileNames,        \* time and suffix in the name of a Markdown file
    NoFile,           \* no such file; nobody holds the lock
    MaxSaves,         \* bound: versions
    MaxStops          \* bound: failing writes and crashes

\* What a Markdown file may hold: a version, its text and the images it shows.
MarkdownContents ==
    [version : 0..MaxSaves, text : Texts \cup {NoFile}, attachments : SUBSET Images]

ASSUME KnowledgeConstants ==
    /\ MaxSaves \in Nat /\ MaxStops \in Nat
    /\ NoFile \notin FileNames /\ NoFile \notin Writers
    /\ NoFile \notin MarkdownContents

VARIABLES
    markdown,         \* the Markdown files of the tag's directory
    active,           \* its index: active_filename and active_version
    images,           \* the attachments in the directory
    leftover,         \* a temporary index file a dead process left behind
    saveLock,         \* TagKnowledgeStore._write_lock
    save,             \* what each writer is doing
    stops

directory     == <<markdown, active, images, leftover>>
knowledgeVars == <<directory, saveLock, save, stops>>

-----------------------------------------------------------------------------
Version(n, text, atts) == [version |-> n, text |-> text, attachments |-> atts]
Index0   == [file |-> NoFile, version |-> 0]
IdleSave == [at |-> "idle", file |-> NoFile, content |-> Version(0, NoFile, {})]

\* load reads the index, then the file it names, without the lock: files are
\* never removed, so that a reader finds the version it read the index of.
Unreadable == active.file # NoFile /\ markdown[active.file] = NoFile

\* Mutant of Valid: what the user names is trusted.
ValidUnchecked(atts) == atts \subseteq Images

\* _validated_attachments: each of them is a file in the directory.
Valid(atts) == atts \subseteq images

\* _available_filename, created with O_EXCL.
Available == {f \in FileNames : markdown[f] = NoFile}

KnowledgeTypeOK ==
    /\ markdown \in [FileNames -> MarkdownContents \cup {NoFile}]
    /\ active \in [file : FileNames \cup {NoFile}, version : 0..MaxSaves]
    /\ images \subseteq Images /\ leftover \in BOOLEAN
    /\ saveLock \in Writers \cup {NoFile}
    /\ save \in [Writers -> [at : {"idle", "checked", "written"},
                             file : FileNames \cup {NoFile}, content : MarkdownContents]]
    /\ stops \in 0..MaxStops

KnowledgeInit ==
    /\ markdown = [f \in FileNames |-> NoFile]
    /\ active = Index0
    /\ images = {}
    /\ leftover = FALSE
    /\ saveLock = NoFile
    /\ save = [w \in Writers |-> IdleSave]
    /\ stops = 0

-----------------------------------------------------------------------------
Stop == stops < MaxStops /\ stops' = stops + 1

SaveEnds(w) ==
    /\ saveLock' = NoFile
    /\ save' = [save EXCEPT ![w] = IdleSave]

\* store_attachment: any time, without the lock, under a name of its own.
StoreAttachment(i) ==
    /\ i \notin images
    /\ images' = images \cup {i}
    /\ UNCHANGED <<markdown, active, leftover, saveLock, save, stops>>

\* Mutant of BeginSave: the lock is not taken.
BeginSaveUnlocked(w, text, atts) ==
    /\ save[w].at = "idle" /\ ~Unreadable /\ Valid(atts) /\ active.version < MaxSaves
    /\ save' = [save EXCEPT ![w] = [at |-> "checked", file |-> NoFile,
                                    content |-> Version(active.version + 1, text, atts)]]
    /\ UNCHANGED <<directory, saveLock, stops>>

\* save takes the lock, loads the active version and checks the attachments
\* (an index that cannot be read, or a missing image, ends it here).
BeginSave(w, text, atts) ==
    /\ saveLock = NoFile /\ save[w].at = "idle"
    /\ ~Unreadable /\ Valid(atts) /\ active.version < MaxSaves
    /\ saveLock' = w
    /\ save' = [save EXCEPT ![w] = [at |-> "checked", file |-> NoFile,
                                    content |-> Version(active.version + 1, text, atts)]]
    /\ UNCHANGED <<directory, stops>>

\* The Markdown of the version, under a name the directory does not hold.
WriteMarkdown(w) ==
    /\ save[w].at = "checked"
    /\ \E f \in Available :
         /\ markdown' = [markdown EXCEPT ![f] = save[w].content]
         /\ save' = [save EXCEPT ![w].at = "written", ![w].file = f]
    /\ UNCHANGED <<active, images, leftover, saveLock, stops>>

\* The index is replaced and the version is the active one.
ActivateVersion(w) ==
    /\ save[w].at = "written" /\ ~leftover
    /\ active' = [file |-> save[w].file, version |-> save[w].content.version]
    /\ SaveEnds(w)
    /\ UNCHANGED <<markdown, images, leftover, stops>>

\* A temporary index of a dead process with the same process id is in the way:
\* the save fails, and its clean-up removes it.
LeftoverRefuses(w) ==
    /\ save[w].at = "written" /\ leftover
    /\ leftover' = FALSE
    /\ SaveEnds(w)
    /\ UNCHANGED <<markdown, active, images, stops>>

\* The disk refuses a write: a Markdown file that was written stays.
SaveFails(w) ==
    /\ save[w].at \in {"checked", "written"} /\ Stop
    /\ SaveEnds(w)
    /\ UNCHANGED <<directory>>

\* The process dies, perhaps while it writes the temporary index.
StoreDies ==
    /\ Stop
    /\ leftover' \in {leftover, leftover \/ \E w \in Writers : save[w].at = "written"}
    /\ saveLock' = NoFile
    /\ save' = [w \in Writers |-> IdleSave]
    /\ UNCHANGED <<markdown, active, images>>

KnowledgeNext ==
    \/ \E i \in Images : StoreAttachment(i)
    \/ \E w \in Writers :
         \/ \E text \in Texts, atts \in SUBSET Images : BeginSave(w, text, atts)
         \/ WriteMarkdown(w) \/ ActivateVersion(w) \/ LeftoverRefuses(w) \/ SaveFails(w)
    \/ StoreDies

KnowledgeSpec == KnowledgeInit /\ [][KnowledgeNext]_knowledgeVars

-----------------------------------------------------------------------------
\* Wherever a save stops, the index names a file that exists, that was written
\* for the version the index gives and shows only images that exist.
\* (tag_knowledge.py:170-191)
ActiveIsWhole ==
    active.file # NoFile =>
      /\ markdown[active.file] # NoFile
      /\ markdown[active.file].version = active.version
      /\ markdown[active.file].attachments \subseteq images

\* No save undoes another: the active version moves by one at a time, and a
\* file keeps what was written to it.  (tag_knowledge.py:170-191, :377)
VersionsAdvance ==
    [][/\ active' # active => active'.version = active.version + 1
       /\ \A f \in FileNames : markdown[f] # NoFile => markdown'[f] = markdown[f]]_knowledgeVars
=============================================================================
