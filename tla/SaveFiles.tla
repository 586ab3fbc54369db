----------------------------- MODULE SaveFiles -----------------------------
(***************************************************************************)
(* How a created code becomes a file: the in-app save picker               *)
(* (qml/common/FilePickerDialog.qml), the Save and Share requests of the   *)
(* Create page (qml/views/GeneratorPage.qml), the jobs QrGenerator runs in *)
(* the thread pool (src/core/qrgenerator.cpp) and their answers.           *)
(*                                                                         *)
(* Actors: the user; the GUI thread; the pool, which encodes, opens the    *)
(* file, which empties it, and writes; the folder list behind the picker,  *)
(* which follows the disk in its own time; and the disk, which may refuse. *)
(*                                                                         *)
(* Of the share file it is followed what it holds, as another program gets *)
(* it; of the others whether they are there, which is what names go by.    *)
(*                                                                         *)
(* A name is a sequence of symbols, among them "." and "_". Of the folders *)
(* the user may walk to, one stands for all but the first; it holds a code *)
(* saved under the name now proposed, and of what is saved there only the  *)
(* name chosen and the end of the job are followed (bound).                *)
(***************************************************************************)
EXTENDS Naturals, Sequences, SequencesExt

CONSTANTS
    Platforms,      \* of {"desktop", "ios", "android"}
    Codes,          \* what is saved: a payload with its look
    TooLarge,       \* the codes no QR version can hold
    Proposals,      \* the names suggestedBaseName() proposes
    TypedNames,     \* what the user may type instead of a proposal
    MaxCopy,        \* bound: copy numbers
    MaxJobs         \* bound: jobs under way

NoCode == "no code"
ASSUME CodesAssumption == /\ TooLarge \subseteq Codes
                          /\ {"absent", "there", "empty", "cut", "mixed", NoCode} \cap Codes = {}
ASSUME NamesAssumption == Proposals \cup TypedNames \subseteq Seq(STRING) /\ <<>> \notin Proposals
ASSUME BoundsAssumption == MaxCopy \in Nat /\ MaxJobs \in Nat

\* A number is written in digits, and is one symbol here.
Numeral == [k \in 1 .. MaxCopy |-> ToString(k)]
ASSUME NumbersAssumption == Numeral \in [1 .. MaxCopy -> STRING \ {"/", "\\", "."}]

-----------------------------------------------------------------------------
(* Names.                                                                  *)

\* name.lastIndexOf("."), counted from 1, and 0 for none.
LastDot(name) == Max({0} \cup {i \in DOMAIN name : name[i] = "."})

\* QFileInfo::suffix(), and the formats QImage writes by it.
Suffix(name) == IF LastDot(name) = 0 THEN <<>> ELSE SubSeq(name, LastDot(name) + 1, Len(name))
Formats == {<<>>, <<"png">>, <<"jpg">>}

\* acceptSelection(): an empty field means the proposal; a name with a dot in it
\* is taken to have a suffix.
HasSuffix(name) == LastDot(name) > 1
AcceptedName(typed, proposal) ==
    LET name == IF typed = <<>> THEN proposal ELSE typed
    IN IF HasSuffix(name) THEN name ELSE name \o <<".", "png">>

\* uniqueName(): copy k of a name, its number before the suffix.
Copy(name, k) ==
    LET dot == IF HasSuffix(name) THEN LastDot(name) ELSE Len(name) + 1
    IN SubSeq(name, 1, dot - 1) \o <<"_", Numeral[k]>> \o SubSeq(name, dot, Len(name))

\* defaultSaveFileUrl(), for the pickers of the phones.
DefaultSaveFile(proposal) == proposal \o <<".", "png">>

\* The names a proposal may lead to.
Names(p) ==
    LET chosen == {DefaultSaveFile(p)} \cup {AcceptedName(typed, p) : typed \in TypedNames \cup {p}}
    IN chosen \cup {Copy(name, k) : name \in chosen, k \in 1 .. MaxCopy}

\* page.folderUrl(), any other, and the folder of writableShareFileUrl().
Folders == {"first", "other", "cache"}
ShareName == <<"qr_share", ".", "png">>
ShareFile == <<"cache", ShareName>>

\* The files that are followed, each with its folder.
Files(p) == ({"first"} \X Names(p)) \cup {ShareFile}
Elsewhere(p) == {name \in {AcceptedName(p, p)} : Suffix(name) = <<"png">>}

-----------------------------------------------------------------------------
VARIABLES
    platform,
    proposal,           \* page.suggestedBaseName(); bound: one in a behaviour
    picker,             \* the folder the save picker shows, or "closed"
    listing,            \* the names folderModel lists
    disk,               \* what is followed of each file, of the first folder and the cache
    jobs,               \* requestSavePng calls under way, oldest first
    shareSaveRequest,   \* the page waits for its share file
    handed              \* what the share sheet was last given

given == <<platform, proposal>>
page == <<given, picker, shareSaveRequest, handed>>
vars == <<page, listing, disk, jobs>>

-----------------------------------------------------------------------------
(* The picker.                                                             *)

\* What the folder list shows once it has caught up: nameFilters is *.png. (The
\* list of a closed picker is that of the folder it opens with.)
ListedFirst ==
    {f[2] : f \in {g \in DOMAIN disk \ {ShareFile} : Suffix(g[2]) = <<"png">> /\ disk[g] # "absent"}}
Listed == IF picker = "other" THEN Elsewhere(proposal) ELSE ListedFirst

\* The copies of a name that are free, as far as the list goes (up to the bound).
FreeCopies(name) == {k \in 1 .. MaxCopy : Copy(name, k) \notin listing}

\* uniqueName(), and a variant that looks at one candidate only.
UniqueNameOnce(name) == IF name \notin listing THEN name ELSE Copy(name, 1)

UniqueName(name) ==
    IF name \notin listing THEN name
    ELSE Copy(name, Min(FreeCopies(name)))

-----------------------------------------------------------------------------
(* QrGenerator.                                                            *)

Job(where, file, code, id) ==
    [folder |-> where, file |-> file, code |-> code, id |-> id, phase |-> "queued"]

Place(job) == <<job.folder, job.file>>

RequestSavePng(where, file, code, id) ==
    /\ Len(jobs) < MaxJobs
    /\ jobs' = Append(jobs, Job(where, file, code, id))

Moved(i, phase) == jobs' = [jobs EXCEPT ![i].phase = phase]

\* What is followed of a file some content is put in.
Followed(job, content) == IF job.folder = "cache" THEN content ELSE "there"

\* What open(WriteOnly) makes of a file, and a variant that opens it to read and write.
OpenedAsIs(old) == IF old = "absent" THEN "empty" ELSE old

Opened(old) == "empty"

\* What is in a file when not all that was written got there: nothing new, or a part.
Partly(old) == {old, IF old = "empty" THEN "cut" ELSE "mixed"}

\* What a write that reports no error leaves in a file: the code, or less. What is
\* reported is image.save(), which fills the file's buffer; whether flushing it at
\* close() fails is not looked at.
Written(old, code) == {code} \cup Partly(old)

\* onSaveFinished and onSaveFailed: requestId !== 0 && === shareSaveRequest, and
\* a variant in which only success ends the wait.
ClearsAfterSuccess(job) == job.id = 1 /\ job.phase = "done"

ClearsShare(job) == job.id = 1 /\ shareSaveRequest

-----------------------------------------------------------------------------
Init ==
    /\ platform \in Platforms
    /\ proposal \in Proposals
    /\ picker = "closed"
    /\ disk \in [Files(proposal) -> {"absent", "there"}]
    /\ disk[ShareFile] = "absent"
    /\ listing = ListedFirst
    /\ jobs = <<>>
    /\ shareSaveRequest = FALSE
    /\ handed = NoCode

\* Save: the in-app picker, openAt() the folder of the settings, or the system's
\* on a phone.
ClickSave ==
    /\ picker = "closed"
    /\ picker' = "first"
    /\ UNCHANGED <<given, shareSaveRequest, handed, listing, disk, jobs>>

\* A folder of the list, its parent or one of the usual places. The list goes on
\* showing the folder it showed.
GoTo ==
    /\ picker # "closed" /\ platform = "desktop"
    /\ picker' \in {"first", "other"} \ {picker}
    /\ UNCHANGED <<given, shareSaveRequest, handed, listing, disk, jobs>>

CancelSave ==
    /\ picker # "closed"
    /\ picker' = "closed"
    /\ UNCHANGED <<given, shareSaveRequest, handed, listing, disk, jobs>>

\* acceptSelection(), or the system picker's answer, and savePngTo(). The system
\* picker asks before it lets an existing file be replaced.
AcceptSave ==
    /\ picker # "closed"
    /\ picker' = "closed"
    /\ \E entered \in TypedNames \cup {proposal} \cup listing, code \in Codes :
          LET name == AcceptedName(entered, proposal)
              file == IF platform = "desktop" THEN UniqueName(name) ELSE DefaultSaveFile(proposal)
          IN /\ platform = "desktop" => name \notin listing \/ FreeCopies(name) # {}
             /\ file \in Names(proposal)
             /\ RequestSavePng(picker, file, code, 0)
    /\ UNCHANGED <<given, shareSaveRequest, handed, listing, disk>>

\* if (page.shareSaveRequest !== 0) return, and a variant without it.
MayShareAlways == TRUE

MayShare == ~shareSaveRequest

\* Share: off Android the payload goes to the clipboard, and that is all.
ClickShare ==
    /\ picker = "closed" /\ platform = "android"
    /\ MayShare
    /\ shareSaveRequest' = TRUE
    /\ \E code \in Codes \ TooLarge : RequestSavePng("cache", ShareName, code, 1)
    /\ UNCHANGED <<given, picker, handed, listing, disk>>

\* The folder list catches up with the disk.
ListFolder ==
    /\ listing # Listed
    /\ listing' = Listed
    /\ UNCHANGED <<page, disk, jobs>>

\* The pool encodes, and opens the file.
StartJob(i) ==
    /\ i \in DOMAIN jobs
    /\ jobs[i].phase = "queued"
    /\ \/ /\ jobs[i].code \notin TooLarge
          /\ jobs[i].folder # "other"
          /\ disk' = [disk EXCEPT ![Place(jobs[i])] = Followed(jobs[i], Opened(@))]
          /\ Moved(i, "open")
       \/ UNCHANGED disk /\ Moved(i, "failed")
       \/ /\ jobs[i].code \notin TooLarge
          /\ jobs[i].folder = "other"
          /\ UNCHANGED disk /\ Moved(i, "done")
    /\ UNCHANGED <<page, listing>>

\* The pool writes the image, in the format of the suffix, and closes the file.
WriteJob(i) ==
    /\ i \in DOMAIN jobs
    /\ jobs[i].phase = "open"
    /\ \/ /\ Suffix(jobs[i].file) \in Formats
          /\ \E new \in Written(disk[Place(jobs[i])], jobs[i].code) :
                disk' = [disk EXCEPT ![Place(jobs[i])] = Followed(jobs[i], new)]
          /\ Moved(i, "done")
       \/ /\ Suffix(jobs[i].file) \in Formats
          /\ \E new \in Partly(disk[Place(jobs[i])]) :
                disk' = [disk EXCEPT ![Place(jobs[i])] = Followed(jobs[i], new)]
          /\ Moved(i, "failed")
       \/ /\ Suffix(jobs[i].file) \notin Formats
          /\ UNCHANGED disk /\ Moved(i, "failed")
    /\ UNCHANGED <<page, listing>>

\* The watcher's finished() handler, and the page's answer to its signal.
FinishJob(i) ==
    /\ i \in DOMAIN jobs
    /\ jobs[i].phase \in {"done", "failed"}
    /\ jobs' = SubSeq(jobs, 1, i - 1) \o SubSeq(jobs, i + 1, Len(jobs))
    /\ shareSaveRequest' = IF ClearsShare(jobs[i]) THEN FALSE ELSE shareSaveRequest
    /\ handed' = IF ClearsShare(jobs[i]) /\ jobs[i].phase = "done"
                 THEN disk[Place(jobs[i])] ELSE handed
    /\ UNCHANGED <<given, picker, listing, disk>>

Next ==
    \/ ClickSave
    \/ GoTo
    \/ CancelSave
    \/ AcceptSave
    \/ ClickShare
    \/ ListFolder
    \/ \E i \in 1 .. MaxJobs : StartJob(i) \/ WriteJob(i) \/ FinishJob(i)

\* The pool runs its jobs, oldest first, and their events are handled.
Fairness == WF_vars(StartJob(1)) /\ WF_vars(WriteJob(1)) /\ WF_vars(FinishJob(1))

Spec == Init /\ [][Next]_vars /\ Fairness

-----------------------------------------------------------------------------
\* What a disk that fails when the file is closed may leave of a code.
Damaged == {"empty", "cut"}

TypeOK ==
    /\ platform \in Platforms /\ proposal \in Proposals
    /\ picker \in {"closed", "first", "other"} /\ shareSaveRequest \in BOOLEAN
    /\ listing \subseteq Names(proposal)
    /\ disk \in [Files(proposal) -> Codes \cup {"absent", "there", "empty", "cut", "mixed"}]
    /\ jobs \in Seq([folder : Folders, file : Names(proposal) \cup {ShareName}, code : Codes,
                     id : {0, 1}, phase : {"queued", "open", "done", "failed"}])
    /\ handed \in Codes \cup {NoCode} \cup Damaged

\* The page waits for a share file exactly while one job writes it, and that job
\* is the only one: shares never write the file under each other.
OneShareJob ==
    /\ \A i, j \in DOMAIN jobs : jobs[i].id = 1 /\ jobs[j].id = 1 => i = j
    /\ shareSaveRequest <=> \E i \in DOMAIN jobs : jobs[i].id = 1
    /\ \A i \in DOMAIN jobs : jobs[i].id = 1 <=> jobs[i].folder = "cache"

\* The file the share sheet is given holds the code Share was pressed for and nothing
\* of another: it is emptied when it is opened, also of an earlier share, and nothing
\* else is written to it from then to its answer. It may be cut short, where the disk
\* fails at close() and the job, which does not look, is answered as a success.
ShareFileIsOfCode ==
    \A i \in DOMAIN jobs : jobs[i].id = 1 =>
        /\ jobs[i].phase = "open" => disk[ShareFile] = "empty"
        /\ jobs[i].phase = "done" => disk[ShareFile] \in {jobs[i].code} \cup Damaged

\* The inductive invariant the proofs use: the above, and where a job writes - the
\* share to its own file, a save under a name of the proposal, and an open file is
\* one that is followed.
JobsAgree ==
    \A i \in DOMAIN jobs :
        /\ jobs[i].file \in IF jobs[i].id = 1 THEN {ShareName} ELSE Names(proposal)
        /\ jobs[i].phase = "open" => jobs[i].folder # "other"

IInv ==
    /\ TypeOK
    /\ OneShareJob
    /\ ShareFileIsOfCode
    /\ JobsAgree

\* uniqueName() keeps its promise as far as its folder list goes: in whatever
\* folder, a .png name chosen while the list is up to date and no save is under way
\* is new there, and it is a name in that folder, whatever the code it is made from
\* says.
SettledNameIsNew ==
    [][/\ platform = "desktop"
       /\ jobs = <<>> /\ jobs' # <<>>
       /\ listing = Listed
       /\ Suffix(jobs'[1].file) = <<"png">>
       => /\ jobs'[1].folder = picker
          /\ jobs'[1].file \notin Listed
          /\ ~Contains(jobs'[1].file, "/") /\ ~Contains(jobs'[1].file, "\\")]_vars

\* The abstract share sheet this module implements: pending is the code of the
\* share among the jobs.
PendingOf(list) ==
    IF \E i \in DOMAIN list : list[i].id = 1
    THEN list[CHOOSE i \in DOMAIN list : list[i].id = 1].code
    ELSE NoCode

Sheet == INSTANCE ShareSheet
    WITH Contents <- Codes, Nothing <- NoCode, pending <- PendingOf(jobs)

ImplementsShareSheet == Sheet!Spec

\* "saving a QR now proposes a per-type default name [...] with .png appended
\* automatically" (CHANGELOG.md:56): a code that is saved becomes a .png file.
SavedAsPng == \A i \in DOMAIN jobs : Suffix(jobs[i].file) = <<"png">>
=============================================================================
