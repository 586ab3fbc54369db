-------------------------- MODULE SaveFilesProofs --------------------------
(***************************************************************************)
(* Theorems about SaveFiles, for every set of codes, whatever is proposed  *)
(* or typed, and however many copies and jobs: shares never write the file *)
(* under each other, what the share sheet is given is of the code asked    *)
(* for, the page implements the share sheet's promise, and a name          *)
(* uniqueName() settles for is new.                                        *)
(***************************************************************************)
EXTENDS SaveFiles, SequenceLemmas

\* The jobs TypeOK speaks of, for the names of a proposal, and what a file holds.
JobsOf(p) == [folder : Folders, file : Names(p) \cup {ShareName}, code : Codes,
              id : {0, 1}, phase : {"queued", "open", "done", "failed"}]
Held == Codes \cup {"absent", "there", "empty", "cut", "mixed"}

-----------------------------------------------------------------------------
(* Names.                                                                  *)

\* The characters of names: the strings but the separators. (That a literal is a
\* string is beyond the provers; those the program puts to a name are listed.)
Plain == (STRING \cup {".", "_", "png"}) \ {"/", "\\"}

\* A dot of a name is one of its characters, or there is none.
LEMMA DotInName ==
    ASSUME NEW S, NEW name \in Seq(S)
    PROVE  /\ LastDot(name) \in 0 .. Len(name)
           /\ LastDot(name) # 0 => name[LastDot(name)] = "."
<1> DEFINE dots == {0} \cup {i \in DOMAIN name : name[i] = "."}
<1>1. dots \in SUBSET (0 .. Len(name)) /\ dots # {} /\ Len(name) \in Nat
  OBVIOUS
<1>2. Max(dots) \in dots
  <2> HIDE DEF dots
  <2> QED
    BY <1>1, MaxIsIn
<1> QED
  BY <1>1, <1>2 DEF LastDot

\* What tells a copy from its name.
Mark(k) == <<"_", Numeral[k]>>

\* A copy of a name is a name, with the same characters and a number.
LEMMA CopyType ==
    ASSUME NEW S, NEW name \in Seq(S), NEW k \in 1 .. MaxCopy, Mark(k) \in Seq(S)
    PROVE  Copy(name, k) \in Seq(S)
<1> DEFINE dot == IF HasSuffix(name) THEN LastDot(name) ELSE Len(name) + 1
           left == SubSeq(name, 1, dot - 1)
           right == SubSeq(name, dot, Len(name))
<1>1. dot \in 1 .. Len(name) + 1 /\ Len(name) \in Nat
  BY DotInName DEF HasSuffix
<1>2. Copy(name, k) = (left \o Mark(k)) \o right
  BY Zenon DEF Copy, Mark
<1> HIDE DEF dot
<1>3. left \in Seq(S) /\ right \in Seq(S)
  <2>1. \A i \in 1 .. Len(name) : name[i] \in S
    OBVIOUS
  <2>2. \A i \in 1 .. dot - 1 : name[i] \in S
    BY <1>1, <2>1
  <2>3. \A i \in dot .. Len(name) : name[i] \in S
    BY <1>1, <2>1
  <2>4. 1 \in Int /\ dot - 1 \in Int /\ dot \in Int /\ Len(name) \in Int
    BY <1>1
  <2>5. left \in Seq(S)
    BY <2>2, <2>4, SubSeqProperties
  <2>6. right \in Seq(S)
    BY <2>3, <2>4, SubSeqProperties
  <2> QED
    BY <2>5, <2>6
<1> HIDE DEF left, right
<1> QED
  BY <1>2, <1>3, ConcatProperties

-----------------------------------------------------------------------------
(* Files and jobs.                                                         *)

\* Whatever the list shows of a folder is named after the proposal.
LEMMA ListedType ==
    ASSUME NEW content, disk \in [Files(proposal) -> content]
    PROVE  /\ ListedFirst \subseteq Names(proposal)
           /\ Listed \subseteq Names(proposal)
<1>1. \A f \in DOMAIN disk \ {ShareFile} : f[2] \in Names(proposal)
  <2> TAKE f \in DOMAIN disk \ {ShareFile}
  <2>1. f \in {"first"} \X Names(proposal)
    BY DEF Files
  <2> QED
    BY <2>1
<1>2. ListedFirst \subseteq Names(proposal)
  BY <1>1 DEF ListedFirst
<1>3. Elsewhere(proposal) \subseteq Names(proposal)
  BY DEF Elsewhere, Names
<1> QED
  BY <1>2, <1>3 DEF Listed

\* The parts of a job.
LEMMA JobParts ==
    ASSUME NEW p, NEW job \in JobsOf(p)
    PROVE  /\ job.folder \in Folders /\ job.file \in Names(p) \cup {ShareName}
           /\ job.code \in Codes /\ job.id \in {0, 1}
           /\ job.phase \in {"queued", "open", "done", "failed"}
  BY DEF JobsOf

\* A job that moves on keeps all but its phase; the others stay as they are.
LEMMA MovedOn ==
    ASSUME NEW p, jobs \in Seq(JobsOf(p)), NEW i \in DOMAIN jobs,
           NEW phase \in {"open", "done", "failed"}, Moved(i, phase)
    PROVE  /\ jobs' \in Seq(JobsOf(p))
           /\ DOMAIN jobs' = DOMAIN jobs
           /\ jobs'[i].folder = jobs[i].folder /\ jobs'[i].file = jobs[i].file
           /\ jobs'[i].code = jobs[i].code /\ jobs'[i].id = jobs[i].id
           /\ jobs'[i].phase = phase
           /\ \A j \in DOMAIN jobs \ {i} : jobs'[j] = jobs[j]
<1> DEFINE moved == [jobs[i] EXCEPT !.phase = phase]
<1>1. jobs' = [jobs EXCEPT ![i] = moved]
  BY DEF Moved
<1>2. jobs[i] \in JobsOf(p)
  OBVIOUS
<1>3. \A job \in JobsOf(p) :
         /\ [job EXCEPT !.phase = phase] \in JobsOf(p)
         /\ [job EXCEPT !.phase = phase].folder = job.folder
         /\ [job EXCEPT !.phase = phase].file = job.file
         /\ [job EXCEPT !.phase = phase].code = job.code
         /\ [job EXCEPT !.phase = phase].id = job.id
         /\ [job EXCEPT !.phase = phase].phase = phase
  BY DEF JobsOf
<1>4. /\ moved \in JobsOf(p)
      /\ moved.folder = jobs[i].folder /\ moved.file = jobs[i].file
      /\ moved.code = jobs[i].code /\ moved.id = jobs[i].id /\ moved.phase = phase
  BY <1>2, <1>3
<1> HIDE DEF moved
<1>5. /\ jobs' \in Seq(JobsOf(p))
      /\ DOMAIN jobs' = DOMAIN jobs
      /\ jobs'[i] = moved
      /\ \A j \in DOMAIN jobs \ {i} : jobs'[j] = jobs[j]
  BY <1>1, <1>4, Changed
<1> QED
  BY <1>4, <1>5

\* Where a job that is not refused writes: the share to its file, and no save.
LEMMA PlaceType ==
    ASSUME IInv, NEW i \in DOMAIN jobs, jobs[i].folder # "other"
    PROVE  /\ Place(jobs[i]) \in Files(proposal)
           /\ Place(jobs[i]) = ShareFile <=> jobs[i].id = 1
<1>1. jobs \in Seq(JobsOf(proposal))
  BY DEF IInv, TypeOK, JobsOf
<1>2. jobs[i].folder \in Folders /\ jobs[i].id \in {0, 1}
  BY <1>1, JobParts
<1>3. jobs[i].id = 1 <=> jobs[i].folder = "cache"
  BY DEF IInv, OneShareJob
<1>4. jobs[i].file \in IF jobs[i].id = 1 THEN {ShareName} ELSE Names(proposal)
  BY DEF IInv, JobsAgree
<1>5. CASE jobs[i].id = 1
  BY <1>3, <1>4, <1>5 DEF Place, ShareFile, Files
<1>6. CASE jobs[i].id # 1
  <2>1. jobs[i].folder = "first" /\ jobs[i].file \in Names(proposal)
    BY <1>2, <1>3, <1>4, <1>6 DEF Folders
  <2> QED
    BY <1>6, <2>1 DEF Place, ShareFile, Files
<1> QED
  BY <1>5, <1>6

-----------------------------------------------------------------------------
(* The invariant.                                                          *)

\* It starts with no job, and no share file.
LEMMA InitHolds == Init => IInv
<1> SUFFICES ASSUME Init PROVE IInv
  OBVIOUS
<1>1. DOMAIN jobs = {} /\ jobs \in Seq(JobsOf(proposal))
  <2>1. jobs = <<>>
    BY DEF Init
  <2> QED
    BY <2>1
<1>2. disk \in [Files(proposal) -> Held]
  <2>1. disk \in [Files(proposal) -> {"absent", "there"}]
    BY DEF Init
  <2>2. {"absent", "there"} \subseteq Held
    BY DEF Held
  <2> QED
    BY <2>1, <2>2
<1>3. listing \subseteq Names(proposal)
  BY <1>2, ListedType DEF Init
<1>4. TypeOK
  BY <1>1, <1>2, <1>3 DEF Init, TypeOK, JobsOf, Held
<1>5. OneShareJob /\ ShareFileIsOfCode /\ JobsAgree
  BY <1>1 DEF Init, OneShareJob, ShareFileIsOfCode, JobsAgree
<1> QED
  BY <1>4, <1>5 DEF IInv

\* The picker is opened, walks, or is closed, and the list catches up.
LEMMA PickerHolds == IInv /\ (ClickSave \/ GoTo \/ CancelSave \/ ListFolder) => IInv'
<1> SUFFICES ASSUME IInv, ClickSave \/ GoTo \/ CancelSave \/ ListFolder PROVE IInv'
  OBVIOUS
<1>1. UNCHANGED <<platform, proposal, disk, jobs, shareSaveRequest, handed>>
  BY DEF ClickSave, GoTo, CancelSave, ListFolder, page, given
<1>2. picker' \in {"closed", "first", "other"}
  BY DEF ClickSave, GoTo, CancelSave, ListFolder, page, IInv, TypeOK
<1>3. listing' \subseteq Names(proposal)
  <2>1. listing \subseteq Names(proposal) /\ disk \in [Files(proposal) -> Held]
    BY DEF IInv, TypeOK, Held
  <2>2. Listed \subseteq Names(proposal)
    BY <2>1, ListedType
  <2> QED
    BY <2>1, <2>2 DEF ClickSave, GoTo, CancelSave, ListFolder
<1>4. TypeOK'
  BY <1>1, <1>2, <1>3 DEF IInv, TypeOK
<1>5. OneShareJob' /\ ShareFileIsOfCode' /\ JobsAgree'
  BY <1>1 DEF IInv, OneShareJob, ShareFileIsOfCode, JobsAgree
<1> QED
  BY <1>4, <1>5 DEF IInv

\* One more job: the jobs there were, and the one asked for.
LEMMA Requested ==
    ASSUME IInv, NEW where \in Folders, NEW file \in Names(proposal) \cup {ShareName},
           NEW code \in Codes, NEW id \in {0, 1},
           RequestSavePng(where, file, code, id)
    PROVE  /\ jobs' \in Seq(JobsOf(proposal))
           /\ \A i \in DOMAIN jobs : i \in DOMAIN jobs' /\ jobs'[i] = jobs[i]
           /\ Len(jobs) + 1 \in DOMAIN jobs'
           /\ jobs'[Len(jobs) + 1].folder = where /\ jobs'[Len(jobs) + 1].file = file
           /\ jobs'[Len(jobs) + 1].code = code /\ jobs'[Len(jobs) + 1].id = id
           /\ jobs'[Len(jobs) + 1].phase = "queued"
           /\ \A i \in DOMAIN jobs' : i \in DOMAIN jobs \/ i = Len(jobs) + 1
<1> DEFINE job == Job(where, file, code, id)
<1>1. jobs \in Seq(JobsOf(proposal))
  BY DEF IInv, TypeOK, JobsOf
<1>2. /\ job \in JobsOf(proposal) /\ job.folder = where /\ job.file = file
      /\ job.code = code /\ job.id = id /\ job.phase = "queued"
  BY DEF Job, JobsOf
<1>3. jobs' = Append(jobs, job)
  BY DEF RequestSavePng
<1> HIDE DEF job
<1>4. /\ Append(jobs, job) \in Seq(JobsOf(proposal))
      /\ DOMAIN Append(jobs, job) = 1 .. Len(jobs) + 1
      /\ \A i \in DOMAIN jobs : i \in DOMAIN Append(jobs, job) /\ Append(jobs, job)[i] = jobs[i]
      /\ Append(jobs, job)[Len(jobs) + 1] = job
      /\ \A i \in DOMAIN Append(jobs, job) : i \in DOMAIN jobs \/ i = Len(jobs) + 1
  BY <1>1, <1>2, Appended
<1>5. Len(jobs) \in Nat
  BY <1>1
<1> QED
  BY <1>2, <1>3, <1>4, <1>5

\* It leaves the invariant as it was, where a share is asked for only once.
LEMMA RequestHolds ==
    ASSUME IInv, NEW where \in Folders, NEW file \in Names(proposal) \cup {ShareName},
           NEW code \in Codes, NEW id \in {0, 1},
           RequestSavePng(where, file, code, id),
           id = 1 <=> where = "cache",
           file \in IF id = 1 THEN {ShareName} ELSE Names(proposal),
           IF id = 1 THEN ~shareSaveRequest /\ shareSaveRequest' ELSE UNCHANGED shareSaveRequest,
           UNCHANGED <<proposal, disk>>
    PROVE  /\ jobs' \in Seq(JobsOf(proposal))
           /\ OneShareJob' /\ ShareFileIsOfCode' /\ JobsAgree'
<1> DEFINE last == Len(jobs) + 1
<1>1. jobs \in Seq(JobsOf(proposal)) /\ shareSaveRequest \in BOOLEAN /\ last \notin DOMAIN jobs
  BY DEF IInv, TypeOK, JobsOf
<1>2. /\ jobs' \in Seq(JobsOf(proposal))
      /\ \A i \in DOMAIN jobs : i \in DOMAIN jobs' /\ jobs'[i] = jobs[i]
      /\ last \in DOMAIN jobs'
      /\ jobs'[last].folder = where /\ jobs'[last].file = file
      /\ jobs'[last].code = code /\ jobs'[last].id = id /\ jobs'[last].phase = "queued"
      /\ \A i \in DOMAIN jobs' : i \in DOMAIN jobs \/ i = last
  BY Requested
<1> HIDE DEF last
<1>3. OneShareJob'
  <2>1. \A i, j \in DOMAIN jobs' : jobs'[i].id = 1 /\ jobs'[j].id = 1 => i = j
    BY <1>1, <1>2 DEF IInv, OneShareJob
  <2>2. shareSaveRequest' <=> \E i \in DOMAIN jobs' : jobs'[i].id = 1
    <3>1. CASE id = 1
      BY <1>2, <3>1
    <3>2. CASE id = 0
      BY <1>2, <3>2 DEF IInv, OneShareJob
    <3> QED
      BY <3>1, <3>2
  <2>3. \A i \in DOMAIN jobs' : jobs'[i].id = 1 <=> jobs'[i].folder = "cache"
    BY <1>2 DEF IInv, OneShareJob
  <2> QED
    BY <2>1, <2>2, <2>3 DEF OneShareJob
<1>4. ShareFileIsOfCode'
  BY <1>2 DEF IInv, ShareFileIsOfCode
<1>5. JobsAgree'
  <2> SUFFICES ASSUME NEW i \in DOMAIN jobs'
               PROVE  /\ jobs'[i].file \in IF jobs'[i].id = 1 THEN {ShareName} ELSE Names(proposal)
                      /\ jobs'[i].phase = "open" => jobs'[i].folder # "other"
    BY DEF JobsAgree
  <2>1. CASE i \in DOMAIN jobs
    BY <1>2, <2>1 DEF IInv, JobsAgree
  <2>2. CASE i = last
    BY <1>2, <2>2
  <2> QED
    BY <1>2, <2>1, <2>2
<1> QED
  BY <1>2, <1>3, <1>4, <1>5

\* The picker's answer asks for a save, under a name of the proposal.
LEMMA AcceptHolds == IInv /\ AcceptSave => IInv'
<1> SUFFICES ASSUME IInv, AcceptSave PROVE IInv'
  OBVIOUS
<1>1. PICK file \in Names(proposal), code \in Codes : RequestSavePng(picker, file, code, 0)
  BY DEF AcceptSave
<1>2. picker \in Folders /\ picker # "cache"
  BY DEF AcceptSave, IInv, TypeOK, Folders
<1>3. UNCHANGED <<platform, proposal, shareSaveRequest, handed, listing, disk>> /\ picker' = "closed"
  BY DEF AcceptSave, given
<1>4. jobs' \in Seq(JobsOf(proposal)) /\ OneShareJob' /\ ShareFileIsOfCode' /\ JobsAgree'
  <2>1. file \in Names(proposal) \cup {ShareName} /\ 0 \in {0, 1} /\ (0 = 1 <=> picker = "cache")
    BY <1>2
  <2> QED
    BY <1>1, <1>2, <1>3, <2>1, RequestHolds
<1>5. TypeOK'
  BY <1>3, <1>4 DEF IInv, TypeOK, JobsOf
<1> QED
  BY <1>4, <1>5 DEF IInv

\* Share asks for the share file, when no share is pending.
LEMMA ShareHolds == IInv /\ ClickShare => IInv'
<1> SUFFICES ASSUME IInv, ClickShare PROVE IInv'
  OBVIOUS
<1>1. PICK code \in Codes : RequestSavePng("cache", ShareName, code, 1)
  BY DEF ClickShare
<1>2. /\ UNCHANGED <<platform, proposal, picker, handed, listing, disk>>
      /\ ~shareSaveRequest /\ shareSaveRequest' = TRUE
  BY DEF ClickShare, MayShare, given
<1>3. jobs' \in Seq(JobsOf(proposal)) /\ OneShareJob' /\ ShareFileIsOfCode' /\ JobsAgree'
  <2>1. "cache" \in Folders /\ ShareName \in Names(proposal) \cup {ShareName} /\ 1 \in {0, 1}
    BY DEF Folders
  <2> QED
    BY <1>1, <1>2, <2>1, RequestHolds
<1>4. TypeOK'
  BY <1>2, <1>3 DEF IInv, TypeOK, JobsOf
<1> QED
  BY <1>3, <1>4 DEF IInv

\* Jobs that keep their place and their phase apart, agree as they did.
LEMMA SameJobs ==
    ASSUME IInv, DOMAIN jobs' = DOMAIN jobs, NEW i \in DOMAIN jobs,
           jobs'[i].folder = jobs[i].folder, jobs'[i].file = jobs[i].file,
           jobs'[i].id = jobs[i].id,
           jobs'[i].phase = "open" => jobs[i].folder # "other",
           \A j \in DOMAIN jobs \ {i} : jobs'[j] = jobs[j],
           UNCHANGED <<proposal, shareSaveRequest>>
    PROVE  OneShareJob' /\ JobsAgree'
<1>1. \A j \in DOMAIN jobs :
          /\ jobs'[j].folder = jobs[j].folder /\ jobs'[j].file = jobs[j].file
          /\ jobs'[j].id = jobs[j].id
  OBVIOUS
<1>2. OneShareJob'
  BY <1>1 DEF IInv, OneShareJob
<1>3. JobsAgree'
  <2> SUFFICES ASSUME NEW j \in DOMAIN jobs
               PROVE  /\ jobs'[j].file \in IF jobs'[j].id = 1 THEN {ShareName} ELSE Names(proposal)
                      /\ jobs'[j].phase = "open" => jobs'[j].folder # "other"
    BY DEF JobsAgree
  <2>1. /\ jobs[j].file \in IF jobs[j].id = 1 THEN {ShareName} ELSE Names(proposal)
        /\ jobs[j].phase = "open" => jobs[j].folder # "other"
    BY DEF IInv, JobsAgree
  <2> QED
    BY <1>1, <2>1
<1> QED
  BY <1>2, <1>3

\* What is followed of a file: of the share's, what is put in it.
LEMMA FollowedIs ==
    ASSUME IInv, NEW i \in DOMAIN jobs, NEW content \in Held
    PROVE  /\ Followed(jobs[i], content) \in Held
           /\ jobs[i].id = 1 => Followed(jobs[i], content) = content
  BY DEF IInv, OneShareJob, Followed, Held

\* A file that is written: it holds the new content, the others what they held.
LEMMA DiskWritten ==
    ASSUME IInv, NEW i \in DOMAIN jobs, jobs[i].folder # "other", NEW new \in Held,
           disk' = [disk EXCEPT ![Place(jobs[i])] = new]
    PROVE  /\ disk' \in [Files(proposal) -> Held]
           /\ disk'[ShareFile] = IF jobs[i].id = 1 THEN new ELSE disk[ShareFile]
<1> DEFINE place == Place(jobs[i])
<1>1. place \in Files(proposal) /\ (place = ShareFile <=> jobs[i].id = 1)
  BY PlaceType, Zenon
<1>2. disk \in [Files(proposal) -> Held] /\ ShareFile \in Files(proposal)
  BY DEF IInv, TypeOK, Held, Files
<1>3. disk' = [disk EXCEPT ![place] = new]
  OBVIOUS
<1> HIDE DEF place
<1> QED
  BY <1>1, <1>2, <1>3

\* The pool starts a job: it empties the job's file, or fails.
LEMMA StartHolds == ASSUME IInv, NEW i, StartJob(i) PROVE IInv'
<1>1. i \in DOMAIN jobs /\ jobs[i].phase = "queued" /\ UNCHANGED <<page, listing>>
  BY DEF StartJob
<1>2. UNCHANGED <<platform, proposal, picker, listing, shareSaveRequest, handed>>
  BY <1>1 DEF page, given
<1>3. jobs \in Seq(JobsOf(proposal)) /\ disk \in [Files(proposal) -> Held]
  BY DEF IInv, TypeOK, JobsOf, Held
<1>4. ASSUME jobs[i].folder # "other", Moved(i, "open"),
             disk' = [disk EXCEPT ![Place(jobs[i])] = Followed(jobs[i], "empty")]
      PROVE  IInv'
  <2>1. /\ jobs' \in Seq(JobsOf(proposal)) /\ DOMAIN jobs' = DOMAIN jobs
        /\ jobs'[i].folder = jobs[i].folder /\ jobs'[i].file = jobs[i].file
        /\ jobs'[i].code = jobs[i].code /\ jobs'[i].id = jobs[i].id /\ jobs'[i].phase = "open"
        /\ \A j \in DOMAIN jobs \ {i} : jobs'[j] = jobs[j]
    BY <1>1, <1>3, <1>4, MovedOn
  <2>2. /\ Followed(jobs[i], "empty") \in Held
        /\ jobs[i].id = 1 => Followed(jobs[i], "empty") = "empty"
    BY <1>1, FollowedIs DEF Held
  <2>3. /\ disk' \in [Files(proposal) -> Held]
        /\ disk'[ShareFile] = IF jobs[i].id = 1 THEN "empty" ELSE disk[ShareFile]
    BY <1>1, <1>4, <2>2, DiskWritten
  <2>4. OneShareJob' /\ JobsAgree'
    BY <1>1, <1>2, <1>4, <2>1, SameJobs
  <2>5. ShareFileIsOfCode'
    BY <1>1, <2>1, <2>3 DEF IInv, OneShareJob, ShareFileIsOfCode
  <2>6. TypeOK'
    BY <1>2, <2>1, <2>3 DEF IInv, TypeOK, JobsOf, Held
  <2> QED
    BY <2>4, <2>5, <2>6 DEF IInv
<1>5. ASSUME UNCHANGED disk,
             Moved(i, "failed") \/ (jobs[i].folder = "other" /\ Moved(i, "done"))
      PROVE  IInv'
  <2>1. PICK phase \in {"done", "failed"} :
            Moved(i, phase) /\ (phase = "done" => jobs[i].folder = "other")
    BY <1>5
  <2>2. /\ jobs' \in Seq(JobsOf(proposal)) /\ DOMAIN jobs' = DOMAIN jobs
        /\ jobs'[i].folder = jobs[i].folder /\ jobs'[i].file = jobs[i].file
        /\ jobs'[i].code = jobs[i].code /\ jobs'[i].id = jobs[i].id /\ jobs'[i].phase = phase
        /\ \A j \in DOMAIN jobs \ {i} : jobs'[j] = jobs[j]
    BY <1>1, <1>3, <2>1, MovedOn
  <2>3. OneShareJob' /\ JobsAgree'
    BY <1>1, <1>2, <2>1, <2>2, SameJobs
  <2>4. ShareFileIsOfCode'
    <3>1. jobs[i].id = 1 => phase = "failed"
      BY <1>1, <2>1 DEF IInv, OneShareJob
    <3> QED
      BY <1>1, <1>5, <2>2, <3>1 DEF IInv, ShareFileIsOfCode
  <2>5. TypeOK'
    BY <1>2, <1>5, <2>2 DEF IInv, TypeOK, JobsOf
  <2> QED
    BY <2>3, <2>4, <2>5 DEF IInv
<1>6. \/ /\ jobs[i].folder # "other" /\ Moved(i, "open")
         /\ disk' = [disk EXCEPT ![Place(jobs[i])] = Followed(jobs[i], "empty")]
      \/ /\ UNCHANGED disk
         /\ Moved(i, "failed") \/ (jobs[i].folder = "other" /\ Moved(i, "done"))
  BY Zenon DEF StartJob, Opened
<1> QED
  BY <1>4, <1>5, <1>6

\* The pool writes: over the empty file of a share the code, or what the disk takes
\* of it. A write that is reported as failed leaves nothing but what a file may hold.
LEMMA WriteHolds == ASSUME IInv, NEW i, WriteJob(i) PROVE IInv'
<1>1. i \in DOMAIN jobs /\ jobs[i].phase = "open" /\ UNCHANGED <<page, listing>>
  BY DEF WriteJob
<1>2. UNCHANGED <<platform, proposal, picker, listing, shareSaveRequest, handed>>
  BY <1>1 DEF page, given
<1>3. jobs \in Seq(JobsOf(proposal)) /\ disk \in [Files(proposal) -> Held]
  BY DEF IInv, TypeOK, JobsOf, Held
<1>4. jobs[i].code \in Codes /\ jobs[i].folder # "other"
  BY <1>1, <1>3, JobParts DEF IInv, JobsAgree
<1>5. ASSUME NEW phase \in {"done", "failed"},
             NEW new \in Written(disk[Place(jobs[i])], jobs[i].code),
             disk' = [disk EXCEPT ![Place(jobs[i])] = Followed(jobs[i], new)], Moved(i, phase)
      PROVE  IInv'
  <2>1. /\ jobs' \in Seq(JobsOf(proposal)) /\ DOMAIN jobs' = DOMAIN jobs
        /\ jobs'[i].folder = jobs[i].folder /\ jobs'[i].file = jobs[i].file
        /\ jobs'[i].code = jobs[i].code /\ jobs'[i].id = jobs[i].id /\ jobs'[i].phase = phase
        /\ \A j \in DOMAIN jobs \ {i} : jobs'[j] = jobs[j]
    BY <1>1, <1>3, <1>5, MovedOn
  <2>2. disk[Place(jobs[i])] \in Held
    BY <1>1, <1>3, <1>4, PlaceType
  <2>3. new \in Held
    BY <1>4, <2>2 DEF Written, Partly, Held
  <2>4. /\ Followed(jobs[i], new) \in Held
        /\ jobs[i].id = 1 => Followed(jobs[i], new) = new
    BY <1>1, <2>3, FollowedIs
  <2>5. /\ disk' \in [Files(proposal) -> Held]
        /\ disk'[ShareFile] = IF jobs[i].id = 1 THEN new ELSE disk[ShareFile]
    BY <1>1, <1>4, <1>5, <2>4, DiskWritten
  <2>6. jobs[i].id = 1 => new \in {jobs[i].code} \cup Damaged
    <3>1. jobs[i].id = 1 => disk[Place(jobs[i])] = "empty"
      BY <1>1, <1>4, PlaceType DEF IInv, ShareFileIsOfCode
    <3> QED
      BY <3>1 DEF Written, Partly, Damaged
  <2>7. OneShareJob' /\ JobsAgree'
    BY <1>1, <1>2, <1>4, <2>1, SameJobs
  <2>8. ShareFileIsOfCode'
    BY <1>1, <2>1, <2>5, <2>6 DEF IInv, OneShareJob, ShareFileIsOfCode
  <2>9. TypeOK'
    BY <1>2, <2>1, <2>5 DEF IInv, TypeOK, JobsOf, Held
  <2> QED
    BY <2>7, <2>8, <2>9 DEF IInv
<1>6. CASE UNCHANGED disk /\ Moved(i, "failed")
  <2>1. /\ jobs' \in Seq(JobsOf(proposal)) /\ DOMAIN jobs' = DOMAIN jobs
        /\ jobs'[i].folder = jobs[i].folder /\ jobs'[i].file = jobs[i].file
        /\ jobs'[i].code = jobs[i].code /\ jobs'[i].id = jobs[i].id /\ jobs'[i].phase = "failed"
        /\ \A j \in DOMAIN jobs \ {i} : jobs'[j] = jobs[j]
    BY <1>1, <1>3, <1>6, MovedOn
  <2>2. OneShareJob' /\ JobsAgree'
    BY <1>1, <1>2, <1>4, <2>1, SameJobs
  <2>3. ShareFileIsOfCode'
    BY <1>1, <1>6, <2>1 DEF IInv, ShareFileIsOfCode
  <2>4. TypeOK'
    BY <1>2, <1>6, <2>1 DEF IInv, TypeOK, JobsOf
  <2> QED
    BY <2>2, <2>3, <2>4 DEF IInv
<1>7. \/ \E phase \in {"done", "failed"}, new \in Written(disk[Place(jobs[i])], jobs[i].code) :
            /\ disk' = [disk EXCEPT ![Place(jobs[i])] = Followed(jobs[i], new)]
            /\ Moved(i, phase)
      \/ UNCHANGED disk /\ Moved(i, "failed")
  <2>1. Partly(disk[Place(jobs[i])]) \subseteq Written(disk[Place(jobs[i])], jobs[i].code)
    BY DEF Written
  <2> QED
    BY <2>1, Zenon DEF WriteJob
<1> QED
  BY <1>5, <1>6, <1>7

\* A job that is answered is taken out, the others move up.
LEMMA Finished ==
    ASSUME IInv, NEW i, FinishJob(i)
    PROVE  /\ i \in DOMAIN jobs /\ jobs' \in Seq(JobsOf(proposal))
           /\ \A j \in DOMAIN jobs' : \E k \in DOMAIN jobs \ {i} :
                 jobs'[j] = jobs[k] /\ k = IF j < i THEN j ELSE j + 1
           /\ \A k \in DOMAIN jobs \ {i} : \E j \in DOMAIN jobs' : jobs'[j] = jobs[k]
<1> DEFINE rest == SubSeq(jobs, 1, i - 1) \o SubSeq(jobs, i + 1, Len(jobs))
<1>1. /\ i \in DOMAIN jobs /\ jobs' = rest
  BY DEF FinishJob
<1>2. jobs \in Seq(JobsOf(proposal))
  BY DEF IInv, TypeOK, JobsOf
<1>3. /\ rest \in Seq(JobsOf(proposal)) /\ Len(rest) = Len(jobs) - 1
      /\ \A j \in DOMAIN rest : rest[j] = IF j < i THEN jobs[j] ELSE jobs[j + 1]
  BY <1>1, <1>2, TakenOut
<1>4. \A j \in DOMAIN rest : \E k \in DOMAIN jobs \ {i} :
          rest[j] = jobs[k] /\ k = IF j < i THEN j ELSE j + 1
  BY <1>1, <1>2, CameFrom
<1> HIDE DEF rest
<1>5. \A j \in DOMAIN jobs' : \E k \in DOMAIN jobs \ {i} :
          jobs'[j] = jobs[k] /\ k = IF j < i THEN j ELSE j + 1
  BY <1>1, <1>4
<1>6. \A k \in DOMAIN jobs \ {i} : \E j \in DOMAIN jobs' : jobs'[j] = jobs[k]
  <2> TAKE k \in DOMAIN jobs \ {i}
  <2>1. /\ k \in 1 .. Len(jobs) /\ i \in 1 .. Len(jobs) /\ Len(jobs) \in Nat
        /\ DOMAIN rest = 1 .. Len(jobs) - 1
    BY <1>1, <1>2, <1>3
  <2>2. CASE k < i
    <3>1. k \in DOMAIN rest
      BY <2>1, <2>2
    <3> QED
      BY <1>1, <1>3, <2>2, <3>1
  <2>3. CASE k > i
    <3>1. k - 1 \in DOMAIN rest /\ ~(k - 1 < i) /\ (k - 1) + 1 = k
      BY <2>1, <2>3
    <3>2. rest[k - 1] = jobs[k]
      BY <1>3, <3>1
    <3> QED
      BY <1>1, <3>1, <3>2
  <2> QED
    BY <2>1, <2>2, <2>3
<1> QED
  BY <1>1, <1>3, <1>5, <1>6

\* The share's answer gives the sheet what the share's file holds: its code, or what
\* the disk took of it.
LEMMA Answered ==
    ASSUME IInv, NEW i, FinishJob(i), jobs[i].id = 1
    PROVE  /\ shareSaveRequest' = FALSE
           /\ IF jobs[i].phase = "done" THEN handed' \in {jobs[i].code} \cup Damaged
                                        ELSE handed' = handed
<1>1. i \in DOMAIN jobs
  BY DEF FinishJob
<1>2. shareSaveRequest = TRUE
  BY <1>1 DEF IInv, OneShareJob, TypeOK
<1>3. ClearsShare(jobs[i])
  BY <1>2 DEF ClearsShare
<1>4. jobs[i].folder # "other"
  BY <1>1 DEF IInv, OneShareJob
<1>5. jobs[i].phase = "done" => disk[Place(jobs[i])] \in {jobs[i].code} \cup Damaged
  BY <1>1, <1>4, PlaceType DEF IInv, ShareFileIsOfCode
<1> QED
  BY <1>3, <1>5 DEF FinishJob

\* Once it is answered, no one waits for it; the other jobs are where they were.
LEMMA FinishHolds == ASSUME IInv, NEW i, FinishJob(i) PROVE IInv'
<1>1. /\ jobs[i].phase \in {"done", "failed"}
      /\ UNCHANGED <<platform, proposal, picker, listing, disk>>
  BY DEF FinishJob, given
<1>2. jobs \in Seq(JobsOf(proposal)) /\ shareSaveRequest \in BOOLEAN
  BY DEF IInv, TypeOK, JobsOf
<1>3. i \in DOMAIN jobs /\ jobs' \in Seq(JobsOf(proposal))
  BY Finished
<1>4. \A j \in DOMAIN jobs' : \E k \in DOMAIN jobs \ {i} :
          jobs'[j] = jobs[k] /\ k = IF j < i THEN j ELSE j + 1
  BY Finished
<1>5. \A k \in DOMAIN jobs \ {i} : \E j \in DOMAIN jobs' : jobs'[j] = jobs[k]
  BY Finished
<1>6. OneShareJob'
  <2>1. \A j, l \in DOMAIN jobs' : jobs'[j].id = 1 /\ jobs'[l].id = 1 => j = l
    <3> SUFFICES ASSUME NEW j \in DOMAIN jobs', NEW l \in DOMAIN jobs',
                        jobs'[j].id = 1, jobs'[l].id = 1
                 PROVE  j = l
      OBVIOUS
    <3>1. PICK k \in DOMAIN jobs \ {i} : jobs'[j] = jobs[k] /\ k = IF j < i THEN j ELSE j + 1
      BY <1>4
    <3>2. PICK m \in DOMAIN jobs \ {i} : jobs'[l] = jobs[m] /\ m = IF l < i THEN l ELSE l + 1
      BY <1>4
    <3>3. k = m
      BY <3>1, <3>2 DEF IInv, OneShareJob
    <3>4. j \in Nat /\ l \in Nat /\ i \in Nat
      BY <1>2, <1>3
    <3> QED
      BY <3>1, <3>2, <3>3, <3>4
  <2>2. shareSaveRequest' <=> \E j \in DOMAIN jobs' : jobs'[j].id = 1
    <3>1. CASE jobs[i].id = 1
      <4>1. shareSaveRequest' = FALSE
        BY <3>1, Answered
      <4> QED
        BY <1>3, <1>4, <3>1, <4>1 DEF IInv, OneShareJob
    <3>2. CASE jobs[i].id # 1
      <4>1. shareSaveRequest' = shareSaveRequest
        BY <3>2 DEF FinishJob, ClearsShare
      <4>2. shareSaveRequest <=> \E k \in DOMAIN jobs \ {i} : jobs[k].id = 1
        BY <1>3, <3>2 DEF IInv, OneShareJob
      <4> QED
        BY <1>4, <1>5, <4>1, <4>2
    <3> QED
      BY <3>1, <3>2
  <2>3. \A j \in DOMAIN jobs' : jobs'[j].id = 1 <=> jobs'[j].folder = "cache"
    BY <1>4 DEF IInv, OneShareJob
  <2> QED
    BY <2>1, <2>2, <2>3 DEF OneShareJob
<1>7. ShareFileIsOfCode'
  BY <1>1, <1>4 DEF IInv, ShareFileIsOfCode
<1>8. JobsAgree'
  <2> SUFFICES ASSUME NEW j \in DOMAIN jobs'
               PROVE  /\ jobs'[j].file \in IF jobs'[j].id = 1 THEN {ShareName} ELSE Names(proposal)
                      /\ jobs'[j].phase = "open" => jobs'[j].folder # "other"
    BY <1>1 DEF JobsAgree
  <2>1. PICK k \in DOMAIN jobs : jobs'[j] = jobs[k]
    BY <1>4
  <2> QED
    BY <2>1 DEF IInv, JobsAgree
<1>9. handed' \in Codes \cup {NoCode} \cup Damaged
  <2>1. jobs[i].code \in Codes /\ handed \in Codes \cup {NoCode} \cup Damaged
    BY <1>2, <1>3, JobParts DEF IInv, TypeOK
  <2>2. CASE jobs[i].id = 1
    BY <2>1, <2>2, Answered
  <2>3. CASE jobs[i].id # 1
    BY <2>1, <2>3 DEF FinishJob, ClearsShare
  <2> QED
    BY <2>2, <2>3
<1>10. TypeOK'
  <2>1. shareSaveRequest' \in BOOLEAN
    BY <1>2 DEF FinishJob
  <2> QED
    BY <1>1, <1>3, <1>9, <2>1 DEF IInv, TypeOK, JobsOf
<1> QED
  BY <1>6, <1>7, <1>8, <1>10 DEF IInv

\* Every step keeps the invariant.
LEMMA NextHolds == IInv /\ [Next]_vars => IInv'
<1> SUFFICES ASSUME IInv, [Next]_vars PROVE IInv'
  OBVIOUS
<1>1. CASE ClickSave \/ GoTo \/ CancelSave \/ ListFolder
  BY <1>1, PickerHolds
<1>2. CASE AcceptSave
  BY <1>2, AcceptHolds
<1>3. CASE ClickShare
  BY <1>3, ShareHolds
<1>4. ASSUME NEW i \in 1 .. MaxJobs, StartJob(i) PROVE IInv'
  BY <1>4, StartHolds
<1>5. ASSUME NEW i \in 1 .. MaxJobs, WriteJob(i) PROVE IInv'
  BY <1>5, WriteHolds
<1>6. ASSUME NEW i \in 1 .. MaxJobs, FinishJob(i) PROVE IInv'
  BY <1>6, FinishHolds
<1>7. CASE UNCHANGED vars
  <2>1. UNCHANGED <<platform, proposal, picker, listing, disk, jobs, shareSaveRequest, handed>>
    BY <1>7 DEF vars, page, given
  <2>2. TypeOK'
    BY <2>1 DEF IInv, TypeOK
  <2>3. OneShareJob' /\ ShareFileIsOfCode' /\ JobsAgree'
    BY <2>1 DEF IInv, OneShareJob, ShareFileIsOfCode, JobsAgree
  <2> QED
    BY <2>2, <2>3 DEF IInv
<1> QED
  BY <1>1, <1>2, <1>3, <1>4, <1>5, <1>6, <1>7 DEF Next

\* The inductive invariant.
THEOREM Invariance == Spec => []IInv
<1> QED
  BY InitHolds, NextHolds, PTL DEF Spec

\* Type correctness: the picker, its list, the disk and the jobs hold what they
\* may, and the share sheet is given a code or what is left of one by a disk that
\* fails, never what other jobs have put in its file.
THEOREM TypeCorrect == Spec => []TypeOK
<1>1. IInv => TypeOK
  BY DEF IInv
<1> QED
  BY <1>1, Invariance, PTL

\* The page waits for its share file exactly while one job writes it, and no
\* second share starts before that job is answered (GeneratorPage.qml, the guard
\* and the two handlers of the Share button).
THEOREM OneShareAtATime == Spec => []OneShareJob
<1>1. IInv => OneShareJob
  BY DEF IInv
<1> QED
  BY <1>1, Invariance, PTL

\* The file of a share is empty while the job writes, and when the job is done it
\* holds the code Share was pressed for, or the part of it that the disk took before
\* it failed, and nothing else, whatever saves run beside it.
THEOREM SharedFileIsOfCode == Spec => []ShareFileIsOfCode
<1>1. IInv => ShareFileIsOfCode
  BY DEF IInv
<1> QED
  BY <1>1, Invariance, PTL

-----------------------------------------------------------------------------
(* The share sheet.                                                        *)

\* What is pending is the code of the one share among the jobs, or nothing.
LEMMA PendingIs ==
    ASSUME NEW list, \A i, j \in DOMAIN list : list[i].id = 1 /\ list[j].id = 1 => i = j
    PROVE  /\ \A i \in DOMAIN list : list[i].id = 1 => PendingOf(list) = list[i].code
           /\ (\A i \in DOMAIN list : list[i].id # 1) => PendingOf(list) = NoCode
<1>1. ASSUME NEW i \in DOMAIN list, list[i].id = 1 PROVE PendingOf(list) = list[i].code
  <2>1. (CHOOSE j \in DOMAIN list : list[j].id = 1) = i
    BY <1>1
  <2> QED
    BY <1>1, <2>1 DEF PendingOf
<1>2. (\A i \in DOMAIN list : list[i].id # 1) => PendingOf(list) = NoCode
  BY DEF PendingOf
<1> QED
  BY <1>1, <1>2

\* It is unchanged where the shares are the same.
LEMMA SamePending ==
    ASSUME NEW list, \A i, j \in DOMAIN list : list[i].id = 1 /\ list[j].id = 1 => i = j,
           NEW next, \A i, j \in DOMAIN next : next[i].id = 1 /\ next[j].id = 1 => i = j,
           \A i \in DOMAIN list : list[i].id = 1 =>
               \E j \in DOMAIN next : next[j].id = 1 /\ next[j].code = list[i].code,
           \A j \in DOMAIN next : next[j].id = 1 => \E i \in DOMAIN list : list[i].id = 1
    PROVE  PendingOf(next) = PendingOf(list)
<1>1. CASE \E i \in DOMAIN list : list[i].id = 1
  <2>1. PICK i \in DOMAIN list : list[i].id = 1
    BY <1>1
  <2>2. PICK j \in DOMAIN next : next[j].id = 1 /\ next[j].code = list[i].code
    BY <2>1
  <2> QED
    BY <2>1, <2>2, PendingIs
<1>2. CASE ~\E i \in DOMAIN list : list[i].id = 1
  BY <1>2, PendingIs
<1> QED
  BY <1>1, <1>2

\* A save, and a job that is started or writes, say nothing to the sheet.
LEMMA QuietSteps ==
    ASSUME IInv, IInv', AcceptSave \/ \E i \in 1 .. MaxJobs : StartJob(i) \/ WriteJob(i)
    PROVE  PendingOf(jobs)' = PendingOf(jobs) /\ UNCHANGED handed
<1>1. /\ jobs \in Seq(JobsOf(proposal))
      /\ \A i, j \in DOMAIN jobs : jobs[i].id = 1 /\ jobs[j].id = 1 => i = j
      /\ \A i, j \in DOMAIN jobs' : jobs'[i].id = 1 /\ jobs'[j].id = 1 => i = j
  BY DEF IInv, TypeOK, JobsOf, OneShareJob
<1>2. CASE AcceptSave
  <2>1. PICK file \in Names(proposal), code \in Codes : RequestSavePng(picker, file, code, 0)
    BY <1>2 DEF AcceptSave
  <2>2. picker \in Folders /\ file \in Names(proposal) \cup {ShareName} /\ 0 \in {0, 1}
    BY <1>2 DEF AcceptSave, IInv, TypeOK, Folders
  <2>3. /\ \A i \in DOMAIN jobs : i \in DOMAIN jobs' /\ jobs'[i] = jobs[i]
        /\ jobs'[Len(jobs) + 1].id = 0
        /\ \A i \in DOMAIN jobs' : i \in DOMAIN jobs \/ i = Len(jobs) + 1
    BY <2>1, <2>2, Requested
  <2>4. PendingOf(jobs') = PendingOf(jobs)
    BY <1>1, <2>3, SamePending
  <2> QED
    BY <1>2, <2>4 DEF AcceptSave
<1>3. ASSUME NEW i \in 1 .. MaxJobs, StartJob(i) \/ WriteJob(i)
      PROVE  PendingOf(jobs)' = PendingOf(jobs) /\ UNCHANGED handed
  <2>1. i \in DOMAIN jobs
    BY <1>3 DEF StartJob, WriteJob
  <2>2. PICK phase \in {"open", "done", "failed"} : Moved(i, phase)
    BY <1>3, Zenon DEF StartJob, WriteJob
  <2>3. /\ DOMAIN jobs' = DOMAIN jobs
        /\ jobs'[i].code = jobs[i].code /\ jobs'[i].id = jobs[i].id
        /\ \A j \in DOMAIN jobs \ {i} : jobs'[j] = jobs[j]
    BY <1>1, <2>1, <2>2, MovedOn
  <2>4. \A j \in DOMAIN jobs : jobs'[j].id = jobs[j].id /\ jobs'[j].code = jobs[j].code
    BY <2>3
  <2>5. PendingOf(jobs') = PendingOf(jobs)
    BY <1>1, <2>3, <2>4, SamePending
  <2>6. UNCHANGED handed
    BY <1>3 DEF StartJob, WriteJob, page
  <2> QED
    BY <2>5, <2>6
<1> QED
  BY <1>2, <1>3

\* Share asks: one code is pending, where there was none.
LEMMA ShareAsks == ASSUME IInv, IInv', ClickShare PROVE Sheet!Ask
<1>1. PICK code \in Codes : RequestSavePng("cache", ShareName, code, 1)
  BY DEF ClickShare
<1>2. /\ \A i, j \in DOMAIN jobs : jobs[i].id = 1 /\ jobs[j].id = 1 => i = j
      /\ \A i, j \in DOMAIN jobs' : jobs'[i].id = 1 /\ jobs'[j].id = 1 => i = j
      /\ \A i \in DOMAIN jobs : jobs[i].id # 1
  BY DEF IInv, OneShareJob, ClickShare, MayShare
<1>3. "cache" \in Folders /\ ShareName \in Names(proposal) \cup {ShareName} /\ 1 \in {0, 1}
  BY DEF Folders
<1>4. /\ Len(jobs) + 1 \in DOMAIN jobs'
      /\ jobs'[Len(jobs) + 1].code = code /\ jobs'[Len(jobs) + 1].id = 1
  BY <1>1, <1>3, Requested
<1>5. PendingOf(jobs) = NoCode /\ PendingOf(jobs') = code
  BY <1>2, <1>4, PendingIs
<1> QED
  BY <1>5 DEF Sheet!Ask, ClickShare

\* The answer to a share hands its code over, or gives up; that to a save neither.
LEMMA AnswerEndsShare ==
    ASSUME IInv, IInv', NEW i, FinishJob(i)
    PROVE  \/ Sheet!HandOver
           \/ Sheet!GiveUp
           \/ PendingOf(jobs)' = PendingOf(jobs) /\ UNCHANGED handed
<1>1. /\ jobs \in Seq(JobsOf(proposal))
      /\ \A j, k \in DOMAIN jobs : jobs[j].id = 1 /\ jobs[k].id = 1 => j = k
      /\ \A j, k \in DOMAIN jobs' : jobs'[j].id = 1 /\ jobs'[k].id = 1 => j = k
  BY DEF IInv, TypeOK, JobsOf, OneShareJob
<1>2. i \in DOMAIN jobs
  BY DEF FinishJob
<1>3. \A j \in DOMAIN jobs' : \E k \in DOMAIN jobs \ {i} : jobs'[j] = jobs[k]
  BY Finished
<1>4. \A k \in DOMAIN jobs \ {i} : \E j \in DOMAIN jobs' : jobs'[j] = jobs[k]
  BY Finished
<1>5. CASE jobs[i].id = 1
  <2>1. PendingOf(jobs) = jobs[i].code
    BY <1>1, <1>2, <1>5, PendingIs
  <2>2. PendingOf(jobs') = NoCode
    <3>1. \A j \in DOMAIN jobs' : jobs'[j].id # 1
      BY <1>1, <1>2, <1>3, <1>5
    <3> QED
      BY <1>1, <3>1, PendingIs
  <2>3. jobs[i].code # NoCode
    <3>1. jobs[i].code \in Codes
      BY <1>1, <1>2, JobParts
    <3> QED
      BY <3>1, CodesAssumption
  <2>4. IF jobs[i].phase = "done" THEN handed' \in {jobs[i].code} \cup Damaged
                                  ELSE handed' = handed
    BY <1>5, Answered
  <2>5. CASE jobs[i].phase = "done"
    BY <2>1, <2>2, <2>3, <2>4, <2>5 DEF Sheet!HandOver
  <2>6. CASE jobs[i].phase # "done"
    BY <2>1, <2>2, <2>4, <2>6 DEF Sheet!GiveUp
  <2> QED
    BY <2>5, <2>6
<1>6. CASE jobs[i].id # 1
  <2>1. PendingOf(jobs') = PendingOf(jobs)
    <3>1. \A k \in DOMAIN jobs : jobs[k].id = 1 =>
              \E j \in DOMAIN jobs' : jobs'[j].id = 1 /\ jobs'[j].code = jobs[k].code
      BY <1>4, <1>6
    <3>2. \A j \in DOMAIN jobs' : jobs'[j].id = 1 => \E k \in DOMAIN jobs : jobs[k].id = 1
      BY <1>3
    <3> QED
      BY <1>1, <3>1, <3>2, SamePending
  <2>2. UNCHANGED handed
    BY <1>6 DEF FinishJob, ClearsShare
  <2> QED
    BY <2>1, <2>2
<1> QED
  BY <1>5, <1>6

\* Every step of the page is one of the sheet, or none.
LEMMA StepRefines ==
    IInv /\ IInv' /\ [Next]_vars => [Sheet!Next]_<<PendingOf(jobs), handed>>
<1> SUFFICES ASSUME IInv, IInv', [Next]_vars
             PROVE  Sheet!Next \/ (PendingOf(jobs)' = PendingOf(jobs) /\ handed' = handed)
  OBVIOUS
<1>1. CASE \/ AcceptSave
           \/ \E i \in 1 .. MaxJobs : StartJob(i) \/ WriteJob(i)
  BY <1>1, QuietSteps
<1>2. CASE ClickShare
  BY <1>2, ShareAsks DEF Sheet!Next
<1>3. ASSUME NEW i \in 1 .. MaxJobs, FinishJob(i)
      PROVE  Sheet!Next \/ (PendingOf(jobs)' = PendingOf(jobs) /\ handed' = handed)
  BY <1>3, AnswerEndsShare DEF Sheet!Next
<1>4. CASE ClickSave \/ GoTo \/ CancelSave \/ ListFolder \/ UNCHANGED vars
  <2>1. UNCHANGED <<jobs, handed>>
    BY <1>4 DEF ClickSave, GoTo, CancelSave, ListFolder, vars, page
  <2> QED
    BY <2>1
<1> QED
  BY <1>1, <1>2, <1>3, <1>4 DEF Next

\* The page implements the safety of the share sheet: at most one code is pending,
\* and what the sheet is given is the code that was pending, as it was, or cut short
\* by the disk.
THEOREM ImplementsSheet == Spec => Sheet!Safety
<1>1. Init => Sheet!Init
  <2> SUFFICES ASSUME Init PROVE Sheet!Init
    OBVIOUS
  <2>1. DOMAIN jobs = {}
    BY DEF Init
  <2>2. PendingOf(jobs) = NoCode
    BY <2>1 DEF PendingOf
  <2> QED
    BY <2>2 DEF Init, Sheet!Init
<1> QED
  BY <1>1, StepRefines, Invariance, PTL DEF Spec, Sheet!Safety

-----------------------------------------------------------------------------
(* The names that are settled for.                                         *)

\* Two characters are a text.
LEMMA TwoCharacters ==
    ASSUME NEW S, NEW a \in S, NEW b \in S
    PROVE  <<a, b>> \in Seq(S)
  OBVIOUS

\* What is put to a name is no separator.
LEMMA PlainSymbols ==
    /\ "." \in Plain /\ "png" \in Plain /\ "_" \in Plain
    /\ \A k \in 1 .. MaxCopy : Numeral[k] \in Plain
<1>1. "." \in Plain /\ "png" \in Plain /\ "_" \in Plain
  BY DEF Plain
<1>2. \A k \in 1 .. MaxCopy : Numeral[k] \in Plain
  BY NumbersAssumption DEF Plain
<1> QED
  BY <1>1, <1>2

\* Names without separators lead to names without separators.
LEMMA PlainNames ==
    ASSUME Proposals \cup TypedNames \subseteq Seq(Plain), NEW p \in Proposals
    PROVE  Names(p) \subseteq Seq(Plain)
<1> DEFINE chosen == {DefaultSaveFile(p)} \cup {AcceptedName(typed, p) : typed \in TypedNames \cup {p}}
           png == <<".", "png">>
<1>1. png \in Seq(Plain)
  BY PlainSymbols, TwoCharacters
<1> HIDE DEF png
<1>2. \A name \in Seq(Plain) : name \o png \in Seq(Plain)
  BY <1>1, ConcatProperties
<1>3. DefaultSaveFile(p) \in Seq(Plain)
  <2>1. DefaultSaveFile(p) = p \o png
    BY DEF DefaultSaveFile, png
  <2> QED
    BY <1>2, <2>1
<1>4. \A typed \in TypedNames \cup {p} : AcceptedName(typed, p) \in Seq(Plain)
  <2> TAKE typed \in TypedNames \cup {p}
  <2> DEFINE name == IF typed = <<>> THEN p ELSE typed
  <2>1. name \in Seq(Plain)
    OBVIOUS
  <2>2. AcceptedName(typed, p) = IF HasSuffix(name) THEN name ELSE name \o png
    BY Zenon DEF AcceptedName, png
  <2> HIDE DEF name
  <2> QED
    BY <1>2, <2>1, <2>2
<1>5. \A name \in chosen : name \in Seq(Plain)
  BY <1>3, <1>4
<1>6. \A k \in 1 .. MaxCopy : Mark(k) \in Seq(Plain)
  <2> TAKE k \in 1 .. MaxCopy
  <2> QED
    BY PlainSymbols, TwoCharacters DEF Mark
<1>7. ASSUME NEW name \in chosen, NEW k \in 1 .. MaxCopy PROVE Copy(name, k) \in Seq(Plain)
  <2>1. name \in Seq(Plain) /\ Mark(k) \in Seq(Plain)
    BY <1>5, <1>6
  <2> QED
    BY <2>1, CopyType
<1>8. Names(p) = chosen \cup {Copy(name, k) : name \in chosen, k \in 1 .. MaxCopy}
  BY DEF Names
<1> HIDE DEF chosen
<1> QED
  BY <1>5, <1>7, <1>8

\* uniqueName() settles for a name that is not on the list, where one is left.
LEMMA UniqueIsUnlisted ==
    ASSUME NEW name, name \notin listing \/ FreeCopies(name) # {}
    PROVE  UniqueName(name) \notin listing
<1>1. CASE name \notin listing
  BY <1>1 DEF UniqueName
<1>2. CASE name \in listing
  <2>1. FreeCopies(name) \in SUBSET Nat /\ FreeCopies(name) # {}
    BY <1>2 DEF FreeCopies
  <2>2. Min(FreeCopies(name)) \in FreeCopies(name)
    BY <2>1, MinIsIn
  <2>3. UniqueName(name) = Copy(name, Min(FreeCopies(name)))
    BY <1>2 DEF UniqueName
  <2> QED
    BY <2>2, <2>3 DEF FreeCopies
<1> QED
  BY <1>1, <1>2

\* Where no job is under way, only an answer of the picker or Share starts one.
LEMMA FirstJob ==
    ASSUME IInv, [Next]_vars, jobs = <<>>, jobs' # <<>>
    PROVE  AcceptSave \/ ClickShare
<1>1. DOMAIN jobs = {}
  OBVIOUS
<1>2. ~\E i \in 1 .. MaxJobs : StartJob(i) \/ WriteJob(i) \/ FinishJob(i)
  BY <1>1 DEF StartJob, WriteJob, FinishJob
<1>3. ~(ClickSave \/ GoTo \/ CancelSave \/ ListFolder \/ UNCHANGED vars)
  BY DEF ClickSave, GoTo, CancelSave, ListFolder, vars
<1> QED
  BY <1>2, <1>3 DEF Next

\* With an up-to-date list and no save under way, the name the in-app picker
\* settles for is of the folder shown, is not taken there, and is a name: it holds
\* no separator, provided none is proposed and none is typed. (What is proposed
\* holds none: the assumption ProposalsAreNames of MCSaveFiles. The field of the
\* picker lets one be typed, and then it is the user who names another folder.)
THEOREM SettledNames ==
    ASSUME Proposals \cup TypedNames \subseteq Seq(Plain)
    PROVE  Spec => SettledNameIsNew
<1> DEFINE P == /\ platform = "desktop"
                /\ jobs = <<>> /\ jobs' # <<>>
                /\ listing = Listed
                /\ Suffix(jobs'[1].file) = <<"png">>
                => /\ jobs'[1].folder = picker
                   /\ jobs'[1].file \notin Listed
                   /\ ~Contains(jobs'[1].file, "/") /\ ~Contains(jobs'[1].file, "\\")
<1>1. ASSUME IInv, [Next]_vars PROVE P
  <2> SUFFICES ASSUME platform = "desktop", jobs = <<>>, jobs' # <<>>, listing = Listed
               PROVE  /\ jobs'[1].folder = picker
                      /\ jobs'[1].file \notin Listed
                      /\ ~Contains(jobs'[1].file, "/") /\ ~Contains(jobs'[1].file, "\\")
    OBVIOUS
  <2>1. AcceptSave
    BY <1>1, FirstJob DEF ClickShare
  <2>2. PICK entered \in TypedNames \cup {proposal} \cup listing, code \in Codes :
            /\ AcceptedName(entered, proposal) \notin listing
                  \/ FreeCopies(AcceptedName(entered, proposal)) # {}
            /\ UniqueName(AcceptedName(entered, proposal)) \in Names(proposal)
            /\ RequestSavePng(picker, UniqueName(AcceptedName(entered, proposal)), code, 0)
    BY <2>1 DEF AcceptSave
  <2> DEFINE file == UniqueName(AcceptedName(entered, proposal))
  <2>3. file \notin listing
    BY <2>2, UniqueIsUnlisted
  <2>4. file \in Names(proposal) /\ RequestSavePng(picker, file, code, 0)
    BY <2>2
  <2> HIDE DEF file
  <2>5. picker \in Folders /\ file \in Names(proposal) \cup {ShareName} /\ 0 \in {0, 1}
    BY <1>1, <2>1, <2>4 DEF AcceptSave, IInv, TypeOK, Folders
  <2>6. jobs'[Len(jobs) + 1].folder = picker /\ jobs'[Len(jobs) + 1].file = file
    BY <1>1, <2>4, <2>5, Requested
  <2>7. Len(jobs) + 1 = 1
    OBVIOUS
  <2>8. jobs'[1].folder = picker /\ jobs'[1].file = file
    BY <2>6, <2>7
  <2>9. file \in Seq(Plain)
    <3>1. proposal \in Proposals
      BY <1>1 DEF IInv, TypeOK
    <3> QED
      BY <2>4, <3>1, PlainNames
  <2>10. ~Contains(file, "/") /\ ~Contains(file, "\\")
    <3>1. \A i \in 1 .. Len(file) : file[i] \in Plain
      BY <2>9
    <3>2. "/" \notin Plain /\ "\\" \notin Plain
      BY DEF Plain
    <3> QED
      BY <3>1, <3>2, Zenon DEF Contains
  <2> QED
    BY <2>3, <2>8, <2>10
<1>2. []IInv /\ [][Next]_vars => [][P]_vars
  BY <1>1, PTL
<1> QED
  BY <1>2, Invariance, PTL DEF Spec, SettledNameIsNew

=============================================================================
