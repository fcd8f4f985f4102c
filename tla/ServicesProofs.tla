--------------------------- MODULE ServicesProofs ---------------------------
(***************************************************************************)
(* What the services around the task engine promise, for any numbers of    *)
(* files, versions, jobs, tasks, callers, processes, requests, entries,    *)
(* models and calls.                                                       *)
(*                                                                         *)
(* One section per service, with a step per action, then the services      *)
(* side by side, where each theorem takes its part of a step of all.       *)
(***************************************************************************)
EXTENDS ServicesInvariant, LarmProofs, SetSums, SequenceTheorems

----------------------------------------------------------------------------
(* Copies of the state.                                                    *)

\* What an action makes of the record of its job.
LEMMA JobRowChanges ==
  ASSUME NEW r \in JobRow, NEW at \in JobPlaces
  PROVE  /\ [r EXCEPT !.at = at] \in JobRow
         /\ \A copy \in StateRow : [r EXCEPT !.at = at, !.copy = copy] \in JobRow
         /\ \A b \in BOOLEAN : [r EXCEPT !.at = at, !.prior = b] \in JobRow
         /\ \A undo \in Seq(UndoRow) :
              /\ [r EXCEPT !.undo = undo] \in JobRow
              /\ [r EXCEPT !.at = at, !.undo = undo] \in JobRow
              /\ \A todo \in SUBSET Files : [r EXCEPT !.todo = todo, !.undo = undo] \in JobRow
         /\ r.at \in JobPlaces /\ r.copy \in StateRow /\ r.todo \in SUBSET Files
         /\ r.undo \in Seq(UndoRow) /\ r.prior \in BOOLEAN /\ r.before \in StateRow
<1> HIDE DEF JobPlaces, StateRow, UndoRow
<1> QED BY DEF JobRow

LEMMA JobPlacesOf ==
  /\ {"none", "copy", "files", "verify", "mark", "replace", "replaced", "undo", "undone",
      "unmark", "restored"} \subseteq JobPlaces
  /\ NoCopy \in StateRow /\ NoJob.at = "none"
BY DEF JobPlaces, Restoring, NoCopy, StateRow, NoJob

LEMMA NoJobTyped ==
  /\ NoJob \in JobRow
  /\ \A copy, old \in StateRow, todo \in SUBSET Files :
       [NoJob EXCEPT !.at = "mark", !.copy = copy, !.todo = todo, !.before = old] \in JobRow
<1>1. << >> \in Seq(UndoRow)
  OBVIOUS
<1>2. \A at \in JobPlaces, copy, old \in StateRow, todo \in SUBSET Files :
        [at |-> at, copy |-> copy, todo |-> todo, undo |-> << >>, prior |-> FALSE,
         before |-> old] \in JobRow
  BY <1>1 DEF JobRow
<1>3. NoCopy \in StateRow /\ "none" \in JobPlaces /\ "mark" \in JobPlaces
  BY JobPlacesOf
<1>4. NoJob \in JobRow
  BY <1>2, <1>3 DEF NoJob
<1>5. ASSUME NEW copy \in StateRow, NEW old \in StateRow, NEW todo \in SUBSET Files
      PROVE  [NoJob EXCEPT !.at = "mark", !.copy = copy, !.todo = todo, !.before = old]
               \in JobRow
  <2>1. ASSUME NEW r \in JobRow
        PROVE  /\ [r EXCEPT !.at = "mark"] \in JobRow /\ [r EXCEPT !.copy = copy] \in JobRow
               /\ [r EXCEPT !.todo = todo] \in JobRow /\ [r EXCEPT !.before = old] \in JobRow
    BY <1>3 DEF JobRow
  <2> QED BY <1>4, <2>1
<1> QED BY <1>4, <1>5

\* The actions of a job, and those of nobody's.
JobStep(j) ==
  \/ BeginBackup(j) \/ CopyBase(j) \/ CopyFiles(j) \/ Publish(j)
  \/ BeginRestore(j) \/ Mark(j) \/ ReplaceFile(j) \/ ReplaceBase(j)
  \/ ReplaceFails(j) \/ Undo(j) \/ Undone(j)
  \/ DropJournal(j) \/ Unmark(j) \/ Leave(j)
ServiceStep == StartService \/ Work \/ StopService

LEMMA BackupSteps ==
  ASSUME BackupNext
  PROVE  ServiceStep \/ (\E f \in Files : Lose(f)) \/ \E j \in Jobs : JobStep(j)
BY DEF BackupNext, JobStep, ServiceStep

\* The undo list one row longer, and one row shorter.
LEMMA UndoRows ==
  ASSUME NEW u \in Seq(UndoRow), NEW f \in Files \cup {"base"}, NEW was \in Versions \cup {0}
  PROVE  /\ u \o Kept(f, was) \in Seq(UndoRow) /\ Len(u \o Kept(f, was)) = Len(u) + 1
         /\ \A i \in 1..Len(u) : (u \o Kept(f, was))[i] = u[i]
         /\ (u \o Kept(f, was))[Len(u) + 1] = [target |-> f, was |-> was]
<1>1. /\ Kept(f, was) \in Seq(UndoRow) /\ Len(Kept(f, was)) = 1
      /\ Kept(f, was)[1] = [target |-> f, was |-> was]
  BY DEF Kept, UndoRow
<1> QED BY <1>1, ConcatProperties

LEMMA UndoneRows ==
  ASSUME NEW S, NEW u \in Seq(S), u # << >>
  PROVE  /\ Len(u) \in Nat \ {0} /\ SubSeq(u, 1, Len(u) - 1) \in Seq(S)
         /\ Len(SubSeq(u, 1, Len(u) - 1)) = Len(u) - 1
         /\ \A i \in 1..(Len(u) - 1) : SubSeq(u, 1, Len(u) - 1)[i] = u[i]
<1>1. Len(u) \in Nat \ {0} /\ \A i \in 1..(Len(u) - 1) : u[i] \in S
  OBVIOUS
<1> DEFINE n == Len(u) - 1
<1>2. n \in Nat /\ 1 \in Int /\ n \in Int /\ \A i \in 1..n : u[i] \in S
  BY <1>1
<1> HIDE DEF n
<1>3. /\ SubSeq(u, 1, n) \in Seq(S) /\ Len(SubSeq(u, 1, n)) = IF 1 <= n THEN n - 1 + 1 ELSE 0
      /\ \A i \in 1 .. n - 1 + 1 : SubSeq(u, 1, n)[i] = u[1 + i - 1]
  BY <1>2, SubSeqProperties
<1>4. Len(SubSeq(u, 1, n)) = n /\ \A i \in 1..n : SubSeq(u, 1, n)[i] = u[i]
  BY <1>2, <1>3
<1> QED BY <1>1, <1>3, <1>4 DEF n

LEMMA JobMoves ==
  ASSUME BackupIsTyped, NEW j \in Jobs, JobStep(j)
  PROVE  job'[j] \in JobRow /\ job' = [job EXCEPT ![j] = job'[j]]
<1> DEFINE Goal == \E r \in JobRow : job' = [job EXCEPT ![j] = r]
<1>1. /\ job \in [Jobs -> JobRow] /\ job[j] \in JobRow /\ base \in Versions
      /\ file \in [Files -> Versions \cup {0}] /\ marker \in BOOLEAN
  BY DEF BackupIsTyped
<1>2. /\ job[j].at \in JobPlaces /\ job[j].copy \in StateRow /\ job[j].todo \in SUBSET Files
      /\ job[j].undo \in Seq(UndoRow) /\ job[j].prior \in BOOLEAN /\ job[j].before \in StateRow
  BY <1>1, JobPlacesOf, JobRowChanges
<1>3. SUFFICES Goal
  BY <1>1
<1>4. ASSUME NEW at \in JobPlaces, JobGoes(j, at) PROVE Goal
  <2>1. job' = [job EXCEPT ![j] = [job[j] EXCEPT !.at = at]]
    BY <1>4 DEF JobGoes
  <2>2. [job[j] EXCEPT !.at = at] \in JobRow
    BY <1>1, JobRowChanges
  <2> QED BY <2>1, <2>2
<1>5. CASE BeginBackup(j) \/ ReplaceFails(j) \/ Undone(j) \/ DropJournal(j) \/ Unmark(j)
  BY <1>4, <1>5, JobPlacesOf DEF BeginBackup, ReplaceFails, Undone, DropJournal, Unmark
<1>6. CASE Publish(j) \/ Leave(j)
  BY <1>6, NoJobTyped DEF Publish, Leave
<1>7. CASE CopyBase(j)
  <2> DEFINE r == [job[j] EXCEPT !.at = "files", !.copy = [NoCopy EXCEPT !.base = base]]
  <2>1. [NoCopy EXCEPT !.base = base] \in StateRow
    BY <1>1, JobPlacesOf DEF StateRow
  <2>2. r \in JobRow
    BY <1>1, <2>1, JobRowChanges, JobPlacesOf
  <2>3. job' = [job EXCEPT ![j] = r]
    BY <1>7 DEF CopyBase
  <2> QED BY <2>2, <2>3
<1>8. CASE CopyFiles(j)
  <2> DEFINE r == [job[j] EXCEPT !.at = "verify", !.copy = [job[j].copy EXCEPT !.file = file]]
  <2>1. [job[j].copy EXCEPT !.file = file] \in StateRow
    BY <1>1, <1>2 DEF StateRow
  <2>2. r \in JobRow
    BY <1>1, <2>1, JobRowChanges, JobPlacesOf
  <2>3. job' = [job EXCEPT ![j] = r]
    BY <1>8 DEF CopyFiles
  <2> QED BY <2>2, <2>3
<1>9. CASE BeginRestore(j)
  <2> DEFINE r(copy) == [NoJob EXCEPT !.at = "mark", !.copy = copy, !.todo = Contents(copy),
                                      !.before = [base |-> base, file |-> file]]
  <2>1. PICK copy \in backups : job' = [job EXCEPT ![j] = r(copy)]
    BY <1>9 DEF BeginRestore
  <2>2. copy \in StateRow /\ Contents(copy) \in SUBSET Files
    BY DEF BackupIsTyped, Contents
  <2>3. [base |-> base, file |-> file] \in StateRow
    BY <1>1 DEF StateRow
  <2>4. r(copy) \in JobRow
    BY <2>2, <2>3, NoJobTyped
  <2> QED BY <2>1, <2>4
<1>10. CASE Mark(j)
  <2> DEFINE r == [job[j] EXCEPT !.at = "replace", !.prior = marker]
  <2>1. r \in JobRow
    BY <1>1, JobRowChanges, JobPlacesOf
  <2>2. job' = [job EXCEPT ![j] = r]
    BY <1>10 DEF Mark
  <2> QED BY <2>1, <2>2
<1>11. CASE ReplaceFile(j)
  <2>1. PICK f \in job[j].todo :
          job' = [job EXCEPT ![j].todo = @ \ {f}, ![j].undo = @ \o Kept(f, file[f])]
    BY <1>11 DEF ReplaceFile
  <2> DEFINE undo == job[j].undo \o Kept(f, file[f])
             r == [job[j] EXCEPT !.todo = job[j].todo \ {f}, !.undo = undo]
  <2>2. undo \in Seq(UndoRow) /\ job[j].todo \ {f} \in SUBSET Files
    BY <1>1, <1>2, UndoRows
  <2>3. r \in JobRow
    BY <1>1, <2>2, JobRowChanges, JobPlacesOf
  <2>4. job' = [job EXCEPT ![j] = r]
    BY <2>1
  <2> QED BY <2>3, <2>4
<1>12. CASE ReplaceBase(j)
  <2> DEFINE undo == job[j].undo \o Kept("base", base)
             r == [job[j] EXCEPT !.at = "replaced", !.undo = undo]
  <2>1. undo \in Seq(UndoRow)
    BY <1>1, <1>2, UndoRows
  <2>2. r \in JobRow
    BY <1>1, <2>1, JobRowChanges, JobPlacesOf
  <2>3. job' = [job EXCEPT ![j] = r]
    BY <1>12 DEF ReplaceBase
  <2> QED BY <2>2, <2>3
<1>13. CASE Undo(j)
  <2> DEFINE undo == SubSeq(job[j].undo, 1, Len(job[j].undo) - 1)
             r == [job[j] EXCEPT !.undo = undo]
  <2>1. undo \in Seq(UndoRow)
    <3>1. job[j].undo # << >>
      BY <1>13 DEF Undo
    <3> QED BY <1>2, <3>1, UndoneRows
  <2>2. ASSUME NEW u \in Seq(UndoRow) PROVE [job[j] EXCEPT !.undo = u] \in JobRow
    BY <1>1, JobRowChanges, JobPlacesOf
  <2>3. job' = [job EXCEPT ![j] = r]
    BY <1>13 DEF Undo
  <2> QED BY <2>1, <2>2, <2>3
<1> QED BY <1>5, <1>6, <1>7, <1>8, <1>9, <1>10, <1>11, <1>12, <1>13 DEF JobStep

\* While a job works the others, and the service, do not.
LEMMA OnlyOneWorks ==
  ASSUME LockIsHeld
  PROVE  /\ \A j \in Jobs : ~JobAt(j, "none") =>
              lock = {j} /\ ~Up /\ \A k \in Jobs \ {j} : JobAt(k, "none")
         /\ lock = {} \/ Up => \A j \in Jobs : JobAt(j, "none")
<1>1. \A j \in Jobs : j # Service
  BY BackupAssumption DEF Service
<1>2. \A j, k \in Jobs : ~JobAt(j, "none") /\ ~JobAt(k, "none") => j = k
  BY DEF LockIsHeld
<1> QED BY <1>1, <1>2 DEF LockIsHeld, Up

\* Where a job is when it acts, and where it goes.
LEMMA JobPlacesMove ==
  ASSUME BackupIsTyped, NEW j \in Jobs, JobStep(j)
  PROVE  /\ \A k \in Jobs \ {j} : job'[k] = job[k]
         /\ \/ BeginBackup(j) /\ JobAt(j, "none") /\ job'[j].at = "copy"
            \/ CopyBase(j) /\ JobAt(j, "copy") /\ job'[j].at = "files"
            \/ CopyFiles(j) /\ JobAt(j, "files") /\ job'[j].at = "verify"
            \/ Publish(j) /\ JobAt(j, "verify") /\ job'[j].at = "none"
            \/ BeginRestore(j) /\ JobAt(j, "none") /\ job'[j].at = "mark"
            \/ Mark(j) /\ JobAt(j, "mark") /\ job'[j].at = "replace"
            \/ ReplaceFile(j) /\ JobAt(j, "replace") /\ job'[j].at = "replace"
            \/ ReplaceBase(j) /\ JobAt(j, "replace") /\ job'[j].at = "replaced"
            \/ ReplaceFails(j) /\ JobAt(j, "replace") /\ job'[j].at = "undo"
            \/ Undo(j) /\ JobAt(j, "undo") /\ job'[j].at = "undo"
            \/ Undone(j) /\ JobAt(j, "undo") /\ job'[j].at = "undone"
            \/ DropJournal(j) /\ JobAt(j, "replaced") /\ job'[j].at = "unmark"
            \/ Unmark(j) /\ JobAt(j, "unmark") /\ job'[j].at = "restored"
            \/ Leave(j) /\ ~JobAt(j, "none") /\ job'[j].at = "none"
<1>1. job \in [Jobs -> JobRow] /\ job[j] \in JobRow /\ NoJob.at = "none"
  BY JobPlacesOf DEF BackupIsTyped
<1>2. job' = [job EXCEPT ![j] = job'[j]]
  BY JobMoves
<1>3. \A k \in Jobs \ {j} : job'[k] = job[k]
  BY <1>1, <1>2
<1>4. ASSUME NEW r, job' = [job EXCEPT ![j] = r] PROVE job'[j] = r
  BY <1>1, <1>4
<1>5. ASSUME NEW at, JobGoes(j, at) PROVE job'[j].at = at
  BY <1>1, <1>5 DEF JobGoes, JobRow
<1>6. CASE BeginBackup(j)
  BY <1>3, <1>5, <1>6 DEF BeginBackup
<1>7. CASE CopyBase(j)
  <2>1. job'[j] = [job[j] EXCEPT !.at = "files", !.copy = [NoCopy EXCEPT !.base = base]]
    BY <1>1, <1>7 DEF CopyBase
  <2> QED BY <1>1, <1>3, <1>7, <2>1 DEF CopyBase, JobRow
<1>8. CASE CopyFiles(j)
  <2>1. job'[j] = [job[j] EXCEPT !.at = "verify", !.copy = [job[j].copy EXCEPT !.file = file]]
    BY <1>1, <1>8 DEF CopyFiles
  <2> QED BY <1>1, <1>3, <1>8, <2>1 DEF CopyFiles, JobRow
<1>9. CASE Publish(j)
  BY <1>1, <1>3, <1>4, <1>9 DEF Publish
<1>10. CASE BeginRestore(j)
  <2>1. PICK copy \in backups :
          job' = [job EXCEPT ![j] = [NoJob EXCEPT !.at = "mark", !.copy = copy,
                    !.todo = Contents(copy), !.before = [base |-> base, file |-> file]]]
    BY <1>10 DEF BeginRestore
  <2>2. job'[j].at = "mark"
    BY <1>4, <2>1 DEF NoJob
  <2> QED BY <1>3, <1>10, <2>2 DEF BeginRestore
<1>11. CASE Mark(j)
  <2>1. job'[j] = [job[j] EXCEPT !.at = "replace", !.prior = marker]
    BY <1>1, <1>11 DEF Mark
  <2> QED BY <1>1, <1>3, <1>11, <2>1 DEF Mark, JobRow
<1>12. CASE ReplaceFile(j)
  <2>1. PICK f \in job[j].todo :
          job' = [job EXCEPT ![j].todo = @ \ {f}, ![j].undo = @ \o Kept(f, file[f])]
    BY <1>12 DEF ReplaceFile
  <2>2. job'[j].at = job[j].at
    BY <1>1, <2>1 DEF JobRow
  <2> QED BY <1>3, <1>12, <2>2 DEF ReplaceFile, JobAt
<1>13. CASE ReplaceBase(j)
  <2>1. job'[j] = [job[j] EXCEPT !.at = "replaced", !.undo = @ \o Kept("base", base)]
    BY <1>1, <1>13 DEF ReplaceBase
  <2> QED BY <1>1, <1>3, <1>13, <2>1 DEF ReplaceBase, JobRow
<1>14. CASE ReplaceFails(j)
  BY <1>3, <1>5, <1>14 DEF ReplaceFails
<1>15. CASE Undo(j)
  <2>1. \E u : job' = [job EXCEPT ![j].undo = u]
    BY <1>15 DEF Undo
  <2>2. job'[j].at = job[j].at
    BY <1>1, <2>1 DEF JobRow
  <2> QED BY <1>3, <1>15, <2>2 DEF Undo, JobAt
<1>16. CASE Undone(j)
  BY <1>3, <1>5, <1>16 DEF Undone
<1>17. CASE DropJournal(j)
  BY <1>3, <1>5, <1>17 DEF DropJournal
<1>18. CASE Unmark(j)
  BY <1>3, <1>5, <1>18 DEF Unmark
<1>19. CASE Leave(j)
  BY <1>1, <1>3, <1>4, <1>19 DEF Leave
<1> QED BY <1>6, <1>7, <1>8, <1>9, <1>10, <1>11, <1>12, <1>13, <1>14, <1>15, <1>16, <1>17,
           <1>18, <1>19 DEF JobStep

\* Who writes what.
LEMMA WhoWritesState ==
  ASSUME BackupIsTyped, LockIsHeld, BackupNext
  PROVE  /\ \/ UNCHANGED job
            \/ \E j \in Jobs : JobStep(j)
         /\ \/ UNCHANGED file
            \/ Work
            \/ \E f \in Files : Lose(f)
            \/ \E j \in Jobs : ReplaceFile(j) \/ Undo(j)
         /\ UNCHANGED base \/ Work \/ \E j \in Jobs : ReplaceBase(j) \/ Undo(j)
         /\ UNCHANGED journal \/ Work \/ StopService \/ \E j \in Jobs : DropJournal(j)
         /\ UNCHANGED marker \/ \E j \in Jobs : Mark(j) \/ Undone(j) \/ Unmark(j)
         /\ UNCHANGED losses \/ \E f \in Files : Lose(f)
         /\ UNCHANGED backups \/ \E j \in Jobs : Publish(j)
<1> USE DEF ServiceStep
<1>1. CASE StartService
  BY <1>1 DEF StartService
<1>2. CASE Work
  BY <1>2 DEF Work
<1>3. CASE StopService
  BY <1>3 DEF StopService
<1>4. CASE \E f \in Files : Lose(f)
  BY <1>4 DEF Lose
<1>5. ASSUME NEW j \in Jobs, JobStep(j)
      PROVE  /\ UNCHANGED file \/ ReplaceFile(j) \/ Undo(j)
             /\ UNCHANGED base \/ ReplaceBase(j) \/ Undo(j)
             /\ UNCHANGED journal \/ DropJournal(j)
             /\ UNCHANGED marker \/ Mark(j) \/ Undone(j) \/ Unmark(j)
             /\ UNCHANGED losses /\ (UNCHANGED backups \/ Publish(j))
  BY <1>5 DEF JobStep, BeginBackup, CopyBase, CopyFiles, Publish, BeginRestore, Mark, ReplaceFile,
       ReplaceBase, ReplaceFails, Undo, Undone, DropJournal, Unmark, Leave
<1> QED BY <1>1, <1>2, <1>3, <1>4, <1>5, BackupSteps

LEMMA BackupTypesStay ==
  ASSUME BackupInvariant, BackupNext
  PROVE  BackupIsTyped'
<1>1. BackupIsTyped /\ LockIsHeld
  BY DEF BackupInvariant
<1>2. /\ base \in Versions /\ journal \in Versions \cup {0} /\ marker \in BOOLEAN
      /\ file \in [Files -> Versions \cup {0}] /\ job \in [Jobs -> JobRow] /\ losses \in Nat
  BY <1>1 DEF BackupIsTyped
<1>3. \A j \in Jobs : /\ job[j].copy \in StateRow /\ job[j].undo \in Seq(UndoRow)
                      /\ job[j].prior \in BOOLEAN
  BY <1>2 DEF JobRow
<1>4. job' \in [Jobs -> JobRow]
  <2>1. ASSUME NEW j \in Jobs, JobStep(j) PROVE job' \in [Jobs -> JobRow]
    BY <1>1, <1>2, <2>1, JobMoves
  <2> QED BY <1>1, <1>2, <2>1, WhoWritesState
<1>5. marker' \in BOOLEAN
  BY <1>1, <1>2, <1>3, WhoWritesState DEF Mark, Undone, Unmark
<1>6. losses' \in Nat
  BY <1>1, <1>2, WhoWritesState DEF Lose
<1>7. base' \in Versions
  <2>1. ASSUME NEW j \in Jobs, ReplaceBase(j) PROVE base' \in Versions
    <3>1. Replaced(j)
      BY <2>1 DEF ReplaceBase, JobAt, BackupInvariant
    <3> QED BY <2>1, <3>1 DEF ReplaceBase, Replaced
  <2>2. ASSUME NEW j \in Jobs, Undo(j) PROVE base' \in Versions
    <3>1. Undoable(j) /\ job[j].undo # << >> /\ job[j].undo \in Seq(UndoRow)
      BY <1>3, <2>2 DEF Undo, JobAt, BackupInvariant
    <3>2. Len(job[j].undo) \in 1..Len(job[j].undo)
      BY <3>1, UndoneRows
    <3>3. job[j].undo[Len(job[j].undo)].target # "base"
      BY <3>1, <3>2, BackupAssumption DEF Undoable, Target
    <3> QED BY <1>2, <2>2, <3>3 DEF Undo
  <2>3. CASE Work
    BY <2>3 DEF Work
  <2> QED BY <1>1, <1>2, <2>1, <2>2, <2>3, WhoWritesState
<1>8. journal' \in Versions \cup {0}
  BY <1>1, <1>2, WhoWritesState DEF Work, StopService, DropJournal
<1>9. file' \in [Files -> Versions \cup {0}]
  <2>1. ASSUME NEW f, NEW v \in Versions \cup {0}, file' = [file EXCEPT ![f] = v]
        PROVE  file' \in [Files -> Versions \cup {0}]
    BY <1>2, <2>1
  <2>2. ASSUME NEW j \in Jobs, ReplaceFile(j) PROVE file' \in [Files -> Versions \cup {0}]
    <3>1. PICK f \in job[j].todo : file' = [file EXCEPT ![f] = job[j].copy.file[f]]
      BY <2>2 DEF ReplaceFile
    <3>2. job[j].todo \in SUBSET Files
      BY <1>2 DEF JobRow
    <3>3. job[j].copy.file[f] \in Versions \cup {0}
      BY <1>3, <3>2 DEF StateRow
    <3> QED BY <2>1, <3>1, <3>3
  <2>3. ASSUME NEW j \in Jobs, Undo(j) PROVE file' \in [Files -> Versions \cup {0}]
    <3>1. job[j].undo # << >> /\ job[j].undo \in Seq(UndoRow)
      BY <1>3, <2>3 DEF Undo
    <3>2. Len(job[j].undo) \in 1..Len(job[j].undo)
      BY <3>1, UndoneRows
    <3>3. job[j].undo[Len(job[j].undo)] \in UndoRow
      BY <3>1, <3>2
    <3>4. job[j].undo[Len(job[j].undo)].was \in Versions \cup {0}
      BY <3>3 DEF UndoRow
    <3>5. \/ file' = file
          \/ file' = [file EXCEPT ![job[j].undo[Len(job[j].undo)].target]
                                    = job[j].undo[Len(job[j].undo)].was]
      BY <2>3 DEF Undo
    <3> QED BY <1>2, <2>1, <3>4, <3>5
  <2>4. CASE Work
    <3>1. PICK v \in Versions : file' = [f \in Files |-> IF f \in Refs[v] THEN v ELSE file[f]]
      BY <2>4 DEF Work
    <3> QED BY <1>2, <3>1
  <2>5. ASSUME NEW f \in Files, Lose(f) PROVE file' \in [Files -> Versions \cup {0}]
    BY <2>1, <2>5 DEF Lose
  <2> QED BY <1>1, <1>2, <2>2, <2>3, <2>4, <2>5, WhoWritesState
<1>10. \A copy \in backups' : copy \in StateRow /\ copy.base \in Versions /\ Whole(copy)
  <2>1. \A copy \in backups : copy \in StateRow /\ copy.base \in Versions /\ Whole(copy)
    BY <1>1 DEF BackupIsTyped
  <2>2. ASSUME NEW j \in Jobs, Publish(j)
        PROVE  \A copy \in backups' : copy \in StateRow /\ copy.base \in Versions /\ Whole(copy)
    <3>1. job[j].copy.base \in Versions
      BY <2>2 DEF Publish, JobAt, BackupInvariant
    <3> QED BY <1>3, <2>1, <2>2, <3>1 DEF Publish
  <2> QED BY <1>1, <2>1, <2>2, WhoWritesState
<1> QED BY <1>4, <1>5, <1>6, <1>7, <1>8, <1>9, <1>10 DEF BackupIsTyped, Whole

LEMMA LockStays ==
  ASSUME BackupInvariant, BackupNext
  PROVE  LockIsHeld'
<1>1. BackupIsTyped /\ LockIsHeld
  BY DEF BackupInvariant
<1>2. Service \notin Jobs
  BY BackupAssumption DEF Service
<1>3. ASSUME NEW j \in Jobs, JobStep(j) PROVE LockIsHeld'
  <2>1. \A k \in Jobs \ {j} : job'[k] = job[k]
    BY <1>1, <1>3, JobPlacesMove
  <2>2. CASE lock = {} /\ lock' = {j} /\ UNCHANGED marker
    <3>1. \A k \in Jobs : JobAt(k, "none")
      BY <1>1, <2>2, OnlyOneWorks
    <3> QED BY <1>2, <2>1, <2>2, <3>1 DEF LockIsHeld, JobAt, Up
  <2>3. CASE lock = {j} /\ lock' = {} /\ job'[j].at = "none" /\ UNCHANGED marker
    <3>1. \A k \in Jobs \ {j} : JobAt(k, "none")
      BY <1>1, <1>2, <2>3 DEF LockIsHeld
    <3> QED BY <1>2, <2>1, <2>3, <3>1 DEF LockIsHeld, JobAt, Up
  <2>4. CASE lock = {j} /\ UNCHANGED lock
    <3>1. \A k \in Jobs \ {j} : JobAt(k, "none")
      BY <1>1, <1>2, <2>4 DEF LockIsHeld
    <3> QED BY <1>2, <2>1, <2>4, <3>1 DEF LockIsHeld, JobAt, Up
  <2>5. CASE JobAt(j, "none")
    <3>1. BeginBackup(j) \/ BeginRestore(j)
      BY <1>1, <1>3, <2>5, JobPlacesMove DEF JobAt
    <3> QED BY <2>2, <3>1 DEF BeginBackup, BeginRestore, CanEnter
  <2>6. CASE ~JobAt(j, "none")
    <3>1. lock = {j}
      BY <1>1, <2>6, OnlyOneWorks
    <3>2. CASE Publish(j) \/ Leave(j)
      <4>1. job'[j].at = "none"
        BY <1>1, <1>3, <3>2, JobPlacesMove, <2>6 DEF Publish, Leave, JobAt, BackupIsTyped, NoJob
      <4>2. lock' = {} /\ UNCHANGED marker
        BY <3>1, <3>2 DEF Publish, Leave
      <4> QED BY <2>3, <3>1, <4>1, <4>2
    <3>3. CASE ~(Publish(j) \/ Leave(j))
      <4>1. \/ CopyBase(j) \/ CopyFiles(j) \/ Mark(j) \/ ReplaceFile(j) \/ ReplaceBase(j)
            \/ ReplaceFails(j) \/ Undo(j) \/ Undone(j) \/ DropJournal(j) \/ Unmark(j)
        BY <1>3, <2>6, <3>3 DEF JobStep, BeginBackup, BeginRestore
      <4>2. UNCHANGED lock
        BY <4>1 DEF CopyBase, CopyFiles, Mark, ReplaceFile, ReplaceBase, ReplaceFails, Undo,
                    Undone, DropJournal, Unmark
      <4> QED BY <2>4, <3>1, <4>2
    <3> QED BY <3>2, <3>3
  <2> QED BY <2>5, <2>6
<1>4. CASE ServiceStep
  <2>1. lock = {} \/ Up
    BY <1>4 DEF ServiceStep, StartService, Work, StopService, CanEnter
  <2>2. \A j \in Jobs : JobAt(j, "none")
    BY <1>1, <2>1, OnlyOneWorks
  <2>3. UNCHANGED job
    BY <1>4 DEF ServiceStep, StartService, Work, StopService
  <2>4. lock' \in {{}, {Service}} /\ UNCHANGED marker /\ (Up' => ~marker)
    BY <1>1, <1>4 DEF ServiceStep, StartService, Work, StopService, CanEnter, Up, LockIsHeld
  <2> QED BY <2>2, <2>3, <2>4 DEF LockIsHeld, JobAt, Up
<1>5. ASSUME NEW f \in Files, Lose(f) PROVE LockIsHeld'
  BY <1>1, <1>5 DEF Lose, LockIsHeld, JobAt, Up
<1> QED BY <1>3, <1>4, <1>5, BackupSteps

\* What was replaced is of the version of the copy.
LEMMA ReplacedIsOne ==
  ASSUME BackupIsTyped, NEW j \in Jobs, Replaced(j), job[j].at \in {"replaced", "unmark"}
  PROVE  Contained(State)
<1>1. /\ base = job[j].copy.base /\ base \in Versions /\ Whole(job[j].copy)
      /\ \A f \in Contents(job[j].copy) : file[f] \in {0, job[j].copy.file[f]}
  BY DEF Replaced, Restored
<1>2. Refs[base] \in SUBSET Files /\ base # 0
  BY <1>1, BackupAssumption
<1>3. ASSUME NEW f \in Refs[base] PROVE file[f] \in {0, base}
  <2>1. job[j].copy.file[f] = base /\ f \in Files
    BY <1>1, <1>2 DEF Whole
  <2>2. f \in Contents(job[j].copy)
    BY <1>2, <2>1 DEF Contents
  <2> QED BY <1>1, <2>1, <2>2
<1> QED BY <1>3 DEF Contained, State

\* A state in place of which nothing was left aside is the one that was found.
LEMMA FoundAgain ==
  ASSUME BackupIsTyped, NEW j \in Jobs, Undoable(j), job[j].undo = << >>
  PROVE  base = job[j].before.base /\ \A f \in Files : Found(j, f, file[f])
<1>1. Len(job[j].undo) = 0
  OBVIOUS
<1>2. Replacements(j) = {}
  BY <1>1 DEF Replacements
<1> QED BY <1>2 DEF Undoable

LEMMA UnmarkedStays ==
  ASSUME BackupInvariant, BackupNext
  PROVE  UnmarkedIsOne'
<1>1. BackupIsTyped /\ LockIsHeld /\ UnmarkedIsOne
  BY DEF BackupInvariant
<1>2. base \in Versions /\ \A v \in Versions : Refs[v] \in SUBSET Files /\ v # 0
  BY <1>1, BackupAssumption DEF BackupIsTyped
<1>3. file \in [Files -> Versions \cup {0}]
  BY <1>1 DEF BackupIsTyped
<1> USE DEF UnmarkedIsOne, Contained, State
<1>4. CASE StartService
  BY <1>1, <1>4 DEF StartService
<1>5. CASE Work
  <2>1. PICK v \in Versions : /\ base' = v /\ journal' = v
                              /\ file' = [f \in Files |-> IF f \in Refs[v] THEN v ELSE file[f]]
    BY <1>5 DEF Work
  <2> QED BY <1>2, <2>1
<1>6. CASE StopService
  BY <1>1, <1>6 DEF StopService
<1>7. ASSUME NEW f \in Files, Lose(f) PROVE UnmarkedIsOne'
  <2>1. file' = [file EXCEPT ![f] = 0] /\ UNCHANGED <<base, journal, marker>>
    BY <1>7 DEF Lose
  <2> QED BY <1>1, <1>2, <1>3, <2>1
<1>8. ASSUME NEW j \in Jobs, JobStep(j) PROVE UnmarkedIsOne'
  <2>1. Marked(j)
    BY DEF BackupInvariant
  <2>2. CASE ReplaceFile(j) \/ ReplaceBase(j) \/ Undo(j) \/ DropJournal(j)
    <3>1. marker /\ UNCHANGED marker
      BY <2>1, <2>2 DEF Marked, ReplaceFile, ReplaceBase, Undo, DropJournal, JobAt
    <3> QED BY <3>1
  <2>3. CASE Mark(j)
    BY <2>3 DEF Mark
  <2>4. CASE Undone(j)
    <3>1. /\ marker' = job[j].prior /\ UNCHANGED <<base, journal, file>>
          /\ job[j].at = "undo" /\ job[j].undo = << >>
      BY <2>4 DEF Undone, JobAt
    <3>2. Undoable(j)
      BY <3>1 DEF BackupInvariant
    <3>3. base = job[j].before.base /\ \A f \in Files : Found(j, f, file[f])
      BY <1>1, <3>1, <3>2, FoundAgain
    <3>4. ~job[j].prior => /\ journal \in {0, job[j].before.base}
                           /\ \A f \in Refs[base] : job[j].before.file[f] \in {0, base}
      BY <2>1, <3>1, <3>3 DEF Marked
    <3>5. ~job[j].prior => \A f \in Refs[base] : file[f] \in {0, base}
      BY <1>2, <3>3, <3>4 DEF Found
    <3> QED BY <3>1, <3>3, <3>4, <3>5
  <2>5. CASE Unmark(j)
    <3>1. job[j].at = "unmark" /\ UNCHANGED <<base, journal, file>>
      BY <2>5 DEF Unmark, JobAt
    <3>2. Replaced(j)
      BY <3>1 DEF BackupInvariant
    <3>3. Contained(State) /\ journal = 0
      BY <1>1, <3>1, <3>2, ReplacedIsOne DEF Replaced, JobAt
    <3> QED BY <3>1, <3>3
  <2>6. CASE \/ BeginBackup(j) \/ CopyBase(j) \/ CopyFiles(j) \/ Publish(j) \/ BeginRestore(j)
             \/ ReplaceFails(j) \/ Leave(j)
    <3>1. UNCHANGED <<base, journal, file, marker>>
      BY <2>6 DEF BeginBackup, CopyBase, CopyFiles, Publish, BeginRestore, ReplaceFails, Leave
    <3> QED BY <1>1, <3>1
  <2> QED BY <1>8, <2>2, <2>3, <2>4, <2>5, <2>6 DEF JobStep
<1> QED BY <1>4, <1>5, <1>6, <1>7, <1>8, BackupSteps DEF ServiceStep

\* What an action leaves of the record of its job.
SameRecord(j) ==
  /\ job'[j].copy = job[j].copy /\ job'[j].todo = job[j].todo /\ job'[j].undo = job[j].undo
  /\ job'[j].prior = job[j].prior /\ job'[j].before = job[j].before

LEMMA RecordsMove ==
  ASSUME BackupIsTyped, NEW j \in Jobs
  PROVE  /\ CopyBase(j) => job'[j].copy.base = base
         /\ CopyFiles(j) => job'[j].copy.base = job[j].copy.base
         /\ BeginRestore(j) => /\ job'[j].copy \in backups /\ job'[j].undo = << >>
                               /\ job'[j].todo = Contents(job'[j].copy)
                               /\ job'[j].before = [base |-> base, file |-> file]
         /\ Mark(j) => /\ job'[j].copy = job[j].copy /\ job'[j].todo = job[j].todo
                       /\ job'[j].undo = job[j].undo /\ job'[j].prior = marker
                       /\ job'[j].before = job[j].before
         /\ ReplaceFile(j) => \E f \in job[j].todo :
              /\ file' = [file EXCEPT ![f] = job[j].copy.file[f]]
              /\ job'[j].todo = job[j].todo \ {f} /\ job'[j].copy = job[j].copy
              /\ job'[j].undo = job[j].undo \o Kept(f, file[f])
              /\ job'[j].prior = job[j].prior /\ job'[j].before = job[j].before
         /\ ReplaceBase(j) => job'[j].copy = job[j].copy /\ job'[j].prior = job[j].prior
         /\ Undo(j) => /\ job'[j].undo = SubSeq(job[j].undo, 1, Len(job[j].undo) - 1)
                       /\ job'[j].prior = job[j].prior /\ job'[j].before = job[j].before
         /\ ReplaceFails(j) \/ Undone(j) \/ DropJournal(j) \/ Unmark(j) => SameRecord(j)
<1>1. job \in [Jobs -> JobRow] /\ job[j] \in JobRow
  BY DEF BackupIsTyped
<1>2. /\ DOMAIN job[j] = {"at", "copy", "todo", "undo", "prior", "before"}
      /\ DOMAIN job[j].copy = {"base", "file"}
  BY <1>1 DEF JobRow, StateRow
<1>3. ASSUME NEW r, job' = [job EXCEPT ![j] = r] PROVE job'[j] = r
  BY <1>1, <1>3
<1> HIDE DEF JobRow
<1>4. ASSUME CopyBase(j) PROVE job'[j].copy.base = base
  <2>1. job'[j] = [job[j] EXCEPT !.at = "files", !.copy = [NoCopy EXCEPT !.base = base]]
    BY <1>1, <1>4 DEF CopyBase
  <2>2. job'[j].copy = [NoCopy EXCEPT !.base = base]
    BY <1>2, <2>1
  <2> QED BY <2>2 DEF NoCopy
<1>5. ASSUME CopyFiles(j) PROVE job'[j].copy.base = job[j].copy.base
  <2>1. job'[j] = [job[j] EXCEPT !.at = "verify", !.copy = [job[j].copy EXCEPT !.file = file]]
    BY <1>1, <1>5 DEF CopyFiles
  <2>2. job'[j].copy = [job[j].copy EXCEPT !.file = file]
    BY <1>2, <2>1
  <2> QED BY <1>2, <2>2
<1>6. ASSUME BeginRestore(j)
      PROVE  /\ job'[j].copy \in backups /\ job'[j].undo = << >>
             /\ job'[j].todo = Contents(job'[j].copy)
             /\ job'[j].before = [base |-> base, file |-> file]
  <2> DEFINE r(copy) == [NoJob EXCEPT !.at = "mark", !.copy = copy, !.todo = Contents(copy),
                                      !.before = [base |-> base, file |-> file]]
  <2>1. PICK copy \in backups : job' = [job EXCEPT ![j] = r(copy)]
    BY <1>6 DEF BeginRestore
  <2>2. job'[j] = r(copy)
    BY <1>3, <2>1
  <2>3. DOMAIN NoJob = {"at", "copy", "todo", "undo", "prior", "before"} /\ NoJob.undo = << >>
    BY DEF NoJob
  <2>4. /\ r(copy).copy = copy /\ r(copy).todo = Contents(copy) /\ r(copy).undo = << >>
        /\ r(copy).before = [base |-> base, file |-> file]
    BY <2>3
  <2> QED BY <2>2, <2>4
<1>7. ASSUME Mark(j)
      PROVE  /\ job'[j].copy = job[j].copy /\ job'[j].todo = job[j].todo
             /\ job'[j].undo = job[j].undo /\ job'[j].prior = marker
             /\ job'[j].before = job[j].before
  <2>1. job'[j] = [job[j] EXCEPT !.at = "replace", !.prior = marker]
    BY <1>1, <1>7 DEF Mark
  <2> QED BY <1>2, <2>1
<1>8. ASSUME ReplaceFile(j)
      PROVE  \E f \in job[j].todo :
              /\ file' = [file EXCEPT ![f] = job[j].copy.file[f]]
              /\ job'[j].todo = job[j].todo \ {f} /\ job'[j].copy = job[j].copy
              /\ job'[j].undo = job[j].undo \o Kept(f, file[f])
              /\ job'[j].prior = job[j].prior /\ job'[j].before = job[j].before
  <2>1. PICK f \in job[j].todo :
          /\ file' = [file EXCEPT ![f] = job[j].copy.file[f]]
          /\ job' = [job EXCEPT ![j].todo = @ \ {f}, ![j].undo = @ \o Kept(f, file[f])]
    BY <1>8 DEF ReplaceFile
  <2>2. job'[j] = [job[j] EXCEPT !.todo = job[j].todo \ {f},
                                 !.undo = job[j].undo \o Kept(f, file[f])]
    BY <1>1, <2>1
  <2> QED BY <1>2, <2>1, <2>2
<1>9. ASSUME ReplaceBase(j)
      PROVE  job'[j].copy = job[j].copy /\ job'[j].prior = job[j].prior
  <2>1. job'[j] = [job[j] EXCEPT !.at = "replaced", !.undo = @ \o Kept("base", base)]
    BY <1>1, <1>9 DEF ReplaceBase
  <2> QED BY <1>2, <2>1
<1>10. ASSUME Undo(j)
       PROVE  /\ job'[j].undo = SubSeq(job[j].undo, 1, Len(job[j].undo) - 1)
              /\ job'[j].prior = job[j].prior /\ job'[j].before = job[j].before
  <2> DEFINE undo == SubSeq(job[j].undo, 1, Len(job[j].undo) - 1)
  <2>1. job' = [job EXCEPT ![j].undo = undo]
    BY <1>10 DEF Undo
  <2> HIDE DEF undo
  <2>2. job'[j] = [job[j] EXCEPT !.undo = undo]
    BY <1>1, <2>1
  <2>3. job'[j].undo = undo /\ job'[j].prior = job[j].prior /\ job'[j].before = job[j].before
    BY <1>2, <2>2
  <2> QED BY <2>3 DEF undo
<1>11. ASSUME NEW at, JobGoes(j, at) PROVE SameRecord(j)
  <2>1. job'[j] = [job[j] EXCEPT !.at = at]
    BY <1>1, <1>11 DEF JobGoes
  <2> QED BY <1>2, <2>1 DEF SameRecord
<1>12. ReplaceFails(j) \/ Undone(j) \/ DropJournal(j) \/ Unmark(j) => SameRecord(j)
  BY <1>11 DEF ReplaceFails, Undone, DropJournal, Unmark
<1> QED BY <1>4, <1>5, <1>6, <1>7, <1>8, <1>9, <1>10, <1>12

\* The job that acts, part by part.
LEMMA ReplacedHolds ==
  ASSUME BackupInvariant, NEW j \in Jobs, JobStep(j),
         job'[j].at \in {"mark", "replace", "replaced", "unmark"}
  PROVE  Replaced(j)'
<1>1. BackupIsTyped /\ file \in [Files -> Versions \cup {0}]
  BY DEF BackupInvariant, BackupIsTyped
<1>2. job[j].at \in {"mark", "replace", "replaced", "unmark"} => Replaced(j)
  BY DEF BackupInvariant
<1>3. \/ BeginRestore(j) /\ job'[j].at = "mark"
      \/ Mark(j) /\ job[j].at = "mark" /\ job'[j].at = "replace"
      \/ ReplaceFile(j) /\ job[j].at = "replace" /\ job'[j].at = "replace"
      \/ ReplaceBase(j) /\ job[j].at = "replace" /\ job'[j].at = "replaced"
      \/ DropJournal(j) /\ job[j].at = "replaced" /\ job'[j].at = "unmark"
  BY <1>1, JobPlacesMove DEF JobAt
<1> USE DEF Replaced, Restored, JobAt
<1>4. CASE BeginRestore(j) /\ job'[j].at = "mark"
  <2>1. job'[j].copy \in backups /\ job'[j].todo = Contents(job'[j].copy)
    BY <1>1, <1>4, RecordsMove
  <2>2. job'[j].copy.base \in Versions /\ Whole(job'[j].copy)
    BY <1>1, <2>1 DEF BackupIsTyped
  <2>3. \A f \in Contents(job'[j].copy) : f \in job'[j].todo
    BY <2>1
  <2> QED BY <1>4, <2>2, <2>3 DEF Whole, Contents
<1>5. CASE Mark(j) /\ job[j].at = "mark" /\ job'[j].at = "replace"
  <2>1. job'[j].copy = job[j].copy /\ job'[j].todo = job[j].todo /\ UNCHANGED file
    BY <1>1, <1>5, RecordsMove DEF Mark
  <2> QED BY <1>2, <1>5, <2>1 DEF Whole, Contents
<1>6. CASE ReplaceFile(j) /\ job[j].at = "replace" /\ job'[j].at = "replace"
  <2>1. PICK f \in job[j].todo :
          /\ file' = [file EXCEPT ![f] = job[j].copy.file[f]]
          /\ job'[j].todo = job[j].todo \ {f} /\ job'[j].copy = job[j].copy
    BY <1>1, <1>6, RecordsMove
  <2>2. ASSUME NEW g \in Contents(job[j].copy) \ (job[j].todo \ {f})
        PROVE  file'[g] \in {0, job[j].copy.file[g]}
    <3>1. g \in Files
      BY DEF Contents
    <3> QED BY <1>1, <1>2, <1>6, <2>1, <3>1
  <2>3. /\ job'[j].copy.base \in Versions /\ Whole(job[j].copy)
        /\ Contents(job'[j].copy) = Contents(job[j].copy)
    BY <1>2, <1>6, <2>1
  <2> QED BY <1>6, <2>1, <2>2, <2>3 DEF Whole, Contents
<1>7. CASE ReplaceBase(j) /\ job[j].at = "replace" /\ job'[j].at = "replaced"
  <2>1. /\ job'[j].copy = job[j].copy /\ base' = job[j].copy.base /\ UNCHANGED file
        /\ job[j].todo = {}
    BY <1>1, <1>7, RecordsMove DEF ReplaceBase
  <2> QED BY <1>2, <1>7, <2>1 DEF Whole, Contents
<1>8. CASE DropJournal(j) /\ job[j].at = "replaced" /\ job'[j].at = "unmark"
  <2>1. job'[j].copy = job[j].copy /\ journal' = 0 /\ UNCHANGED <<base, file>>
    BY <1>1, <1>8, RecordsMove DEF DropJournal, SameRecord
  <2> QED BY <1>2, <1>8, <2>1 DEF Whole, Contents
<1> QED BY <1>3, <1>4, <1>5, <1>6, <1>7, <1>8

LEMMA MarkedHolds ==
  ASSUME BackupInvariant, NEW j \in Jobs, JobStep(j)
  PROVE  Marked(j)'
<1>1. BackupIsTyped /\ UnmarkedIsOne /\ Marked(j)
  BY DEF BackupInvariant
<1> USE DEF Marked, JobAt
<1>2. CASE BeginRestore(j) /\ job'[j].at = "mark"
  <2>1. job'[j].before = [base |-> base, file |-> file] /\ UNCHANGED <<journal, marker>>
    BY <1>1, <1>2, RecordsMove DEF BeginRestore
  <2>2. ~marker => journal \in {0, job'[j].before.base} /\ Contained(job'[j].before)
    BY <1>1, <2>1 DEF UnmarkedIsOne, State
  <2> QED BY <1>2, <2>1, <2>2 DEF Contained
<1>3. CASE Mark(j) /\ job[j].at = "mark" /\ job'[j].at = "replace"
  <2>1. /\ job'[j].prior = marker /\ job'[j].before = job[j].before /\ marker'
        /\ UNCHANGED journal
    BY <1>1, <1>3, RecordsMove DEF Mark
  <2> QED BY <1>1, <1>3, <2>1 DEF Contained
<1>4. CASE ReplaceFile(j) /\ job[j].at = "replace" /\ job'[j].at = "replace"
  <2>1. /\ job'[j].prior = job[j].prior /\ job'[j].before = job[j].before
        /\ UNCHANGED <<journal, marker>>
    BY <1>1, <1>4, RecordsMove DEF ReplaceFile
  <2> QED BY <1>1, <1>4, <2>1 DEF Contained
<1>5. CASE ReplaceBase(j) /\ job[j].at = "replace" /\ job'[j].at = "replaced"
  <2>1. UNCHANGED marker
    BY <1>5 DEF ReplaceBase
  <2> QED BY <1>1, <1>5, <2>1
<1>6. CASE \/ ReplaceFails(j) /\ job[j].at = "replace" /\ job'[j].at = "undo"
           \/ Undo(j) /\ job[j].at = "undo" /\ job'[j].at = "undo"
  <2>1. /\ job'[j].prior = job[j].prior /\ job'[j].before = job[j].before
        /\ UNCHANGED <<journal, marker>>
    BY <1>1, <1>6, RecordsMove DEF ReplaceFails, Undo, SameRecord
  <2> QED BY <1>1, <1>6, <2>1 DEF Contained
<1>7. CASE DropJournal(j) /\ job[j].at = "replaced" /\ job'[j].at = "unmark"
  BY <1>1, <1>7 DEF DropJournal
<1>8. CASE job'[j].at \notin {"mark", "replace", "replaced", "undo", "unmark"}
  BY <1>8
<1> QED BY <1>1, <1>2, <1>3, <1>4, <1>5, <1>6, <1>7, <1>8, JobPlacesMove

LEMMA UndoableHolds ==
  ASSUME BackupInvariant, NEW j \in Jobs, JobStep(j),
         job'[j].at \in {"mark", "replace", "undo", "undone"}
  PROVE  Undoable(j)'
<1>1. /\ BackupIsTyped /\ file \in [Files -> Versions \cup {0}] /\ job[j] \in JobRow
      /\ base \in Versions
  BY DEF BackupInvariant, BackupIsTyped
<1>2. job[j].at \in {"mark", "replace", "undo", "undone"} => Undoable(j)
  BY DEF BackupInvariant
<1>3. \/ BeginRestore(j) /\ job'[j].at = "mark"
      \/ Mark(j) /\ job[j].at = "mark" /\ job'[j].at = "replace"
      \/ ReplaceFile(j) /\ job[j].at = "replace" /\ job'[j].at = "replace"
      \/ ReplaceFails(j) /\ job[j].at = "replace" /\ job'[j].at = "undo"
      \/ Undo(j) /\ job[j].at = "undo" /\ job'[j].at = "undo"
      \/ Undone(j) /\ job[j].at = "undo" /\ job'[j].at = "undone"
  BY <1>1, JobPlacesMove DEF JobAt
<1>4. /\ job[j].undo \in Seq(UndoRow) /\ job[j].todo \in SUBSET Files
      /\ Len(job[j].undo) \in Nat
  BY <1>1 DEF JobRow
<1> USE DEF JobAt
<1>5. CASE BeginRestore(j) /\ job'[j].at = "mark"
  <2>1. /\ job'[j].undo = << >> /\ job'[j].before = [base |-> base, file |-> file]
        /\ UNCHANGED <<base, file, losses>>
    BY <1>1, <1>5, RecordsMove DEF BeginRestore
  <2>2. Len(job'[j].undo) = 0
    BY <2>1
  <2> QED BY <1>5, <2>1, <2>2 DEF Undoable, Replacements, Found, Target
<1>6. CASE \/ Mark(j) /\ job[j].at = "mark" /\ job'[j].at = "replace"
           \/ ReplaceFails(j) /\ job[j].at = "replace" /\ job'[j].at = "undo"
           \/ Undone(j) /\ job[j].at = "undo" /\ job'[j].at = "undone"
  <2>1. /\ job'[j].undo = job[j].undo /\ job'[j].before = job[j].before
        /\ job'[j].todo = job[j].todo /\ UNCHANGED <<base, file, losses>>
    BY <1>1, <1>6, RecordsMove DEF Mark, ReplaceFails, Undone, SameRecord
  <2>2. job[j].at \in {"mark"} => Replacements(j) = {}
    <3>1. job[j].at \in {"mark"} => Len(job[j].undo) = 0
      BY <1>2 DEF Undoable
    <3> QED BY <3>1 DEF Replacements
  <2>3. job'[j].at = "undone" => job[j].undo = << >>
    BY <1>6 DEF Undone
  <2> QED BY <1>2, <1>6, <2>1, <2>2, <2>3 DEF Undoable, Replacements, Found, Target
<1>7. CASE ReplaceFile(j) /\ job[j].at = "replace" /\ job'[j].at = "replace"
  <2>1. PICK f \in job[j].todo :
          /\ file' = [file EXCEPT ![f] = job[j].copy.file[f]]
          /\ job'[j].todo = job[j].todo \ {f}
          /\ job'[j].undo = job[j].undo \o Kept(f, file[f])
          /\ job'[j].before = job[j].before
    BY <1>1, <1>7, RecordsMove
  <2> DEFINE n == Len(job[j].undo)
             u == job'[j].undo
  <2>2. f \in Files /\ f \notin Replacements(j) /\ UNCHANGED <<base, losses>> /\ Undoable(j)
    BY <1>2, <1>4, <1>7, <2>1 DEF Undoable, ReplaceFile
  <2>3. /\ Len(u) = n + 1 /\ \A i \in 1..n : u[i] = job[j].undo[i]
        /\ u[n + 1] = [target |-> f, was |-> file[f]]
    BY <1>1, <1>4, <2>1, <2>2, UndoRows
  <2>4. /\ \A i \in 1..n : u[i].target = Target(j, i) /\ u[i].was = job[j].undo[i].was
        /\ u[n + 1].target = f /\ u[n + 1].was = file[f]
    BY <2>3 DEF Target
  <2>5. n \in Nat /\ Len(u) \in Nat /\ 1..Len(u) = (1..n) \cup {n + 1}
    BY <1>4, <2>3
  <2> HIDE DEF n, u
  <2>6. {u[i].target : i \in 1..Len(u)} = Replacements(j) \cup {f}
    <3>1. Replacements(j) = {Target(j, i) : i \in 1..n}
      BY DEF Replacements, n
    <3> QED BY <2>4, <2>5, <3>1
  <2>7. \A g \in Files \ (Replacements(j) \cup {f}) : Found(j, g, file'[g])
    BY <1>1, <2>1, <2>2 DEF Undoable
  <2>8. Found(j, f, file[f])
    BY <2>2 DEF Undoable
  <2>9. \A i \in 1..Len(u) : u[i].target \in Files /\ Found(j, u[i].target, u[i].was)
    BY <2>2, <2>4, <2>5, <2>8 DEF Undoable, n
  <2>10. \A i, k \in 1..Len(u) : u[i].target = u[k].target => i = k
    <3>1. \A i \in 1..n : u[i].target # f
      BY <2>2, <2>4 DEF Replacements, n
    <3> QED BY <2>2, <2>4, <2>5, <3>1 DEF Undoable, n
  <2>11. (job[j].todo \ {f}) \cap (Replacements(j) \cup {f}) = {}
    BY <1>7, <2>2 DEF Undoable
  <2>12. \A g, v : Found(j, g, v)' <=> Found(j, g, v)
    BY <2>1, <2>2 DEF Found
  <2>13. base' = job'[j].before.base
    BY <2>1, <2>2 DEF Undoable
  <2> QED BY <1>7, <2>1, <2>6, <2>7, <2>9, <2>10, <2>11, <2>12, <2>13
          DEF Undoable, Replacements, Found, Target, u
<1>8. CASE Undo(j) /\ job[j].at = "undo" /\ job'[j].at = "undo"
  <2> DEFINE n == Len(job[j].undo)
             u == job'[j].undo
             f == Target(j, n)
  <2>1. /\ Undoable(j) /\ UNCHANGED losses /\ job[j].undo # << >>
        /\ job'[j].undo = SubSeq(job[j].undo, 1, Len(job[j].undo) - 1)
        /\ job'[j].before = job[j].before
    BY <1>1, <1>2, <1>8, RecordsMove DEF Undo
  <2>2. n \in Nat \ {0} /\ Len(u) = n - 1 /\ \A i \in 1..(n - 1) : u[i] = job[j].undo[i]
    BY <1>4, <2>1, UndoneRows
  <2>3. n \in 1..n /\ 1..n = (1..(n - 1)) \cup {n} /\ \A i \in 1..(n - 1) : i # n
    BY <2>2
  <2>4. f \in Files /\ Found(j, f, job[j].undo[n].was) /\ f # "base"
    BY <2>1, <2>3, BackupAssumption DEF Undoable
  <2>5. file' = [file EXCEPT ![f] = job[j].undo[n].was] /\ base' = base
    BY <1>8, <2>4 DEF Undo, Target
  <2>6. \A i \in 1..(n - 1) : u[i].target = Target(j, i) /\ u[i].was = job[j].undo[i].was
    BY <2>2 DEF Target
  <2> HIDE DEF n, u, f
  <2>7. \A i \in 1..(n - 1) : Target(j, i) # f
    <3>1. \A i, k \in 1..n : Target(j, i) = Target(j, k) => i = k
      BY <2>1 DEF Undoable, n
    <3>2. f = Target(j, n)
      BY DEF f
    <3> QED BY <2>3, <3>1, <3>2
  <2>8. Replacements(j) = {u[i].target : i \in 1..Len(u)} \cup {f}
    <3>1. Replacements(j) = {Target(j, i) : i \in 1..n}
      BY DEF Replacements, n
    <3>2. f = Target(j, n)
      BY DEF f
    <3> QED BY <2>2, <2>3, <2>6, <3>1, <3>2
  <2>9. \A g \in Files \ {u[i].target : i \in 1..Len(u)} : Found(j, g, file'[g])
    BY <1>1, <2>1, <2>4, <2>5, <2>8 DEF Undoable
  <2>10. \A i \in 1..Len(u) : u[i].target \in Files /\ Found(j, u[i].target, u[i].was)
    BY <2>1, <2>2, <2>3, <2>6 DEF Undoable, n
  <2>11. \A i, k \in 1..Len(u) : u[i].target = u[k].target => i = k
    BY <2>1, <2>2, <2>3, <2>6 DEF Undoable, n
  <2>12. \A g, v : Found(j, g, v)' <=> Found(j, g, v)
    BY <2>1 DEF Found
  <2>13. base' = job'[j].before.base
    BY <2>1, <2>5 DEF Undoable
  <2> QED BY <1>8, <2>9, <2>10, <2>11, <2>12, <2>13
          DEF Undoable, Replacements, Found, Target, u
<1> QED BY <1>3, <1>5, <1>6, <1>7, <1>8

LEMMA BackupBegins ==
  ASSUME BackupInit
  PROVE  BackupInvariant
<1>1. BackupIsTyped
  <2>1. file \in [Files -> Versions \cup {0}]
    BY BackupAssumption DEF BackupInit
  <2>2. job \in [Jobs -> JobRow]
    BY NoJobTyped DEF BackupInit
  <2> QED BY <2>1, <2>2, BackupAssumption DEF BackupInit, BackupIsTyped
<1>2. \A j \in Jobs : job[j].at = "none"
  BY JobPlacesOf DEF BackupInit
<1>3. LockIsHeld
  BY <1>2 DEF BackupInit, LockIsHeld, JobAt, Up
<1>4. UnmarkedIsOne
  <2>1. Refs[1] \in SUBSET Files /\ base = 1 /\ journal = 0
    BY BackupAssumption DEF BackupInit
  <2>2. \A f \in Refs[1] : file[f] = 1
    BY <2>1 DEF BackupInit
  <2> QED BY <2>1, <2>2 DEF UnmarkedIsOne, Contained, State
<1> QED BY <1>1, <1>2, <1>3, <1>4 DEF BackupInvariant, Marked, JobAt

\* What a job knows, whoever acts.
LEMMA BackupStaysKnown ==
  ASSUME BackupInvariant, BackupNext, NEW k \in Jobs
  PROVE  /\ job'[k].at \in {"files", "verify"} => job'[k].copy.base \in Versions
         /\ job'[k].at \in {"mark", "replace", "replaced", "unmark"} => Replaced(k)'
         /\ job'[k].at \in {"mark", "replace", "undo", "undone"} => Undoable(k)'
         /\ Marked(k)'
<1> DEFINE Goal ==
             /\ job'[k].at \in {"files", "verify"} => job'[k].copy.base \in Versions
             /\ job'[k].at \in {"mark", "replace", "replaced", "unmark"} => Replaced(k)'
             /\ job'[k].at \in {"mark", "replace", "undo", "undone"} => Undoable(k)'
             /\ Marked(k)'
<1>1. /\ BackupIsTyped /\ LockIsHeld /\ base \in Versions
      /\ file \in [Files -> Versions \cup {0}] /\ losses \in Nat
  BY DEF BackupInvariant, BackupIsTyped
<1>2. job'[k].at = "none" => Goal
  BY DEF Marked, JobAt
<1>3. ASSUME ServiceStep PROVE Goal
  <2>1. UNCHANGED job /\ (lock = {} \/ Up)
    BY <1>3 DEF ServiceStep, StartService, Work, StopService, CanEnter
  <2>2. job[k].at = "none"
    BY <1>1, <2>1, OnlyOneWorks DEF JobAt
  <2> HIDE DEF Goal
  <2> QED BY <1>2, <2>1, <2>2
<1>4. ASSUME NEW f \in Files, Lose(f) PROVE Goal
  <2>1. /\ file' = [file EXCEPT ![f] = 0] /\ losses' > 0
        /\ UNCHANGED <<base, journal, marker, job>>
    BY <1>1, <1>4 DEF Lose
  <2>2. job[k].at \in {"files", "verify"} => job[k].copy.base \in Versions
    BY DEF BackupInvariant
  <2>3. Replaced(k) => Replaced(k)'
    BY <1>1, <2>1 DEF Replaced, Restored, Whole, Contents, JobAt
  <2>4. Undoable(k) => Undoable(k)'
    <3>1. \A g, v : Found(k, g, v) => Found(k, g, v)'
      BY <2>1 DEF Found
    <3>2. \A g \in Files : file'[g] = IF g = f THEN 0 ELSE file[g]
      BY <1>1, <2>1
    <3>3. ASSUME NEW g \in Files, Found(k, g, file[g]) PROVE Found(k, g, file[g])'
      BY <2>1, <3>2, <3>3 DEF Found
    <3> QED BY <2>1, <3>1, <3>3 DEF Undoable, Replacements, Target, JobAt
  <2>5. Marked(k) => Marked(k)'
    BY <2>1 DEF Marked, Contained, JobAt
  <2> QED BY <2>1, <2>2, <2>3, <2>4, <2>5 DEF BackupInvariant
<1>5. ASSUME NEW j \in Jobs, JobStep(j), j # k PROVE Goal
  <2>1. job'[k] = job[k] /\ (JobAt(j, "none") => BeginBackup(j) \/ BeginRestore(j))
    BY <1>1, <1>5, JobPlacesMove DEF JobAt
  <2>2. job[k].at = "none"
    BY <1>1, <1>5, <2>1, OnlyOneWorks DEF BeginBackup, BeginRestore, CanEnter, JobAt
  <2> HIDE DEF Goal
  <2> QED BY <1>2, <2>1, <2>2
<1>6. ASSUME JobStep(k) PROVE Goal
  <2>1. job'[k].at \in {"files", "verify"} => job'[k].copy.base \in Versions
    <3>1. job'[k].at \in {"files", "verify"} => CopyBase(k) \/ (CopyFiles(k) /\ JobAt(k, "files"))
      BY <1>1, <1>6, JobPlacesMove
    <3>2. JobAt(k, "files") => job[k].copy.base \in Versions
      BY DEF BackupInvariant, JobAt
    <3> QED BY <1>1, <3>1, <3>2, RecordsMove
  <2> QED BY <1>6, <2>1, ReplacedHolds, UndoableHolds, MarkedHolds
<1> HIDE DEF Goal
<1>7. Goal
  BY <1>3, <1>4, <1>5, <1>6, BackupSteps
<1> QED BY <1>7 DEF Goal

LEMMA BackupNextKeeps ==
  ASSUME BackupInvariant, BackupNext \/ UNCHANGED backupVars
  PROVE  BackupInvariant'
<1>1. CASE BackupNext
  <2>1. BackupIsTyped' /\ LockIsHeld' /\ UnmarkedIsOne'
    BY <1>1, BackupTypesStay, LockStays, UnmarkedStays
  <2> QED BY <1>1, <2>1, BackupStaysKnown DEF BackupInvariant
<1>2. CASE UNCHANGED backupVars
  BY <1>2 DEF backupVars, BackupInvariant, BackupIsTyped, LockIsHeld, UnmarkedIsOne, Contained,
       State, Replaced, Restored, Undoable, Found, Target, Replacements, Marked, JobAt, Up, Whole,
       Contents
<1> QED BY <1>1, <1>2

----------------------------------------------------------------------------
(* Slots and probes.                                                       *)

\* A non-empty set of naturals has a least element, and a greatest if it is bounded.
LEMMA LeastOf ==
  ASSUME NEW S \in SUBSET Nat, S # {}
  PROVE  Min(S) \in S
BY SomethingLeast DEF Min

LEMMA GreatestOf ==
  ASSUME NEW S \in SUBSET Nat, S # {}, NEW b \in Nat, \A x \in S : x <= b
  PROVE  Max(S) \in S
<1> DEFINE D == {b - x : x \in S}
<1>1. D \in SUBSET Nat /\ D # {}
  <2>1. PICK x \in S : TRUE
    BY Zenon
  <2>2. b - x \in D
    BY <2>1
  <2>3. ASSUME NEW d \in D PROVE d \in Nat
    <3>1. PICK y \in S : d = b - y
      OBVIOUS
    <3>2. y \in Nat /\ y <= b
      BY <3>1
    <3> QED BY <3>1, <3>2
  <2> QED BY <2>2, <2>3
<1> HIDE DEF D
<1>2. PICK d \in D : \A e \in D : d <= e
  BY <1>1, SomethingLeast
<1>3. PICK x \in S : d = b - x
  BY DEF D
<1>4. ASSUME NEW y \in S PROVE x >= y
  <2>1. b - y \in D /\ x \in Nat /\ y \in Nat
    BY DEF D
  <2>2. b - x <= b - y
    BY <1>2, <1>3, <2>1
  <2> QED BY <2>1, <2>2
<1> QED BY <1>4 DEF Max

\* choose_aspirant takes one of those that lack evidence.
LEMMA AspirantIsPending ==
  ASSUME NEW pending \in SUBSET (DOMAIN Unproven), pending # {},
         attempts \in [DOMAIN Unproven -> 0..Needed]
  PROVE  Aspirant(pending) \in pending
<1>1. Needed \in Nat /\ DOMAIN Unproven \in SUBSET Nat
  <2>1. ASSUME NEW T, NEW q \in Seq(T) PROVE DOMAIN q \in SUBSET Nat
    OBVIOUS
  <2> QED BY <2>1, SlotsAssumption
<1> DEFINE tried == {attempts[i] : i \in pending}
           most == Max(tried)
           best == {i \in pending : attempts[i] = most}
<1>2. tried \in SUBSET Nat /\ tried # {} /\ \A n \in tried : n <= Needed
  BY <1>1
<1>3. most \in tried
  BY <1>1, <1>2, GreatestOf
<1>4. best # {} /\ best \in SUBSET Nat
  BY <1>1, <1>3
<1>5. Min(best) \in best
  BY <1>4, LeastOf
<1>6. Aspirant(pending) = Min(best)
  BY DEF Aspirant
<1> QED BY <1>5, <1>6

ProbeRow == [at : Phases, local : BOOLEAN, of : {0} \cup DOMAIN Unproven]

\* What becomes of a probe.
LEMMA ProbesMove ==
  ASSUME SlotsAreTyped, SlotsNext
  PROVE  \/ UNCHANGED probe
         \/ \E t \in Tasks : Yield(t) /\ probe' = [u \in Tasks |-> Cancels(probe[u])]
         \/ \E t \in Tasks :
              /\ probe' = [probe EXCEPT ![t] = probe'[t]]
              /\ \/ CloseTask(t) /\ probe'[t] = [probe[t] EXCEPT !.at = "look"]
                 \/ /\ Look(t)
                    /\ probe'[t] = [probe[t] EXCEPT !.at = "choose", !.local = NoActiveTask]
                 \/ /\ Choose(t) /\ probe[t].at = "choose" /\ Pending(probe[t].local) # {}
                    /\ probe'[t] = [probe[t] EXCEPT !.at = "start",
                                                    !.of = Aspirant(Pending(probe[t].local))]
                 \/ Start(t) /\ probe[t].at = "start" /\ probe'[t] = [probe[t] EXCEPT !.at = "wait"]
                 \/ /\ AcquireBackground(t) /\ probe[t].at = "wait"
                    /\ probe'[t] = [probe[t] EXCEPT !.at = "measure"]
                 \/ probe'[t] = [probe[t] EXCEPT !.at = "over"]
<1>1. probe \in [Tasks -> ProbeRow]
  BY DEF SlotsAreTyped, ProbeRow
<1>2. ASSUME NEW t \in Tasks, NEW r, probe' = [probe EXCEPT ![t] = r]
      PROVE  probe'[t] = r /\ probe' = [probe EXCEPT ![t] = probe'[t]]
  BY <1>1, <1>2
<1>3. ASSUME NEW t \in Tasks, NEW at, NEW from, Probes(t, from, at)
      PROVE  /\ probe[t].at = from /\ probe'[t] = [probe[t] EXCEPT !.at = at]
             /\ probe' = [probe EXCEPT ![t] = probe'[t]]
  BY <1>1, <1>3 DEF Probes
<1>4. CASE \E t \in Tasks : Yield(t)
  BY <1>4 DEF Yield
<1>5. CASE \E t \in Tasks : CloseTask(t)
  BY <1>1, <1>5 DEF CloseTask, Scheduled
<1>6. CASE \E t \in Tasks : Look(t)
  BY <1>2, <1>6 DEF Look
<1>7. CASE \E t \in Tasks : Choose(t)
  <2>1. PICK t \in Tasks : Choose(t)
    BY <1>7
  <2>2. CASE Pending(probe[t].local) = {}
    BY <1>3, <2>1, <2>2 DEF Choose
  <2>3. CASE Pending(probe[t].local) # {}
    <3>1. /\ probe[t].at = "choose"
          /\ probe' = [probe EXCEPT ![t] = [@ EXCEPT !.at = "start",
                                                    !.of = Aspirant(Pending(probe[t].local))]]
      BY <2>1, <2>3 DEF Choose
    <3>2. /\ probe'[t] = [probe[t] EXCEPT !.at = "start",
                                           !.of = Aspirant(Pending(probe[t].local))]
          /\ probe' = [probe EXCEPT ![t] = probe'[t]]
      BY <1>1, <3>1
    <3> QED BY <2>1, <2>3, <3>1, <3>2
  <2> QED BY <2>2, <2>3
<1>8. CASE \E t \in Tasks : Start(t)
  <2>1. PICK t \in Tasks : Start(t)
    BY <1>8
  <2>2. Probes(t, "start", "wait")
    BY <2>1 DEF Start
  <2>3. /\ probe[t].at = "start" /\ probe'[t] = [probe[t] EXCEPT !.at = "wait"]
        /\ probe' = [probe EXCEPT ![t] = probe'[t]]
    BY <1>3, <2>2
  <2> QED BY <2>1, <2>3
<1>9. CASE \E t \in Tasks : AcquireBackground(t)
  <2>1. PICK t \in Tasks : AcquireBackground(t)
    BY <1>9
  <2>2. Probes(t, "wait", "measure")
    BY <2>1 DEF AcquireBackground
  <2>3. /\ probe[t].at = "wait" /\ probe'[t] = [probe[t] EXCEPT !.at = "measure"]
        /\ probe' = [probe EXCEPT ![t] = probe'[t]]
    BY <1>3, <2>2
  <2> QED BY <2>1, <2>3
<1>10. CASE \E t \in Tasks : Measured(t) \/ Die(t)
  BY <1>3, <1>10 DEF Measured, Die
<1>11. CASE \/ ReloadSlots
            \/ \E t \in Tasks : \/ Claim(t) \/ Yielded(t) \/ Need(t) \/ Acquire(t) \/ Return(t)
                               \/ Complete(t) \/ Defer(t) \/ Withdraw(t) \/ Abort(t)
  BY <1>11 DEF ReloadSlots, Claim, Yielded, Need, Acquire, Return, Complete, Defer, Withdraw, Abort
<1> QED BY <1>4, <1>5, <1>6, <1>7, <1>8, <1>9, <1>10, <1>11 DEF SlotsNext

LEMMA ProbesAreTyped ==
  ASSUME SlotsAreTyped, SlotsNext
  PROVE  /\ probe' \in [Tasks -> ProbeRow]
         /\ \A t \in Tasks : probe'[t].at \in {"start", "wait", "measure"} =>
                               probe'[t].of \in DOMAIN Unproven
<1> DEFINE Fit(r) == /\ r \in ProbeRow
                     /\ r.at \in {"start", "wait", "measure"} => r.of \in DOMAIN Unproven
<1>1. probe \in [Tasks -> ProbeRow] /\ \A t \in Tasks : Fit(probe[t])
  BY DEF SlotsAreTyped, ProbeRow
<1>2. ASSUME NEW r, Fit(r), NEW at \in {"look", "dying", "over"} PROVE Fit([r EXCEPT !.at = at])
  BY <1>2 DEF ProbeRow, Phases
<1>3. ASSUME NEW r, Fit(r), NEW b \in BOOLEAN
      PROVE  Fit([r EXCEPT !.at = "choose", !.local = b])
  BY <1>3 DEF ProbeRow, Phases
<1>4. ASSUME NEW r, Fit(r), NEW i \in DOMAIN Unproven
      PROVE  Fit([r EXCEPT !.at = "start", !.of = i])
  BY <1>4 DEF ProbeRow, Phases
<1>5. ASSUME NEW r, Fit(r), r.at \in {"start", "wait"}, NEW at \in {"wait", "measure"}
      PROVE  Fit([r EXCEPT !.at = at])
  BY <1>5 DEF ProbeRow, Phases
<1>6. NoActiveTask \in BOOLEAN
  BY DEF NoActiveTask
<1>7. ASSUME NEW local, Pending(local) # {} PROVE Aspirant(Pending(local)) \in DOMAIN Unproven
  <2>1. Pending(local) \in SUBSET (DOMAIN Unproven)
    BY DEF Pending
  <2> QED BY <1>7, <2>1, AspirantIsPending DEF SlotsAreTyped
<1> HIDE DEF Fit
<1>8. \A t \in Tasks : Fit(Cancels(probe[t]))
  BY <1>1, <1>2 DEF Cancels
<1>9. ASSUME NEW t \in Tasks, probe' = [probe EXCEPT ![t] = probe'[t]], Fit(probe'[t])
      PROVE  probe' \in [Tasks -> ProbeRow] /\ \A u \in Tasks : Fit(probe'[u])
  BY <1>1, <1>9 DEF Fit
<1>10. probe' \in [Tasks -> ProbeRow] /\ \A u \in Tasks : Fit(probe'[u])
  <2>1. CASE UNCHANGED probe
    BY <1>1, <2>1
  <2>2. CASE probe' = [u \in Tasks |-> Cancels(probe[u])]
    BY <1>8, <2>2 DEF Fit
  <2>3. CASE \E t \in Tasks :
              /\ probe' = [probe EXCEPT ![t] = probe'[t]]
              /\ \/ probe'[t] = [probe[t] EXCEPT !.at = "look"]
                 \/ probe'[t] = [probe[t] EXCEPT !.at = "choose", !.local = NoActiveTask]
                 \/ /\ Pending(probe[t].local) # {}
                    /\ probe'[t] = [probe[t] EXCEPT !.at = "start",
                                                    !.of = Aspirant(Pending(probe[t].local))]
                 \/ probe[t].at = "start" /\ probe'[t] = [probe[t] EXCEPT !.at = "wait"]
                 \/ probe[t].at = "wait" /\ probe'[t] = [probe[t] EXCEPT !.at = "measure"]
                 \/ probe'[t] = [probe[t] EXCEPT !.at = "over"]
    <3>1. PICK t \in Tasks :
              /\ probe' = [probe EXCEPT ![t] = probe'[t]]
              /\ \/ probe'[t] = [probe[t] EXCEPT !.at = "look"]
                 \/ probe'[t] = [probe[t] EXCEPT !.at = "choose", !.local = NoActiveTask]
                 \/ /\ Pending(probe[t].local) # {}
                    /\ probe'[t] = [probe[t] EXCEPT !.at = "start",
                                                    !.of = Aspirant(Pending(probe[t].local))]
                 \/ probe[t].at = "start" /\ probe'[t] = [probe[t] EXCEPT !.at = "wait"]
                 \/ probe[t].at = "wait" /\ probe'[t] = [probe[t] EXCEPT !.at = "measure"]
                 \/ probe'[t] = [probe[t] EXCEPT !.at = "over"]
      BY <2>3
    <3>2. Fit(probe[t])
      BY <1>1
    <3>3. ASSUME \/ probe'[t] = [probe[t] EXCEPT !.at = "look"]
                 \/ probe'[t] = [probe[t] EXCEPT !.at = "over"]
          PROVE  Fit(probe'[t])
      BY <1>2, <3>2, <3>3
    <3>4. ASSUME probe'[t] = [probe[t] EXCEPT !.at = "choose", !.local = NoActiveTask]
          PROVE  Fit(probe'[t])
      BY <1>3, <1>6, <3>2, <3>4
    <3>5. ASSUME Pending(probe[t].local) # {},
                 probe'[t] = [probe[t] EXCEPT !.at = "start",
                                              !.of = Aspirant(Pending(probe[t].local))]
          PROVE  Fit(probe'[t])
      <4>1. Aspirant(Pending(probe[t].local)) \in DOMAIN Unproven
        BY <1>7, <3>5
      <4>2. PICK i \in DOMAIN Unproven : probe'[t] = [probe[t] EXCEPT !.at = "start", !.of = i]
        BY <3>5, <4>1
      <4>3. Fit([probe[t] EXCEPT !.at = "start", !.of = i])
        BY <1>4, <3>2
      <4> QED BY <4>2, <4>3
    <3>6. ASSUME \/ probe[t].at = "start" /\ probe'[t] = [probe[t] EXCEPT !.at = "wait"]
                 \/ probe[t].at = "wait" /\ probe'[t] = [probe[t] EXCEPT !.at = "measure"]
          PROVE  Fit(probe'[t])
      BY <1>5, <3>2, <3>6
    <3>7. Fit(probe'[t])
      BY <3>1, <3>3, <3>4, <3>5, <3>6
    <3> QED BY <1>9, <3>1, <3>7
  <2> QED BY <2>1, <2>2, <2>3, ProbesMove
<1> QED BY <1>10 DEF Fit

\* The actions of a task and of a probe that change neither slots nor evidence.
LEMMA SlotsTypesStay ==
  ASSUME SlotsInvariant, SlotsNext
  PROVE  SlotsAreTyped'
<1>1. /\ status \in [Tasks -> {"queued", "active", "cancelled", "completed"}]
      /\ work \in [Tasks -> Works] /\ victims \in [Tasks -> SUBSET Tasks]
      /\ probe \in [Tasks -> ProbeRow] /\ attempts \in [DOMAIN Unproven -> 0..Needed]
      /\ \A t \in Tasks : probe[t].at \in {"start", "wait", "measure"} =>
                            probe[t].of \in DOMAIN Unproven
  BY DEF SlotsInvariant, SlotsAreTyped, ProbeRow
<1>2. /\ status' \in [Tasks -> {"queued", "active", "cancelled", "completed"}]
      /\ work' \in [Tasks -> Works]
  <2>1. ASSUME NEW t \in Tasks, NEW w \in Works, work' = [work EXCEPT ![t] = w]
        PROVE  work' \in [Tasks -> Works]
    BY <1>1, <2>1
  <2>2. ASSUME NEW t \in Tasks, NEW x \in {"queued", "active", "cancelled", "completed"},
               status' = [status EXCEPT ![t] = x]
        PROVE  status' \in [Tasks -> {"queued", "active", "cancelled", "completed"}]
    BY <1>1, <2>2
  <2>3. {"none", "claimed", "yielding", "working", "waiting", "calling", "closing"} \subseteq Works
    BY DEF Works
  <2>4. UNCHANGED status \/ \E t \in Tasks :
          \E x \in {"queued", "active", "cancelled", "completed"} : status' = [status EXCEPT ![t] = x]
    BY <1>1 DEF SlotsNext, Claim, Yield, Yielded, Need, Acquire, Return, Complete, Defer, CloseTask,
         Withdraw, Abort, Look, Choose, Start, AcquireBackground, Measured, Die, ReloadSlots,
         ProbeOnly
  <2>5. UNCHANGED work \/ \E t \in Tasks : \E w \in Works : work' = [work EXCEPT ![t] = w]
    BY <2>3 DEF SlotsNext, Claim, Yield, Yielded, Need, Acquire, Return, Complete, Defer, CloseTask,
         Withdraw, Abort, Look, Choose, Start, AcquireBackground, Measured, Die, ReloadSlots,
         ProbeOnly, Advances
  <2> QED BY <1>1, <2>1, <2>2, <2>4, <2>5
<1>3. victims' \in [Tasks -> SUBSET Tasks]
  <2>1. UNCHANGED victims \/ \E t \in Tasks, s \in SUBSET Tasks : victims' = [victims EXCEPT ![t] = s]
    BY DEF SlotsNext, Claim, Yield, Yielded, Need, Acquire, Return, Complete, Defer, CloseTask,
         Withdraw, Abort, Look, Choose, Start, AcquireBackground, Measured, Die, ReloadSlots,
         ProbeOnly, Probing
  <2> QED BY <1>1, <2>1
<1>4. attempts' \in [DOMAIN Unproven -> 0..Needed]
  <2>1. \/ UNCHANGED attempts
        \/ \E i : attempts' = [attempts EXCEPT ![i] = IF @ < Needed THEN @ + 1 ELSE @]
    BY DEF SlotsNext, Claim, Yield, Yielded, Need, Acquire, Return, Complete, Defer, CloseTask,
         Withdraw, Abort, Look, Choose, Start, AcquireBackground, Measured, Die, ReloadSlots
  <2>2. Needed \in Nat
    BY SlotsAssumption
  <2> QED BY <1>1, <2>1, <2>2
<1>5. /\ probe' \in [Tasks -> ProbeRow]
      /\ \A t \in Tasks : probe'[t].at \in {"start", "wait", "measure"} =>
                            probe'[t].of \in DOMAIN Unproven
  BY ProbesAreTyped DEF SlotsInvariant
<1> QED BY <1>1, <1>2, <1>3, <1>4, <1>5 DEF SlotsAreTyped, ProbeRow

\* Who of a lane of this machine has looked for probes: only Yield makes one.
LEMMA MachineIsNeeded ==
  ASSUME SlotsAreTyped, SlotsNext, NEW t \in Tasks, NeedsMachine(t)'
  PROVE  NeedsMachine(t) \/ Yield(t)
<1>1. /\ status \in [Tasks -> {"queued", "active", "cancelled", "completed"}]
      /\ work \in [Tasks -> Works]
  BY DEF SlotsAreTyped
<1>2. LaneOf[t] # "cloud" /\ status'[t] = "active" /\ work'[t] \in Proceeding
  BY DEF NeedsMachine
<1>3. ASSUME ~Yield(t) PROVE status[t] = "active" /\ work[t] \in Proceeding
  <2>1. CASE ReloadSlots
    BY <1>2, <2>1 DEF ReloadSlots
  <2>2. CASE \E u \in Tasks : \/ Claim(u) \/ Yield(u) \/ Yielded(u) \/ Need(u) \/ Acquire(u)
                              \/ Return(u)
    BY <1>1, <1>2, <1>3, <2>2
       DEF Claim, Yield, Yielded, Need, Acquire, Return, Advances, Proceeding
  <2>3. CASE \E u \in Tasks : Complete(u) \/ Defer(u) \/ CloseTask(u) \/ Withdraw(u) \/ Abort(u)
    BY <1>1, <1>2, <2>3 DEF Complete, Defer, CloseTask, Withdraw, Abort, Advances, Proceeding
  <2>4. CASE \E u \in Tasks : \/ Look(u) \/ Choose(u) \/ Start(u) \/ AcquireBackground(u)
                              \/ Measured(u) \/ Die(u)
    BY <1>2, <2>4 DEF Look, Choose, Start, AcquireBackground, Measured, Die, ProbeOnly
  <2> QED BY <2>1, <2>2, <2>3, <2>4 DEF SlotsNext
<1> QED BY <1>2, <1>3 DEF NeedsMachine

\* A probe that comes to threaten looked while nobody was active.
LEMMA ProbeThreatens ==
  ASSUME SlotsAreTyped, SlotsNext, NEW p \in Tasks, Threatens(p)'
  PROVE  /\ Threatens(p) \/ (Look(p) /\ NoActiveTask)
         /\ \A t \in Tasks : Yield(t) => LaneOf[t] = "cloud"
<1>1. probe \in [Tasks -> ProbeRow] /\ \A t \in Tasks : probe[t] \in ProbeRow
  BY DEF SlotsAreTyped, ProbeRow
<1> USE DEF Threatens
<1>2. ASSUME NEW t \in Tasks, Yield(t), LaneOf[t] # "cloud" PROVE FALSE
  <2>1. probe'[p] = Cancels(probe[p])
    BY <1>2 DEF Yield, Evicts
  <2>2. probe'[p].at \in {"none", "over", "dying"}
    BY <1>1, <2>1 DEF Cancels, ProbeRow
  <2> QED BY <2>2
<1>3. CASE UNCHANGED probe
  BY <1>2, <1>3
<1>4. CASE \E t \in Tasks : Yield(t) /\ probe' = [u \in Tasks |-> Cancels(probe[u])]
  <2>1. probe'[p] = Cancels(probe[p])
    BY <1>4
  <2>2. probe'[p].at \in {"none", "over", "dying"}
    BY <1>1, <2>1 DEF Cancels, ProbeRow
  <2> QED BY <2>2
<1>5. ASSUME NEW t \in Tasks, probe' = [probe EXCEPT ![t] = probe'[t]],
             \/ CloseTask(t) /\ probe'[t] = [probe[t] EXCEPT !.at = "look"]
             \/ /\ Look(t)
                /\ probe'[t] = [probe[t] EXCEPT !.at = "choose", !.local = NoActiveTask]
             \/ /\ Choose(t) /\ probe[t].at = "choose" /\ Pending(probe[t].local) # {}
                /\ probe'[t] = [probe[t] EXCEPT !.at = "start",
                                                !.of = Aspirant(Pending(probe[t].local))]
             \/ Start(t) /\ probe[t].at = "start" /\ probe'[t] = [probe[t] EXCEPT !.at = "wait"]
             \/ /\ AcquireBackground(t) /\ probe[t].at = "wait"
                /\ probe'[t] = [probe[t] EXCEPT !.at = "measure"]
             \/ probe'[t] = [probe[t] EXCEPT !.at = "over"]
      PROVE  Threatens(p) \/ (Look(p) /\ NoActiveTask)
  <2>1. CASE p # t
    BY <1>1, <1>5, <2>1
  <2>2. CASE p = t
    <3>1. CASE \/ probe'[p] = [probe[p] EXCEPT !.at = "look"]
               \/ probe'[p] = [probe[p] EXCEPT !.at = "over"]
      BY <1>1, <3>1 DEF ProbeRow
    <3>2. CASE Look(p) /\ probe'[p] = [probe[p] EXCEPT !.at = "choose", !.local = NoActiveTask]
      BY <1>1, <3>2 DEF ProbeRow
    <3>3. CASE /\ probe[p].at = "choose" /\ Pending(probe[p].local) # {}
               /\ probe'[p] = [probe[p] EXCEPT !.at = "start",
                                               !.of = Aspirant(Pending(probe[p].local))]
      <4>1. Pending(probe[p].local) \in SUBSET (DOMAIN Unproven)
        BY DEF Pending
      <4>2. Aspirant(Pending(probe[p].local)) \in Pending(probe[p].local)
        BY <3>3, <4>1, AspirantIsPending DEF SlotsAreTyped
      <4>3. probe'[p].at = "start" /\ probe'[p].of = Aspirant(Pending(probe[p].local))
        BY <1>1, <3>3 DEF ProbeRow
      <4>4. probe[p].local \/ ~Local(probe'[p].of)
        BY <4>2, <4>3 DEF Pending
      <4> QED BY <3>3, <4>3, <4>4
    <3>4. CASE \/ probe[p].at = "start" /\ probe'[p] = [probe[p] EXCEPT !.at = "wait"]
               \/ probe[p].at = "wait" /\ probe'[p] = [probe[p] EXCEPT !.at = "measure"]
      <4>1. probe'[p].of = probe[p].of /\ probe'[p].at \in {"wait", "measure"}
        BY <1>1, <3>4 DEF ProbeRow
      <4> QED BY <3>4, <4>1
    <3> QED BY <1>5, <2>2, <3>1, <3>2, <3>3, <3>4
  <2> QED BY <2>1, <2>2
<1>6. Threatens(p) \/ (Look(p) /\ NoActiveTask)
  <2> HIDE DEF Threatens
  <2> QED BY <1>3, <1>4, <1>5, ProbesMove
<1> QED BY <1>2, <1>6

LEMMA SlotsKeep ==
  ASSUME SlotsInvariant, SlotsNext \/ UNCHANGED slotsVars
  PROVE  SlotsInvariant'
<1>1. SlotsAreTyped /\ \A t, p \in Tasks : ~(NeedsMachine(t) /\ Threatens(p))
  BY DEF SlotsInvariant
<1>2. CASE SlotsNext
  <2>1. ASSUME NEW t \in Tasks, NEW p \in Tasks, NeedsMachine(t)', Threatens(p)' PROVE FALSE
    <3>1. /\ NeedsMachine(t) \/ Yield(t)
          /\ Threatens(p) \/ (Look(p) /\ NoActiveTask)
          /\ Yield(t) => LaneOf[t] = "cloud"
      BY <1>1, <1>2, <2>1, MachineIsNeeded, ProbeThreatens
    <3>2. NeedsMachine(t)
      BY <2>1, <3>1 DEF NeedsMachine
    <3> QED BY <1>1, <3>1, <3>2 DEF NeedsMachine, NoActiveTask
  <2> QED BY <1>2, <2>1, SlotsTypesStay DEF SlotsInvariant
<1>3. CASE UNCHANGED slotsVars
  BY <1>3 DEF slotsVars, SlotsInvariant, SlotsAreTyped, NeedsMachine, Threatens
<1> QED BY <1>2, <1>3

LEMMA SlotsBegin ==
  ASSUME SlotsInit
  PROVE  SlotsInvariant
<1>1. Needed \in Nat
  BY SlotsAssumption
<1>2. NoProbe \in ProbeRow /\ NoProbe.at = "none"
  BY DEF NoProbe, ProbeRow, Phases
<1>3. SlotsAreTyped
  BY <1>1, <1>2 DEF SlotsInit, SlotsAreTyped, Works, ProbeRow
<1> QED BY <1>2, <1>3 DEF SlotsInvariant, SlotsInit, Threatens

----------------------------------------------------------------------------
(* The channel of an MCP server.                                           *)

\* Taking a line of the output, writing one, and asking anew.
LEMMA LineTaken ==
  ASSUME NEW owes \in SUBSET Nat, NEW output \in Seq(Nat), output # << >>, Once(owes, output)
  PROVE  /\ Tail(output) \in Seq(Nat) /\ Once(owes, Tail(output))
         /\ Unread(owes, Tail(output)) \subseteq Unread(owes, output)
         /\ Head(output) \notin Unread(owes, Tail(output))
         /\ Unread(owes, output) \subseteq Unread(owes, Tail(output)) \cup {Head(output)}
<1>1. /\ Tail(output) \in Seq(Nat) /\ Len(output) \in Nat /\ Len(output) > 0
      /\ Len(Tail(output)) = Len(output) - 1 /\ Head(output) = output[1]
  OBVIOUS
<1>2. ASSUME NEW i \in 1..Len(Tail(output))
      PROVE  /\ Tail(output)[i] = output[i + 1] /\ i + 1 \in 1..Len(output)
             /\ i + 1 # 1 /\ 1 \in 1..Len(output) /\ i \in Int
  BY <1>1
<1>3. Once(owes, Tail(output))
  <2>1. ASSUME NEW i \in 1..Len(Tail(output)), NEW k \in 1..Len(Tail(output)),
               Tail(output)[i] = Tail(output)[k]
        PROVE  i = k \/ Tail(output)[i] = 0
    <3>1. i + 1 = k + 1 \/ output[i + 1] = 0
      BY <1>2, <2>1 DEF Once
    <3> QED BY <1>2, <3>1
  <2> QED BY <1>2, <2>1 DEF Once
<1>4. Unread(owes, Tail(output)) \subseteq Unread(owes, output)
  BY <1>2 DEF Unread
<1>5. Head(output) \notin Unread(owes, Tail(output))
  BY <1>1, <1>2 DEF Unread, Once
<1>6. Unread(owes, output) \subseteq Unread(owes, Tail(output)) \cup {Head(output)}
  <2>1. ASSUME NEW i \in 1..Len(output), i # 1
        PROVE  i - 1 \in 1..Len(Tail(output)) /\ Tail(output)[i - 1] = output[i]
    BY <1>1, <2>1
  <2> QED BY <1>1, <2>1 DEF Unread
<1> QED BY <1>1, <1>3, <1>4, <1>5, <1>6

\* Noise in front of the output is nobody's answer.
LEMMA LineCut ==
  ASSUME NEW owes \in SUBSET Nat, NEW output \in Seq(Nat), Once(owes, output)
  PROVE  /\ <<0>> \o output \in Seq(Nat) /\ Once(owes, <<0>> \o output)
         /\ Unread(owes, <<0>> \o output) = Unread(owes, output)
<1> DEFINE after == <<0>> \o output
<1>1. /\ after \in Seq(Nat) /\ Len(output) \in Nat /\ Len(after) = Len(output) + 1
      /\ after[1] = 0 /\ \A i \in 1..Len(output) : after[i + 1] = output[i]
  OBVIOUS
<1> HIDE DEF after
<1>2. \A i \in 1..Len(after) : i = 1 \/ (i - 1 \in 1..Len(output) /\ after[i] = output[i - 1])
  <2>1. ASSUME NEW i \in 1..Len(after), i # 1
        PROVE  i - 1 \in 1..Len(output) /\ (i - 1) + 1 = i
    BY <1>1, <2>1
  <2>2. ASSUME NEW i \in 1..Len(after), i # 1
        PROVE  after[i] = output[i - 1]
    BY <1>1, <2>1, <2>2
  <2> QED BY <2>1, <2>2
<1>3. \A i \in 1..Len(output) : i + 1 \in 1..Len(after) /\ after[i + 1] = output[i]
  BY <1>1
<1>4. Once(owes, after)
  <2>1. ASSUME NEW i \in 1..Len(after), NEW k \in 1..Len(after), after[i] = after[k]
        PROVE  i = k \/ after[i] = 0
    <3>1. CASE i # 1 /\ k # 1
      <4>1. i - 1 = k - 1 \/ output[i - 1] = 0
        BY <1>2, <2>1, <3>1 DEF Once
      <4> QED BY <1>1, <1>2, <2>1, <3>1, <4>1
    <3> QED BY <1>1, <2>1, <3>1
  <2> QED BY <1>1, <1>2, <2>1 DEF Once
<1>5. Unread(owes, after) = Unread(owes, output)
  <2>1. Unread(owes, after) \subseteq Unread(owes, output)
    <3>1. ASSUME NEW i \in 1..Len(after), after[i] # 0
          PROVE  \E k \in 1..Len(output) : after[i] = output[k]
      BY <1>1, <1>2, <3>1
    <3> QED BY <3>1 DEF Unread
  <2>2. Unread(owes, output) \subseteq Unread(owes, after)
    BY <1>3 DEF Unread
  <2> QED BY <2>1, <2>2
<1> QED BY <1>1, <1>4, <1>5 DEF after

LEMMA LineWritten ==
  ASSUME NEW owes \in SUBSET Nat, NEW output \in Seq(Nat), Once(owes, output),
         NEW line \in Nat, line \in owes \cup {0}
  PROVE  /\ owes \ {line} \in SUBSET Nat /\ Append(output, line) \in Seq(Nat)
         /\ Once(owes \ {line}, Append(output, line))
         /\ Unread(owes \ {line}, Append(output, line)) = Unread(owes, output)
<1>1. /\ Append(output, line) \in Seq(Nat) /\ Len(output) \in Nat
      /\ Len(Append(output, line)) = Len(output) + 1
      /\ Append(output, line)[Len(output) + 1] = line
      /\ \A i \in 1..Len(output) : Append(output, line)[i] = output[i]
  OBVIOUS
<1>2. ASSUME NEW i \in 1..Len(output) + 1
      PROVE  i \in 1..Len(output) \/ i = Len(output) + 1
  BY <1>1
<1> DEFINE after == Append(output, line)
<1> HIDE DEF after
<1>3. /\ Len(after) = Len(output) + 1 /\ after[Len(output) + 1] = line
      /\ \A i \in 1..Len(output) : after[i] = output[i]
  BY <1>1 DEF after
<1>4. Once(owes \ {line}, after)
  BY <1>2, <1>3 DEF Once
<1>5. Unread(owes \ {line}, after) = Unread(owes, output)
  <2>1. Unread(owes \ {line}, after) \subseteq Unread(owes, output)
    BY <1>2, <1>3 DEF Unread
  <2>2. ASSUME NEW id \in Unread(owes, output)
        PROVE  id \in Unread(owes \ {line}, after)
    <3>1. CASE id = line
      BY <1>1, <1>3, <2>2, <3>1 DEF Unread, Once
    <3>2. CASE id # line
      BY <1>1, <1>3, <2>2, <3>2 DEF Unread
    <3> QED BY <3>1, <3>2
  <2> QED BY <2>1, <2>2
<1> QED BY <1>1, <1>4, <1>5 DEF after

LEMMA RequestAsked ==
  ASSUME NEW owes \in SUBSET Nat, NEW output \in Seq(Nat), Once(owes, output),
         NEW id \in Nat, id # 0, id \notin Unread(owes, output)
  PROVE  /\ owes \cup {id} \in SUBSET Nat /\ Once(owes \cup {id}, output)
         /\ Unread(owes \cup {id}, output) = Unread(owes, output) \cup {id}
BY DEF Once, Unread

\* A caller's new record, and that the others keep theirs.
OthersStay(c) ==
  caller' \in [Callers -> CallerRow] /\ \A d \in Callers \ {c} : caller'[d] = caller[d]
Placed(c, at, wants) == OthersStay(c) /\ caller'[c].at = at /\ caller'[c].wants = wants
Moved(c, at) ==
  /\ Placed(c, at, caller[c].wants)
  /\ caller'[c].asked = caller[c].asked /\ caller'[c].from = caller[c].from
Sent(c, at, p) ==
  /\ Placed(c, at, caller[c].wants) /\ counter' = counter + 1
  /\ caller'[c].asked = counter + 1 /\ caller'[c].from = p
Broken(c) == Moved(c, "failing") /\ caller'[c].was = caller[c].at

LEMMA CallerFields ==
  ASSUME NEW r \in CallerRow
  PROVE  /\ r.at \in CallerPlaces /\ r.wants \in {"tools", "call"} /\ r.asked \in Nat
         /\ r.from \in Nat /\ r.noise \in Nat /\ r.was \in CallerPlaces
         /\ \A at \in CallerPlaces :
              /\ [r EXCEPT !.at = at] \in CallerRow
              /\ \A w \in {"tools", "call"} : [r EXCEPT !.wants = w, !.at = at] \in CallerRow
              /\ \A w \in CallerPlaces : [r EXCEPT !.at = at, !.was = w] \in CallerRow
              /\ \A n, p \in Nat :
                   [r EXCEPT !.at = at, !.asked = n, !.from = p, !.noise = 0] \in CallerRow
         /\ \A n \in Nat : [r EXCEPT !.noise = n] \in CallerRow
<1> HIDE DEF CallerPlaces
<1> QED BY DEF CallerRow

LEMMA PlacesOfCallers ==
  {"idle", "queue", "start", "spawn", "failing", "hello", "list", "read", "answered", "failed",
   "uncaught"} = CallerPlaces
BY DEF CallerPlaces, Reading, Ended

LEMMA CallerMoves ==
  ASSUME caller \in [Callers -> CallerRow], counter \in Nat, NEW c \in Callers
  PROVE  /\ \A at \in CallerPlaces : Steps(c, at) => Moved(c, at) /\ caller'[c].was = caller[c].was
         /\ \A at \in CallerPlaces, p \in Nat : Sends(c, at, p) => Sent(c, at, p)
         /\ caller' = Breaks(c) => Broken(c)
         /\ \A n \in Nat : caller' = [caller EXCEPT ![c].noise = n] =>
              Moved(c, caller[c].at) /\ caller'[c].was = caller[c].was
         /\ BeginCall(c) => /\ \/ Placed(c, "queue", "call")
                               \/ Placed(c, "start", "tools")
                            /\ caller'[c].asked = caller[c].asked
                            /\ caller'[c].from = caller[c].from
<1>1. ASSUME NEW r \in CallerRow, caller' = [caller EXCEPT ![c] = r]
      PROVE  OthersStay(c) /\ caller'[c] = r
  BY <1>1 DEF OthersStay
<1>2. caller[c] \in CallerRow /\ counter + 1 \in Nat /\ "failing" \in CallerPlaces
      /\ caller[c].at \in CallerPlaces
  <2>1. caller[c] \in CallerRow /\ counter + 1 \in Nat
    OBVIOUS
  <2>2. caller[c].at \in CallerPlaces
    BY <2>1, CallerFields
  <2> QED BY <2>1, <2>2, PlacesOfCallers
<1>3. ASSUME NEW at \in CallerPlaces, Steps(c, at)
      PROVE  Moved(c, at) /\ caller'[c].was = caller[c].was
  <2>1. /\ caller' = [caller EXCEPT ![c] = [caller[c] EXCEPT !.at = at]]
        /\ [caller[c] EXCEPT !.at = at] \in CallerRow
    BY <1>2, <1>3, CallerFields DEF Steps
  <2>2. OthersStay(c) /\ caller'[c] = [caller[c] EXCEPT !.at = at]
    BY <1>1, <2>1
  <2> QED BY <1>2, <2>2 DEF Moved, Placed, CallerRow
<1>4. ASSUME NEW at \in CallerPlaces, NEW p \in Nat, Sends(c, at, p)
      PROVE  Sent(c, at, p)
  <2> DEFINE r == [caller[c] EXCEPT !.at = at, !.asked = counter + 1, !.from = p, !.noise = 0]
  <2>1. caller' = [caller EXCEPT ![c] = r] /\ r \in CallerRow
    BY <1>2, <1>4, CallerFields DEF Sends
  <2>2. OthersStay(c) /\ caller'[c] = r
    BY <1>1, <2>1
  <2> QED BY <1>2, <1>4, <2>2 DEF Sent, Sends, Placed, CallerRow
<1>5. ASSUME caller' = Breaks(c)
      PROVE  Broken(c)
  <2> DEFINE r == [caller[c] EXCEPT !.at = "failing", !.was = caller[c].at]
  <2>1. caller' = [caller EXCEPT ![c] = r] /\ r \in CallerRow
    BY <1>2, <1>5, CallerFields DEF Breaks
  <2>2. OthersStay(c) /\ caller'[c] = r
    BY <1>1, <2>1
  <2> QED BY <1>2, <2>2 DEF Broken, Moved, Placed, CallerRow
<1>6. ASSUME NEW n \in Nat, caller' = [caller EXCEPT ![c].noise = n]
      PROVE  Moved(c, caller[c].at) /\ caller'[c].was = caller[c].was
  <2>1. /\ caller' = [caller EXCEPT ![c] = [caller[c] EXCEPT !.noise = n]]
        /\ [caller[c] EXCEPT !.noise = n] \in CallerRow
    BY <1>2, <1>6, CallerFields
  <2>2. OthersStay(c) /\ caller'[c] = [caller[c] EXCEPT !.noise = n]
    BY <1>1, <2>1
  <2> QED BY <1>2, <2>2 DEF Moved, Placed, CallerRow
<1>7. ASSUME BeginCall(c)
      PROVE  /\ Placed(c, "queue", "call") \/ Placed(c, "start", "tools")
             /\ caller'[c].asked = caller[c].asked /\ caller'[c].from = caller[c].from
  <2>1. PICK w \in {"tools", "call"} :
          caller' = [caller EXCEPT ![c].wants = w,
                                   ![c].at = IF w = "call" THEN "queue" ELSE "start"]
    BY <1>7 DEF BeginCall
  <2> DEFINE at == IF w = "call" THEN "queue" ELSE "start"
  <2>2. at \in CallerPlaces
    BY PlacesOfCallers
  <2>3. /\ caller' = [caller EXCEPT ![c] = [caller[c] EXCEPT !.wants = w, !.at = at]]
        /\ [caller[c] EXCEPT !.wants = w, !.at = at] \in CallerRow
    <3> HIDE DEF at
    <3>1. caller' = [caller EXCEPT ![c].wants = w, ![c].at = at]
      BY <2>1 DEF at
    <3> QED BY <1>2, <2>2, <3>1, CallerFields
  <2>4. OthersStay(c) /\ caller'[c] = [caller[c] EXCEPT !.wants = w, !.at = at]
    BY <1>1, <2>3
  <2> QED BY <1>2, <2>4 DEF Placed, CallerRow
<1> QED BY <1>3, <1>4, <1>5, <1>6, <1>7

\* The record of one process, and that the others keep theirs.
Child(p, owes, output) ==
  /\ child' \in [1..Processes -> ChildRow]
  /\ \A q \in 1..Processes \ {p} : child'[q] = child[q]
  /\ child'[p].alive = child[p].alive
  /\ child'[p].owes = owes /\ child'[p].output = output

LEMMA ChildFields ==
  ASSUME NEW r \in ChildRow
  PROVE  /\ r.alive \in BOOLEAN /\ r.owes \in SUBSET Nat /\ r.output \in Seq(Nat)
         /\ \A owes \in SUBSET Nat, output \in Seq(Nat) :
              /\ [r EXCEPT !.owes = owes] \in ChildRow
              /\ [r EXCEPT !.output = output] \in ChildRow
              /\ [r EXCEPT !.owes = owes, !.output = output] \in ChildRow
         /\ [r EXCEPT !.alive = FALSE, !.owes = {}] \in ChildRow
BY DEF ChildRow

LEMMA ChildChanges ==
  ASSUME child \in [1..Processes -> ChildRow], NEW p \in 1..Processes,
         NEW owes \in SUBSET Nat, NEW output \in Seq(Nat)
  PROVE  /\ child' = [child EXCEPT ![p].owes = owes] => Child(p, owes, child[p].output)
         /\ child' = [child EXCEPT ![p].output = output] => Child(p, child[p].owes, output)
         /\ child' = [child EXCEPT ![p].owes = owes, ![p].output = output] =>
              Child(p, owes, output)
<1>1. ASSUME NEW r \in ChildRow, child' = [child EXCEPT ![p] = r]
      PROVE  /\ child' \in [1..Processes -> ChildRow]
             /\ \A q \in 1..Processes \ {p} : child'[q] = child[q]
             /\ child'[p] = r
  BY <1>1
<1>2. child[p] \in ChildRow
  OBVIOUS
<1>3. ASSUME child' = [child EXCEPT ![p].owes = owes]
      PROVE  Child(p, owes, child[p].output)
  <2> DEFINE r == [child[p] EXCEPT !.owes = owes]
  <2>1. child' = [child EXCEPT ![p] = r] /\ r \in ChildRow
    BY <1>2, <1>3, ChildFields
  <2>2. r.owes = owes /\ r.output = child[p].output /\ r.alive = child[p].alive
    BY <1>2 DEF ChildRow
  <2> HIDE DEF r
  <2> QED BY <1>1, <2>1, <2>2 DEF Child
<1>4. ASSUME child' = [child EXCEPT ![p].output = output]
      PROVE  Child(p, child[p].owes, output)
  <2> DEFINE r == [child[p] EXCEPT !.output = output]
  <2>1. child' = [child EXCEPT ![p] = r] /\ r \in ChildRow
    BY <1>2, <1>4, ChildFields
  <2>2. r.owes = child[p].owes /\ r.output = output /\ r.alive = child[p].alive
    BY <1>2 DEF ChildRow
  <2> HIDE DEF r
  <2> QED BY <1>1, <2>1, <2>2 DEF Child
<1>5. ASSUME child' = [child EXCEPT ![p].owes = owes, ![p].output = output]
      PROVE  Child(p, owes, output)
  <2> DEFINE r == [child[p] EXCEPT !.owes = owes, !.output = output]
  <2>1. child' = [child EXCEPT ![p] = r] /\ r \in ChildRow
    BY <1>2, <1>5, ChildFields
  <2>2. r.owes = owes /\ r.output = output /\ r.alive = child[p].alive
    BY <1>2 DEF ChildRow
  <2> HIDE DEF r
  <2> QED BY <1>1, <2>1, <2>2 DEF Child
<1> QED BY <1>3, <1>4, <1>5

\* Whoever kills the current process leaves none alive.
LEMMA KillingLeavesNone ==
  ASSUME child \in [1..Processes -> ChildRow], child' = KilledCurrent,
         \A p \in 1..Processes : child[p].alive => p = current
  PROVE  /\ child' \in [1..Processes -> ChildRow]
         /\ \A p \in 1..Processes : ~child'[p].alive
<1>1. CASE current \notin 1..Processes
  <2>1. child' = child
    BY <1>1 DEF KilledCurrent, Killed
  <2> QED BY <1>1, <2>1, ChildFields
<1>2. CASE current \in 1..Processes
  <2>1. child' = [child EXCEPT ![current] = [child[current] EXCEPT !.alive = FALSE, !.owes = {}]]
    <3>1. current # 0
      BY <1>2
    <3>2. child' = Killed(current)
      BY <3>1 DEF KilledCurrent
    <3> QED BY <1>2, <3>2 DEF Killed
  <2>2. /\ ~[child[current] EXCEPT !.alive = FALSE, !.owes = {}].alive
        /\ [child[current] EXCEPT !.alive = FALSE, !.owes = {}] \in ChildRow
    BY <1>2 DEF ChildRow
  <2>3. /\ child' \in [1..Processes -> ChildRow] /\ ~child'[current].alive
        /\ \A p \in 1..Processes \ {current} : child'[p] = child[p]
    BY <1>2, <2>1, <2>2
  <2> QED BY <2>3
<1> QED BY <1>1, <1>2

\* What the invariant says of a caller that reads, and of where the current process is.
LEMMA ReaderKnows ==
  ASSUME ChannelInvariant, NEW c \in Callers
  PROVE  /\ caller[c] \in CallerRow /\ caller[c].from \in 0..Processes
         /\ CallerAt(c, Reading) => caller[c].from \in 1..Processes
         /\ CallerAt(c, {"hello", "list"}) => caller[c].from = current
         /\ Alive(current) => current \in 1..Processes
<1>1. /\ caller[c] \in CallerRow /\ caller[c].from <= spawned /\ spawned \in 0..Processes
      /\ CallerAt(c, Reading) => caller[c].from # 0
      /\ current \in 0..spawned
  BY DEF ChannelInvariant, ChannelIsTyped
<1>2. Processes \in Nat /\ caller[c].from \in Nat
  BY <1>1, CallerFields, ChannelAssumption
<1>3. CallerAt(c, {"hello", "list"}) => caller[c].from = current
  BY DEF ChannelInvariant, ProcessIsAtHand, Greets, Stands, CallerAt
<1> QED BY <1>1, <1>2, <1>3 DEF Alive

\* A line taken of the output, and a request written after it.
LEMMA LinesMove ==
  ASSUME ChannelInvariant, NEW c \in Callers, CallerAt(c, Reading), HasLine(c)
  PROVE  LET p == caller[c].from IN
         /\ Tail(child[p].output) \in Seq(Nat)
         /\ child' = Taken(c) => Child(p, child[p].owes, Tail(child[p].output))
         /\ \A n \in Nat :
              child' = [Taken(c) EXCEPT ![p].owes = @ \cup {n}] =>
                Child(p, child[p].owes \cup {n}, Tail(child[p].output))
<1> DEFINE p == caller[c].from
           tail == Tail(child[p].output)
<1>1. p \in 1..Processes /\ child \in [1..Processes -> ChildRow]
  BY ReaderKnows DEF ChannelInvariant, ChannelIsTyped
<1>2. child[p] \in ChildRow
  BY <1>1
<1>3. child[p].owes \in SUBSET Nat /\ child[p].output \in Seq(Nat) /\ child[p].output # << >>
  BY <1>2, ChildFields DEF HasLine
<1>4. tail \in Seq(Nat)
  BY <1>3
<1>5. Taken(c) = [child EXCEPT ![p].output = tail]
  BY DEF Taken
<1> HIDE DEF p, tail
<1>6. ASSUME NEW n \in Nat, child' = [Taken(c) EXCEPT ![p].owes = @ \cup {n}]
      PROVE  Child(p, child[p].owes \cup {n}, tail)
  <2>1. /\ Taken(c) = [child EXCEPT ![p] = [child[p] EXCEPT !.output = tail]]
        /\ [child[p] EXCEPT !.output = tail].owes = child[p].owes
    BY <1>1, <1>2, <1>5 DEF ChildRow
  <2>2. Taken(c)[p].owes = child[p].owes
    BY <1>1, <2>1
  <2>3. child' = [Taken(c) EXCEPT ![p].owes = child[p].owes \cup {n}]
    BY <1>6, <2>2
  <2>4. child' = [child EXCEPT ![p].owes = child[p].owes \cup {n}, ![p].output = tail]
    <3>1. child' = [child EXCEPT ![p] = [[child[p] EXCEPT !.output = tail]
                                            EXCEPT !.owes = child[p].owes \cup {n}]]
      BY <1>1, <2>1, <2>3
    <3>2. [[child[p] EXCEPT !.output = tail] EXCEPT !.owes = child[p].owes \cup {n}]
            = [[child[p] EXCEPT !.owes = child[p].owes \cup {n}] EXCEPT !.output = tail]
      BY <1>2 DEF ChildRow
    <3>3. child' = [child EXCEPT ![p] = [[child[p] EXCEPT !.owes = child[p].owes \cup {n}]
                                            EXCEPT !.output = tail]]
      BY <3>1, <3>2
    <3> QED BY <1>1, <3>3
  <2>5. child[p].owes \cup {n} \in SUBSET Nat
    BY <1>3
  <2> QED BY <1>1, <1>4, <2>4, <2>5, ChildChanges
<1>7. ASSUME child' = Taken(c)
      PROVE  Child(p, child[p].owes, tail)
  <2>1. child' = [child EXCEPT ![p].output = tail]
    BY <1>5, <1>7
  <2> QED BY <1>1, <1>3, <1>4, <2>1, ChildChanges
<1> QED BY <1>4, <1>6, <1>7 DEF p, tail

\* An unexpected line: it is gone, or noise is in its place.
LEMMA UncaughtMoves ==
  ASSUME ChannelInvariant, NEW c \in Callers, Uncaught(c)
  PROVE  LET p == caller[c].from
             tail == Tail(child[p].output)
         IN
         /\ UNCHANGED <<spawned, current, started, counter>> /\ CallerAt(c, Reading) /\ HasLine(c)
         /\ starting' = starting \ {c} /\ calling' = calling \ {c} /\ Moved(c, "uncaught")
         /\ \E output \in {tail, <<0>> \o tail} : Child(p, child[p].owes, output)
<1> DEFINE p == caller[c].from
           tail == Tail(child[p].output)
<1>1. /\ CallerAt(c, Reading) /\ HasLine(c) /\ child' \in {Taken(c), Cut(c)}
      /\ Steps(c, "uncaught") /\ starting' = starting \ {c} /\ calling' = calling \ {c}
      /\ UNCHANGED <<spawned, current, started, counter>>
  BY DEF Uncaught, HasLine
<1>2. /\ caller \in [Callers -> CallerRow] /\ counter \in Nat
      /\ child \in [1..Processes -> ChildRow] /\ p \in 1..Processes
  BY <1>1, ReaderKnows DEF ChannelInvariant, ChannelIsTyped
<1>3. Moved(c, "uncaught")
  BY <1>1, <1>2, CallerMoves, PlacesOfCallers
<1>4. tail \in Seq(Nat) /\ (child' = Taken(c) => Child(p, child[p].owes, tail))
  BY <1>1, LinesMove
<1>5. ASSUME child' = Cut(c)
      PROVE  Child(p, child[p].owes, <<0>> \o tail)
  <2>1. child' = [child EXCEPT ![p].output = <<0>> \o tail]
    BY <1>5 DEF Cut
  <2>2. child[p].owes \in SUBSET Nat
    <3>1. child[p] \in ChildRow
      BY <1>2
    <3> QED BY <3>1, ChildFields
  <2>3. PICK output \in Seq(Nat) : output = <<0>> \o tail
    <3>1. \A lines \in Seq(Nat) : <<0>> \o lines \in Seq(Nat)
      OBVIOUS
    <3> QED BY <1>4, <3>1
  <2>4. child' = [child EXCEPT ![p].output = output]
    BY <2>1, <2>3
  <2>5. Child(p, child[p].owes, output)
    BY <1>2, <2>2, <2>4, ChildChanges
  <2> QED BY <2>3, <2>5
<1> QED BY <1>1, <1>3, <1>4, <1>5

\* A caller goes on without a word to the server, asks it for the first time, takes a line
\* of its output, or stops it.
Resting(c) ==
  \/ BeginCall(c) \/ TakeCallLock(c) \/ (FindStarted(c) /\ caller[c].wants = "tools")
  \/ SpawnFails(c) \/ EndOfOutput(c) \/ CutShort(c) \/ LeaveQueue(c)
Reads(c) == Discard(c) \/ HelloAnswered(c) \/ ListAnswered(c) \/ CallAnswered(c)
Stops(c) == StopOld(c) \/ CallFails(c) \/ StartFails(c)
AsksFirst(c) == FindStarted(c) /\ caller[c].wants = "call"

LEMMA ChannelSteps ==
  ASSUME caller \in [Callers -> CallerRow], ChannelNext
  PROVE  \/ \E c \in Callers : Resting(c) \/ Reads(c) \/ Stops(c) \/ AsksFirst(c)
                             \/ Spawn(c) \/ Uncaught(c)
         \/ \E p \in 1..Processes : ServerAnswers(p) \/ ServerUpset(p)
<1>1. \A c \in Callers : caller[c].wants \in {"tools", "call"}
  BY CallerFields
<1> QED BY <1>1 DEF ChannelNext, Resting, Reads, Stops, AsksFirst

LEMMA RestingMoves ==
  ASSUME ChannelInvariant, NEW c \in Callers, Resting(c)
  PROVE  /\ UNCHANGED <<child, spawned, current, counter, starting>>
         /\ \/ /\ UNCHANGED <<started, calling>> /\ CallerAt(c, {"idle"})
               /\ Placed(c, "queue", "call") \/ Placed(c, "start", "tools")
               /\ caller'[c].asked = caller[c].asked /\ caller'[c].from = caller[c].from
            \/ /\ UNCHANGED started /\ CallerAt(c, {"queue"}) /\ Moved(c, "start")
               /\ calling = {} /\ calling' = {c}
            \/ /\ UNCHANGED <<started, calling>> /\ CallerAt(c, {"start"})
               /\ caller[c].wants = "tools" /\ Moved(c, "answered")
            \/ /\ UNCHANGED calling /\ started' \in {started, FALSE}
               /\ CallerAt(c, {"spawn"} \cup Reading) /\ Broken(c)
            \/ /\ UNCHANGED started /\ CallerAt(c, {"queue", "start"}) /\ Moved(c, "failed")
               /\ calling' = calling \ {c}
<1>1. caller \in [Callers -> CallerRow] /\ counter \in Nat
  BY DEF ChannelInvariant, ChannelIsTyped
<1>2. CASE BeginCall(c)
  BY <1>1, <1>2, CallerMoves DEF BeginCall
<1>3. CASE TakeCallLock(c)
  BY <1>1, <1>3, CallerMoves, PlacesOfCallers DEF TakeCallLock
<1>4. CASE FindStarted(c) /\ caller[c].wants = "tools"
  BY <1>1, <1>4, CallerMoves, PlacesOfCallers DEF FindStarted, Proceed
<1>5. CASE SpawnFails(c)
  BY <1>1, <1>5, CallerMoves DEF SpawnFails, CallerAt
<1>6. CASE EndOfOutput(c)
  BY <1>1, <1>6, CallerMoves DEF EndOfOutput, CallerAt
<1>7. CASE CutShort(c)
  BY <1>1, <1>7, CallerMoves DEF CutShort, CallerAt
<1>8. CASE LeaveQueue(c)
  BY <1>1, <1>8, CallerMoves, PlacesOfCallers DEF LeaveQueue
<1> QED BY <1>2, <1>3, <1>4, <1>5, <1>6, <1>7, <1>8 DEF Resting

LEMMA ReadsMoves ==
  ASSUME ChannelInvariant, NEW c \in Callers, Reads(c)
  PROVE  LET p == caller[c].from IN
         /\ UNCHANGED <<spawned, current>> /\ CallerAt(c, Reading) /\ HasLine(c)
         /\ \/ /\ UNCHANGED <<started, counter, starting, calling>> /\ Line(c) # caller[c].asked
               /\ (Moved(c, caller[c].at) /\ caller'[c].was = caller[c].was) \/ Broken(c)
               /\ Child(p, child[p].owes, Tail(child[p].output))
            \/ /\ UNCHANGED <<started, starting, calling>> /\ CallerAt(c, {"hello"})
               /\ Line(c) = caller[c].asked /\ Sent(c, "list", p)
               /\ Child(p, child[p].owes \cup {counter + 1}, Tail(child[p].output))
            \/ /\ UNCHANGED calling /\ CallerAt(c, {"list"}) /\ caller[c].wants = "call"
               /\ started' /\ starting' = {} /\ Line(c) = caller[c].asked /\ Sent(c, "read", p)
               /\ Child(p, child[p].owes \cup {counter + 1}, Tail(child[p].output))
            \/ /\ UNCHANGED <<calling, counter>> /\ CallerAt(c, {"list"})
               /\ caller[c].wants = "tools" /\ started' /\ starting' = {}
               /\ Line(c) = caller[c].asked /\ Moved(c, "answered")
               /\ Child(p, child[p].owes, Tail(child[p].output))
            \/ /\ UNCHANGED <<started, starting, counter>> /\ CallerAt(c, {"read"})
               /\ calling' = calling \ {c} /\ Line(c) = caller[c].asked /\ Moved(c, "answered")
               /\ Child(p, child[p].owes, Tail(child[p].output))
<1>1. caller \in [Callers -> CallerRow] /\ counter \in Nat /\ counter + 1 \in Nat
  BY DEF ChannelInvariant, ChannelIsTyped
<1>2. /\ caller[c].from \in Nat /\ caller[c].wants \in {"tools", "call"} /\ caller[c].noise \in Nat
      /\ caller[c].noise + 1 \in Nat /\ caller[c].at \in CallerPlaces
  <2>1. caller[c] \in CallerRow
    BY <1>1
  <2>2. /\ caller[c].from \in Nat /\ caller[c].wants \in {"tools", "call"}
        /\ caller[c].noise \in Nat /\ caller[c].at \in CallerPlaces
    BY <2>1, CallerFields
  <2> QED BY <2>2
<1>3. CASE Discard(c)
  <2>1. /\ CallerAt(c, Reading) /\ HasLine(c) /\ Line(c) # caller[c].asked /\ child' = Taken(c)
        /\ UNCHANGED <<spawned, current, started, counter, starting, calling>>
        /\ \/ caller' = [caller EXCEPT ![c].noise = @ + 1]
           \/ caller' = Breaks(c)
    BY <1>3 DEF Discard, HasLine
  <2>2. (Moved(c, caller[c].at) /\ caller'[c].was = caller[c].was) \/ Broken(c)
    BY <1>1, <1>2, <2>1, CallerMoves
  <2> QED BY <2>1, <2>2, LinesMove
<1>4. CASE HelloAnswered(c)
  <2>1. /\ CallerAt(c, {"hello"}) /\ CallerAt(c, Reading) /\ HasLine(c)
        /\ Line(c) = caller[c].asked /\ Sends(c, "list", current)
        /\ child' = [Taken(c) EXCEPT ![current].owes = @ \cup {counter'}]
        /\ UNCHANGED <<spawned, current, started, starting, calling>>
    BY <1>4 DEF HelloAnswered, HasLine
  <2>2. current = caller[c].from /\ counter' = counter + 1
    BY <2>1, ReaderKnows DEF Sends, CallerAt
  <2>3. child' = [Taken(c) EXCEPT ![caller[c].from].owes = @ \cup {counter + 1}]
    BY <2>1, <2>2
  <2>4. Sent(c, "list", caller[c].from)
    BY <1>1, <1>2, <2>1, <2>2, CallerMoves, PlacesOfCallers
  <2> QED BY <1>1, <2>1, <2>3, <2>4, LinesMove
<1>5. CASE ListAnswered(c)
  <2>1. /\ CallerAt(c, {"list"}) /\ CallerAt(c, Reading) /\ HasLine(c)
        /\ Line(c) = caller[c].asked /\ started' /\ starting' = {}
        /\ UNCHANGED <<spawned, current, calling>>
    BY <1>5 DEF ListAnswered, HasLine
  <2>2. current = caller[c].from
    BY <2>1, ReaderKnows DEF CallerAt
  <2>3. CASE caller[c].wants = "call"
    <3>1. /\ Sends(c, "read", current)
          /\ child' = [Taken(c) EXCEPT ![current].owes = @ \cup {counter'}]
      BY <1>5, <2>3 DEF ListAnswered
    <3>2. counter' = counter + 1
      BY <3>1 DEF Sends
    <3>3. child' = [Taken(c) EXCEPT ![caller[c].from].owes = @ \cup {counter + 1}]
      BY <2>2, <3>1, <3>2
    <3>4. Sent(c, "read", caller[c].from)
      BY <1>1, <1>2, <2>2, <3>1, CallerMoves, PlacesOfCallers
    <3> QED BY <1>1, <2>1, <2>3, <3>3, <3>4, LinesMove
  <2>4. CASE caller[c].wants = "tools"
    <3>1. Steps(c, "answered") /\ child' = Taken(c) /\ UNCHANGED counter
      BY <1>5, <2>4 DEF ListAnswered
    <3>2. Moved(c, "answered")
      BY <1>1, <3>1, CallerMoves, PlacesOfCallers
    <3> QED BY <2>1, <2>4, <3>1, <3>2, LinesMove
  <2> QED BY <1>2, <2>3, <2>4
<1>6. CASE CallAnswered(c)
  <2>1. /\ CallerAt(c, {"read"}) /\ CallerAt(c, Reading) /\ HasLine(c)
        /\ Line(c) = caller[c].asked /\ child' = Taken(c) /\ Steps(c, "answered")
        /\ calling' = calling \ {c} /\ UNCHANGED <<spawned, current, started, counter, starting>>
    BY <1>6 DEF CallAnswered, HasLine
  <2>2. Moved(c, "answered")
    BY <1>1, <2>1, CallerMoves, PlacesOfCallers
  <2> QED BY <2>1, <2>2, LinesMove
<1> QED BY <1>3, <1>4, <1>5, <1>6 DEF Reads

LEMMA StopsMoves ==
  ASSUME ChannelInvariant, NEW c \in Callers, Stops(c)
  PROVE  /\ UNCHANGED <<spawned, counter>> /\ ~started'
         /\ child' \in [1..Processes -> ChildRow] /\ \A p \in 1..Processes : ~child'[p].alive
         /\ \/ /\ CallerAt(c, {"start"}) /\ starting = {} /\ starting' = {c}
               /\ current' = 0 /\ UNCHANGED calling /\ Moved(c, "spawn")
            \/ /\ CallerAt(c, {"failing"}) /\ Moved(c, "failed") /\ calling' = calling \ {c}
               /\ \/ caller[c].was = "read" /\ UNCHANGED <<current, starting>>
                  \/ caller[c].was \in Handshake /\ current' = 0 /\ starting' = {}
<1>1. caller \in [Callers -> CallerRow] /\ counter \in Nat
  BY DEF ChannelInvariant, ChannelIsTyped
<1>2. child' = KilledCurrent /\ ~started'
  BY DEF Stops, StopOld, CallFails, StartFails
<1>3. child' \in [1..Processes -> ChildRow] /\ \A p \in 1..Processes : ~child'[p].alive
  BY <1>2, KillingLeavesNone DEF ChannelInvariant, ChannelIsTyped, ProcessIsAtHand
<1>4. CASE StopOld(c)
  BY <1>1, <1>2, <1>3, <1>4, CallerMoves, PlacesOfCallers DEF StopOld
<1>5. CASE CallFails(c)
  BY <1>1, <1>2, <1>3, <1>5, CallerMoves, PlacesOfCallers DEF CallFails
<1>6. CASE StartFails(c)
  BY <1>1, <1>2, <1>3, <1>6, CallerMoves, PlacesOfCallers DEF StartFails
<1> QED BY <1>4, <1>5, <1>6 DEF Stops

LEMMA AskingMoves ==
  ASSUME ChannelInvariant, NEW c \in Callers, AsksFirst(c)
  PROVE  /\ current \in 1..Processes /\ CallerAt(c, {"start"}) /\ caller[c].wants = "call"
         /\ starting = {} /\ UNCHANGED <<spawned, current, started, starting, calling>>
         /\ Sent(c, "read", current)
         /\ Child(current, child[current].owes \cup {counter + 1}, child[current].output)
<1>1. /\ caller \in [Callers -> CallerRow] /\ counter \in Nat /\ counter + 1 \in Nat
      /\ child \in [1..Processes -> ChildRow]
  BY DEF ChannelInvariant, ChannelIsTyped
<1>2. /\ CallerAt(c, {"start"}) /\ starting = {} /\ Alive(current) /\ caller[c].wants = "call"
      /\ Sends(c, "read", current)
      /\ child' = [child EXCEPT ![current].owes = @ \cup {counter'}]
      /\ UNCHANGED <<spawned, current, started, starting, calling>>
  BY DEF AsksFirst, FindStarted, Proceed
<1>3. current \in 1..Processes /\ counter' = counter + 1
  BY <1>2, ReaderKnows DEF Sends
<1>4. child[current] \in ChildRow
  BY <1>1, <1>3
<1>5. /\ child[current].owes \cup {counter + 1} \in SUBSET Nat
      /\ child[current].output \in Seq(Nat)
  BY <1>1, <1>4, ChildFields
<1>6. Child(current, child[current].owes \cup {counter + 1}, child[current].output)
  <2>1. child' = [child EXCEPT ![current].owes = child[current].owes \cup {counter + 1}]
    BY <1>2, <1>3
  <2> QED BY <1>1, <1>3, <1>5, <2>1, ChildChanges
<1>7. Sent(c, "read", current)
  <2>1. "read" \in CallerPlaces /\ current \in Nat
    BY <1>3, PlacesOfCallers DEF ChannelAssumption
  <2>2. caller \in [Callers -> CallerRow] /\ counter \in Nat
    BY <1>1
  <2>3. Sends(c, "read", current)
    BY <1>2
  <2> QED BY <2>1, <2>2, <2>3, CallerMoves, Zenon
<1> QED BY <1>2, <1>3, <1>6, <1>7

LEMMA SpawnMoves ==
  ASSUME ChannelInvariant, NEW c \in Callers, Spawn(c)
  PROVE  /\ CallerAt(c, {"spawn"}) /\ spawned + 1 \in 1..Processes
         /\ spawned' = spawned + 1 /\ current' = spawned + 1
         /\ UNCHANGED <<started, starting, calling>> /\ Sent(c, "hello", spawned + 1)
         /\ child' \in [1..Processes -> ChildRow]
         /\ \A p \in 1..Processes : child'[p].alive => p = spawned + 1
         /\ child'[spawned + 1].owes = {counter + 1} /\ child'[spawned + 1].output = << >>
<1>1. /\ caller \in [Callers -> CallerRow] /\ counter \in Nat /\ counter + 1 \in Nat
      /\ child \in [1..Processes -> ChildRow] /\ spawned \in 0..Processes
      /\ \A p \in 1..Processes : child[p].alive => p = current
  BY DEF ChannelInvariant, ChannelIsTyped, ProcessIsAtHand
<1>2. /\ CallerAt(c, {"spawn"}) /\ spawned < Processes /\ spawned' = spawned + 1
      /\ current' = spawned + 1 /\ Sends(c, "hello", spawned + 1) /\ counter' = counter + 1
      /\ child' = [child EXCEPT ![spawned + 1] = [Unborn EXCEPT !.alive = TRUE, !.owes = {counter'}]]
      /\ UNCHANGED <<started, starting, calling>>
  BY DEF Spawn, Sends
<1>3. spawned + 1 \in 1..Processes /\ spawned + 1 \in Nat
  BY <1>1, <1>2, ChannelAssumption
<1>4. current = 0
  BY <1>2 DEF ChannelInvariant, ProcessIsAtHand, InLock, Greets, Stands, Handshake, CallerAt
<1> DEFINE r == [Unborn EXCEPT !.alive = TRUE, !.owes = {counter + 1}]
<1>5. Unborn \in ChildRow /\ Unborn.output = << >>
  <2>1. << >> \in Seq(Nat) /\ {} \in SUBSET Nat
    OBVIOUS
  <2> QED BY <2>1 DEF Unborn, ChildRow
<1>6. r.owes = {counter + 1} /\ r.output = << >> /\ r \in ChildRow
  <2>1. ASSUME NEW u \in ChildRow, NEW owes \in SUBSET Nat
        PROVE  LET new == [u EXCEPT !.alive = TRUE, !.owes = owes]
               IN  new \in ChildRow /\ new.owes = owes /\ new.output = u.output
    BY DEF ChildRow
  <2>2. {counter + 1} \in SUBSET Nat
    BY <1>1
  <2> QED BY <1>5, <2>1, <2>2
<1>7. child' = [child EXCEPT ![spawned + 1] = r]
  BY <1>2
<1> HIDE DEF r
<1>8. /\ child' \in [1..Processes -> ChildRow] /\ child'[spawned + 1] = r
      /\ \A p \in 1..Processes \ {spawned + 1} : child'[p] = child[p]
  BY <1>1, <1>3, <1>6, <1>7
<1>9. \A p \in 1..Processes : child'[p].alive => p = spawned + 1
  BY <1>1, <1>4, <1>8
<1>10. Sent(c, "hello", spawned + 1)
  BY <1>1, <1>2, <1>3, CallerMoves, PlacesOfCallers
<1> QED BY <1>2, <1>3, <1>6, <1>8, <1>9, <1>10

LEMMA ServerMoves ==
  ASSUME ChannelInvariant, NEW p \in 1..Processes, ServerAnswers(p) \/ ServerUpset(p)
  PROVE  /\ UNCHANGED <<caller, spawned, current, started, counter, starting, calling>>
         /\ \/ \E line \in child[p].owes \cup {0} :
                 Child(p, child[p].owes \ {line}, Append(child[p].output, line))
            \/ /\ child' \in [1..Processes -> ChildRow] /\ ~child'[p].alive
               /\ \A q \in 1..Processes \ {p} : child'[q] = child[q]
<1>1. child \in [1..Processes -> ChildRow] /\ child[p] \in ChildRow
  BY DEF ChannelInvariant, ChannelIsTyped
<1>2. child[p].owes \in SUBSET Nat /\ child[p].output \in Seq(Nat)
  BY <1>1, ChildFields
<1>3. UNCHANGED <<caller, spawned, current, started, counter, starting, calling>>
  BY DEF ServerAnswers, ServerUpset
<1>4. CASE ServerAnswers(p)
  <2>1. PICK id \in child[p].owes :
          child' = [child EXCEPT ![p].owes = @ \ {id}, ![p].output = Append(@, id)]
    BY <1>4 DEF ServerAnswers
  <2>2. /\ child' = [child EXCEPT ![p].owes = child[p].owes \ {id},
                                  ![p].output = Append(child[p].output, id)]
        /\ child[p].owes \ {id} \in SUBSET Nat /\ Append(child[p].output, id) \in Seq(Nat)
    BY <1>2, <2>1
  <2>3. Child(p, child[p].owes \ {id}, Append(child[p].output, id))
    BY <1>1, <2>2, ChildChanges
  <2> QED BY <1>3, <2>3
<1>5. CASE child' = [child EXCEPT ![p].output = Append(@, 0)] /\ 0 \notin child[p].owes
  <2>1. /\ child' = [child EXCEPT ![p].output = Append(child[p].output, 0)]
        /\ Append(child[p].output, 0) \in Seq(Nat)
    BY <1>2, <1>5
  <2>2. Child(p, child[p].owes, Append(child[p].output, 0))
    BY <1>1, <1>2, <2>1, ChildChanges
  <2>3. child[p].owes \ {0} = child[p].owes
    BY <1>5
  <2> QED BY <1>3, <2>2, <2>3
<1>6. CASE child' = Killed(p)
  <2>1. child' = [child EXCEPT ![p] = [child[p] EXCEPT !.alive = FALSE, !.owes = {}]]
    BY <1>1, <1>6 DEF Killed
  <2>2. /\ ~[child[p] EXCEPT !.alive = FALSE, !.owes = {}].alive
        /\ [child[p] EXCEPT !.alive = FALSE, !.owes = {}] \in ChildRow
    BY <1>1 DEF ChildRow
  <2> QED BY <1>1, <1>3, <2>1, <2>2
<1>7. child[p].alive /\ 0 \notin child[p].owes
  BY DEF ServerAnswers, ServerUpset, ChannelInvariant, AnswersAreAwaited, Once
<1> QED BY <1>4, <1>5, <1>6, <1>7 DEF ServerUpset

\* What every caller keeps to.
Numbered(c) ==
  /\ caller[c].asked <= counter /\ caller[c].from <= spawned
  /\ CallerAt(c, Reading) => caller[c].from # 0
  /\ CallerAt(c, {"failing"}) => caller[c].was \in Handshake \cup {"read"}

LEMMA CallersStayNumbered ==
  ASSUME ChannelInvariant, NEW c \in Callers, OthersStay(c), counter' \in Nat, spawned' \in Nat,
         counter <= counter', spawned <= spawned', Numbered(c)'
  PROVE  \A d \in Callers : Numbered(d)'
<1>1. TAKE d \in Callers
<1>2. /\ Numbered(d) /\ counter \in Nat /\ spawned \in Nat
      /\ caller[d].asked \in Nat /\ caller[d].from \in Nat
  <2>1. Numbered(d) /\ counter \in Nat /\ spawned \in Nat /\ caller[d] \in CallerRow
    BY DEF ChannelInvariant, ChannelIsTyped, Numbered
  <2> QED BY <2>1, CallerFields
<1>3. CASE d = c
  BY <1>3
<1>4. CASE d # c
  <2>1. caller'[d] = caller[d]
    BY <1>4 DEF OthersStay
  <2>2. caller[d].asked <= counter' /\ caller[d].from <= spawned'
    BY <1>2 DEF Numbered
  <2> QED BY <1>2, <2>1, <2>2 DEF Numbered, CallerAt
<1> QED BY <1>3, <1>4

LEMMA CallersNumbered ==
  ASSUME ChannelInvariant, ChannelNext
  PROVE  /\ caller' \in [Callers -> CallerRow] /\ child' \in [1..Processes -> ChildRow]
         /\ counter' \in Nat /\ counter <= counter'
         /\ spawned' \in 0..Processes /\ current' \in 0..spawned'
         /\ starting' \in SUBSET Callers /\ calling' \in SUBSET Callers
         /\ \A c \in Callers : Numbered(c)'
<1>1. /\ caller \in [Callers -> CallerRow] /\ child \in [1..Processes -> ChildRow]
      /\ spawned \in 0..Processes /\ current \in 0..spawned /\ counter \in Nat
      /\ starting \in SUBSET Callers /\ calling \in SUBSET Callers
      /\ \A c \in Callers : Numbered(c)
  BY DEF ChannelInvariant, ChannelIsTyped, Numbered
<1>2. Processes \in Nat /\ spawned \in Nat /\ counter <= counter + 1 /\ counter <= counter
      /\ spawned <= spawned /\ spawned <= spawned + 1 /\ counter + 1 \in Nat
  BY <1>1, ChannelAssumption
<1>3. CASE \E c \in Callers : Resting(c)
  <2>1. PICK c \in Callers : Resting(c)
    BY <1>3
  <2>2. /\ UNCHANGED <<child, spawned, current, counter, starting>> /\ OthersStay(c)
        /\ calling' \in {calling, {c}, calling \ {c}}
        /\ caller'[c].asked = caller[c].asked /\ caller'[c].from = caller[c].from
        /\ \/ caller'[c].at \in {"queue", "start", "answered", "failed"}
           \/ /\ caller'[c].at = "failing" /\ caller'[c].was = caller[c].at
              /\ caller[c].at \in {"spawn"} \cup Reading
    <3> USE DEF Placed, Moved, Broken, CallerAt
    <3>1. UNCHANGED <<child, spawned, current, counter, starting>>
      BY <2>1, RestingMoves
    <3>2. OthersStay(c) /\ calling' \in {calling, {c}, calling \ {c}}
      BY <2>1, RestingMoves
    <3>3. caller'[c].asked = caller[c].asked /\ caller'[c].from = caller[c].from
      BY <2>1, RestingMoves
    <3>4. \/ caller'[c].at \in {"queue", "start", "answered", "failed"}
          \/ /\ caller'[c].at = "failing" /\ caller'[c].was = caller[c].at
             /\ caller[c].at \in {"spawn"} \cup Reading
      BY <2>1, RestingMoves
    <3> QED BY <3>1, <3>2, <3>3, <3>4
  <2>3. calling' \in SUBSET Callers
    BY <1>1, <2>2
  <2>4. Numbered(c)'
    BY <1>1, <2>2 DEF Numbered, CallerAt, Reading, Handshake
  <2> QED BY <1>1, <1>2, <2>2, <2>3, <2>4, CallersStayNumbered DEF OthersStay
<1>4. CASE \E c \in Callers : Reads(c)
  <2>1. PICK c \in Callers : Reads(c)
    BY <1>4
  <2>2. /\ UNCHANGED <<spawned, current>> /\ CallerAt(c, Reading) /\ OthersStay(c)
        /\ child' \in [1..Processes -> ChildRow]
        /\ starting' \in {starting, {}} /\ calling' \in {calling, calling \ {c}}
        /\ \/ /\ counter' = counter
              /\ caller'[c].asked = caller[c].asked /\ caller'[c].from = caller[c].from
              /\ \/ caller'[c].at \in {caller[c].at, "answered"}
                 \/ caller'[c].at = "failing" /\ caller'[c].was = caller[c].at
           \/ /\ counter' = counter + 1
              /\ caller'[c].asked = counter + 1 /\ caller'[c].from = caller[c].from
              /\ caller'[c].at \in {"list", "read"}
    BY <2>1, ReadsMoves DEF Placed, Moved, Sent, Broken, Child
  <2>3. caller[c].from # 0 /\ caller[c].from <= spawned /\ caller[c].asked <= counter
    BY <1>1, <2>2 DEF Numbered
  <2>4. Numbered(c)'
    BY <1>2, <2>2, <2>3 DEF Numbered, CallerAt, Reading, Handshake
  <2>5. /\ starting' \in SUBSET Callers /\ calling' \in SUBSET Callers
        /\ counter' \in Nat /\ counter <= counter' /\ spawned' \in Nat /\ spawned <= spawned'
    BY <1>1, <1>2, <2>2
  <2> QED BY <1>1, <2>2, <2>4, <2>5, CallersStayNumbered DEF OthersStay
<1>5. CASE \E c \in Callers : Stops(c)
  <2>1. PICK c \in Callers : Stops(c)
    BY <1>5
  <2>2. /\ UNCHANGED <<spawned, counter>> /\ OthersStay(c)
        /\ child' \in [1..Processes -> ChildRow]
        /\ starting' \in {starting, {}, {c}} /\ calling' \in {calling, calling \ {c}}
        /\ current' \in {0, current}
        /\ caller'[c].asked = caller[c].asked /\ caller'[c].from = caller[c].from
        /\ caller'[c].at \in {"spawn", "failed"}
    BY <2>1, StopsMoves DEF Placed, Moved
  <2>3. Numbered(c)'
    BY <1>1, <2>2 DEF Numbered, CallerAt, Reading
  <2>4. /\ starting' \in SUBSET Callers /\ calling' \in SUBSET Callers
        /\ current' \in 0..spawned'
    BY <1>1, <1>2, <2>2
  <2> QED BY <1>1, <1>2, <2>2, <2>3, <2>4, CallersStayNumbered DEF OthersStay
<1>6. CASE \E c \in Callers : AsksFirst(c)
  <2>1. PICK c \in Callers : AsksFirst(c)
    BY <1>6
  <2>2. /\ UNCHANGED <<spawned, current, starting, calling>> /\ OthersStay(c)
        /\ child' \in [1..Processes -> ChildRow] /\ counter' = counter + 1
        /\ caller'[c].asked = counter + 1 /\ caller'[c].from = current
        /\ caller'[c].at = "read" /\ current \in 1..Processes
    BY <2>1, AskingMoves DEF Placed, Sent, Child
  <2>3. Numbered(c)'
    BY <1>1, <1>2, <2>2 DEF Numbered, CallerAt
  <2> QED BY <1>1, <1>2, <2>2, <2>3, CallersStayNumbered DEF OthersStay
<1>7. CASE \E c \in Callers : Spawn(c)
  <2>1. PICK c \in Callers : Spawn(c)
    BY <1>7
  <2>2. /\ UNCHANGED <<starting, calling>> /\ OthersStay(c)
        /\ child' \in [1..Processes -> ChildRow] /\ counter' = counter + 1
        /\ spawned' = spawned + 1 /\ current' = spawned + 1 /\ spawned + 1 \in 1..Processes
        /\ caller'[c].asked = counter + 1 /\ caller'[c].from = spawned + 1
        /\ caller'[c].at = "hello"
    BY <2>1, SpawnMoves DEF Placed, Sent
  <2>3. Numbered(c)'
    BY <1>1, <1>2, <2>2 DEF Numbered, CallerAt
  <2>4. spawned' \in 0..Processes /\ current' \in 0..spawned'
    BY <1>1, <1>2, <2>2
  <2> QED BY <1>1, <1>2, <2>2, <2>3, <2>4, CallersStayNumbered DEF OthersStay
<1>8. CASE \E p \in 1..Processes : ServerAnswers(p) \/ ServerUpset(p)
  <2>1. PICK p \in 1..Processes : ServerAnswers(p) \/ ServerUpset(p)
    BY <1>8
  <2>2. /\ UNCHANGED <<caller, spawned, current, started, counter, starting, calling>>
        /\ child' \in [1..Processes -> ChildRow]
    BY <2>1, ServerMoves DEF Child
  <2>3. \A c \in Callers : Numbered(c)'
    BY <1>1, <2>2 DEF Numbered, CallerAt
  <2> QED BY <1>1, <1>2, <2>2, <2>3
<1>9. CASE \E c \in Callers : Uncaught(c)
  <2>1. PICK c \in Callers : Uncaught(c)
    BY <1>9
  <2>2. /\ UNCHANGED <<spawned, current, counter>> /\ OthersStay(c)
        /\ child' \in [1..Processes -> ChildRow]
        /\ starting' = starting \ {c} /\ calling' = calling \ {c}
        /\ caller'[c].asked = caller[c].asked /\ caller'[c].from = caller[c].from
        /\ caller'[c].at = "uncaught"
    BY <2>1, UncaughtMoves DEF Placed, Moved, Child
  <2>3. Numbered(c)'
    BY <1>1, <2>2 DEF Numbered, CallerAt, Reading
  <2>4. starting' \in SUBSET Callers /\ calling' \in SUBSET Callers
    BY <1>1, <2>2
  <2> QED BY <1>1, <1>2, <2>2, <2>3, <2>4, CallersStayNumbered DEF OthersStay
<1> QED BY <1>1, <1>3, <1>4, <1>5, <1>6, <1>7, <1>8, <1>9, ChannelSteps

LEMMA ChannelTypesStay ==
  ASSUME ChannelInvariant, ChannelNext
  PROVE  ChannelIsTyped'
<1>1. started' \in BOOLEAN /\ upsets' \in Nat
  <2>1. started \in BOOLEAN /\ upsets \in Nat
    BY DEF ChannelInvariant, ChannelIsTyped
  <2>2. started' \in {started, TRUE, FALSE} /\ (upsets' = upsets \/ upsets' = upsets + 1)
    BY DEF ChannelNext, BeginCall, TakeCallLock, FindStarted, StopOld, Spawn, SpawnFails,
           Discard, HelloAnswered, ListAnswered, CallAnswered, EndOfOutput, Uncaught,
           CutShort, LeaveQueue, CallFails, StartFails, ServerAnswers, ServerUpset
  <2>3. upsets' \in Nat
    BY <2>1, <2>2
  <2>4. started' \in BOOLEAN
    BY <2>1, <2>2, Zenon
  <2> QED BY <2>3, <2>4
<1> QED BY <1>1, CallersNumbered DEF ChannelIsTyped, Numbered

\* The locks and the process, one caller at a time.
HoldsLocks(c) ==
  /\ InLock(c) => starting = {c}
  /\ AsksTool(c) => calling = {c} /\ caller[c].wants = "call"
  /\ caller[c].wants = "call" /\ (InLock(c) \/ CallerAt(c, {"start"})) => calling = {c}
HasProcess(c) ==
  /\ InLock(c) /\ ~Greets(c) => current = 0
  /\ Greets(c) => caller[c].from = current /\ current # 0
  /\ AsksTool(c) /\ caller[c].from = current /\ current # 0 => starting = {}

LEMMA LocksOfOthers ==
  ASSUME ChannelInvariant, NEW c \in Callers, NEW d \in Callers, c # d, OthersStay(c),
         \/ starting' = starting /\ current' = current
         \/ starting' = starting /\ current' = spawned + 1 /\ InLock(c)
         \/ starting' = {} /\ current' \in {current, 0} /\ InLock(c)
         \/ starting' = {c} /\ starting = {} /\ current' = 0
         \/ starting' = starting \ {c} /\ current' = current,
         \/ calling' \in {calling, calling \ {c}}
         \/ calling = {} /\ calling' = {c}
  PROVE  HoldsLocks(d)' /\ HasProcess(d)'
<1>1. HoldsLocks(c) /\ HoldsLocks(d) /\ HasProcess(d)
  BY DEF ChannelInvariant, LocksAreHeld, ProcessIsAtHand, HoldsLocks, HasProcess
<1>2. caller[d].from <= spawned /\ caller[d].from \in Nat /\ spawned \in Nat
  <2>1. caller[d].from <= spawned /\ spawned \in Nat /\ caller[d] \in CallerRow
    BY DEF ChannelInvariant, ChannelIsTyped
  <2> QED BY <2>1, CallerFields
<1>3. caller'[d] = caller[d]
  BY DEF OthersStay
<1>4. /\ InLock(d)' <=> InLock(d)
      /\ AsksTool(d)' <=> AsksTool(d)
      /\ Greets(d)' <=> Greets(d)
      /\ CallerAt(d, {"start"})' <=> CallerAt(d, {"start"})
  BY <1>3 DEF InLock, AsksTool, Greets, Stands, CallerAt
<1>5. Greets(d) => InLock(d)
  BY DEF InLock, Greets, Stands, Handshake
<1>6. InLock(d) => starting' = {d} /\ current' = current
  BY <1>1 DEF HoldsLocks
<1>7. HoldsLocks(d)'
  <2>1. calling = {d} => calling' = {d}
    OBVIOUS
  <2> QED BY <1>1, <1>3, <1>4, <1>6, <2>1 DEF HoldsLocks
<1>8. HasProcess(d)'
  <2>1. AsksTool(d) /\ caller[d].from = current' /\ current' # 0 => starting' = {}
    BY <1>1, <1>2 DEF HasProcess
  <2> QED BY <1>1, <1>3, <1>4, <1>5, <1>6, <2>1 DEF HasProcess
<1> QED BY <1>7, <1>8

LEMMA LocksStay ==
  ASSUME ChannelInvariant, ChannelNext
  PROVE  LocksAreHeld' /\ ProcessIsAtHand'
<1> SUFFICES /\ \A c \in Callers : HoldsLocks(c)' /\ HasProcess(c)'
             /\ \A p \in 1..Processes : child'[p].alive => p = current'
  BY DEF LocksAreHeld, ProcessIsAtHand, HoldsLocks, HasProcess
<1>1. /\ caller \in [Callers -> CallerRow]
      /\ \A c \in Callers : HoldsLocks(c) /\ HasProcess(c)
      /\ \A p \in 1..Processes : child[p].alive => p = current
  BY DEF ChannelInvariant, ChannelIsTyped, LocksAreHeld, ProcessIsAtHand, HoldsLocks, HasProcess
<1> USE DEF InLock, Greets, AsksTool, Stands, CallerAt, Handshake, Reading
<1>2. CASE \E c \in Callers : Resting(c)
  <2>1. PICK c \in Callers : Resting(c)
    BY <1>2
  <2>2. HoldsLocks(c) /\ HasProcess(c)
    BY <1>1
  <2>3. OthersStay(c)
    BY <2>1, RestingMoves DEF Placed, Moved, Broken
  <2>4. UNCHANGED <<child, spawned, current, counter, starting>>
    BY <2>1, RestingMoves
  <2>5. calling' \in {calling, calling \ {c}} \/ (calling = {} /\ calling' = {c})
    BY <2>1, RestingMoves
  <2>6. HoldsLocks(c)' /\ HasProcess(c)'
    <3>1. CASE /\ UNCHANGED <<started, calling>> /\ CallerAt(c, {"idle"})
               /\ Placed(c, "queue", "call") \/ Placed(c, "start", "tools")
      BY <3>1 DEF Placed, HoldsLocks, HasProcess
    <3>2. CASE CallerAt(c, {"queue"}) /\ Moved(c, "start") /\ calling = {} /\ calling' = {c}
      BY <3>2 DEF Placed, Moved, HoldsLocks, HasProcess
    <3>3. CASE Moved(c, "answered") \/ Moved(c, "failed")
      BY <3>3 DEF Placed, Moved, HoldsLocks, HasProcess
    <3>4. CASE UNCHANGED calling /\ CallerAt(c, {"spawn"} \cup Reading) /\ Broken(c)
      BY <2>2, <2>4, <3>4 DEF Placed, Moved, Broken, HoldsLocks, HasProcess
    <3> QED BY <2>1, <3>1, <3>2, <3>3, <3>4, RestingMoves
  <2>7. \A d \in Callers : HoldsLocks(d)' /\ HasProcess(d)'
    <3> TAKE d \in Callers
    <3>1. CASE d # c
      BY <2>3, <2>4, <2>5, <3>1, LocksOfOthers
    <3> QED BY <2>6, <3>1
  <2> QED BY <1>1, <2>4, <2>7
<1>3. CASE \E c \in Callers : Reads(c)
  <2>1. PICK c \in Callers : Reads(c)
    BY <1>3
  <2>2. HoldsLocks(c) /\ HasProcess(c)
    BY <1>1
  <2>3. OthersStay(c) /\ current' = current
    BY <2>1, ReadsMoves DEF Placed, Moved, Broken, Sent
  <2>4. /\ calling' \in {calling, calling \ {c}}
        /\ starting' = starting \/ (starting' = {} /\ InLock(c))
    BY <2>1, ReadsMoves
  <2>5. \A p \in 1..Processes : child'[p].alive => p = current'
    <3>1. \A p \in 1..Processes : child'[p].alive = child[p].alive
      <4>1. PICK owes, output : Child(caller[c].from, owes, output)
        BY <2>1, ReadsMoves
      <4> QED BY <4>1 DEF Child
    <3> QED BY <1>1, <2>3, <3>1
  <2>6. HoldsLocks(c)' /\ HasProcess(c)'
    <3>1. CASE UNCHANGED <<starting, calling>> /\ (Broken(c) \/ (Moved(c, caller[c].at) /\
               caller'[c].was = caller[c].was)) /\ CallerAt(c, Reading)
      BY <2>2, <2>3, <3>1 DEF Placed, Moved, Broken, HoldsLocks, HasProcess
    <3>2. CASE UNCHANGED <<starting, calling>> /\ CallerAt(c, {"hello"})
               /\ Sent(c, "list", caller[c].from)
      BY <2>2, <2>3, <3>2 DEF Placed, Sent, HoldsLocks, HasProcess
    <3>3. CASE /\ UNCHANGED calling /\ starting' = {} /\ Sent(c, "read", caller[c].from)
               /\ CallerAt(c, {"list"}) /\ caller[c].wants = "call"
      BY <2>2, <2>3, <3>3 DEF Placed, Sent, HoldsLocks, HasProcess
    <3>4. CASE Moved(c, "answered")
      BY <3>4 DEF Placed, Moved, HoldsLocks, HasProcess
    <3> QED BY <2>1, <3>1, <3>2, <3>3, <3>4, ReadsMoves
  <2>7. \A d \in Callers : HoldsLocks(d)' /\ HasProcess(d)'
    <3> TAKE d \in Callers
    <3>1. CASE d # c
      BY <2>3, <2>4, <3>1, LocksOfOthers
    <3> QED BY <2>6, <3>1
  <2> QED BY <2>5, <2>7
<1>4. CASE \E c \in Callers : Stops(c)
  <2>1. PICK c \in Callers : Stops(c)
    BY <1>4
  <2>2. HoldsLocks(c)
    BY <1>1
  <2>3. /\ OthersStay(c) /\ calling' \in {calling, calling \ {c}}
        /\ \/ starting' = starting /\ current' = current
           \/ starting' = {} /\ current' = 0 /\ InLock(c)
           \/ starting' = {c} /\ starting = {} /\ current' = 0
    BY <2>1, StopsMoves DEF Placed, Moved
  <2>4. \A p \in 1..Processes : child'[p].alive => p = current'
    BY <2>1, StopsMoves
  <2>5. HoldsLocks(c)' /\ HasProcess(c)'
    <3>1. CASE /\ CallerAt(c, {"start"}) /\ starting' = {c} /\ current' = 0
               /\ UNCHANGED calling /\ Moved(c, "spawn")
      BY <2>2, <3>1 DEF Placed, Moved, HoldsLocks, HasProcess
    <3>2. CASE Moved(c, "failed")
      BY <3>2 DEF Placed, Moved, HoldsLocks, HasProcess
    <3> QED BY <2>1, <3>1, <3>2, StopsMoves
  <2>6. \A d \in Callers : HoldsLocks(d)' /\ HasProcess(d)'
    <3> TAKE d \in Callers
    <3>1. CASE d # c
      BY <2>3, <3>1, LocksOfOthers
    <3> QED BY <2>5, <3>1
  <2> QED BY <2>4, <2>6
<1>5. CASE \E c \in Callers : AsksFirst(c)
  <2>1. PICK c \in Callers : AsksFirst(c)
    BY <1>5
  <2>2. HoldsLocks(c)
    BY <1>1
  <2>3. /\ CallerAt(c, {"start"}) /\ caller[c].wants = "call" /\ starting = {}
        /\ UNCHANGED <<current, starting, calling>> /\ Sent(c, "read", current) /\ OthersStay(c)
    BY <2>1, AskingMoves DEF Sent, Placed
  <2>4. \A p \in 1..Processes : child'[p].alive => p = current'
    <3>1. \A p \in 1..Processes : child'[p].alive = child[p].alive
      BY <2>1, AskingMoves DEF Child
    <3> QED BY <1>1, <2>3, <3>1
  <2>5. HoldsLocks(c)' /\ HasProcess(c)'
    BY <2>2, <2>3 DEF Placed, Sent, HoldsLocks, HasProcess
  <2>6. \A d \in Callers : HoldsLocks(d)' /\ HasProcess(d)'
    <3> TAKE d \in Callers
    <3>1. CASE d # c
      BY <2>3, <3>1, LocksOfOthers
    <3> QED BY <2>5, <3>1
  <2> QED BY <2>4, <2>6
<1>6. CASE \E c \in Callers : Spawn(c)
  <2>1. PICK c \in Callers : Spawn(c)
    BY <1>6
  <2>2. HoldsLocks(c)
    BY <1>1
  <2>3. /\ CallerAt(c, {"spawn"}) /\ current' = spawned + 1 /\ spawned + 1 # 0
        /\ UNCHANGED <<starting, calling>> /\ Sent(c, "hello", spawned + 1) /\ OthersStay(c)
    BY <2>1, SpawnMoves DEF Sent, Placed
  <2>4. \A p \in 1..Processes : child'[p].alive => p = current'
    BY <2>1, SpawnMoves
  <2>5. HoldsLocks(c)' /\ HasProcess(c)'
    BY <2>2, <2>3 DEF Placed, Sent, HoldsLocks, HasProcess
  <2>6. \A d \in Callers : HoldsLocks(d)' /\ HasProcess(d)'
    <3> TAKE d \in Callers
    <3>1. CASE d # c
      BY <2>3, <3>1, LocksOfOthers
    <3> QED BY <2>5, <3>1
  <2> QED BY <2>4, <2>6
<1>7. CASE \E p \in 1..Processes : ServerAnswers(p) \/ ServerUpset(p)
  <2>1. PICK p \in 1..Processes : ServerAnswers(p) \/ ServerUpset(p)
    BY <1>7
  <2>2. UNCHANGED <<caller, current, starting, calling>>
    BY <2>1, ServerMoves
  <2>3. \A q \in 1..Processes : child'[q].alive => child[q].alive
    BY <2>1, ServerMoves DEF Child
  <2>4. \A d \in Callers : HoldsLocks(d)' /\ HasProcess(d)'
    BY <1>1, <2>2 DEF HoldsLocks, HasProcess
  <2> QED BY <1>1, <2>2, <2>3, <2>4
<1>8. CASE \E c \in Callers : Uncaught(c)
  <2>1. PICK c \in Callers : Uncaught(c)
    BY <1>8
  <2>2. /\ OthersStay(c) /\ current' = current /\ Moved(c, "uncaught")
        /\ starting' = starting \ {c} /\ calling' = calling \ {c}
    BY <2>1, UncaughtMoves DEF Placed, Moved
  <2>3. \A p \in 1..Processes : child'[p].alive => p = current'
    <3>1. PICK output : Child(caller[c].from, child[caller[c].from].owes, output)
      BY <2>1, UncaughtMoves
    <3>2. \A p \in 1..Processes : child'[p].alive = child[p].alive
      BY <3>1 DEF Child
    <3> QED BY <1>1, <2>2, <3>2
  <2>4. HoldsLocks(c)' /\ HasProcess(c)'
    BY <2>2 DEF Placed, Moved, HoldsLocks, HasProcess
  <2>5. \A d \in Callers : HoldsLocks(d)' /\ HasProcess(d)'
    <3> TAKE d \in Callers
    <3>1. CASE d # c
      BY <2>2, <3>1, LocksOfOthers
    <3> QED BY <2>4, <3>1
  <2> QED BY <2>3, <2>5
<1> QED BY <1>1, <1>2, <1>3, <1>4, <1>5, <1>6, <1>7, <1>8, ChannelSteps

\* One process and what it has unread, before and after a step: whoever awaits an answer
\* that is left still awaits it.
Held(p) ==
  child[p].alive =>
    /\ Once(child[p].owes, child[p].output)
    /\ \A id \in Unread(child[p].owes, child[p].output) :
         id <= counter /\ \E c \in Callers : Awaits(c, p, id)

LEMMA AwaitedStays ==
  ASSUME ChannelInvariant, NEW c \in Callers, NEW p \in 1..Processes, OthersStay(c),
         counter' \in Nat, counter <= counter', child[p].alive,
         NEW left \in SUBSET Unread(child[p].owes, child[p].output),
         \A id \in left : Awaits(c, p, id) => Awaits(c, p, id)'
  PROVE  \A id \in left : id <= counter' /\ \E d \in Callers : Awaits(d, p, id)'
<1> TAKE id \in left
<1>1. PICK d \in Callers : Awaits(d, p, id) /\ id <= counter
  BY DEF ChannelInvariant, AnswersAreAwaited
<1>2. id \in Nat /\ counter \in Nat
  <2>1. caller[d] \in CallerRow /\ caller[d].asked = id /\ counter \in Nat
    BY <1>1 DEF ChannelInvariant, ChannelIsTyped, Awaits
  <2> QED BY <2>1, CallerFields
<1>3. Awaits(d, p, id)'
  <2>1. CASE d = c
    BY <1>1, <2>1
  <2>2. CASE d # c
    BY <1>1, <2>2 DEF Awaits, OthersStay, CallerAt
  <2> QED BY <2>1, <2>2
<1> QED BY <1>1, <1>2, <1>3

LEMMA AnswersStay ==
  ASSUME ChannelInvariant, ChannelNext
  PROVE  AnswersAreAwaited'
<1> SUFFICES \A p \in 1..Processes : Held(p)'
  BY DEF AnswersAreAwaited, Held
<1>1. /\ caller \in [Callers -> CallerRow] /\ child \in [1..Processes -> ChildRow]
      /\ counter \in Nat /\ counter + 1 \in Nat /\ counter <= counter + 1 /\ counter <= counter
      /\ counter + 1 <= counter + 1 /\ counter + 1 # 0
      /\ \A p \in 1..Processes : Held(p)
      /\ \A p \in 1..Processes : child[p].alive => p = current
  BY DEF ChannelInvariant, ChannelIsTyped, ProcessIsAtHand, AnswersAreAwaited, Held
<1>2. \A p \in 1..Processes : /\ child[p].owes \in SUBSET Nat /\ child[p].output \in Seq(Nat)
                              /\ Unread(child[p].owes, child[p].output) \in SUBSET Nat
  <2> TAKE p \in 1..Processes
  <2>1. child[p] \in ChildRow
    BY <1>1
  <2>2. child[p].owes \in SUBSET Nat /\ child[p].output \in Seq(Nat)
    BY <2>1, ChildFields
  <2> QED BY <2>2 DEF Unread
<1>3. CASE \E c \in Callers : Resting(c)
  <2>1. PICK c \in Callers : Resting(c)
    BY <1>3
  <2>2. UNCHANGED <<child, counter>>
    BY <2>1, RestingMoves
  <2>3. OthersStay(c)
    BY <2>1, RestingMoves DEF Placed, Moved, Broken
  <2>4. \A p, id : Awaits(c, p, id) => Awaits(c, p, id)'
    <3>1. \/ CallerAt(c, {"idle", "queue", "start"})
          \/ Broken(c)
      BY <2>1, RestingMoves DEF CallerAt
    <3> QED BY <3>1 DEF Awaits, CallerAt, Broken, Moved, Placed, Reading
  <2>5. ASSUME NEW p \in 1..Processes
        PROVE  Held(p)'
    <3>1. CASE ~child[p].alive
      BY <2>2, <3>1 DEF Held
    <3>2. CASE child[p].alive
      BY <1>1, <2>2, <2>3, <2>4, <3>2, AwaitedStays DEF Held
    <3> QED BY <3>1, <3>2
  <2> QED BY <2>5
<1>4. CASE \E c \in Callers : Stops(c)
  BY <1>4, StopsMoves DEF Held
<1>5. CASE \E c \in Callers : Reads(c)
  <2>1. PICK c \in Callers : Reads(c)
    BY <1>5
  <2>2. PICK p \in 1..Processes : p = caller[c].from
    BY <2>1, ReadsMoves, ReaderKnows
  <2>3. PICK n, owes, output : n = counter + 1 /\ owes = child[p].owes /\ output = child[p].output
    OBVIOUS
  <2>4. /\ n \in Nat /\ counter < n /\ n # 0 /\ n <= n /\ counter <= n
        /\ owes \in SUBSET Nat /\ output \in Seq(Nat) /\ output # << >> /\ Line(c) = Head(output)
    <3>1. HasLine(c)
      BY <2>1, ReadsMoves
    <3>2. output # << >> /\ Line(c) = Head(output)
      BY <2>2, <2>3, <3>1 DEF HasLine, Line
    <3>3. owes \in SUBSET Nat /\ output \in Seq(Nat)
      BY <1>2, <2>3
    <3>4. n \in Nat /\ counter < n /\ n # 0 /\ n <= n /\ counter <= n
      BY <1>1, <2>3
    <3> QED BY <3>2, <3>3, <3>4
  <2>5. /\ \/ UNCHANGED counter /\ Child(p, owes, Tail(output))
              /\ (Moved(c, caller[c].at) \/ Broken(c))
           \/ /\ UNCHANGED counter /\ Child(p, owes, Tail(output))
              /\ Line(c) = caller[c].asked /\ Moved(c, "answered")
           \/ /\ Child(p, owes \cup {n}, Tail(output)) /\ Line(c) = caller[c].asked
              /\ Sent(c, "list", p) \/ Sent(c, "read", p)
        /\ CallerAt(c, Reading)
    BY <2>1, <2>2, <2>3, ReadsMoves
  <2>6. /\ OthersStay(c) /\ (counter' = counter \/ counter' = n)
        /\ \A q \in 1..Processes \ {p} : child'[q] = child[q]
        /\ child'[p].alive = child[p].alive
    BY <2>3, <2>5 DEF Placed, Moved, Broken, Sent, Child
  <2>7. counter' \in Nat /\ counter <= counter'
    BY <1>1, <2>4, <2>6
  <2>8. ASSUME child[p].alive
        PROVE  Held(p)'
    <3>1. Once(owes, output) /\ \A id \in Unread(owes, output) : id <= counter
      BY <1>1, <2>3, <2>8 DEF Held
    <3>2. /\ Tail(output) \in Seq(Nat) /\ Once(owes, Tail(output))
          /\ Unread(owes, Tail(output)) \subseteq Unread(owes, output)
          /\ Line(c) \notin Unread(owes, Tail(output))
      BY <2>4, <3>1, LineTaken
    <3>3. PICK left : left = Unread(owes, Tail(output))
      OBVIOUS
    <3>4. left \in SUBSET Unread(child[p].owes, child[p].output)
      BY <2>3, <3>2, <3>3
    <3>5. ASSUME \A id \in left : Awaits(c, p, id) => Awaits(c, p, id)'
          PROVE  \A id \in left : id <= counter' /\ \E d \in Callers : Awaits(d, p, id)'
      BY <2>6, <2>7, <2>8, <3>4, <3>5, AwaitedStays
    <3>6. CASE /\ UNCHANGED counter /\ Child(p, owes, Tail(output))
               /\ Moved(c, caller[c].at) \/ Broken(c)
      <4>1. \A id \in left : Awaits(c, p, id) => Awaits(c, p, id)'
        BY <3>6 DEF Awaits, CallerAt, Broken, Moved, Placed
      <4>2. \A id \in left : id <= counter' /\ \E d \in Callers : Awaits(d, p, id)'
        BY <3>5, <4>1
      <4> QED BY <3>2, <3>3, <3>6, <4>2 DEF Held, Child
    <3>7. CASE /\ UNCHANGED counter /\ Child(p, owes, Tail(output))
               /\ Line(c) = caller[c].asked
      <4>1. \A id \in left : ~Awaits(c, p, id)
        BY <3>2, <3>3, <3>7 DEF Awaits
      <4>2. \A id \in left : id <= counter' /\ \E d \in Callers : Awaits(d, p, id)'
        BY <3>5, <4>1
      <4> QED BY <3>2, <3>3, <3>7, <4>2 DEF Held, Child
    <3>8. CASE /\ Child(p, owes \cup {n}, Tail(output)) /\ Line(c) = caller[c].asked
               /\ Sent(c, "list", p) \/ Sent(c, "read", p)
      <4>1. \A id \in left : ~Awaits(c, p, id)
        BY <3>2, <3>3, <3>8 DEF Awaits
      <4>2. \A id \in left : id <= counter' /\ \E d \in Callers : Awaits(d, p, id)'
        BY <3>5, <4>1
      <4>3. counter' = n /\ Awaits(c, p, n)'
        BY <2>3, <3>8 DEF Awaits, CallerAt, Sent, Placed, Reading
      <4>4. n \notin Unread(owes, Tail(output))
        BY <1>1, <2>3, <3>1, <3>2
      <4>5. /\ Once(owes \cup {n}, Tail(output))
            /\ Unread(owes \cup {n}, Tail(output)) = left \cup {n}
        <5>1. PICK tail : tail = Tail(output)
          OBVIOUS
        <5>2. tail \in Seq(Nat) /\ Once(owes, tail) /\ n \notin Unread(owes, tail)
          BY <3>2, <4>4, <5>1
        <5>3. /\ Once(owes \cup {n}, tail)
              /\ Unread(owes \cup {n}, tail) = Unread(owes, tail) \cup {n}
          BY <2>4, <5>2, RequestAsked
        <5> QED BY <3>3, <5>1, <5>3
      <4>6. \A id \in left \cup {n} : id <= counter' /\ \E d \in Callers : Awaits(d, p, id)'
        BY <2>4, <4>2, <4>3
      <4> QED BY <3>8, <4>5, <4>6 DEF Held, Child
    <3> QED BY <2>5, <3>6, <3>7, <3>8
  <2>9. ASSUME NEW q \in 1..Processes, q # p
        PROVE  Held(q)'
    <3>1. CASE ~child[q].alive
      BY <2>6, <2>9, <3>1 DEF Held
    <3>2. CASE child[q].alive
      <4>1. \A id : ~Awaits(c, q, id)
        BY <2>2, <2>9 DEF Awaits
      <4>2. PICK left : left = Unread(child[q].owes, child[q].output)
        OBVIOUS
      <4>3. \A id \in left : id <= counter' /\ \E d \in Callers : Awaits(d, q, id)'
        BY <2>6, <2>7, <3>2, <4>1, <4>2, AwaitedStays
      <4>4. child'[q] = child[q]
        BY <2>6, <2>9
      <4> QED BY <1>1, <3>2, <4>2, <4>3, <4>4 DEF Held
    <3> QED BY <3>1, <3>2
  <2>10. ASSUME ~child[p].alive
         PROVE  Held(p)'
    BY <2>6, <2>10 DEF Held
  <2> QED BY <2>8, <2>9, <2>10
<1>6. CASE \E c \in Callers : AsksFirst(c)
  <2>1. PICK c \in Callers : AsksFirst(c)
    BY <1>6
  <2>2. PICK p \in 1..Processes : p = current
    BY <2>1, AskingMoves
  <2>3. PICK n, owes, output : n = counter + 1 /\ owes = child[p].owes /\ output = child[p].output
    OBVIOUS
  <2>4. /\ CallerAt(c, {"start"}) /\ Sent(c, "read", p)
        /\ Child(p, owes \cup {n}, output)
    BY <2>1, <2>2, <2>3, AskingMoves
  <2>5. /\ OthersStay(c) /\ counter' = n /\ Awaits(c, p, n)' /\ n \in Nat /\ n <= n
        /\ counter <= n /\ n # 0 /\ owes \in SUBSET Nat /\ output \in Seq(Nat)
    BY <1>1, <1>2, <2>3, <2>4 DEF Sent, Placed, Awaits, CallerAt, Reading
  <2>6. ASSUME child[p].alive
        PROVE  Held(p)'
    <3>1. Once(owes, output) /\ \A id \in Unread(owes, output) : id <= counter
      BY <1>1, <2>3, <2>6 DEF Held
    <3>2. PICK left : left = Unread(owes, output)
      OBVIOUS
    <3>3. \A id \in left : ~Awaits(c, p, id)
      BY <2>4 DEF Awaits, CallerAt, Reading
    <3>4. \A id \in left : id <= counter' /\ \E d \in Callers : Awaits(d, p, id)'
      <4>1. left \in SUBSET Unread(child[p].owes, child[p].output)
        BY <2>3, <3>2
      <4> QED BY <2>5, <2>6, <3>3, <4>1, AwaitedStays
    <3>5. n \notin Unread(owes, output)
      BY <1>1, <2>3, <3>1
    <3>6. /\ Once(owes \cup {n}, output)
          /\ Unread(owes \cup {n}, output) = left \cup {n}
      <4>1. /\ owes \in SUBSET Nat /\ output \in Seq(Nat) /\ Once(owes, output)
            /\ n \in Nat /\ n # 0
        BY <2>5, <3>1
      <4>2. /\ Once(owes \cup {n}, output)
            /\ Unread(owes \cup {n}, output) = Unread(owes, output) \cup {n}
        BY <3>5, <4>1 DEF Once, Unread
      <4> QED BY <3>2, <4>2
    <3>7. \A id \in left \cup {n} : id <= counter' /\ \E d \in Callers : Awaits(d, p, id)'
      BY <2>5, <3>4
    <3> QED BY <2>4, <3>6, <3>7 DEF Held, Child
  <2>7. \A q \in 1..Processes : child'[q].alive => q = p
    BY <1>1, <2>2, <2>4 DEF Child
  <2>8. child'[p].alive = child[p].alive
    BY <2>4 DEF Child
  <2> QED BY <2>6, <2>7, <2>8 DEF Held
<1>7. CASE \E c \in Callers : Spawn(c)
  <2>1. PICK c \in Callers : Spawn(c)
    BY <1>7
  <2>2. PICK p, n : p = spawned + 1 /\ n = counter + 1
    OBVIOUS
  <2>3. /\ Sent(c, "hello", p)
        /\ \A q \in 1..Processes : child'[q].alive => q = p
        /\ child'[p].owes = {n} /\ child'[p].output = << >>
    BY <2>1, <2>2, SpawnMoves
  <2>4. Awaits(c, p, n)' /\ counter' = n /\ n <= n /\ n # 0
    BY <1>1, <2>2, <2>3 DEF Awaits, CallerAt, Sent, Placed, Reading
  <2>5. Once({n}, << >>) /\ Unread({n}, << >>) = {n}
    BY <2>4 DEF Once, Unread
  <2> QED BY <2>3, <2>4, <2>5 DEF Held
<1>8. CASE \E p \in 1..Processes : ServerAnswers(p) \/ ServerUpset(p)
  <2>1. PICK p \in 1..Processes : ServerAnswers(p) \/ ServerUpset(p)
    BY <1>8
  <2>2. UNCHANGED <<caller, counter>>
    BY <2>1, ServerMoves
  <2>3. \A c \in Callers : \A q, id : Awaits(c, q, id) => Awaits(c, q, id)'
    BY <2>2 DEF Awaits, CallerAt
  <2>4. ASSUME NEW q \in 1..Processes, q # p
        PROVE  Held(q)'
    <3>1. child'[q] = child[q]
      BY <2>1, <2>4, ServerMoves DEF Child
    <3> QED BY <1>1, <2>2, <2>3, <3>1 DEF Held
  <2>5. CASE ~child'[p].alive
    BY <2>4, <2>5 DEF Held
  <2>6. CASE child'[p].alive
    <3>1. PICK line \in child[p].owes \cup {0} :
            Child(p, child[p].owes \ {line}, Append(child[p].output, line))
      BY <2>1, <2>6, ServerMoves
    <3>2. child[p].alive
      BY <2>6, <3>1 DEF Child
    <3>3. /\ Once(child[p].owes, child[p].output)
          /\ \A id \in Unread(child[p].owes, child[p].output) :
               id <= counter /\ \E c \in Callers : Awaits(c, p, id)
      BY <1>1, <3>2 DEF Held
    <3>4. line \in Nat
      BY <1>2, <3>1
    <3>5. /\ Once(child[p].owes \ {line}, Append(child[p].output, line))
          /\ Unread(child[p].owes \ {line}, Append(child[p].output, line))
               = Unread(child[p].owes, child[p].output)
      BY <1>2, <3>1, <3>3, <3>4, LineWritten
    <3>6. Held(p)'
      BY <2>2, <2>3, <3>1, <3>3, <3>5 DEF Held, Child
    <3> QED BY <2>4, <3>6
  <2> QED BY <2>5, <2>6
<1>9. CASE \E c \in Callers : Uncaught(c)
  <2>1. PICK c \in Callers : Uncaught(c)
    BY <1>9
  <2>2. PICK p \in 1..Processes : p = caller[c].from
    BY <2>1, UncaughtMoves, ReaderKnows
  <2>3. PICK owes, tail, output :
          /\ owes = child[p].owes /\ tail = Tail(child[p].output)
          /\ output \in {tail, <<0>> \o tail} /\ Child(p, owes, output)
    BY <2>1, <2>2, UncaughtMoves
  <2>4. /\ counter' = counter /\ OthersStay(c) /\ HasLine(c)
        /\ \A q, id : Awaits(c, q, id) => Awaits(c, q, id)'
    BY <2>1, UncaughtMoves DEF Awaits, CallerAt, Moved, Placed
  <2>5. ASSUME child[p].alive
        PROVE  Held(p)'
    <3>1. Once(owes, child[p].output) /\ child[p].output # << >>
      BY <1>1, <2>2, <2>3, <2>4, <2>5 DEF Held, HasLine
    <3>2. /\ tail \in Seq(Nat) /\ Once(owes, tail)
          /\ Unread(owes, tail) \subseteq Unread(owes, child[p].output)
      BY <1>2, <2>3, <3>1, LineTaken
    <3>3. owes \in SUBSET Nat
      BY <1>2, <2>3
    <3>4. PICK left : left = Unread(owes, tail)
      OBVIOUS
    <3>5. Once(owes, output) /\ Unread(owes, output) = left
      BY <2>3, <3>2, <3>3, <3>4, LineCut
    <3>6. left \in SUBSET Unread(child[p].owes, child[p].output)
      BY <2>3, <3>2, <3>4
    <3>7. \A id \in left : id <= counter' /\ \E d \in Callers : Awaits(d, p, id)'
      BY <1>1, <2>4, <2>5, <3>6, AwaitedStays
    <3> QED BY <2>3, <3>5, <3>7 DEF Held, Child
  <2>6. ASSUME NEW q \in 1..Processes, q # p
        PROVE  Held(q)'
    <3>1. child'[q] = child[q]
      BY <2>3, <2>6 DEF Child
    <3>2. CASE child[q].alive
      BY <1>1, <2>4, <3>1, <3>2, AwaitedStays DEF Held
    <3> QED BY <3>1, <3>2 DEF Held
  <2>7. ASSUME ~child[p].alive
        PROVE  Held(p)'
    BY <2>3, <2>7 DEF Held, Child
  <2> QED BY <2>5, <2>6, <2>7
<1> QED BY <1>1, <1>3, <1>4, <1>5, <1>6, <1>7, <1>8, <1>9, ChannelSteps

\* The output of a process has one reader.
LEMMA OneReader ==
  ASSUME ChannelInvariant, NEW p \in 1..Processes, NEW c \in Readers(p), NEW d \in Readers(p)
  PROVE  c = d
<1>1. /\ c \in Callers /\ d \in Callers /\ caller[c].from = p /\ caller[d].from = p
      /\ Greets(c) \/ AsksTool(c)
      /\ Greets(d) \/ AsksTool(d)
  BY DEF Readers, Greets, AsksTool, Stands, CallerAt, Reading
<1>2. p # 0
  OBVIOUS
<1>3. ASSUME NEW e \in Callers
      PROVE  /\ Greets(e) => starting = {e} /\ caller[e].from = current /\ current # 0
             /\ AsksTool(e) => calling = {e}
             /\ AsksTool(e) /\ caller[e].from = current /\ current # 0 => starting = {}
  BY DEF ChannelInvariant, LocksAreHeld, ProcessIsAtHand, InLock, Greets, Stands, Handshake
<1> QED BY <1>1, <1>2, <1>3

\* Whoever else reads keeps its answer while nobody but it takes lines of its process.
LEMMA OwedToOthers ==
  ASSUME ChannelInvariant, NEW c \in Callers, OthersStay(c),
         NEW d \in Callers, d # c, IsOwed(d),
         LET p == caller[d].from IN
         CallerAt(d, Reading) /\ child'[p].alive =>
           /\ child[p].alive
           /\ Unread(child[p].owes, child[p].output)
                \subseteq Unread(child'[p].owes, child'[p].output)
  PROVE  IsOwed(d)'
<1>1. caller'[d] = caller[d]
  BY DEF OthersStay
<1> QED BY <1>1 DEF IsOwed, CallerAt

LEMMA ReadersStay ==
  ASSUME ChannelInvariant, ChannelNext
  PROVE  \A c \in Callers : IsOwed(c)'
<1>1. /\ caller \in [Callers -> CallerRow] /\ child \in [1..Processes -> ChildRow]
      /\ spawned \in Nat
      /\ \A c \in Callers : IsOwed(c) /\ caller[c].from <= spawned /\ caller[c].from \in Nat
      /\ \A c \in Callers : CallerAt(c, Reading) => caller[c].from \in 1..Processes
      /\ \A p \in 1..Processes : child[p].alive => Once(child[p].owes, child[p].output)
  <2>1. /\ \A c \in Callers : caller[c] \in CallerRow /\ caller[c].from <= spawned
        /\ spawned \in 0..Processes
    BY DEF ChannelInvariant, ChannelIsTyped
  <2>2. \A c \in Callers : caller[c].from \in Nat
    BY <2>1, CallerFields
  <2> QED BY <2>1, <2>2, ReaderKnows DEF ChannelInvariant, ChannelIsTyped, AnswersAreAwaited
<1>2. \A p \in 1..Processes : child[p].owes \in SUBSET Nat /\ child[p].output \in Seq(Nat)
  <2> TAKE p \in 1..Processes
  <2>1. child[p] \in ChildRow
    BY <1>1
  <2> QED BY <2>1, ChildFields
<1>3. CASE \E c \in Callers : Resting(c)
  <2>1. PICK c \in Callers : Resting(c)
    BY <1>3
  <2>2. /\ child' = child /\ OthersStay(c)
        /\ caller'[c].at \in {"queue", "start", "answered", "failed", "failing"}
    BY <2>1, RestingMoves DEF Placed, Moved, Broken
  <2>3. IsOwed(c)'
    BY <2>2 DEF IsOwed, CallerAt, Reading
  <2> QED BY <1>1, <2>2, <2>3, OwedToOthers
<1>4. CASE \E c \in Callers : Stops(c)
  <2>1. PICK c \in Callers : Stops(c)
    BY <1>4
  <2>2. /\ \A p \in 1..Processes : ~child'[p].alive
        /\ OthersStay(c) /\ caller'[c].at \in {"spawn", "failed"}
    BY <2>1, StopsMoves DEF Placed, Moved
  <2>3. IsOwed(c)'
    BY <2>2 DEF IsOwed, CallerAt, Reading
  <2> QED BY <1>1, <2>2, <2>3, OwedToOthers
<1>5. CASE \E c \in Callers : Reads(c) \/ Uncaught(c)
  <2>1. PICK c \in Callers : Reads(c) \/ Uncaught(c)
    BY <1>5
  <2>2. CallerAt(c, Reading) /\ HasLine(c) /\ OthersStay(c)
    BY <2>1, ReadsMoves, UncaughtMoves DEF Placed, Moved, Broken, Sent
  <2>3. PICK p \in 1..Processes : p = caller[c].from
    BY <1>1, <2>2
  <2>4. /\ \A q \in 1..Processes \ {p} : child'[q] = child[q]
        /\ child'[p].alive = child[p].alive
    <3>1. PICK owes, output : Child(p, owes, output)
      BY <2>1, <2>3, ReadsMoves, UncaughtMoves
    <3> QED BY <3>1 DEF Child
  <2>5. ASSUME NEW d \in Callers, d # c
        PROVE  IsOwed(d)'
    <3>1. CallerAt(d, Reading) => caller[d].from \in 1..Processes \ {p}
      <4>1. CallerAt(d, Reading) /\ caller[d].from = p => c \in Readers(p) /\ d \in Readers(p)
        BY <2>2, <2>3 DEF Readers
      <4> QED BY <1>1, <2>5, <4>1, OneReader
    <3> QED BY <1>1, <2>2, <2>4, <2>5, <3>1, OwedToOthers
  <2>6. IsOwed(c)'
    <3>1. CASE Uncaught(c)
      BY <3>1, UncaughtMoves DEF Moved, Placed, IsOwed, CallerAt, Reading
    <3>2. CASE Reads(c)
      <4> DEFINE owes == child[p].owes
                 tail == Tail(child[p].output)
      <4>1. CASE /\ Line(c) # caller[c].asked /\ Child(p, owes, tail)
                 /\ Moved(c, caller[c].at)
        <5>1. ASSUME child[p].alive
              PROVE  caller[c].asked \in Unread(owes, tail)
          <6>1. caller[c].asked \in Unread(owes, child[p].output)
            BY <1>1, <2>2, <2>3, <5>1 DEF IsOwed
          <6>2. child[p].output # << >> /\ Line(c) = Head(child[p].output)
            BY <2>2, <2>3 DEF HasLine, Line
          <6>3. /\ owes \in SUBSET Nat /\ child[p].output \in Seq(Nat)
                /\ Once(owes, child[p].output)
            BY <1>1, <1>2, <5>1
          <6>4. Unread(owes, child[p].output)
                  \subseteq Unread(owes, tail) \cup {Head(child[p].output)}
            BY <6>2, <6>3, LineTaken
          <6> QED BY <4>1, <6>1, <6>2, <6>4
        <5> QED BY <2>3, <4>1, <5>1 DEF IsOwed, Moved, Placed, Child
      <4>2. CASE /\ Sent(c, "list", p) \/ Sent(c, "read", p)
                 /\ Child(p, owes \cup {counter + 1}, tail)
        BY <4>2 DEF IsOwed, Sent, Child, Unread
      <4>3. CASE Moved(c, "answered") \/ Broken(c)
        BY <4>3 DEF IsOwed, Broken, Moved, Placed, CallerAt, Reading
      <4> QED BY <2>3, <3>2, <4>1, <4>2, <4>3, ReadsMoves
    <3> QED BY <2>1, <3>1, <3>2
  <2> QED BY <2>5, <2>6
<1>6. CASE \E c \in Callers : AsksFirst(c)
  <2>1. PICK c \in Callers : AsksFirst(c)
    BY <1>6
  <2>2. PICK p \in 1..Processes : p = current
    BY <2>1, AskingMoves
  <2>3. /\ Sent(c, "read", p) /\ OthersStay(c)
        /\ Child(p, child[p].owes \cup {counter + 1}, child[p].output)
    BY <2>1, <2>2, AskingMoves DEF Sent, Placed
  <2>4. IsOwed(c)'
    BY <2>3 DEF IsOwed, Sent, Child, Unread
  <2>5. \A q \in 1..Processes :
          /\ child'[q].alive = child[q].alive
          /\ Unread(child[q].owes, child[q].output) \subseteq Unread(child'[q].owes, child'[q].output)
    BY <2>3 DEF Child, Unread
  <2> QED BY <1>1, <2>3, <2>4, <2>5, OwedToOthers
<1>7. CASE \E c \in Callers : Spawn(c)
  <2>1. PICK c \in Callers : Spawn(c)
    BY <1>7
  <2>2. /\ Sent(c, "hello", spawned + 1) /\ OthersStay(c)
        /\ \A q \in 1..Processes : child'[q].alive => q = spawned + 1
        /\ child'[spawned + 1].owes = {counter + 1}
    BY <2>1, SpawnMoves DEF Sent, Placed
  <2>3. IsOwed(c)'
    BY <2>2 DEF IsOwed, Sent, Unread
  <2>4. \A d \in Callers : caller[d].from # spawned + 1
    BY <1>1
  <2> QED BY <1>1, <2>2, <2>3, <2>4, OwedToOthers
<1>8. CASE \E p \in 1..Processes : ServerAnswers(p) \/ ServerUpset(p)
  <2>1. PICK p \in 1..Processes : ServerAnswers(p) \/ ServerUpset(p)
    BY <1>8
  <2>2. UNCHANGED caller
    BY <2>1, ServerMoves
  <2>3. ASSUME NEW q \in 1..Processes, child'[q].alive
        PROVE  /\ child[q].alive
               /\ Unread(child'[q].owes, child'[q].output)
                    = Unread(child[q].owes, child[q].output)
    <3>1. CASE q # p
      BY <2>1, <2>3, <3>1, ServerMoves DEF Child
    <3>2. CASE q = p
      <4>1. PICK line \in child[p].owes \cup {0} :
              Child(p, child[p].owes \ {line}, Append(child[p].output, line))
        BY <2>1, <2>3, <3>2, ServerMoves
      <4>2. child[p].alive
        BY <2>3, <3>2, <4>1 DEF Child
      <4>3. /\ Once(child[p].owes, child[p].output) /\ line \in Nat
            /\ child[p].owes \in SUBSET Nat /\ child[p].output \in Seq(Nat)
        BY <1>1, <1>2, <4>1, <4>2
      <4>4. Unread(child[p].owes \ {line}, Append(child[p].output, line))
              = Unread(child[p].owes, child[p].output)
        BY <4>1, <4>3, LineWritten
      <4> QED BY <3>2, <4>1, <4>2, <4>4 DEF Child
    <3> QED BY <3>1, <3>2
  <2> QED BY <1>1, <2>2, <2>3 DEF IsOwed, CallerAt
<1> QED BY <1>1, <1>3, <1>4, <1>5, <1>6, <1>7, <1>8, ChannelSteps

LEMMA ChannelKeeps ==
  ASSUME ChannelInvariant, ChannelNext \/ UNCHANGED channelVars
  PROVE  ChannelInvariant'
<1>1. CASE ChannelNext
  BY <1>1, ChannelTypesStay, LocksStay, AnswersStay, ReadersStay DEF ChannelInvariant
<1>2. CASE UNCHANGED channelVars
  BY <1>2 DEF channelVars, ChannelInvariant, ChannelIsTyped, LocksAreHeld, ProcessIsAtHand,
     AnswersAreAwaited, IsOwed, InLock, Greets, AsksTool, Stands, CallerAt, Awaits
<1> QED BY <1>1, <1>2

LEMMA ChannelBegins ==
  ChannelInit => ChannelInvariant
<1> SUFFICES ASSUME ChannelInit PROVE ChannelInvariant
  OBVIOUS
<1>1. Idle \in CallerRow
  BY PlacesOfCallers DEF Idle, CallerRow
<1>2. Unborn \in ChildRow
  <2>1. << >> \in Seq(Nat) /\ {} \in SUBSET Nat
    OBVIOUS
  <2> QED BY <2>1 DEF Unborn, ChildRow
<1>3. \A c \in Callers : caller[c].at = "idle" /\ caller[c].asked = 0 /\ caller[c].from = 0
  BY DEF ChannelInit, Idle
<1>4. \A p \in 1..Processes : ~child[p].alive
  BY DEF ChannelInit, Unborn
<1>5. ChannelIsTyped
  <2>1. caller \in [Callers -> CallerRow] /\ child \in [1..Processes -> ChildRow]
    BY <1>1, <1>2 DEF ChannelInit
  <2>2. /\ spawned = 0 /\ current = 0 /\ counter = 0 /\ starting = {} /\ calling = {} /\ upsets = 0
        /\ started \in BOOLEAN
    BY DEF ChannelInit
  <2>3. \A c \in Callers : ~CallerAt(c, Reading) /\ ~CallerAt(c, {"failing"})
    BY <1>3 DEF CallerAt, Reading
  <2> QED BY <1>3, <2>1, <2>2, <2>3, ChannelAssumption DEF ChannelIsTyped
<1>6. LocksAreHeld /\ ProcessIsAtHand /\ AnswersAreAwaited
  BY <1>3, <1>4 DEF LocksAreHeld, ProcessIsAtHand, AnswersAreAwaited, InLock, Greets, AsksTool,
                    Stands, CallerAt, Handshake
<1>7. \A c \in Callers : IsOwed(c)
  BY <1>3 DEF IsOwed, CallerAt, Reading
<1> QED BY <1>5, <1>6, <1>7 DEF ChannelInvariant

LEMMA ChannelIsKeptClean ==
  ChannelInvariant => ChannelIsClean
<1> SUFFICES
      ASSUME ChannelInvariant, NEW p \in 1..Processes
      PROVE  /\ child[p].alive => p = current
             /\ Cardinality(Readers(p)) <= 1
             /\ child[p].alive =>
                  \A c \in Readers(p) : caller[c].asked \in child[p].owes \cup Answers(p)
             /\ started /\ child[p].alive /\ Readers(p) \cup Failing(p) = {} =>
                  child[p].owes \cup Answers(p) \subseteq {caller[c].asked : c \in Dropped(p)}
  BY DEF ChannelIsClean
<1>1. child[p].alive => p = current
  BY DEF ChannelInvariant, ProcessIsAtHand
<1>2. Cardinality(Readers(p)) <= 1
  <2>1. CASE Readers(p) = {}
    BY <2>1, FS_EmptySet
  <2>2. CASE Readers(p) # {}
    <3>1. \A c, d \in Readers(p) : c = d
      BY OneReader
    <3>2. PICK c : Readers(p) = {c}
      BY <2>2, <3>1
    <3> QED BY <3>2, FS_Singleton
  <2> QED BY <2>1, <2>2
<1>3. Unread(child[p].owes, child[p].output) = child[p].owes \cup Answers(p)
  <2>1. child[p] \in ChildRow
    BY DEF ChannelInvariant, ChannelIsTyped
  <2>2. child[p].output \in Seq(Nat)
    BY <2>1, ChildFields
  <2>3. DOMAIN child[p].output = 1..Len(child[p].output)
    BY <2>2
  <2> QED BY <2>3 DEF Unread, Answers
<1>4. ASSUME child[p].alive, NEW c \in Readers(p)
      PROVE  caller[c].asked \in child[p].owes \cup Answers(p)
  <2>1. IsOwed(c) /\ CallerAt(c, Reading) /\ caller[c].from = p
    BY DEF ChannelInvariant, Readers
  <2> QED BY <1>3, <1>4, <2>1 DEF IsOwed
<1>5. ASSUME child[p].alive, Readers(p) \cup Failing(p) = {},
             NEW id \in child[p].owes \cup Answers(p)
      PROVE  id \in {caller[c].asked : c \in Dropped(p)}
  <2>1. PICK c \in Callers : Awaits(c, p, id)
    BY <1>3, <1>5 DEF ChannelInvariant, AnswersAreAwaited
  <2>2. c \in Dropped(p) /\ caller[c].asked = id
    BY <1>5, <2>1 DEF Awaits, Readers, Failing, Dropped, CallerAt
  <2> QED BY <2>2
<1> QED BY <1>1, <1>2, <1>4, <1>5

----------------------------------------------------------------------------
(* The routing of requests.                                                *)

\* Whoever is ranked, and whoever comes first, is within the boundary of the request.
LEMMA EligibleArePermitted ==
  ASSUME NEW r, NEW remote
  PROVE  Eligible(r, remote) \subseteq Permitted(r, remote)
<1>1. Catalogue(r, remote) \subseteq Permitted(r, remote)
  BY DEF Catalogue
<1>2. Capable(r, Catalogue(r, remote)) \subseteq Catalogue(r, remote)
  BY DEF Capable
<1>3. \A capable : InContext(r, capable) \subseteq capable
  BY DEF InContext
<1> QED BY <1>1, <1>2, <1>3 DEF Eligible

LEMMA RankedAreEligible ==
  ASSUME NEW r
  PROVE  Ranked(r) \subseteq Eligible(r, r.lane)
<1>1. \A fit : Apt(fit) \subseteq fit
  BY DEF Apt
<1>2. \A pool, role : Fitting(pool, role) \subseteq pool
  BY DEF Fitting
<1> DEFINE fit == Eligible(r, r.lane)
<1>3. CASE Matched(r)
  <2>1. r.target \in fit /\ Ranked(r) = {r.target}
    BY <1>3 DEF Matched, Ranked
  <2> QED BY <2>1
<1>4. CASE ~Matched(r)
  <2>1. \/ Ranked(r) = Fitting(Apt(fit), r.role)
        \/ Ranked(r) = Apt(fit) \cup (Preferred(r) \cap fit)
    BY <1>4 DEF Ranked
  <2> HIDE DEF fit
  <2>2. Apt(fit) \subseteq fit /\ Fitting(Apt(fit), r.role) \subseteq Apt(fit)
    BY <1>1, <1>2
  <2>3. Ranked(r) \subseteq fit
    BY <2>1, <2>2
  <2> QED BY <2>3 DEF fit
<1> QED BY <1>3, <1>4

LEMMA FirstIsRanked ==
  ASSUME NEW r
  PROVE  First(r) \subseteq Ranked(r)
<1>1. \A pool : Arbiters(pool) \subseteq pool
  BY DEF Arbiters
<1> DEFINE pool == Ranked(r)
           liked == Preferred(r) \cap pool
           apt == Apt(Eligible(r, r.lane))
           away == IF MayLeave(r) THEN ServedRemotely(apt) ELSE {}
           block == IF away = {} THEN apt ELSE away
<1>2. \/ First(r) = liked
      \/ First(r) = Arbiters(pool)
      \/ First(r) = Opening(block) /\ Opening(block) \subseteq pool
      \/ First(r) = block \cap pool
      \/ First(r) = pool
  BY DEF First
<1> HIDE DEF pool, block
<1>3. First(r) \subseteq pool
  BY <1>1, <1>2
<1> QED BY <1>3 DEF pool

\* A request that fixes its model is given that one and no relief, without a judge.
LEMMA ExactIsFirst ==
  ASSUME NEW r, DemandsExact(r), ~Contradictory(r), ~Refused(r)
  PROVE  /\ First(r) = {r.target} /\ Fixed(r) /\ ~Classified(r)
<1>1. r.target # Nobody /\ ~r.fallback
  BY DEF DemandsExact
<1>2. Matched(r) /\ Fixed(r)
  BY <1>1 DEF Refused, Fixed
<1>3. Ranked(r) = {r.target}
  BY <1>2 DEF Ranked
<1>4. r.target \in Preferred(r)
  BY <1>1 DEF Contradictory, Preferred
<1>5. Preferred(r) \cap Ranked(r) = {r.target}
  BY <1>3, <1>4
<1> QED BY <1>2, <1>4, <1>5 DEF First, Classified

\* The boundary of a request r, for a reader s.
Within(r, s) ==
  /\ r.closed \/ (r.said = "no" /\ s.by # "tool") =>
       s.home = "local" \/ (s.by = "turn" /\ s.late)
  /\ s.by \in {"call", "measure"} /\ r.providers # {} =>
       ProviderOf[s.entry] \in r.providers \cup (IF r.closed THEN {"ollama"} ELSE {})
  /\ DemandsExact(r) => s.by \in {"call", "turn", "tool"}
  /\ DemandsExact(r) /\ r.named = {} /\ s.by # "tool" => s.entry = r.target
  /\ ~r.aux => s.by \in {"call", "turn", "tool"}

LEMMA ReaderFields ==
  ASSUME NEW by, NEW m
  PROVE  /\ Reader(by, m).by = by /\ Reader(by, m).entry = m
         /\ Reader(by, m).late = reloads.late
         /\ Reader(by, m).home = IF m = Laya THEN LayaHome
                                 ELSE IF m = Nobody THEN "cloud" ELSE home[m]
BY DEF Reader

\* The providers a request comes to are its own, or Ollama when closed data leaves none.
LEMMA ProvidersAreNamed ==
  ASSUME NEW r, r.providers # {}
  PROVE  /\ Providers(r) # {}
         /\ Providers(r) \subseteq r.providers \cup (IF r.closed THEN {"ollama"} ELSE {})
BY DEF Providers

LEMMA EntriesHaveHomes ==
  ASSUME RoutingIsTyped, NEW by, NEW m \in Entries
  PROVE  Reader(by, m).home = home[m]
BY ReaderFields, RoutingAssumption

\* Each way to read a prompt keeps within the boundary of its request.
LEMMA CallWithin ==
  ASSUME RoutingInvariant, stage = "call", Accepts(chosen)
  PROVE  Within(request, Reader("call", chosen.entry))
<1> DEFINE m == chosen.entry
<1>1. RoutingIsTyped /\ RequestIsKept /\ stage \in Given
  BY DEF RoutingInvariant, Given
<1>2. chosen \in Reference /\ m \in Entries
  BY <1>1 DEF RequestIsKept, Reference
<1>3. Reader("call", m).home = home[m] /\ Reader("call", m).by = "call"
      /\ Reader("call", m).entry = m
  BY <1>1, <1>2, EntriesHaveHomes, ReaderFields
<1>4. MayLeave(request) \/ home[m] = "local"
  <2>1. CASE ProviderOf[m] = "larm"
    BY <1>1, <1>2, <2>1 DEF RoutingIsTyped
  <2>2. CASE ProviderOf[m] # "larm"
    BY <2>2 DEF Accepts, Published, Label
  <2> QED BY <2>1, <2>2
<1>5. request.providers # {} =>
        ProviderOf[m] \in request.providers \cup (IF request.closed THEN {"ollama"} ELSE {})
  <2>1. Providers(request) = {} \/ ProviderOf[m] \in Providers(request)
    BY DEF Accepts
  <2> QED BY <2>1, ProvidersAreNamed
<1>6. DemandsExact(request) /\ request.named = {} => m = request.target
  BY <1>1 DEF RequestIsKept
<1> HIDE DEF m
<1>7. request.closed \/ request.said = "no" => ~MayLeave(request)
  BY DEF MayLeave
<1> QED BY <1>3, <1>4, <1>5, <1>6, <1>7 DEF Within, m

LEMMA JudgeWithin ==
  ASSUME RoutingInvariant, stage = "route", NEW m,
         \/ LayaJudgment /\ m = Laya
         \/ OllamaJudgment /\ m = Judge
  PROVE  Within(request, Reader("judge", m)) /\ m \in Entries \cup {Laya}
<1>1. RoutingIsTyped /\ request.aux /\ ~DemandsExact(request)
  BY DEF RoutingInvariant, RequestIsKept
<1>2. Reader("judge", m).by = "judge"
  BY ReaderFields
<1>3. request.closed \/ request.said = "no" => ~MayLeave(request)
  BY DEF MayLeave
<1>4. m \in Entries \cup {Laya} /\ (MayLeave(request) \/ Reader("judge", m).home = "local")
  <2>1. CASE LayaJudgment /\ m = Laya
    BY <2>1, ReaderFields DEF LayaJudgment
  <2>2. CASE OllamaJudgment /\ m = Judge
    <3>1. Judge \in Entries
      BY RoutingAssumption
    <3>2. Reader("judge", m).home = home[m]
      BY <1>1, <2>2, <3>1, EntriesHaveHomes
    <3> QED BY <2>2, <3>1, <3>2 DEF OllamaJudgment, Label
  <2> QED BY <2>1, <2>2
<1> QED BY <1>1, <1>2, <1>3, <1>4 DEF Within

LEMMA MeasureWithin ==
  ASSUME RoutingInvariant, Probeable(request), NEW local \in BOOLEAN, NEW m \in Aspirants(local)
  PROVE  Within(request, Reader("measure", m)) /\ m \in Entries
<1>1. RoutingIsTyped /\ request.aux /\ ~DemandsExact(request)
  BY DEF RoutingInvariant, Probeable
<1>2. m \in Eligible(request, FALSE)
  BY DEF Aspirants, Unmeasured
<1>3. m \in Permitted(request, FALSE)
  BY <1>2, EligibleArePermitted
<1>4. /\ m \in Entries /\ (MayLeave(request) \/ home[m] = "local")
      /\ Providers(request) # {} => ProviderOf[m] \in Providers(request)
  BY <1>1, <1>3 DEF Permitted, RoutingIsTyped
<1>5. Reader("measure", m).home = home[m] /\ Reader("measure", m).by = "measure"
      /\ Reader("measure", m).entry = m
  BY <1>1, <1>4, EntriesHaveHomes, ReaderFields
<1>6. request.providers # {} =>
        ProviderOf[m] \in request.providers \cup (IF request.closed THEN {"ollama"} ELSE {})
  BY <1>4, ProvidersAreNamed
<1>7. request.closed \/ request.said = "no" => ~MayLeave(request)
  BY DEF MayLeave
<1> QED BY <1>1, <1>4, <1>5, <1>6, <1>7 DEF Within

LEMMA TurnWithin ==
  ASSUME RoutingInvariant, stage = "turn"
  PROVE  Within(request, Reader("turn", chosen.entry)) /\ chosen.entry \in Entries
<1> DEFINE m == chosen.entry
<1>1. RoutingIsTyped /\ RequestIsKept /\ stage \in Given
  BY DEF RoutingInvariant, Given
<1>2. chosen \in Reference /\ m \in Entries
  BY <1>1 DEF RequestIsKept, Reference
<1>3. /\ Reader("turn", m).home = home[m] /\ Reader("turn", m).by = "turn"
      /\ Reader("turn", m).entry = m /\ Reader("turn", m).late = reloads.late
  BY <1>1, <1>2, EntriesHaveHomes, ReaderFields
<1>4. reloads.late \/ MayLeave(request) \/ home[m] = "local"
  BY <1>1 DEF RequestIsKept
<1>5. DemandsExact(request) /\ request.named = {} => m = request.target
  BY <1>1 DEF RequestIsKept
<1> HIDE DEF m
<1>6. request.closed \/ request.said = "no" => ~MayLeave(request)
  BY DEF MayLeave
<1>7. Within(request, Reader("turn", m))
  BY <1>3, <1>4, <1>5, <1>6 DEF Within
<1> QED BY <1>2, <1>7 DEF m

LEMMA ToolWithin ==
  ASSUME RoutingInvariant, stage = "turn", NEW s \in Tools(request)
  PROVE  Within(request, s) /\ s.entry \in {Laya, Nobody}
<1>1. ~Leaking(request)
  BY DEF RoutingInvariant, RequestIsKept, Given
<1>2. PICK x \in {Laya, Nobody} :
        /\ s = Reader("tool", x)
        /\ \/ x = Laya /\ request.server
           \/ x = Nobody /\ (request.skills = "web" \/ ~request.closed)
  BY DEF Tools
<1>3. s.by = "tool" /\ s.entry = x
      /\ s.home = IF x = Laya THEN LayaHome ELSE "cloud"
  BY <1>2, ReaderFields
<1>4. request.closed => s.home = "local"
  BY <1>1, <1>2, <1>3 DEF Leaking
<1> QED BY <1>2, <1>3, <1>4 DEF Within

\* The history of the models keeps its rows and its bound.
HistoryIsTyped ==
  /\ history \in [Entries -> Seq(Invocation)]
  /\ IsFiniteSet(Length) /\ Cardinality(Length) <= MaxHistory

LEMMA HistoryGrows ==
  ASSUME HistoryIsTyped, NEW m \in Entries, NEW entry \in Invocation,
         Cardinality(Length) < MaxHistory,
         history' = [history EXCEPT ![m] = Append(@, entry)]
  PROVE  HistoryIsTyped'
<1> DEFINE last == <<m, Len(history[m]) + 1>>
<1>1. history[m] \in Seq(Invocation) /\ Append(history[m], entry) \in Seq(Invocation)
  BY DEF HistoryIsTyped
<1>2. history' \in [Entries -> Seq(Invocation)]
  BY <1>1 DEF HistoryIsTyped
<1>3. /\ DOMAIN history[m] = 1..Len(history[m]) /\ Len(history[m]) \in Nat
      /\ DOMAIN history'[m] = 1..(Len(history[m]) + 1)
  BY <1>1 DEF HistoryIsTyped
<1>4. \A n \in Entries : n # m => history'[n] = history[n]
  BY DEF HistoryIsTyped
<1>5. Length' \subseteq Length \cup {last}
  <2> SUFFICES ASSUME NEW n \in Entries, NEW i \in 1..MaxHistory, i \in DOMAIN history'[n]
               PROVE  <<n, i>> \in Length \cup {last}
    BY DEF Length
  <2>1. CASE n # m
    BY <1>4, <2>1 DEF Length
  <2>2. CASE n = m
    <3>1. i \in DOMAIN history[m] \/ i = Len(history[m]) + 1
      <4>1. i \in 1..(Len(history[m]) + 1)
        BY <1>3, <2>2
      <4> QED BY <1>3, <4>1
    <3>2. CASE i \in DOMAIN history[m]
      BY <2>2, <3>2 DEF Length
    <3>3. CASE i = Len(history[m]) + 1
      BY <2>2, <3>3
    <3> QED BY <3>1, <3>2, <3>3
  <2> QED BY <2>1, <2>2
<1>6. IsFiniteSet(Length \cup {last}) /\ Cardinality(Length \cup {last}) <= Cardinality(Length) + 1
  <2>1. IsFiniteSet(Length) /\ Cardinality(Length) \in Nat
    BY FS_CardinalityType DEF HistoryIsTyped
  <2> HIDE DEF last
  <2>2. /\ IsFiniteSet(Length \cup {last})
        /\ Cardinality(Length \cup {last}) =
             IF last \in Length THEN Cardinality(Length) ELSE Cardinality(Length) + 1
    BY <2>1, FS_AddElement, Zenon
  <2> QED BY <2>1, <2>2
<1> HIDE DEF last
<1>7. /\ IsFiniteSet(Length') /\ Cardinality(Length') <= Cardinality(Length \cup {last})
      /\ Cardinality(Length') \in Nat /\ Cardinality(Length \cup {last}) \in Nat
      /\ Cardinality(Length) \in Nat /\ MaxHistory \in Nat
  BY <1>5, <1>6, FS_Subset, FS_CardinalityType, RoutingAssumption DEF HistoryIsTyped
<1>8. Cardinality(Length') <= MaxHistory
  BY <1>6, <1>7
<1> QED BY <1>2, <1>7, <1>8 DEF HistoryIsTyped

LEMMA HistoryShrinks ==
  ASSUME HistoryIsTyped, history' \in [Entries -> Seq(Invocation)],
         \A n \in Entries : Len(history'[n]) <= Len(history[n])
  PROVE  HistoryIsTyped'
<1>1. Length' \subseteq Length
  <2> SUFFICES ASSUME NEW n \in Entries, NEW i \in 1..MaxHistory, i \in DOMAIN history'[n]
               PROVE  i \in DOMAIN history[n]
    BY DEF Length
  <2>1. history[n] \in Seq(Invocation) /\ history'[n] \in Seq(Invocation)
    BY DEF HistoryIsTyped
  <2>2. i \in 1..Len(history'[n]) /\ Len(history'[n]) <= Len(history[n])
    BY <2>1
  <2>3. i \in 1..Len(history[n])
    BY <2>1, <2>2
  <2> QED BY <2>1, <2>3
<1>2. /\ IsFiniteSet(Length') /\ Cardinality(Length') <= Cardinality(Length)
      /\ Cardinality(Length') \in Nat /\ Cardinality(Length) \in Nat
      /\ Cardinality(Length) <= MaxHistory /\ MaxHistory \in Nat
  BY <1>1, FS_Subset, FS_CardinalityType, RoutingAssumption DEF HistoryIsTyped
<1>3. Cardinality(Length') <= MaxHistory
  BY <1>2
<1> QED BY <1>2, <1>3 DEF HistoryIsTyped

LEMMA RecordedKeeps ==
  ASSUME HistoryIsTyped, NEW m \in Entries, NEW role, NEW out \in {"ok", "bad", "odd"},
         Recorded(m, role, out)
  PROVE  HistoryIsTyped'
<1>1. CASE request.learn
  <2>1. RoleGroup(role) \in {"proposer", "arbiter", "none"}
    BY DEF RoleGroup
  <2>2. [group |-> RoleGroup(role), out |-> out] \in Invocation
    BY <2>1 DEF Invocation
  <2>3. /\ Cardinality(Length) < MaxHistory
        /\ history' = [history EXCEPT ![m] = Append(@, [group |-> RoleGroup(role), out |-> out])]
    BY <1>1 DEF Recorded
  <2> QED BY <2>2, <2>3, HistoryGrows
<1>2. CASE ~request.learn
  BY <1>2 DEF Recorded, HistoryIsTyped, Length
<1> QED BY <1>1, <1>2

\* What the invariant says of a request and of whom it was given to, apart from the state.
Asked(r) == r \in Requests /\ ~Contradictory(r) /\ ~Leaking(r)
Serves(r, ref, others) ==
  /\ ref \in Reference
  /\ DemandsExact(r) /\ r.named = {} => ref.entry = r.target /\ others = {}
Follow(at, r, ref, others) ==
  /\ at \in {"select"} \cup Given => Asked(r) /\ others \subseteq Reference
  /\ at \in Given => Serves(r, ref, others)
  /\ at = "route" => r.aux /\ ~DemandsExact(r)

LEMMA KeptBefore ==
  ASSUME RequestIsKept
  PROVE  Follow(stage, request, chosen, rest)
BY DEF RequestIsKept, Follow, Asked, Serves

LEMMA KeptAfter ==
  ASSUME NEW at, NEW r, NEW ref, NEW others,
         stage' = at, request' = r, chosen' = ref, rest' = others,
         Follow(at, r, ref, others),
         at \in {"check", "turn"} /\ ~(reloads').late => MayLeave(r) \/ (home')[ref.entry] = "local"
  PROVE  RequestIsKept'
<1>1. Contradictory(request)' <=> Contradictory(r)
  BY DEF Contradictory
<1>2. Leaking(request)' <=> Leaking(r)
  BY DEF Leaking
<1>3. DemandsExact(request)' <=> DemandsExact(r)
  BY DEF DemandsExact
<1>4. MayLeave(request)' <=> MayLeave(r)
  BY DEF MayLeave
<1> QED BY <1>1, <1>2, <1>3, <1>4 DEF RequestIsKept, Follow, Asked, Serves

LEMMA BoundaryAfter ==
  ASSUME NEW r, request' = r, \A s \in seen' : Within(r, s)
  PROVE  BoundaryIsKept'
<1>1. DemandsExact(request)' <=> DemandsExact(r)
  BY DEF DemandsExact
<1> QED BY <1>1 DEF BoundaryIsKept, Within

\* A step that leaves the models where they are.
LEMMA RoutingAfter ==
  ASSUME RoutingInvariant, UNCHANGED <<home, offered>>, HistoryIsTyped',
         NEW r \in Requests \cup {Nobody}, request' = r,
         reloads' \in [count : Nat, late : BOOLEAN],
         \A s \in seen' : Within(r, s) /\ s.entry \in Entries \cup {Laya, Nobody},
         RequestIsKept'
  PROVE  RoutingInvariant'
<1>1. RoutingIsTyped
  BY DEF RoutingInvariant
<1>2. RoutingIsTyped'
  <2>1. (home \in [Entries -> {"local", "near", "cloud"}] /\ offered \subseteq Entries)'
    BY <1>1 DEF RoutingIsTyped
  <2>2. (\A m \in Entries : ProviderOf[m] = "larm" => home[m] = "local")'
    BY <1>1 DEF RoutingIsTyped
  <2> QED BY <2>1, <2>2 DEF RoutingIsTyped, HistoryIsTyped
<1>3. BoundaryIsKept'
  BY BoundaryAfter
<1> QED BY <1>2, <1>3 DEF RoutingInvariant

LEMMA ReceiveKeeps ==
  ASSUME RoutingInvariant, Receive
  PROVE  RoutingInvariant'
<1>1. RoutingIsTyped
  BY DEF RoutingInvariant
<1>2. PICK r \in Requests : request' = r
  BY DEF Receive
<1>3. PICK at : at = stage'
  OBVIOUS
<1>4. /\ at = "refused" \/ (at = "select" /\ ~Contradictory(r) /\ ~Leaking(r))
      /\ chosen' = Nobody /\ rest' = {} /\ seen' = {} /\ UNCHANGED <<home, offered, history>>
      /\ reloads' = [reloads EXCEPT !.late = FALSE]
  BY <1>2, <1>3 DEF Receive, ShowsNobody
<1>5. HistoryIsTyped'
  BY <1>1, <1>4 DEF RoutingIsTyped, HistoryIsTyped, Length
<1>6. reloads' \in [count : Nat, late : BOOLEAN]
  BY <1>1, <1>4 DEF RoutingIsTyped
<1>7. Follow(at, r, Nobody, {})
  BY <1>4 DEF Follow, Given, Asked
<1>8. RequestIsKept'
  BY <1>2, <1>3, <1>4, <1>7, KeptAfter
<1> QED BY <1>2, <1>4, <1>5, <1>6, <1>8, RoutingAfter

\* A step within one request.
LEMMA RequestMoves ==
  ASSUME RoutingInvariant, UNCHANGED <<home, offered, request>>, HistoryIsTyped',
         reloads' = reloads \/ reloads' = [reloads EXCEPT !.late = FALSE],
         NEW at, NEW ref, NEW others, stage' = at, chosen' = ref, rest' = others,
         Follow(at, request, ref, others),
         at \in {"check", "turn"} /\ ~(reloads').late =>
           MayLeave(request) \/ home[ref.entry] = "local",
         \A s \in seen' : Within(request, s) /\ s.entry \in Entries \cup {Laya, Nobody}
  PROVE  RoutingInvariant'
<1>1. RoutingIsTyped
  BY DEF RoutingInvariant
<1>2. PICK r \in Requests \cup {Nobody} : r = request
  BY <1>1 DEF RoutingIsTyped
<1>3. reloads' \in [count : Nat, late : BOOLEAN]
  BY <1>1 DEF RoutingIsTyped
<1>4. request' = r /\ home' = home
  BY <1>2
<1>5. RequestIsKept'
  <2>1. Follow(at, r, ref, others)
    BY <1>2
  <2>2. at \in {"check", "turn"} /\ ~(reloads').late => MayLeave(r) \/ (home')[ref.entry] = "local"
    BY <1>2, <1>4
  <2> QED BY <1>4, <2>1, <2>2, KeptAfter
<1>6. \A s \in seen' : Within(r, s) /\ s.entry \in Entries \cup {Laya, Nobody}
  BY <1>2
<1> QED BY <1>3, <1>4, <1>5, <1>6, RoutingAfter

\* The model a selection gives is permitted, and so is whoever follows it.
LEMMA SelectKeeps ==
  ASSUME RoutingInvariant, Select
  PROVE  RoutingInvariant'
<1>1. /\ RoutingIsTyped /\ RequestIsKept /\ stage = "select" /\ request.named = {}
      /\ UNCHANGED <<home, offered, history, request>> /\ seen' = {}
      /\ reloads' = [reloads EXCEPT !.late = FALSE]
  BY DEF RoutingInvariant, Select, ShowsNobody
<1>2. HistoryIsTyped'
  BY <1>1 DEF RoutingIsTyped, HistoryIsTyped, Length
<1>3. Follow("select", request, chosen, rest)
  BY <1>1, KeptBefore
<1>4. CASE Refused(request)
  <2>1. stage' = "refused" /\ chosen' = chosen /\ rest' = rest
    BY <1>4 DEF Select
  <2>2. Follow("refused", request, chosen, rest)
    BY DEF Follow, Given
  <2>3. \A s \in seen' : Within(request, s) /\ s.entry \in Entries \cup {Laya, Nobody}
    BY <1>1
  <2> QED BY <1>1, <1>2, <2>1, <2>2, <2>3, RequestMoves
<1>5. CASE ~Refused(request)
  <2>1. PICK m \in First(request) :
          /\ chosen' = Ref(m)
          /\ rest' = IF Fixed(request) THEN {} ELSE {Ref(n) : n \in Ranked(request) \ {m}}
          /\ stage' = IF Classified(request) THEN "route"
                      ELSE IF request.role = "agent" THEN "check" ELSE "call"
    BY <1>5 DEF Select
  <2>2. PICK at : at = stage'
    OBVIOUS
  <2>3. PICK others : others = rest'
    OBVIOUS
  <2>4. \A n \in Ranked(request) : n \in Entries /\ (MayLeave(request) \/ home[n] = "local")
    <3>1. Ranked(request) \subseteq Permitted(request, request.lane)
      BY RankedAreEligible, EligibleArePermitted
    <3> QED BY <1>1, <3>1 DEF Permitted, RoutingIsTyped
  <2>5. m \in Ranked(request)
    BY FirstIsRanked
  <2>6. \A n \in Ranked(request) : Ref(n) \in Reference
    BY <2>4 DEF Ref, Label, Reference
  <2>7. Ref(m).entry = m
    BY DEF Ref
  <2>8. others \subseteq Reference
    <3>1. others = {} \/ others = {Ref(n) : n \in Ranked(request) \ {m}}
      BY <2>1, <2>3
    <3> QED BY <2>6, <3>1
  <2>9. Asked(request)
    BY <1>3 DEF Follow
  <2>10. DemandsExact(request) => m = request.target /\ others = {} /\ ~Classified(request)
    <3> SUFFICES ASSUME DemandsExact(request)
                 PROVE  m = request.target /\ others = {} /\ ~Classified(request)
      OBVIOUS
    <3>1. First(request) = {request.target} /\ Fixed(request) /\ ~Classified(request)
      BY <1>5, <2>9, ExactIsFirst DEF Asked
    <3> QED BY <2>1, <2>3, <3>1
  <2>11. at = "route" => request.aux /\ ~DemandsExact(request)
    <3>1. at = "route" => Classified(request)
      BY <2>1, <2>2
    <3> QED BY <2>10, <3>1 DEF Classified
  <2>12. Follow(at, request, Ref(m), others)
    BY <2>5, <2>6, <2>7, <2>8, <2>9, <2>10, <2>11 DEF Follow, Serves
  <2>13. MayLeave(request) \/ home[Ref(m).entry] = "local"
    BY <2>4, <2>5, <2>7
  <2>14. chosen' = Ref(m) /\ stage' = at /\ rest' = others
    BY <2>1, <2>2, <2>3
  <2> QED BY <1>1, <1>2, <2>12, <2>13, <2>14, RequestMoves
<1> QED BY <1>4, <1>5

LEMMA NamedKeeps ==
  ASSUME RoutingInvariant, UseNamed
  PROVE  RoutingInvariant'
<1>1. /\ RoutingIsTyped /\ RequestIsKept /\ stage = "select" /\ request.named # {}
      /\ UNCHANGED <<home, offered, history, request, rest, reloads>> /\ seen' = {}
      /\ stage' = "call"
  BY DEF RoutingInvariant, UseNamed, ShowsNobody
<1>2. HistoryIsTyped'
  BY <1>1 DEF RoutingIsTyped, HistoryIsTyped, Length
<1>3. Asked(request) /\ rest \subseteq Reference
  BY <1>1, KeptBefore DEF Follow
<1>4. PICK m \in request.named, h \in {"local", "cloud"} : chosen' = [entry |-> m, home |-> h]
  BY DEF UseNamed
<1>5. m \in Entries
  BY <1>3, RoutingAssumption DEF Asked
<1> DEFINE ref == [entry |-> m, home |-> h]
<1>6. ref \in Reference
  BY <1>5 DEF Reference
<1> HIDE DEF ref
<1>7. Follow("call", request, ref, rest)
  BY <1>1, <1>3, <1>6 DEF Follow, Serves
<1>8. chosen' = ref
  BY <1>4 DEF ref
<1> QED BY <1>1, <1>2, <1>7, <1>8, RequestMoves

LEMMA ClassifyKeeps ==
  ASSUME RoutingInvariant, Classify
  PROVE  RoutingInvariant'
<1>1. /\ RoutingIsTyped /\ RequestIsKept /\ stage = "route"
      /\ UNCHANGED <<home, offered, history, request, stage, chosen, rest, reloads>>
  BY DEF RoutingInvariant, Classify
<1>2. HistoryIsTyped'
  BY <1>1 DEF RoutingIsTyped, HistoryIsTyped, Length
<1>3. Follow("route", request, chosen, rest)
  BY <1>1, KeptBefore
<1>4. PICK m : /\ (LayaJudgment /\ m = Laya) \/ (OllamaJudgment /\ m = Judge)
               /\ seen' = {Reader("judge", m)}
  BY DEF Classify, Shows
<1>5. \A s \in seen' : Within(request, s) /\ s.entry \in Entries \cup {Laya, Nobody}
  BY <1>1, <1>4, JudgeWithin, ReaderFields
<1> QED BY <1>1, <1>2, <1>3, <1>5, RequestMoves

LEMMA RouteKeeps ==
  ASSUME RoutingInvariant, Route
  PROVE  RoutingInvariant'
<1>1. /\ RoutingIsTyped /\ RequestIsKept /\ stage = "route" /\ stage' = "call" /\ seen' = {}
      /\ UNCHANGED <<home, offered, history, request, rest, reloads>>
  BY DEF RoutingInvariant, Route, ShowsNobody
<1>2. HistoryIsTyped'
  BY <1>1 DEF RoutingIsTyped, HistoryIsTyped, Length
<1>3. /\ Asked(request) /\ ~DemandsExact(request)
      /\ chosen \in Reference /\ rest \subseteq Reference
  BY <1>1, KeptBefore DEF Follow, Given, Serves
<1>4. PICK ref : chosen' = ref /\ ref \in {chosen} \cup {Ref(m) : m \in Affordable(request)}
  BY DEF Route
<1>5. \A n \in Affordable(request) : n \in Entries
  <2>1. Affordable(request) \subseteq Permitted(request, request.lane)
    BY RankedAreEligible, EligibleArePermitted DEF Affordable
  <2> QED BY <1>1, <2>1 DEF Permitted, RoutingIsTyped
<1>6. ref \in Reference
  BY <1>3, <1>4, <1>5 DEF Ref, Label, Reference
<1>7. Follow("call", request, ref, rest)
  BY <1>3, <1>6 DEF Follow, Serves
<1> QED BY <1>1, <1>2, <1>4, <1>7, RequestMoves

LEMMA CallKeeps ==
  ASSUME RoutingInvariant, Call
  PROVE  RoutingInvariant'
<1>1. /\ RoutingIsTyped /\ RequestIsKept /\ stage = "call" /\ HistoryIsTyped
      /\ UNCHANGED <<home, offered, request, chosen, rest, reloads>>
  BY DEF RoutingInvariant, Call, RoutingIsTyped, HistoryIsTyped
<1>2. Follow("call", request, chosen, rest)
  BY <1>1, KeptBefore
<1>3. chosen.entry \in Entries
  BY <1>2 DEF Follow, Given, Serves, Reference
<1>4. PICK out \in {"ok", "bad", "odd"} : Recorded(chosen.entry, request.role, out)
  BY DEF Call
<1>5. HistoryIsTyped'
  BY <1>1, <1>3, <1>4, RecordedKeeps
<1>6. \/ Accepts(chosen) /\ seen' = {Reader("call", chosen.entry)}
      \/ seen' = {}
  BY DEF Call, Shows, ShowsNobody
<1>7. \A s \in seen' : Within(request, s) /\ s.entry \in Entries \cup {Laya, Nobody}
  BY <1>1, <1>3, <1>6, CallWithin, ReaderFields
<1>8. PICK at : at = stage' /\ at \in {"answered", "error"}
  BY DEF Call
<1>9. Follow(at, request, chosen, rest)
  BY <1>2, <1>8 DEF Follow, Given
<1> QED BY <1>1, <1>5, <1>7, <1>8, <1>9, RequestMoves

LEMMA CheckKeeps ==
  ASSUME RoutingInvariant, CheckAgent
  PROVE  RoutingInvariant'
<1>1. /\ RoutingIsTyped /\ RequestIsKept /\ stage = "check" /\ seen' = {}
      /\ UNCHANGED <<home, offered, history, request, chosen, rest, reloads>>
  BY DEF RoutingInvariant, CheckAgent, ShowsNobody
<1>2. HistoryIsTyped'
  BY <1>1 DEF RoutingIsTyped, HistoryIsTyped, Length
<1>3. Follow("check", request, chosen, rest)
  BY <1>1, KeptBefore
<1>4. PICK at : at = stage' /\ at \in {"turn", "failed"}
  BY DEF CheckAgent
<1>5. Follow(at, request, chosen, rest)
  BY <1>3, <1>4 DEF Follow, Given
<1>6. ~reloads.late => MayLeave(request) \/ home[chosen.entry] = "local"
  BY <1>1 DEF RequestIsKept
<1> QED BY <1>1, <1>2, <1>4, <1>5, <1>6, RequestMoves

LEMMA TurnKeeps ==
  ASSUME RoutingInvariant, Turn
  PROVE  RoutingInvariant'
<1>1. /\ RoutingIsTyped /\ RequestIsKept /\ stage = "turn" /\ HistoryIsTyped
      /\ UNCHANGED <<home, offered, request, chosen, rest, reloads>>
  BY DEF RoutingInvariant, Turn, RoutingIsTyped, HistoryIsTyped
<1>2. Follow("turn", request, chosen, rest)
  BY <1>1, KeptBefore
<1>3. ~reloads.late => MayLeave(request) \/ home[chosen.entry] = "local"
  BY <1>1 DEF RequestIsKept
<1>4. chosen.entry \in Entries /\ Within(request, Reader("turn", chosen.entry))
  BY <1>1, TurnWithin
<1>5. PICK out \in {"ok", "bad", "odd"} : Recorded(chosen.entry, "agent", out)
  BY DEF Turn
<1>6. HistoryIsTyped'
  BY <1>1, <1>4, <1>5, RecordedKeeps
<1>7. seen' \subseteq {Reader("turn", chosen.entry)} \cup Tools(request)
  BY DEF Turn, ShowsNobody
<1>8. \A s \in seen' : Within(request, s) /\ s.entry \in Entries \cup {Laya, Nobody}
  <2> SUFFICES ASSUME NEW s \in seen'
               PROVE  Within(request, s) /\ s.entry \in Entries \cup {Laya, Nobody}
    OBVIOUS
  <2>1. CASE s = Reader("turn", chosen.entry)
    BY <1>4, <2>1, ReaderFields
  <2>2. CASE s \in Tools(request)
    BY <1>1, <2>2, ToolWithin
  <2> QED BY <1>7, <2>1, <2>2
<1>9. PICK at : at = stage' /\ at \in {"turn", "answered", "error"}
  BY DEF Turn
<1>10. Follow(at, request, chosen, rest)
  BY <1>2, <1>9 DEF Follow, Given
<1> QED BY <1>1, <1>3, <1>6, <1>8, <1>9, <1>10, RequestMoves

\* Whoever follows was ranked too; a request that fixes its model has nobody to follow.
LEMMA FollowsKeeps ==
  ASSUME RoutingInvariant, stage \in Given, NEW next \in rest, Follows(next),
         NEW others, rest' = others, others \subseteq rest
  PROVE  RoutingInvariant'
<1>1. /\ RoutingIsTyped /\ RequestIsKept /\ seen' = {} /\ stage' = "call" /\ chosen' = next
      /\ UNCHANGED <<home, offered, history, request, reloads>>
  BY DEF RoutingInvariant, Follows, ShowsNobody
<1>2. HistoryIsTyped'
  BY <1>1 DEF RoutingIsTyped, HistoryIsTyped, Length
<1>3. Follow(stage, request, chosen, rest)
  BY <1>1, KeptBefore
<1>4. Follow("call", request, next, others)
  BY <1>3 DEF Follow, Given, Serves
<1> QED BY <1>1, <1>2, <1>4, RequestMoves

LEMMA NextKeeps ==
  ASSUME RoutingInvariant, Failover \/ NextProposer \/ SubstituteArbiter
  PROVE  RoutingInvariant'
<1>1. stage \in Given
  BY DEF Failover, NextProposer, SubstituteArbiter, Given
<1>2. PICK next \in rest : Follows(next) /\ rest' \in {rest \ {next}, {}}
  BY DEF Failover, NextProposer, SubstituteArbiter
<1>3. PICK others : rest' = others /\ others \subseteq rest
  BY <1>2
<1> QED BY <1>1, <1>2, <1>3, FollowsKeeps

LEMMA EndKeeps ==
  ASSUME RoutingInvariant, GiveUpRequest \/ Finish
  PROVE  RoutingInvariant'
<1>1. /\ RoutingIsTyped /\ RequestIsKept /\ seen' = {}
      /\ UNCHANGED <<home, offered, history, request, chosen, rest, reloads>>
  BY DEF RoutingInvariant, GiveUpRequest, Finish, ShowsNobody
<1>2. HistoryIsTyped'
  BY <1>1 DEF RoutingIsTyped, HistoryIsTyped, Length
<1>3. PICK at : at = stage' /\ at \in {"failed", "idle"}
  BY DEF GiveUpRequest, Finish
<1>4. Follow(at, request, chosen, rest)
  BY <1>3 DEF Follow, Given
<1> QED BY <1>1, <1>2, <1>3, <1>4, RequestMoves

LEMMA MeasureKeeps ==
  ASSUME RoutingInvariant, Measure
  PROVE  RoutingInvariant'
<1>1. /\ RoutingIsTyped /\ RequestIsKept /\ HistoryIsTyped /\ Probeable(request)
      /\ stage' = "idle" /\ UNCHANGED <<home, offered, request, chosen, rest, reloads>>
  BY DEF RoutingInvariant, Measure, RoutingIsTyped, HistoryIsTyped
<1>2. PICK local \in BOOLEAN : \E m \in Aspirants(local), out \in {"ok", "bad", "odd"} :
        seen' = {Reader("measure", m)} /\ Recorded(m, "shadow_probe", out)
  BY DEF Measure, Shows
<1> PICK m \in Aspirants(local), out \in {"ok", "bad", "odd"} :
        seen' = {Reader("measure", m)} /\ Recorded(m, "shadow_probe", out)
  BY <1>2
<1>3. m \in Entries /\ Within(request, Reader("measure", m))
  BY <1>1, MeasureWithin
<1>4. HistoryIsTyped'
  BY <1>1, <1>3, RecordedKeeps
<1>5. \A s \in seen' : Within(request, s) /\ s.entry \in Entries \cup {Laya, Nobody}
  BY <1>3, ReaderFields
<1>6. Follow("idle", request, chosen, rest)
  BY DEF Follow, Given
<1> QED BY <1>1, <1>4, <1>5, <1>6, RequestMoves

LEMMA ForgetKeeps ==
  ASSUME RoutingInvariant, Forget
  PROVE  RoutingInvariant'
<1>1. /\ RoutingIsTyped /\ RequestIsKept /\ HistoryIsTyped /\ seen' = {}
      /\ UNCHANGED <<home, offered, request, stage, chosen, rest, reloads>>
  BY DEF RoutingInvariant, Forget, ShowsNobody, RoutingIsTyped, HistoryIsTyped
<1>2. PICK m \in Entries : history[m] # << >> /\ history' = [history EXCEPT ![m] = Tail(@)]
  BY DEF Forget
<1>3. history[m] \in Seq(Invocation)
  BY <1>1 DEF HistoryIsTyped
<1>4. /\ Tail(history[m]) \in Seq(Invocation) /\ Len(Tail(history[m])) = Len(history[m]) - 1
      /\ Len(history[m]) \in Nat
  BY <1>2, <1>3
<1>5. history' \in [Entries -> Seq(Invocation)]
  BY <1>1, <1>2, <1>4 DEF HistoryIsTyped
<1>6. ASSUME NEW n \in Entries
      PROVE  Len(history'[n]) <= Len(history[n])
  <2>1. CASE n = m
    <3>1. history'[n] = Tail(history[m])
      BY <1>1, <1>2, <2>1 DEF HistoryIsTyped
    <3> QED BY <1>4, <2>1, <3>1
  <2>2. CASE n # m
    <3>1. history'[n] = history[n] /\ history[n] \in Seq(Invocation)
      BY <1>1, <1>2, <2>2 DEF HistoryIsTyped
    <3>2. Len(history[n]) \in Nat
      BY <3>1
    <3> QED BY <3>1, <3>2
  <2> QED BY <2>1, <2>2
<1>7. HistoryIsTyped'
  BY <1>1, <1>5, <1>6, HistoryShrinks
<1>8. Follow(stage, request, chosen, rest)
  BY <1>1, KeptBefore
<1>9. stage \in {"check", "turn"} /\ ~(reloads').late =>
        MayLeave(request) \/ home[chosen.entry] = "local"
  BY <1>1 DEF RequestIsKept
<1> QED BY <1>1, <1>7, <1>8, <1>9, RequestMoves

LEMMA ReloadKeeps ==
  ASSUME RoutingInvariant, ReloadProviders
  PROVE  RoutingInvariant'
<1>1. /\ RoutingIsTyped /\ RequestIsKept /\ HistoryIsTyped /\ seen' = {}
      /\ UNCHANGED <<request, stage, chosen, rest>>
      /\ reloads' = [count |-> reloads.count + 1, late |-> TRUE]
  BY DEF RoutingInvariant, ReloadProviders, ShowsNobody, RoutingIsTyped, HistoryIsTyped
<1>2. /\ (home \in [Entries -> {"local", "near", "cloud"}] /\ offered \subseteq Entries)'
      /\ (\A m \in Entries : ProviderOf[m] = "larm" => home[m] = "local")'
      /\ HistoryIsTyped'
  <2>1. CASE \E m \in Movable, h \in {"local", "near", "cloud"} :
               /\ home' = [home EXCEPT ![m] = h] /\ UNCHANGED offered
               /\ history' = IF (h = "local") = (home[m] = "local") THEN history
                              ELSE [history EXCEPT ![m] = <<>>]
    <3>1. PICK m \in Movable, h \in {"local", "near", "cloud"} :
               /\ home' = [home EXCEPT ![m] = h] /\ UNCHANGED offered
               /\ history' = IF (h = "local") = (home[m] = "local") THEN history
                              ELSE [history EXCEPT ![m] = <<>>]
      BY <2>1
    <3>2. m \in Entries /\ ProviderOf[m] # "larm"
      BY RoutingAssumption
    <3>3. home' \in [Entries -> {"local", "near", "cloud"}] /\ offered' \subseteq Entries
      BY <1>1, <3>1 DEF RoutingIsTyped
    <3>4. \A n \in Entries : ProviderOf[n] = "larm" => home'[n] = "local"
      BY <1>1, <3>1, <3>2 DEF RoutingIsTyped
    <3>5. HistoryIsTyped'
      <4>1. CASE history' = history
        BY <1>1, <4>1 DEF HistoryIsTyped, Length
      <4>2. CASE history' = [history EXCEPT ![m] = <<>>]
        <5> << >> \in Seq(Invocation) /\ history \in [Entries -> Seq(Invocation)]
          BY <1>1 DEF HistoryIsTyped
        <5>1. history' \in [Entries -> Seq(Invocation)]
          BY <4>2
        <5>2. ASSUME NEW n \in Entries
              PROVE  Len(history'[n]) <= Len(history[n])
          <6>1. history'[n] = << >> \/ history'[n] = history[n]
            BY <1>1, <4>2 DEF HistoryIsTyped
          <6>2. history[n] \in Seq(Invocation)
            BY <1>1 DEF HistoryIsTyped
          <6>3. Len(history[n]) \in Nat
            BY <6>2
          <6> QED BY <6>1, <6>3
        <5> QED BY <1>1, <5>1, <5>2, HistoryShrinks
      <4> QED BY <3>1, <4>1, <4>2
    <3> QED BY <3>3, <3>4, <3>5
  <2>2. CASE \E m \in Fleeting : offered' = offered \ {m} /\ UNCHANGED <<home, history>>
    <3>1. HistoryIsTyped'
      BY <1>1, <2>2 DEF HistoryIsTyped, Length
    <3>2. home' = home /\ offered' \subseteq offered
      BY <2>2
    <3>3. (\A m \in Entries : ProviderOf[m] = "larm" => home[m] = "local")'
      BY <1>1, <3>2 DEF RoutingIsTyped
    <3>4. (home \in [Entries -> {"local", "near", "cloud"}] /\ offered \subseteq Entries)'
      BY <1>1, <3>2 DEF RoutingIsTyped
    <3> QED BY <3>1, <3>3, <3>4
  <2> QED BY <2>1, <2>2 DEF ReloadProviders
<1>3. PICK r : r = request
  OBVIOUS
<1>4. PICK at : at = stage
  OBVIOUS
<1>5. PICK ref : ref = chosen
  OBVIOUS
<1>6. PICK others : others = rest
  OBVIOUS
<1>7. Follow(at, r, ref, others)
  BY <1>1, <1>3, <1>4, <1>5, <1>6, KeptBefore
<1>8. (reloads').late
  BY <1>1
<1>9. RequestIsKept'
  BY <1>1, <1>3, <1>4, <1>5, <1>6, <1>7, <1>8, KeptAfter
<1>10. RoutingIsTyped'
  <2>1. request' \in Requests \cup {Nobody} /\ (reloads \in [count : Nat, late : BOOLEAN])'
    BY <1>1 DEF RoutingIsTyped
  <2> QED BY <1>1, <1>2, <2>1 DEF RoutingIsTyped, HistoryIsTyped
<1>11. BoundaryIsKept'
  BY <1>1 DEF BoundaryIsKept
<1> QED BY <1>9, <1>10, <1>11 DEF RoutingInvariant

LEMMA RoutingKeeps ==
  ASSUME RoutingInvariant, RoutingNext \/ UNCHANGED routingVars
  PROVE  RoutingInvariant'
<1>1. CASE UNCHANGED routingVars
  <2>1. UNCHANGED <<home, offered, history, request, stage, chosen, rest, seen, reloads>>
    BY <1>1 DEF routingVars
  <2>2. HistoryIsTyped'
    BY <2>1 DEF RoutingInvariant, RoutingIsTyped, HistoryIsTyped, Length
  <2>3. RoutingIsTyped'
    BY <2>1, <2>2 DEF RoutingInvariant, RoutingIsTyped, HistoryIsTyped
  <2>4. Follow(stage, request, chosen, rest)
    BY KeptBefore DEF RoutingInvariant
  <2>5. stage \in {"check", "turn"} /\ ~(reloads').late =>
          MayLeave(request) \/ home[chosen.entry] = "local"
    BY <2>1 DEF RoutingInvariant, RequestIsKept
  <2>6. \A s \in seen' : Within(request, s) /\ s.entry \in Entries \cup {Laya, Nobody}
    BY <2>1 DEF RoutingInvariant, BoundaryIsKept, Within, RoutingIsTyped
  <2> QED BY <2>1, <2>2, <2>4, <2>5, <2>6, RequestMoves
<1>2. CASE RoutingNext
  BY <1>2, ReceiveKeeps, SelectKeeps, NamedKeeps, ClassifyKeeps, RouteKeeps, CallKeeps,
     CheckKeeps, TurnKeeps, NextKeeps, EndKeeps, MeasureKeeps, ReloadKeeps, ForgetKeeps
     DEF RoutingNext
<1> QED BY <1>1, <1>2

LEMMA RoutingBegins ==
  ASSUME RoutingInit
  PROVE  RoutingInvariant
<1>1. /\ home \in [Entries -> {"local", "cloud"}]
      /\ \A m \in Entries : ProviderOf[m] = "larm" => home[m] = "local"
      /\ offered = Entries /\ history = [m \in Entries |-> <<>>]
      /\ request = Nobody /\ stage = "idle" /\ seen = {}
      /\ reloads = [count |-> 0, late |-> FALSE]
  BY DEF RoutingInit
<1>2. history \in [Entries -> Seq(Invocation)]
  BY <1>1
<1>3. Length = {}
  <2>1. \A m \in Entries : DOMAIN history[m] = {}
    BY <1>1
  <2> QED BY <2>1 DEF Length
<1>4. IsFiniteSet(Length) /\ Cardinality(Length) <= MaxHistory
  BY <1>3, FS_EmptySet, RoutingAssumption
<1>5. RoutingIsTyped
  BY <1>1, <1>2, <1>4 DEF RoutingIsTyped
<1>6. RequestIsKept
  BY <1>1 DEF RequestIsKept, Given
<1>7. BoundaryIsKept
  BY <1>1 DEF BoundaryIsKept
<1> QED BY <1>5, <1>6, <1>7 DEF RoutingInvariant

----------------------------------------------------------------------------
(* The models in memory.                                                   *)

LEMMA Products ==
  ASSUME NEW a \in Nat, NEW b \in Nat, NEW c \in Nat
  PROVE  /\ a * c \in Nat /\ (a <= b => a * c <= b * c)
         /\ c > 0 => a \div c \in Nat /\ (a \div c) * c <= a /\ a < (a \div c) * c + c
OBVIOUS

LEMMA Quotients ==
  ASSUME NEW a \in Nat, NEW b \in Nat, NEW c \in Nat, c > 0, a <= b * c
  PROVE  a \div c <= b
<1> DEFINE q == a \div c
<1>1. q \in Nat /\ q * c <= a
  BY Products
<1> HIDE DEF q
<1>2. SUFFICES ASSUME b + 1 <= q PROVE FALSE
  BY <1>1 DEF q
<1>3. (b + 1) * c <= q * c /\ b * c \in Nat
  BY <1>1, <1>2, Products
<1>4. (b + 1) * c = b * c + c
  OBVIOUS
<1> QED BY <1>1, <1>3, <1>4

\* A model with a plan takes its size or what its layers take, within the budget.
LEMMA PlansFit ==
  ASSUME NEW m \in Loadable
  PROVE  GpuBytes(m) \in Nat /\ GpuBytes(m) <= Budget
<1>1. m \in Models /\ Fits(m) /\ Size[m] \in Nat /\ Layers[m] \in Nat /\ Budget \in Nat
  BY ResidencyAssumption DEF Loadable
<1>2. CASE Size[m] <= Budget
  BY <1>1, <1>2 DEF GpuBytes
<1>3. CASE ~(Size[m] <= Budget)
  <2> DEFINE l == Layers[m]  z == Size[m]  q == (Budget * l) \div z  n == GpuLayers(m)
  <2>1. l > 0 /\ z > 0
    BY <1>1, <1>3 DEF Fits
  <2>2. l \in Nat /\ z \in Nat
    BY <1>1
  <2>3. n = Min({l, q})
    BY DEF GpuLayers
  <2>4. GpuBytes(m) = (n * z) \div l
    BY <1>3 DEF GpuBytes
  <2> HIDE DEF l, z, n
  <2>5. Budget * l \in Nat
    BY <1>1, <2>2, Products
  <2>6. q \in Nat /\ q * z <= Budget * l
    BY <2>1, <2>2, <2>5, Products
  <2> HIDE DEF q
  <2>7. n \in {l, q} /\ n <= q
    <3>1. {l, q} \in SUBSET Nat /\ {l, q} # {}
      BY <2>2, <2>6
    <3>2. PICK x \in {l, q} : \A y \in {l, q} : x <= y
      BY <3>1, SomethingLeast
    <3> QED BY <2>3, <3>2 DEF Min
  <2>8. n * z \in Nat /\ n * z <= q * z /\ q * z \in Nat
    BY <2>2, <2>6, <2>7, Products
  <2>9. n * z <= Budget * l
    BY <2>5, <2>6, <2>8
  <2> QED BY <1>1, <2>1, <2>2, <2>4, <2>8, <2>9, Products, Quotients
<1> QED BY <1>2, <1>3

Weight == [m \in Loadable |-> GpuBytes(m)]
Bytes(s) == MapThenSumSet(GpuBytes, s)

LEMMA LoadableAreFinite ==
  /\ IsFiniteSet(Loadable) /\ Weight \in [Loadable -> Nat]
  /\ \A s \in SUBSET Models : IsFiniteSet(s)
<1>1. \A s \in SUBSET Models : IsFiniteSet(s)
  BY ResidencyAssumption, FS_Subset
<1>2. Loadable \in SUBSET Models
  BY DEF Loadable
<1> QED BY <1>1, <1>2, PlansFit DEF Weight

\* The sum takes the bytes of one model and those of the others.
LEMMA WeightsTake ==
  ASSUME NEW h, Sums(h, Weight, Loadable)
  PROVE  /\ \A s \in SUBSET Loadable : h[s] \in Nat
         /\ \A s \in SUBSET Loadable : \A x \in s : h[s] = Weight[x] + h[s \ {x}]
<1>1. IsFiniteSet(Loadable) /\ Weight \in [Loadable -> Nat]
  BY LoadableAreFinite
<1>2. /\ \A r \in SUBSET Loadable : h[r] \in Nat /\ IsFiniteSet(r)
      /\ \A r \in SUBSET Loadable : \A x \in r : h[r] = Weight[x] + h[r \ {x}]
  BY <1>1, SumsTake, FS_Subset
<1> QED BY <1>2

LEMMA BytesAreSums ==
  ASSUME NEW h, Sums(h, Weight, Loadable), NEW s \in SUBSET Loadable
  PROVE  Bytes(s) = h[s]
<1> DEFINE Step(it, r) == IF r = {} THEN 0 ELSE GpuBytes(One(r)) + it[r \ {One(r)}]
           Iter(it) == it = [r \in SUBSET s |-> Step(it, r)]
           k == CHOOSE it : Iter(it)
<1>1. IsFiniteSet(s)
  BY LoadableAreFinite, FS_Subset
<1>2. \A it : Iter(it) <=> Sums(it, Weight, s)
  <2>1. ASSUME NEW it, NEW r \in SUBSET s
        PROVE  Step(it, r) = IF r = {} THEN 0 ELSE Weight[One(r)] + it[r \ {One(r)}]
    <3>1. CASE r = {}
      BY <3>1
    <3>2. CASE r # {}
      <4>1. One(r) \in Loadable
        BY <3>2, OneIsIn
      <4> QED BY <3>2, <4>1 DEF Weight
    <3> QED BY <3>1, <3>2
  <2> HIDE DEF Step
  <2> QED BY <2>1 DEF Sums
<1>3. PICK it : Sums(it, Weight, s)
  BY <1>1, SumsExist
<1>4. Iter(k)
  <2>1. Iter(it)
    BY <1>2, <1>3
  <2> HIDE DEF Iter
  <2> QED BY <2>1
<1>5. Sums(k, Weight, s)
  <2> HIDE DEF k, Iter
  <2> QED BY <1>2, <1>4
<1>6. Bytes(s) = k[s]
  BY DEF Bytes, MapThenSumSet, MapThenFoldSet, One
<1> HIDE DEF k
<1>7. k[s] = h[s]
  BY <1>1, <1>5, SumsAgree
<1> QED BY <1>6, <1>7

\* What is occupied: whatever is loaded or has a lease.
LEMMA OccupiedAreSums ==
  ASSUME ResidencyIsTyped, SizesAreReserved, NEW h, Sums(h, Weight, Loadable)
  PROVE  Occupied = h[loaded \cup Leased]
<1> DEFINE s == Leased \ loaded
           Step(it, r) == IF r = {} THEN 0 ELSE reserved[One(r)] + it[r \ {One(r)}]
           Iter(it) == it = [r \in SUBSET s |-> Step(it, r)]
           k == CHOOSE it : Iter(it)
<1>1. s \in SUBSET Loadable /\ loaded \in SUBSET Loadable
  BY DEF ResidencyIsTyped
<1>2. IsFiniteSet(s)
  BY <1>1, LoadableAreFinite, FS_Subset
<1>3. \A m \in s : reserved[m] = Weight[m]
  BY <1>1 DEF SizesAreReserved, Leased, Weight, Loadable
<1>4. \A it : Iter(it) <=> Sums(it, reserved, s)
  BY DEF Sums
<1>5. PICK it : Sums(it, reserved, s)
  BY <1>2, SumsExist
<1>6. Iter(k)
  <2>1. Iter(it)
    BY <1>4, <1>5
  <2> HIDE DEF Iter
  <2> QED BY <2>1
<1>7. Sums(k, reserved, s)
  <2> HIDE DEF k, Iter
  <2> QED BY <1>4, <1>6
<1>8. Occupied = Bytes(loaded) + k[s]
  BY DEF Occupied, Bytes, MapThenSumSet, MapThenFoldSet, One
<1> HIDE DEF k
<1>9. k[s] = h[s]
  <2> HIDE DEF s
  <2> QED BY <1>1, <1>2, <1>3, <1>7, SumsAgree
<1>10. Bytes(loaded) = h[loaded]
  BY <1>1, BytesAreSums
<1>11. h[loaded \cup s] = h[loaded] + h[s]
  <2>1. loaded \cap s = {}
    OBVIOUS
  <2> HIDE DEF s
  <2> QED BY <1>1, <2>1, LoadableAreFinite, SumsAdd
<1>12. h[loaded \cup s] = h[loaded \cup Leased]
  <2>1. loaded \cup s = loaded \cup Leased
    OBVIOUS
  <2> QED BY <2>1, Zenon
<1> QED BY <1>8, <1>9, <1>10, <1>11, <1>12

\* What the broker knows to be in memory, or has promised a place to.
Known == (loaded \cup Leased) \ stray

\* The budget and the places for models, of a set of models that may be loaded.
LEMMA KnownIsHeld ==
  ASSUME ResidencyIsTyped, NEW h, Sums(h, Weight, Loadable)
  PROVE  /\ Known \in SUBSET Loadable
         /\ MemoryIsHeld <=>
              /\ h[Known] <= Budget /\ Cardinality(Known \ Pinned) <= Slots
              /\ \A u \in Users : UserAt(u, {"serve"}) => user[u].model \in loaded
<1>1. Known \in SUBSET Loadable
  BY DEF Known, ResidencyIsTyped
<1>2. Bytes(Known) = h[Known]
  BY <1>1, BytesAreSums
<1> QED BY <1>1, <1>2 DEF MemoryIsHeld, Bytes, Known

LEMMA KnownStaysHeld ==
  ASSUME ResidencyInvariant, ResidencyIsTyped', Known' \subseteq Known,
         \A u \in Users : (user')[u].pc = "serve" => (user')[u].model \in loaded'
  PROVE  MemoryIsHeld'
<1>1. ResidencyIsTyped /\ MemoryIsHeld
  BY DEF ResidencyInvariant
<1>2. PICK h : Sums(h, Weight, Loadable)
  BY LoadableAreFinite, SumsExist
<1>3. /\ Known \in SUBSET Loadable /\ h[Known] <= Budget /\ Cardinality(Known \ Pinned) <= Slots
  BY <1>1, <1>2, KnownIsHeld
<1>4. h[Known'] <= Budget
  <2>1. h[Known'] <= h[Known]
    BY <1>2, <1>3, LoadableAreFinite, SumsGrow
  <2>2. h[Known'] \in Nat /\ h[Known] \in Nat /\ Budget \in Nat
    BY <1>2, <1>3, LoadableAreFinite, SumsTake, ResidencyAssumption
  <2> QED BY <1>3, <2>1, <2>2
<1>5. Cardinality(Known' \ Pinned) <= Slots
  <2>1. Known \ Pinned \in SUBSET Models /\ Known' \ Pinned \subseteq Known \ Pinned
    BY <1>3 DEF Loadable
  <2>2. IsFiniteSet(Known \ Pinned)
    BY <2>1, LoadableAreFinite
  <2>3. /\ Cardinality(Known' \ Pinned) <= Cardinality(Known \ Pinned)
        /\ Cardinality(Known' \ Pinned) \in Nat /\ Cardinality(Known \ Pinned) \in Nat
    BY <2>1, <2>2, FS_Subset, FS_CardinalityType
  <2>4. Slots \in Nat
    BY ResidencyAssumption
  <2> QED BY <1>3, <2>3, <2>4
<1>6. (\A u \in Users : UserAt(u, {"serve"}) => user[u].model \in loaded)'
  BY DEF UserAt
<1>7. Bytes(Known') = h[Known']
  BY <1>2, <1>3, BytesAreSums
<1> QED BY <1>4, <1>5, <1>6, <1>7 DEF MemoryIsHeld, Bytes, Known

\* What an action makes of the row of its user.
LEMMA UserFields ==
  ASSUME NEW r \in UserRow
  PROVE  /\ r.pc \in UserPlaces /\ r.model \in Models \cup {None}
         /\ r.evict \in SUBSET Models /\ r.last \in BOOLEAN
BY DEF UserRow

\* The user u goes on to pc with the model m.
Turned(u, pc, m) ==
  /\ user' \in [Users -> UserRow] /\ user'[u].pc = pc /\ user'[u].model = m
  /\ \A v \in Users : v # u => user'[v] = user[v]

LEMMA UserTurns ==
  ASSUME user \in [Users -> UserRow], NEW u \in Users, NEW pc \in UserPlaces
  PROVE  /\ Moves(u, pc) => Turned(u, pc, user[u].model)
         /\ \A m \in Models : user' = [user EXCEPT ![u] = [@ EXCEPT !.model = m, !.pc = pc]] =>
              Turned(u, pc, m)
         /\ \A evict \in SUBSET Models, last \in BOOLEAN :
              /\ user' = [user EXCEPT ![u] = [@ EXCEPT !.pc = pc, !.last = last,
                                                       !.evict = evict]] =>
                   Turned(u, pc, user[u].model)
              /\ user' = [user EXCEPT ![u] = [@ EXCEPT !.last = last, !.evict = evict]] =>
                   Turned(u, user[u].pc, user[u].model)
         /\ \A evict \in SUBSET Models :
              user' = [user EXCEPT ![u].evict = evict] => Turned(u, user[u].pc, user[u].model)
<1>1. user[u] \in UserRow
  OBVIOUS
<1>2. ASSUME NEW r \in UserRow, user' = [user EXCEPT ![u] = r]
      PROVE  Turned(u, r.pc, r.model)
  BY <1>2 DEF Turned
<1>3. Moves(u, pc) => Turned(u, pc, user[u].model)
  <2> SUFFICES ASSUME Moves(u, pc) PROVE Turned(u, pc, user[u].model)
    OBVIOUS
  <2> DEFINE r == [user[u] EXCEPT !.pc = pc]
  <2>1. user' = [user EXCEPT ![u] = r]
    BY DEF Moves
  <2>2. r \in UserRow /\ r.pc = pc /\ r.model = user[u].model
    BY <1>1 DEF UserRow
  <2> HIDE DEF r
  <2>3. Turned(u, r.pc, r.model)
    BY <1>2, <2>1, <2>2
  <2> QED BY <2>2, <2>3
<1>4. ASSUME NEW m \in Models,
             user' = [user EXCEPT ![u] = [@ EXCEPT !.model = m, !.pc = pc]]
      PROVE  Turned(u, pc, m)
  <2> DEFINE r == [user[u] EXCEPT !.model = m, !.pc = pc]
  <2>1. user' = [user EXCEPT ![u] = r]
    BY <1>4
  <2>2. r \in UserRow /\ r.pc = pc /\ r.model = m
    BY <1>1 DEF UserRow
  <2> HIDE DEF r
  <2>3. Turned(u, r.pc, r.model)
    BY <1>2, <2>1, <2>2
  <2> QED BY <2>2, <2>3
<1>5. ASSUME NEW evict \in SUBSET Models, NEW last \in BOOLEAN,
             user' = [user EXCEPT ![u] = [@ EXCEPT !.pc = pc, !.last = last, !.evict = evict]]
      PROVE  Turned(u, pc, user[u].model)
  <2> DEFINE r == [user[u] EXCEPT !.pc = pc, !.last = last, !.evict = evict]
  <2>1. user' = [user EXCEPT ![u] = r]
    BY <1>5
  <2>2. r \in UserRow /\ r.pc = pc /\ r.model = user[u].model
    BY <1>1 DEF UserRow
  <2> HIDE DEF r
  <2>3. Turned(u, r.pc, r.model)
    BY <1>2, <2>1, <2>2
  <2> QED BY <2>2, <2>3
<1>6. ASSUME NEW evict \in SUBSET Models, NEW last \in BOOLEAN,
             user' = [user EXCEPT ![u] = [@ EXCEPT !.last = last, !.evict = evict]]
      PROVE  Turned(u, user[u].pc, user[u].model)
  <2> DEFINE r == [user[u] EXCEPT !.last = last, !.evict = evict]
  <2>1. user' = [user EXCEPT ![u] = r]
    BY <1>6
  <2>2. r \in UserRow /\ r.pc = user[u].pc /\ r.model = user[u].model
    BY <1>1 DEF UserRow
  <2> HIDE DEF r
  <2>3. Turned(u, r.pc, r.model)
    BY <1>2, <2>1, <2>2
  <2> QED BY <2>2, <2>3
<1>7. ASSUME NEW evict \in SUBSET Models, user' = [user EXCEPT ![u].evict = evict]
      PROVE  Turned(u, user[u].pc, user[u].model)
  <2> DEFINE r == [user[u] EXCEPT !.evict = evict]
  <2>1. user' = [user EXCEPT ![u] = r]
    BY <1>7
  <2>2. r \in UserRow /\ r.pc = user[u].pc /\ r.model = user[u].model
    BY <1>1 DEF UserRow
  <2> HIDE DEF r
  <2>3. Turned(u, r.pc, r.model)
    BY <1>2, <2>1, <2>2
  <2> QED BY <2>2, <2>3
<1> QED BY <1>3, <1>4, <1>5, <1>6, <1>7

Waiting == {"wait", "check", "evict"}
Borrowing == {"load", "serve", "leave"}

\* Whoever has a lease of a model is counted, so that the model has leases.
LEMMA BorrowedAreLeased ==
  ASSUME ResidencyInvariant, NEW u \in Users, user[u].pc \in Borrowing
  PROVE  /\ user[u].model \in Loadable /\ u \in Borrowers(user[u].model)
         /\ user[u].model \in Leased /\ leases[user[u].model] \in Nat \ {0}
<1> DEFINE m == user[u].model
<1>1. u \in Borrowers(m)
  BY DEF Borrowers, Borrows, UserAt, Borrowing
<1>2. m \in Loadable /\ m \in Models
  BY <1>1 DEF Borrowers, ResidencyInvariant, ResidencyIsTyped, Loadable
<1>3. Cardinality(Borrowers(m)) <= leases[m] /\ leases[m] \in Nat
  BY <1>2 DEF ResidencyInvariant, LeasesAreCounted, ResidencyIsTyped
<1>4. IsFiniteSet(Borrowers(m)) /\ Cardinality(Borrowers(m)) \in Nat
  BY ResidencyAssumption, FS_Subset, FS_CardinalityType DEF Borrowers
<1> HIDE DEF m
<1>5. Cardinality(Borrowers(m)) # 0
  BY <1>1, <1>4, FS_EmptySet
<1>6. leases[m] \in Nat \ {0}
  BY <1>3, <1>4, <1>5
<1>7. m \in Leased
  BY <1>2, <1>6 DEF Leased
<1> QED BY <1>1, <1>2, <1>6, <1>7 DEF m

\* The places of the calls, one by one.
UsersMoved ==
  /\ user' \in [Users -> UserRow]
  /\ \A v \in Users : (user')[v].pc \in Waiting \cup Borrowing => (user')[v].model \in Loadable
  /\ \A v \in Users : (user')[v].pc \in {"check", "evict"} => holder' = v
  /\ \A v \in Users : (user')[v].pc = "serve" => (user')[v].model \in loaded'

\* A step that gives no lease and takes none.
LEMMA ResidencyAfter ==
  ASSUME ResidencyInvariant, UNCHANGED <<leases, reserved>>, UsersMoved,
         \A v \in Users : (user')[v].pc \in Borrowing =>
           user[v].pc \in Borrowing /\ (user')[v].model = user[v].model,
         loaded' \subseteq Loadable, stray' \subseteq Loadable, idle' \subseteq Models,
         holder' \in Users \cup {None, "idle"}, holder' = "idle" => Leased = {},
         Known' \subseteq Known
  PROVE  ResidencyInvariant'
<1>1. ResidencyIsTyped /\ LeasesAreCounted /\ SizesAreReserved
  BY DEF ResidencyInvariant
<1>2. Leased' = Leased
  BY DEF Leased
<1>3. ResidencyIsTyped'
  <2>1. (\A u \in Users : Waits(u) \/ Borrows(u) => user[u].model \in Loadable)'
    BY DEF UsersMoved, Waits, Borrows, UserAt, Waiting, Borrowing
  <2>2. (leases \in [Models -> Nat] /\ Leased \subseteq Loadable)'
    BY <1>1, <1>2 DEF ResidencyIsTyped
  <2> QED BY <2>1, <2>2 DEF ResidencyIsTyped, UsersMoved
<1>4. LeasesAreCounted'
  <2> SUFFICES ASSUME NEW m \in Models PROVE Cardinality(Borrowers(m)') <= leases[m]
    BY DEF LeasesAreCounted
  <2>1. Borrowers(m)' \subseteq Borrowers(m)
    BY DEF Borrowers, Borrows, UserAt, Borrowing
  <2>2. IsFiniteSet(Borrowers(m))
    BY ResidencyAssumption, FS_Subset DEF Borrowers
  <2>3. /\ Cardinality(Borrowers(m)') <= Cardinality(Borrowers(m))
        /\ Cardinality(Borrowers(m)') \in Nat /\ Cardinality(Borrowers(m)) \in Nat
    BY <2>1, <2>2, FS_Subset, FS_CardinalityType
  <2>4. Cardinality(Borrowers(m)) <= leases[m] /\ leases[m] \in Nat
    BY <1>1 DEF LeasesAreCounted, ResidencyIsTyped
  <2> QED BY <2>3, <2>4
<1>5. SizesAreReserved'
  BY <1>1 DEF SizesAreReserved
<1>6. LifecycleIsHeld'
  BY <1>2 DEF LifecycleIsHeld, UsersMoved, UserAt
<1>7. MemoryIsHeld'
  BY <1>3, KnownStaysHeld DEF UsersMoved
<1> QED BY <1>3, <1>4, <1>5, <1>6, <1>7 DEF ResidencyInvariant

\* The step of one user, u, that goes on to pc with the model m.
LEMMA UserAfter ==
  ASSUME ResidencyInvariant, NEW u \in Users, NEW pc \in UserPlaces, NEW m, Turned(u, pc, m),
         UNCHANGED <<leases, reserved, idle>>,
         pc \in Waiting => m \in Loadable,
         pc \in Borrowing => user[u].pc \in Borrowing /\ m = user[u].model,
         pc \in {"check", "evict"} => holder' = u,
         holder' = holder \/ (holder = None /\ holder' = u) \/ (holder = u /\ holder' = None),
         user[u].pc \in {"check", "evict"} /\ holder' = None => pc \notin {"check", "evict"},
         pc = "serve" => m \in loaded',
         \A v \in Users \ {u} : user[v].pc = "serve" /\ user[v].model \in loaded =>
           user[v].model \in loaded',
         loaded' \subseteq Loadable, stray' \subseteq Loadable, Known' \subseteq Known
  PROVE  ResidencyInvariant'
<1>1. /\ ResidencyIsTyped /\ LifecycleIsHeld /\ user' \in [Users -> UserRow]
      /\ (user')[u].pc = pc /\ (user')[u].model = m
      /\ \A v \in Users : v # u => (user')[v] = user[v]
  BY DEF ResidencyInvariant, Turned
<1>2. \A v \in Users : (user')[v].pc \in Borrowing =>
        user[v].pc \in Borrowing /\ (user')[v].model = user[v].model
  BY <1>1
<1>3. \A v \in Users : (user')[v].pc \in Waiting \cup Borrowing => (user')[v].model \in Loadable
  <2> SUFFICES ASSUME NEW v \in Users, (user')[v].pc \in Waiting \cup Borrowing
               PROVE  (user')[v].model \in Loadable
    OBVIOUS
  <2>1. \A w \in Users : user[w].pc \in Waiting \cup Borrowing => user[w].model \in Loadable
    BY <1>1 DEF ResidencyIsTyped, Waits, Borrows, UserAt, Waiting, Borrowing
  <2>2. CASE v = u
    BY <1>1, <2>1, <2>2
  <2>3. CASE v # u
    BY <1>1, <2>1, <2>3
  <2> QED BY <2>2, <2>3
<1>4. \A v \in Users : (user')[v].pc \in {"check", "evict"} => holder' = v
  <2> SUFFICES ASSUME NEW v \in Users, (user')[v].pc \in {"check", "evict"} PROVE holder' = v
    OBVIOUS
  <2>1. \A w \in Users : user[w].pc \in {"check", "evict"} => holder = w
    BY <1>1 DEF LifecycleIsHeld, UserAt
  <2>2. CASE v = u
    BY <1>1, <2>2
  <2>3. CASE v # u
    <3>1. holder = v /\ v # None
      BY <1>1, <2>1, <2>3, ResidencyAssumption
    <3> QED BY <2>3, <3>1
  <2> QED BY <2>2, <2>3
<1>5. \A v \in Users : (user')[v].pc = "serve" => (user')[v].model \in loaded'
  <2>1. \A v \in Users : user[v].pc = "serve" => user[v].model \in loaded
    BY DEF ResidencyInvariant, MemoryIsHeld, UserAt
  <2> QED BY <1>1, <2>1
<1>6. UsersMoved
  BY <1>1, <1>3, <1>4, <1>5 DEF UsersMoved
<1>7. /\ idle' \subseteq Models /\ holder' \in Users \cup {None, "idle"}
      /\ holder' = "idle" => Leased = {}
  <2>1. u # "idle" /\ None # "idle"
    BY ResidencyAssumption
  <2> QED BY <1>1, <2>1, ResidencyAssumption DEF ResidencyIsTyped, LifecycleIsHeld
<1> QED BY <1>2, <1>6, <1>7, ResidencyAfter

LEMMA GreaterOfTwo ==
  ASSUME NEW a \in Nat, NEW b \in Nat, a <= b
  PROVE  Max({a, b}) = b
<1> DEFINE P(x) == x \in {a, b} /\ \A y \in {a, b} : x >= y
<1>1. P(b)
  OBVIOUS
<1>2. Max({a, b}) = CHOOSE x : P(x)
  BY DEF Max
<1>3. P(Max({a, b}))
  <2> HIDE DEF P
  <2> QED BY <1>1, <1>2
<1> QED BY <1>3

\* A model there is room and a place for.
LEMMA KnownGrows ==
  ASSUME ResidencyInvariant, NEW m \in Loadable, RoomFor(m), SlotFor(m), ResidencyIsTyped',
         Known' \subseteq Known \cup {m},
         \A u \in Users : (user')[u].pc = "serve" => (user')[u].model \in loaded'
  PROVE  MemoryIsHeld'
<1> DEFINE all == loaded \cup Leased
<1>1. ResidencyIsTyped /\ MemoryIsHeld /\ SizesAreReserved
  BY DEF ResidencyInvariant
<1>2. PICK h : Sums(h, Weight, Loadable)
  BY LoadableAreFinite, SumsExist
<1>3. /\ Known \in SUBSET Loadable /\ Cardinality(Known \ Pinned) <= Slots
      /\ all \in SUBSET Loadable /\ Known \subseteq all
      /\ all \cup {m} \in SUBSET Loadable
  BY <1>1, <1>2, KnownIsHeld DEF Known, ResidencyIsTyped
<1>4. h[all] + GpuBytes(m) <= Budget
  BY <1>1, <1>2, OccupiedAreSums DEF RoomFor
<1>5. /\ Known' \in SUBSET (all \cup {m}) /\ TakenSlots = all \ Pinned
  BY <1>3 DEF TakenSlots
<1> HIDE DEF all
<1>6. /\ \A s \in SUBSET Loadable : h[s] \in Nat
      /\ GpuBytes(m) \in Nat /\ Budget \in Nat /\ Slots \in Nat
  BY <1>2, LoadableAreFinite, SumsTake, ResidencyAssumption, PlansFit
<1>7. h[all \cup {m}] <= h[all] + GpuBytes(m)
  <2>1. CASE m \in all
    <3>1. all \cup {m} = all
      BY <2>1
    <3>2. h[all \cup {m}] = h[all] /\ h[all] \in Nat
      BY <1>3, <1>6, <3>1, Zenon
    <3> DEFINE sum == h[all]  more == h[all \cup {m}]  bytes == GpuBytes(m)
    <3>3. more = sum /\ sum \in Nat /\ bytes \in Nat
      BY <1>6, <3>2
    <3> HIDE DEF sum, more, bytes
    <3>4. more <= sum + bytes
      BY <3>3
    <3> QED BY <3>4 DEF sum, more, bytes
  <2>2. CASE m \notin all
    <3> m \in all \cup {m}
      OBVIOUS
    <3>1. h[all \cup {m}] = Weight[m] + h[(all \cup {m}) \ {m}]
      BY <1>2, <1>3, WeightsTake, Zenon
    <3>2. (all \cup {m}) \ {m} = all
      BY <2>2
    <3>3. h[(all \cup {m}) \ {m}] = h[all] /\ h[all] \in Nat
      BY <1>3, <1>6, <3>2, Zenon
    <3>4. Weight[m] = GpuBytes(m)
      BY DEF Weight
    <3> QED BY <1>6, <3>1, <3>3, <3>4
  <2> QED BY <2>1, <2>2
<1>8. h[Known'] <= Budget
  <2>1. h[Known'] <= h[all \cup {m}]
    BY <1>2, <1>3, <1>5, LoadableAreFinite, SumsGrow
  <2>2. h[Known'] \in Nat /\ h[all \cup {m}] \in Nat /\ h[all] \in Nat
    BY <1>3, <1>5, <1>6
  <2> QED BY <1>4, <1>6, <1>7, <2>1, <2>2
<1>9. Cardinality(Known' \ Pinned) <= Slots
  <2>1. IsFiniteSet(Known \ Pinned) /\ IsFiniteSet(all \ Pinned)
    <3>1. Known \ Pinned \in SUBSET Models /\ all \ Pinned \in SUBSET Models
      BY <1>3 DEF Loadable
    <3> QED BY <3>1, LoadableAreFinite
  <2>2. CASE m \in Pinned
    <3>1. Known' \ Pinned \subseteq Known \ Pinned
      BY <2>2
    <3>2. /\ Cardinality(Known' \ Pinned) <= Cardinality(Known \ Pinned)
          /\ Cardinality(Known' \ Pinned) \in Nat /\ Cardinality(Known \ Pinned) \in Nat
      BY <2>1, <3>1, FS_Subset, FS_CardinalityType
    <3> QED BY <1>3, <1>6, <3>2
  <2>3. CASE m \notin Pinned
    <3> DEFINE taken == all \ Pinned
    <3>1. Cardinality(taken) < Slots
      BY <1>5, <2>3 DEF SlotFor
    <3>2. Known' \ Pinned \subseteq taken \cup {m}
      BY <1>5
    <3> HIDE DEF taken
    <3>3. IsFiniteSet(taken) /\ Cardinality(taken) \in Nat
      BY <2>1, FS_CardinalityType DEF taken
    <3>4. /\ IsFiniteSet(taken \cup {m})
          /\ Cardinality(taken \cup {m}) =
               IF m \in taken THEN Cardinality(taken) ELSE Cardinality(taken) + 1
      BY <3>3, FS_AddElement, Zenon
    <3>5. /\ Cardinality(Known' \ Pinned) <= Cardinality(taken \cup {m})
          /\ Cardinality(Known' \ Pinned) \in Nat
      BY <3>2, <3>4, FS_Subset, FS_CardinalityType
    <3>6. Cardinality(taken \cup {m}) <= Slots /\ Cardinality(taken \cup {m}) \in Nat
      BY <1>6, <3>1, <3>3, <3>4
    <3> QED BY <1>6, <3>5, <3>6
  <2> QED BY <2>2, <2>3
<1>10. (\A u \in Users : UserAt(u, {"serve"}) => user[u].model \in loaded)'
  BY DEF UserAt
<1>11. Bytes(Known') = h[Known']
  <2>1. Known' \in SUBSET Loadable
    BY <1>3, <1>5
  <2> QED BY <1>2, <2>1, BytesAreSums
<1> QED BY <1>8, <1>9, <1>10, <1>11 DEF MemoryIsHeld, Bytes, Known

LEMMA AdmitKeeps ==
  ASSUME ResidencyInvariant, NEW u \in Users, user[u].pc \in {"check", "evict"}, Admit(u),
         user[u].model \in loaded \/ (RoomFor(user[u].model) /\ SlotFor(user[u].model)),
         UNCHANGED <<loaded, idle>>
  PROVE  ResidencyInvariant'
<1>1. PICK m : m = user[u].model
  OBVIOUS
<1>2. /\ ResidencyIsTyped /\ LeasesAreCounted /\ SizesAreReserved /\ LifecycleIsHeld
  BY DEF ResidencyInvariant
<1>3. m \in Loadable /\ m \in Models
  BY <1>1, <1>2 DEF ResidencyIsTyped, Waits, UserAt, Loadable
<1>4. /\ leases' = [leases EXCEPT ![m] = @ + 1]
      /\ reserved' = [reserved EXCEPT ![m] = Max({@, GpuBytes(m)})]
      /\ stray' = IF m \in loaded THEN stray ELSE stray \ {m}
      /\ holder' = None /\ Moves(u, "load")
  BY <1>1 DEF Admit
<1>5. Turned(u, "load", m)
  BY <1>1, <1>2, <1>4, UserTurns DEF ResidencyIsTyped, UserPlaces
<1>6. /\ leases' \in [Models -> Nat] /\ leases \in [Models -> Nat]
      /\ leases'[m] = leases[m] + 1 /\ \A n \in Models : n # m => leases'[n] = leases[n]
  BY <1>2, <1>3, <1>4 DEF ResidencyIsTyped
<1>7. Leased' = Leased \cup {m}
  BY <1>3, <1>6 DEF Leased
<1>8. SizesAreReserved'
  <2>1. reserved = [n \in Models |-> IF leases[n] > 0 THEN GpuBytes(n) ELSE 0]
    BY <1>2 DEF SizesAreReserved
  <2>2. reserved[m] \in {0, GpuBytes(m)} /\ GpuBytes(m) \in Nat
    BY <1>3, <2>1, PlansFit
  <2>3. reserved[m] \in Nat /\ reserved[m] <= GpuBytes(m)
    BY <2>2
  <2>4. Max({reserved[m], GpuBytes(m)}) = GpuBytes(m)
    BY <2>2, <2>3, GreaterOfTwo
  <2>5. reserved' = [reserved EXCEPT ![m] = GpuBytes(m)]
    BY <1>4, <2>4
  <2>6. leases'[m] > 0
    BY <1>3, <1>6
  <2>7. reserved' = [n \in Models |-> IF leases'[n] > 0 THEN GpuBytes(n) ELSE 0]
    BY <1>3, <1>6, <2>1, <2>5, <2>6
  <2> QED BY <2>7 DEF SizesAreReserved
<1>9. /\ user' \in [Users -> UserRow] /\ (user')[u].pc = "load" /\ (user')[u].model = m
      /\ \A v \in Users : v # u => (user')[v] = user[v]
  BY <1>5 DEF Turned
<1>10. ResidencyIsTyped'
  <2>1. (\A v \in Users : Waits(v) \/ Borrows(v) => user[v].model \in Loadable)'
    BY <1>2, <1>3, <1>9 DEF ResidencyIsTyped, Waits, Borrows, UserAt
  <2>2. (leases \in [Models -> Nat] /\ Leased \subseteq Loadable)'
    BY <1>2, <1>3, <1>6, <1>7 DEF ResidencyIsTyped
  <2>3. (loaded \subseteq Loadable /\ stray \subseteq Loadable /\ idle \subseteq Models)'
    BY <1>2, <1>4 DEF ResidencyIsTyped
  <2> QED BY <1>4, <1>9, <2>1, <2>2, <2>3 DEF ResidencyIsTyped
<1>11. LeasesAreCounted'
  <2> SUFFICES ASSUME NEW n \in Models PROVE Cardinality(Borrowers(n)') <= leases'[n]
    BY DEF LeasesAreCounted
  <2>1. IsFiniteSet(Borrowers(n)) /\ Cardinality(Borrowers(n)) \in Nat
    BY ResidencyAssumption, FS_Subset, FS_CardinalityType DEF Borrowers
  <2>2. Cardinality(Borrowers(n)) <= leases[n] /\ leases[n] \in Nat
    BY <1>2, <1>6 DEF LeasesAreCounted
  <2>3. Borrowers(n)' \subseteq Borrowers(n) \cup (IF n = m THEN {u} ELSE {})
    BY <1>9 DEF Borrowers, Borrows, UserAt
  <2>4. CASE n # m
    <3>1. Borrowers(n)' \subseteq Borrowers(n) /\ leases'[n] = leases[n]
      BY <1>6, <2>3, <2>4
    <3>2. /\ Cardinality(Borrowers(n)') <= Cardinality(Borrowers(n))
          /\ Cardinality(Borrowers(n)') \in Nat
      BY <2>1, <3>1, FS_Subset, FS_CardinalityType
    <3> QED BY <2>1, <2>2, <3>1, <3>2
  <2>5. CASE n = m
    <3>1. Borrowers(n)' \subseteq Borrowers(n) \cup {u} /\ leases'[n] = leases[n] + 1
      BY <1>6, <2>3, <2>5
    <3>2. /\ IsFiniteSet(Borrowers(n) \cup {u})
          /\ Cardinality(Borrowers(n) \cup {u}) =
               IF u \in Borrowers(n) THEN Cardinality(Borrowers(n)) ELSE Cardinality(Borrowers(n)) + 1
      BY <2>1, FS_AddElement, Zenon
    <3>3. /\ Cardinality(Borrowers(n)') <= Cardinality(Borrowers(n) \cup {u})
          /\ Cardinality(Borrowers(n)') \in Nat /\ Cardinality(Borrowers(n) \cup {u}) \in Nat
      BY <3>1, <3>2, FS_Subset, FS_CardinalityType
    <3> QED BY <2>1, <2>2, <3>1, <3>2, <3>3
  <2> QED BY <2>4, <2>5
<1>12. LifecycleIsHeld'
  <2>1. holder = u
    BY <1>2 DEF LifecycleIsHeld, UserAt
  <2>2. (\A v \in Users : UserAt(v, {"check", "evict"}) => holder = v)'
    BY <1>2, <1>9, <2>1 DEF LifecycleIsHeld, UserAt
  <2>3. holder' # "idle"
    BY <1>4, ResidencyAssumption
  <2> QED BY <2>2, <2>3 DEF LifecycleIsHeld
<1>13. \A v \in Users : (user')[v].pc = "serve" => (user')[v].model \in loaded'
  BY <1>9 DEF ResidencyInvariant, MemoryIsHeld, UserAt
<1>14. MemoryIsHeld'
  <2>1. CASE m \in loaded
    <3>1. Known' \subseteq Known
      BY <1>4, <1>7, <2>1 DEF Known
    <3> QED BY <1>10, <1>13, <3>1, KnownStaysHeld
  <2>2. CASE m \notin loaded
    <3>1. Known' \subseteq Known \cup {m}
      BY <1>4, <1>7, <2>2 DEF Known
    <3>2. RoomFor(m) /\ SlotFor(m)
      BY <1>1, <2>2
    <3> QED BY <1>3, <1>10, <1>13, <3>1, <3>2, KnownGrows
  <2> QED BY <2>1, <2>2
<1> QED BY <1>8, <1>10, <1>11, <1>12, <1>14 DEF ResidencyInvariant

\* The end of a lease: with the last one of a model nobody else is served by it.
LEMMA EndLeaseKeeps ==
  ASSUME ResidencyInvariant, NEW u \in Users, EndLease(u)
  PROVE  ResidencyInvariant'
<1>1. PICK m : m = user[u].model
  OBVIOUS
<1>2. ResidencyIsTyped /\ LeasesAreCounted /\ SizesAreReserved /\ LifecycleIsHeld
  BY DEF ResidencyInvariant
<1>3. user[u].pc = "leave"
  BY DEF EndLease, UserAt
<1>4. /\ m \in Loadable /\ m \in Models /\ u \in Borrowers(m) /\ m \in Leased
      /\ leases[m] \in Nat \ {0}
  BY <1>1, <1>3, BorrowedAreLeased DEF Borrowing, Loadable
<1>5. /\ holder = None /\ Moves(u, "done") /\ UNCHANGED <<holder, idle>>
      /\ leases' = [leases EXCEPT ![m] = @ - 1]
  BY <1>1 DEF EndLease
<1>6. \/ leases[m] > 1 /\ UNCHANGED <<reserved, loaded, stray>>
      \/ /\ ~(leases[m] > 1) /\ reserved' = [reserved EXCEPT ![m] = 0]
         /\ \/ loaded' = loaded \ {m} /\ stray' = stray \ {m}
            \/ UNCHANGED <<loaded, stray>>
  BY <1>1 DEF EndLease
<1>7. /\ leases' \in [Models -> Nat] /\ leases \in [Models -> Nat]
      /\ leases'[m] = leases[m] - 1 /\ \A n \in Models : n # m => leases'[n] = leases[n]
  BY <1>2, <1>4, <1>5 DEF ResidencyIsTyped
<1>8. Leased' = IF leases[m] > 1 THEN Leased ELSE Leased \ {m}
  BY <1>4, <1>7 DEF Leased
<1>9. /\ user' \in [Users -> UserRow] /\ (user')[u].pc = "done"
      /\ \A v \in Users : v # u => (user')[v] = user[v]
  <2>1. Turned(u, "done", m)
    BY <1>1, <1>2, <1>5, UserTurns DEF ResidencyIsTyped, UserPlaces
  <2> QED BY <2>1 DEF Turned
<1>10. ResidencyIsTyped'
  <2>1. (\A v \in Users : Waits(v) \/ Borrows(v) => user[v].model \in Loadable)'
    BY <1>2, <1>9 DEF ResidencyIsTyped, Waits, Borrows, UserAt
  <2>2. (leases \in [Models -> Nat] /\ Leased \subseteq Loadable)'
    BY <1>2, <1>7, <1>8 DEF ResidencyIsTyped
  <2>3. (loaded \subseteq Loadable /\ stray \subseteq Loadable /\ idle \subseteq Models)'
    BY <1>2, <1>5, <1>6 DEF ResidencyIsTyped
  <2>4. holder' \in Users \cup {None, "idle"}
    BY <1>5
  <2> QED BY <1>9, <2>1, <2>2, <2>3, <2>4 DEF ResidencyIsTyped
<1>11. /\ IsFiniteSet(Borrowers(m)) /\ Cardinality(Borrowers(m)) \in Nat
       /\ Cardinality(Borrowers(m)) <= leases[m]
       /\ IsFiniteSet(Borrowers(m) \ {u})
       /\ Cardinality(Borrowers(m) \ {u}) = Cardinality(Borrowers(m)) - 1
  <2>1. IsFiniteSet(Borrowers(m))
    BY ResidencyAssumption, FS_Subset DEF Borrowers
  <2>2. /\ IsFiniteSet(Borrowers(m) \ {u})
        /\ Cardinality(Borrowers(m) \ {u}) = Cardinality(Borrowers(m)) - 1
    BY <1>4, <2>1, FS_RemoveElement, Zenon
  <2> QED BY <1>2, <1>4, <2>1, <2>2, FS_CardinalityType DEF LeasesAreCounted
<1>12. LeasesAreCounted'
  <2> SUFFICES ASSUME NEW n \in Models PROVE Cardinality(Borrowers(n)') <= leases'[n]
    BY DEF LeasesAreCounted
  <2>1. CASE n = m
    <3>1. Borrowers(n)' \subseteq Borrowers(m) \ {u}
      BY <1>9, <2>1 DEF Borrowers, Borrows, UserAt
    <3>2. /\ Cardinality(Borrowers(n)') <= Cardinality(Borrowers(m) \ {u})
          /\ Cardinality(Borrowers(n)') \in Nat
      BY <1>11, <3>1, FS_Subset, FS_CardinalityType
    <3> QED BY <1>4, <1>7, <1>11, <2>1, <3>2
  <2>2. CASE n # m
    <3>1. Borrowers(n)' \subseteq Borrowers(n)
      BY <1>9 DEF Borrowers, Borrows, UserAt
    <3>2. IsFiniteSet(Borrowers(n))
      BY ResidencyAssumption, FS_Subset DEF Borrowers
    <3>3. /\ Cardinality(Borrowers(n)') <= Cardinality(Borrowers(n))
          /\ Cardinality(Borrowers(n)') \in Nat /\ Cardinality(Borrowers(n)) \in Nat
      BY <3>1, <3>2, FS_Subset, FS_CardinalityType
    <3>4. Cardinality(Borrowers(n)) <= leases[n] /\ leases[n] \in Nat
      BY <1>2, <1>7 DEF LeasesAreCounted
    <3> QED BY <1>7, <2>2, <3>3, <3>4
  <2> QED BY <2>1, <2>2
<1>13. SizesAreReserved'
  <2>1. reserved = [n \in Models |-> IF leases[n] > 0 THEN GpuBytes(n) ELSE 0]
    BY <1>2 DEF SizesAreReserved
  <2>2. reserved' = [n \in Models |-> IF leases'[n] > 0 THEN GpuBytes(n) ELSE 0]
    <3>1. CASE leases[m] > 1
      <4>1. \A n \in Models : leases'[n] > 0 <=> leases[n] > 0
        BY <1>4, <1>7, <3>1
      <4> QED BY <1>6, <2>1, <3>1, <4>1
    <3>2. CASE ~(leases[m] > 1)
      <4>1. leases'[m] = 0 /\ reserved' = [reserved EXCEPT ![m] = 0]
        BY <1>4, <1>6, <1>7, <3>2
      <4> QED BY <1>4, <1>7, <2>1, <4>1
    <3> QED BY <3>1, <3>2
  <2> QED BY <2>2 DEF SizesAreReserved
<1>14. LifecycleIsHeld'
  BY <1>2, <1>5, <1>9, ResidencyAssumption DEF LifecycleIsHeld, UserAt
<1>15. \A v \in Users : (user')[v].pc = "serve" => (user')[v].model \in loaded'
  <2> SUFFICES ASSUME NEW v \in Users, (user')[v].pc = "serve"
               PROVE  (user')[v].model \in loaded'
    OBVIOUS
  <2>1. v # u /\ (user')[v] = user[v] /\ user[v].pc = "serve" /\ user[v].model \in loaded
    BY <1>9 DEF ResidencyInvariant, MemoryIsHeld, UserAt
  <2>2. CASE leases[m] > 1
    BY <1>6, <2>1, <2>2
  <2>3. CASE ~(leases[m] > 1)
    <3>1. Cardinality(Borrowers(m) \ {u}) = 0
      <4>1. Cardinality(Borrowers(m)) # 0
        BY <1>4, <1>11, FS_EmptySet
      <4> QED BY <1>4, <1>11, <2>3, <4>1
    <3>2. Borrowers(m) \ {u} = {}
      BY <1>11, <3>1, FS_EmptySet
    <3>3. user[v].model # m
      BY <2>1, <3>2 DEF Borrowers, Borrows, UserAt
    <3> QED BY <1>6, <2>1, <3>3
  <2> QED BY <2>2, <2>3
<1>16. Known' \subseteq Known
  <2>1. CASE leases[m] > 1
    BY <1>6, <1>8, <2>1 DEF Known
  <2>2. CASE ~(leases[m] > 1)
    BY <1>6, <1>8, <2>2 DEF Known
  <2> QED BY <2>1, <2>2
<1>17. MemoryIsHeld'
  BY <1>10, <1>15, <1>16, KnownStaysHeld
<1> QED BY <1>10, <1>12, <1>13, <1>14, <1>17 DEF ResidencyInvariant

\* Another lifecycle: it knows no lease, and every call of the old one ends.
LEMMA ReplaceLifecycleKeeps ==
  ASSUME ResidencyInvariant, ReplaceLifecycle
  PROVE  ResidencyInvariant'
<1>1. ResidencyIsTyped /\ SizesAreReserved /\ LifecycleIsHeld
  BY DEF ResidencyInvariant
<1>2. /\ holder' = None /\ idle' = {} /\ loaded' = loaded
      /\ leases' = [m \in Models |-> 0] /\ reserved' = [m \in Models |-> 0]
  BY DEF ReplaceLifecycle
<1>3. user' = [u \in Users |-> IF user[u].pc = "idle" THEN user[u]
                                 ELSE [user[u] EXCEPT !.pc = "done"]]
  BY DEF ReplaceLifecycle, UserAt
<1>4. /\ user' \in [Users -> UserRow]
      /\ \A u \in Users : (user')[u].pc \in {"idle", "done"}
  <2> SUFFICES ASSUME NEW u \in Users PROVE (user')[u] \in UserRow /\ (user')[u].pc \in {"idle", "done"}
    BY <1>3
  <2>1. user[u] \in UserRow
    BY <1>1 DEF ResidencyIsTyped
  <2>2. [user[u] EXCEPT !.pc = "done"] \in UserRow /\ [user[u] EXCEPT !.pc = "done"].pc = "done"
    BY <2>1 DEF UserRow, UserPlaces
  <2> QED BY <1>3, <2>1, <2>2
<1>5. Leased' = {}
  BY <1>2 DEF Leased
<1>6. stray' \subseteq Loadable /\ stray \subseteq stray'
  <2>1. PICK late \in SUBSET ({user[u].model : u \in {v \in Users : UserAt(v, {"load"})}} \ loaded) :
          stray' = stray \cup late
    BY DEF ReplaceLifecycle
  <2>2. late \subseteq Loadable
    BY <1>1 DEF ResidencyIsTyped, Borrows, UserAt
  <2> QED BY <1>1, <2>1, <2>2 DEF ResidencyIsTyped
<1>7. ResidencyIsTyped'
  <2>1. (\A u \in Users : Waits(u) \/ Borrows(u) => user[u].model \in Loadable)'
    BY <1>4 DEF Waits, Borrows, UserAt
  <2>2. (leases \in [Models -> Nat] /\ Leased \subseteq Loadable)'
    BY <1>2, <1>5
  <2> QED BY <1>1, <1>2, <1>4, <1>6, <2>1, <2>2 DEF ResidencyIsTyped
<1>8. LeasesAreCounted'
  <2> SUFFICES ASSUME NEW m \in Models PROVE Cardinality(Borrowers(m)') <= leases'[m]
    BY DEF LeasesAreCounted
  <2>1. Borrowers(m)' = {}
    BY <1>4 DEF Borrowers, Borrows, UserAt
  <2>2. Cardinality(Borrowers(m)') = 0
    BY <2>1, FS_EmptySet
  <2> QED BY <1>2, <2>2
<1>9. SizesAreReserved'
  BY <1>2 DEF SizesAreReserved
<1>10. LifecycleIsHeld'
  BY <1>4, <1>5 DEF LifecycleIsHeld, UserAt
<1>11. MemoryIsHeld'
  <2>1. Known' \subseteq Known
    BY <1>2, <1>5, <1>6 DEF Known
  <2> QED BY <1>4, <1>7, <2>1, KnownStaysHeld
<1> QED BY <1>7, <1>8, <1>9, <1>10, <1>11 DEF ResidencyInvariant

\* A call asks, and has the lock.
LEMMA AskKeeps ==
  ASSUME ResidencyInvariant, NEW u \in Users, Ask(u) \/ Lock(u)
  PROVE  ResidencyInvariant'
<1>1. /\ ResidencyIsTyped
      /\ \A v \in Users : user[v].pc = "serve" => user[v].model \in loaded
  BY DEF ResidencyInvariant, MemoryIsHeld, UserAt
<1>2. UNCHANGED <<leases, reserved, idle, loaded, stray>>
  BY DEF Ask, Lock
<1>3. /\ Leased' = Leased /\ Known' = Known
      /\ loaded' \subseteq Loadable /\ stray' \subseteq Loadable
  BY <1>1, <1>2 DEF Leased, Known, ResidencyIsTyped
<1>4. CASE Ask(u)
  <2>1. PICK m \in Models :
          user' = [user EXCEPT ![u] = [@ EXCEPT !.model = m,
                                                !.pc = IF Fits(m) THEN "wait" ELSE "done"]]
    BY <1>4 DEF Ask
  <2> DEFINE pc == IF Fits(m) THEN "wait" ELSE "done"
  <2>2. /\ pc \in UserPlaces /\ pc \in {"wait", "done"} /\ (pc = "wait" => m \in Loadable)
    BY DEF UserPlaces, Loadable
  <2>3. holder' = holder
    BY <1>4 DEF Ask
  <2> HIDE DEF pc
  <2>4. Turned(u, pc, m)
    BY <1>1, <2>1, <2>2, UserTurns DEF ResidencyIsTyped, pc
  <2>5. /\ pc \in Waiting => m \in Loadable
        /\ pc \notin Borrowing /\ pc \notin {"check", "evict"} /\ pc # "serve"
    BY <2>2 DEF Waiting, Borrowing
  <2> QED BY <1>1, <1>2, <1>3, <2>2, <2>3, <2>4, <2>5, UserAfter
<1>5. CASE Lock(u)
  <2>1. user[u].pc = "wait" /\ holder = None /\ holder' = u /\ Moves(u, "check")
    BY <1>5 DEF Lock, UserAt
  <2>2. user[u].model \in Loadable
    BY <1>1, <2>1 DEF ResidencyIsTyped, Waits, UserAt
  <2>3. Turned(u, "check", user[u].model) /\ "check" \in UserPlaces /\ "check" \notin Borrowing
    BY <1>1, <2>1, UserTurns DEF ResidencyIsTyped, UserPlaces, Borrowing
  <2> QED BY <1>1, <1>2, <1>3, <2>1, <2>2, <2>3, UserAfter
<1> QED BY <1>4, <1>5

\* The two looks at what there is room for.
LEMMA CheckCapacityKeeps ==
  ASSUME ResidencyInvariant, NEW u \in Users, Check(u) \/ Recheck(u)
  PROVE  ResidencyInvariant'
<1>1. /\ ResidencyIsTyped /\ LifecycleIsHeld
      /\ \A v \in Users : user[v].pc = "serve" => user[v].model \in loaded
  BY DEF ResidencyInvariant, MemoryIsHeld, UserAt
<1>2. user[u].pc \in {"check", "evict"} /\ UNCHANGED <<loaded, idle>>
  BY DEF Check, Recheck, UserAt
<1>3. /\ user[u].model \in Loadable /\ holder = u
      /\ loaded \subseteq Loadable /\ stray \subseteq Loadable
  BY <1>1, <1>2 DEF ResidencyIsTyped, Waits, UserAt, LifecycleIsHeld
<1>4. \/ /\ Admit(u)
         /\ user[u].model \in loaded \/ (RoomFor(user[u].model) /\ SlotFor(user[u].model))
      \/ Refuse(u)
      \/ /\ \E last \in BOOLEAN, evict \in SUBSET loaded :
              user' = [user EXCEPT ![u] = [@ EXCEPT !.pc = "evict", !.last = last,
                                                    !.evict = evict]]
         /\ UNCHANGED <<leases, reserved, holder, stray>>
      \/ /\ user[u].pc = "evict"
         /\ \E last \in BOOLEAN, evict \in SUBSET loaded :
              user' = [user EXCEPT ![u] = [@ EXCEPT !.last = last, !.evict = evict]]
         /\ UNCHANGED <<leases, reserved, holder, stray>>
  <2>1. CASE Check(u)
    <3>1. loaded \ Pinned \in SUBSET loaded /\ FALSE \in BOOLEAN
      OBVIOUS
    <3> QED BY <2>1, <3>1 DEF Check
  <2>2. CASE Recheck(u)
    <3>1. Pinned \cap loaded \in SUBSET loaded /\ TRUE \in BOOLEAN
      OBVIOUS
    <3> QED BY <2>2, <3>1 DEF Recheck, UserAt
  <2> QED BY <2>1, <2>2
<1>5. CASE /\ Admit(u)
           /\ user[u].model \in loaded \/ (RoomFor(user[u].model) /\ SlotFor(user[u].model))
  BY <1>2, <1>5, AdmitKeeps
<1>6. CASE Refuse(u)
  <2>1. holder' = None /\ Moves(u, "done") /\ UNCHANGED <<leases, reserved, stray>>
    BY <1>6 DEF Refuse
  <2>2. /\ Turned(u, "done", user[u].model) /\ "done" \in UserPlaces
        /\ "done" \notin Waiting /\ "done" \notin Borrowing
    BY <1>1, <2>1, UserTurns DEF ResidencyIsTyped, UserPlaces, Waiting, Borrowing
  <2>3. Known' = Known
    BY <1>2, <2>1 DEF Known, Leased
  <2> QED BY <1>1, <1>2, <1>3, <2>1, <2>2, <2>3, UserAfter
<1>7. ASSUME NEW last \in BOOLEAN, NEW evict \in SUBSET loaded,
             UNCHANGED <<leases, reserved, holder, stray>>,
             \/ user' = [user EXCEPT ![u] = [@ EXCEPT !.pc = "evict", !.last = last,
                                                      !.evict = evict]]
             \/ /\ user[u].pc = "evict"
                /\ user' = [user EXCEPT ![u] = [@ EXCEPT !.last = last, !.evict = evict]]
      PROVE  ResidencyInvariant'
  <2>1. evict \in SUBSET Models /\ "evict" \in UserPlaces /\ "evict" \notin Borrowing
    BY <1>3 DEF Loadable, UserPlaces, Borrowing
  <2>2. Turned(u, "evict", user[u].model)
    BY <1>1, <1>7, <2>1, UserTurns DEF ResidencyIsTyped
  <2>3. Known' = Known
    BY <1>2, <1>7 DEF Known, Leased
  <2>4. u # None
    BY ResidencyAssumption
  <2> QED BY <1>1, <1>2, <1>3, <1>7, <2>1, <2>2, <2>3, <2>4, UserAfter
<1> QED BY <1>4, <1>5, <1>6, <1>7

\* What an unloading takes away was nobody's, or had been lent to somebody still.
LEMMA UnloadingForgets ==
  ASSUME NEW m, Unloads(m), UNCHANGED leases, ResidencyIsTyped
  PROVE  Known' \subseteq Known /\ loaded' \subseteq Loadable /\ stray' \subseteq Loadable
<1>1. Leased' = Leased
  BY DEF Leased
<1> QED BY <1>1 DEF Unloads, Known, ResidencyIsTyped

\* An eviction: only of what nobody has a lease of.
LEMMA EvictKeeps ==
  ASSUME ResidencyInvariant, NEW u \in Users, Evict(u)
  PROVE  ResidencyInvariant'
<1>1. /\ ResidencyIsTyped /\ LifecycleIsHeld
      /\ \A v \in Users : user[v].pc = "serve" => user[v].model \in loaded
  BY DEF ResidencyInvariant, MemoryIsHeld, UserAt
<1>2. user[u].pc = "evict" /\ UNCHANGED <<leases, reserved, holder, idle>>
  BY DEF Evict, UserAt
<1>3. user[u].model \in Loadable /\ holder = u /\ u # None /\ user[u].evict \in SUBSET Models
  <2>1. user[u] \in UserRow
    BY <1>1 DEF ResidencyIsTyped
  <2>2. user[u].evict \in SUBSET Models
    BY <2>1, UserFields
  <2> QED BY <1>1, <1>2, <2>2, ResidencyAssumption DEF ResidencyIsTyped, Waits, UserAt, LifecycleIsHeld
<1>4. PICK m \in user[u].evict :
        /\ user' = [user EXCEPT ![u].evict = @ \ {m}]
        /\ IF Evictable(m) THEN Unloads(m) ELSE UNCHANGED <<loaded, stray>>
  BY DEF Evict
<1>5. Turned(u, "evict", user[u].model) /\ "evict" \in UserPlaces /\ "evict" \notin Borrowing
  <2> DEFINE evict == user[u].evict \ {m}
  <2>1. evict \in SUBSET Models /\ user' = [user EXCEPT ![u].evict = evict]
    BY <1>3, <1>4
  <2>2. "evict" \in UserPlaces /\ "evict" \notin Borrowing
    BY DEF UserPlaces, Borrowing
  <2> HIDE DEF evict
  <2> QED BY <1>1, <1>2, <2>1, <2>2, UserTurns DEF ResidencyIsTyped
<1>6. Known' \subseteq Known /\ loaded' \subseteq Loadable /\ stray' \subseteq Loadable
  <2>1. CASE Evictable(m)
    BY <1>1, <1>2, <1>4, <2>1, UnloadingForgets
  <2>2. CASE ~Evictable(m)
    BY <1>1, <1>2, <1>4, <2>2 DEF Known, Leased, ResidencyIsTyped
  <2> QED BY <2>1, <2>2
<1>7. \A v \in Users \ {u} : user[v].pc = "serve" /\ user[v].model \in loaded =>
        user[v].model \in loaded'
  <2> SUFFICES ASSUME NEW v \in Users \ {u}, user[v].pc = "serve", user[v].model \in loaded
               PROVE  user[v].model \in loaded'
    OBVIOUS
  <2>1. user[v].model \in Leased
    BY BorrowedAreLeased DEF Borrowing
  <2> QED BY <1>4, <2>1 DEF Evictable, Unloads
<1> QED BY <1>1, <1>2, <1>3, <1>5, <1>6, <1>7, UserAfter

\* An admission that fails gives the lock back.
LEMMA AdmissionFailsKeeps ==
  ASSUME ResidencyInvariant, NEW u \in Users, AdmissionFails(u)
  PROVE  ResidencyInvariant'
<1>1. /\ ResidencyIsTyped
      /\ \A v \in Users : user[v].pc = "serve" => user[v].model \in loaded
  BY DEF ResidencyInvariant, MemoryIsHeld, UserAt
<1>2. /\ UNCHANGED <<leases, reserved, idle, loaded, stray>> /\ Moves(u, "done")
      /\ holder' = holder \/ (holder = u /\ holder' = None)
  BY DEF AdmissionFails
<1>3. /\ Turned(u, "done", user[u].model) /\ "done" \in UserPlaces
      /\ "done" \notin Waiting /\ "done" \notin Borrowing
  BY <1>1, <1>2, UserTurns DEF ResidencyIsTyped, UserPlaces, Waiting, Borrowing
<1>4. Known' = Known /\ loaded' \subseteq Loadable /\ stray' \subseteq Loadable
  BY <1>1, <1>2 DEF Known, Leased, ResidencyIsTyped
<1> QED BY <1>1, <1>2, <1>3, <1>4, UserAfter

\* A call that has its lease: it is loaded for, served, given up or cancelled again.
LEMMA LeasedCallKeeps ==
  ASSUME ResidencyInvariant, NEW u \in Users,
         Load(u) \/ Answer(u) \/ GiveUpCall(u) \/ CancelAgain(u)
  PROVE  ResidencyInvariant'
<1>1. /\ ResidencyIsTyped
      /\ \A v \in Users : user[v].pc = "serve" => user[v].model \in loaded
  BY DEF ResidencyInvariant, MemoryIsHeld, UserAt
<1>2. UNCHANGED <<leases, reserved, idle, holder>>
  BY DEF Load, Answer, GiveUpCall, CancelAgain
<1>3. PICK m : m = user[u].model
  OBVIOUS
<1>4. user[u].pc \in Borrowing
  BY DEF Load, Answer, GiveUpCall, CancelAgain, UserAt, Borrowing
<1>5. m \in Loadable /\ m \in Leased
  BY <1>3, <1>4, BorrowedAreLeased
<1>6. \/ Moves(u, "serve") /\ loaded' = loaded \cup {m} /\ stray' = stray
      \/ Moves(u, "leave") /\ loaded' = loaded /\ stray \subseteq stray' /\ stray' \subseteq stray \cup {m}
      \/ Moves(u, "done") /\ UNCHANGED <<loaded, stray>>
  BY <1>3 DEF Load, Answer, GiveUpCall, CancelAgain
<1>7. Leased' = Leased
  BY <1>2 DEF Leased
<1>8. Known' \subseteq Known /\ loaded' \subseteq Loadable /\ stray' \subseteq Loadable /\ loaded \subseteq loaded'
  BY <1>1, <1>5, <1>6, <1>7 DEF Known, ResidencyIsTyped
<1>9. /\ \A pc \in {"serve", "leave", "done"} : Moves(u, pc) => Turned(u, pc, m)
      /\ {"serve", "leave", "done"} \subseteq UserPlaces
      /\ {"serve", "leave", "done"} \cap (Waiting \cup {"check", "evict"}) = {}
  BY <1>1, <1>3, UserTurns DEF ResidencyIsTyped, UserPlaces, Waiting
<1>10. ASSUME NEW pc \in {"serve", "leave", "done"}, Moves(u, pc), pc = "serve" => m \in loaded'
       PROVE  ResidencyInvariant'
  <2>1. /\ pc \in UserPlaces /\ pc \notin Waiting /\ pc \notin {"check", "evict"}
        /\ Turned(u, pc, m)
    BY <1>9, <1>10
  <2> QED BY <1>1, <1>2, <1>3, <1>4, <1>8, <1>10, <2>1, UserAfter
<1> QED BY <1>6, <1>10

\* Steps that leave the calls where they are.
LEMMA CallsStay ==
  ASSUME ResidencyInvariant, UNCHANGED <<leases, reserved, user>>,
         \A v \in Users : user[v].pc \in {"check", "evict"} => holder' = holder,
         \A v \in Users : user[v].pc = "serve" => user[v].model \in loaded',
         loaded' \subseteq Loadable, stray' \subseteq Loadable, idle' \subseteq Models,
         holder' \in Users \cup {None, "idle"}, holder' = "idle" => Leased = {},
         Known' \subseteq Known
  PROVE  ResidencyInvariant'
<1>1. ResidencyIsTyped /\ LifecycleIsHeld
  BY DEF ResidencyInvariant
<1>2. UsersMoved
  <2>1. user' \in [Users -> UserRow]
    BY <1>1 DEF ResidencyIsTyped
  <2>2. \A v \in Users : (user')[v].pc \in Waiting \cup Borrowing => (user')[v].model \in Loadable
    BY <1>1 DEF ResidencyIsTyped, Waits, Borrows, UserAt, Waiting, Borrowing
  <2>3. \A v \in Users : (user')[v].pc \in {"check", "evict"} => holder' = v
    BY <1>1 DEF LifecycleIsHeld, UserAt
  <2> QED BY <2>1, <2>2, <2>3 DEF UsersMoved
<1> QED BY <1>2, ResidencyAfter

LEMMA StrayLoadKeeps ==
  ASSUME ResidencyInvariant, StrayLoad
  PROVE  ResidencyInvariant'
<1>1. /\ ResidencyIsTyped /\ LifecycleIsHeld
      /\ \A v \in Users : user[v].pc = "serve" => user[v].model \in loaded
  BY DEF ResidencyInvariant, MemoryIsHeld, UserAt
<1>2. PICK m \in stray \ loaded : loaded' = loaded \cup {m}
  BY DEF StrayLoad
<1>3. UNCHANGED <<leases, reserved, user, stray, idle, holder>>
  BY DEF StrayLoad
<1>4. Known' \subseteq Known
  BY <1>2, <1>3 DEF Known, Leased
<1>5. loaded' \subseteq Loadable /\ stray' \subseteq Loadable
  BY <1>1, <1>2, <1>3 DEF ResidencyIsTyped
<1> QED BY <1>1, <1>2, <1>3, <1>4, <1>5, CallsStay DEF ResidencyIsTyped, LifecycleIsHeld

\* The idle loop: its round begins when nobody has a lease, and has the lock until it ends.
LEMMA IdleKeeps ==
  ASSUME ResidencyInvariant, IdleLook \/ IdleRound \/ IdleUnload \/ DeletePanel
  PROVE  ResidencyInvariant'
<1>1. /\ ResidencyIsTyped /\ LifecycleIsHeld
      /\ \A v \in Users : user[v].pc = "serve" => user[v].model \in loaded
  BY DEF ResidencyInvariant, MemoryIsHeld, UserAt
<1>2. UNCHANGED <<leases, reserved, user>> /\ Leased' = Leased
  BY DEF IdleLook, IdleRound, IdleUnload, DeletePanel, Leased
<1>3. /\ \A v \in Users : user[v].pc \in {"check", "evict"} => holder = v
      /\ holder \in Users \cup {None, "idle"} /\ (holder = "idle" => Leased = {})
      /\ idle \subseteq Models /\ loaded \subseteq Loadable /\ stray \subseteq Loadable
      /\ loaded \subseteq Models
  BY <1>1 DEF LifecycleIsHeld, ResidencyIsTyped, UserAt, Loadable
<1>4. CASE IdleLook \/ DeletePanel
  <2>1. UNCHANGED <<loaded, stray, idle, holder>>
    BY <1>4 DEF IdleLook, DeletePanel
  <2>2. Known' = Known
    BY <1>2, <2>1 DEF Known
  <2> QED BY <1>1, <1>2, <1>3, <2>1, <2>2, CallsStay
<1>5. CASE IdleRound
  <2>1. /\ UNCHANGED <<loaded, stray>> /\ holder = None
        /\ \/ Leased = {} /\ holder' = "idle" /\ idle' = loaded \ Pinned
           \/ UNCHANGED <<holder, idle>>
    BY <1>5 DEF IdleRound
  <2>2. Known' = Known
    BY <1>2, <2>1 DEF Known
  <2>3. \A v \in Users : user[v].pc \notin {"check", "evict"}
    BY <1>3, <2>1, ResidencyAssumption
  <2>4. idle' \subseteq Models /\ holder' \in Users \cup {None, "idle"} /\ (holder' = "idle" => Leased = {})
    BY <1>3, <2>1
  <2> QED BY <1>1, <1>2, <1>3, <2>1, <2>2, <2>3, <2>4, CallsStay
<1>6. CASE IdleUnload
  <2>1. holder = "idle" /\ Leased = {} /\ holder' \in {None, "idle"}
    BY <1>3, <1>6 DEF IdleUnload
  <2>2. PICK m \in idle : idle' = idle \ {m} /\ (Unloads(m) \/ UNCHANGED <<loaded, stray>>)
    BY <1>6 DEF IdleUnload
  <2>3. Known' \subseteq Known /\ loaded' \subseteq Loadable /\ stray' \subseteq Loadable
    <3>1. CASE Unloads(m)
      BY <1>1, <1>2, <3>1, UnloadingForgets
    <3>2. CASE UNCHANGED <<loaded, stray>>
      BY <1>2, <1>3, <3>2 DEF Known
    <3> QED BY <2>2, <3>1, <3>2
  <2>4. \A v \in Users : user[v].pc \notin {"check", "evict"}
    BY <1>3, <2>1, ResidencyAssumption
  <2>5. \A v \in Users : user[v].pc # "serve"
    BY <2>1, BorrowedAreLeased DEF Borrowing
  <2>6. idle' \subseteq Models
    BY <1>3, <2>2
  <2> QED BY <1>2, <2>1, <2>3, <2>4, <2>5, <2>6, CallsStay
<1> QED BY <1>4, <1>5, <1>6

\* A deletion of the panel: whoever was served has the model loaded again.
LEMMA DeleteKeeps ==
  ASSUME ResidencyInvariant, DeleteModel
  PROVE  ResidencyInvariant'
<1>1. /\ ResidencyIsTyped /\ LifecycleIsHeld
      /\ \A v \in Users : user[v].pc = "serve" => user[v].model \in loaded
  BY DEF ResidencyInvariant, MemoryIsHeld, UserAt
<1>2. PICK m \in loaded :
        /\ Unloads(m)
        /\ user' = [u \in Users |-> IF user[u].model = m /\ user[u].pc = "serve"
                                      THEN [user[u] EXCEPT !.pc = "load"] ELSE user[u]]
  BY DEF DeleteModel, UserAt
<1>3. UNCHANGED <<leases, reserved, holder, idle>>
  BY DEF DeleteModel
<1>4. /\ user' \in [Users -> UserRow]
      /\ \A u \in Users :
           \/ (user')[u] = user[u] /\ ~(user[u].model = m /\ user[u].pc = "serve")
           \/ user[u].pc = "serve" /\ (user')[u].pc = "load" /\ (user')[u].model = user[u].model
  <2> SUFFICES ASSUME NEW u \in Users
               PROVE  /\ (user')[u] \in UserRow
                      /\ \/ (user')[u] = user[u] /\ ~(user[u].model = m /\ user[u].pc = "serve")
                         \/ /\ user[u].pc = "serve" /\ (user')[u].pc = "load"
                            /\ (user')[u].model = user[u].model
    BY <1>2
  <2> DEFINE r == [user[u] EXCEPT !.pc = "load"]
  <2>1. user[u] \in UserRow
    BY <1>1 DEF ResidencyIsTyped
  <2>2. r \in UserRow /\ r.pc = "load" /\ r.model = user[u].model
    BY <2>1 DEF UserRow, UserPlaces
  <2>3. (user')[u] = IF user[u].model = m /\ user[u].pc = "serve" THEN r ELSE user[u]
    BY <1>2
  <2> HIDE DEF r
  <2> QED BY <2>1, <2>2, <2>3
<1>5. UsersMoved
  <2>1. \A v \in Users : (user')[v].pc \in Waiting \cup Borrowing => (user')[v].model \in Loadable
    <3>1. \A v \in Users : user[v].pc \in Waiting \cup Borrowing => user[v].model \in Loadable
      BY <1>1 DEF ResidencyIsTyped, Waits, Borrows, UserAt, Waiting, Borrowing
    <3> QED BY <1>4, <3>1 DEF Borrowing
  <2>2. \A v \in Users : (user')[v].pc \in {"check", "evict"} => holder' = v
    BY <1>1, <1>3, <1>4 DEF LifecycleIsHeld, UserAt
  <2>3. \A v \in Users : (user')[v].pc = "serve" => (user')[v].model \in loaded'
    BY <1>1, <1>2, <1>4 DEF Unloads
  <2> QED BY <1>4, <2>1, <2>2, <2>3 DEF UsersMoved
<1>6. \A v \in Users : (user')[v].pc \in Borrowing =>
        user[v].pc \in Borrowing /\ (user')[v].model = user[v].model
  BY <1>4 DEF Borrowing
<1>7. Known' \subseteq Known /\ loaded' \subseteq Loadable /\ stray' \subseteq Loadable
  BY <1>1, <1>2, <1>3, UnloadingForgets
<1> QED BY <1>1, <1>3, <1>5, <1>6, <1>7, ResidencyAfter DEF ResidencyIsTyped, LifecycleIsHeld

LEMMA ResidencyKeeps ==
  ASSUME ResidencyInvariant, ResidencyNext \/ UNCHANGED residencyVars
  PROVE  ResidencyInvariant'
<1>1. CASE UNCHANGED residencyVars
  <2>1. UNCHANGED <<loaded, stray, leases, reserved, holder, user, idle>>
    BY <1>1 DEF residencyVars
  <2>2. Known' = Known
    BY <2>1 DEF Known, Leased
  <2>3. /\ ResidencyIsTyped /\ LifecycleIsHeld
        /\ \A v \in Users : user[v].pc = "serve" => user[v].model \in loaded
    BY DEF ResidencyInvariant, MemoryIsHeld, UserAt
  <2> QED BY <2>1, <2>2, <2>3, CallsStay DEF ResidencyIsTyped, LifecycleIsHeld
<1>2. CASE ResidencyNext
  <2>1. ASSUME NEW u \in Users,
               \/ Ask(u) \/ Lock(u) \/ Check(u) \/ Evict(u) \/ Recheck(u) \/ AdmissionFails(u)
               \/ Load(u) \/ Answer(u) \/ GiveUpCall(u) \/ EndLease(u) \/ CancelAgain(u)
        PROVE  ResidencyInvariant'
    BY <2>1, AskKeeps, CheckCapacityKeeps, EvictKeeps, AdmissionFailsKeeps, LeasedCallKeeps,
       EndLeaseKeeps
  <2> QED BY <1>2, <2>1, StrayLoadKeeps, IdleKeeps, DeleteKeeps, ReplaceLifecycleKeeps
          DEF ResidencyNext
<1> QED BY <1>1, <1>2

\* At first Ollama has nothing in memory, or one model with a plan.
LEMMA ResidencyBegins ==
  ASSUME ResidencyInit
  PROVE  ResidencyInvariant
<1>1. /\ loaded \in {{}} \cup {{m} : m \in Loadable} /\ stray = {} /\ holder = None /\ idle = {}
      /\ leases = [m \in Models |-> 0] /\ reserved = [m \in Models |-> 0]
      /\ user = [u \in Users |-> [pc |-> "idle", model |-> None, evict |-> {}, last |-> FALSE]]
  BY DEF ResidencyInit, Loadable
<1>2. Leased = {}
  BY <1>1 DEF Leased
<1>3. \A u \in Users : user[u].pc = "idle"
  BY <1>1
<1>4. ResidencyIsTyped
  <2>1. user \in [Users -> UserRow]
    BY <1>1 DEF UserRow, UserPlaces
  <2>2. loaded \subseteq Loadable
    BY <1>1
  <2>3. \A u \in Users : ~Waits(u) /\ ~Borrows(u)
    BY <1>3 DEF Waits, Borrows, UserAt
  <2> QED BY <1>1, <1>2, <2>1, <2>2, <2>3 DEF ResidencyIsTyped
<1>5. LeasesAreCounted
  <2> SUFFICES ASSUME NEW m \in Models PROVE Cardinality(Borrowers(m)) <= leases[m]
    BY DEF LeasesAreCounted
  <2>1. Borrowers(m) = {}
    BY <1>3 DEF Borrowers, Borrows, UserAt
  <2>2. Cardinality(Borrowers(m)) = 0
    BY <2>1, FS_EmptySet
  <2> QED BY <1>1, <2>2
<1>6. SizesAreReserved
  BY <1>1 DEF SizesAreReserved
<1>7. LifecycleIsHeld
  BY <1>2, <1>3 DEF LifecycleIsHeld, UserAt
<1>8. MemoryIsHeld
  <2>1. PICK h : Sums(h, Weight, Loadable)
    BY LoadableAreFinite, SumsExist
  <2>2. Known = loaded
    BY <1>1, <1>2 DEF Known
  <2>3. h[loaded] <= Budget /\ Cardinality(loaded \ Pinned) <= Slots
    <3>1. Slots \in Nat \ {0} /\ Budget \in Nat /\ h[{}] = 0
      BY <2>1, ResidencyAssumption, SumsAt DEF Sums
    <3>2. CASE loaded = {}
      <4>1. h[loaded] = h[{}] /\ loaded \ Pinned = {}
        BY <3>2, Zenon
      <4> QED BY <3>1, <4>1, FS_EmptySet
    <3>3. ASSUME NEW m \in Loadable, loaded = {m}
          PROVE  h[loaded] <= Budget /\ Cardinality(loaded \ Pinned) <= Slots
      <4>1. \A s \in SUBSET Loadable : \A x \in s : h[s] = Weight[x] + h[s \ {x}]
        BY <2>1, WeightsTake
      <4>2. {m} \in SUBSET Loadable /\ m \in {m} /\ {m} \ {m} = {}
        OBVIOUS
      <4>3. h[{m}] = Weight[m] + h[{}]
        BY <4>1, <4>2, Zenon
      <4>4. Weight[m] \in Nat /\ Weight[m] <= Budget
        BY PlansFit DEF Weight
      <4>5. h[{m}] <= Budget
        BY <3>1, <4>3, <4>4
      <4>6. Cardinality({m} \ Pinned) <= Slots
        <5>1. IsFiniteSet({m}) /\ Cardinality({m}) = 1 /\ {m} \ Pinned \subseteq {m}
          BY FS_Singleton
        <5>2. Cardinality({m} \ Pinned) <= 1 /\ Cardinality({m} \ Pinned) \in Nat
          BY <5>1, FS_Subset, FS_CardinalityType
        <5> QED BY <3>1, <5>2
      <4> QED BY <3>3, <4>5, <4>6, Zenon
    <3> QED BY <1>1, <3>2, <3>3
  <2>4. h[Known] = h[loaded] /\ Known \ Pinned = loaded \ Pinned
    BY <2>2, Zenon
  <2>5. \A u \in Users : UserAt(u, {"serve"}) => user[u].model \in loaded
    BY <1>3 DEF UserAt
  <2> QED BY <1>4, <2>1, <2>3, <2>4, <2>5, KnownIsHeld
<1> QED BY <1>4, <1>5, <1>6, <1>7, <1>8 DEF ResidencyInvariant

----------------------------------------------------------------------------
(* The services side by side: a step of all is a step of one, and the      *)
(* others stay as they are.                                                *)

LEMMA PartsMove ==
  ASSUME [ServicesNext]_ServicesVars
  PROVE  /\ LarmNext \/ UNCHANGED larmVars
         /\ ResidencyNext \/ UNCHANGED residencyVars
         /\ RoutingNext \/ UNCHANGED routingVars
         /\ SlotsNext \/ UNCHANGED slotsVars
         /\ ChannelNext \/ UNCHANGED channelVars
         /\ BackupNext \/ UNCHANGED backupVars
<1>1. CASE UNCHANGED ServicesVars
  BY <1>1 DEF ServicesVars
<1>2. CASE LeasesStep
  BY <1>2 DEF LeasesStep
<1>3. CASE ResidencyStep
  BY <1>3 DEF ResidencyStep
<1>4. CASE RoutingStep
  BY <1>4 DEF RoutingStep
<1>5. CASE SlotsStep
  BY <1>5 DEF SlotsStep
<1>6. CASE ChannelStep
  BY <1>6 DEF ChannelStep
<1>7. CASE BackupStep
  BY <1>7 DEF BackupStep
<1> QED BY <1>1, <1>2, <1>3, <1>4, <1>5, <1>6, <1>7 DEF ServicesNext

\* The copies of the state: the lock has one holder, the service never works on what a
\* restoration left unfinished, and each job knows what it found and what it replaced.
THEOREM CopiesKeepInvariant == Spec => []BackupInvariant
<1>1. Init => BackupInvariant
  BY BackupBegins DEF Init
<1>2. BackupInvariant /\ [ServicesNext]_ServicesVars => BackupInvariant'
  BY PartsMove, BackupNextKeeps
<1> QED BY <1>1, <1>2, PTL DEF Spec

\* A service at work has a base, a journal and files of one version, a published copy is
\* whole, and a restoration that was undone left what it found (maintenance.py).
THEOREM StateStaysOne == Spec => []StateIsOne
<1>1. BackupInvariant => StateIsOne
  <2> SUFFICES ASSUME BackupInvariant PROVE StateIsOne
    OBVIOUS
  <2>1. BackupIsTyped /\ LockIsHeld /\ UnmarkedIsOne
    BY DEF BackupInvariant
  <2>2. Up => journal \in {0, base} /\ Contained(State)
    BY <2>1 DEF LockIsHeld, UnmarkedIsOne
  <2>3. \A copy \in backups : Whole(copy)
    BY <2>1 DEF BackupIsTyped
  <2>4. ASSUME NEW j \in Jobs, JobAt(j, "undone"), losses = 0
        PROVE  State = job[j].before
    <3>1. Undoable(j) /\ job[j].undo = << >>
      BY <2>4 DEF BackupInvariant, Undoable, JobAt
    <3>2. base = job[j].before.base /\ \A f \in Files : file[f] = job[j].before.file[f]
      BY <2>1, <2>4, <3>1, FoundAgain DEF Found
    <3>3. job[j].before \in StateRow /\ file \in [Files -> Versions \cup {0}]
      <4>1. job[j] \in JobRow /\ file \in [Files -> Versions \cup {0}]
        BY <2>1 DEF BackupIsTyped
      <4>2. job[j].before \in StateRow
        BY <4>1 DEF JobRow
      <4> QED BY <4>1, <4>2
    <3>4. job[j].before.file \in [Files -> Versions \cup {0}]
      BY <3>3 DEF StateRow
    <3>5. file = job[j].before.file
      BY <3>2, <3>3, <3>4
    <3> QED BY <3>2, <3>3, <3>5 DEF State, StateRow
  <2> QED BY <2>2, <2>3, <2>4 DEF StateIsOne
<1> QED BY <1>1, CopiesKeepInvariant, PTL

\* From the moment a task of this machine begins to look for probes until it ends, no
\* probe measures a local model or is about to.
THEOREM SlotsKeepInvariant == Spec => []SlotsInvariant
<1>1. Init => SlotsInvariant
  BY SlotsBegin DEF Init
<1>2. SlotsInvariant /\ [ServicesNext]_ServicesVars => SlotsInvariant'
  BY PartsMove, SlotsKeep
<1> QED BY <1>1, <1>2, PTL DEF Spec

\* While a local model is measured nobody works whose task needs this machine
\* (shadow_probe.py against the lanes of routing.py).
THEOREM ProbesAlwaysGiveWay == Spec => []ProbesGiveWay
<1>1. SlotsInvariant => ProbesGiveWay
  <2> SUFFICES ASSUME SlotsInvariant, NEW p \in Measuring, Local(probe[p].of), NEW t \in Tasks,
                      LaneOf[t] # "cloud", status[t] = "active",
                      work[t] \in {"working", "waiting", "calling"}
               PROVE  FALSE
    BY DEF ProbesGiveWay
  <2>1. p \in Tasks /\ Threatens(p)
    BY DEF Measuring, Probing, Threatens
  <2>2. NeedsMachine(t)
    BY DEF NeedsMachine, Proceeding
  <2> QED BY <2>1, <2>2 DEF SlotsInvariant
<1> QED BY <1>1, SlotsKeepInvariant, PTL

\* The channel of a server: each lock has one holder, the living process is the current
\* one, and whatever it owes or has written somebody still awaits.
THEOREM ChannelKeepsInvariant == Spec => []ChannelInvariant
<1>1. Init => ChannelInvariant
  BY ChannelBegins DEF Init
<1>2. ChannelInvariant /\ [ServicesNext]_ServicesVars => ChannelInvariant'
  BY PartsMove, ChannelKeeps
<1> QED BY <1>1, <1>2, PTL DEF Spec

\* A server has one living process and one reader of its output, and a process that is
\* ready for a call owes no earlier answer and has none unread (mcp.py).
THEOREM ChannelStaysClean == Spec => []ChannelIsClean
BY ChannelIsKeptClean, ChannelKeepsInvariant, PTL

\* The routing: a request on its way was not refused at the door, whoever it was given to
\* is the one it fixes, and its readers are within its boundary.
THEOREM RoutingKeepsInvariant == Spec => []RoutingInvariant
<1>1. Init => RoutingInvariant
  BY RoutingBegins DEF Init
<1>2. RoutingInvariant /\ [ServicesNext]_ServicesVars => RoutingInvariant'
  BY PartsMove, RoutingKeeps
<1> QED BY <1>1, <1>2, PTL DEF Spec

\* Whoever reads a prompt is within the boundary of its request, whatever the evidence of
\* the models, the ranking, the exploration, the relief and the reloads (routing.py).
THEOREM BoundaryStaysKept == Spec => []BoundaryIsKept
<1>1. RoutingInvariant => BoundaryIsKept
  BY DEF RoutingInvariant
<1> QED BY <1>1, RoutingKeepsInvariant, PTL

\* The models in memory: each call with a lease is counted, whatever has a lease has its
\* size reserved, and the lock of the lifecycle is of the admission at hand or of a round
\* that began when nobody had a lease.
THEOREM ResidencyKeepsInvariant == Spec => []ResidencyInvariant
<1>1. Init => ResidencyInvariant
  BY ResidencyBegins DEF Init
<1>2. ResidencyInvariant /\ [ServicesNext]_ServicesVars => ResidencyInvariant'
  BY PartsMove, ResidencyKeeps
<1> QED BY <1>1, <1>2, PTL DEF Spec

\* What the broker knows to be in memory, or has promised a place to, fits in the budget
\* and in the places for models, and no call is answered by a model that was unloaded
\* under it (OllamaLifecycleManager in ollama.py, idle_unload_loop in maintenance.py).
THEOREM MemoryStaysHeld == Spec => []MemoryIsHeld
<1>1. ResidencyInvariant => MemoryIsHeld
  BY DEF ResidencyInvariant
<1> QED BY <1>1, ResidencyKeepsInvariant, PTL

\* The leases, among the other services: whatever is lost, cancelled, reloaded or killed,
\* LARM holds memory only for calls the journal knows, and the row of a call that was
\* served is closed only when LARM holds nothing for it any more (larm.py).
THEOREM ServicesKeepTheBook == Spec => BookIsKept
<1>1. Init => LarmInit
  BY DEF Init
<1>2. [ServicesNext]_ServicesVars => [LarmNext]_larmVars
  BY PartsMove
<1>3. Spec => LarmSpec
  BY <1>1, <1>2, PTL DEF Spec, LarmSpec
<1> QED BY <1>3, LeasesKeepTheBook

LEMMA LeasesStayTyped == Spec => []LarmInvariant
<1>1. Init => LarmInvariant
  BY InitInvariant DEF Init
<1>2. LarmInvariant /\ [ServicesNext]_ServicesVars => LarmInvariant'
  BY PartsMove, NextInvariant
<1> QED BY <1>1, <1>2, PTL DEF Spec

\* Every service keeps the types of its state, with the bounds that go with them: no more
\* outcomes of a model than the window of routing.py has, and one holder of the lock of
\* the copies.
THEOREM ServicesKeepTypes == Spec => []TypeOK
<1>1. LarmInvariant => LarmTypeOK
  BY DEF LarmInvariant
<1>2. ResidencyInvariant => ResidencyTypeOK
  <2> SUFFICES ASSUME ResidencyIsTyped, SizesAreReserved PROVE ResidencyTypeOK
    BY DEF ResidencyInvariant
  <2>1. loaded \subseteq Models /\ stray \subseteq Models /\ idle \subseteq Models
    BY DEF ResidencyIsTyped, Loadable
  <2>2. reserved \in [Models -> Nat]
    <3>1. \A m \in Models : (IF leases[m] > 0 THEN GpuBytes(m) ELSE 0) \in Nat
      BY PlansFit DEF ResidencyIsTyped, Leased
    <3> QED BY <3>1 DEF SizesAreReserved
  <2>3. \A u \in Users : user[u].model \in Models \cup {None} /\ user[u].evict \subseteq Models
    <3> SUFFICES ASSUME NEW u \in Users
                 PROVE  user[u].model \in Models \cup {None} /\ user[u].evict \subseteq Models
      OBVIOUS
    <3>1. user[u] \in UserRow
      BY DEF ResidencyIsTyped
    <3> QED BY <3>1, UserFields
  <2> QED BY <2>1, <2>2, <2>3 DEF ResidencyIsTyped, ResidencyTypeOK
<1>3. RoutingInvariant => RoutingTypeOK
  BY DEF RoutingInvariant, RoutingIsTyped, RoutingTypeOK
<1>4. SlotsInvariant => SlotsTypeOK
  <2> SUFFICES ASSUME SlotsAreTyped PROVE SlotsTypeOK
    BY DEF SlotsInvariant
  <2>1. \A t \in Tasks : probe[t].at \in Phases /\ probe[t].of \in {0} \cup DOMAIN Unproven
    <3> SUFFICES ASSUME NEW t \in Tasks
                 PROVE  probe[t].at \in Phases /\ probe[t].of \in {0} \cup DOMAIN Unproven
      OBVIOUS
    <3>1. probe[t] \in [at : Phases, local : BOOLEAN, of : {0} \cup DOMAIN Unproven]
      BY DEF SlotsAreTyped
    <3> QED BY <3>1
  <2>2. \A i \in DOMAIN attempts : attempts[i] \in 0..Needed
    BY DEF SlotsAreTyped
  <2> QED BY <2>1, <2>2 DEF SlotsAreTyped, SlotsTypeOK
<1>5. ChannelInvariant => ChannelTypeOK
  <2> SUFFICES ASSUME ChannelIsTyped PROVE ChannelTypeOK
    BY DEF ChannelInvariant
  <2>1. \A c \in Callers : caller[c].asked \in 0..counter /\ caller[c].from \in 0..spawned
    <3> SUFFICES ASSUME NEW c \in Callers
                 PROVE  caller[c].asked \in 0..counter /\ caller[c].from \in 0..spawned
      OBVIOUS
    <3>1. caller[c] \in CallerRow /\ counter \in Nat /\ spawned \in Nat
      BY DEF ChannelIsTyped
    <3>2. caller[c].asked \in Nat /\ caller[c].from \in Nat
      BY <3>1 DEF CallerRow
    <3>3. caller[c].asked <= counter /\ caller[c].from <= spawned
      BY DEF ChannelIsTyped
    <3> QED BY <3>1, <3>2, <3>3
  <2> QED BY <2>1 DEF ChannelIsTyped, ChannelTypeOK
<1>6. BackupInvariant => BackupTypeOK
  <2> SUFFICES ASSUME BackupIsTyped, LockIsHeld PROVE BackupTypeOK
    BY DEF BackupInvariant
  <2>1. lock \subseteq Jobs \cup {Service}
    BY DEF LockIsHeld
  <2>2. Cardinality(lock) <= 1
    <3>1. CASE lock = {}
      BY <3>1, FS_EmptySet
    <3>2. ASSUME NEW x, lock = {x} PROVE Cardinality(lock) <= 1
      <4>1. Cardinality({x}) = 1
        BY FS_Singleton
      <4> QED BY <3>2, <4>1
    <3> QED BY <3>1, <3>2 DEF LockIsHeld
  <2> QED BY <2>1, <2>2 DEF BackupIsTyped, BackupTypeOK
<1> QED BY <1>1, <1>2, <1>3, <1>4, <1>5, <1>6, LeasesStayTyped, ResidencyKeepsInvariant,
           RoutingKeepsInvariant, SlotsKeepInvariant, ChannelKeepsInvariant,
           CopiesKeepInvariant, PTL DEF TypeOK

=============================================================================
