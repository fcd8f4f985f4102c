---------------------------- MODULE StateBackup ----------------------------
(***************************************************************************)
(* Copies of the broker's state and their restoration in place             *)
(* (maintenance.py), against the service that works on that state and      *)
(* against deaths at any step.  The lock belongs to a process and ends     *)
(* with it (state_lock.py); the marker of a restoration is a file and      *)
(* stays.                                                                  *)
(*                                                                         *)
(* A state of the service is a version: the base of version v refers to    *)
(* the files Refs[v], each with its content of that version.  The journal  *)
(* of the base (-wal) is a file of its own.                                *)
(***************************************************************************)
EXTENDS Naturals, Sequences, FiniteSets

CONSTANTS Files,     \* documents and artifacts
          Versions,  \* BOUND: the states that the service goes through
          Refs,      \* Refs[v]: the files that the base of version v names
          Jobs,      \* runs of scripts/backup_state.py
          Losses     \* BOUND: files that disappear from the disk

ASSUME BackupAssumption ==
  /\ Versions \subseteq Nat \ {0} /\ 1 \in Versions
  /\ \A v \in Versions : Refs[v] \subseteq Files
  /\ "service" \notin Jobs /\ "base" \notin Files

VARIABLES base,     \* the version of the main file of the base
          journal,  \* the version of its -wal file, or 0
          file,     \* file[f]: the version of the content of f, or 0
          marker,   \* is the file restore-in-progress there?
          lock,     \* who holds the lock: {}, {"service"} or a job
          job,      \* job[j]: what it does, and with what
          backups,  \* the copies published
          losses

backupVars == <<base, journal, file, marker, lock, job, backups, losses>>

Service == "service"
NoCopy == [base |-> 0, file |-> [f \in Files |-> 0]]
NoJob == [at |-> "none", copy |-> NoCopy, todo |-> {}, undo |-> << >>,
          prior |-> FALSE, before |-> NoCopy]

Up == lock = {Service}
JobAt(j, at) == job[j].at = at
JobGoes(j, at) == job' = [job EXCEPT ![j].at = at]
Contents(copy) == {f \in Files : copy.file[f] # 0}

BackupInit ==
  /\ base = 1 /\ journal = 0
  /\ file = [f \in Files |-> IF f \in Refs[1] THEN 1 ELSE 0]
  /\ marker = FALSE /\ lock = {} /\ losses = 0
  /\ job = [j \in Jobs |-> NoJob]
  /\ backups = {}

---------------------------------------------------------------------------
(* The service.                                                             *)

(* Faulty: the marker of an unfinished restoration is not looked at.        *)
EntersAnyway(incomplete) == lock = {}

(* __enter__: the lock is free, and no restoration was left half done.      *)
CanEnter(incomplete) == lock = {} /\ (marker => incomplete)

StartService ==
  /\ CanEnter(FALSE)
  /\ lock' = {Service}
  /\ UNCHANGED <<base, journal, file, marker, job, backups, losses>>
Work ==
  /\ Up
  /\ \E v \in {w \in Versions : w > base} :
       /\ base' = v /\ journal' = v
       /\ file' = [f \in Files |-> IF f \in Refs[v] THEN v ELSE file[f]]
  /\ UNCHANGED <<marker, lock, job, backups, losses>>
(* An ordered stop leaves no journal, a death does.                         *)
StopService ==
  /\ Up
  /\ lock' = {} /\ journal' \in {0, journal}
  /\ UNCHANGED <<base, file, marker, job, backups, losses>>
(* Pruning cut by a death, or a hand on the disk.                           *)
Lose(f) ==
  /\ losses < Losses /\ file[f] # 0
  /\ losses' = losses + 1 /\ file' = [file EXCEPT ![f] = 0]
  /\ UNCHANGED <<base, journal, marker, lock, job, backups>>

---------------------------------------------------------------------------
(* create_state_backup.                                                     *)
BeginBackup(j) ==
  /\ JobAt(j, "none") /\ CanEnter(FALSE)
  /\ lock' = {j} /\ JobGoes(j, "copy")
  /\ UNCHANGED <<base, journal, file, marker, backups, losses>>
CopyBase(j) ==
  /\ JobAt(j, "copy")
  /\ job' = [job EXCEPT ![j].at = "files", ![j].copy = [NoCopy EXCEPT !.base = base]]
  /\ UNCHANGED <<base, journal, file, marker, lock, backups, losses>>
CopyFiles(j) ==
  /\ JobAt(j, "files")
  /\ job' = [job EXCEPT ![j].at = "verify", ![j].copy.file = file]
  /\ UNCHANGED <<base, journal, file, marker, lock, backups, losses>>
(* Every file that the base names is there, with the digest it names.       *)
Whole(copy) == \A f \in Refs[copy.base] : copy.file[f] = copy.base
Publish(j) ==
  /\ JobAt(j, "verify")
  /\ backups' = IF Whole(job[j].copy) THEN backups \cup {job[j].copy} ELSE backups
  /\ lock' = lock \ {j} /\ job' = [job EXCEPT ![j] = NoJob]
  /\ UNCHANGED <<base, journal, file, marker, losses>>

---------------------------------------------------------------------------
(* restore_state_backup.                                                    *)

(* The copy is verified and unpacked before anything is touched.            *)
BeginRestore(j) ==
  /\ JobAt(j, "none") /\ CanEnter(TRUE)
  /\ \E copy \in backups :
       /\ Whole(copy)
       /\ job' = [job EXCEPT ![j] = [NoJob EXCEPT !.at = "mark", !.copy = copy,
                    !.todo = Contents(copy),
                    !.before = [base |-> base, file |-> file]]]
  /\ lock' = {j}
  /\ UNCHANGED <<base, journal, file, marker, backups, losses>>
Mark(j) ==
  /\ JobAt(j, "mark")
  /\ marker' = TRUE
  /\ job' = [job EXCEPT ![j].at = "replace", ![j].prior = marker]
  /\ UNCHANGED <<base, journal, file, lock, backups, losses>>

(* Each target in turn, the base last; what it held is kept aside.          *)
Kept(target, was) == <<[target |-> target, was |-> was]>>
ReplaceFile(j) ==
  /\ JobAt(j, "replace")
  /\ \E f \in job[j].todo :
       /\ file' = [file EXCEPT ![f] = job[j].copy.file[f]]
       /\ job' = [job EXCEPT ![j].todo = @ \ {f}, ![j].undo = @ \o Kept(f, file[f])]
  /\ UNCHANGED <<base, journal, marker, lock, backups, losses>>
ReplaceBase(j) ==
  /\ JobAt(j, "replace") /\ job[j].todo = {}
  /\ base' = job[j].copy.base
  /\ job' = [job EXCEPT ![j].at = "replaced", ![j].undo = @ \o Kept("base", base)]
  /\ UNCHANGED <<journal, file, marker, lock, backups, losses>>

(* A write failed: undo, last first; the marker goes unless an earlier      *)
(* restoration had left it.                                                 *)
ReplaceFails(j) ==
  /\ JobAt(j, "replace")
  /\ JobGoes(j, "undo")
  /\ UNCHANGED <<base, journal, file, marker, lock, backups, losses>>
Undo(j) ==
  LET undo == job[j].undo
      last == undo[Len(undo)]
  IN  /\ JobAt(j, "undo") /\ undo # << >>
      /\ job' = [job EXCEPT ![j].undo = SubSeq(undo, 1, Len(undo) - 1)]
      /\ IF last.target = "base"
         THEN base' = last.was /\ file' = file
         ELSE file' = [file EXCEPT ![last.target] = last.was] /\ base' = base
      /\ UNCHANGED <<journal, marker, lock, backups, losses>>
Undone(j) ==
  /\ JobAt(j, "undo") /\ job[j].undo = << >>
  /\ marker' = job[j].prior
  /\ JobGoes(j, "undone")
  /\ UNCHANGED <<base, journal, file, lock, backups, losses>>

(* The journal of the old base goes, and only then the marker.              *)
DropJournal(j) ==
  /\ JobAt(j, "replaced")
  /\ journal' = 0 /\ JobGoes(j, "unmark")
  /\ UNCHANGED <<base, file, marker, lock, backups, losses>>
Unmark(j) ==
  /\ JobAt(j, "unmark")
  /\ marker' = FALSE /\ JobGoes(j, "restored")
  /\ UNCHANGED <<base, journal, file, lock, backups, losses>>

(* The end of a job, and its death or an error nobody handles at any point: *)
(* the lock ends with it, whatever it has done stays.                       *)
Leave(j) ==
  /\ ~JobAt(j, "none")
  /\ lock' = lock \ {j} /\ job' = [job EXCEPT ![j] = NoJob]
  /\ UNCHANGED <<base, journal, file, marker, backups, losses>>

BackupNext ==
  \/ StartService \/ Work \/ StopService
  \/ \E f \in Files : Lose(f)
  \/ \E j \in Jobs :
       \/ BeginBackup(j) \/ CopyBase(j) \/ CopyFiles(j) \/ Publish(j)
       \/ BeginRestore(j) \/ Mark(j) \/ ReplaceFile(j) \/ ReplaceBase(j)
       \/ ReplaceFails(j) \/ Undo(j) \/ Undone(j)
       \/ DropJournal(j) \/ Unmark(j) \/ Leave(j)

BackupSpec == BackupInit /\ [][BackupNext]_backupVars
=============================================================================
