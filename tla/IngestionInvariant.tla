------------------------- MODULE IngestionInvariant -------------------------
(***************************************************************************)
(* The inductive invariant behind the theorems of IngestionProofs.  What   *)
(* the lane promises rests on who is about to write a row, so the parts    *)
(* relate the handlers of uploads, the coroutines and the event loop to    *)
(* the rows and directories they found.                                    *)
(***************************************************************************)
EXTENDS IngestionProperties

HandlerPlaces == {"idle", "repair", "mend", "insert", "enqueue"}
LastPlaces == {"write", "publish", "close", "raise"}
ConversionPlaces == {None, "start", "convert", "describe"} \cup LastPlaces

TaskRow == [file : Files, status : TaskStatuses, first : BOOLEAN]
Job == [pc : ConversionPlaces, owner : Owners \cup {None}, target : {None, "local", "cloud"}]
HandlerRow(want) == [pc : HandlerPlaces, want : {want}, file : Files \cup {None}]
Works(t) == job[t].pc # None
Handles(c) == upload[c].pc # "idle"
Born == {births[i] : i \in 1..Len(births)}

StateIsTyped ==
  /\ file \in [Files -> FileRow \cup {Absent}] /\ births \in Seq(Files)
  /\ disk \in [Files -> SUBSET {"dir", "original", "markdown"}]
  /\ task \in Seq(TaskRow) /\ Len(task) <= MaxTasks
  /\ job \in [1..MaxTasks -> Job]
  /\ upload = [c \in Clients |-> upload[c]]
  /\ \A c \in Clients : upload[c] \in HandlerRow(upload[c].want)
  /\ waiting \subseteq [file : Files, cloud : BOOLEAN]
  /\ sent \subseteq Files /\ given \subseteq Files \X BOOLEAN
  /\ busy \in {Free} \cup {Ending(t) : t \in 1..MaxTasks} \cup {Deleting(f) : f \in Files}
  /\ up \in BOOLEAN /\ used \in [Bounded -> Nat]

\* An id is used once: a row, a conversion, a message to a model and an answer to a client
\* all name an id that was born, and it was born once.
IdsAreUsedOnce ==
  /\ \A i, j \in 1..Len(births) : births[i] = births[j] => i = j
  /\ \A f \in Files : Exists(f) \/ f \in sent => f \in Born
  /\ \A g \in given : g[1] \in Born
  /\ \A t \in Tasks : task[t].file \in Born

\* One handler stores at a time, and it knows the file it stores; who was given a file
\* asked for the permission the file has, as long as it has a row.
HandlersKnow ==
  /\ \A c \in Clients : Handles(c) =>
       /\ upload[c].want \in Upload /\ upload[c].file \in Files
       /\ upload[c].pc = "insert" <=> upload[c].file \notin Born
       /\ Exists(upload[c].file) => file[upload[c].file].cloud = upload[c].want.cloud
  /\ \A c, d \in Clients :
       upload[c].pc \in {"repair", "mend", "insert"} /\ upload[d].pc \in {"repair", "mend", "insert"}
         => c = d

\* Nothing was sent of a file that some client forbids to leave.
PermissionIsShared ==
  /\ \A f \in sent : Exists(f) => file[f].cloud
  /\ \A c \in Clients : Handles(c) /\ upload[c].file \in sent => upload[c].want.cloud
  /\ \A f \in Files : <<f, FALSE>> \in given => f \notin sent /\ (Exists(f) => ~file[f].cloud)

\* The event loop is in the last part of a conversion exactly when it says so, and
\* nobody is at work while the process is down.
LoopIsHeld ==
  /\ \A t \in 1..MaxTasks : job[t].pc \in LastPlaces <=> busy = Ending(t)
  /\ ~up => /\ busy = Free
            /\ \A t \in 1..MaxTasks : ~Works(t)
            /\ \A c \in Clients : ~Handles(c)

\* A coroutine has a row that was claimed, and a row that was claimed a coroutine.
RowsAreHeld ==
  /\ Cardinality(Converting) <= MaxConcurrent
  /\ \A t \in 1..MaxTasks : Works(t) =>
       t \in Tasks /\ task[t].status \in {"converting", "cancelled"}
  /\ up => \A t \in Converting : Works(t)

\* Only the latest conversion of a file may be open.
OneIsOpen == \A t \in Tasks : Open(t) => t = LatestTask(task[t].file)

\* What was converted has a directory to be written to.
DirectoriesStay ==
  /\ \A f \in Files : disk[f] # {} => "dir" \in disk[f]
  /\ \A t \in 1..MaxTasks : job[t].pc \in {"describe", "write"} =>
       LET f == task[t].file
       IN  Exists(f) => "dir" \in disk[f] \/ busy = Deleting(f)
  /\ \A t \in 1..MaxTasks : job[t].pc = "raise" => ~Exists(task[t].file)

\* A file that waits for a conversion, or that a conversion about to begin will take up
\* again although it had failed; and who cares for it.
NeedsWork(f) ==
  /\ Exists(f) /\ file[f].status # "ready"
  /\ file[f].status = "failed" => \E t \in TasksOf(f) : job[t].pc = "start"
Handled(f) == \E c \in Clients : upload[c].pc = "enqueue" /\ upload[c].file = f
CaredFor(f) ==
  \/ Handled(f)
  \/ LatestTask(f) # 0 /\ task[LatestTask(f)].status \in {"queued", "converting", "cancelled"}

WorkIsWanted ==
  /\ up => \A f \in Files : NeedsWork(f) => CaredFor(f)
  /\ \A t \in 1..MaxTasks : job[t].pc \in {"close", "raise"} /\ NeedsWork(task[t].file)
       => Handled(task[t].file)

IngestionInvariant ==
  /\ StateIsTyped /\ IdsAreUsedOnce /\ HandlersKnow /\ PermissionIsShared /\ LoopIsHeld
  /\ RowsAreHeld /\ OneIsOpen /\ DirectoriesStay /\ WorkIsWanted
=============================================================================
