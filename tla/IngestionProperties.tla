------------------------ MODULE IngestionProperties ------------------------
(* What the ingestion lane promises to whoever uploads a file.             *)
EXTENDS Ingestion

\* Every variable has its type: rows, directories, coroutines and handlers are
\* in the states the code gives them.
TypeOK ==
  /\ \A f \in Files : file[f] \in FileRow \cup {Absent}
  /\ \A f \in Files : disk[f] \subseteq {"dir", "original", "markdown"}
  /\ \A t \in Tasks : task[t].file \in Files /\ task[t].status \in TaskStatuses
  /\ \A t \in 1..MaxTasks :
       job[t].pc \in {None, "start", "convert", "describe", "write", "publish", "close", "raise"}
  /\ \A c \in Clients : upload[c].pc \in {"idle", "repair", "mend", "insert", "enqueue"}
  /\ sent \subseteq Files /\ given \subseteq Files \X BOOLEAN

\* The lane converts at most max_concurrent files, whoever claims them (the loop
\* or a manual tick), and while the process runs each row in 'converting' has
\* its coroutine: a row nobody works on would take a place for ever
\* (claim_next_ingestion_task, requeue_interrupted_ingestion_tasks).
LaneIsHeld ==
  /\ Cardinality(Converting) <= MaxConcurrent
  /\ up => \A t \in Converting : job[t].pc # None

\* No file waits for a conversion that nobody is going to do: while the process
\* runs, a pending file has a task that has not ended, or an upload handler
\* about to queue one, unless its last task was cancelled.  It ties the row of
\* the file, the row of the task, the repair of an upload and the restart.
PendingIsWanted ==
  up => \A f \in Files : Pending(f) =>
          \/ \E t \in TasksOf(f) : Open(t)
          \/ \E c \in Clients : upload[c].pc = "enqueue" /\ upload[c].file = f
          \/ LatestTask(f) # 0 /\ task[LatestTask(f)].status = "cancelled"

\* A document some client uploaded without permission to leave the machine never
\* reaches a remote model, neither one of its figures nor the prompt of a task
\* that attaches it, although uploads of the same bytes share a conversion.
LocalStaysLocal ==
  \A f \in Files : <<f, FALSE>> \in given => f \notin sent

\* A file that a task was allowed to attach stays attachable until the task is
\* dispatched: no reuse or restart takes it away, only a deletion, a loss on disk
\* (or the repair that it called for), or the failure of a second conversion of
\* the same file that was already in course.
ReadyStays ==
  [][\A f \in Files : Attachable(f) /\ ~Attachable(f)' =>
       \/ ~Exists(f)' \/ disk'[f] = {} \/ used'["loss"] > used["loss"]
       \/ \E c \in Clients : upload[c].pc = "mend" /\ upload[c].file = f
       \/ \E t \in TasksOf(f) : job[t].pc = "convert"]_vars

\* Every uploaded file stops being pending, whatever restarts come between,
\* unless its conversion is cancelled.
UploadsEnd ==
  \A f \in Files :
    Pending(f) ~> \/ ~Pending(f)
                  \/ LatestTask(f) # 0 /\ task[LatestTask(f)].status = "cancelled"
=============================================================================
