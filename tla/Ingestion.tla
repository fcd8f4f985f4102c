----------------------------- MODULE Ingestion -----------------------------
(***************************************************************************)
(* The fourth lane: files that clients upload, the conversions that turn   *)
(* them into Markdown and the tasks that attach them (app/ingestion/*, the *)
(* ingestion part of app/repository.py and app/dispatcher.py).             *)
(*                                                                         *)
(* Three kinds of thread meet here.  The event loop runs the upload        *)
(* handlers up to the storage and after it, the conversions, and a         *)
(* deletion; between two awaits nothing else runs on it, which `busy`      *)
(* says.  Worker threads run the storage of uploads (one at a time, under  *)
(* _upload_lock) and the requests to cancel.  The converter is a child     *)
(* process.  Files are identified by uuid, so an id is never used twice.   *)
(***************************************************************************)
EXTENDS Integers, Sequences, FiniteSets, FiniteSetsExt, SequencesExt

CONSTANTS
  Files,           \* ids that uploads may be given
  Clients,         \* upload handlers that run at the same time
  Uploads,         \* what clients may upload
  LegacyRows,      \* rows that an older version may have left
  MaxConcurrent,   \* ingestion.max_concurrent
  MaxTasks,        \* bound: conversions that are ever queued
  Budget           \* bound: how often each disturbance happens, "any" for all together

None == "none"

\* What an upload says and what its first bytes are (app.ingestion.detection).
Upload == [sha : STRING, kind : STRING, sniffed : BOOLEAN, size : Nat,
           describe : BOOLEAN, ocr : BOOLEAN, cloud : BOOLEAN]
MaxSize == 2      \* ingestion.max_file_mb
Kinds == {"pdf", "office", "text", "image", "audio", "video"}
TabularKinds == {"table"}  \* csv, tsv and xlsx: never put into a prompt

Disturbances == {"upload", "attach", "cancel", "delete", "restart", "loss"}
Bounded == Disturbances \cup {"any"}

ASSUME IngestionAssumption ==
  /\ Uploads \subseteq Upload
  /\ MaxConcurrent \in Nat \ {0} /\ MaxTasks \in Nat
  /\ Budget \in [Bounded -> Nat]

VARIABLES
  file,      \* rows of ingested_files
  births,    \* ids in order of creation, deleted ones included
  disk,      \* what the directory of a file holds
  task,      \* conversions in order of creation: rows of tasks
  job,       \* the coroutine run_task of a conversion
  upload,    \* upload handlers
  waiting,   \* tasks accepted with an attachment and not dispatched yet
  sent,      \* files of which something reached a remote model
  given,     \* which file each upload got: <<file, whether it may leave>>
  busy,      \* synchronous section of the event loop in course
  up,        \* the process runs
  used       \* counters of the bounded events

vars == <<file, births, disk, task, job, upload, waiting, sent, given, busy, up, used>>

----------------------------------------------------------------------------
(* Rows.                                                                   *)

FileStatuses == {"received", "converting", "ready", "failed"}
TaskStatuses == {"queued", "converting", "completed", "failed", "cancelled"}
Ended == {"completed", "failed", "cancelled"}

\* `attach`: the engine is ATTACH_ENGINE, there is nothing to convert.
\* `version`: privacy_policy_version, 0 in rows older than the policy.
FileRow == [sha : STRING, kind : STRING, describe : BOOLEAN, ocr : BOOLEAN,
            cloud : BOOLEAN, version : {0, 1}, attach : BOOLEAN,
            status : FileStatuses, markdown : BOOLEAN]

ASSUME LegacyAssumption ==
  \A old \in LegacyRows :
    /\ DOMAIN old \in SUBSET Files /\ IsFiniteSet(DOMAIN old)
    /\ \A f \in DOMAIN old : old[f] \in FileRow

Absent == [status |-> "absent"]
Exists(f) == file[f] # Absent
Pending(f) == Exists(f) /\ file[f].status \in {"received", "converting"}

Tasks == 1..Len(task)
TasksOf(f) == {t \in Tasks : task[t].file = f}
Open(t) == task[t].status \notin Ended

NoJob == [pc |-> None, owner |-> None, target |-> None]
LoopJobs == {t \in 1..MaxTasks : job[t].pc # None /\ job[t].owner = "loop"}
Idle == [pc |-> "idle", want |-> None, file |-> None]

\* What the event loop is doing without a pause: nothing, the end of a
\* conversion or a deletion.
Free == <<>>
Ending(t) == <<"conversion", t>>
Deleting(f) == <<"deletion", f>>
LoopFree == up /\ busy = Free
StoreFree == \A c \in Clients : upload[c].pc \notin {"repair", "mend", "insert"}

\* One more of the disturbances that the environment is allowed.
Count(e) ==
  /\ used[e] < Budget[e] /\ used["any"] < Budget["any"]
  /\ used' = [used EXCEPT ![e] = @ + 1, !["any"] = @ + 1]

----------------------------------------------------------------------------
(* Uploads: stream_upload_to_temp and store_upload_from_file.              *)

\* detect, and the checks of the size.  A refused upload leaves no trace: its
\* temporary file is removed in every way out.
Acceptable(w) ==
  w.size \in 1..MaxSize /\ w.sniffed /\ w.kind \in Kinds \cup TabularKinds

WantsOcr(w) == w.ocr /\ w.kind = "image"

\* _storage_healthy
Healthy(f) ==
  /\ "original" \in disk[f]
  /\ file[f].status = "ready" /\ ~file[f].attach
       => file[f].markdown /\ "markdown" \in disk[f]

\* Faulty: the policy of the other upload is not compared.
ServesWhatever(f, w) ==
  /\ Exists(f) /\ file[f].sha = w.sha
  /\ w.describe => file[f].describe
  /\ WantsOcr(w) => file[f].ocr
  /\ \/ file[f].version = 1 /\ file[f].status # "failed"
     \/ ~Healthy(f)

\* One row of _reusable_row: a conversion with more serves who asks for less,
\* a permission never serves another upload.
Serves(f, w) ==
  /\ Exists(f) /\ file[f].sha = w.sha
  /\ w.describe => file[f].describe
  /\ WantsOcr(w) => file[f].ocr
  /\ file[f].cloud = w.cloud
  /\ \/ file[f].version = 1 /\ file[f].status # "failed"
     \/ ~Healthy(f)

\* _reusable_row: the newest row that serves, if there is one.
Reusable(w) ==
  LET serving == {i \in 1..Len(births) : Serves(births[i], w)}
  IN  IF serving = {} THEN None ELSE births[Max(serving)]

Fresh(f) == ~Exists(f) /\ disk[f] = {} /\ \A i \in 1..Len(births) : births[i] # f

\* The upload is on disk: look for a row that serves and take one of the three
\* ways.  The directory of a new file is filled before its row exists.
StoreUpload(c, w) ==
  /\ up /\ upload[c].pc = "idle" /\ StoreFree /\ Acceptable(w)
  /\ Count("upload")
  /\ LET f == Reusable(w)
     IN  \/ /\ f # None
            /\ upload' = [upload EXCEPT ![c] =
                 [pc |-> IF Healthy(f) THEN "enqueue" ELSE "repair", want |-> w, file |-> f]]
            /\ UNCHANGED disk
         \/ /\ f = None
            /\ \E g \in {x \in Files : Fresh(x)} :
                 /\ disk' = [disk EXCEPT ![g] = {"dir", "original"}]
                 /\ upload' = [upload EXCEPT ![c] =
                      [pc |-> "insert", want |-> w, file |-> g]]
  /\ UNCHANGED <<file, births, task, job, waiting, sent, given, busy, up>>

\* The INSERT of a new row: what is not converted is born ready.
InsertRow(c) ==
  LET f == upload[c].file
      w == upload[c].want
      attached == w.kind = "image" /\ ~WantsOcr(w)
  IN  /\ up /\ upload[c].pc = "insert"
      /\ file' = [file EXCEPT ![f] =
           [sha |-> w.sha, kind |-> w.kind, describe |-> w.describe, ocr |-> WantsOcr(w),
            cloud |-> w.cloud, version |-> 1, attach |-> attached,
            status |-> IF attached THEN "ready" ELSE "received", markdown |-> FALSE]]
      /\ births' = Append(births, f)
      /\ upload' = [upload EXCEPT ![c].pc = "enqueue"]
      /\ UNCHANGED <<disk, task, job, waiting, sent, given, busy, up, used>>

\* _repair_upload, first the original, then the row.  The deletion of the file
\* takes no lock: the row may be gone when it is read back, and the handler
\* ends with an error.
RepairOriginal(c) ==
  /\ up /\ upload[c].pc = "repair"
  /\ disk' = [disk EXCEPT ![upload[c].file] = @ \cup {"dir", "original"}]
  /\ upload' = [upload EXCEPT ![c].pc = "mend"]
  /\ UNCHANGED <<file, births, task, job, waiting, sent, given, busy, up, used>>

RepairRow(c) ==
  LET f == upload[c].file
  IN  /\ up /\ upload[c].pc = "mend"
      /\ IF Exists(f)
         THEN /\ file' = [file EXCEPT ![f] =
                   [@ EXCEPT !.status = IF file[f].attach THEN "ready" ELSE "received",
                             !.markdown = FALSE, !.version = 1]]
              /\ upload' = [upload EXCEPT ![c].pc = "enqueue"]
         ELSE /\ upload' = [upload EXCEPT ![c] = Idle]
              /\ UNCHANGED file
      /\ UNCHANGED <<births, disk, task, job, waiting, sent, given, busy, up, used>>

----------------------------------------------------------------------------
(* The lane: rows of tasks.                                                *)

NewTask(f) == [file |-> f, status |-> "queued", first |-> FALSE]

\* ingestion_task_for_file
LatestTask(f) == IF TasksOf(f) = {} THEN 0 ELSE Max(TasksOf(f))

\* Faulty: any task of the file will do, an ended one included.
TaskWantedIfNone(f) == Pending(f) /\ LatestTask(f) = 0

\* enqueue creates a task unless the file is gone or ready, or its latest task
\* has not ended.
TaskWanted(f) ==
  /\ Exists(f) /\ file[f].status # "ready"
  /\ LatestTask(f) # 0 => ~Open(LatestTask(f))

\* The last part of an upload handler, on the event loop.
Enqueue(c) ==
  LET f == upload[c].file
  IN  /\ LoopFree /\ upload[c].pc = "enqueue"
      /\ IF TaskWanted(f)
         THEN Len(task) < MaxTasks /\ task' = Append(task, NewTask(f))
         ELSE UNCHANGED task
      /\ given' = given \cup {<<f, upload[c].want.cloud>>}
      /\ upload' = [upload EXCEPT ![c] = Idle]
      /\ UNCHANGED <<file, births, disk, job, waiting, sent, busy, up, used>>

SetTask(t, s) == task' = [task EXCEPT ![t].status = s]

\* request_cancel: a worker thread, at any time.
CancelTask(t) ==
  /\ up /\ Open(t)
  /\ SetTask(t, "cancelled") /\ Count("cancel")
  /\ UNCHANGED <<file, births, disk, job, upload, waiting, sent, given, busy, up>>

Converting == {t \in Tasks : task[t].status = "converting"}

\* Faulty: the coroutines of the loop are counted, not the rows.
ClaimableByJobs(t) ==
  /\ Cardinality(LoopJobs) < MaxConcurrent
  /\ task[t].status = "queued"

\* claim_next_ingestion_task: rows that were requeued have no place and come
\* first, then the order of creation.
Claimable(t) ==
  /\ Cardinality(Converting) < MaxConcurrent
  /\ task[t].status = "queued"
  /\ \A x \in Tasks \ {t} : task[x].status = "queued" =>
       \/ task[t].first /\ ~task[x].first
       \/ task[t].first = task[x].first /\ t < x

\* A claim by the loop or by the manual tick, and the coroutine it starts.
Owners == {"loop", "tick"}
Claim(t, owner) ==
  /\ LoopFree /\ Claimable(t)
  /\ owner = "loop" => Cardinality(LoopJobs) < MaxConcurrent
  /\ SetTask(t, "converting")
  /\ job' = [job EXCEPT ![t] = [NoJob EXCEPT !.pc = "start", !.owner = owner]]
  /\ UNCHANGED <<file, births, disk, upload, waiting, sent, given, busy, up, used>>

\* _cancel_requested_conversions: the loop kills the conversions it started
\* whose task was cancelled.  The file stays as it was.  A coroutine has taken its
\* first step by then, and past its last await it can no longer be cancelled.  A thread
\* that describes figures is not stopped: it is left, with the model it asks.
Left(t) == [NoJob EXCEPT !.target = IF job[t].pc = "describe" THEN job[t].target ELSE None]
KillConversion(t) ==
  /\ LoopFree /\ t \in LoopJobs /\ job[t].pc \in {"convert", "describe"}
  /\ task[t].status = "cancelled"
  /\ job' = [job EXCEPT ![t] = Left(t)]
  /\ UNCHANGED <<file, births, disk, task, upload, waiting, sent, given, busy, up, used>>

----------------------------------------------------------------------------
(* One conversion: run_task and process.                                   *)

\* Faulty: the row is written even if it was deleted meanwhile.
WriteFile(f, row) == file' = [file EXCEPT ![f] = row]

\* UPDATE ingested_files ... WHERE id: nothing happens to a row that is gone.
UpdateFile(f, row) == file' = IF Exists(f) THEN [file EXCEPT ![f] = row] ELSE file

\* select_vision_target: a local model, or a remote one if the record allows it.
VisionTargets(rec) == {"local"} \cup (IF rec.cloud /\ rec.version > 0 THEN {"cloud"} ELSE {})

\* _resolve_vision_target, or nobody when there is no model or no figure to see.
ResolvedTargets(rec) == {None} \cup (IF rec.describe THEN VisionTargets(rec) ELSE {})

Continue(t, pc) == job' = [job EXCEPT ![t].pc = pc]

\* Faulty: a conversion that was requeued is done again in any case.
SettledIfGone(f) == ~Exists(f)

\* process returns at once.
Settled(f) == ~Exists(f) \/ file[f].status = "ready"

\* Up to the first await.  A file without a row or already ready needs nothing,
\* an image nobody wants recognised (a legacy row) becomes an attachment.
StartConversion(t) ==
  LET f == task[t].file
  IN  /\ LoopFree /\ job[t].pc = "start"
      /\ \/ /\ Settled(f)
            /\ Continue(t, "close") /\ busy' = Ending(t)
            /\ UNCHANGED file
         \/ /\ ~Settled(f) /\ file[f].kind = "image" /\ ~file[f].ocr
            /\ file' = [file EXCEPT ![f] =
                 [@ EXCEPT !.status = "ready", !.attach = TRUE, !.markdown = FALSE]]
            /\ Continue(t, "close") /\ busy' = Ending(t)
         \/ /\ ~Settled(f) /\ (file[f].kind # "image" \/ file[f].ocr)
            /\ file' = [file EXCEPT ![f].status = "converting"]
            /\ \E target \in ResolvedTargets(file[f]) :
                 job' = [job EXCEPT ![t].pc = "convert", ![t].target = target]
            /\ UNCHANGED busy
  /\ UNCHANGED <<births, disk, task, upload, waiting, sent, given, up, used>>

\* convert_file and the engines need the original; the rest is their affair.
CanConvert(f) == "original" \in disk[f]

\* What the child process may write before it ends: any progress, then a result
\* or an error, or nothing at all when the system kills it.  A result that
\* cannot be written is followed by an error.
ChildOutput(f) ==
  LET done == {<<"progress", "result">>, <<"result">>, <<"result", "error">>}
      failed == {<<"error">>, <<"progress", "error">>, <<"progress">>, <<>>}
  IN  failed \cup (IF CanConvert(f) THEN done ELSE {})

\* _read_worker_output: an error outweighs a result, and silence is a failure.
Converted(out) ==
  /\ \E i \in 1..Len(out) : out[i] = "result"
  /\ \A i \in 1..Len(out) : out[i] # "error"

\* The child ends, fails or exceeds conversion_timeout_seconds (when it is
\* killed).  A failure is written on the row whatever it says by now.  A coroutine
\* created before takes its first step first: the event loop is a queue.
EndChild(t) ==
  LET f == task[t].file
  IN  /\ LoopFree /\ job[t].pc = "convert"
      /\ \A x \in Tasks : job[x].pc # "start"
      /\ \E out \in ChildOutput(f) :
           IF Converted(out)
           THEN /\ Continue(t, IF job[t].target = None THEN "write" ELSE "describe")
                /\ busy' = IF job[t].target = None THEN Ending(t) ELSE Free
                /\ UNCHANGED file
           ELSE /\ UpdateFile(f, [file[f] EXCEPT !.status = "failed"])
                /\ Continue(t, "close") /\ busy' = Ending(t)
      /\ UNCHANGED <<births, disk, task, upload, waiting, sent, given, up, used>>

\* _describe_pictures: the permission is read again before each figure.
FigureAllowed(t) ==
  LET f == task[t].file
  IN  /\ Exists(f)
      /\ job[t].target = "local" \/ (file[f].cloud /\ file[f].version > 0)

\* A figure goes to the model, or is declared as not described; an error never
\* fails the conversion.  In a worker thread: the event loop goes on meanwhile.
DescribeFigures(t) ==
  /\ LoopFree /\ job[t].pc = "describe"
  /\ sent' = IF job[t].target = "cloud" /\ FigureAllowed(t)
             THEN sent \cup {task[t].file} ELSE sent
  /\ Continue(t, "write") /\ busy' = Ending(t)
  /\ UNCHANGED <<file, births, disk, task, upload, waiting, given, up, used>>
\* The thread of a conversion that was cancelled goes on to the next figure, whatever
\* the event loop does.
ThreadGoesOn(t) ==
  /\ up /\ job[t].pc = None /\ job[t].target = "cloud" /\ FigureAllowed(t)
  /\ sent' = sent \cup {task[t].file}
  /\ UNCHANGED <<file, births, disk, task, job, upload, waiting, given, busy, up, used>>

\* converted.md replaces the one before in one rename.  Without its directory
\* the write raises, outside every handler of process.
WriteMarkdown(t) ==
  LET f == task[t].file
  IN  /\ up /\ job[t].pc = "write"
      /\ IF "dir" \in disk[f]
         THEN disk' = [disk EXCEPT ![f] = @ \cup {"markdown"}] /\ Continue(t, "publish")
         ELSE Continue(t, "raise") /\ UNCHANGED disk
      /\ UNCHANGED <<file, births, task, upload, waiting, sent, given, busy, up, used>>

PublishMarkdown(t) ==
  LET f == task[t].file
  IN  /\ up /\ job[t].pc = "publish"
      /\ UpdateFile(f, [file[f] EXCEPT !.status = "ready", !.markdown = TRUE])
      /\ Continue(t, "close")
      /\ UNCHANGED <<births, disk, task, upload, waiting, sent, given, busy, up, used>>

\* run_task: what the task ends as, read from the row of the file.
Verdict(t) ==
  IF job[t].pc = "raise" \/ (Exists(task[t].file) /\ file[task[t].file].status = "failed")
  THEN "failed" ELSE "completed"

\* run_task closes the row of the task without looking at it.
CloseTask(t) ==
  /\ up /\ job[t].pc \in {"close", "raise"}
  /\ SetTask(t, Verdict(t))
  /\ job' = [job EXCEPT ![t] = NoJob]
  /\ busy' = Free
  /\ UNCHANGED <<file, births, disk, upload, waiting, sent, given, up, used>>

----------------------------------------------------------------------------
(* Deletion, loss, restart.                                                *)

\* delete_file: the directory, then the row, without leaving the event loop.
RemoveDirectory(f) ==
  /\ LoopFree /\ Exists(f)
  /\ disk' = [disk EXCEPT ![f] = {}]
  /\ busy' = Deleting(f) /\ Count("delete")
  /\ UNCHANGED <<file, births, task, job, upload, waiting, sent, given, up>>

DeleteRow(f) ==
  /\ up /\ busy = Deleting(f)
  /\ file' = [file EXCEPT ![f] = Absent]
  /\ busy' = Free
  /\ UNCHANGED <<births, disk, task, job, upload, waiting, sent, given, up, used>>

\* A stored file disappears: the case _storage_healthy is there for.
LoseFile(f) ==
  /\ \E part \in disk[f] \ {"dir"} : disk' = [disk EXCEPT ![f] = @ \ {part}]
  /\ Count("loss")
  /\ UNCHANGED <<file, births, task, job, upload, waiting, sent, given, busy, up>>

\* The process ends at any point.  An ordered stop is the case in which no
\* handler is in course: it cancels the coroutines, which leaves the same rows.
EndProcess ==
  /\ up /\ up' = FALSE
  /\ Count("restart")
  /\ job' = [t \in 1..MaxTasks |-> NoJob]
  /\ upload' = [c \in Clients |-> Idle]
  /\ busy' = Free
  /\ UNCHANGED <<file, births, disk, task, waiting, sent, given>>

\* Faulty: conversions in course are left as they were.
RequeuedNone == task

\* requeue_interrupted_ingestion_tasks: the place stays NULL.
Requeued == [t \in Tasks |-> IF task[t].status = "converting"
                             THEN [task[t] EXCEPT !.status = "queued", !.first = TRUE]
                             ELSE task[t]]

\* prune_ingested_files: any of the ended files, old as they may be.
Pruned == {{}} \cup {{f} : f \in {g \in Files : Exists(g) /\ ~Pending(g)}}

\* The lifespan: conversions in course go back to the queue, every pending file
\* without a task that has not ended gets one (in order of creation), and old
\* files are removed.
StartProcess ==
  LET wanted == {i \in 1..Len(births) : Pending(births[i]) /\ TaskWanted(births[i])}
  IN  /\ ~up /\ up' = TRUE
      /\ Len(task) + Cardinality(wanted) <= MaxTasks
      /\ \E order \in [1..Cardinality(wanted) -> wanted] :
           /\ \A i, j \in DOMAIN order : i < j => order[i] < order[j]
           /\ task' = Requeued \o [i \in DOMAIN order |-> NewTask(births[order[i]])]
      /\ \E old \in Pruned :
           /\ disk' = [f \in Files |-> IF f \in old THEN {} ELSE disk[f]]
           /\ file' = [f \in Files |-> IF f \in old THEN Absent ELSE file[f]]
      /\ UNCHANGED <<births, job, upload, waiting, sent, given, busy, used>>

----------------------------------------------------------------------------
(* Tasks with an attachment.                                               *)

\* check_attachments, at the creation of the task.
Attachable(f) ==
  /\ Exists(f) /\ file[f].status = "ready" /\ "original" \in disk[f]
  /\ file[f].attach \/ (file[f].markdown /\ "markdown" \in disk[f])

\* An image travels as it is, or as its text when nobody can look at it: the text
\* recognised at the upload, or now, and then it is kept nowhere.
InlineImage(f) == "original" \in disk[f]
RecognizedText(f) == file[f].markdown /\ "markdown" \in disk[f]
RunOcr(f) == "original" \in disk[f]

\* expand_request, when the task is dispatched: of a table only a manifest, anything
\* else but images as its Markdown.
Expandable(f) ==
  /\ Exists(f)
  /\ \/ file[f].kind = "image" /\ (InlineImage(f) \/ RecognizedText(f) \/ RunOcr(f))
     \/ file[f].kind = "table" /\ file[f].status = "ready"
     \/ /\ file[f].kind \notin {"image", "table"}
        /\ file[f].status = "ready" /\ file[f].markdown /\ "markdown" \in disk[f]

\* apply_attachment_policy: what the task may do is what the file allows too.
MayLeave(f, asked) == asked /\ file[f].cloud /\ file[f].version > 0

\* The creation of a task with one attachment; a refused one leaves no trace.
AcceptTask(f, asked) ==
  /\ up /\ waiting = {} /\ Attachable(f)
  /\ Count("attach")
  /\ waiting' = {[file |-> f, cloud |-> MayLeave(f, asked)]}
  /\ UNCHANGED <<file, births, disk, task, job, upload, sent, given, busy, up>>

\* Its dispatch: the policy is applied again, the prompt goes to a model of the
\* deployment the task allows, or the task fails.
DispatchTask(w) ==
  /\ up /\ w \in waiting
  /\ waiting' = waiting \ {w}
  /\ \/ /\ Attachable(w.file) /\ Expandable(w.file)
        /\ \/ MayLeave(w.file, w.cloud) /\ sent' = sent \cup {w.file}
           \/ UNCHANGED sent
     \/ ~(Attachable(w.file) /\ Expandable(w.file)) /\ UNCHANGED sent
  /\ UNCHANGED <<file, births, disk, task, job, upload, given, busy, up, used>>

----------------------------------------------------------------------------

Init ==
  /\ \E old \in LegacyRows :
       /\ file = [f \in Files |-> IF f \in DOMAIN old THEN old[f] ELSE Absent]
       /\ disk = [f \in Files |-> IF f \in DOMAIN old THEN {"dir", "original"} ELSE {}]
       /\ births = SetToSeq(DOMAIN old)
  /\ task = <<>>
  /\ job = [t \in 1..MaxTasks |-> NoJob]
  /\ upload = [c \in Clients |-> Idle]
  /\ waiting = {} /\ sent = {} /\ given = {} /\ busy = Free
  /\ up = FALSE
  /\ used = [e \in Bounded |-> 0]

Handler(c) ==
  InsertRow(c) \/ RepairOriginal(c) \/ RepairRow(c) \/ Enqueue(c)

Coroutine(t) ==
  \/ StartConversion(t) \/ EndChild(t) \/ DescribeFigures(t)
  \/ WriteMarkdown(t) \/ PublishMarkdown(t) \/ CloseTask(t)

Next ==
  \/ \E c \in Clients : Handler(c) \/ \E w \in Uploads : StoreUpload(c, w)
  \/ \E t \in Tasks :
       \/ CancelTask(t) \/ KillConversion(t) \/ Coroutine(t) \/ ThreadGoesOn(t)
       \/ \E owner \in Owners : Claim(t, owner)
  \/ \E f \in Files :
       \/ RemoveDirectory(f) \/ DeleteRow(f) \/ LoseFile(f)
       \/ \E asked \in BOOLEAN : AcceptTask(f, asked)
  \/ \E w \in waiting : DispatchTask(w)
  \/ EndProcess \/ StartProcess

\* The loop claims again and again, coroutines and handlers go on, the process
\* is started again.  Nothing else is promised: uploads, cancellations, ticks,
\* deletions and losses may stop.
Fairness ==
  /\ WF_vars(StartProcess)
  /\ \A c \in Clients : WF_vars(Handler(c))
  /\ \A t \in 1..MaxTasks :
       /\ WF_vars(t \in Tasks /\ Claim(t, "loop"))
       /\ WF_vars(t \in Tasks /\ Coroutine(t))
       /\ WF_vars(t \in Tasks /\ KillConversion(t))
  /\ \A f \in Files : WF_vars(DeleteRow(f))

Spec == Init /\ [][Next]_vars /\ Fairness
=============================================================================
