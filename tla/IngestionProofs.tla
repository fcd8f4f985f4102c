-------------------------- MODULE IngestionProofs --------------------------
(***************************************************************************)
(* What the ingestion lane promises, for any set of files and of clients,  *)
(* any capacity of the lane, any rows an older version left and any number *)
(* of disturbances.                                                        *)
(*                                                                         *)
(* First what a step makes of the rows; then each part of the invariant,   *)
(* with a step per action that can disturb it.                             *)
(***************************************************************************)
EXTENDS IngestionInvariant, FiniteSetTheorems, SequenceTheorems, WellFoundedInduction, TLAPS

USE DEF None

----------------------------------------------------------------------------
(* Types.                                                                  *)

\* The values that rows, handlers and coroutines are given.
LEMMA RowsOfFiles ==
  ASSUME NEW r \in FileRow, NEW s \in FileStatuses, NEW b \in BOOLEAN
  PROVE  /\ r # Absent /\ r.status # "absent"
         /\ [r EXCEPT !.status = s] \in FileRow
         /\ [r EXCEPT !.status = s, !.markdown = b] \in FileRow
         /\ [r EXCEPT !.status = s, !.attach = TRUE, !.markdown = b] \in FileRow
         /\ [r EXCEPT !.status = s, !.markdown = b, !.version = 1] \in FileRow
<1>1. r.status \in FileStatuses /\ r.status # "absent"
  BY DEF FileRow, FileStatuses
<1>2. r # Absent
  BY <1>1 DEF Absent
<1>3. [r EXCEPT !.status = s] \in FileRow
  BY DEF FileRow
<1>4. [r EXCEPT !.status = s, !.markdown = b] \in FileRow
  BY DEF FileRow
<1>5. [r EXCEPT !.status = s, !.attach = TRUE, !.markdown = b] \in FileRow
  BY DEF FileRow
<1>6. [r EXCEPT !.status = s, !.markdown = b, !.version = 1] \in FileRow
  BY DEF FileRow
<1> QED BY <1>1, <1>2, <1>3, <1>4, <1>5, <1>6

LEMMA RowsOfJobs ==
  ASSUME NEW r \in Job, NEW p \in ConversionPlaces, NEW x \in {None, "local", "cloud"},
         NEW o \in Owners
  PROVE  /\ [r EXCEPT !.pc = p] \in Job
         /\ [r EXCEPT !.pc = p, !.target = x] \in Job
         /\ NoJob \in Job
         /\ [NoJob EXCEPT !.pc = "start", !.owner = o] \in Job
BY DEF Job, NoJob, Owners, ConversionPlaces, LastPlaces

LEMMA RowsOfTasks ==
  /\ \A f \in Files : NewTask(f) \in TaskRow
  /\ \A r \in TaskRow, s \in TaskStatuses : [r EXCEPT !.status = s] \in TaskRow
  /\ \A r \in TaskRow : [r EXCEPT !.status = "queued", !.first = TRUE] \in TaskRow
BY DEF TaskRow, NewTask, TaskStatuses

LEMMA AppendTyped ==
  ASSUME NEW S, NEW s \in Seq(S), NEW e \in S
  PROVE  /\ Append(s, e) \in Seq(S) /\ Len(Append(s, e)) = Len(s) + 1
         /\ \A i \in 1..Len(s) : Append(s, e)[i] = s[i]
         /\ Append(s, e)[Len(s) + 1] = e
BY AppendProperties

----------------------------------------------------------------------------
(* Who writes what.                                                        *)

SomeClient(A(_)) == \E c \in Clients : A(c)
SomeTask(A(_)) == \E t \in Tasks : A(t)
SomeFile(A(_)) == \E f \in Files : A(f)

StoresUpload == \E c \in Clients, w \in Uploads : StoreUpload(c, w)
Claims == \E t \in Tasks, owner \in Owners : Claim(t, owner)
Accepts == \E f \in Files, asked \in BOOLEAN : AcceptTask(f, asked)
Dispatches == \E w \in waiting : DispatchTask(w)

LEMMA Steps ==
  ASSUME Next
  PROVE  \/ SomeClient(InsertRow) \/ SomeClient(RepairOriginal) \/ SomeClient(RepairRow)
         \/ SomeClient(Enqueue) \/ StoresUpload
         \/ SomeTask(CancelTask) \/ SomeTask(KillConversion) \/ Claims
         \/ SomeTask(StartConversion) \/ SomeTask(EndChild) \/ SomeTask(DescribeFigures)
         \/ SomeTask(WriteMarkdown) \/ SomeTask(PublishMarkdown) \/ SomeTask(CloseTask)
         \/ SomeFile(RemoveDirectory) \/ SomeFile(DeleteRow) \/ SomeFile(LoseFile)
         \/ SomeTask(ThreadGoesOn) \/ Accepts \/ Dispatches \/ EndProcess \/ StartProcess
BY DEF Next, Handler, Coroutine, SomeClient, SomeTask, SomeFile, StoresUpload, Claims,
       Accepts, Dispatches

\* For each variable, the steps that may change it.
LEMMA WhoWrites ==
  ASSUME [Next]_vars
  PROVE  /\ \/ UNCHANGED file \/ SomeClient(InsertRow) \/ SomeClient(RepairRow)
            \/ SomeTask(StartConversion) \/ SomeTask(EndChild)
            \/ SomeTask(PublishMarkdown) \/ SomeFile(DeleteRow) \/ StartProcess
        /\ \/ UNCHANGED births \/ SomeClient(InsertRow)
        /\ \/ UNCHANGED disk \/ StoresUpload \/ SomeClient(RepairOriginal)
            \/ SomeTask(WriteMarkdown) \/ SomeFile(RemoveDirectory)
            \/ SomeFile(LoseFile) \/ StartProcess
        /\ \/ UNCHANGED task \/ SomeClient(Enqueue) \/ SomeTask(CancelTask)
            \/ Claims \/ SomeTask(CloseTask) \/ StartProcess
        /\ \/ UNCHANGED job \/ Claims \/ SomeTask(KillConversion)
            \/ SomeTask(StartConversion) \/ SomeTask(EndChild)
            \/ SomeTask(DescribeFigures) \/ SomeTask(WriteMarkdown)
            \/ SomeTask(PublishMarkdown) \/ SomeTask(CloseTask) \/ EndProcess
        /\ \/ UNCHANGED upload \/ StoresUpload \/ SomeClient(InsertRow)
            \/ SomeClient(RepairOriginal) \/ SomeClient(RepairRow)
            \/ SomeClient(Enqueue) \/ EndProcess
        /\ \/ UNCHANGED waiting \/ Accepts \/ Dispatches
        /\ \/ UNCHANGED sent \/ SomeTask(DescribeFigures) \/ SomeTask(ThreadGoesOn)
            \/ Dispatches
        /\ \/ UNCHANGED given \/ SomeClient(Enqueue)
        /\ \/ UNCHANGED busy \/ SomeTask(StartConversion)
            \/ SomeTask(EndChild) \/ SomeTask(DescribeFigures)
            \/ SomeTask(CloseTask) \/ SomeFile(RemoveDirectory)
            \/ SomeFile(DeleteRow) \/ EndProcess
        /\ \/ UNCHANGED up \/ EndProcess \/ StartProcess
<1>1. CASE UNCHANGED vars
  BY <1>1 DEF vars
<1>2. CASE StoresUpload
  BY <1>2 DEF StoreUpload, StoresUpload
<1>3. CASE SomeClient(InsertRow)
  BY <1>3 DEF InsertRow, SomeClient
<1>4. CASE SomeClient(RepairOriginal)
  BY <1>4 DEF RepairOriginal, SomeClient
<1>5. CASE SomeClient(RepairRow)
  BY <1>5 DEF RepairRow, SomeClient
<1>6. CASE SomeClient(Enqueue)
  BY <1>6 DEF Enqueue, SomeClient
<1>7. CASE SomeTask(CancelTask)
  BY <1>7 DEF CancelTask, SomeTask
<1>8. CASE Claims
  BY <1>8 DEF Claim, Claims
<1>9. CASE SomeTask(KillConversion)
  BY <1>9 DEF KillConversion, SomeTask
<1>10. CASE SomeTask(StartConversion)
  BY <1>10 DEF StartConversion, SomeTask
<1>11. CASE SomeTask(EndChild)
  BY <1>11 DEF EndChild, SomeTask
<1>12. CASE SomeTask(DescribeFigures)
  BY <1>12 DEF DescribeFigures, SomeTask
<1>13. CASE SomeTask(WriteMarkdown)
  BY <1>13 DEF WriteMarkdown, SomeTask
<1>14. CASE SomeTask(PublishMarkdown)
  BY <1>14 DEF PublishMarkdown, SomeTask
<1>15. CASE SomeTask(CloseTask)
  BY <1>15 DEF CloseTask, SomeTask
<1>16. CASE SomeFile(RemoveDirectory)
  BY <1>16 DEF RemoveDirectory, SomeFile
<1>17. CASE SomeFile(DeleteRow)
  BY <1>17 DEF DeleteRow, SomeFile
<1>18. CASE SomeFile(LoseFile)
  BY <1>18 DEF LoseFile, SomeFile
<1>19. CASE EndProcess
  BY <1>19 DEF EndProcess
<1>20. CASE StartProcess
  BY <1>20 DEF StartProcess
<1>21. CASE Accepts
  BY <1>21 DEF AcceptTask, Accepts
<1>22. CASE Dispatches
  BY <1>22 DEF DispatchTask, Dispatches
<1>23. CASE SomeTask(ThreadGoesOn)
  BY <1>23 DEF ThreadGoesOn, SomeTask
<1> QED BY <1>1, <1>2, <1>3, <1>4, <1>5, <1>6, <1>7, <1>8, <1>9, <1>10, <1>11, <1>12,
           <1>13, <1>14, <1>15, <1>16, <1>17, <1>18, <1>19, <1>20, <1>21, <1>22, <1>23, Steps

----------------------------------------------------------------------------
(* What a step makes of the rows of the files.                             *)

\* Only an INSERT makes a row, of a handler that stores a new file; any other step takes
\* it away or changes its status, and never its permission.
LEMMA FilesAreTyped ==
  ASSUME IngestionInvariant, [Next]_vars
  PROVE  /\ file' \in [Files -> FileRow \cup {Absent}]
         /\ \A f \in Files : Exists(f)' =>
              \/ Exists(f) /\ file'[f].cloud = file[f].cloud
              \/ \E c \in Clients :
                   /\ InsertRow(c) /\ upload[c].file = f /\ file'[f].cloud = upload[c].want.cloud
<1> DEFINE Same(f) == file'[f] = file[f] \/ file'[f] = Absent
           Changed(f) == /\ Exists(f) /\ file'[f] \in FileRow
                         /\ file'[f].cloud = file[f].cloud
           Goal == /\ file' \in [Files -> FileRow \cup {Absent}]
                   /\ \A f \in Files : Same(f) \/ Changed(f)
<1>1. file \in [Files -> FileRow \cup {Absent}] /\ task \in Seq(TaskRow)
  BY DEF IngestionInvariant, StateIsTyped
<1>2. ASSUME NEW f \in Files, NEW r \in FileRow, file' = [file EXCEPT ![f] = r],
             Exists(f), r.cloud = file[f].cloud
      PROVE  Goal
  <2>1. file'[f] \in FileRow BY <1>1, <1>2
  <2>2. \A g \in Files : g # f => file'[g] = file[g] BY <1>1, <1>2
  <2>3. file' \in [Files -> FileRow \cup {Absent}] BY <1>1, <1>2
  <2>4. Changed(f) BY <1>1, <1>2, <2>1
  <2> QED BY <2>2, <2>3, <2>4
<1>3. \A f \in Files : Exists(f) => file[f] \in FileRow
  BY <1>1 DEF Exists
<1>4. ASSUME NEW t \in Tasks PROVE task[t].file \in Files
  <2>1. task[t] \in TaskRow
    BY <1>1 DEF Tasks
  <2> QED BY <2>1 DEF TaskRow
<1>5. ASSUME UNCHANGED file PROVE Goal
  BY <1>1, <1>5
<1>6. ASSUME SomeClient(RepairRow) PROVE Goal
  <2>1. PICK c \in Clients : RepairRow(c)
    BY <1>6 DEF SomeClient
  <2> DEFINE f == upload[c].file
             s == IF file[f].attach THEN "ready" ELSE "received"
             r == [file[f] EXCEPT !.status = s, !.markdown = FALSE, !.version = 1]
  <2>2. f \in Files
    BY <2>1 DEF RepairRow, IngestionInvariant, HandlersKnow, Handles
  <2>3. CASE Exists(f)
    <3>1. file' = [file EXCEPT ![f] = r]
      BY <2>1, <2>3 DEF RepairRow
    <3>2. file[f] \in FileRow /\ s \in FileStatuses
      BY <1>3, <2>2, <2>3 DEF FileStatuses
    <3>3. r \in FileRow
      BY <3>2, RowsOfFiles
    <3>4. r.cloud = file[f].cloud
      BY <3>2 DEF FileRow
    <3> QED BY <1>2, <2>2, <2>3, <3>1, <3>3, <3>4
  <2>4. CASE ~Exists(f)
    BY <1>1, <2>1, <2>4 DEF RepairRow
  <2> QED BY <2>3, <2>4
<1>7. ASSUME SomeTask(StartConversion) PROVE Goal
  <2>1. PICK t \in Tasks : StartConversion(t)
    BY <1>7 DEF SomeTask
  <2> DEFINE f == task[t].file
             r1 == [file[f] EXCEPT !.status = "ready", !.attach = TRUE, !.markdown = FALSE]
             r2 == [file[f] EXCEPT !.status = "converting"]
  <2>2. f \in Files
    BY <1>4
  <2>3. \/ UNCHANGED file
        \/ Exists(f) /\ file' = [file EXCEPT ![f] = r1]
        \/ Exists(f) /\ file' = [file EXCEPT ![f] = r2]
    BY <2>1 DEF StartConversion, Settled
  <2>4. Exists(f) => /\ r1 \in FileRow /\ r1.cloud = file[f].cloud
                     /\ r2 \in FileRow /\ r2.cloud = file[f].cloud
    <3>1. SUFFICES ASSUME Exists(f) PROVE r1 \in FileRow /\ r2 \in FileRow
                                           /\ r1.cloud = file[f].cloud /\ r2.cloud = file[f].cloud
      OBVIOUS
    <3>2. file[f] \in FileRow /\ {"ready", "converting"} \subseteq FileStatuses
      BY <1>3, <2>2, <3>1 DEF FileStatuses
    <3>3. r1 \in FileRow /\ r2 \in FileRow
      BY <3>2, RowsOfFiles
    <3>4. r1.cloud = file[f].cloud /\ r2.cloud = file[f].cloud
      BY <3>2 DEF FileRow
    <3> QED BY <3>3, <3>4
  <2> QED BY <1>2, <1>5, <2>2, <2>3, <2>4
<1>8. ASSUME SomeTask(EndChild) \/ SomeTask(PublishMarkdown) PROVE Goal
  <2>1. PICK t \in Tasks : EndChild(t) \/ PublishMarkdown(t)
    BY <1>8 DEF SomeTask
  <2> DEFINE f == task[t].file
             r1 == [file[f] EXCEPT !.status = "failed"]
             r2 == [file[f] EXCEPT !.status = "ready", !.markdown = TRUE]
  <2>2. f \in Files
    BY <1>4
  <2>3. \/ UNCHANGED file
        \/ Exists(f) /\ file' = [file EXCEPT ![f] = r1]
        \/ Exists(f) /\ file' = [file EXCEPT ![f] = r2]
    BY <2>1 DEF EndChild, PublishMarkdown, UpdateFile
  <2>4. Exists(f) => /\ r1 \in FileRow /\ r1.cloud = file[f].cloud
                     /\ r2 \in FileRow /\ r2.cloud = file[f].cloud
    <3>1. SUFFICES ASSUME Exists(f) PROVE r1 \in FileRow /\ r2 \in FileRow
                                           /\ r1.cloud = file[f].cloud /\ r2.cloud = file[f].cloud
      OBVIOUS
    <3>2. file[f] \in FileRow /\ {"ready", "failed"} \subseteq FileStatuses
      BY <1>3, <2>2, <3>1 DEF FileStatuses
    <3>3. r1 \in FileRow /\ r2 \in FileRow
      BY <3>2, RowsOfFiles
    <3>4. r1.cloud = file[f].cloud /\ r2.cloud = file[f].cloud
      BY <3>2 DEF FileRow
    <3> QED BY <3>3, <3>4
  <2> QED BY <1>2, <1>5, <2>2, <2>3, <2>4
<1>9. ASSUME SomeFile(DeleteRow) PROVE Goal
  BY <1>1, <1>9 DEF SomeFile, DeleteRow, Exists
<1>10. ASSUME StartProcess PROVE Goal
  BY <1>1, <1>10 DEF StartProcess
<1>11. CASE SomeClient(InsertRow)
  <2>1. PICK c \in Clients : InsertRow(c)
    BY <1>11 DEF SomeClient
  <2> DEFINE f == upload[c].file
             w == upload[c].want
             attached == w.kind = "image" /\ ~WantsOcr(w)
             r == [sha |-> w.sha, kind |-> w.kind, describe |-> w.describe, ocr |-> WantsOcr(w),
                   cloud |-> w.cloud, version |-> 1, attach |-> attached,
                   status |-> IF attached THEN "ready" ELSE "received", markdown |-> FALSE]
  <2>2. f \in Files /\ w \in Upload
    BY <2>1 DEF InsertRow, IngestionInvariant, HandlersKnow, Handles
  <2>3. file' = [file EXCEPT ![f] = r]
    BY <2>1 DEF InsertRow
  <2>4. r \in FileRow
    <3>1. WantsOcr(w) \in BOOLEAN /\ attached \in BOOLEAN
      BY <2>2 DEF WantsOcr, Upload
    <3>2. (IF attached THEN "ready" ELSE "received") \in FileStatuses
      BY DEF FileStatuses
    <3> HIDE DEF attached
    <3> QED BY <2>2, <3>1, <3>2 DEF FileRow, Upload
  <2>5. r.cloud = w.cloud
    OBVIOUS
  <2> HIDE DEF r
  <2>6. \A g \in Files : g # f => file'[g] = file[g]
    BY <1>1, <2>3
  <2>7. file'[f] = r
    BY <1>1, <2>2, <2>3
  <2>8. file' \in [Files -> FileRow \cup {Absent}]
    BY <1>1, <2>2, <2>3, <2>4
  <2> QED BY <1>3, <2>1, <2>5, <2>6, <2>7, <2>8 DEF Exists
<1> HIDE DEF Goal
<1>12. Goal \/ SomeClient(InsertRow)
  BY <1>5, <1>6, <1>7, <1>8, <1>9, <1>10, WhoWrites
<1>13. CASE Goal
  BY <1>1, <1>13 DEF Exists, Goal
<1> QED BY <1>11, <1>12, <1>13

----------------------------------------------------------------------------
(* What a step makes of the conversions.                                   *)

\* What the lifespan appends: one new row for each of a set of births, in their order.
Wanted == {i \in 1..Len(births) : Pending(births[i]) /\ TaskWanted(births[i])}
Added(order) == [i \in DOMAIN order |-> NewTask(births[order[i]])]

LEMMA StartAppends ==
  ASSUME StateIsTyped, StartProcess
  PROVE  \E order \in [1..Cardinality(Wanted) -> Wanted] :
           /\ \A i, j \in DOMAIN order : i < j => order[i] < order[j]
           /\ task' = Requeued \o Added(order)
           /\ Cardinality(Wanted) \in Nat /\ Len(task) + Cardinality(Wanted) <= MaxTasks
           /\ IsFiniteSet(Wanted)
<1>1. IsFiniteSet(1..Len(births)) /\ Wanted \in SUBSET (1..Len(births))
  <2>1. Len(births) \in Nat
    BY DEF StateIsTyped
  <2>2. IsFiniteSet(1..Len(births))
    BY <2>1, FS_Interval
  <2> QED BY <2>2 DEF Wanted
<1>2. IsFiniteSet(Wanted)
  BY <1>1, FS_Subset
<1>3. Cardinality(Wanted) \in Nat
  BY <1>2, FS_CardinalityType
<1> QED BY <1>2, <1>3 DEF StartProcess, Wanted, Added

\* The rows after a start: the old ones first, and then one per birth.
LEMMA StartedRows ==
  ASSUME StateIsTyped, NEW n \in Nat, NEW order \in [1..n -> Wanted],
         task' = Requeued \o Added(order)
  PROVE  /\ task' \in Seq(TaskRow) /\ Len(task') = Len(task) + n
         /\ \A t \in Tasks : task'[t] = IF task[t].status = "converting"
                                         THEN [task[t] EXCEPT !.status = "queued", !.first = TRUE]
                                         ELSE task[t]
         /\ \A i \in 1..n : task'[Len(task) + i] = NewTask(births[order[i]])
<1>1. task \in Seq(TaskRow) /\ births \in Seq(Files) /\ Len(task) \in Nat
  BY DEF StateIsTyped
<1>2. \A t \in Tasks : task[t] \in TaskRow
  BY <1>1 DEF Tasks
<1>3. Requeued \in [1..Len(task) -> TaskRow]
  BY <1>2, RowsOfTasks DEF Requeued, Tasks
<1>4. Requeued \in Seq(TaskRow) /\ Len(Requeued) = Len(task)
  BY <1>1, <1>3
<1>5. Added(order) \in [1..n -> TaskRow]
  <2>1. \A i \in 1..n : births[order[i]] \in Files
    BY <1>1 DEF Wanted
  <2> QED BY <2>1, RowsOfTasks DEF Added
<1>6. Added(order) \in Seq(TaskRow) /\ Len(Added(order)) = n
  BY <1>5
<1>7. task' \in Seq(TaskRow) /\ Len(task') = Len(task) + n
  <2>1. task' \in Seq(TaskRow)
    BY <1>4, <1>6, ConcatProperties
  <2>2. Len(task') = Len(Requeued) + Len(Added(order))
    BY <1>4, <1>6, ConcatProperties
  <2> QED BY <1>4, <1>6, <2>1, <2>2
<1>8. \A i \in 1..(Len(task) + n) :
        task'[i] = IF i <= Len(task) THEN Requeued[i] ELSE Added(order)[i - Len(task)]
  BY <1>4, <1>6, ConcatProperties
<1>9. ASSUME NEW t \in Tasks PROVE task'[t] = Requeued[t]
  <2>1. t \in 1..(Len(task) + n) /\ t <= Len(task)
    BY <1>1 DEF Tasks
  <2> QED BY <1>8, <2>1
<1>10. ASSUME NEW i \in 1..n PROVE task'[Len(task) + i] = Added(order)[i]
  <2>1. Len(task) + i \in 1..(Len(task) + n) /\ ~(Len(task) + i <= Len(task))
        /\ (Len(task) + i) - Len(task) = i
    BY <1>1
  <2> QED BY <1>8, <2>1
<1> QED BY <1>7, <1>9, <1>10 DEF Requeued, Added

LEMMA SetTaskKeeps ==
  ASSUME StateIsTyped, NEW t \in Tasks, NEW s \in TaskStatuses, SetTask(t, s)
  PROVE  /\ task' \in Seq(TaskRow) /\ Len(task') = Len(task)
         /\ \A u \in Tasks : task'[u] = IF u = t THEN [task[t] EXCEPT !.status = s] ELSE task[u]
         /\ task'[t].status = s /\ \A u \in Tasks : task'[u].file = task[u].file
<1>1. task \in Seq(TaskRow) /\ t \in 1..Len(task)
  BY DEF StateIsTyped, Tasks
<1>2. task[t] \in TaskRow
  BY <1>1
<1>3. [task[t] EXCEPT !.status = s] \in TaskRow
  BY <1>2, RowsOfTasks
<1>4. task' = [task EXCEPT ![t] = [task[t] EXCEPT !.status = s]]
  BY DEF SetTask
<1>5. task' \in Seq(TaskRow)
  BY <1>1, <1>3, <1>4
<1>6. Len(task') = Len(task)
  BY <1>1, <1>3, <1>4
<1>7. \A u \in Tasks : task'[u] = IF u = t THEN [task[t] EXCEPT !.status = s] ELSE task[u]
  BY <1>1, <1>4 DEF Tasks
<1>8. [task[t] EXCEPT !.status = s].status = s /\ [task[t] EXCEPT !.status = s].file = task[t].file
  BY <1>2 DEF TaskRow
<1> QED BY <1>5, <1>6, <1>7, <1>8

\* So a start makes one row for each file that wants one, and keeps the others.
LEMMA StartedGrow ==
  ASSUME StateIsTyped, IdsAreUsedOnce, NEW n \in Nat, NEW order \in [1..n -> Wanted],
         \A i, j \in 1..n : i < j => order[i] < order[j],
         task' = Requeued \o Added(order), Len(task) + n <= MaxTasks
  PROVE  /\ task' \in Seq(TaskRow) /\ Len(task') \in Nat
         /\ Len(task) <= Len(task') /\ Len(task') <= MaxTasks
         /\ \A t \in Tasks : /\ t \in Tasks' /\ task'[t].file = task[t].file
                             /\ ~Open(t) => task'[t].status \in Ended
         /\ \A t \in Tasks' \ Tasks : /\ task'[t].status = "queued" /\ task'[t].file \in Files
                                      /\ TaskWanted(task'[t].file)
         /\ \A t, u \in Tasks' \ Tasks : task'[t].file = task'[u].file => t = u
<1>1. /\ task \in Seq(TaskRow) /\ Len(task) \in Nat /\ Len(task) <= MaxTasks
      /\ births \in Seq(Files) /\ Len(births) \in Nat /\ MaxTasks \in Nat
  BY IngestionAssumption DEF StateIsTyped
<1>2. /\ task' \in Seq(TaskRow) /\ Len(task') = Len(task) + n
      /\ \A t \in Tasks : task'[t] = IF task[t].status = "converting"
                                      THEN [task[t] EXCEPT !.status = "queued", !.first = TRUE]
                                      ELSE task[t]
      /\ \A i \in 1..n : task'[Len(task) + i] = NewTask(births[order[i]])
  BY StartedRows
<1>3. Tasks = 1..Len(task) /\ Tasks' = 1..(Len(task) + n)
  BY <1>2 DEF Tasks
<1>4. \A t \in Tasks : task[t] \in TaskRow
  BY <1>1, <1>3
<1>5. \A t \in Tasks : /\ task'[t].file = task[t].file
                       /\ task[t].status # "converting" => task'[t] = task[t]
  BY <1>2, <1>4 DEF TaskRow
<1>6. \A t \in Tasks : t \in Tasks'
  BY <1>1, <1>3
<1>7. \A t \in Tasks' \ Tasks : t - Len(task) \in 1..n /\ t = Len(task) + (t - Len(task))
  BY <1>1, <1>3
<1>8. \A t \in Tasks' \ Tasks : task'[t] = NewTask(births[order[t - Len(task)]])
  BY <1>2, <1>7
<1>9. \A i \in Wanted : births[i] \in Files /\ TaskWanted(births[i]) /\ i \in 1..Len(births)
  BY <1>1 DEF Wanted
<1>10. \A f : NewTask(f).status = "queued" /\ NewTask(f).file = f
  BY DEF NewTask
<1>11. \A t \in Tasks' \ Tasks : /\ order[t - Len(task)] \in Wanted
                                /\ task'[t].status = "queued"
                                /\ task'[t].file = births[order[t - Len(task)]]
  BY <1>7, <1>8, <1>10
<1>12. ASSUME NEW t \in Tasks' \ Tasks, NEW u \in Tasks' \ Tasks,
              task'[t].file = task'[u].file
       PROVE  t = u
  <2> DEFINE i == t - Len(task)
             j == u - Len(task)
  <2>1. i \in 1..n /\ j \in 1..n /\ t = Len(task) + i /\ u = Len(task) + j
    BY <1>7
  <2>2. order[i] \in Wanted /\ order[j] \in Wanted /\ births[order[i]] = births[order[j]]
    BY <1>11, <1>12
  <2>3. order[i] \in 1..Len(births) /\ order[i] = order[j]
    BY <1>9, <2>2 DEF IdsAreUsedOnce
  <2> HIDE DEF i, j
  <2>4. i = j
    <3>1. i \in Nat /\ j \in Nat /\ order[i] \in Nat
      BY <1>1, <2>1, <2>3
    <3>2. ~(i < j) /\ ~(j < i)
      BY <2>1, <2>3, <3>1
    <3> QED BY <3>1, <3>2
  <2> QED BY <2>1, <2>4
<1>13. \A t \in Tasks : ~Open(t) => task'[t].status \in Ended
  BY <1>5 DEF Open, Ended
<1>14. Len(task') \in Nat /\ Len(task) <= Len(task') /\ Len(task') <= MaxTasks
  <2>1. Len(task') = Len(task) + n /\ Len(task) \in Nat
    BY <1>1, <1>2
  <2> QED BY <2>1
<1>15. \A t \in Tasks' \ Tasks : task'[t].file \in Files /\ TaskWanted(task'[t].file)
  BY <1>9, <1>11
<1> QED BY <1>2, <1>5, <1>6, <1>11, <1>12, <1>13, <1>14, <1>15

\* Rows of tasks are never removed, keep their file and stay ended once they have ended;
\* a new row waits, for a file that wanted it, and a step makes one row per file.
LEMMA TasksGrow ==
  ASSUME IngestionInvariant, [Next]_vars
  PROVE  /\ task' \in Seq(TaskRow) /\ Len(task') \in Nat
         /\ Len(task) <= Len(task') /\ Len(task') <= MaxTasks
         /\ \A t \in Tasks : /\ t \in Tasks' /\ task'[t].file = task[t].file
                             /\ ~Open(t) => task'[t].status \in Ended
         /\ \A t \in Tasks' \ Tasks : /\ task'[t].status = "queued" /\ task'[t].file \in Files
                                      /\ TaskWanted(task'[t].file)
         /\ \A t, u \in Tasks' \ Tasks : task'[t].file = task'[u].file => t = u
<1> DEFINE Goal ==
      /\ task' \in Seq(TaskRow) /\ Len(task') \in Nat
      /\ Len(task) <= Len(task') /\ Len(task') <= MaxTasks
      /\ \A t \in Tasks : /\ t \in Tasks' /\ task'[t].file = task[t].file
                          /\ ~Open(t) => task'[t].status \in Ended
      /\ \A t \in Tasks' \ Tasks : /\ task'[t].status = "queued" /\ task'[t].file \in Files
                                   /\ TaskWanted(task'[t].file)
      /\ \A t, u \in Tasks' \ Tasks : task'[t].file = task'[u].file => t = u
<1>1. /\ StateIsTyped /\ task \in Seq(TaskRow) /\ Len(task) \in Nat /\ Len(task) <= MaxTasks
      /\ births \in Seq(Files)
  BY DEF IngestionInvariant, StateIsTyped
<1>2. MaxTasks \in Nat
  BY IngestionAssumption
<1>3. ASSUME UNCHANGED task PROVE Goal
  BY <1>1, <1>3 DEF Tasks, Open
<1>4. ASSUME NEW t \in Tasks, NEW s \in TaskStatuses, SetTask(t, s), ~Open(t) => s \in Ended
      PROVE  Goal
  <2>1. /\ task' \in Seq(TaskRow) /\ Len(task') = Len(task)
        /\ \A u \in Tasks : task'[u].file = task[u].file
        /\ \A u \in Tasks : u # t => task'[u] = task[u]
        /\ task'[t].status = s
    BY <1>1, <1>4, SetTaskKeeps
  <2>2. Tasks' = Tasks
    BY <2>1 DEF Tasks
  <2>3. \A u \in Tasks : ~Open(u) => task'[u].status \in Ended
    BY <1>4, <2>1 DEF Open
  <2> QED BY <1>1, <2>1, <2>2, <2>3
<1>5. ASSUME SomeTask(CancelTask) PROVE Goal
  BY <1>4, <1>5 DEF SomeTask, CancelTask, TaskStatuses, Ended
<1>6. ASSUME Claims PROVE Goal
  <2>1. PICK t \in Tasks : SetTask(t, "converting") /\ task[t].status = "queued"
    BY <1>6 DEF Claims, Claim, Claimable
  <2> QED BY <1>4, <2>1 DEF TaskStatuses, Ended, Open
<1>7. ASSUME SomeTask(CloseTask) PROVE Goal
  <2>1. PICK t \in Tasks : SetTask(t, Verdict(t))
    BY <1>7 DEF SomeTask, CloseTask
  <2>2. Verdict(t) \in Ended /\ Verdict(t) \in TaskStatuses
    BY DEF Verdict, Ended, TaskStatuses
  <2> QED BY <1>4, <2>1, <2>2
<1>8. ASSUME SomeClient(Enqueue) PROVE Goal
  <2>1. PICK c \in Clients : Enqueue(c)
    BY <1>8 DEF SomeClient
  <2> DEFINE f == upload[c].file
  <2>2. f \in Files
    BY <2>1 DEF Enqueue, IngestionInvariant, HandlersKnow, Handles
  <2>3. CASE TaskWanted(f)
    <3>1. Len(task) < MaxTasks /\ task' = Append(task, NewTask(f))
      BY <2>1, <2>3 DEF Enqueue
    <3>2. NewTask(f) \in TaskRow
      BY <2>2, RowsOfTasks
    <3>3. /\ task' \in Seq(TaskRow) /\ Len(task') = Len(task) + 1
          /\ \A t \in 1..Len(task) : task'[t] = task[t]
          /\ task'[Len(task) + 1] = NewTask(f)
      BY <1>1, <3>1, <3>2, AppendTyped
    <3>4. Tasks \subseteq Tasks' /\ Tasks' \ Tasks = {Len(task) + 1}
      BY <1>1, <3>3 DEF Tasks
    <3>5. NewTask(f).status = "queued" /\ NewTask(f).file = f
      BY DEF NewTask
    <3>6. \A t \in Tasks : t \in Tasks' /\ task'[t] = task[t]
      BY <3>3, <3>4 DEF Tasks
    <3>7. \A t \in Tasks' \ Tasks : t = Len(task) + 1
      BY <3>4
    <3>8. Len(task') \in Nat /\ Len(task) <= Len(task') /\ Len(task') <= MaxTasks
      BY <1>1, <1>2, <3>1, <3>3
    <3>9. \A t \in Tasks' \ Tasks : /\ task'[t].status = "queued" /\ task'[t].file \in Files
                                    /\ TaskWanted(task'[t].file)
      BY <2>2, <2>3, <3>3, <3>5, <3>7
    <3>10. \A t \in Tasks : ~Open(t) => task'[t].status \in Ended
      BY <3>6 DEF Open
    <3> QED BY <3>3, <3>6, <3>7, <3>8, <3>9, <3>10
  <2>4. CASE ~TaskWanted(f)
    BY <1>3, <2>1, <2>4 DEF Enqueue
  <2> QED BY <2>3, <2>4
<1>9. ASSUME StartProcess PROVE Goal
  <2>1. PICK order \in [1..Cardinality(Wanted) -> Wanted] :
           /\ \A i, j \in DOMAIN order : i < j => order[i] < order[j]
           /\ task' = Requeued \o Added(order)
           /\ Cardinality(Wanted) \in Nat /\ Len(task) + Cardinality(Wanted) <= MaxTasks
    BY <1>1, <1>9, StartAppends
  <2>2. DOMAIN order = 1..Cardinality(Wanted)
    OBVIOUS
  <2> QED BY <1>1, <2>1, <2>2, StartedGrow DEF IngestionInvariant
<1> HIDE DEF Goal
<1>10. Goal
  BY <1>3, <1>5, <1>6, <1>7, <1>8, <1>9, WhoWrites
<1> QED BY <1>10 DEF Goal

----------------------------------------------------------------------------
(* The greatest of a set of indices: the latest conversion, the newest row *)
(* that serves.                                                            *)

LEMMA GreatestOf ==
  ASSUME NEW n \in Nat, NEW S \in SUBSET (1..n), S # {}
  PROVE  Max(S) \in S /\ \A x \in S : x <= Max(S)
<1> DEFINE Gaps == {g \in Nat : n - g \in S}
           R == OpToRel(<, Nat)
<1>1. PICK x \in S : x \in 1..n /\ n - x \in Nat /\ n - (n - x) = x
  <2>1. \A x \in S : x \in 1..n
    OBVIOUS
  <2>2. \A x \in 1..n : n - x \in Nat /\ n - (n - x) = x
    OBVIOUS
  <2> QED BY <2>1, <2>2
<1>2. Gaps # {} /\ Gaps \in SUBSET Nat
  BY <1>1
<1>3. \A a, b \in Nat : b < a => <<b, a>> \in R
  BY DEF OpToRel
<1>4. IsWellFoundedOn(R, Nat)
  BY NatLessThanWellFounded
<1> HIDE DEF R, Gaps
<1>5. PICK g \in Gaps : \A h \in Gaps : ~ (<<h, g>> \in R)
  BY <1>2, <1>4, WFMin
<1>6. g \in Nat /\ n - g \in S
  BY <1>5 DEF Gaps
<1>7. \A y \in S : y <= n - g
  <2>1. SUFFICES ASSUME NEW y \in S, ~ (y <= n - g) PROVE FALSE
    OBVIOUS
  <2>2. y \in 1..n /\ n - y \in Nat /\ n - (n - y) = y /\ n - y < g
    BY <1>6, <2>1
  <2>3. n - y \in Gaps
    BY <2>2 DEF Gaps
  <2> QED BY <1>3, <1>5, <1>6, <2>2, <2>3
<1>8. \A y \in S : n - g >= y
  BY <1>6, <1>7
<1>9. Max(S) \in S /\ \A y \in S : Max(S) >= y
  BY <1>6, <1>8 DEF Max
<1> QED BY <1>9

\* The latest conversion of a file before and after a step.
LEMMA LatestIsLast ==
  ASSUME IngestionInvariant, [Next]_vars, NEW f
  PROVE  /\ LatestTask(f) = 0 <=> TasksOf(f) = {}
         /\ LatestTask(f) # 0 => LatestTask(f) \in TasksOf(f)
         /\ \A t \in TasksOf(f) : t <= LatestTask(f)
         /\ LatestTask(f)' = 0 <=> TasksOf(f)' = {}
         /\ LatestTask(f)' # 0 => LatestTask(f)' \in TasksOf(f)'
         /\ \A t \in TasksOf(f)' : t <= LatestTask(f)'
         /\ TasksOf(f) = {t \in TasksOf(f)' : t \in Tasks}
<1>1. /\ TasksOf(f) \in SUBSET (1..Len(task)) /\ Len(task) \in Nat
      /\ \A t \in TasksOf(f) : t # 0
  BY DEF TasksOf, Tasks, IngestionInvariant, StateIsTyped
<1>2. /\ TasksOf(f)' \in SUBSET (1..Len(task')) /\ Len(task') \in Nat
      /\ \A t \in TasksOf(f)' : t # 0
  BY TasksGrow DEF TasksOf, Tasks
<1>3. TasksOf(f) # {} => /\ Max(TasksOf(f)) \in TasksOf(f)
                         /\ \A t \in TasksOf(f) : t <= Max(TasksOf(f))
  BY <1>1, GreatestOf
<1>4. TasksOf(f)' # {} => /\ Max(TasksOf(f)') \in TasksOf(f)'
                          /\ \A t \in TasksOf(f)' : t <= Max(TasksOf(f)')
  BY <1>2, GreatestOf
<1>5. TasksOf(f) = {t \in TasksOf(f)' : t \in Tasks}
  BY TasksGrow DEF TasksOf
<1>6. /\ LatestTask(f) = IF TasksOf(f) = {} THEN 0 ELSE Max(TasksOf(f))
      /\ LatestTask(f)' = IF TasksOf(f)' = {} THEN 0 ELSE Max(TasksOf(f)')
  BY DEF LatestTask
<1> QED BY <1>1, <1>2, <1>3, <1>4, <1>5, <1>6

\* The row that is found for an upload serves it, and was born.
LEMMA ReusableServes ==
  ASSUME StateIsTyped, NEW w, Reusable(w) # None
  PROVE  Reusable(w) \in Files /\ Reusable(w) \in Born /\ Serves(Reusable(w), w)
<1> DEFINE serving == {i \in 1..Len(births) : Serves(births[i], w)}
<1>1. births \in Seq(Files) /\ Len(births) \in Nat
  BY DEF StateIsTyped
<1>2. serving # {} /\ Reusable(w) = births[Max(serving)]
  BY DEF Reusable
<1>3. serving \in SUBSET (1..Len(births)) /\ \A i \in serving : Serves(births[i], w)
  OBVIOUS
<1> HIDE DEF serving
<1>4. Max(serving) \in serving
  BY <1>1, <1>2, <1>3, GreatestOf
<1>5. Max(serving) \in 1..Len(births) /\ Serves(births[Max(serving)], w)
  BY <1>3, <1>4
<1> QED BY <1>1, <1>2, <1>5 DEF Born

----------------------------------------------------------------------------
(* The types of the other variables.                                       *)

LEMMA CountTyped ==
  ASSUME IngestionInvariant, NEW e \in Disturbances, Count(e)
  PROVE  used' \in [Bounded -> Nat]
<1>1. used \in [Bounded -> Nat] /\ e \in Bounded /\ "any" \in Bounded
  BY DEF IngestionInvariant, StateIsTyped, Bounded
<1>2. PICK n \in Nat, m \in Nat : used' = [[used EXCEPT ![e] = n] EXCEPT !["any"] = m]
  <2>1. used[e] + 1 \in Nat /\ used["any"] + 1 \in Nat
    BY <1>1
  <2> QED BY <2>1, Zenon DEF Count
<1> QED BY <1>1, <1>2

LEMMA CountersAreTyped ==
  ASSUME IngestionInvariant, [Next]_vars
  PROVE  used' \in [Bounded -> Nat]
<1>1. \/ UNCHANGED used \/ \E e \in Disturbances : Count(e)
  <2>1. CASE UNCHANGED vars
    BY <2>1 DEF vars
  <2>2. CASE \/ SomeClient(InsertRow) \/ SomeClient(RepairOriginal) \/ SomeClient(RepairRow)
             \/ SomeClient(Enqueue)
    BY <2>2 DEF SomeClient, InsertRow, RepairOriginal, RepairRow, Enqueue
  <2>3. CASE StoresUpload \/ SomeTask(CancelTask) \/ SomeFile(RemoveDirectory)
             \/ SomeFile(LoseFile) \/ Accepts \/ EndProcess
    BY <2>3 DEF StoresUpload, StoreUpload, SomeTask, CancelTask, SomeFile, RemoveDirectory,
                LoseFile, Accepts, AcceptTask, EndProcess, Disturbances
  <2>4. CASE \/ SomeTask(KillConversion) \/ Claims \/ SomeTask(StartConversion)
             \/ SomeTask(EndChild) \/ SomeTask(DescribeFigures)
    BY <2>4 DEF SomeTask, KillConversion, Claims, Claim, StartConversion, EndChild,
                DescribeFigures
  <2>5. CASE \/ SomeTask(WriteMarkdown) \/ SomeTask(PublishMarkdown) \/ SomeTask(CloseTask)
             \/ SomeFile(DeleteRow) \/ SomeTask(ThreadGoesOn) \/ Dispatches \/ StartProcess
    BY <2>5 DEF SomeTask, WriteMarkdown, PublishMarkdown, CloseTask, SomeFile, DeleteRow,
                ThreadGoesOn, Dispatches, DispatchTask, StartProcess
  <2> QED BY <2>1, <2>2, <2>3, <2>4, <2>5, Steps
<1> QED BY <1>1, CountTyped DEF IngestionInvariant, StateIsTyped

LEMMA DirectoriesAreTyped ==
  ASSUME IngestionInvariant, [Next]_vars
  PROVE  disk' \in [Files -> SUBSET {"dir", "original", "markdown"}]
<1>1. /\ disk \in [Files -> SUBSET {"dir", "original", "markdown"}]
      /\ StateIsTyped /\ task \in Seq(TaskRow) /\ HandlersKnow
  BY DEF IngestionInvariant, StateIsTyped
<1>2. CASE UNCHANGED disk
  BY <1>1, <1>2
<1>3. CASE StoresUpload
  BY <1>1, <1>3 DEF StoresUpload, StoreUpload
<1>4. CASE SomeClient(RepairOriginal)
  <2>1. PICK f : disk' = [disk EXCEPT ![f] = disk[f] \cup {"dir", "original"}]
    BY <1>4 DEF SomeClient, RepairOriginal
  <2> QED BY <1>1, <2>1
<1>5. CASE SomeTask(WriteMarkdown)
  BY <1>1, <1>5 DEF SomeTask, WriteMarkdown
<1>6. CASE SomeFile(RemoveDirectory) \/ SomeFile(LoseFile)
  BY <1>1, <1>6 DEF SomeFile, RemoveDirectory, LoseFile
<1>7. CASE StartProcess
  BY <1>1, <1>7 DEF StartProcess
<1> QED BY <1>2, <1>3, <1>4, <1>5, <1>6, <1>7, WhoWrites

LEMMA CoroutinesAreTyped ==
  ASSUME IngestionInvariant, [Next]_vars
  PROVE  job' \in [1..MaxTasks -> Job]
<1>1. /\ job \in [1..MaxTasks -> Job] /\ Tasks \subseteq 1..MaxTasks
      /\ Len(task) \in Nat /\ Len(task) <= MaxTasks
  BY IngestionAssumption DEF IngestionInvariant, StateIsTyped, Tasks
<1>2. ASSUME NEW t \in Tasks, NEW p \in ConversionPlaces, job' = [job EXCEPT ![t].pc = p]
      PROVE  job' \in [1..MaxTasks -> Job]
  <2>1. [job[t] EXCEPT !.pc = p] \in Job
    BY <1>1, RowsOfJobs DEF Owners
  <2> QED BY <1>1, <1>2, <2>1
<1>3. CASE UNCHANGED job
  BY <1>1, <1>3
<1>4. CASE Claims
  <2>1. PICK t \in Tasks, owner \in Owners :
          job' = [job EXCEPT ![t] = [NoJob EXCEPT !.pc = "start", !.owner = owner]]
    BY <1>4 DEF Claims, Claim
  <2>2. [NoJob EXCEPT !.pc = "start", !.owner = owner] \in Job
    BY DEF NoJob, Job, Owners, ConversionPlaces
  <2> QED BY <1>1, <2>1, <2>2
<1>5. CASE SomeTask(KillConversion) \/ SomeTask(CloseTask)
  <2>1. NoJob \in Job
    BY DEF NoJob, Job, ConversionPlaces
  <2>2. ASSUME NEW t \in Tasks PROVE Left(t) \in Job
    <3>1. job[t].target \in {None, "local", "cloud"}
      BY <1>1 DEF Job
    <3> QED BY <3>1 DEF Left, NoJob, Job, ConversionPlaces
  <2> QED BY <1>1, <1>5, <2>1, <2>2 DEF SomeTask, KillConversion, CloseTask
<1>6. CASE SomeTask(StartConversion)
  <2>1. PICK t \in Tasks : StartConversion(t)
    BY <1>6 DEF SomeTask
  <2>2. CASE Continue(t, "close")
    BY <1>2, <2>2 DEF Continue, ConversionPlaces, LastPlaces
  <2>3. CASE ~Continue(t, "close")
    <3>1. PICK x \in {None, "local", "cloud"} :
            job' = [job EXCEPT ![t].pc = "convert", ![t].target = x]
      BY <2>1, <2>3 DEF StartConversion, ResolvedTargets, VisionTargets
    <3>2. [job[t] EXCEPT !.pc = "convert", !.target = x] \in Job
      BY <1>1, RowsOfJobs DEF Owners, ConversionPlaces
    <3>3. job' = [job EXCEPT ![t] = [job[t] EXCEPT !.pc = "convert", !.target = x]]
      BY <1>1, <3>1
    <3> QED BY <1>1, <3>2, <3>3
  <2> QED BY <2>2, <2>3
<1>7. CASE SomeTask(EndChild) \/ SomeTask(DescribeFigures) \/ SomeTask(WriteMarkdown)
           \/ SomeTask(PublishMarkdown)
  <2>1. \E t \in Tasks, p \in ConversionPlaces : job' = [job EXCEPT ![t].pc = p]
    BY <1>7 DEF SomeTask, EndChild, DescribeFigures, WriteMarkdown, PublishMarkdown, Continue,
                ConversionPlaces, LastPlaces
  <2> QED BY <1>2, <2>1
<1>8. CASE EndProcess
  <2>1. NoJob \in Job
    BY DEF NoJob, Job, ConversionPlaces
  <2> QED BY <1>8, <2>1 DEF EndProcess
<1> QED BY <1>3, <1>4, <1>5, <1>6, <1>7, <1>8, WhoWrites

LEMMA HandlersAreTyped ==
  ASSUME IngestionInvariant, [Next]_vars
  PROVE  /\ upload' = [c \in Clients |-> upload'[c]]
         /\ \A c \in Clients : upload'[c] \in HandlerRow(upload'[c].want)
<1> DEFINE Goal == /\ upload' = [c \in Clients |-> upload'[c]]
                   /\ \A c \in Clients : upload'[c] \in HandlerRow(upload'[c].want)
<1>1. /\ upload = [c \in Clients |-> upload[c]]
      /\ \A c \in Clients : upload[c] \in HandlerRow(upload[c].want)
  BY DEF IngestionInvariant, StateIsTyped
<1>2. ASSUME NEW c \in Clients, NEW r, r \in HandlerRow(r.want), upload' = [upload EXCEPT ![c] = r]
      PROVE  Goal
  <2>1. \A d \in Clients : upload'[d] = IF d = c THEN r ELSE upload[d]
    BY <1>1, <1>2
  <2>2. upload' = [d \in Clients |-> upload'[d]]
    BY <1>1, <1>2
  <2> QED BY <1>1, <1>2, <2>1, <2>2
<1>3. \A w \in Uploads, f \in Files, p \in HandlerPlaces :
        LET r == [pc |-> p, want |-> w, file |-> f] IN r \in HandlerRow(r.want)
  BY DEF HandlerRow
<1>4. Idle \in HandlerRow(Idle.want)
  BY DEF HandlerRow, Idle, HandlerPlaces
<1>5. \A c \in Clients, p \in HandlerPlaces :
        LET r == [upload[c] EXCEPT !.pc = p] IN r \in HandlerRow(r.want)
  BY <1>1 DEF HandlerRow
<1>6. {"repair", "mend", "insert", "enqueue"} \subseteq HandlerPlaces
  BY DEF HandlerPlaces
<1>7. ASSUME UNCHANGED upload PROVE Goal
  BY <1>1, <1>7
<1>8. ASSUME StoresUpload PROVE Goal
  <2>1. PICK c \in Clients, w \in Uploads : StoreUpload(c, w)
    BY <1>8 DEF StoresUpload
  <2>2. \E p \in {"repair", "mend", "insert", "enqueue"}, f \in Files :
          upload' = [upload EXCEPT ![c] = [pc |-> p, want |-> w, file |-> f]]
    BY <2>1, ReusableServes DEF StoreUpload, IngestionInvariant
  <2> QED BY <1>2, <1>3, <1>6, <2>2
<1>9. ASSUME SomeClient(InsertRow) \/ SomeClient(RepairOriginal) \/ SomeClient(RepairRow)
             \/ SomeClient(Enqueue)
      PROVE  Goal
  <2>1. \E c \in Clients :
          \/ upload' = [upload EXCEPT ![c] = Idle]
          \/ \E p \in {"mend", "enqueue"} : upload' = [upload EXCEPT ![c].pc = p]
    BY <1>9 DEF SomeClient, InsertRow, RepairOriginal, RepairRow, Enqueue
  <2>2. PICK c \in Clients :
          \/ upload' = [upload EXCEPT ![c] = Idle]
          \/ \E p \in {"mend", "enqueue"} : upload' = [upload EXCEPT ![c] = [upload[c] EXCEPT !.pc = p]]
    BY <1>1, <2>1
  <2> QED BY <1>2, <1>4, <1>5, <1>6, <2>2
<1>10. ASSUME EndProcess PROVE Goal
  BY <1>4, <1>10 DEF EndProcess
<1> HIDE DEF Goal
<1>11. Goal
  BY <1>7, <1>8, <1>9, <1>10, WhoWrites
<1> QED BY <1>11 DEF Goal

LEMMA TypesStay ==
  ASSUME IngestionInvariant, [Next]_vars
  PROVE  StateIsTyped'
<1>1. StateIsTyped /\ Tasks \subseteq 1..MaxTasks /\ \A t \in Tasks : task[t].file \in Files
  <2>1. StateIsTyped /\ Tasks = 1..Len(task) /\ Len(task) \in Nat /\ MaxTasks \in Nat
        /\ Len(task) <= MaxTasks /\ task \in Seq(TaskRow)
    BY IngestionAssumption DEF IngestionInvariant, StateIsTyped, Tasks
  <2>2. \A t \in Tasks : task[t] \in TaskRow
    BY <2>1
  <2> QED BY <2>1, <2>2 DEF TaskRow
<1>2. births' \in Seq(Files)
  <2>1. CASE UNCHANGED births
    BY <1>1, <2>1 DEF StateIsTyped
  <2>2. CASE SomeClient(InsertRow)
    <3>1. PICK c \in Clients : InsertRow(c)
      BY <2>2 DEF SomeClient
    <3>2. births' = Append(births, upload[c].file) /\ upload[c].file \in Files
      BY <3>1 DEF InsertRow, IngestionInvariant, HandlersKnow, Handles
    <3> QED BY <1>1, <3>2 DEF StateIsTyped
  <2> QED BY <2>1, <2>2, WhoWrites
<1>3. waiting' \subseteq [file : Files, cloud : BOOLEAN]
  <2>1. CASE UNCHANGED waiting
    BY <1>1, <2>1 DEF StateIsTyped
  <2>2. CASE Accepts
    <3>1. PICK f \in Files, asked \in BOOLEAN :
            waiting' = {[file |-> f, cloud |-> MayLeave(f, asked)]}
      BY <2>2 DEF Accepts, AcceptTask
    <3>2. MayLeave(f, asked) \in BOOLEAN
      BY DEF MayLeave
    <3> QED BY <3>1, <3>2
  <2>3. CASE Dispatches
    BY <1>1, <2>3 DEF Dispatches, DispatchTask, StateIsTyped
  <2> QED BY <2>1, <2>2, <2>3, WhoWrites
<1>4. sent' \subseteq Files
  <2>1. CASE UNCHANGED sent
    BY <1>1, <2>1 DEF StateIsTyped
  <2>2. CASE SomeTask(DescribeFigures)
    BY <1>1, <2>2 DEF SomeTask, DescribeFigures, StateIsTyped
  <2>3. CASE SomeTask(ThreadGoesOn)
    BY <1>1, <2>3 DEF SomeTask, ThreadGoesOn, StateIsTyped
  <2>4. CASE Dispatches
    BY <1>1, <2>4 DEF Dispatches, DispatchTask, StateIsTyped
  <2> QED BY <2>1, <2>2, <2>3, <2>4, WhoWrites
<1>5. given' \subseteq Files \X BOOLEAN
  <2>1. CASE UNCHANGED given
    BY <1>1, <2>1 DEF StateIsTyped
  <2>2. CASE SomeClient(Enqueue)
    <3>1. PICK c \in Clients : Enqueue(c)
      BY <2>2 DEF SomeClient
    <3>2. upload[c].file \in Files /\ upload[c].want.cloud \in BOOLEAN
      BY <3>1 DEF Enqueue, IngestionInvariant, HandlersKnow, Handles, Upload
    <3>3. given' = given \cup {<<upload[c].file, upload[c].want.cloud>>}
      BY <3>1 DEF Enqueue
    <3> QED BY <1>1, <3>2, <3>3 DEF StateIsTyped
  <2> QED BY <2>1, <2>2, WhoWrites
<1>6. busy' \in {Free} \cup {Ending(t) : t \in 1..MaxTasks} \cup {Deleting(f) : f \in Files}
  <2>1. CASE UNCHANGED busy
    BY <1>1, <2>1 DEF StateIsTyped
  <2>2. CASE SomeTask(StartConversion)
    <3>1. PICK t \in Tasks : busy' = Ending(t) \/ UNCHANGED busy
      BY <2>2 DEF SomeTask, StartConversion
    <3> QED BY <1>1, <2>1, <3>1
  <2>3. CASE SomeTask(EndChild) \/ SomeTask(DescribeFigures) \/ SomeTask(CloseTask)
    <3>1. PICK t \in Tasks : busy' \in {Free, Ending(t)}
      BY <2>3 DEF SomeTask, EndChild, DescribeFigures, CloseTask
    <3> QED BY <1>1, <3>1
  <2>4. CASE SomeFile(RemoveDirectory) \/ SomeFile(DeleteRow) \/ EndProcess
    BY <2>4 DEF SomeFile, RemoveDirectory, DeleteRow, EndProcess
  <2> QED BY <2>1, <2>2, <2>3, <2>4, WhoWrites
<1>7. up' \in BOOLEAN
  BY <1>1, WhoWrites DEF StateIsTyped, EndProcess, StartProcess
<1> QED BY <1>2, <1>3, <1>4, <1>5, <1>6, <1>7, FilesAreTyped, TasksGrow, CountersAreTyped,
           DirectoriesAreTyped, CoroutinesAreTyped, HandlersAreTyped DEF StateIsTyped

----------------------------------------------------------------------------
(* Ids, handlers and permissions.                                          *)

LEMMA BornGrows ==
  ASSUME IngestionInvariant, [Next]_vars
  PROVE  /\ \A f \in Born : f \in Born'
         /\ UNCHANGED births => Born' = Born
         /\ \A c \in Clients : InsertRow(c) => Born' = Born \cup {upload[c].file}
         /\ \A i, j \in 1..Len(births') : births'[i] = births'[j] => i = j
<1>1. births \in Seq(Files) /\ Len(births) \in Nat
      /\ \A i, j \in 1..Len(births) : births[i] = births[j] => i = j
  BY DEF IngestionInvariant, StateIsTyped, IdsAreUsedOnce
<1>2. UNCHANGED births => Born' = Born
  BY DEF Born
<1>3. ASSUME NEW c \in Clients, InsertRow(c)
      PROVE  /\ Born' = Born \cup {upload[c].file}
             /\ \A i, j \in 1..Len(births') : births'[i] = births'[j] => i = j
  <2> DEFINE f == upload[c].file
  <2>1. births' = Append(births, f) /\ f \in Files /\ f \notin Born
    BY <1>3 DEF InsertRow, IngestionInvariant, HandlersKnow, Handles
  <2> HIDE DEF f
  <2>2. /\ Len(births') = Len(births) + 1 /\ births'[Len(births) + 1] = f
        /\ \A i \in 1..Len(births) : births'[i] = births[i]
    BY <1>1, <2>1, AppendTyped
  <2>3. 1..Len(births') = 1..Len(births) \cup {Len(births) + 1}
    BY <1>1, <2>2
  <2>4. Born' = {births'[i] : i \in 1..Len(births')} /\ Born = {births[i] : i \in 1..Len(births)}
    BY DEF Born
  <2>5. Born' = Born \cup {f}
    BY <2>2, <2>3, <2>4
  <2>6. \A i \in 1..Len(births) : births'[i] # f
    BY <2>1, <2>2, <2>4
  <2>7. \A i, j \in 1..Len(births') : births'[i] = births'[j] => i = j
    BY <1>1, <2>2, <2>3, <2>6
  <2> QED BY <2>5, <2>7 DEF f
<1> QED BY <1>1, <1>2, <1>3, WhoWrites DEF SomeClient

LEMMA IdsStayUsedOnce ==
  ASSUME IngestionInvariant, [Next]_vars
  PROVE  IdsAreUsedOnce'
<1>1. \A f \in Files : Exists(f)' => f \in Born'
  BY FilesAreTyped, BornGrows DEF IngestionInvariant, IdsAreUsedOnce
<1>2. \A f \in sent' : f \in Born'
  <2>1. \A f \in sent' : f \in sent \/ (f \in Files /\ Exists(f))
    <3>1. \A f \in sent' : f \in Files
      BY TypesStay DEF StateIsTyped
    <3>2. CASE UNCHANGED sent
      BY <3>2
    <3>3. CASE SomeTask(DescribeFigures) \/ SomeTask(ThreadGoesOn)
      <4>1. PICK t \in Tasks : DescribeFigures(t) \/ ThreadGoesOn(t)
        BY <3>3 DEF SomeTask
      <4>2. \A f \in sent' : f \in sent \/ Exists(f)
        BY <4>1 DEF DescribeFigures, ThreadGoesOn, FigureAllowed
      <4> QED BY <3>1, <4>2
    <3>4. CASE Dispatches
      <4>1. PICK w \in waiting : DispatchTask(w)
        BY <3>4 DEF Dispatches
      <4>2. \A f \in sent' : f \in sent \/ Exists(f)
        BY <4>1 DEF DispatchTask, Attachable
      <4> QED BY <3>1, <4>2
    <3> QED BY <3>2, <3>3, <3>4, WhoWrites
  <2> QED BY <2>1, BornGrows DEF IngestionInvariant, IdsAreUsedOnce, StateIsTyped
<1>3. \A g \in given' : g[1] \in Born'
  <2>1. CASE UNCHANGED given
    BY <2>1, BornGrows DEF IngestionInvariant, IdsAreUsedOnce
  <2>2. CASE SomeClient(Enqueue)
    <3>1. PICK c \in Clients : Enqueue(c)
      BY <2>2 DEF SomeClient
    <3>2. upload[c].file \in Born
      BY <3>1 DEF Enqueue, IngestionInvariant, HandlersKnow, Handles
    <3>3. given' = given \cup {<<upload[c].file, upload[c].want.cloud>>}
      BY <3>1 DEF Enqueue
    <3> QED BY <3>2, <3>3, BornGrows DEF IngestionInvariant, IdsAreUsedOnce
  <2> QED BY <2>1, <2>2, WhoWrites
<1>4. ASSUME NEW t \in Tasks' PROVE task'[t].file \in Born'
  <2>1. t \notin Tasks => task'[t].file \in Files /\ Exists(task'[t].file)
    BY TasksGrow DEF TaskWanted
  <2>2. t \notin Tasks => task'[t].file \in Born
    BY <2>1 DEF IngestionInvariant, IdsAreUsedOnce
  <2>3. t \in Tasks => task'[t].file \in Born
    BY TasksGrow DEF IngestionInvariant, IdsAreUsedOnce
  <2> QED BY <2>2, <2>3, BornGrows
<1> QED BY <1>1, <1>2, <1>3, <1>4, BornGrows DEF IdsAreUsedOnce

\* How a handler goes on.
LEMMA HandlersMove ==
  ASSUME IngestionInvariant, [Next]_vars, NEW c \in Clients
  PROVE  /\ \/ upload'[c] = upload[c] /\ ~InsertRow(c)
            \/ upload'[c] = Idle /\ (RepairRow(c) \/ Enqueue(c) \/ EndProcess)
            \/ \E w \in Uploads : StoreUpload(c, w)
            \/ InsertRow(c) /\ upload'[c] = [upload[c] EXCEPT !.pc = "enqueue"]
            \/ /\ RepairOriginal(c) /\ UNCHANGED <<file, births>>
               /\ upload'[c] = [upload[c] EXCEPT !.pc = "mend"]
            \/ /\ RepairRow(c) /\ Exists(upload[c].file) /\ UNCHANGED births
               /\ upload'[c] = [upload[c] EXCEPT !.pc = "enqueue"]
         /\ \A d \in Clients, w \in Uploads : StoreUpload(d, w) /\ d # c => upload'[c] = upload[c]
         /\ InsertRow(c) => upload'[c] # upload[c]
         /\ \A d \in Clients : InsertRow(d) /\ d # c => upload'[c] = upload[c]
<1>1. /\ upload = [d \in Clients |-> upload[d]]
      /\ \A d \in Clients : upload[d] \in HandlerRow(upload[d].want)
  BY DEF IngestionInvariant, StateIsTyped
<1>2. ASSUME NEW d \in Clients, NEW r, upload' = [upload EXCEPT ![d] = r]
      PROVE  upload'[c] = IF c = d THEN r ELSE upload[c]
  BY <1>1, <1>2
<1>3. ASSUME NEW d \in Clients, NEW p, upload' = [upload EXCEPT ![d].pc = p]
      PROVE  upload'[c] = IF c = d THEN [upload[c] EXCEPT !.pc = p] ELSE upload[c]
  BY <1>1, <1>3
<1>4. \A d \in Clients, w \in Uploads : StoreUpload(d, w) /\ d # c => upload'[c] = upload[c]
  <2>1. SUFFICES ASSUME NEW d \in Clients, NEW w \in Uploads, StoreUpload(d, w), d # c
                 PROVE  upload'[c] = upload[c]
    OBVIOUS
  <2>2. \E r : upload' = [upload EXCEPT ![d] = r]
    BY <2>1 DEF StoreUpload
  <2> QED BY <1>2, <2>1, <2>2
<1>5. \A d \in Clients : InsertRow(d) =>
        /\ upload'[c] = IF c = d THEN [upload[c] EXCEPT !.pc = "enqueue"] ELSE upload[c]
        /\ upload[d].pc = "insert"
  BY <1>3 DEF InsertRow
<1>6. InsertRow(c) => upload'[c] # upload[c]
  <2>1. [upload[c] EXCEPT !.pc = "enqueue"].pc = "enqueue"
    BY <1>1 DEF HandlerRow
  <2> QED BY <1>5, <2>1
<1>7. CASE UNCHANGED upload
  BY <1>4, <1>5, <1>6, <1>7
<1>8. CASE StoresUpload
  BY <1>4, <1>5, <1>6, <1>8 DEF StoresUpload, StoreUpload, InsertRow
<1>9. CASE SomeClient(InsertRow)
  BY <1>4, <1>5, <1>6, <1>9 DEF SomeClient
<1>10. CASE SomeClient(RepairOriginal)
  <2>1. PICK d \in Clients : RepairOriginal(d)
    BY <1>10 DEF SomeClient
  <2>2. upload'[c] = IF c = d THEN [upload[c] EXCEPT !.pc = "mend"] ELSE upload[c]
    BY <1>3, <2>1 DEF RepairOriginal
  <2>3. UNCHANGED <<file, births>>
    BY <2>1 DEF RepairOriginal
  <2> QED BY <1>4, <1>5, <1>6, <2>1, <2>2, <2>3
<1>11. CASE SomeClient(RepairRow)
  <2>1. PICK d \in Clients : RepairRow(d)
    BY <1>11 DEF SomeClient
  <2>2. CASE Exists(upload[d].file)
    <3>1. upload'[c] = IF c = d THEN [upload[c] EXCEPT !.pc = "enqueue"] ELSE upload[c]
      BY <1>3, <2>1, <2>2 DEF RepairRow
    <3>2. UNCHANGED births
      BY <2>1 DEF RepairRow
    <3> QED BY <1>4, <1>5, <1>6, <2>1, <2>2, <3>1, <3>2
  <2>3. CASE ~Exists(upload[d].file)
    <3>1. upload'[c] = IF c = d THEN Idle ELSE upload[c]
      BY <1>2, <2>1, <2>3 DEF RepairRow
    <3>2. c # d => ~InsertRow(c)
      BY <1>5, <1>6, <3>1
    <3> QED BY <1>4, <1>5, <1>6, <2>1, <3>1, <3>2
  <2> QED BY <2>2, <2>3
<1>12. CASE SomeClient(Enqueue)
  <2>1. PICK d \in Clients : Enqueue(d)
    BY <1>12 DEF SomeClient
  <2>2. upload'[c] = IF c = d THEN Idle ELSE upload[c]
    BY <1>2, <2>1 DEF Enqueue
  <2> QED BY <1>4, <1>5, <1>6, <2>1, <2>2
<1>13. CASE EndProcess
  <2>1. upload'[c] = Idle
    BY <1>13 DEF EndProcess
  <2> QED BY <1>4, <1>5, <1>6, <1>13, <2>1
<1> QED BY <1>7, <1>8, <1>9, <1>10, <1>11, <1>12, <1>13, WhoWrites

LEMMA HandlersStillKnow ==
  ASSUME IngestionInvariant, [Next]_vars
  PROVE  HandlersKnow'
<1> DEFINE Knows(u) == /\ u.want \in Upload /\ u.file \in Files
                       /\ u.pc = "insert" <=> u.file \notin Born'
                       /\ file'[u.file] # Absent => file'[u.file].cloud = u.want.cloud
           Stores(u) == u.pc \in {"repair", "mend", "insert"}
<1>1. /\ \A c \in Clients : upload[c] \in HandlerRow(upload[c].want)
      /\ HandlersKnow
  BY DEF IngestionInvariant, StateIsTyped
<1>0. \A f \in Files : file'[f] # Absent =>
        \/ Exists(f) /\ file'[f].cloud = file[f].cloud
        \/ \E c \in Clients :
             /\ InsertRow(c) /\ upload[c].file = f /\ file'[f].cloud = upload[c].want.cloud
  BY FilesAreTyped DEF Exists
<1>2. ASSUME NEW c \in Clients, upload'[c].pc # "idle" PROVE Knows(upload'[c])
  <2>1. CASE upload'[c] = upload[c] /\ ~InsertRow(c)
    <3> DEFINE f == upload[c].file
    <3>1. /\ upload[c].want \in Upload /\ f \in Files
          /\ upload[c].pc = "insert" <=> f \notin Born
          /\ Exists(f) => file[f].cloud = upload[c].want.cloud
      BY <1>1, <1>2, <2>1 DEF HandlersKnow, Handles
    <3>2. ASSUME NEW d \in Clients, InsertRow(d), upload[d].file = f PROVE FALSE
      <4>1. upload[d].pc = "insert" /\ f \notin Born
        BY <1>1, <3>2 DEF InsertRow, HandlersKnow, Handles
      <4>2. c = d
        BY <1>1, <3>1, <4>1 DEF HandlersKnow
      <4> QED BY <2>1, <3>2, <4>2
    <3>3. f \in Born' <=> f \in Born
      BY <3>2, BornGrows, WhoWrites DEF SomeClient
    <3>4. file'[f] # Absent => Exists(f) /\ file'[f].cloud = file[f].cloud
      BY <3>1, <3>2, <1>0
    <3> QED BY <2>1, <3>1, <3>3, <3>4
  <2>2. CASE upload'[c] = Idle
    BY <1>2, <2>2 DEF Idle
  <2>3. CASE \E w \in Uploads : StoreUpload(c, w)
    <3>1. PICK w \in Uploads : StoreUpload(c, w)
      BY <2>3
    <3>2. w \in Upload /\ UNCHANGED <<file, births>>
      BY <3>1, IngestionAssumption DEF StoreUpload
    <3>3. Born' = Born
      BY <3>2 DEF Born
    <3>4. CASE /\ Reusable(w) # None
               /\ upload' = [upload EXCEPT ![c] =
                    [pc |-> IF Healthy(Reusable(w)) THEN "enqueue" ELSE "repair",
                     want |-> w, file |-> Reusable(w)]]
      <4>1. Reusable(w) \in Files /\ Reusable(w) \in Born /\ Serves(Reusable(w), w)
        BY <3>4, ReusableServes DEF IngestionInvariant
      <4>2. upload'[c] = [pc |-> IF Healthy(Reusable(w)) THEN "enqueue" ELSE "repair",
                          want |-> w, file |-> Reusable(w)]
        BY <3>4 DEF IngestionInvariant, StateIsTyped
      <4> QED BY <3>2, <3>3, <4>1, <4>2 DEF Serves, Exists
    <3>5. CASE \E g \in {x \in Files : Fresh(x)} :
                 upload' = [upload EXCEPT ![c] = [pc |-> "insert", want |-> w, file |-> g]]
      <4>1. PICK g \in {x \in Files : Fresh(x)} :
              upload' = [upload EXCEPT ![c] = [pc |-> "insert", want |-> w, file |-> g]]
        BY <3>5
      <4>2. upload'[c] = [pc |-> "insert", want |-> w, file |-> g]
        BY <4>1 DEF IngestionInvariant, StateIsTyped
      <4>3. g \in Files /\ g \notin Born /\ file[g] = Absent
        BY <4>1 DEF Fresh, Exists, Born
      <4> QED BY <3>2, <3>3, <4>2, <4>3
    <3> QED BY <3>1, <3>4, <3>5 DEF StoreUpload
  <2>4. CASE InsertRow(c) /\ upload'[c] = [upload[c] EXCEPT !.pc = "enqueue"]
    <3> DEFINE f == upload[c].file
    <3>1. upload[c].want \in Upload /\ f \in Files /\ f \notin Born
      BY <1>1, <2>4 DEF InsertRow, HandlersKnow, Handles
    <3>2. f \in Born'
      BY <2>4, BornGrows
    <3>3. ~Exists(f)
      BY <3>1 DEF IngestionInvariant, IdsAreUsedOnce
    <3>4. file'[f] # Absent => file'[f].cloud = upload[c].want.cloud
      <4>1. SUFFICES ASSUME NEW d \in Clients, InsertRow(d), upload[d].file = f
                     PROVE  d = c
        BY <3>1, <3>3, <1>0
      <4> QED BY <1>1, <2>4, <4>1 DEF InsertRow, HandlersKnow
    <3>5. upload'[c].want = upload[c].want /\ upload'[c].file = f /\ upload'[c].pc = "enqueue"
      BY <1>1, <2>4 DEF HandlerRow
    <3> QED BY <3>1, <3>2, <3>4, <3>5
  <2>5. CASE \E p \in {"mend", "enqueue"} :
               /\ upload'[c] = [upload[c] EXCEPT !.pc = p] /\ UNCHANGED births
               /\ upload[c].pc \in {"repair", "mend"}
    <3> DEFINE f == upload[c].file
    <3>1. /\ upload[c].want \in Upload /\ f \in Files /\ f \in Born
          /\ Exists(f) => file[f].cloud = upload[c].want.cloud
      BY <1>1, <2>5 DEF HandlersKnow, Handles
    <3>2. f \in Born'
      BY <3>1, BornGrows
    <3>3. file'[f] # Absent => Exists(f) /\ file'[f].cloud = file[f].cloud
      <4>1. \A d \in Clients : InsertRow(d) => upload[d].file \notin Born
        BY <1>1 DEF InsertRow, HandlersKnow, Handles
      <4> QED BY <3>1, <4>1, <1>0
    <3>4. upload'[c].want = upload[c].want /\ upload'[c].file = f /\ upload'[c].pc # "insert"
      BY <1>1, <2>5 DEF HandlerRow
    <3> QED BY <3>1, <3>2, <3>3, <3>4
  <2> QED BY <2>1, <2>2, <2>3, <2>4, <2>5, HandlersMove DEF RepairOriginal, RepairRow
<1>3. ASSUME NEW c \in Clients, NEW d \in Clients, Stores(upload'[c]), Stores(upload'[d])
      PROVE  c = d
  <2>1. ASSUME NEW e \in Clients, Stores(upload'[e])
        PROVE  \/ Stores(upload[e])
               \/ \E w \in Uploads : StoreUpload(e, w)
    <3>1. upload'[e] # Idle /\ upload'[e].pc # "enqueue"
      BY <2>1 DEF Idle
    <3>2. upload'[e] # [upload[e] EXCEPT !.pc = "enqueue"]
      BY <1>1, <3>1 DEF HandlerRow
    <3> QED BY <2>1, <3>1, <3>2, HandlersMove DEF RepairOriginal
  <2>2. CASE \E w \in Uploads, e \in {c, d} : StoreUpload(e, w)
    <3>1. \A e \in Clients : ~Stores(upload[e])
      BY <2>2 DEF StoreUpload, StoreFree
    <3>2. \A e \in {c, d} : \E w \in Uploads : StoreUpload(e, w)
      BY <1>3, <2>1, <3>1
    <3>3. c # d => upload'[c] = upload[c]
      BY <3>2, HandlersMove
    <3> QED BY <1>3, <3>1, <3>3
  <2>3. CASE Stores(upload[c]) /\ Stores(upload[d])
    BY <1>1, <2>3 DEF HandlersKnow
  <2> QED BY <1>3, <2>1, <2>2, <2>3
<1> QED BY <1>2, <1>3 DEF HandlersKnow, Handles, Exists

\* Something reaches a remote model only of a file with a row that permits it.
LEMMA SentOfPermitted ==
  ASSUME [Next]_vars
  PROVE  \A f \in sent' : f \notin sent =>
           Exists(f) /\ file[f].cloud /\ UNCHANGED <<file, upload, given>>
<1>1. CASE UNCHANGED sent
  BY <1>1
<1>2. CASE SomeTask(DescribeFigures) \/ SomeTask(ThreadGoesOn)
  <2>1. PICK t \in Tasks : DescribeFigures(t) \/ ThreadGoesOn(t)
    BY <1>2 DEF SomeTask
  <2> QED BY <2>1 DEF DescribeFigures, ThreadGoesOn, FigureAllowed
<1>3. CASE Dispatches
  <2>1. PICK w \in waiting : DispatchTask(w)
    BY <1>3 DEF Dispatches
  <2> QED BY <2>1 DEF DispatchTask, Attachable, MayLeave
<1> QED BY <1>1, <1>2, <1>3, WhoWrites

LEMMA PermissionStaysShared ==
  ASSUME IngestionInvariant, [Next]_vars
  PROVE  PermissionIsShared'
<1>1. /\ PermissionIsShared /\ HandlersKnow /\ IdsAreUsedOnce /\ sent \subseteq Files
      /\ HandlersKnow' /\ sent' \subseteq Files
      /\ \A c \in Clients : upload[c] \in HandlerRow(upload[c].want)
      /\ given \subseteq Files \X BOOLEAN
  BY TypesStay, HandlersStillKnow DEF IngestionInvariant, StateIsTyped
\* A row that appears is of a file that nobody knew.
<1>2. \A f \in Files : file'[f] # Absent => \/ Exists(f) /\ file'[f].cloud = file[f].cloud
                                            \/ f \notin Born
  <2>1. \A c \in Clients : InsertRow(c) => upload[c].file \notin Born
    BY <1>1 DEF InsertRow, HandlersKnow, Handles
  <2> QED BY <2>1, FilesAreTyped DEF Exists
<1>3. ASSUME NEW f \in sent', file'[f] # Absent PROVE file'[f].cloud
  <2>1. CASE f \in sent
    BY <1>1, <1>2, <1>3, <2>1 DEF PermissionIsShared, IdsAreUsedOnce
  <2>2. CASE f \notin sent
    BY <2>2, SentOfPermitted
  <2> QED BY <2>1, <2>2
<1>4. ASSUME NEW c \in Clients, upload'[c].pc # "idle", upload'[c].file \in sent'
      PROVE  upload'[c].want.cloud
  <2> DEFINE f == upload'[c].file
  <2>1. f \in Files /\ (file'[f] # Absent => file'[f].cloud = upload'[c].want.cloud)
    BY <1>1, <1>4 DEF HandlersKnow, Handles, Exists
  <2>2. CASE file'[f] # Absent
    BY <1>3, <1>4, <2>1, <2>2
  <2>3. CASE file'[f] = Absent
    <3>1. f \in sent
      <4>1. f \notin sent => Exists(f) /\ UNCHANGED file
        BY <1>4, SentOfPermitted
      <4> QED BY <2>3, <4>1 DEF Exists
    <3>2. f \in Born
      BY <1>1, <3>1 DEF IdsAreUsedOnce
    <3>3. upload[c].pc # "idle" /\ upload[c].file = f /\ upload[c].want = upload'[c].want
      <4>1. CASE \E w \in Uploads : StoreUpload(c, w)
        <5>1. PICK w \in Uploads : StoreUpload(c, w)
          BY <4>1
        <5>2. UNCHANGED file
          BY <5>1 DEF StoreUpload
        <5>3. CASE \E r : r.file = Reusable(w) /\ Reusable(w) # None
                          /\ upload' = [upload EXCEPT ![c] = r]
          <6>1. f = Reusable(w)
            BY <5>3 DEF IngestionInvariant, StateIsTyped
          <6>2. Exists(f)
            BY <5>3, <6>1, ReusableServes DEF Serves, IngestionInvariant
          <6> QED BY <2>3, <5>2, <6>2 DEF Exists
        <5>4. CASE \E r, g : r.file = g /\ Fresh(g) /\ upload' = [upload EXCEPT ![c] = r]
          <6>1. Fresh(f)
            BY <5>4 DEF IngestionInvariant, StateIsTyped
          <6> QED BY <3>2, <6>1 DEF Fresh, Born
        <5>5. \/ /\ Reusable(w) # None
                 /\ upload' = [upload EXCEPT ![c] =
                     [pc |-> IF Healthy(Reusable(w)) THEN "enqueue" ELSE "repair",
                      want |-> w, file |-> Reusable(w)]]
              \/ \E g \in {x \in Files : Fresh(x)} :
                   upload' = [upload EXCEPT ![c] = [pc |-> "insert", want |-> w, file |-> g]]
          BY <5>1 DEF StoreUpload
        <5> QED BY <5>3, <5>4, <5>5
      <4>2. CASE upload'[c] = Idle
        BY <1>4, <4>2 DEF Idle
      <4>3. CASE /\ upload[c].pc # "idle"
                 /\ \E p : upload'[c] = [upload[c] EXCEPT !.pc = p]
        BY <1>1, <4>3 DEF HandlerRow
      <4> QED BY <1>4, <4>1, <4>2, <4>3, HandlersMove DEF InsertRow, RepairOriginal, RepairRow
    <3> QED BY <1>1, <3>1, <3>3 DEF PermissionIsShared, Handles
  <2> QED BY <2>2, <2>3
<1>5. ASSUME NEW f \in Files, <<f, FALSE>> \in given'
      PROVE  f \notin sent' /\ (file'[f] # Absent => ~file'[f].cloud)
  <2>1. CASE <<f, FALSE>> \in given
    <3>1. f \in Born /\ f \notin sent /\ (Exists(f) => ~file[f].cloud)
      BY <1>1, <2>1 DEF PermissionIsShared, IdsAreUsedOnce
    <3> QED BY <1>2, <3>1, SentOfPermitted
  <2>2. CASE <<f, FALSE>> \notin given
    <3>1. PICK c \in Clients : Enqueue(c)
      BY <1>5, <2>2, WhoWrites DEF SomeClient
    <3>2. given' = given \cup {<<upload[c].file, upload[c].want.cloud>>}
          /\ UNCHANGED <<file, sent>> /\ upload[c].pc = "enqueue"
      BY <3>1 DEF Enqueue
    <3>3. upload[c].file = f /\ upload[c].want.cloud = FALSE
      BY <1>5, <2>2, <3>2
    <3>4. f \notin sent /\ (Exists(f) => ~file[f].cloud)
      BY <1>1, <3>2, <3>3 DEF PermissionIsShared, HandlersKnow, Handles
    <3> QED BY <3>2, <3>4 DEF Exists
  <2> QED BY <2>1, <2>2
<1> QED BY <1>3, <1>4, <1>5 DEF PermissionIsShared, Handles, Exists

----------------------------------------------------------------------------
(* The event loop and the coroutines.                                      *)

\* A step of one coroutine, which leaves it at a place.
After(t, p) == job'[t].pc = p /\ \A u \in 1..MaxTasks : u # t => job'[u] = job[u]

LEMMA BusyDiffers ==
  ASSUME NEW t, NEW u, NEW f
  PROVE  /\ Free # Ending(t) /\ Free # Deleting(f) /\ Ending(t) # Deleting(f)
         /\ Ending(t) = Ending(u) => t = u
BY DEF Free, Ending, Deleting

LEMMA CoroutinesMove ==
  ASSUME StateIsTyped, NEW t \in Tasks
  PROVE  /\ t \in 1..MaxTasks
         /\ \A o \in Owners : Claim(t, o) => After(t, "start")
         /\ KillConversion(t) => After(t, None)
         /\ StartConversion(t) =>
              \/ /\ After(t, "close") /\ busy' = Ending(t)
                 /\ \/ Settled(task[t].file) /\ UNCHANGED file
                    \/ Exists(task[t].file) /\ file' = [file EXCEPT ![task[t].file] =
                         [@ EXCEPT !.status = "ready", !.attach = TRUE, !.markdown = FALSE]]
              \/ After(t, "convert") /\ busy' = busy
         /\ EndChild(t) => \/ After(t, "write") /\ busy' = Ending(t)
                           \/ After(t, "describe") /\ busy' = Free
                           \/ After(t, "close") /\ busy' = Ending(t)
         /\ DescribeFigures(t) => After(t, "write") /\ busy' = Ending(t)
         /\ WriteMarkdown(t) => \/ After(t, "publish") /\ "dir" \in disk[task[t].file]
                                \/ After(t, "raise") /\ "dir" \notin disk[task[t].file]
         /\ PublishMarkdown(t) => After(t, "close")
         /\ CloseTask(t) => After(t, None)
<1>1. /\ job \in [1..MaxTasks -> Job] /\ Tasks = 1..Len(task) /\ Len(task) \in Nat
      /\ MaxTasks \in Nat /\ Len(task) <= MaxTasks
  BY IngestionAssumption DEF StateIsTyped, Tasks
<1>2. t \in 1..MaxTasks
  BY <1>1
<1>3. ASSUME NEW r, NEW p, r.pc = p, job' = [job EXCEPT ![t] = r] PROVE After(t, p)
  BY <1>1, <1>2, <1>3 DEF After
<1>4. ASSUME NEW p, Continue(t, p) PROVE After(t, p)
  <2>1. [job[t] EXCEPT !.pc = p].pc = p
    BY <1>1, <1>2 DEF Job
  <2> QED BY <1>1, <1>2, <1>4, <2>1 DEF After, Continue
<1>5. NoJob.pc = None /\ Left(t).pc = None
  BY DEF NoJob, Left
<1>6. \A o \in Owners : Claim(t, o) => After(t, "start")
  <2>1. \A o \in Owners : [NoJob EXCEPT !.pc = "start", !.owner = o].pc = "start"
    BY DEF NoJob
  <2> QED BY <1>3, <2>1 DEF Claim
<1>7. KillConversion(t) \/ CloseTask(t) => After(t, None)
  BY <1>3, <1>5 DEF KillConversion, CloseTask
<1>8. StartConversion(t) =>
        \/ /\ After(t, "close") /\ busy' = Ending(t)
           /\ \/ Settled(task[t].file) /\ UNCHANGED file
              \/ Exists(task[t].file) /\ file' = [file EXCEPT ![task[t].file] =
                   [@ EXCEPT !.status = "ready", !.attach = TRUE, !.markdown = FALSE]]
        \/ After(t, "convert") /\ busy' = busy
  <2>1. StartConversion(t) =>
          \/ /\ Continue(t, "close") /\ busy' = Ending(t)
             /\ \/ Settled(task[t].file) /\ UNCHANGED file
                \/ Exists(task[t].file) /\ file' = [file EXCEPT ![task[t].file] =
                     [@ EXCEPT !.status = "ready", !.attach = TRUE, !.markdown = FALSE]]
          \/ \E x : job' = [job EXCEPT ![t].pc = "convert", ![t].target = x] /\ UNCHANGED busy
    BY DEF StartConversion, Settled
  <2>2. ASSUME NEW x, job' = [job EXCEPT ![t].pc = "convert", ![t].target = x]
        PROVE  After(t, "convert")
    <3>1. [job[t] EXCEPT !.pc = "convert", !.target = x].pc = "convert"
      BY <1>1, <1>2 DEF Job
    <3> QED BY <1>1, <1>2, <2>2, <3>1 DEF After
  <2> QED BY <1>4, <2>1, <2>2
<1>9. EndChild(t) => \/ After(t, "write") /\ busy' = Ending(t)
                     \/ After(t, "describe") /\ busy' = Free
                     \/ After(t, "close") /\ busy' = Ending(t)
  BY <1>4 DEF EndChild
<1>10. DescribeFigures(t) => After(t, "write") /\ busy' = Ending(t)
  BY <1>4 DEF DescribeFigures
<1>11. WriteMarkdown(t) => \/ After(t, "publish") /\ "dir" \in disk[task[t].file]
                           \/ After(t, "raise") /\ "dir" \notin disk[task[t].file]
  BY <1>4 DEF WriteMarkdown
<1>12. PublishMarkdown(t) => After(t, "close")
  BY <1>4 DEF PublishMarkdown
<1> QED BY <1>2, <1>6, <1>7, <1>8, <1>9, <1>10, <1>11, <1>12

LEMMA LoopStaysHeld ==
  ASSUME IngestionInvariant, [Next]_vars
  PROVE  LoopIsHeld'
<1> DEFINE Goal == \A t \in 1..MaxTasks : job'[t].pc \in LastPlaces <=> busy' = Ending(t)
<1>1. /\ \A t \in 1..MaxTasks : job[t].pc \in LastPlaces <=> busy = Ending(t)
      /\ StateIsTyped
  BY DEF IngestionInvariant, LoopIsHeld
\* While the loop is free, only the coroutine that moves may take it.
<1>2. ASSUME NEW t \in 1..MaxTasks, NEW p, After(t, p), busy \in {Free, Ending(t)},
             \/ p \in LastPlaces /\ busy' = Ending(t)
             \/ p \notin LastPlaces /\ busy' = Free
      PROVE  Goal
  BY <1>1, <1>2, BusyDiffers DEF After
<1>3. "start" \notin LastPlaces /\ None \notin LastPlaces /\ "convert" \notin LastPlaces
      /\ "describe" \notin LastPlaces
      /\ {"write", "publish", "close", "raise"} \subseteq LastPlaces
  BY DEF LastPlaces
<1>4. ASSUME UNCHANGED <<job, busy>> PROVE Goal
  BY <1>1, <1>4
<1>5. ASSUME Claims PROVE Goal
  <2>1. PICK t \in Tasks, o \in Owners : Claim(t, o)
    BY <1>5 DEF Claims
  <2> QED BY <1>1, <1>2, <1>3, <2>1, CoroutinesMove DEF Claim, LoopFree
<1>6. ASSUME SomeTask(KillConversion) PROVE Goal
  <2>1. PICK t \in Tasks : KillConversion(t)
    BY <1>6 DEF SomeTask
  <2> QED BY <1>1, <1>2, <1>3, <2>1, CoroutinesMove DEF KillConversion, LoopFree
<1>7. ASSUME SomeTask(StartConversion) PROVE Goal
  <2>1. PICK t \in Tasks : StartConversion(t)
    BY <1>7 DEF SomeTask
  <2> QED BY <1>1, <1>2, <1>3, <2>1, CoroutinesMove DEF StartConversion, LoopFree
<1>8. ASSUME SomeTask(EndChild) PROVE Goal
  <2>1. PICK t \in Tasks : EndChild(t)
    BY <1>8 DEF SomeTask
  <2> QED BY <1>1, <1>2, <1>3, <2>1, CoroutinesMove DEF EndChild, LoopFree
<1>9. ASSUME SomeTask(DescribeFigures) PROVE Goal
  <2>1. PICK t \in Tasks : DescribeFigures(t)
    BY <1>9 DEF SomeTask
  <2> QED BY <1>1, <1>2, <1>3, <2>1, CoroutinesMove DEF DescribeFigures, LoopFree
<1>10. ASSUME SomeTask(WriteMarkdown) \/ SomeTask(PublishMarkdown) PROVE Goal
  <2>1. PICK t \in Tasks : WriteMarkdown(t) \/ PublishMarkdown(t)
    BY <1>10 DEF SomeTask
  <2>2. t \in 1..MaxTasks /\ job[t].pc \in LastPlaces /\ UNCHANGED busy
    BY <1>1, <1>3, <2>1, CoroutinesMove DEF WriteMarkdown, PublishMarkdown
  <2>3. busy = Ending(t) /\ busy' = Ending(t)
    BY <1>1, <2>2
  <2> QED BY <1>1, <1>2, <1>3, <2>1, <2>2, <2>3, CoroutinesMove
<1>11. ASSUME SomeTask(CloseTask) PROVE Goal
  <2>1. PICK t \in Tasks : CloseTask(t)
    BY <1>11 DEF SomeTask
  <2>2. t \in 1..MaxTasks /\ job[t].pc \in LastPlaces /\ busy' = Free
    BY <1>1, <1>3, <2>1, CoroutinesMove DEF CloseTask
  <2> QED BY <1>1, <1>2, <1>3, <2>1, <2>2, CoroutinesMove
<1>12. ASSUME SomeFile(RemoveDirectory) \/ SomeFile(DeleteRow) PROVE Goal
  <2>1. PICK f \in Files : RemoveDirectory(f) \/ DeleteRow(f)
    BY <1>12 DEF SomeFile
  <2>2. UNCHANGED job /\ \A t \in 1..MaxTasks : busy # Ending(t) /\ busy' # Ending(t)
    BY <2>1, BusyDiffers DEF RemoveDirectory, DeleteRow, LoopFree
  <2> QED BY <1>1, <2>2
<1>13. ASSUME EndProcess PROVE Goal
  BY <1>3, <1>13, BusyDiffers DEF EndProcess, NoJob
<1> HIDE DEF Goal
<1>14. Goal
  BY <1>4, <1>5, <1>6, <1>7, <1>8, <1>9, <1>10, <1>11, <1>12, <1>13, WhoWrites
<1>15. ASSUME ~up'
       PROVE  /\ busy' = Free
              /\ \A t \in 1..MaxTasks : job'[t].pc = None
              /\ \A c \in Clients : upload'[c].pc = "idle"
  <2>1. CASE EndProcess
    BY <2>1 DEF EndProcess, NoJob, Idle
  <2>2. CASE ~up /\ UNCHANGED <<busy, job, upload>>
    BY <2>2 DEF IngestionInvariant, LoopIsHeld, Works, Handles
  <2>3. ~EndProcess => ~up
    BY <1>15, WhoWrites DEF StartProcess
  <2>4. CASE ~up
    <3>1. ~ (StoresUpload \/ SomeClient(InsertRow) \/ SomeClient(RepairOriginal)
             \/ SomeClient(RepairRow) \/ SomeClient(Enqueue))
      BY <2>4 DEF StoresUpload, StoreUpload, SomeClient, InsertRow, RepairOriginal, RepairRow,
                  Enqueue, LoopFree
    <3>2. ~ (Claims \/ SomeTask(KillConversion) \/ SomeTask(StartConversion)
             \/ SomeTask(EndChild) \/ SomeTask(DescribeFigures) \/ SomeTask(WriteMarkdown)
             \/ SomeTask(PublishMarkdown) \/ SomeTask(CloseTask))
      BY <2>4 DEF Claims, Claim, SomeTask, KillConversion, StartConversion, EndChild,
                  DescribeFigures, WriteMarkdown, PublishMarkdown, CloseTask, LoopFree
    <3>3. ~ (SomeFile(RemoveDirectory) \/ SomeFile(DeleteRow) \/ EndProcess)
      BY <2>4 DEF SomeFile, RemoveDirectory, DeleteRow, EndProcess, LoopFree
    <3> QED BY <2>2, <2>4, <3>1, <3>2, <3>3, WhoWrites
  <2> QED BY <2>1, <2>3, <2>4
<1> QED BY <1>14, <1>15 DEF LoopIsHeld, Goal, Works, Handles, Ending, Free

\* A coroutine changes by a step of its own, or all end with the process.
LEMMA OneMoves ==
  ASSUME IngestionInvariant, [Next]_vars, NEW t \in 1..MaxTasks
  PROVE  \/ job'[t] = job[t]
         \/ EndProcess /\ job'[t] = NoJob
         \/ /\ t \in Tasks
            /\ \/ \E o \in Owners : Claim(t, o)
               \/ KillConversion(t) \/ StartConversion(t) \/ EndChild(t)
               \/ DescribeFigures(t) \/ WriteMarkdown(t) \/ PublishMarkdown(t) \/ CloseTask(t)
<1> DEFINE Own(u) == \/ \E o \in Owners : Claim(u, o)
                     \/ KillConversion(u) \/ StartConversion(u) \/ EndChild(u)
                     \/ DescribeFigures(u) \/ WriteMarkdown(u) \/ PublishMarkdown(u) \/ CloseTask(u)
<1>1. UNCHANGED job \/ EndProcess \/ \E u \in Tasks : Own(u)
  BY WhoWrites DEF Claims, SomeTask
<1>2. CASE EndProcess
  BY <1>2 DEF EndProcess
<1>3. CASE \E u \in Tasks : Own(u)
  <2>1. PICK u \in Tasks : Own(u)
    BY <1>3
  <2>2. \E p : After(u, p)
    BY <2>1, CoroutinesMove DEF IngestionInvariant
  <2> HIDE DEF Own
  <2>3. t # u => job'[t] = job[t]
    BY <2>2 DEF After
  <2> QED BY <2>1, <2>3 DEF Own
<1> QED BY <1>1, <1>2, <1>3

\* What a step makes of a row that is there.
LEMMA RowsMove ==
  ASSUME IngestionInvariant, [Next]_vars, NEW t \in Tasks
  PROVE  /\ \/ task'[t] = task[t]
            \/ CancelTask(t) \/ CloseTask(t) \/ \E o \in Owners : Claim(t, o)
            \/ StartProcess /\ task[t].status = "converting" /\ task'[t].status = "queued"
         /\ CancelTask(t) => task'[t].status = "cancelled" /\ Open(t)
         /\ CloseTask(t) => task'[t].status = Verdict(t) /\ task'[t].status \in Ended
         /\ \A o : Claim(t, o) => task'[t].status = "converting" /\ task[t].status = "queued"
         /\ StartProcess => task'[t].status # "converting"
<1>1. StateIsTyped /\ task \in Seq(TaskRow) /\ Tasks = 1..Len(task)
  BY DEF IngestionInvariant, StateIsTyped, Tasks
<1>2. ASSUME NEW u \in Tasks, NEW s \in TaskStatuses, SetTask(u, s)
      PROVE  /\ task'[t] # task[t] => t = u
             /\ t = u => task'[t].status = s
  <2>1. /\ task'[u].status = s
        /\ \A v \in Tasks : task'[v] = IF v = u THEN [task[u] EXCEPT !.status = s] ELSE task[v]
    BY <1>1, <1>2, SetTaskKeeps
  <2> QED BY <2>1
<1>3. CancelTask(t) => task'[t].status = "cancelled" /\ Open(t)
  BY <1>2 DEF CancelTask, TaskStatuses
<1>4. \A u \in Tasks : Verdict(u) \in Ended /\ Verdict(u) \in TaskStatuses
  BY DEF Verdict, Ended, TaskStatuses
<1>5. CloseTask(t) => task'[t].status = Verdict(t) /\ task'[t].status \in Ended
  BY <1>2, <1>4 DEF CloseTask
<1>6. \A o : Claim(t, o) => task'[t].status = "converting" /\ task[t].status = "queued"
  BY <1>2 DEF Claim, Claimable, TaskStatuses
<1>7. StartProcess => \/ task'[t] = task[t] /\ task[t].status # "converting"
                      \/ task[t].status = "converting" /\ task'[t].status = "queued"
  <2>1. SUFFICES ASSUME StartProcess
                 PROVE  \/ task'[t] = task[t] /\ task[t].status # "converting"
                        \/ task[t].status = "converting" /\ task'[t].status = "queued"
    OBVIOUS
  <2>2. PICK order \in [1..Cardinality(Wanted) -> Wanted] :
           task' = Requeued \o Added(order) /\ Cardinality(Wanted) \in Nat
    BY <1>1, <2>1, StartAppends
  <2>3. task'[t] = IF task[t].status = "converting"
                   THEN [task[t] EXCEPT !.status = "queued", !.first = TRUE] ELSE task[t]
    BY <1>1, <2>2, StartedRows
  <2>4. task[t] \in TaskRow
    BY <1>1
  <2> QED BY <2>3, <2>4 DEF TaskRow
<1>8. CASE UNCHANGED task
  BY <1>3, <1>5, <1>6, <1>7, <1>8
<1>9. CASE SomeClient(Enqueue)
  <2>1. PICK c \in Clients : Enqueue(c)
    BY <1>9 DEF SomeClient
  <2>2. upload[c].file \in Files
    BY <2>1 DEF Enqueue, IngestionInvariant, HandlersKnow, Handles
  <2>3. Append(task, NewTask(upload[c].file))[t] = task[t]
    <3>1. NewTask(upload[c].file) \in TaskRow
      BY <2>2, RowsOfTasks
    <3> QED BY <1>1, <3>1, AppendTyped
  <2>4. task' = task \/ task' = Append(task, NewTask(upload[c].file))
    BY <2>1 DEF Enqueue
  <2>5. task'[t] = task[t]
    BY <2>3, <2>4
  <2> QED BY <1>3, <1>5, <1>6, <1>7, <2>5
<1>10. CASE SomeTask(CancelTask)
  BY <1>2, <1>3, <1>5, <1>6, <1>7, <1>10 DEF SomeTask, CancelTask, TaskStatuses
<1>11. CASE Claims
  BY <1>2, <1>3, <1>5, <1>6, <1>7, <1>11 DEF Claims, Claim, TaskStatuses
<1>12. CASE SomeTask(CloseTask)
  BY <1>2, <1>3, <1>4, <1>5, <1>6, <1>7, <1>12 DEF SomeTask, CloseTask
<1> QED BY <1>3, <1>5, <1>6, <1>7, <1>8, <1>9, <1>10, <1>11, <1>12, WhoWrites

\* The places that the steps of a coroutine start from.
LEMMA StepsOfWorkers ==
  ASSUME NEW t
  PROVE  /\ KillConversion(t) => job[t].pc \in {"convert", "describe"} /\ busy = Free
         /\ StartConversion(t) => job[t].pc = "start" /\ busy = Free
         /\ EndChild(t) => job[t].pc = "convert" /\ busy = Free
         /\ DescribeFigures(t) => job[t].pc = "describe" /\ busy = Free
         /\ WriteMarkdown(t) => job[t].pc = "write"
         /\ PublishMarkdown(t) => job[t].pc = "publish"
         /\ CloseTask(t) => job[t].pc \in {"close", "raise"}
         /\ job[t].pc \in {"start", "convert", "describe", "write", "publish", "close", "raise"}
              => job[t].pc # None
<1>1. KillConversion(t) => job[t].pc \in {"convert", "describe"} /\ busy = Free
  BY DEF KillConversion, LoopFree
<1>2. StartConversion(t) => job[t].pc = "start" /\ busy = Free
  BY DEF StartConversion, LoopFree
<1>3. EndChild(t) => job[t].pc = "convert" /\ busy = Free
  BY DEF EndChild, LoopFree
<1>4. DescribeFigures(t) => job[t].pc = "describe" /\ busy = Free
  BY DEF DescribeFigures, LoopFree
<1>5. /\ WriteMarkdown(t) => job[t].pc = "write"
      /\ PublishMarkdown(t) => job[t].pc = "publish"
      /\ CloseTask(t) => job[t].pc \in {"close", "raise"}
  BY DEF WriteMarkdown, PublishMarkdown, CloseTask
<1> QED BY <1>1, <1>2, <1>3, <1>4, <1>5

LEMMA RowsStayHeld ==
  ASSUME IngestionInvariant, [Next]_vars
  PROVE  RowsAreHeld'
<1>1. /\ StateIsTyped /\ RowsAreHeld /\ LoopIsHeld /\ Tasks = 1..Len(task) /\ Len(task) \in Nat
      /\ Len(task) <= MaxTasks /\ MaxTasks \in Nat /\ MaxConcurrent \in Nat
  BY IngestionAssumption DEF IngestionInvariant, StateIsTyped, Tasks
<1>2. IsFiniteSet(Converting) /\ Cardinality(Converting) \in Nat
  <2>1. IsFiniteSet(1..Len(task)) /\ Converting \in SUBSET (1..Len(task))
    BY <1>1, FS_Interval DEF Converting
  <2>2. IsFiniteSet(Converting)
    BY <2>1, FS_Subset
  <2> QED BY <2>2, FS_CardinalityType
<1>3. Converting' = {t \in Tasks' : task'[t].status = "converting"}
  BY DEF Converting
<1>4. \A t \in Converting' : \/ t \in Converting /\ ~CancelTask(t) /\ ~CloseTask(t) /\ ~StartProcess
                             \/ t \in Tasks /\ \E o \in Owners : Claim(t, o)
  <2>1. SUFFICES ASSUME NEW t \in Converting'
                 PROVE  \/ t \in Converting /\ ~CancelTask(t) /\ ~CloseTask(t) /\ ~StartProcess
                        \/ t \in Tasks /\ \E o \in Owners : Claim(t, o)
    OBVIOUS
  <2>2. t \in Tasks' /\ task'[t].status = "converting"
    BY <1>3
  <2>3. t \in Tasks
    BY <2>2, TasksGrow
  <2>4. ~CancelTask(t) /\ ~CloseTask(t) /\ ~StartProcess
    BY <2>2, <2>3, RowsMove DEF Ended
  <2> QED BY <2>2, <2>3, <2>4, RowsMove DEF Converting
<1>5. Cardinality(Converting') <= MaxConcurrent
  <2>1. CASE \E t \in Tasks, o \in Owners : Claim(t, o)
    <3>1. PICK t \in Tasks, o \in Owners : Claim(t, o)
      BY <2>1
    <3>2. SetTask(t, "converting") /\ Cardinality(Converting) < MaxConcurrent
          /\ task[t].status = "queued"
      BY <3>1 DEF Claim, Claimable
    <3>3. Len(task') = Len(task)
          /\ \A u \in Tasks : u # t => task'[u] = task[u]
      BY <1>1, <3>2, SetTaskKeeps DEF TaskStatuses
    <3>4. Converting' \in SUBSET (Converting \cup {t})
      BY <1>3, <3>3 DEF Converting, Tasks
    <3>5. t \notin Converting
      BY <3>2 DEF Converting
    <3>6. IsFiniteSet(Converting \cup {t})
          /\ Cardinality(Converting \cup {t}) = Cardinality(Converting) + 1
      BY <1>2, <3>5, FS_AddElement
    <3>7. IsFiniteSet(Converting')
          /\ Cardinality(Converting') <= Cardinality(Converting \cup {t})
      BY <3>4, <3>6, FS_Subset
    <3>8. Cardinality(Converting') \in Nat
      BY <3>7, FS_CardinalityType
    <3> QED BY <1>1, <1>2, <3>2, <3>6, <3>7, <3>8
  <2>2. CASE ~ \E t \in Tasks, o \in Owners : Claim(t, o)
    <3>1. Converting' \in SUBSET Converting
      BY <1>4, <2>2
    <3>2. IsFiniteSet(Converting') /\ Cardinality(Converting') <= Cardinality(Converting)
      BY <1>2, <3>1, FS_Subset
    <3>3. Cardinality(Converting') \in Nat
      BY <3>2, FS_CardinalityType
    <3> QED BY <1>1, <1>2, <3>2, <3>3 DEF RowsAreHeld
  <2> QED BY <2>1, <2>2
<1>6. ASSUME NEW t \in 1..MaxTasks, job'[t].pc # None
      PROVE  t \in Tasks' /\ task'[t].status \in {"converting", "cancelled"}
  <2>1. CASE t \in Tasks /\ \E o \in Owners : Claim(t, o)
    BY <2>1, TasksGrow, RowsMove
  <2>2. CASE ~ (t \in Tasks /\ \E o \in Owners : Claim(t, o))
    <3>1. job[t].pc # None
      <4>1. NoJob.pc = None
        BY DEF NoJob
      <4> QED BY <1>6, <2>2, <4>1, OneMoves, StepsOfWorkers
    <3>2. t \in Tasks /\ task[t].status \in {"converting", "cancelled"} /\ t \in Tasks'
      BY <1>1, <3>1, TasksGrow DEF RowsAreHeld, Works
    <3>3. ~CloseTask(t) /\ ~StartProcess
      BY <1>1, <1>6, <3>1, <3>2, CoroutinesMove DEF After, StartProcess, LoopIsHeld, Works
    <3> QED BY <2>2, <3>2, <3>3, RowsMove
  <2> QED BY <2>1, <2>2
<1>7. ASSUME up', NEW t \in Converting'
      PROVE  job'[t].pc # None
  <2>1. CASE t \in Tasks /\ \E o \in Owners : Claim(t, o)
    BY <1>1, <2>1, CoroutinesMove DEF After
  <2>2. CASE ~ (t \in Tasks /\ \E o \in Owners : Claim(t, o))
    <3>0. t \in Converting /\ ~CancelTask(t) /\ ~CloseTask(t) /\ ~StartProcess
      BY <1>4, <2>2
    <3>1. up
      BY <1>7, <3>0, WhoWrites DEF EndProcess
    <3>2. t \in Tasks /\ t \in 1..MaxTasks /\ job[t].pc # None /\ task[t].status = "converting"
      BY <1>1, <3>0, <3>1 DEF RowsAreHeld, Works, Converting
    <3>3. ~KillConversion(t) /\ ~EndProcess
      BY <1>7, <3>2 DEF KillConversion, EndProcess
    <3>4. CASE job'[t] = job[t]
      BY <3>2, <3>4
    <3>5. CASE \/ StartConversion(t) \/ EndChild(t) \/ DescribeFigures(t) \/ WriteMarkdown(t)
               \/ PublishMarkdown(t)
      BY <1>1, <3>2, <3>5, CoroutinesMove DEF After
    <3> QED BY <2>2, <3>0, <3>2, <3>3, <3>4, <3>5, OneMoves
  <2> QED BY <2>1, <2>2
<1> QED BY <1>5, <1>6, <1>7 DEF RowsAreHeld, Works

LEMMA OneStaysOpen ==
  ASSUME IngestionInvariant, [Next]_vars
  PROVE  OneIsOpen'
<1>1. ASSUME NEW f, NEW t \in Tasks', task'[t].status \notin Ended, task'[t].file = f
      PROVE  t = LatestTask(f)'
  <2>1. t \in TasksOf(f)'
    BY <1>1 DEF TasksOf
  <2>2. LatestTask(f)' \in TasksOf(f)' /\ t <= LatestTask(f)'
    BY <2>1, LatestIsLast
  <2> DEFINE u == LatestTask(f)'
  <2>3. u \in Tasks' /\ task'[u].file = f
    BY <2>2 DEF TasksOf
  <2>4. Tasks = 1..Len(task) /\ Tasks' = 1..Len(task') /\ Len(task) \in Nat /\ Len(task') \in Nat
    BY TasksGrow DEF Tasks, IngestionInvariant, StateIsTyped
  <2> HIDE DEF u
  <2>5. CASE t \in Tasks
    <3>1. Open(t) /\ task[t].file = f
      BY <1>1, <2>5, TasksGrow
    <3>2. t = LatestTask(f)
      BY <2>5, <3>1 DEF IngestionInvariant, OneIsOpen
    <3>3. u \in Tasks => u \in TasksOf(f)
      BY <2>3, TasksGrow DEF TasksOf
    <3>4. u \in Tasks => u <= t
      BY <3>2, <3>3, LatestIsLast
    <3>5. u \in Tasks
      <4>1. u \notin Tasks => TaskWanted(f)
        BY <2>3, TasksGrow
      <4>2. ~TaskWanted(f)
        BY <2>4, <2>5, <3>1, <3>2 DEF TaskWanted
      <4> QED BY <4>1, <4>2
    <3> QED BY <2>2, <2>4, <2>5, <3>4, <3>5 DEF u
  <2>6. CASE t \notin Tasks
    <3>1. u \notin Tasks
      BY <1>1, <2>2, <2>3, <2>4, <2>6 DEF u
    <3> QED BY <1>1, <2>3, <2>6, <3>1, TasksGrow DEF u
  <2> QED BY <2>5, <2>6
<1> QED BY <1>1 DEF OneIsOpen, Open

----------------------------------------------------------------------------
(* Directories.                                                            *)

\* A row of a file with a conversion never appears: ids are used once.
LEMMA NobodyRevives ==
  ASSUME IngestionInvariant, [Next]_vars, NEW t \in Tasks
  PROVE  /\ task[t].file \in Files /\ task'[t].file = task[t].file
         /\ file'[task[t].file] # Absent => Exists(task[t].file)
<1>1. task[t].file \in Files /\ task[t].file \in Born
  <2>1. task[t] \in TaskRow
    BY DEF IngestionInvariant, StateIsTyped, Tasks
  <2> QED BY <2>1 DEF IngestionInvariant, IdsAreUsedOnce, TaskRow
<1>2. \A c \in Clients : InsertRow(c) => upload[c].file \notin Born
  BY DEF InsertRow, IngestionInvariant, HandlersKnow, Handles
<1>3. \A f \in Files : file'[f] # Absent /\ f \in Born => Exists(f)
  BY <1>2, FilesAreTyped DEF Exists
<1> QED BY <1>1, <1>3, TasksGrow

\* A conversion succeeds only with its original.
LEMMA SuccessNeedsOriginal ==
  ASSUME NEW f, NEW out \in ChildOutput(f), Converted(out)
  PROVE  "original" \in disk[f]
<1>1. PICK i \in 1..Len(out) : out[i] = "result"
  BY DEF Converted
<1>2. CASE out \in {<<"error">>, <<"progress">>}
  <2>1. Len(out) = 1 /\ out[1] # "result"
    BY <1>2
  <2> QED BY <1>1, <2>1
<1>3. CASE out = <<"progress", "error">>
  <2>1. Len(out) = 2 /\ out[1] # "result" /\ out[2] # "result"
    BY <1>3
  <2> QED BY <1>1, <2>1
<1>4. CASE out = <<>>
  <2>1. Len(out) = 0
    BY <1>4
  <2> QED BY <1>1, <2>1
<1> QED BY <1>2, <1>3, <1>4 DEF ChildOutput, CanConvert

LEMMA DirectoriesStillStay ==
  ASSUME IngestionInvariant, [Next]_vars
  PROVE  DirectoriesStay'
<1>1. /\ StateIsTyped /\ DirectoriesStay /\ LoopIsHeld /\ RowsAreHeld
      /\ disk \in [Files -> SUBSET {"dir", "original", "markdown"}]
      /\ \A t \in Tasks : t \in 1..MaxTasks
  BY CoroutinesMove DEF IngestionInvariant, StateIsTyped
\* How a directory can go.
<1>2. ASSUME NEW f \in Files
      PROVE  /\ disk'[f] # {} => "dir" \in disk'[f]
             /\ "dir" \in disk[f] => \/ "dir" \in disk'[f] \/ StartProcess
                                     \/ RemoveDirectory(f) /\ busy' = Deleting(f)
  <2>1. disk[f] # {} => "dir" \in disk[f]
    BY <1>1 DEF DirectoriesStay
  <2>2. CASE UNCHANGED disk
    BY <2>1, <2>2
  <2>3. CASE StoresUpload
    <3>1. PICK c \in Clients, w \in Uploads : StoreUpload(c, w)
      BY <2>3 DEF StoresUpload
    <3>2. disk' = disk \/ \E g \in Files : disk' = [disk EXCEPT ![g] = {"dir", "original"}]
      BY <3>1 DEF StoreUpload
    <3> QED BY <1>1, <2>1, <3>2
  <2>4. CASE SomeClient(RepairOriginal)
    <3>1. PICK g : disk' = [disk EXCEPT ![g] = @ \cup {"dir", "original"}]
      BY <2>4 DEF SomeClient, RepairOriginal
    <3> QED BY <1>1, <2>1, <3>1
  <2>5. CASE SomeTask(WriteMarkdown)
    <3>1. PICK g : disk' = disk \/ /\ "dir" \in disk[g]
                                   /\ disk' = [disk EXCEPT ![g] = @ \cup {"markdown"}]
      BY <2>5 DEF SomeTask, WriteMarkdown
    <3> QED BY <1>1, <2>1, <3>1
  <2>6. CASE SomeFile(RemoveDirectory)
    <3>1. PICK g \in Files : RemoveDirectory(g)
      BY <2>6 DEF SomeFile
    <3>2. disk' = [disk EXCEPT ![g] = {}] /\ busy' = Deleting(g)
      BY <3>1 DEF RemoveDirectory
    <3>3. disk'[f] = IF f = g THEN {} ELSE disk[f]
      BY <1>1, <3>2
    <3> QED BY <2>1, <3>1, <3>2, <3>3
  <2>7. CASE SomeFile(LoseFile)
    <3>1. PICK g \in Files : \E part \in disk[g] \ {"dir"} : disk' = [disk EXCEPT ![g] = @ \ {part}]
      BY <2>7 DEF SomeFile, LoseFile
    <3>2. PICK part \in disk[g] \ {"dir"} : disk' = [disk EXCEPT ![g] = @ \ {part}]
      BY <3>1
    <3>3. disk'[f] = IF f = g THEN disk[f] \ {part} ELSE disk[f]
      BY <1>1, <3>2
    <3> QED BY <2>1, <3>2, <3>3
  <2>8. CASE StartProcess
    <3>1. PICK old \in Pruned : disk' = [x \in Files |-> IF x \in old THEN {} ELSE disk[x]]
      BY <2>8 DEF StartProcess
    <3> QED BY <2>1, <2>8, <3>1
  <2> QED BY <2>2, <2>3, <2>4, <2>5, <2>6, <2>7, <2>8, WhoWrites
<1>3. ASSUME NEW t \in 1..MaxTasks, job'[t].pc # None
      PROVE  ~EndProcess /\ ~StartProcess
  <2>1. ~EndProcess
    <3>1. EndProcess => job'[t] = NoJob
      BY DEF EndProcess
    <3> QED BY <1>3, <3>1 DEF NoJob
  <2>2. StartProcess => ~up /\ job' = job
    BY DEF StartProcess
  <2> QED BY <1>1, <1>3, <2>1, <2>2 DEF LoopIsHeld, Works
<1>4. ASSUME NEW f \in Files, busy = Deleting(f), file'[f] # Absent, ~EndProcess
      PROVE  busy' = Deleting(f)
  <2>1. ~SomeTask(StartConversion) /\ ~SomeTask(EndChild) /\ ~SomeTask(DescribeFigures)
        /\ ~SomeFile(RemoveDirectory)
    BY <1>4, BusyDiffers DEF SomeTask, SomeFile, StartConversion, EndChild, DescribeFigures,
                             RemoveDirectory, LoopFree
  <2>2. ~SomeTask(CloseTask)
    BY <1>1, <1>4, BusyDiffers, StepsOfWorkers DEF SomeTask, LoopIsHeld, LastPlaces
  <2>3. ~SomeFile(DeleteRow)
    <3>1. ASSUME NEW g \in Files, DeleteRow(g) PROVE FALSE
      <4>1. f = g
        BY <1>4, <3>1 DEF DeleteRow, Deleting
      <4> QED BY <1>1, <1>4, <3>1, <4>1 DEF DeleteRow, StateIsTyped
    <3> QED BY <3>1 DEF SomeFile
  <2> QED BY <1>4, <2>1, <2>2, <2>3, WhoWrites
<1>5. ASSUME NEW t \in Tasks, job[t].pc \in {"describe", "write"}, file'[task[t].file] # Absent,
             ~EndProcess, ~StartProcess
      PROVE  "dir" \in disk'[task[t].file] \/ busy' = Deleting(task[t].file)
  <2>1. task[t].file \in Files /\ Exists(task[t].file)
    BY <1>5, NobodyRevives
  <2>2. "dir" \in disk[task[t].file] \/ busy = Deleting(task[t].file)
    BY <1>1, <1>5, <2>1 DEF DirectoriesStay
  <2> QED BY <1>2, <1>4, <1>5, <2>1, <2>2
<1>6. ASSUME NEW t \in 1..MaxTasks, job'[t].pc \in {"describe", "write"},
             file'[task'[t].file] # Absent
      PROVE  "dir" \in disk'[task'[t].file] \/ busy' = Deleting(task'[t].file)
  <2>1. ~EndProcess /\ ~StartProcess /\ job'[t].pc # None
    BY <1>3, <1>6
  <2>2. CASE job'[t] = job[t]
    <3>1. t \in Tasks
      BY <1>1, <1>6, <2>2 DEF RowsAreHeld, Works
    <3> QED BY <1>5, <1>6, <2>1, <2>2, <3>1, NobodyRevives
  <2>3. CASE t \in Tasks /\ EndChild(t)
    <3>1. PICK out \in ChildOutput(task[t].file) : Converted(out) \/ Continue(t, "close")
      BY <2>3 DEF EndChild
    <3>2. Continue(t, "close") => job'[t].pc = "close"
      BY <1>1, <1>6 DEF Continue, StateIsTyped, Job
    <3>3. "original" \in disk[task[t].file]
      BY <1>6, <3>1, <3>2, SuccessNeedsOriginal
    <3>4. task[t].file \in Files /\ task'[t].file = task[t].file /\ disk' = disk
      BY <2>3, NobodyRevives DEF EndChild
    <3> QED BY <1>2, <3>3, <3>4
  <2>4. CASE t \in Tasks /\ DescribeFigures(t)
    <3>1. job[t].pc = "describe"
      BY <2>4, StepsOfWorkers
    <3> QED BY <1>5, <1>6, <2>1, <2>4, <3>1, NobodyRevives
  <2>5. CASE t \in Tasks /\ \/ \E o \in Owners : Claim(t, o)
                            \/ KillConversion(t) \/ StartConversion(t) \/ WriteMarkdown(t)
                            \/ PublishMarkdown(t) \/ CloseTask(t)
    BY <1>1, <1>6, <2>5, CoroutinesMove DEF After
  <2> QED BY <2>1, <2>2, <2>3, <2>4, <2>5, OneMoves
<1>7. ASSUME NEW t \in 1..MaxTasks, job'[t].pc = "raise"
      PROVE  file'[task'[t].file] = Absent
  <2>1. CASE job'[t] = job[t]
    <3>1. t \in Tasks /\ ~Exists(task[t].file)
      BY <1>1, <1>7, <2>1 DEF RowsAreHeld, Works, DirectoriesStay
    <3> QED BY <3>1, NobodyRevives
  <2>2. CASE t \in Tasks /\ WriteMarkdown(t)
    <3>1. job[t].pc = "write" /\ busy = Ending(t)
      BY <1>1, <2>2, StepsOfWorkers DEF LoopIsHeld, LastPlaces
    <3>2. "dir" \notin disk[task[t].file]
      BY <1>1, <1>7, <2>2, CoroutinesMove DEF After
    <3>3. ~Exists(task[t].file)
      BY <1>1, <3>1, <3>2, BusyDiffers DEF DirectoriesStay
    <3> QED BY <2>2, <3>3, NobodyRevives
  <2>3. CASE t \in Tasks /\ \/ \E o \in Owners : Claim(t, o)
                            \/ KillConversion(t) \/ StartConversion(t) \/ EndChild(t)
                            \/ DescribeFigures(t) \/ PublishMarkdown(t) \/ CloseTask(t)
    BY <1>1, <1>7, <2>3, CoroutinesMove DEF After
  <2>4. CASE EndProcess /\ job'[t] = NoJob
    BY <1>7, <2>4 DEF NoJob
  <2> QED BY <2>1, <2>2, <2>3, <2>4, OneMoves
<1> QED BY <1>2, <1>6, <1>7 DEF DirectoriesStay, Exists

----------------------------------------------------------------------------
(* Whoever needs a conversion has one, or somebody about to queue it.      *)

\* The latest conversion of a file is the one before the step, or one that was queued
\* because the file wanted it.
LEMMA LatestMoves ==
  ASSUME IngestionInvariant, [Next]_vars, NEW f
  PROVE  \/ LatestTask(f)' = LatestTask(f) /\ (LatestTask(f) # 0 => LatestTask(f) \in Tasks)
         \/ /\ LatestTask(f)' \in Tasks' \ Tasks /\ LatestTask(f)' # 0
            /\ task'[LatestTask(f)'].status = "queued"
<1> DEFINE before == LatestTask(f)
           after == LatestTask(f)'
<1>1. /\ before = 0 <=> TasksOf(f) = {}
      /\ before # 0 => before \in TasksOf(f)
      /\ \A t \in TasksOf(f) : t <= before
      /\ after = 0 <=> TasksOf(f)' = {}
      /\ after # 0 => after \in TasksOf(f)'
      /\ \A t \in TasksOf(f)' : t <= after
      /\ TasksOf(f) = {t \in TasksOf(f)' : t \in Tasks}
  BY LatestIsLast
<1>2. /\ Tasks \subseteq Nat /\ Tasks' \subseteq Nat /\ TasksOf(f)' \subseteq Tasks'
      /\ TasksOf(f) \subseteq Tasks /\ 0 \notin Tasks'
  BY TasksGrow DEF Tasks, TasksOf, IngestionInvariant, StateIsTyped
<1> HIDE DEF before, after
<1>3. CASE after \in Tasks' \ Tasks
  BY <1>2, <1>3, TasksGrow DEF after
<1>4. CASE after \notin Tasks' \ Tasks
  <2>1. after # 0 => after \in TasksOf(f)
    BY <1>1, <1>2, <1>4
  <2>2. after = before
    <3>1. CASE after = 0
      BY <1>1, <3>1
    <3>2. CASE after # 0
      <4>1. after \in TasksOf(f) /\ before # 0 /\ before \in TasksOf(f)
        BY <1>1, <2>1, <3>2
      <4>2. after <= before /\ before <= after
        BY <1>1, <4>1
      <4>3. after \in Nat /\ before \in Nat
        BY <1>2, <4>1
      <4> QED BY <4>2, <4>3
    <3> QED BY <3>1, <3>2
  <2>3. before # 0 => before \in Tasks
    BY <1>1, <1>2
  <2> QED BY <2>2, <2>3 DEF before, after
<1> QED BY <1>3, <1>4

\* A row that is queued is the latest afterwards.
LEMMA NewRowIsLatest ==
  ASSUME IngestionInvariant, [Next]_vars, NEW f, NEW t \in Tasks' \ Tasks, task'[t].file = f
  PROVE  /\ LatestTask(f)' \in Tasks' \ Tasks /\ LatestTask(f)' # 0
         /\ task'[LatestTask(f)'].status = "queued"
<1>1. t \in TasksOf(f)'
  BY DEF TasksOf
<1>2. LatestTask(f)' \in TasksOf(f)' /\ t <= LatestTask(f)'
  BY <1>1, LatestIsLast
<1>3. Tasks = 1..Len(task) /\ Tasks' = 1..Len(task') /\ Len(task) \in Nat /\ Len(task') \in Nat
  BY TasksGrow DEF Tasks, IngestionInvariant, StateIsTyped
<1>4. LatestTask(f)' \in Tasks'
  BY <1>2 DEF TasksOf
<1>5. LatestTask(f)' \notin Tasks /\ LatestTask(f)' # 0
  BY <1>2, <1>3, <1>4
<1> QED BY <1>4, <1>5, TasksGrow

LEMMA SizeOfInterval ==
  ASSUME NEW n \in Nat
  PROVE  IsFiniteSet(1..n) /\ Cardinality(1..n) = n
<1>1. IsFiniteSet(1..n) /\ Cardinality(1..n) = IF 1 > n THEN 0 ELSE n - 1 + 1
  BY FS_Interval
<1> QED BY <1>1

\* An order of a finite set of indices leaves none of them out.
LEMMA IncreasingIsInjective ==
  ASSUME NEW S \in SUBSET Nat, NEW n \in Nat, NEW order \in [1..n -> S],
         \A i, j \in 1..n : i < j => order[i] < order[j]
  PROVE  order \in Injection(1..n, S)
<1>1. ASSUME NEW i \in 1..n, NEW j \in 1..n, order[i] = order[j] PROVE i = j
  <2>1. order[i] \in S /\ i \in Nat /\ j \in Nat
    OBVIOUS
  <2>2. order[i] \in Nat
    BY <2>1
  <2>3. ~ (i < j) /\ ~ (j < i)
    BY <1>1, <2>2
  <2> QED BY <2>1, <2>3
<1> QED BY <1>1 DEF Injection, IsInjective

LEMMA IncreasingIsOnto ==
  ASSUME NEW S \in SUBSET Nat, IsFiniteSet(S), NEW n \in Nat, n = Cardinality(S),
         NEW order \in [1..n -> S], \A i, j \in 1..n : i < j => order[i] < order[j]
  PROVE  \A k \in S : \E i \in 1..n : order[i] = k
<1>1. IsFiniteSet(1..n) /\ Cardinality(1..n) = n
  BY SizeOfInterval
<1>2. order \in Injection(1..n, S)
  BY IncreasingIsInjective
<1>3. order \in Surjection(1..n, S)
  BY <1>1, <1>2, FS_Injection
<1> QED BY <1>3 DEF Surjection

\* A start leaves no pending file without a row that waits.
LEMMA StartServesAll ==
  ASSUME IngestionInvariant, [Next]_vars, StartProcess, NEW f \in Files, Pending(f),
         TaskWanted(f)
  PROVE  \E t \in Tasks' \ Tasks : task'[t].file = f
<1>1. StateIsTyped /\ f \in Born
  BY DEF IngestionInvariant, IdsAreUsedOnce, Pending
<1>2. PICK order \in [1..Cardinality(Wanted) -> Wanted] :
         /\ \A i, j \in DOMAIN order : i < j => order[i] < order[j]
         /\ task' = Requeued \o Added(order)
         /\ Cardinality(Wanted) \in Nat /\ IsFiniteSet(Wanted)
  BY <1>1, StartAppends
<1>3. PICK k \in Wanted : births[k] = f
  BY <1>1 DEF Wanted, Born
<1>4. Wanted \in SUBSET Nat
  BY <1>1 DEF Wanted, StateIsTyped
<1>5. PICK i \in 1..Cardinality(Wanted) : order[i] = k
  BY <1>2, <1>3, <1>4, IncreasingIsOnto
<1>6. /\ Len(task') = Len(task) + Cardinality(Wanted)
      /\ task'[Len(task) + i] = NewTask(births[order[i]])
  BY <1>1, <1>2, StartedRows
<1>7. Len(task) \in Nat /\ Len(task) + i \in Tasks' \ Tasks
  BY <1>1, <1>2, <1>6 DEF Tasks, StateIsTyped
<1>8. NewTask(births[order[i]]).file = f
  BY <1>3, <1>5 DEF NewTask
<1> QED BY <1>6, <1>7, <1>8

\* What may begin to need a conversion: a file that a handler just stored, or one whose
\* conversion is claimed again.
LEMMA NeedArises ==
  ASSUME IngestionInvariant, [Next]_vars, NEW f \in Files, NeedsWork(f)'
  PROVE  \/ NeedsWork(f) \/ Handled(f)'
         \/ \E t \in Tasks, o \in Owners : Claim(t, o) /\ task[t].file = f
<1>1. /\ StateIsTyped /\ RowsAreHeld /\ \A t \in Tasks : t \in 1..MaxTasks
      /\ file \in [Files -> FileRow \cup {Absent}] /\ Tasks' \subseteq 1..MaxTasks
      /\ Tasks \subseteq 1..MaxTasks
  <2>1. Tasks' \subseteq 1..MaxTasks /\ Tasks \subseteq 1..MaxTasks
    BY TasksGrow, IngestionAssumption DEF Tasks, IngestionInvariant, StateIsTyped
  <2> QED BY <2>1 DEF IngestionInvariant, StateIsTyped
<1>2. /\ file'[f] # Absent /\ file'[f].status # "ready"
      /\ file'[f].status = "failed" => \E t \in TasksOf(f)' : job'[t].pc = "start"
  BY DEF NeedsWork, Exists
<1>3. ASSUME NEW t \in TasksOf(f)', job'[t].pc = "start"
      PROVE  \/ t \in TasksOf(f) /\ job[t].pc = "start"
             \/ \E o \in Owners : Claim(t, o) /\ t \in Tasks /\ task[t].file = f
  <2>1. t \in Tasks' /\ t \in 1..MaxTasks /\ task'[t].file = f
    BY <1>1, <1>3 DEF TasksOf
  <2>2. CASE job'[t] = job[t]
    <3>1. t \in Tasks
      BY <1>1, <1>3, <2>1, <2>2 DEF RowsAreHeld, Works
    <3> QED BY <1>3, <2>1, <2>2, <3>1, TasksGrow DEF TasksOf
  <2>3. CASE EndProcess /\ job'[t] = NoJob
    BY <1>3, <2>3 DEF NoJob
  <2>4. CASE t \in Tasks /\ \E o \in Owners : Claim(t, o)
    BY <2>1, <2>4, TasksGrow
  <2>5. CASE t \in Tasks /\ \/ KillConversion(t) \/ StartConversion(t) \/ EndChild(t)
                            \/ DescribeFigures(t) \/ WriteMarkdown(t) \/ PublishMarkdown(t)
                            \/ CloseTask(t)
    BY <1>1, <1>3, <2>5, CoroutinesMove DEF After
  <2> QED BY <2>1, <2>2, <2>3, <2>4, <2>5, OneMoves
<1>4. CASE file'[f] = file[f]
  BY <1>2, <1>3, <1>4 DEF NeedsWork, Exists
<1>5. CASE SomeClient(InsertRow) /\ file'[f] # file[f]
  <2>1. PICK c \in Clients : InsertRow(c)
    BY <1>5 DEF SomeClient
  <2>2. upload[c].file = f
    BY <1>1, <1>5, <2>1 DEF InsertRow
  <2>3. upload'[c] = [upload[c] EXCEPT !.pc = "enqueue"]
    BY <2>1 DEF InsertRow, IngestionInvariant, StateIsTyped
  <2>4. upload'[c].pc = "enqueue" /\ upload'[c].file = f
    BY <1>1, <2>2, <2>3 DEF StateIsTyped, HandlerRow
  <2> QED BY <2>4 DEF Handled
<1>6. CASE SomeClient(RepairRow) /\ file'[f] # file[f]
  <2>1. PICK c \in Clients : RepairRow(c)
    BY <1>6 DEF SomeClient
  <2>2. upload[c].file = f /\ Exists(f)
    BY <1>1, <1>6, <2>1 DEF RepairRow
  <2>3. upload'[c] = [upload[c] EXCEPT !.pc = "enqueue"]
    BY <2>1, <2>2 DEF RepairRow, IngestionInvariant, StateIsTyped
  <2>4. upload'[c].pc = "enqueue" /\ upload'[c].file = f
    BY <1>1, <2>2, <2>3 DEF StateIsTyped, HandlerRow
  <2> QED BY <2>4 DEF Handled
<1>7. CASE SomeTask(StartConversion) /\ file'[f] # file[f]
  <2>1. PICK t \in Tasks : StartConversion(t)
    BY <1>7 DEF SomeTask
  <2>2. task[t].file = f /\ ~Settled(f)
    BY <1>1, <1>7, <2>1 DEF StartConversion
  <2> QED BY <2>1, <2>2, StepsOfWorkers DEF NeedsWork, Settled, TasksOf
<1>8. CASE SomeTask(EndChild) /\ file'[f] # file[f]
  <2>1. PICK t \in Tasks : EndChild(t)
    BY <1>8 DEF SomeTask
  <2>2. file' = [file EXCEPT ![f] = [file[f] EXCEPT !.status = "failed"]] /\ Exists(f)
    BY <1>1, <1>8, <2>1 DEF EndChild, UpdateFile
  <2>3. file'[f].status = "failed"
    BY <1>1, <2>2 DEF Exists, FileRow
  <2>4. PICK u \in TasksOf(f)' : job'[u].pc = "start"
    BY <1>2, <2>3
  <2>5. u \in TasksOf(f) => job[u].pc # "start"
    BY <2>1 DEF EndChild, TasksOf
  <2> QED BY <1>3, <2>4, <2>5
<1>9. CASE SomeTask(PublishMarkdown) /\ file'[f] # file[f]
  <2>1. PICK t \in Tasks : PublishMarkdown(t)
    BY <1>9 DEF SomeTask
  <2>2. file' = [file EXCEPT ![f] = [file[f] EXCEPT !.status = "ready", !.markdown = TRUE]]
        /\ Exists(f)
    BY <1>1, <1>9, <2>1 DEF PublishMarkdown, UpdateFile
  <2>3. file'[f].status = "ready"
    BY <1>1, <2>2 DEF Exists, FileRow
  <2> QED BY <1>2, <2>3
<1>10. CASE (SomeFile(DeleteRow) \/ StartProcess) /\ file'[f] # file[f]
  BY <1>1, <1>2, <1>10 DEF SomeFile, DeleteRow, StartProcess
<1> QED BY <1>4, <1>5, <1>6, <1>7, <1>8, <1>9, <1>10, WhoWrites

\* A handler about to queue a conversion keeps the intention until it does it.
LEMMA HandledStays ==
  ASSUME IngestionInvariant, [Next]_vars, NEW f, Handled(f)
  PROVE  Handled(f)' \/ EndProcess \/ \E c \in Clients : Enqueue(c) /\ upload[c].file = f
<1>1. PICK c \in Clients : upload[c].pc = "enqueue" /\ upload[c].file = f
  BY DEF Handled
<1>2. CASE upload'[c] = upload[c]
  BY <1>1, <1>2 DEF Handled
<1>3. ~RepairRow(c) /\ ~RepairOriginal(c) /\ ~InsertRow(c)
  BY <1>1 DEF RepairRow, RepairOriginal, InsertRow
<1>4. \A w \in Uploads : ~StoreUpload(c, w)
  BY <1>1 DEF StoreUpload
<1> QED BY <1>1, <1>2, <1>3, <1>4, HandlersMove

LEMMA WorkStaysWanted ==
  ASSUME IngestionInvariant, [Next]_vars
  PROVE  WorkIsWanted'
<1>1. /\ StateIsTyped /\ RowsAreHeld /\ LoopIsHeld /\ OneIsOpen /\ WorkIsWanted
      /\ \A t \in Tasks : t \in 1..MaxTasks
  BY CoroutinesMove DEF IngestionInvariant
<1>2. \A t \in Tasks : task[t].status \in TaskStatuses
  <2>1. \A t \in Tasks : task[t] \in TaskRow
    BY <1>1 DEF StateIsTyped, Tasks
  <2> QED BY <2>1 DEF TaskRow
<1>3. ASSUME NEW f \in Files, up', NeedsWork(f)', LatestTask(f)' = LatestTask(f),
             LatestTask(f) # 0 => LatestTask(f) \in Tasks
      PROVE  CaredFor(f)'
  <2> DEFINE l == LatestTask(f)
  <2>1. ASSUME l # 0, task'[l].status \in {"queued", "converting", "cancelled"}
        PROVE  CaredFor(f)'
    BY <1>3, <2>1 DEF CaredFor
  <2>2. ASSUME Handled(f)' PROVE CaredFor(f)'
    BY <2>2 DEF CaredFor
  <2>3. l # 0 => l \in Tasks
    BY <1>3
  <2> HIDE DEF l
  <2>4. CASE StartProcess
    <3>1. \A t \in 1..MaxTasks : job'[t].pc = None
      BY <1>1, <2>4 DEF StartProcess, LoopIsHeld, Works
    <3>2. Tasks' \subseteq 1..MaxTasks
      BY TasksGrow, IngestionAssumption DEF Tasks
    <3>3. file'[f] # Absent /\ file'[f].status \notin {"ready", "failed"}
      BY <1>3, <3>1, <3>2 DEF NeedsWork, Exists, TasksOf
    <3>4. file'[f] = file[f]
      BY <2>4, <3>3 DEF StartProcess
    <3>5. file[f].status \in FileStatuses
      BY <1>1, <3>3, <3>4 DEF StateIsTyped, FileRow
    <3>6. Pending(f)
      BY <3>3, <3>4, <3>5 DEF Pending, Exists, FileStatuses
    <3>7. ~TaskWanted(f)
      <4>1. SUFFICES ASSUME TaskWanted(f) PROVE FALSE
        OBVIOUS
      <4>2. LatestTask(f)' \in Tasks' \ Tasks /\ LatestTask(f)' # 0
        BY <2>4, <3>6, <4>1, StartServesAll, NewRowIsLatest
      <4> QED BY <1>3, <4>2
    <3>8. l # 0 /\ Open(l)
      BY <3>3, <3>4, <3>7 DEF TaskWanted, Exists, l
    <3>9. task'[l].status = "queued" \/ task'[l].status = task[l].status
      BY <2>3, <2>4, <3>8, RowsMove DEF CancelTask, CloseTask, Claim, StartProcess, LoopFree
    <3>10. task[l].status \in {"queued", "converting"}
      BY <1>2, <2>3, <3>8 DEF Open, Ended, TaskStatuses
    <3> QED BY <2>1, <3>8, <3>9, <3>10
  <2>5. CASE ~StartProcess
    <3>1. up /\ ~EndProcess
      BY <1>3, <2>5, WhoWrites DEF EndProcess
    <3>2. CASE Handled(f)'
      BY <2>2, <3>2
    <3>3. CASE \E t \in Tasks, o \in Owners : Claim(t, o) /\ task[t].file = f
      <4>1. PICK t \in Tasks, o \in Owners : Claim(t, o) /\ task[t].file = f
        BY <3>3
      <4>2. task[t].status = "queued" /\ task'[t].status = "converting"
        BY <4>1, RowsMove
      <4>3. t = l
        BY <1>1, <4>1, <4>2 DEF OneIsOpen, Open, Ended, l
      <4>4. l # 0
        BY <4>3 DEF Tasks, IngestionInvariant, StateIsTyped
      <4> QED BY <2>1, <4>2, <4>3, <4>4
    <3>4. CASE NeedsWork(f) /\ Handled(f) /\ ~Handled(f)'
      <4>1. PICK c \in Clients : Enqueue(c) /\ upload[c].file = f
        BY <3>1, <3>4, HandledStays
      <4>2. CASE TaskWanted(f)
        <5>1. task' = Append(task, NewTask(f)) /\ NewTask(f) \in TaskRow
          BY <4>1, <4>2, RowsOfTasks DEF Enqueue
        <5>2. Len(task') = Len(task) + 1 /\ task'[Len(task) + 1] = NewTask(f)
          BY <1>1, <5>1, AppendTyped DEF StateIsTyped
        <5>3. Len(task) + 1 \in Tasks' \ Tasks /\ task'[Len(task) + 1].file = f
          BY <1>1, <5>2 DEF Tasks, StateIsTyped, NewTask
        <5>4. LatestTask(f)' \in Tasks' \ Tasks /\ LatestTask(f)' # 0
          BY <5>3, NewRowIsLatest
        <5> QED BY <1>3, <5>4
      <4>3. CASE ~TaskWanted(f)
        <5>1. UNCHANGED task
          BY <4>1, <4>3 DEF Enqueue
        <5>2. l # 0 /\ Open(l)
          BY <3>4, <4>3 DEF TaskWanted, NeedsWork, l
        <5>3. task[l].status \in {"queued", "converting"}
          BY <1>2, <2>3, <5>2 DEF Open, Ended, TaskStatuses
        <5> QED BY <2>1, <5>1, <5>2, <5>3
      <4> QED BY <4>2, <4>3
    <3>5. CASE NeedsWork(f) /\ ~Handled(f)
      <4>1. l # 0 /\ l \in Tasks /\ task[l].status \in {"queued", "converting", "cancelled"}
        BY <1>1, <2>3, <3>1, <3>5 DEF WorkIsWanted, CaredFor, l
      <4>2. task[l].file = f
        BY <4>1, LatestIsLast DEF l, TasksOf
      <4>3. ~CloseTask(l)
        BY <1>1, <3>5, <4>1, <4>2, StepsOfWorkers DEF WorkIsWanted
      <4>4. task'[l].status \in {"queued", "converting", "cancelled"}
        BY <4>1, <4>3, RowsMove
      <4> QED BY <2>1, <4>1, <4>4
    <3> QED BY <1>3, <3>2, <3>3, <3>4, <3>5, NeedArises
  <2> QED BY <2>4, <2>5
<1>4. ASSUME NEW f \in Files, up', NeedsWork(f)'
      PROVE  CaredFor(f)'
  BY <1>3, <1>4, LatestMoves DEF CaredFor
<1>5. ASSUME NEW t \in 1..MaxTasks, job'[t].pc \in {"close", "raise"}, NEW f \in Files,
             f = task'[t].file, NeedsWork(f)'
      PROVE  Handled(f)'
  <2>1. file'[f] # Absent /\ file'[f].status # "ready"
    BY <1>5 DEF NeedsWork, Exists
  <2>2. job'[t].pc = "close" /\ t \in Tasks'
    <3>1. job'[t].pc # "raise"
      BY <1>5, <2>1, DirectoriesStillStay DEF DirectoriesStay, Exists
    <3> QED BY <1>5, <3>1, RowsStayHeld DEF RowsAreHeld, Works
  <2>3. ~EndProcess
    <3>1. EndProcess => job'[t] = NoJob
      BY DEF EndProcess
    <3> QED BY <2>2, <3>1 DEF NoJob
  <2>4. \A u \in Tasks : u = t => u \in Tasks /\ task[u].file = f /\ f \in Files
    BY <1>5, NobodyRevives
  <2>5. file \in [Files -> FileRow \cup {Absent}]
    BY <1>1 DEF StateIsTyped
  <2>6. CASE job'[t] = job[t]
    <3>1. busy = Ending(t) /\ t \in Tasks
      BY <1>1, <2>2, <2>6 DEF LoopIsHeld, LastPlaces, RowsAreHeld, Works
    <3>2. f \in Files /\ task[t].file = f
      BY <2>4, <3>1
    <3>3. /\ \A c \in Clients : ~Enqueue(c)
          /\ \A u \in Tasks, o \in Owners : ~Claim(u, o)
      BY <3>1, BusyDiffers DEF Enqueue, Claim, LoopFree
    <3>4. NeedsWork(f) => Handled(f)
      BY <1>1, <2>2, <2>6, <3>2 DEF WorkIsWanted
    <3>5. NeedsWork(f)'
      BY <1>5
    <3> QED BY <2>3, <3>2, <3>3, <3>4, <3>5, NeedArises, HandledStays
  <2>7. ASSUME t \in Tasks, StartConversion(t) PROVE FALSE
    <3>1. \/ Settled(f) /\ UNCHANGED file
          \/ Exists(f) /\ file' = [file EXCEPT ![f] =
               [@ EXCEPT !.status = "ready", !.attach = TRUE, !.markdown = FALSE]]
      BY <1>1, <2>2, <2>4, <2>7, CoroutinesMove DEF After
    <3> QED BY <2>1, <2>4, <2>5, <2>7, <3>1 DEF Settled, Exists, FileRow
  <2>8. ASSUME t \in Tasks, EndChild(t) PROVE FALSE
    <3>1. UpdateFile(f, [file[f] EXCEPT !.status = "failed"])
      <4>1. ~Continue(t, "write") /\ ~Continue(t, "describe")
        BY <1>1, <2>2 DEF Continue, StateIsTyped, Job
      <4> QED BY <2>4, <2>8, <4>1 DEF EndChild
    <3>2. file'[f].status = "failed"
      BY <2>1, <2>4, <2>5, <2>8, <3>1 DEF UpdateFile, Exists, FileRow
    <3>3. PICK u \in TasksOf(f)' : job'[u].pc = "start"
      BY <1>5, <3>2 DEF NeedsWork
    <3>4. u \in 1..MaxTasks
      BY <3>3, TasksGrow, IngestionAssumption DEF TasksOf, Tasks
    <3>5. job[u].pc = "start"
      BY <1>1, <2>2, <2>8, <3>3, <3>4, CoroutinesMove DEF After
    <3>6. u \in Tasks
      BY <1>1, <3>4, <3>5 DEF RowsAreHeld, Works
    <3> QED BY <2>8, <3>5, <3>6 DEF EndChild
  <2>9. ASSUME t \in Tasks, PublishMarkdown(t) PROVE FALSE
    <3>1. UpdateFile(f, [file[f] EXCEPT !.status = "ready", !.markdown = TRUE])
      BY <2>4, <2>9 DEF PublishMarkdown
    <3> QED BY <2>1, <2>4, <2>5, <2>9, <3>1 DEF UpdateFile, Exists, FileRow
  <2>10. ASSUME t \in Tasks, \/ \E o \in Owners : Claim(t, o)
                             \/ KillConversion(t) \/ DescribeFigures(t) \/ WriteMarkdown(t)
                             \/ CloseTask(t)
         PROVE  FALSE
    BY <1>1, <2>2, <2>10, CoroutinesMove DEF After
  <2> QED BY <2>3, <2>6, <2>7, <2>8, <2>9, <2>10, OneMoves
<1>6. ASSUME NEW t \in 1..MaxTasks, job'[t].pc \in {"close", "raise"}
      PROVE  task'[t].file \in Files
  <2>1. t \in Tasks'
    BY <1>6, RowsStayHeld DEF RowsAreHeld, Works
  <2>2. task'[t] \in TaskRow
    BY <2>1, TypesStay DEF StateIsTyped, Tasks
  <2> QED BY <2>2 DEF TaskRow
<1> QED BY <1>4, <1>5, <1>6 DEF WorkIsWanted

----------------------------------------------------------------------------
(* The invariant.                                                          *)

LEMMA SequenceOfSet ==
  ASSUME NEW S, IsFiniteSet(S)
  PROVE  /\ SetToSeq(S) \in Seq(S)
         /\ \A i, j \in 1..Len(SetToSeq(S)) : SetToSeq(S)[i] = SetToSeq(S)[j] => i = j
         /\ {SetToSeq(S)[i] : i \in 1..Len(SetToSeq(S))} = S
<1>1. Cardinality(S) \in Nat /\ \E q \in Bijection(1..Cardinality(S), S) : TRUE
  BY FS_CardinalityType DEF ExistsBijection
<1>2. \E q \in [1..Cardinality(S) -> S] : IsInjective(q)
  BY <1>1 DEF Bijection, Injection
<1>3. SetToSeq(S) \in [1..Cardinality(S) -> S] /\ IsInjective(SetToSeq(S))
  BY <1>2 DEF SetToSeq
<1>4. ASSUME NEW n \in Nat, n = Cardinality(S), NEW q \in [1..n -> S], IsInjective(q)
      PROVE  /\ q \in Seq(S) /\ \A i, j \in 1..Len(q) : q[i] = q[j] => i = j
             /\ {q[i] : i \in 1..Len(q)} = S
  <2>1. q \in Seq(S) /\ Len(q) = n
    OBVIOUS
  <2>2. q \in Injection(1..n, S)
    BY <1>4 DEF Injection
  <2>3. IsFiniteSet(1..n) /\ Cardinality(1..n) = Cardinality(S)
    BY <1>4, SizeOfInterval
  <2>4. q \in Surjection(1..n, S)
    BY <2>2, <2>3, FS_Injection
  <2>5. {q[i] : i \in 1..n} = S
    BY <2>4 DEF Surjection
  <2>6. \A i, j \in 1..n : q[i] = q[j] => i = j
    BY <1>4 DEF IsInjective
  <2> QED BY <2>1, <2>5, <2>6
<1> QED BY <1>1, <1>3, <1>4

LEMMA InitSatisfies ==
  ASSUME Init
  PROVE  IngestionInvariant
<1>1. PICK old \in LegacyRows :
        /\ file = [f \in Files |-> IF f \in DOMAIN old THEN old[f] ELSE Absent]
        /\ disk = [f \in Files |-> IF f \in DOMAIN old THEN {"dir", "original"} ELSE {}]
        /\ births = SetToSeq(DOMAIN old)
  BY DEF Init
<1>2. /\ task = <<>> /\ job = [t \in 1..MaxTasks |-> NoJob]
      /\ upload = [c \in Clients |-> Idle]
      /\ waiting = {} /\ sent = {} /\ given = {} /\ busy = Free
      /\ up = FALSE /\ used = [e \in Bounded |-> 0]
  BY DEF Init
<1>3. /\ DOMAIN old \in SUBSET Files /\ IsFiniteSet(DOMAIN old)
      /\ \A f \in DOMAIN old : old[f] \in FileRow
  BY LegacyAssumption
<1>4. /\ births \in Seq(DOMAIN old) /\ Born = DOMAIN old
      /\ \A i, j \in 1..Len(births) : births[i] = births[j] => i = j
  <2>1. ASSUME NEW S, IsFiniteSet(S), births = SetToSeq(S)
        PROVE  /\ births \in Seq(S) /\ Born = S
               /\ \A i, j \in 1..Len(births) : births[i] = births[j] => i = j
    BY <2>1, SequenceOfSet DEF Born
  <2> QED BY <1>1, <1>3, <2>1
<1>5. Tasks = {}
  BY <1>2 DEF Tasks
<1>6. Idle \in HandlerRow(Idle.want) /\ NoJob \in Job /\ NoJob.pc = None /\ Idle.pc = "idle"
  BY DEF Idle, HandlerRow, HandlerPlaces, NoJob, Job, ConversionPlaces
<1>7. StateIsTyped
  <2>1. file \in [Files -> FileRow \cup {Absent}]
    BY <1>1, <1>3
  <2>2. births \in Seq(Files)
    <3>1. \A q \in Seq(DOMAIN old) : q \in Seq(Files)
      BY <1>3
    <3> QED BY <1>4, <3>1
  <2>3. disk \in [Files -> SUBSET {"dir", "original", "markdown"}]
    BY <1>1
  <2>4. task \in Seq(TaskRow) /\ Len(task) <= MaxTasks
    BY <1>2, IngestionAssumption
  <2>5. job \in [1..MaxTasks -> Job]
    BY <1>2, <1>6
  <2>6. /\ upload = [c \in Clients |-> upload[c]]
        /\ \A c \in Clients : upload[c] \in HandlerRow(upload[c].want)
    BY <1>2, <1>6
  <2> QED BY <1>2, <2>1, <2>2, <2>3, <2>4, <2>5, <2>6 DEF StateIsTyped
<1>8. IdsAreUsedOnce
  BY <1>1, <1>2, <1>4, <1>5 DEF IdsAreUsedOnce, Exists
<1>9. HandlersKnow /\ PermissionIsShared
  BY <1>2, <1>6 DEF HandlersKnow, PermissionIsShared, Handles
<1>10. LoopIsHeld
  BY <1>2, <1>6, BusyDiffers DEF LoopIsHeld, Works, Handles, LastPlaces
<1>11. RowsAreHeld
  <2>1. Converting = {}
    BY <1>5 DEF Converting
  <2>2. Cardinality(Converting) <= MaxConcurrent
    BY <2>1, FS_EmptySet, IngestionAssumption
  <2> QED BY <1>2, <1>6, <2>2 DEF RowsAreHeld, Works
<1>12. OneIsOpen
  BY <1>5 DEF OneIsOpen
<1>13. DirectoriesStay /\ WorkIsWanted
  BY <1>1, <1>2, <1>6 DEF DirectoriesStay, WorkIsWanted
<1> QED BY <1>7, <1>8, <1>9, <1>10, <1>11, <1>12, <1>13 DEF IngestionInvariant

LEMMA NextKeeps ==
  ASSUME IngestionInvariant, [Next]_vars
  PROVE  IngestionInvariant'
BY TypesStay, IdsStayUsedOnce, HandlersStillKnow, PermissionStaysShared, LoopStaysHeld,
   RowsStayHeld, OneStaysOpen, DirectoriesStillStay, WorkStaysWanted DEF IngestionInvariant

\* The invariant holds throughout, whatever uploads, conversions, cancellations, deletions,
\* losses and restarts come in whatever order.
THEOREM LaneKeepsInvariant == Spec => []IngestionInvariant
<1>1. Init => IngestionInvariant
  BY InitSatisfies
<1>2. IngestionInvariant /\ [Next]_vars => IngestionInvariant'
  BY NextKeeps
<1> QED BY <1>1, <1>2, PTL DEF Spec

\* Every variable has its type.
THEOREM LaneIsTyped == Spec => []TypeOK
<1>1. IngestionInvariant => TypeOK
  <2>1. SUFFICES ASSUME IngestionInvariant PROVE TypeOK
    OBVIOUS
  <2>2. StateIsTyped
    BY <2>1 DEF IngestionInvariant
  <2>3. \A t \in Tasks : task[t] \in TaskRow
    BY <2>2 DEF StateIsTyped, Tasks
  <2>4. \A t \in Tasks : task[t].file \in Files /\ task[t].status \in TaskStatuses
    BY <2>3 DEF TaskRow
  <2>5. \A t \in 1..MaxTasks : job[t].pc \in ConversionPlaces
    BY <2>2 DEF StateIsTyped, Job
  <2>6. \A c \in Clients : upload[c].pc \in HandlerPlaces
    BY <2>2 DEF StateIsTyped, HandlerRow
  <2> QED BY <2>2, <2>4, <2>5, <2>6 DEF TypeOK, StateIsTyped, ConversionPlaces, LastPlaces,
                                         HandlerPlaces
<1> QED BY <1>1, LaneKeepsInvariant, PTL

\* The lane never converts more than its capacity, whoever claims, and a row in conversion
\* has somebody at work on it while the process runs.
THEOREM LaneStaysHeld == Spec => []LaneIsHeld
<1>1. IngestionInvariant => LaneIsHeld
  BY DEF IngestionInvariant, RowsAreHeld, LaneIsHeld, Works
<1> QED BY <1>1, LaneKeepsInvariant, PTL

\* No file waits for a conversion that nobody is going to do.
THEOREM PendingStaysWanted == Spec => []PendingIsWanted
<1>1. ASSUME IngestionInvariant PROVE PendingIsWanted
  <2>1. SUFFICES ASSUME up, NEW f \in Files, Pending(f)
                 PROVE  \/ \E t \in TasksOf(f) : Open(t)
                        \/ Handled(f)
                        \/ LatestTask(f) # 0 /\ task[LatestTask(f)].status = "cancelled"
    BY DEF PendingIsWanted, Handled
  <2>2. CaredFor(f)
    BY <1>1, <2>1 DEF IngestionInvariant, WorkIsWanted, NeedsWork, Pending
  <2>3. LatestTask(f) # 0 => LatestTask(f) \in TasksOf(f)
    <3>1. TasksOf(f) \in SUBSET (1..Len(task)) /\ Len(task) \in Nat
      BY <1>1 DEF TasksOf, Tasks, IngestionInvariant, StateIsTyped
    <3> QED BY <3>1, GreatestOf DEF LatestTask
  <2> QED BY <2>2, <2>3 DEF CaredFor, Open, Ended
<1> QED BY <1>1, LaneKeepsInvariant, PTL

\* What a client uploaded without permission to leave never reaches a remote model.
THEOREM LocalFilesStayLocal == Spec => []LocalStaysLocal
<1>1. IngestionInvariant => LocalStaysLocal
  BY DEF IngestionInvariant, PermissionIsShared, LocalStaysLocal
<1> QED BY <1>1, LaneKeepsInvariant, PTL

\* A file that can be attached stays so, but for a deletion, a loss on disk and the repair
\* it calls for, and the failure of another conversion of the file already in course.
THEOREM AttachableStays == Spec => ReadyStays
<1> DEFINE Excused(f) == \/ ~Exists(f)' \/ disk'[f] = {} \/ used'["loss"] > used["loss"]
                         \/ \E c \in Clients : upload[c].pc = "mend" /\ upload[c].file = f
                         \/ \E t \in TasksOf(f) : job[t].pc = "convert"
           Step == \A f \in Files : Attachable(f) /\ ~Attachable(f)' => Excused(f)
<1>1. ASSUME IngestionInvariant, [Next]_vars PROVE Step
  <2>1. SUFFICES ASSUME NEW f \in Files, Attachable(f), ~Excused(f)
                 PROVE  Attachable(f)'
    OBVIOUS
  <2>2. /\ file \in [Files -> FileRow \cup {Absent}] /\ used \in [Bounded -> Nat]
        /\ disk \in [Files -> SUBSET {"dir", "original", "markdown"}] /\ file[f] \in FileRow
        /\ Exists(f) /\ file[f].status = "ready" /\ f \in Born
    BY <1>1, <2>1 DEF IngestionInvariant, StateIsTyped, Attachable, Exists, IdsAreUsedOnce
  <2>3. /\ file'[f] # Absent /\ disk'[f] # {} /\ ~(used'["loss"] > used["loss"])
        /\ \A c \in Clients : ~(upload[c].pc = "mend" /\ upload[c].file = f)
        /\ \A t \in TasksOf(f) : job[t].pc # "convert"
    BY <2>1 DEF Exists
  <2> HIDE DEF Excused
\* The row: ready, and no less converted than before.
  <2>4. \/ file'[f] = file[f]
        \/ /\ file'[f].status = "ready" /\ file'[f].markdown
           /\ file'[f].attach = file[f].attach
    <3>1. CASE UNCHANGED file
      BY <3>1
    <3>2. CASE SomeClient(InsertRow)
      <4>1. PICK c \in Clients : InsertRow(c)
        BY <3>2 DEF SomeClient
      <4>2. upload[c].file # f
        BY <1>1, <2>2, <4>1 DEF InsertRow, IngestionInvariant, HandlersKnow, Handles
      <4> QED BY <2>2, <4>1, <4>2 DEF InsertRow
    <3>3. CASE SomeClient(RepairRow)
      BY <2>2, <2>3, <3>3 DEF SomeClient, RepairRow
    <3>4. CASE SomeTask(StartConversion)
      <4>1. PICK t \in Tasks : StartConversion(t)
        BY <3>4 DEF SomeTask
      <4>2. task[t].file = f => UNCHANGED file
        BY <2>2, <4>1 DEF StartConversion, Settled
      <4>3. task[t].file # f => file'[f] = file[f]
        BY <2>2, <4>1 DEF StartConversion
      <4> QED BY <4>2, <4>3
    <3>5. CASE SomeTask(EndChild)
      <4>1. PICK t \in Tasks : EndChild(t)
        BY <3>5 DEF SomeTask
      <4>2. task[t].file # f
        BY <2>3, <4>1 DEF EndChild, TasksOf
      <4> QED BY <2>2, <4>1, <4>2 DEF EndChild, UpdateFile
    <3>6. CASE SomeTask(PublishMarkdown)
      <4>1. PICK t \in Tasks : PublishMarkdown(t)
        BY <3>6 DEF SomeTask
      <4>2. task[t].file # f => file'[f] = file[f]
        BY <2>2, <4>1 DEF PublishMarkdown, UpdateFile
      <4>3. task[t].file = f =>
              file' = [file EXCEPT ![f] = [file[f] EXCEPT !.status = "ready", !.markdown = TRUE]]
        BY <2>2, <4>1 DEF PublishMarkdown, UpdateFile
      <4> QED BY <2>2, <4>2, <4>3 DEF FileRow
    <3>7. CASE SomeFile(DeleteRow) \/ StartProcess
      BY <2>2, <2>3, <3>7 DEF SomeFile, DeleteRow, StartProcess
    <3> QED BY <1>1, <3>1, <3>2, <3>3, <3>4, <3>5, <3>6, <3>7, WhoWrites
\* The directory: nothing is taken out of it.
  <2>5. disk[f] \subseteq disk'[f]
    <3>1. CASE UNCHANGED disk
      BY <3>1
    <3>2. CASE StoresUpload
      <4>1. PICK c \in Clients, w \in Uploads : StoreUpload(c, w)
        BY <3>2 DEF StoresUpload
      <4>2. \/ UNCHANGED disk
            \/ \E g \in {x \in Files : Fresh(x)} : disk' = [disk EXCEPT ![g] = {"dir", "original"}]
        BY <4>1 DEF StoreUpload
      <4>3. ~Fresh(f)
        BY <2>2 DEF Fresh
      <4> QED BY <2>2, <4>2, <4>3
    <3>3. CASE SomeClient(RepairOriginal)
      <4>1. PICK g : disk' = [disk EXCEPT ![g] = disk[g] \cup {"dir", "original"}]
        BY <3>3 DEF SomeClient, RepairOriginal
      <4> QED BY <2>2, <4>1
    <3>4. CASE SomeTask(WriteMarkdown)
      <4>1. PICK g : UNCHANGED disk \/ disk' = [disk EXCEPT ![g] = disk[g] \cup {"markdown"}]
        BY <3>4 DEF SomeTask, WriteMarkdown
      <4> QED BY <2>2, <4>1
    <3>5. CASE SomeFile(RemoveDirectory)
      <4>1. PICK g \in Files : disk' = [disk EXCEPT ![g] = {}]
        BY <3>5 DEF SomeFile, RemoveDirectory
      <4> QED BY <2>2, <2>3, <4>1
    <3>6. CASE SomeFile(LoseFile)
      <4>1. used' = [used EXCEPT !["loss"] = used["loss"] + 1, !["any"] = used["any"] + 1]
        BY <3>6 DEF SomeFile, LoseFile, Count
      <4>2. "loss" \in Bounded /\ "any" \in Bounded
        BY DEF Bounded, Disturbances
      <4>3. used["loss"] \in Nat /\ used'["loss"] = used["loss"] + 1
        BY <2>2, <4>1, <4>2
      <4> QED BY <2>3, <4>3
    <3>7. CASE StartProcess
      BY <2>2, <2>3, <3>7 DEF StartProcess
    <3> QED BY <1>1, <3>1, <3>2, <3>3, <3>4, <3>5, <3>6, <3>7, WhoWrites
  <2> QED BY <2>1, <2>2, <2>3, <2>4, <2>5 DEF Attachable, Exists
<1>2. IngestionInvariant /\ [Next]_vars => [Step]_vars
  BY <1>1
<1> QED BY <1>2, LaneKeepsInvariant, PTL DEF Spec, ReadyStays
=============================================================================
