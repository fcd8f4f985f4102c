# Verification of the AI Broker

The AI Broker (`src/app/`, Python, FastAPI + asyncio + SQLite) accepts tasks over HTTP,
queues them and runs them against local and remote language models.  This directory
holds TLA+ modules that model its task engine and the services around it, the TLC
configurations that check them, and proofs for TLAPS.

    tlc -config Lifecycle.cfg MCBroker.tla        # Lanes, Liveness, UrgentFirst, ...
    tlc -config Ingestion.cfg MCIngestion.tla
    tlc -config Strategies.cfg MCStrategies.tla   # and SecondRound
    tlc -config Services.cfg MCServices.tla       # and CloudWaits
    tlapm BrokerProofs.tla        # PlaceProofs, LarmProofs, SetSums,
                                  # IngestionProofs, ServicesProofs,
                                  # WavePlanProofs, StrategiesProofs

## 1. The system

### Parts, their state and how they meet

| Part | State | Operations | Meets the others through |
|---|---|---|---|
| Task table (`repository.py`, `db.py`) | rows of `tasks`, `model_invocations`, `consensus_runs`, `events`; one SQLite transaction per method | create, claim, update, defer, demote, yield, pause, resume, cancel, reorder, recover | everybody reads and writes it |
| Task API (`main.py`, `dashboard_web.py`) | none; handlers run in a thread pool | create, cancel, cancel all, tool results, reorder, manual ticks | transactions, concurrently with the event loop |
| Dispatchers (`dispatcher.py`) | set of running jobs per lane | inference loop (one job, awaited), embedding and cloud loops (`max_parallel` jobs), ingestion loop | claim a row, call `process_task` or `run_task` |
| Coordinator (`coordinator.py`, `strategy_router.py`) | local variables of a coroutine, checkpoints in the row | dependencies, single, agent, consensus, map-reduce, `auto`; errors, timeouts, cancellation | a transaction between every two awaits; provider calls |
| Resource planning (`resource_scheduler.py`) | none | partition of proposers into waves | asked once per round |
| Lifespan (`main.py`, `startup.py`) | the process | recover, start the loops, stop them in order | the rows a previous process left |
| Ingestion (`ingestion/`) | rows of `ingested_files`, the directory of each file, conversions in the table | upload, repair, convert, cancel, delete, attach | fourth lane of the same table |
| Ollama residency (`providers/ollama.py`, `maintenance.py`) | leases, reserved sizes, one lock | lease, evict, unload, replace | every call to a local model |
| LARM leases (`larm.py`) | journal of leases, renewals, catalogue | request, renew, release, reconcile | external resource manager |
| Provider routing (`providers/routing.py`) | semaphores, catalogue, statistics | choose, limit, call, fail over | external model servers |
| Shadow probes, quarantine (`shadow_probe.py`, `model_quarantine.py`) | background tasks, history of each model | probe, withhold, restore | after a task ends |
| MCP registry (`mcp.py`) | child processes and their streams | start, call, kill | tools of agents |
| Backup (`maintenance.py`, `state_lock.py`) | lock file, restore marker | back up, restore with undo | excludes the service |

### What is hard

* **Two views of "busy".**  A claim counts *rows* in an active status; what runs are
  *coroutines*.  A cancellation makes a row `cancelled` at once, minutes before its
  coroutine notices; and that coroutine still writes to the row, so a cancelled row can
  become active again.
* **Checks before writes.**  `is_cancel_requested` and the write that relies on it are
  different transactions, and API threads act in between.  `update_task` names the row
  and no status.
* **Many ways back to the queue** (memory, outage, dependency, demotion, yield, tool
  results, recovery), each with its own treatment of place, timer and counters.
* **Ends that are not ends**: `wait_for` cutting a job, a lane loop cancelling its jobs,
  exceptions nobody expected, the death of the process, in every instant.
* **Order of the queue**: places shift when a row enters; a row without a place (`NULL`)
  sorts before all others.
* **Waits**: memory reservations that close the lane to others, groups of tasks that
  depend on each other, calls that wait for a slot.
* **Work kept over interruptions**: proposals of a wave, partial answers of chunks, the
  conversation of an agent and what each of them cost, in a row that another coroutine
  takes up later, when documents or providers may have changed.
* **One conversion for many uploads**: whoever uploads the same bytes shares a row and a
  directory with clients it does not know, whose permissions differ.
* **Two owners of one resource**: LARM and the journal, Ollama and the lifecycle, a
  child process and its reader, the service and a restore.  Each pair is changed by
  exchanges that may be lost, cut, or answered after nobody waits for them.

### What makes each part correct

* Table and dispatchers: one inference workflow, lanes within their capacity, no row
  left active without its coroutine, places distinct and in order.
* Coordinator: a cancellation wins, or at least is not forgotten; no paid call beyond
  the one in flight; retries bounded; invocations closed; ends final.
* Strategies: what was paid is kept and told; a synthesis rests on a quorum and on one
  conversion of the documents; spending is bounded; a conversation has no open call.
* Lifespan: nothing interrupted is lost, nothing in flight at a remote provider is paid
  twice.
* Ingestion: a file is converted in the end, a ready document stays, a document that may
  not leave the machine does not.
* Services: memory promised is memory there is; LARM holds nothing the journal does not
  know; a prompt stays within the boundary of its request; probes give way; each call
  of a tool reads its own answer; the state is of one version.
* Everything: each accepted task ends, or waits for its client.

## 2. The modules

    TaskTable  <-  Broker  <-  BrokerProperties  <-  BrokerInvariant  <-  MCBroker
                                                           ^
                                          PlaceProofs  ->  BrokerProofs

    Ingestion  <-  IngestionProperties  <-  IngestionInvariant  <-  MCIngestion
                                                  ^
                                            IngestionProofs

    Workflow  <-  SingleRun, MapReduce, AgentTurns, ConsensusRun (uses WavePlan)
                        <-  Strategies (uses StrategyRouter)
                                <-  StrategiesProperties
                                        <-  StrategiesInvariant  <-  MCStrategies
                                                  ^
      WavePlan, SetSums  <-  WavePlanProofs  <-  StrategiesProofs

    LeaseBook  <~  LarmLeases  <-  LarmProperties  <-  LarmProofs
    LarmProperties, OllamaResidency, ModelRouting, InferenceSlots, McpChannel,
    StateBackup  <-  Services  <-  ServicesProperties (uses BackupProperties)
                                        <-  ServicesInvariant  <-  MCServices
                                                  ^
                         LarmProofs, SetSums  <-  ServicesProofs

(`<-` is EXTENDS, `<~` an INSTANCE with a refinement mapping.)

### The task engine

**`TaskTable`** is the table: one operator per transaction of `TaskRepository`, over one
variable `task`, a record per task with the columns that decide anything (`status`,
`kind`, `priority`, `queue_position`, `not_before`, `memory_deferrals`,
`memory_reserved_until`, the first wait for dependencies, `attempt`,
`cancel_requested`), and of `model_invocations` only what decides a retry: the
deployment of the row in `started`, whether a remote row was completed, whether one is
ambiguous.

**`Broker`** is everybody who calls it.  `job[t]` is the coroutine that processes `t`:
where it is (the repository call it makes next, or `call` while a provider call is in
flight), the lane it runs in, the error being handled, and who awaits it (a loop or a
manual tick).  An action is what runs between two points where another actor may act; an
API handler is one action because it is one transaction.  `phase` is the process: `up`,
`stopping` (the loops have seen the stop event) or `down`.  `late` counts the calls
started after a cancellation, and `left` is what remains of the bound `Budget` on events
that the environment may repeat without end.

| Code | Actions |
|---|---|
| `main.py`, `dashboard_web.py`: handlers | `Create`, `Cancel`, `CancelAllPending`, `ToolResults`, `Reorder`, `ManualTick` |
| `dispatcher_loop` | `DispatchInference`, `DispatchNothing`, `HandlerReads`, `HandlerSavesFailed` |
| `lane_dispatcher_loop` | `DispatchLane`, `LaneJobCancelled`, the handlers above |
| `process_task`: before the `try` | `AwaitDependencies`, `DeferTask`, `AttachmentsFail` |
| `_process_task_request` | `EntryCheck`, `RejectRequest`, `SelectionFails`, `BeginWork` |
| provider calls | `StartCall`, `CallReturns`, `CallFails`, `CallCancelled` |
| single | `OutputCheck`, `SaveSingle` |
| agent, consensus | `RoundCheck`, `NextRound`, `LosesQuorum`, `FinalAnswer`, `AsksClient`, `AfterLoop`, `SaveFinish`, `SavePause`, `SaveYield` |
| `process_task`: errors and `finally` | `TimesOut`, `ErrorCheck`, `SettleError`, `InternalError`, `Finally` |
| lifespan | `Stop`, `Stopped`, `Crash`, `Start`, `Tick` |

**`BrokerProperties`** states what the engine promises, **`BrokerInvariant`** the
inductive invariants `IInv` (rows and coroutines) and `InvocationsAreKnown` (coroutines
and open invocations), **`MCBroker`** the values for TLC.  Operators commented *Faulty*
are plausible mistakes (a dropped guard, a missing shift); each property is checked to
fail when the definition it is about is replaced by one.

### The ingestion lane

**`Ingestion`** has the rows of the files, what the directory of each holds, the
conversions in order of creation with the coroutine of each, the upload handlers, and
the tasks that were accepted with a file attached and wait to be dispatched.

| Code | Actions |
|---|---|
| `service.store_upload` and the endpoint | `StoreUpload`, `InsertRow`, `RepairOriginal`, `RepairRow`, `Enqueue` |
| `claim_next_ingestion_task`, the loop or a tick | `Claim` |
| `run_task`, `process` | `StartConversion`, `EndChild`, `DescribeFigures`, `WriteMarkdown`, `PublishMarkdown`, `CloseTask` |
| cancellation | `CancelTask`, `KillConversion` |
| `delete`, losses on disk | `RemoveDirectory`, `DeleteRow`, `LoseFile` |
| attachments of a task | `AcceptTask`, `DispatchTask` |
| lifespan | `EndProcess`, `StartProcess` |

The converters, the recognition of text and the models that describe figures are
external: each succeeds or fails, and finds text or none.  A conversion whose row was
cancelled goes on to its last write, as the code does.

### The strategies

**`Workflow`** is one task as its strategy sees it: the row with its checkpoints, the
coroutine, the money (`bill` remembers what was paid for and what was kept), and what
may interrupt it (cancellation, deadline, crash, somebody urgent, a new conversion of
its documents).  **`SingleRun`**, **`MapReduce`**, **`AgentTurns`** and
**`ConsensusRun`** add the steps of each strategy, **`StrategyRouter`** the choice of
`auto` from signals and evidence, **`WavePlan`** the partition of proposers into waves;
**`Strategies`** dispatches and composes them.  A strategy may lead to another: `auto`
chooses, a single answer may be escalated to a mixture.

| Code (`coordinator.py`) | Actions |
|---|---|
| `_process_single`, `_process_single_with_escalation` | `SelectSingle` to `SaveSingle`, `Rated`, `Escalate` |
| `_process_single_map_reduce` | `ResumeChunks`, `SplitDocuments`, `NextChunk` to `ChunksDone`, `ReduceRound` to `GroupsDone`, `LastCall` to `SaveSynthesis` |
| `_process_agent`, `_run_agent_loop` | `SelectAgent`, `NextTurn` to `AskAfterTurn`, `LastTurn`, `LeaveLoop`, `SaveAnswer`, `PauseForClient`, `YieldAfterTurn`; `ToolResults` is the client |
| `_process_consensus`, `_run_proposal_round`, `_run_second_round` | `ResumeMixture`, `PlanMixture`, `NextWave` to `WavesDone`, `Synthesizes`, `SynthesisAnswered`, `ArbiterFailed`, `Gate`, `Judged`, `StartSecond`, `Deliver` |

### The services

They meet the engine at a call and share nothing with each other, so **`Services`** puts
them side by side and lets a behaviour choose one; every interleaving inside a service
is explored, none between two of them.

* **`LeaseBook`** is the abstract specification: which calls were entered, which entries
  are open, who was served, for whom LARM holds memory, and nothing of how.
  **`LarmLeases`** is `larm.py`: `request_lease`, `_wait_for_job`, `leased`, the
  heartbeat, `release_lease`, `_release_by_request_id`, `reconcile`, the catalogue, and
  LARM with its revisions, grants that come late and leases that end by themselves.
  **`LarmProperties`** has the refinement mapping.
* **`OllamaResidency`**: `lease`, `_ensure_capacity` with its evictions, the end of a
  lease, the idle loop, the panel that deletes a model, a reload that replaces the
  lifecycle; and Ollama, which goes on loading for calls that were given up.
* **`ModelRouting`**: from a request to everybody who reads its prompt: permitted,
  capable and fitting models, the ranking with its exploration, System 1, substitutes,
  turns of an agent, the arbiter and its substitute, the aspirants of a probe; the
  quarantine by streaks and roles; a reload between choice and call.
* **`InferenceSlots`**: which slot a call takes, what a reload does to the slots, and
  when a probe looks, starts, gives way and ends.
* **`McpChannel`**: the two locks, the handshake, the stream with noise and late
  answers, the calls that are cut (their handlers kill the process), and those that
  leave the locks without a handler, the process alive (`Uncaught`).
* **`StateBackup`**: copies, restores with undo, deaths between any two steps, and who
  may open the state.

### What the abstraction keeps and leaves out

Task engine:

* `routing` and `generating` stand for the eleven active statuses: every query and guard
  treats them alike.
* Task numbers are arrival order, so they are `created_at` as well as the id.
* Timestamps are countdowns in ticks; only their order against the clock matters.
* The proposals of a wave run in parallel; the model has one call at a time per task,
  and `AtMostOneLateCall` therefore excludes mixtures.
* The finally block's transactions are one action: it has no await, and a cancellation
  committed in between differs only in the wait counters of a row that has ended, which
  no claim reads.
* A claim that commits while the task's last coroutine is in its finally block starts
  the new coroutine after it (`Idle` in the guards of the claims): both need the event
  loop.
* Broker leaves out the ingestion lane (it shares the numbering of places and the limit
  of the queue), the insides of the strategies, the stages of a consensus run, and
  failures of the database itself other than as an unexpected exception.

Ingestion: the name and the kind of a file are what decides its treatment; bytes are one
value, so that every upload may meet every other.  Conversions of one file may overlap,
a cancelled one is queued again by a restart, and the thread that describes figures goes
on after a cancellation (`ThreadGoesOn`): it reads the permission again at each figure.

Strategies: a call costs one of a few amounts or fails at no cost; a failed attempt of a
single and its substitutes are one call (Broker has the attempts).  A proposer is one
call: its skills and tools are not modelled.  What `auto` reads as evidence is chosen
anew at each dispatch.  `tabular` is a table without a sandbox to read it.  The size of
a proposer may be unreadable, and the plan is then by number.

Services: LARM's catalogue has an age in intervals; whether a lease still serves when it
is used is a free choice, since the checks compare data; a lost lease is noticed in use.
Routing ranks by what is known of a model (experience, band, measured time) and takes
any of the timed ones as the fastest; what exploration and roles leave is
over-approximated by a choice; one type of task, adaptive selection on, the strongest
arbiter asked; the history of an entry is forgotten when its label changes. A task of
`InferenceSlots` has one call at a time.  In `McpChannel` writing a request and taking
the stream is one step. The code awaits in between (`drain`, `mcp.py:375`, and
`wait_for`, 355), but only for a moment of the loop: to replace the process meanwhile
takes the end of a child and the start of another, and a caller that finds no process
fails as one that is cut does. The closing at shutdown is left out.  In `StateBackup`
the service's work from one version to the next is atomic, and a restore that is refused
changes nothing.

## 3. The runs

| Run | Question | Properties |
|---|---|---|
| `Lifecycle` | One task of any lane and strategy against every disturbance | `TypeOK`, `ActiveRowsAreHeld`, `SingleCancelWins`, `AtMostOneLateCall`, `AttemptsAreBounded`, `InvocationsClosed`, `IInv`, `FinishedIsFinal`, `CancelledStaysDown` |
| `Lanes` | Three tasks that compete for lanes and places | `OneInferenceWorkflow`, `LaneCapacity`, `PlacesAreDistinct`, `PlacedInOrder`, `PlacedClaimsFollowPriority` |
| `Liveness` | Two tasks that wait for each other | `NoTaskStranded`, `DependencyWaitEnds`, `CancelIsHonoured` |
| `Ingestion` | Two files that uploads share, against cancellation, deletion, loss and restart | `TypeOK`, `LaneIsHeld`, `PendingIsWanted`, `LocalStaysLocal`, `ReadyStays`, `UploadsEnd` |
| `Strategies` | One task of each strategy, interrupted in every way | `TypeOK`, `PaidWorkIsKept`, `PartialsMatchChunks`, `QuorumHeld`, `PlanIsTight`, `SpendingIsBounded`, `ReportedIsPaid`, `ConversationIsWhole`, `CancelEndsRun`, `WorkflowEnds` |
| `Services` | Each service alone, with losses, cuts, reloads and deaths | `TypeOK`, `MemoryIsHeld`, `BoundaryIsKept`, `ProbesGiveWay`, `ChannelIsClean`, `StateIsOne`, `BookIsKept` |
| `UrgentFirst` | Does the lower priority number always run first? | `ClaimsFollowPriority`, violated |
| `PaidTwice` | Is a remote call in flight never repeated by a restart? | `RemoteInFlightNotRetried`, violated |
| `Demotion` | Does a demotion spare a cancelled task? | `DemotionSparesCancelled`, violated |
| `ManualTick` | Is there one inference workflow, ticks included? | `SingleWorkflow`, violated |
| `SecondRound` | Can a second round leave a task worse off? | `SecondRoundNeverWorse`, violated |
| `CloudWaits` | Do calls of the cloud lane wait for local ones? | `CloudDoesNotWait`, violated |

**Bounds.**  `Lifecycle` has one task because its properties relate a row to its own
coroutine; the seven kinds of request are all lanes with the strategies they admit, and
the budget allows five disturbances in all, at most two of a kind: a cancellation inside
a retry inside a restarted attempt needs three.  The smallest limits that leave both
sides of each comparison reachable are used (`MaxAttempts = 2`, `ReserveAfter = 1`).
`Lanes` has three tasks because a violation of an order of the queue or of exclusion
takes two and the third is the one whose entry moves them; two disturbances are enough
for a task to be cancelled in flight and another to be deferred; with `QueueMax = 2` the
third arrival is refused while two rows are queued.  `Liveness` has two tasks in two
lanes that depend on each other, the shortest deadlock.

`Ingestion` has two files (one is shared, the other is what a repair or a deletion makes
of it), a lane of one, two uploads of the same bytes with and without permission, four
conversions and four disturbances: an upload that repairs what another lost while a
conversion is in course takes three.  `Strategies` takes each strategy with one budget
that is exceeded and one that is not, two chunks, two turns, three proposers of two
models, one new conversion and one interruption of each kind that is not bounded by the
code itself.  `Services` has two leases (one crosses the other's reload) with one
renewal each (the code compares its count with that of LARM: equal, or one behind after
a lost answer), four models of which one is pinned and one fits in part, requests that
cover each way of bounding who may read a prompt and each contradiction that refuses
one, a history of two invocations, one reload, a task of each lane with two models to
probe, three callers (one holds the stream, one starts the server, one waits), and two
jobs of maintenance.  The violations are the shortest stories, with the single
disturbance or two they need.

**Deadlock** is not checked in `Ingestion`, `Strategies`, `Services` and `CloudWaits`:
their worlds end when the budget of events is spent and every task has ended.

**Fairness.**  `Broker` (`FairSpec`): weak fairness of each coroutine, of each loop, of
the clock, of the end of a stop and of the next start: asyncio runs every ready task,
the loops poll at an interval, a provider call ends because `wait_for` bounds it, and a
stopped broker is started again by its operator.  `Ingestion`: the same of its loop, its
coroutines (the child process has a time limit, so a conversion is killed in the end),
the handlers that have begun, and the start.  `Strategies`: of the coroutine, which is
dispatched again whenever it gave way.  Nothing is assumed of clients, and no failure,
crash or cancellation is fair.  The events that the environment could repeat without end
(failures, rounds, crashes) are bounded: a machine that never has memory does keep a
task waiting for ever, as `docs/Client_API.md` says.  `NoTaskStranded` therefore says
nothing of a task deferred for memory without end: only that it ends once that stops.

### Where the documents and the code disagree

* **A deferred task passes more urgent ones.**  `docs/Client_API.md:274` and `:774`, and
  the docstring of `defer_task_for_memory`, say that the lower number runs first and
  that a deferred task keeps its place.  The claim has already erased the place
  (`repository.py:372`) and `NULL` sorts first (`:338`).
* **A remote call in flight at an ordered stop is repeated.**  The recovery fails a task
  whose remote invocation is `started`; the finally block of the cancelled lane job has
  closed that row as `ambiguous` before (`coordinator.py:655`).
* **A demotion revives a cancelled task.**  The docstring says the demotion returns
  False for a task cancelled in between; only `kind` is compared.  The flag survives and
  the task is cancelled again at its next claim.
* **Two inference workflows.**  A manual tick looks at the rows only, and starts a
  second workflow while a cancelled one is still at work.
* **A second round can make a task fail.**  The judge between the rounds asks with the
  whole budget of the task, and what it spent is checked outside the fence that protects
  the first round's answer (`coordinator.py:2660`).
* **Calls of the cloud lane wait for local ones.**  The lane has its own claims and its
  own jobs, but the slot of a call depends on strategy and preset only
  (`routing.py:1597`): every single and `auto` meets at a semaphore of one.

### What else came up

Behaviour that no document denies, or that its authors list as open.  The models contain
it, and a property that would be false because of it is stated with the exception.

* A conversion cancelled in mid-flight is overwritten by its own result
  (`ingestion/service.py:665`, O6 in `docs/PENDIENTES_RED_TEAM_2026-10-03.md`).
* The second round takes its cancellation for a failure and delivers the first one's
  answer (`LateCancels` in `CancelEndsRun`); an agent that pauses for its client, or
  finishes, hides a cancellation that came after its last look at the flag, and only
  such a one.
* The budget of an agent is per segment: each pause and each yield starts at zero
  (`SpendingIsBounded` says so), although `docs/Client_API.md:337` calls it hard.
* What a second round that is given up had cost is missing in the result, and so is a
  judge whose verdict escalated a single (`ReportedIsPaid` names both).  A map-reduce
  starts its budget again when documents were converted anew.
* An agent that `auto` chose for a task of the cloud lane is resumed at a place of the
  inference lane: the call that makes room for it (`repository.py:1687`) leaves out
  `kind`.  It may then pass a more urgent task of its own lane, against the comment at
  `:1682`.  `PlacedInOrder` excludes such tasks by `LoopsAskedLocally`, and the requests
  of `Lanes` have none.
* The planner compares the *names* of the models of a wave
  (`resource_scheduler.py:152`): of a local and a remote model of one name, the remote
  one first counts nothing and the local one after it nothing either, so that the wave
  may exceed the memory the docstring at `:128` speaks of. `PlanIsTight` says so
  (`OneSizeEach`).
* The book of leases has no liveness: LARM may grant a lease after the broker gave up,
  and an error of the release that follows is swallowed (`larm.py:846`), so that the
  lease lasts until its TTL.  A reload closes the client of leases in use; a row whose
  release failed stays open until the next start.
* A call cut twice while it waits for the lifecycle's lock leaves its lease behind
  (`CancelAgain`); calls that were given up leave models in memory the broker does not
  count (`stray`); after a reload the idle loop works on a lifecycle nobody uses.
* The look at unfinished work of the idle loop and of the panel is some awaits older
  than the unloading that follows.
* Quarantine falls open before capabilities are looked at: when only an embedding model
  is left outside, a chat is refused (`routing.py:1050`).
* An agent's later turns look at nothing again: after a reload a model may answer from
  another machine (`late` in `BoundaryIsKept`).  A closed request that names only remote
  providers is served by Ollama.  The servers of a closed task are looked at when it is
  admitted (`main.py:637`) and, when it has attachments, at its dispatch
  (`coordinator.py:516`).
* A reload of the limit of a slot leaves the old and the new one side by side.
* The failure of a call to an MCP server kills the process the server has by then, which
  may be a new one.
* A line above asyncio's limit of 64 KiB makes `readline` (`mcp.py:392`) raise a
  ValueError, and an answer of unexpected shape (335, 362) an AttributeError, that
  neither 356 nor 213-225 nor `_ensure_started` catches.  The call leaves its locks with
  the process alive, its answer perhaps unread (`Dropped` in `ChannelIsClean`); the next
  call discards it by its number.  The agent's loop catches `MCPError` only
  (`coordinator.py:1852`), so the failure is not text for the model, as the comment at
  1847 has it; `_mcp_tool_defs` (2096) then offers the tools of no server, and the
  warm-up ends there.  `Strategies` leaves this exception out: a tool of the broker
  always answers there.

## 4. The proofs

### The task engine

`BrokerProofs` begins with the table: per transaction, that it preserves the type of the
rows and what it changes in the columns the invariant reads; in particular that a queue
always has an entry position (a finite non-empty set of numbers has a least and a
greatest one).  Then it proves, for every number of tasks, capacity, timer, set of
requests and budget:

| Theorem | What |
|---|---|
| `TypeIsInvariant` | `Spec => []TypeOK` |
| `InvariantHolds` | `Spec => []IInv` |
| `ActiveRowsAreAlwaysHeld` | `Spec => []ActiveRowsAreHeld` |
| `SingleCancelAlwaysWins` | `Spec => []SingleCancelWins` |
| `LateCallsAreBounded` | `Spec => []AtMostOneLateCall` |
| `FinishedStaysFinished` | `Spec => FinishedIsFinal` |
| `CancelledIsNotRestarted` | `Spec => CancelledStaysDown` |
| `OneInferenceWorkflowAlways` | `Spec => []OneInferenceWorkflow` |
| `LaneCapacityAlways` | `Spec => []LaneCapacity` |
| `InvocationsStayKnown` | `Spec => []InvocationsAreKnown` |
| `InvocationsAreClosed` | `Spec => []InvocationsClosed` |
| `AttemptsStayBounded` | `Spec => []AttemptsAreBounded` |

`PlaceProofs` builds on them:

| Theorem | What |
|---|---|
| `PlacesStayDistinct` | `Spec => []PlacesAreDistinct` |
| `PlacesStayInOrder` | `Spec => []PlacedInOrder`, when `LoopsAskedLocally` |
| `ClaimsPassNobody` | `Spec => PlacedClaimsFollowPriority`, when `LoopsAskedLocally` |

All of them are proved from the assumptions on the constants in `TaskTable` and
`Broker` (they are natural numbers, positive where zero would mean nothing; requests and
deployments are of their types).

**The argument.**  No property is inductive: each speaks of rows, and what a row may
become depends on where its coroutine is.  `IInv` says for each task, in named parts
(`JobIsWhole`, `RunsInItsLane`, `IsHeld`, `FinishedRests`, `SavesItsOwn`, `LateOnce`),
how row and coroutine go together: a finished row has no coroutine that would still
write it, except the handler that may fail it again; an active row has a coroutine in
its lane until the finally block; a single about to be saved shows its cancellation in
the *status*, since the flag is not read again; whoever made a late call has no further
call before it.  The step is proved once for a coroutine that goes on (`GoingIsSound`),
for one that ends (`EndingIsSound`) and for what others do (`OutsideIsSound`,
`ClaimIsSound`, `LifespanSound`), and `StepIsSound` collects them. The lane theorems use
it: nobody enters a lane but by a claim (`NobodyComes`), and the guard of the claim
bounds rows and coroutines *together* because active rows are held.

**Invocations and attempts.**  That a queued row has no open invocation does not follow
from `IInv`, which is silent about `model_invocations`.  `InvocationsAreKnown` adds that
a coroutine keeps its row active as long as it owns it (or somebody cancelled it), and
that an open invocation has a coroutine that will close it, unless a crash took that
coroutine: then the row is finished, or the process is down and the recovery comes
first.  The bound of attempts rests on it and on `IInv`: every step that spends an
attempt is shown to fail the row when it spends the last one (`SpendsWell`), and no step
brings such a row back (`KeepsEnd`).

**Places.**  `StepPlaces` says what any step may do to the queue: rows leave it
(`Thins`), or one row enters at some place while those behind it move back
(`EntersAt`), or somebody renumbers it by hand (`Reorder`), or the process starts
(`Start`).  `EntryPositionFits` shows that the place an entry computes *fits*: behind
everybody who is to stay in front, and in front of the rest; `ThinningKeeps` and
`EnteringKeeps` that the first two keep the places distinct and in order; `ReorderKeeps`
that the third keeps them distinct.  The recovery numbers from 1 again, so that both
properties speak of a process that was never restarted, the order of one whose queue
nobody moved by hand, and `BudgetsShrink` shows that this past is not forgotten.
`PlacesStayInOrder` needs `LoopsAskedLocally` (requests of the other lanes are singles):
otherwise an agent of the cloud lane is resumed at a place of the inference lane
(`repository.py:1687`), which need not fit its own.  `ClaimsPassNobody` adds that only a
claim makes a waiting row active (`OnlyClaimsRoute`): a claim takes the first place, and
with the places in order nobody more urgent stands behind it.

### The leases of LARM

`LarmProofs` proves, for any set of calls and any bounds of faults and revisions:

| Theorem | What |
|---|---|
| `LarmTypesHold` | `LarmSpec => []LarmTypeOK` |
| `LarmInvariantHolds` | `LarmSpec => []LarmInvariant` |
| `LeasesKeepTheBook` | `LarmSpec => BookIsKept`, that is, `LarmLeases` implements `LeaseBook` |

from `LarmAssumption` alone.  **The argument.**  The book allows an entry to be struck
out only when LARM holds nothing for a call that was served.  That is not visible in the
state the book has: a coroutine closes its row after an answer, a timeout or a
cancellation, and whether that is sound depends on where it stands.  `LarmInvariant`
therefore ties three things per call: its place, its row and the lease. 
`RowFollowsCall` says that a call that asks has a row and was not served yet, that one
that uses or releases has its row active, and that nobody is at work while the process
is down, so that the reconciliation is alone with the rows; `LarmFollowsRow` that a call
about to close has nothing left in LARM, and that LARM never knows a call without a row.
`CallKeepsType` and `NextInvariant` prove it per action; `NothingInTheBook`, `Entering`,
`Reserving`, `Serving`, `Striking` and `StayingOpen` say what a change of one call's
variables is in the book, and `NextKeepsBook` gives each action to one of them.

### The ingestion lane

`IngestionProofs` proves, for any files and clients, any capacity of the lane, any rows
an older version left and any number of disturbances:

| Theorem | What |
|---|---|
| `LaneKeepsInvariant` | `Spec => []IngestionInvariant` |
| `LaneIsTyped` | `Spec => []TypeOK` |
| `LaneStaysHeld` | `Spec => []LaneIsHeld` |
| `PendingStaysWanted` | `Spec => []PendingIsWanted` |
| `LocalFilesStayLocal` | `Spec => []LocalStaysLocal` |
| `AttachableStays` | `Spec => ReadyStays`, an action property |

from `IngestionAssumption` and `LegacyAssumption` (what rows of an older version look
like).  **The argument.**  What the lane promises rests on who is *about* to write a
row, and a handler decides that some awaits before it writes.  `IngestionInvariant` says
in named parts that an id is used once, that the handler of an upload knows the file it
found and its permission (`HandlersKnow`, `PermissionIsShared`: hence nothing local is
ever sent), that the event loop is inside the last part of a conversion exactly when it
says so (`LoopIsHeld`), that a row in conversion has its coroutine (`RowsAreHeld`), that
only the latest conversion of a file may be open, and that whatever waits has one, a
handler about to enqueue it, or the next start (`CaredFor`).  Each part is a lemma of
its own with a step per action that can disturb it.

### The strategies

`StrategiesProofs` proves, for any requests, prices, evidence, reduction rounds,
conversions of the documents and interruptions:

| Theorem | What |
|---|---|
| `RouteIsConcrete` | what `auto` chooses is a strategy the coordinator can begin |
| `CoordinatorKeepsInvariant` | `Spec => []CoordinatorInvariant` |
| `ConversationsAreWhole` | `Spec => []ConversationIsWhole` |
| `PartialsMatch` | `Spec => []PartialsMatchChunks` |
| `QuorumIsHeld` | `Spec => []QuorumHeld` |
| `CancelEnds` | `Spec => []CancelEndsRun` |
| `CostIsReported` | `Spec => []ReportedIsPaid`, when `NoneIsNoRecord` |
| `PaidWorkStaysKept` | `Spec => []PaidWorkIsKept`, when `NoneIsNoRecord` |
| `TypesAreKept` | `Spec => []TypeOK`, when `NoneIsNoRecord` |
| `PlansAreTight` | `Spec => []PlanIsTight`, when `NoneIsNoRecord` |
| `SpendingStaysBounded` | `Spec => []SpendingIsBounded`, when `NoneIsNoRecord` |

and `WavePlanProofs`, of the planner alone and for any proposers, sizes, memory and
number of slots:

| Theorem | What |
|---|---|
| `PlanIsLengths` | a plan gives each proposer one place, in waves of the slots there are |
| `PlanKeepsItsPromise` | no wave of several exceeds the memory, where the sizes are known |
| `PlanIsShortest` | a slow mixture with waves has a plan as short as any that fits |

The assumptions on the constants are

* `RequestsAssumption`: a request names a strategy there is, its proposers are a
  sequence, and the evidence is made of recorded cases;
* `CostsAssumption` and `LimitsAssumption`: prices are natural numbers and there is a
  highest one, a limit is a number or `None`, which is none;
* `SizesAssumption` and `PlanAssumption`: sizes, chunks, memory and the bounds are
  natural numbers, and there is a slot.

`NoneIsNoRecord` says that the constant for an empty column is not itself a checkpoint
nor a result: a model value is none, and so is the empty function, which TLC and a
reader may check but no formula about an arbitrary constant implies.

**The argument.**  A promise about a result is one about the places the coroutine may
still be at.  `CoordinatorInvariant` says what the coroutine holds at each place
(`RunShape`: the local variables of the function it is in), that open calls exist only
between a turn and the client (`RunTalks`), that partial answers are all of the
conversion at hand (`RunMaps`), that a synthesis rests on a quorum and that the second
round has put one aside (`RunRests`), and at which places a cancelled run may still be,
and since when (`RunCancelled`).  The same is said of the three checkpoints of the row
(`CheckpointsHeld`), since a run that is taken up is what its checkpoint says. Only a
task that *named* the mixture ever freezes one (`RunIsAsked`): an escalated single and
an `auto` never give way, as `_yield_check` compares the strategy asked for. The ways in
which a step leaves a task are proved once (`Ends`, `GoesOnKeeps`, `YieldsKeeps`,
`CompletesKeeps`), then each strategy sends its steps to them.  `RouteIsConcrete` is
about a CHOOSE: `max` over the rates of the strategies has a greatest element because
their comparison, by cross products, is transitive (`RatesChain`, `BetterChains`).

**The cost.**  The bill is kept by the model; what the code reports is a sum of local
variables, which travel through checkpoints that each strategy writes in its own way.
`MoneyInvariant` says where the money is: what the coroutine has counted is what was
spent (`RunHolds`), and what a checkpoint holds is what was spent when it was written
(`RowHolds`, of the column of the strategy that was `Chosen`; the other columns are
empty).  What the report leaves out, and `ReportedIsPaid` names (a second round given
up, partial answers of an older conversion, what `auto` tried first), is an exception of
the part that loses it.

**Work paid once.**  That no step is paid twice follows when each step paid for lies
*behind* the coroutine (`RunBehind`) and each step kept behind its checkpoint
(`KeptBehind`): `MapBehind`, `TalkBehind` and `MixtureBehind` say what it means for a
chunk, a merge, a turn or a proposal to lie behind a place.  A queued task has only what
was kept, and a resumed coroutine *is* its checkpoint, so that it starts in front of all
of it.  A mixture numbers its proposals by the plan of the waves: a wave begins where
the sizes of those before it end (`Before`), which is in front of every slot of an
earlier wave (`WavesFollow`).  That the plan is a sequence of sizes is proved from its
recursion (`PlanIsLengths`), and that a sum over a longer prefix is the shorter one and
the next term in `SetSums` (`PrefixSums`), both by a smallest counterexample.
`KeptOther` is for a task whose `auto` or escalation changed strategy: what the other
one kept is no step of this one.

**Types.**  Not every type is one of a variable: what the proposers of a wave are, and
how far a list of partial answers may grow, depends on the plan that was made when the
mixture or the map began, possibly before it gave way.  `TypesInvariant` keeps with each
coroutine and each checkpoint that its plan *is* `Plan` of the request (`PlanMade`; only
whether the sizes could be read is open), that no list is longer than its chunks
(`MapTyped`), and that a completed row has its result (`RowTyped`).

**The plan.**  With the plan known to be `Plan`, `PlanIsTight` is about the planner
alone.  `_plan_by_memory` is a fold that opens a wave when the next model does not fit
in the one at hand; `WavePlanProofs` follows the fold one footprint at a time: what it
has counted is what the models of the wave weigh, each once, and a wave is closed only
when it is `Full`, that is, with one proposer more it would exceed the slots or the
memory.  That no plan is shorter is the argument that the first of these waves is never
behind: in any other plan that fits, wave `w` ends no later than here, or it would
contain a full wave and one proposer more, and part of what fits, fits.  So another plan
has to spend at least as many waves before the last proposer.

**The limit.** `SpendingIsBounded` speaks of every moment, and what a call may still
cost depends on what the code believes was spent. `SpendingInvariant` says, at each
place where a call may be made, that the limit is not yet spent, or only just, and how
that counter goes with the bill: from the last time the task was taken up for an agent
(`TalkSpends`), from the last conversion of the documents for a map (`MapSpends`), in
all for a mixture (`MixtureSpends`), which may begin with less because a single was
escalated. In a wave several calls are paid from one remainder, each allowed a share of
it: `WaveSpends` says that what was spent and the shares of those still out stay within
the limit, multiplied by the size of the wave to avoid the quotient, and `ShareIsSpent`
that an answer within its share leaves the others theirs. `RoomOfAWave` is the
arithmetic of the second round, whose limit has lost the first round's cost once and
whose spending counts its proposals again: it may only be stricter. The judge between
the rounds is asked with the whole limit, and so is each call of a map-reduce: hence
twice the limit and no more, for a map-reduce once for every conversion.

### The services

`ServicesProofs` proves of `Services`, the specification that the run checks:

| Theorem | What |
|---|---|
| `CopiesKeepInvariant`, `StateStaysOne` | `[]BackupInvariant`, hence `[]StateIsOne` |
| `SlotsKeepInvariant`, `ProbesAlwaysGiveWay` | `[]SlotsInvariant`, hence `[]ProbesGiveWay` |
| `ChannelKeepsInvariant`, `ChannelStaysClean` | `[]ChannelInvariant`, hence `[]ChannelIsClean` |
| `RoutingKeepsInvariant`, `BoundaryStaysKept` | `[]RoutingInvariant`, hence `[]BoundaryIsKept` |
| `ResidencyKeepsInvariant`, `MemoryStaysHeld` | `[]ResidencyInvariant`, hence `[]MemoryIsHeld` |
| `ServicesKeepTheBook` | `Spec => LarmSpec`, hence `BookIsKept` |
| `ServicesKeepTypes` | `[]TypeOK`, from the typed part of each invariant |

`PartsMove` takes a step of all apart: it is a step of one service, and the others stay
as they are.  The assumptions are those of each service: its parameters have their
types, models and calls are finite, the names that mean "nobody" are nobody's, and in
`RoutingAssumption` that a model which a reload may move is of none of the providers
whose models never move (Ollama, DeepSeek, LARM).

* **Copies.**  `StateIsOne` speaks of what a job *will* leave.  `BackupInvariant` says
  for each stage what is restored already (`Replaced`), that what was found is either in
  place or in the undo list, and in it once (`Undoable`, `Found`), and that a job which
  found no marker found one version (`Marked`).
* **Slots.**  The danger is two tasks apart: a task that proceeds and a probe that was
  chosen before it came.  `SlotsInvariant` excludes the pair from the moment the task
  begins to look, which is what the order of the code's two looks gives.
* **Channel.**  `ChannelInvariant` has the holders of the two locks, which process is at
  hand at each place, that every answer owed or unread by a living process is that of
  somebody who awaits it, fails, or left without a handler, and that whoever reads is
  still owed its answer or has it in the stream (`IsOwed`).  A process ready for a call
  has nobody left but the last kind.
* **Routing.**  Each way in which a prompt is read is shown to stay within the boundary
  (`CallWithin`, `TurnWithin`, `ToolWithin` and the like); what they need is that the
  request was not refused at the door and that whoever it was given to is the one it
  fixes (`RequestIsKept`).
* **Models in memory.**  `MemoryIsHeld` is a sum over a set, which the community module
  computes by recursion.  `SetSums` proves from that recursion that a function
  of subsets exists which takes any element apart (`SumsTake`), grows with its argument
  (`SumsGrow`) and adds up over disjoint sets (`SumsAdd`), by a smallest counterexample
  in place of induction.  `PlansFit` is the arithmetic of `plan_offload`: what the
  layers on the GPU take is within the budget.  The invariant then counts the calls with
  a lease against `_leases`, says that `_reserved_sizes` is the size of what is leased,
  and that the lock is of the admission at hand or of an idle round that began without
  leases: so an admission adds to a sum it has just looked at (`AdmitKeeps`), and no
  eviction, round or last lease takes a model from a call (`BorrowedAreLeased`).

TLC checked `IngestionInvariant`, the five invariants of the strategies
(`CoordinatorInvariant`, `MoneyInvariant`, `PaidInvariant`, `TypesInvariant`,
`SpendingInvariant`) and the five of the services on the instances of the runs before
they were proved, the last of the strategies on dearer calls and longer waves too.  Some
of those checks, and some proofs, changed a model or a property: what a router-chosen
task may spend had been bounded by twice the limit, which an agent whose last call costs
more than the limit exceeds; a plan had been held to the memory although two models of
one name may differ in size; the routing of a request that fixes a model *and* names its
proposers (a manual mixture with `fallback_allowed` false, `coordinator.py:3451`) gives
it to the named ones, so that `BoundaryIsKept` holds the fixed model only against
requests that name none; the constants that mean "nobody" had to be told apart from
the rest.

### What is only model-checked

The liveness properties (`NoTaskStranded`, `DependencyWaitEnds`, `CancelIsHonoured`,
`UploadsEnd`, `WorkflowEnds`), since fairness and ENABLED are beyond the proof system.
Every safety property that a passing run checks is a theorem; `PlacedInOrder` only under
`LoopsAskedLocally`, without which it is false, and `PlacedClaimsFollowPriority` with
it.

## 5. Plan

*Done*: the task engine, the ingestion lane and the services, with every safety
invariant that the runs check proved; the control of the strategies, their types,
their plans, what they report and what they may spend among them; the book of leases and
its refinement.

*Next*, in this order:

1. `TaskOwnership`, an abstract specification of who may write a row and when, which the
   inference lane implements and the ingestion lane does not (its last write).
2. Proposers with skills and tools, as agents inside a wave; the ingestion lane in the
   numbering of places of `TaskTable`.
3. The failure of the handlers' own database calls (`dispatcher.py:42`).

### Not modelled

Dashboard pages and forms, parsing of the configuration, prompts, HTTP dialects of the
providers, the catalogue's enrichment, statistics and reports, logging: layout, I/O and
data rather than control.  Their effects on the control are parameters of the models: a
call's ways to end, a request's attributes, a model's abilities, the limits of a lane.
`classification` and the compression of prompts are pure functions over strings.
