# TLA+ verification of agent-c

agent-c runs language-model agents. Its centre is `agentd`, a C++ daemon that
executes runs, keeps them in SQLite and serves an HTTP API; around it are a Go
broker, a C core library, a CLI and a React WebUI. This directory models the parts
of the daemon where several threads share a durable row, the parts of the WebUI where
callbacks, effects and reloads share the page's state, and the message queue of the
memory worker kept under `ref/claude-mem`. TLC checks the models on small instances;
what matters most is proved with TLAPS.

| file | role |
|---|---|
| `JobStore.tla` | the `jobs` table and the in-memory job map, as operators |
| `JobRecord.tla` | what async jobs promise a client: one atomic record per job |
| `Jobs.tla` | async jobs: run_async, JobEngine, heartbeats, cancel, delete, GC, drain, crash |
| `JobStream.tla` | progress events: window, SSE stream, polling, WebUI hooks |
| `Workflow.tla` | one durable workflow: passes, claims, execution, finalisation, cancel, crash |
| `EventFeed.tla`, `SessionEvents.tla` | the WebUI's session event stream: what it promises, and what it does |
| `PromptQueue.tla` | the WebUI's prompt queue, sessions and reloads |
| `MemQueue.tla` | the memory worker's message queue and generators |
| `MC*.tla`, `MC*.cfg` | the instances TLC checks |
| `JobsProofs.tla`, `JobStreamProofs.tla`, `WorkflowProofs.tla`, `SessionEventsProofs.tla`, `PromptQueueProofs.tla`, `MemQueueProofs.tla` | theorems and proofs |
| `PROJECT.json` | components, map to the source, runs, mutants, findings, hazards, theorems |

Paths below are relative to the repository (`src/` in `PROJECT.json`).

## Inventory

### Async jobs (modelled: `JobStore`, `JobRecord`, `Jobs`)

*State.* A row of the `jobs` table (status, cancel_requested, request_json, result),
an entry of the in-memory map `g_jobs`, the local state of every thread, and the
drain flag.
*Operations.* `POST /run_async` inserts the entry and the row and detaches a thread
that runs the job (`run_endpoints.cpp`). JobEngine workers list queued rows, claim
one and run it (`job_engine.cpp`). Each run has a heartbeat thread that upserts the
row (`run_request.cpp`). `POST /job/cancel` and `/job/delete` (`job_endpoints.cpp`),
GC (`job_manager.cpp`), OTA drain, startup recovery (`agent_db_jobs.cpp`).
*Interaction.* Only through the row and the entry. Each store has its own mutex, and
no operation holds both, so every pair of calls can be interleaved.
*Hard.* Two kinds of executor for one row; rows written back from old copies;
heartbeats after the end; death between any two writes.
*Correct if* a finished row never changes its verdict, verdicts come from
executions or requests, no settled or cancelled job is resumed, a running row has
an owner, and every job settles.

### Job progress (modelled: `JobStream`)

*State.* The window `events`/`events_offset` of the in-memory job, a cursor per
stream, the bytes on the wire, the WebUI's cursor, list and saved cursor.
*Operations.* Append and cut, snapshot of a slice (`job_manager.cpp`), the stream's
loop (`job_stream_endpoint.cpp`), stream, polling, watchdog, save and reload
(`useJobStreaming.ts`, `useRunWatchState.ts`).
*Hard.* Cursors into a window that moves; a connection that breaks with events on
the wire; a job that disappears (GC, delete, restart) while it is watched.
*Correct if* a cursor always means the same event, the page shows each life's events
in order and without gaps, and it stops waiting.

### Durable workflows (modelled: `Workflow`)

*State.* The `workflows` row (status, cancel_requested, error), one `workflow_tasks`
row per task (status, attempt, ready time), and per worker the copies of both that
it works on.
*Operations.* A pass lists the workflow and its tasks and then sweeps them, claims
one or finalises (`workflow_engine_pick.cpp`); `execute_claimed_task` runs the task,
persists the outcome or requeues it; `maybe_finalize_workflow` settles the workflow
(`workflow_engine.cpp`); `POST /workflow/cancel` (`workflow_admin_endpoints.cpp`).
*Interaction.* Through the two tables only. One `AgentDb` call is atomic; between two
calls everything is a copy, and `upsert_workflow` writes the whole copy back.
*Hard.* Stale whole-row writes, sweeps over claimed tasks, retries, deadlines that
pass in mid-step, budgets, crashes.
*Correct if* a task has one worker, starts only after its dependencies, is never run
again once its outcome is persisted, the verdict is one the executions or a request
account for, and the workflow settles.

### WebUI: session event stream (modelled: `EventFeed`, `SessionEvents`)

*State.* Per page: session, active job, `persistedRef` (cursor and the last 200
events), `liveEvents`, the stream loop; shared by the pages of a browser: localStorage.
*Operations.* `useSessionEventStreaming.ts`: two effects, the loop that connects with
`Last-Event-ID`, its callback, its cleanup. Session switches, runs and the job hooks
change session, job and `liveEvents` from outside.
*Hard.* A callback that runs after its loop was cancelled; the time between a
set-state and its effects; two pages saving under one key; replays and breaks;
events without an id, which are neither deduped nor move the cursor.
*Correct if* a buffer holds one session's events, those with an id without gap or
repetition, a page reads event by event, shows its own session, and catches up.

### WebUI: prompt queue (modelled: `PromptQueue`)

*State.* `runQueue`, `activeJobId`, the session, the pending mutation,
`dequeueInFlightRef`, what localStorage keeps, the requests on their way.
*Operations.* Queue or send a prompt, the dequeue effect, `onSuccess`, `onError` and
the catch that puts a prompt back (`useRunExecution.ts`), save
(`useLocalStorageState.ts`), session switch, reload, lookup of a remembered job.
*Hard.* Callbacks read what was rendered, not what is; a prompt leaves the queue
before its answer; the queue's key changes under it.
*Correct if* no prompt gets lost, repeated or overtaken, and the queue drains.

### Memory worker: message queue (modelled: `MemQueue`)

*State.* The `pending_messages` rows of a session, its session objects (the one in
the map and those a generator still holds), their generators, the routes' two guards.
*Operations.* Enqueue, claim with self-healing, confirm (`PendingMessageStore.ts`),
the iterator with its idle timeout (`SessionQueueProcessor.ts`), make and delete a
session (`SessionManager.ts`), start, end, restart and fall back
(`worker-service.ts` and the session routes), answers (`ResponseProcessor.ts`).
*Hard.* Two starters of generators with different ends; abort signals of replaced
controllers; a session deleted while a generator restarts; the iterator a failed
Claude query leaves behind; crashes.
*Correct if* a message is given out once, leaves only after it was given out (or was
claimed by such an iterator, an exception the code has), and is looked at as long as
it is pending.

### Not modelled yet, or not at all

| part | why |
|---|---|
| Workflow schedules, submit's idempotency key | planned next |
| Approvals and policy hooks | planned: decision against timeout |
| Edge tasks, outbox, leases, deadline sweeper, edge consensus | planned |
| Broker registry, relay, idempotency, event hub | planned |
| Team runs, orchestrator runs, spawn requests | planned: revisions as compare-and-set |
| Core session compaction, SSE parser | planned as pure algorithms |
| Run pipeline (`run_request*.cpp`) | model and tool I/O; a run is its outcome, cancel check and heartbeat |
| Codecs, hashes, signatures | byte-level, out of TLC's reach |
| WebUI conversation RPC, team chat and its queue, broker control state | planned: answers out of order |
| WebUI pages, API clients, rendering | layout, formatting, typed wrappers of fetch |
| Memory worker apart from its queue (`SessionStore`, `SearchManager`, hooks, viewer, installers, bundles) | upstream code (`docs/VENDORED.md`): queries, formatting, setup |
| Voice, memory, tool servers, HTTP plumbing, CLI | I/O, data processing, sequential clients |

By far the most TypeScript in the repository is of the last kinds: components that
render, wrappers that fetch, and the vendored worker with its generated bundles. A
state machine of them would say nothing, so the map stays a small share of those
lines, and the daemon's C++ carries most of what is modelled.

## How the models correspond to the code

One action is one locked section: a call of `AgentDb` (it holds `mu_`) or of
`job_manager` (it holds `g_jobs_mu`), together with the local computation up to the
next call. A `pc` per thread says which call is next. The map in `PROJECT.json`
names the lines of every action.

**`JobStore`** gives each SQL statement as a function from table to table. `upsert_job`
keeps the CASE expressions of the statement: a terminal status sticks,
`cancel_requested` only grows, an empty status is stored as `queued` on insert and on
update of an unfinished row.

**`Jobs`** has one program counter for a request's handler and its detached thread
(`Accept`, `CreateJob`, `PersistStub`, `StartThread`, `PersistRunning`), one for each
worker (`ListQueued` ... `MarkRunning`), and shared actions for what both do
(`RunEnds`, `SetResult`, `PersistResult`, heartbeats). An admin request reads the row,
changes the entry and writes the row in three steps. `Crash` keeps only the table;
`Start` applies `recover_inflight_jobs_resumable`. History variables record what was
asked for, acknowledged, produced and persisted, so that properties can speak of the
past. `JobRecord` is the abstract specification, without threads, copies and the
in-memory map: a job is absent, open or has a verdict, and a write never takes a
verdict, a cancel or a result back nor brings one that nobody accounts for. The
refinement maps a row to its record; queued and running are both open, so a claim is
a stuttering step, and a recovery at most gives open jobs up.

**`JobStream`** follows one job through its lives (one per restart). An event is its
life and its number in it, which makes "in order, without gaps" a statement about
numbers. `StreamTurn` is one turn of the stream's loop: snapshot, reset, labelled
events, `job_done`.

**`Workflow`** follows one workflow. `seen`, `list` and `left` are a worker's copy of
the workflow row, of the task rows and of what it still has to try. `Verdict` is the
decision of `maybe_finalize_workflow`; `FinalizeGet`, `FinalizeList` and
`FinalizePut` are its three database calls. `Runnable` and `DepOk` are the dependency
test, `can_claim` the condition of the claiming transaction.

**`SessionEvents`** has React's semantics: a set-state changes what is rendered
(`session`, `job`), the effects of that render come later (`Effects`, enabled while
`seen` differs), and the old loop goes on until then. `late` is an event a cancelled
loop has read and whose callback is still to run. What the server does with a cursor
is external: it goes on after it, or repeats that event, as the resume test
(`ui/e2e/broker_codexw_session_events_resume.spec.ts`) has it. Events without an id
have number 0: `DeliverBare` sends one at any time, new or repeated, and
`appendSessionStreamEvent` appends it unseen and keeps the cursor. `EventFeed` is the
abstract specification. It has what the browser saves, what each page is to show and
what it has open, with its cursor. A page that has a cursor reads exactly the event
after it; it opens a session only when it was moved, and then at the saved cursor. The
refinement maps `storage`, the rendered session and job, and `seen` with `ref` to these.

**`PromptQueue`** separates what was last rendered (`r`) from the state. `Render` is a
render with its effects: save, lookup of a remembered job, dequeue. A request on its
way is a *flight*; its answer runs even when another mutation is observed by then.

**`MemQueue`** follows one session. What a handler does up to its next await is one
action. A generator lives in the session object that started it (`on`), with the
object its iterator was made from (`it`), which differs after a deletion; `cut` and
`loose` say whether its signal is aborted or belongs to a controller that was
replaced. `strays` are the iterators of Claude queries that failed. Nothing returns
the generator given to `query()`, and the worker's restart replaces the controller
without aborting it, so such an iterator goes on waiting on its object's emitter. When
woken it claims a message and has the object track it (`StrayPull`). The SDK, external
and seen only in the bundle, then writes that message to the closed process; the write
throws, which returns the iterator, so each claims one message at most. Its idle timer
aborts the controller the object has by then (`StrayIdle`). A query that fails before
its iterator was made leaves none, and Gemini and OpenRouter return theirs when they
throw, because they loop over it themselves. The session routes exist only in the bundle
`plugin/scripts/worker-service.cjs`. `setFallbackAgent` is never called, so Gemini
and OpenRouter do not fall back to Claude. An assistant message answers the oldest
unanswered prompt.

Abstractions, all modules:

- Payloads, texts, ids, priorities and times are dropped or reduced to what a
  guard reads: "the request could be persisted", "the deadline has passed",
  "the backoff is over".
- A database write never fails and a read never returns an error.
- Workflow: other workflows, session limits and the weighted round-robin decide
  only which pass comes next; passes come in any order. The order in which a pass
  tries tasks is left open. A drain is a worker that does not start a pass. The clock
  and the first list of a pass are read together. The result text of a terminal
  workflow may or may not differ from the stored one.
- Budgets: whether one is used up is a free choice once something was executed.

## Runs

| run | bounds | what it shows |
|---|---|---|
| `jobs` | 1 job id, 1 request slot, 2 submissions, 1 worker, cancel and delete, 1 crash | `TypeOK`, `OutcomeWitnessed`, `TerminalSticky`, `NoResumeAfterSettled`, `ActsAsRecord` |
| `jobs_live` | 1 submission, cancel, 1 crash, 1 drain | `NoOrphan`, `JobSettles` |
| `jobs_double` | 1 submission, 1 worker, no crash | finding: `NoDoubleRun` is violated |
| `jobs_interrupt` | same | finding: `InterruptedOnlyAtStart` is violated |
| `job_stream` | window 2..3, slice 2, 6 events, 2 lives, 2 breaks | `TypeOK`, `WindowFaithful`, `ShownInOrder`, `PageFinishes` |
| `workflow` | 3 tasks (c after a and b; a twice, b may fail), 2 workers, 1 cancel, deadline, budgets | `TypeOK`, `OneWorkerPerTask`, `VerdictWitnessed`, `DepsFirst` |
| `workflow_live` | same tasks, c an aggregate, 1 crash, no request to stop | `NeverRerun`, `WorkflowSettles` |
| `workflow_deadline` | deadline only | finding: `SettlesWithTasks` is violated |
| `session_events` | 2 pages, 2 sessions, buffer 2, 2 and 1 events, 1 move, 2 breaks or events without an id | `TypeOK`, `BuffersAreWindows`, `SettledView`, `ReadsAsFeed`, `CatchesUp` |
| `prompt_queue` | 2 sessions, 2 queued and 2 direct prompts, 2 faults | `TypeOK`, `NothingLost`, `RunsOnce`, `SubmittedInOrder`, `QueueDrains` |
| `mem_queue` | 2 messages, 2 faults, 3 of both together, 2 prompts unanswered, 1 restart in a row, Claude and Gemini, fallback Gemini | `TypeOK`, `HeldOnce`, `GoneWasHanded`, `Attended`, `Drains` |
| `mem_queue_confirm` | Gemini, 1 fault | finding: `ConfirmsTheAnswered` is violated |

*Why these bounds.* Jobs do not interact, so one id suffices; two submissions reuse it
after GC; one worker and one request thread are the two kinds of executor. In the
stream, six events cut a window of three several times and leave a cursor before,
inside and at the end of it; two lives are one restart. In the workflow, two workers
give every pair of concurrent passes, three tasks give a join with two
branches, a retry, and a soft failure. In the session stream, two events and two
without an id overflow a buffer of two and push the cursor's own event out of it, and
one switch, run, reload or change of credentials against two breaks meets every phase
of both pages. In the prompt queue, two queued prompts can be overtaken and two
faults are a lost answer and a reload, or two switches. In the memory worker two
messages can be claimed while one is unanswered; two faults exhaust one allowed
restart, or let a deletion meet a crash; only a fault removes a session object, so
`MaxFaults + 1` objects are always enough. The theorems below have no bounds.

*Deadlock* is not checked: when all work is done, or the bounds are used up, the
system rests.

*Fairness.* `jobs_live`: each thread that has a step keeps taking steps, runs end
(model and tool calls have timeouts), the drain ends (its wait has a timeout), and a
supervisor restarts the daemon. `job_stream`: the run ends and is persisted, queued
jobs are resumed, the stream's thread and the page keep going; neither the watchdog
nor the cursor's timer is needed. `workflow_*`: workers loop for ever
(`worker_main`), requests are answered, deadline and backoffs pass, the
daemon is restarted. `session_events`: the browser runs effects and timers,
connections are answered and deliver, an active job's end is noticed; breaks are
bounded, as in every network that works in the end. `prompt_queue`: *some* step of
render, daemon, answers and job hooks happens while one can. `mem_queue`: an agent
pulls, answers or returns, timers fire, the worker is started again; agents need not
fail, and idle timers need not fire. Fairness is always weak and always per thread: no thread is
promised to win a race.

*What the passing runs do not claim.* `NoOrphan` is checked and proved without
job/delete: a cancel that read the row before a delete re-inserts it as running.
`WorkflowSettles` is checked without cancel, deadline and budgets, because with any
one of them it does not hold (next section). `ShownInOrder` compares events of one life:
after a restart a cursor of the old life may skip the first events of the new
one. `VerdictWitnessed` lets a workflow be `done` after a cancel was requested: the
code may lose the cancel to a stale write, and cancellation is best effort.
`NothingLost` and `RunsOnce` except what a reload catches unsaved or on its way and
a request whose answer was lost: the page cannot know. A queued prompt that the
daemon refuses is dropped, and after a switch the queue runs in the new session.
`BuffersAreWindows` does not bound how often an event without an id is held: a replay
appends it again. `GoneWasHanded` excepts the messages that the iterator of a failed
Claude query claimed: its object tracks them like any other, so the next answer deletes
them although no agent saw them. `HeldOnce` excepts messages that were self-healed.
`Attended` and `Drains` except rows that the code leaves until the next message or
start (`left`): a generator was told to stop with rows left (an abort, the restart
limit, an unrecoverable error); the timer of the routes found no session in the map, or
one whose generator waits; or the iterator of a failed query claimed one stale row and
made others pending again, which wakes nobody. They also except rows that wait while the routes are *misled*: their guard
`spawnInProgress` is set for a generator that does not serve the session in the map.
It takes two generators of one session, one of them restarted while its session was
being deleted. When that one fails for good, `removeSessionImmediate`
(`worker-service.ts`) removes by session id, and so takes out the object the routes
started theirs for. The next message makes a new object, and the routes start nothing
for it until their generator ends. The attempt to prove `Attended` found this state.
The run's three messages and faults with a fallback to try first do not reach it;
TLC does with two of each and no fallback. That a session has at most one generator is not claimed: a deletion that
awaits a generator started by the recovery can leave a second one behind.

### Where code and documents disagree

1. `jobs_double`: `job_engine.h` says a job may run twice if the daemon dies.
   It may also without a crash: the stub is `queued` before its own thread marks it
   running, and a worker claims it in between.
2. `jobs_interrupt`: a job too large to persist "remains runnable in the current
   process lifetime" (`run_endpoints_internal.cpp`). A worker that sees its stub marks
   it interrupted at once, and that status sticks.
3. `workflow_deadline`: "When all tasks become terminal, the workflow becomes
   terminal" (`docs/WORKFLOWS.md`). Two finalisers race: the one with the older task
   list writes `running` over `cancelled`. From then on a pass finds nothing queued and
   a row already marked, so nothing changed and it does not finalise.
   A cancel that read the workflow just before it was settled leads to the same
   state (`workflow_admin_endpoints.cpp`: the stale row is written back), and so does
   a budget that runs out while an older finaliser is about to write.
4. `mem_queue_confirm`: a message must be confirmed only after its own answer was
   stored (`PendingMessageStore.ts`, `GeminiAgent.ts`). The ids to confirm stay on the
   session object when a generator fails or an answer is empty, and the next answer,
   even to the initial prompt, deletes those rows. A message that the iterator of a
   failed Claude query claimed is deleted the same way.

## Proofs

All theorems hold for every value of the constants that satisfies the ASSUMEs of the
modules: any number of jobs, requests, workers, tasks, crashes; any dependency
graph.

| theorem | statement |
|---|---|
| `JobsProofs!TypeCorrect` | `Spec => []TypeOK` |
| `JobsProofs!TerminalStatusIsSticky` | `Spec => TerminalSticky` |
| `JobsProofs!NeverResumedAfterSettled` | `Spec => NoResumeAfterSettled` |
| `JobsProofs!RunningHasOwner` | no deletes: `Spec => []NoOrphan` |
| `JobsProofs!OutcomesAreWitnessed` | `Spec => []OutcomeWitnessed` |
| `JobsProofs!JobsImplementRecord` | `Spec => ActsAsRecord` (refinement of `JobRecord`) |
| `JobStreamProofs!WindowIsFaithful` | `Spec => []WindowFaithful` |
| `JobStreamProofs!StreamTypes` | `Spec => []TypeOK` |
| `JobStreamProofs!EventsShownInOrder` | `Spec => []ShownInOrder` |
| `WorkflowProofs!TypeCorrect` | `Spec => []TypeOK` |
| `WorkflowProofs!TaskHasOneWorker` | `Spec => []OneWorkerPerTask` |
| `WorkflowProofs!NeverRunAgain` | `Spec => NeverRerun` |
| `WorkflowProofs!VerdictIsWitnessed` | `Spec => []VerdictWitnessed` |
| `WorkflowProofs!DependenciesFirst` | `Spec => DepsFirst` |
| `SessionEventsProofs!FeedTypes` | `Spec => []TypeOK` |
| `SessionEventsProofs!BuffersStayWindows` | `Spec => []BuffersAreWindows` |
| `SessionEventsProofs!SettledPagesShowTheirOwn` | `Spec => []SettledView` |
| `SessionEventsProofs!StreamImplementsFeed` | `Spec => ReadsAsFeed` |
| `PromptQueueProofs!QueueTypes` | `Spec => []TypeOK` |
| `PromptQueueProofs!PromptsNeverLost` | `Spec => []NothingLost` |
| `PromptQueueProofs!QueuedRunOnce` | `Spec => []RunsOnce` |
| `PromptQueueProofs!QueuedRunInOrder` | `Spec => SubmittedInOrder` |
| `MemQueueProofs!MemTypes` | `Spec => []TypeOK` |
| `MemQueueProofs!MessagesHeldOnce` | `Spec => []HeldOnce` |
| `MemQueueProofs!GoneOnlyAfterHanded` | `Spec => []GoneWasHanded` |
| `MemQueueProofs!PendingAttended` | `Spec => []Attended` |

**Jobs.** Lemmas say what each store operation keeps; `StepsOfTheTable` shows that
every step but a delete is one of a few table updates, and `TableMonotone` that these
keep a terminal status and a stored cancel. Stickiness follows. For
`NoResumeAfterSettled` the history must be tied to the row: `SettledInv`, what was
settled or acknowledged is still visible in the row. `NoOrphan` needs most: an
upsert of "running" may come from a heartbeat or a cancel that read the job long
before. `OwnerInv` therefore tracks the owner of everything in flight: the entry, the
row a cancel holds, the request text of listed and claimed rows.

**Jobs, truth.** `OutcomeWitnessed` speaks of the table and the map, but both are
written from copies. `WitnessInv` says the same of every copy: rows a worker listed,
the row a cancel holds, the outcome of an execution that is not persisted yet, the
flag a heartbeat is about to write. It is inductive because the history only grows
(`HistoryGrows`). `WritesAreTold` sums up the steps: the table is changed by an upsert
of a witnessed update, a claim, a delete or the recovery. With `TableMonotone` that is
also the refinement: an upsert is one `RecordWrite`, which keeps what the record has
(`Keeps`) and brings only what is witnessed (`Founded`).

**Window.** `WindowInv` adds that an absent job has no window; without it the first
event of the next life would be numbered wrongly. `ExcessBounds` and `LastShifts` say
what a cut removes.

**Stream.** `ShownInOrder` compares neighbours of the page's list, and events reach it
from a snapshot over a connection. `StreamInv` follows them. The window holds
consecutive numbers (`WindowInv`). Each message on the wire takes up where the ones
before it leave the page's cursor, and as long as the connection is open the server's
cursor is where the whole wire leads (`WireInv`: `Linked`, `Pos`). The page's list is
consecutive, across lives too, and ends right before its cursor (`ShownInv`).
`QueuedInv` is needed for the types: only a restart queues the job, and it leaves room
for another life.

**Workflow, owners.** `OneWorkerPerTask` alone is not inductive. `OwnedRow` adds that
the row of a task in execution says running, or cancelled if a sweep overwrote it: it
never says queued, so nobody can claim it. `SettledRow` adds that a persisted outcome
keeps the row terminal. `StepsOfOwners` sorts the steps into kinds (nothing, a
sweep, a claim, a hand-over, a crash, a recovery), and the invariant is proved per
kind.

**Workflow, truth.** `HonestInv` says that the tables, *every copy of them*, and
the place each worker is at say only what the history supports. Stale writes are
harmless for such a statement because history only grows (`HistoryGrows`,
`RowsStay`, `WfStays`): what was true when it was read is still true when
it is written back. `VerdictTrue` shows that a verdict reached from true copies is
true, even when row and list are of different times. `VerdictWitnessed` and
`DepsFirst` follow.

**Session events.** `BuffersAreWindows` needs to know where the server goes on:
`PageInv` adds that a loop runs only for a session without a job, and that a live
stream's next event is the cursor's or the one after it, so that the dedupe by id, which
only looks at the buffer, is enough. `RunUpTo` is the shape of a buffer: numbered events
in a row up to the cursor, others anywhere between. `RunGoesOn` says which events keep
it, `EndOfRun` that a cut does; the cursor's event comes twice only when the buffer has
lost it, and then it has lost every numbered one.
`SettledView` needs the same statement for the session and job the effects last ran
for (`~seen[t].job`), because a job's end is rendered before its effects run.
For the refinement, every step maps to a publication, a read, a save, a move, an
opening, a closing or nothing. `FeedInv` supplies that a page with a stream has no job
open, that an event that is not dropped is the next one or the cursor's again, and that
no event is read before it was logged.

**Prompt queue.** `NothingLost` alone does not survive a reload, which replaces the
queue by what localStorage holds. `QueueInv` adds `Saved`, that the store of the saved
session holds the queue as it was last rendered (or, before the first render, as it
is), and `FlightOk`, that an accepted request is among the runs, that one nobody
listens to any more is only on its way, and that a prompt that was not queued is not
one of the numbered ones. What a reload drops is then exactly what it excuses.
For `RunsOnce` and `SubmittedInOrder`, `OrderInv` adds that the queue is ascending, in
the state and as rendered, and that at most one dequeued prompt is out, before
everything still queued (`QueueOrder`); that what is queued or out has not run unless
an answer was lost (`NotRunYet`); and that whatever comes before a request on its way
has run, was refused or was lost to a reload (`InTurn`).

**Memory queue, messages.** `MessagesInv` adds what the claim and the answers rely on:
the ids an object will confirm were handed out or claimed by a stray (`TrackedInv`), a
message an agent holds is not pending unless it was self-healed (`HeldNotPending`),
rows that were not inserted do not exist (`InsertedInv`), and a worker that is down
holds nothing and has no strays (`DownInv`), which is why the reset of rows at a start
gives nothing out twice.

**Memory queue, attention.** A message wakes only the session object in the map.
`AttendInv` adds `IterInv`: the generator of that object iterates over that object, and
only an iterator waits. A recovery to come counts only while the session in the map
has no generator (`Unserved`), because the recovery skips a session that has one. A
stray changes no generator: it makes rows pending only by self-healing, which sets
`left`, and its idle timer only makes a waiting generator go on.

**Only model-checked.** Liveness (`JobSettles`, `PageFinishes`, `WorkflowSettles`,
`CatchesUp`, `QueueDrains`, `Drains`), which the prover cannot express under fairness.
Every invariant, action property and refinement that a passing run checks is also a
theorem.

## Plan

1. Proofs: an abstract specification of the workflow (each task once, in order, one
   verdict) that `Workflow` implements, and one of the memory queue (handed out at
   least once, then gone).
2. WebUI: the conversation RPC executor and the team queue.
3. Workflow schedules (due time, claim of a schedule, crash between submit and
   record) composed with `Workflow`'s submit and its idempotency key; database write
   failures in `Jobs`.
4. Broker: request/response correlation in the registry, reconnect, idempotent
   replay, bounded event queues. Abstract specification: at most one effect per key.
5. Team and orchestrator runs: revisions as compare-and-set, cancel against
   completion. Approvals: decision against timeout. Edge tasks: late and repeated
   reports against the deadline sweeper.
6. Pure algorithms: session compaction and incremental SSE parsing against a
   reference definition.
