------------------------------ MODULE Workflow -------------------------------
(***************************************************************************)
(* One durable workflow of agentd: a graph of tasks in two SQLite tables,  *)
(* driven by the WorkflowEngine's worker threads.                          *)
(*                                                                         *)
(*   - A worker's pass (workflow_engine_pick.cpp) lists the workflow, then *)
(*     its tasks, and sweeps them, claims one, or tries to finalise.       *)
(*   - A claimed task is executed (workflow_engine.cpp) and its outcome    *)
(*     persisted; maybe_finalize_workflow then settles the workflow.       *)
(*   - POST /api/v1/workflow/cancel (workflow_admin_endpoints.cpp).        *)
(*   - The deadline passes, a retry's backoff ends, the daemon dies and    *)
(*     recovers.                                                           *)
(*                                                                         *)
(* Each call of AgentDb is one step: it holds AgentDb::mu_, and everything *)
(* between two calls works on copies.  upsert_workflow and                 *)
(* upsert_workflow_task overwrite the whole row with such a copy.          *)
(*                                                                         *)
(* Left out: other workflows (priorities and session budgets only decide   *)
(* which pass comes next), the order in which a pass tries tasks, and a    *)
(* drain, which is a worker that does not start its next pass.             *)
(***************************************************************************)
EXTENDS Naturals, FiniteSets

CONSTANTS Tasks,        \* task ids
          Deps,         \* [Tasks -> SUBSET Tasks], depends_on
          AllowError,   \* tasks with allow_error
          Aggregates,   \* tasks of kind "aggregate"
          MaxAttempts,  \* [Tasks -> Nat], max_attempts
          Workers,      \* worker threads (Options::max_concurrency)
          MaxInflight,  \* Options::max_inflight_per_workflow, 0: no limit
          Clients,      \* workflow/cancel requests in flight
          HasDeadline,  \* deadline_unix_ms is set
          HasLimits,    \* the spec has budgets that may be used up
          MaxCancels,   \* bound: workflow/cancel requests
          MaxCrashes    \* bound: daemon deaths

NoTask == "none"

ASSUME GraphAssumption ==
    /\ Tasks # {} /\ IsFiniteSet(Tasks) /\ NoTask \notin Tasks
    /\ Deps \in [Tasks -> SUBSET Tasks]
    /\ AllowError \subseteq Tasks /\ Aggregates \subseteq Tasks
    /\ MaxAttempts \in [Tasks -> Nat \ {0}]
ASSUME OptionAssumption ==
    /\ MaxInflight \in Nat /\ HasDeadline \in BOOLEAN /\ HasLimits \in BOOLEAN
    /\ MaxCancels \in Nat /\ MaxCrashes \in Nat

VARIABLES
    wf, tasks,           \* the two tables
    ready,               \* per task: ready_unix_ms has come
    late,                \* deadline_unix_ms has passed
    up,                  \* the daemon runs
    pc,                  \* per worker: its next step
    seen, list, left,    \* its copies of wf and tasks; tasks it still has to try
    cur, try,            \* the task it executes, and which attempt that is
    why,                 \* cancel_ctx.reason
    cpc, cseen,          \* per client: next step, its copy of wf
    cancels, crashes,    \* counters for the bounds
    ran, settled, wanted \* history, see below

db     == <<wf, tasks, ready>>
worker == <<pc, seen, list, left, cur, try, why>>
client == <<cpc, cseen, cancels>>
env    == <<late, up, crashes>>
hist   == <<ran, settled, wanted>>
vars   == <<wf, tasks, ready, late, up, pc, seen, list, left, cur, try, why,
            cpc, cseen, cancels, crashes, ran, settled, wanted>>

\* History: how executions of a task have ended (ran); its outcome, not a
\* retry, was persisted by the worker that executed it (settled); somebody
\* asked for the workflow to stop: a client, the deadline or a budget (wanted).

Terminal == {"done", "error", "cancelled"}
Status   == {"queued", "running"} \cup Terminal

WfRow   == [status : Status, cancel : BOOLEAN, err : {"none", "deadline", "other"}]
TaskRow == [status : Status, attempt : Nat]

NewWf    == [status |-> "queued", cancel |-> FALSE, err |-> "none"]
NewTasks == [t \in Tasks |-> [status |-> "queued", attempt |-> 0]]

Passing   == {"idle", "list", "listDue", "expire", "sweep", "pick"}
Executing == {"mark", "refresh", "check", "dueWf", "budget", "budgetList", "budgetSweep",
              "run", "putCancelled", "putStopped", "putDone", "failGet", "requeue",
              "putError"}
Closing   == {"stopGet", "stopWf", "fin", "finList", "finPut"}

TablesOK ==
    /\ wf \in WfRow /\ tasks \in [Tasks -> TaskRow] /\ ready \in [Tasks -> BOOLEAN]
    /\ late \in BOOLEAN /\ up \in BOOLEAN
    /\ ran \in [Tasks -> SUBSET {"ok", "fail", "stopped"}]
    /\ settled \in [Tasks -> BOOLEAN] /\ wanted \in BOOLEAN

WorkersOK ==
    /\ pc \in [Workers -> Passing \cup Executing \cup Closing]
    /\ seen \in [Workers -> WfRow] /\ list \in [Workers -> [Tasks -> TaskRow]]
    /\ left \in [Workers -> SUBSET Tasks]
    /\ cur \in [Workers -> Tasks \cup {NoTask}] /\ try \in [Workers -> Nat]
    /\ why \in [Workers -> {"none", "cancel", "deadline"}]
    /\ \A w \in Workers : pc[w] \in Executing <=> cur[w] \in Tasks

ClientsOK ==
    /\ cpc \in [Clients -> {"idle", "put"}] /\ cseen \in [Clients -> WfRow]
    /\ cancels \in 0..MaxCancels /\ crashes \in 0..MaxCrashes

\* The type of every variable; and a worker has a task exactly while it executes.
TypeOK == TablesOK /\ WorkersOK /\ ClientsOK

\* create_workflow has just inserted the workflow and its tasks.
Init ==
    /\ wf = NewWf /\ tasks = NewTasks /\ ready = [t \in Tasks |-> TRUE]
    /\ late = FALSE /\ up = TRUE
    /\ pc = [w \in Workers |-> "idle"]
    /\ seen = [w \in Workers |-> NewWf] /\ list = [w \in Workers |-> NewTasks]
    /\ left = [w \in Workers |-> {}]
    /\ cur = [w \in Workers |-> NoTask] /\ try = [w \in Workers |-> 0]
    /\ why = [w \in Workers |-> "none"]
    /\ cpc = [c \in Clients |-> "idle"] /\ cseen = [c \in Clients |-> NewWf]
    /\ cancels = 0 /\ crashes = 0
    /\ ran = [t \in Tasks |-> {}]
    /\ settled = [t \in Tasks |-> FALSE] /\ wanted = FALSE

-----------------------------------------------------------------------------
Goto(w, p) == pc' = [pc EXCEPT ![w] = p]

\* The worker's copies and the task it holds; a copy nobody will read again
\* is put back to its initial value.
Copy(w, row, rows, todo) ==
    /\ seen' = [seen EXCEPT ![w] = row]
    /\ list' = [list EXCEPT ![w] = rows]
    /\ left' = [left EXCEPT ![w] = todo]
Hold(w, t, n) ==
    /\ cur' = [cur EXCEPT ![w] = t]
    /\ try' = [try EXCEPT ![w] = n]

\* The pass is over (return from pick_and_claim_one or execute_claimed_task).
Rest(w) == Goto(w, "idle") /\ Copy(w, NewWf, NewTasks, {})

With(rows, status) == {t \in Tasks : rows[t].status = status}

-----------------------------------------------------------------------------
(* pick_and_claim_one and its try_pick_in_workflow.                        *)

\* The clock is read and the queued and running workflows are listed.
ListWorkflow(w) ==
    /\ up
    /\ pc[w] = "idle"
    /\ wf.status \in {"queued", "running"}
    /\ Copy(w, wf, NewTasks, {})
    /\ Goto(w, IF late THEN "listDue" ELSE "list")
    /\ UNCHANGED <<db, cur, try, why, client, env, hist>>

\* The deadline is over: every task listed as queued is to be cancelled.
ListExpired(w) ==
    /\ pc[w] = "listDue"
    /\ Copy(w, seen[w], tasks, With(tasks, "queued"))
    /\ Goto(w, "expire")
    /\ UNCHANGED <<db, cur, try, why, client, env, hist>>

\* A listed task is written back as cancelled, whatever its row says now.
CancelListed(w, t) ==
    /\ t \in left[w]
    /\ tasks' = [tasks EXCEPT ![t] = [list[w][t] EXCEPT !.status = "cancelled"]]
    /\ left' = [left EXCEPT ![w] = @ \ {t}]
    /\ UNCHANGED <<wf, ready, seen, list, cur, try, why, client, env, hist>>

ExpireTask(w, t) ==
    /\ pc[w] = "expire"
    /\ CancelListed(w, t)
    /\ UNCHANGED pc

\* The workflow row is marked unless the listed copy is marked already; the
\* pass finalises only if it changed something.
ExpireWorkflow(w) ==
    /\ pc[w] = "expire" /\ left[w] = {}
    /\ LET mark == ~seen[w].cancel \/ seen[w].err # "deadline"
       IN /\ wf' = IF mark THEN [seen[w] EXCEPT !.cancel = TRUE, !.err = "deadline"] ELSE wf
          /\ Goto(w, IF mark \/ With(list[w], "queued") # {} THEN "fin" ELSE "idle")
    /\ Copy(w, NewWf, NewTasks, {})
    /\ UNCHANGED <<tasks, ready, cur, try, why, client, env, hist>>

\* Mutant: a dependency that is still running is enough.
DepStarted(t, d, rows) ==
    \/ rows[d].status \in {"running", "done"}
    \/ rows[d].status = "error" /\ d \in AllowError
    \/ rows[d].status \in Terminal /\ t \in Aggregates

DepOk(t, d, rows) ==
    \/ rows[d].status = "done"
    \/ rows[d].status = "error" /\ d \in AllowError
    \/ rows[d].status \in Terminal /\ t \in Aggregates

Runnable(rows) ==
    {t \in With(rows, "queued") : ready[t] /\ \A d \in Deps[t] : DepOk(t, d, rows)}

Saturated(rows) == MaxInflight > 0 /\ Cardinality(With(rows, "running")) >= MaxInflight

\* The tasks are listed: a saturated workflow is skipped, a cancelled one is
\* swept if there is something to sweep, and otherwise a task is to be claimed.
ListTasks(w) ==
    /\ pc[w] = "list"
    /\ IF Saturated(tasks) \/ (seen[w].cancel /\ With(tasks, "queued") = {})
       THEN Rest(w)
       ELSE IF seen[w].cancel
       THEN /\ Copy(w, seen[w], tasks, With(tasks, "queued"))
            /\ Goto(w, "sweep")
       ELSE /\ Copy(w, seen[w], tasks, Runnable(tasks))
            /\ Goto(w, "pick")
    /\ UNCHANGED <<db, cur, try, why, client, env, hist>>

SweepTask(w, t) ==
    /\ pc[w] = "sweep"
    /\ CancelListed(w, t)
    /\ Goto(w, IF left[w] = {t} THEN "fin" ELSE "sweep")

\* Mutant: the UPDATE has no "status='queued'" in its WHERE.
can_claim_any(t) == ~Saturated(tasks)

\* claim_workflow_task_budgeted: count and UPDATE ... WHERE status='queued'.
can_claim(t) == ~Saturated(tasks) /\ tasks[t].status = "queued"

\* The attempt number comes from the listed row.
Claim(w, t) ==
    /\ pc[w] = "pick" /\ t \in left[w]
    /\ can_claim(t)
    /\ tasks' = [tasks EXCEPT ![t] = [status |-> "running", attempt |-> list[w][t].attempt + 1]]
    /\ Hold(w, t, list[w][t].attempt + 1)
    /\ Copy(w, seen[w], NewTasks, {})
    /\ Goto(w, IF seen[w].status = "running" THEN "refresh" ELSE "mark")
    /\ UNCHANGED <<wf, ready, why, client, env, hist>>

\* Mutant: the answer of the claim is not looked at.
ClaimLostIgnored(w, t) ==
    /\ pc[w] = "pick" /\ t \in left[w]
    /\ ~can_claim(t)
    /\ Goto(w, "refresh")
    /\ UNCHANGED <<db, seen, list, left, cur, try, why, client, env, hist>>

ClaimLost(w, t) ==
    /\ pc[w] = "pick" /\ t \in left[w]
    /\ ~can_claim(t)
    /\ left' = [left EXCEPT ![w] = @ \ {t}]
    /\ UNCHANGED <<db, pc, seen, list, cur, try, why, client, env, hist>>

\* Mutant: a pass that finds nothing to claim just ends.
NothingToClaimRests(w) ==
    /\ pc[w] = "pick" /\ left[w] = {}
    /\ Rest(w)
    /\ UNCHANGED <<db, cur, try, why, client, env, hist>>

\* No runnable task: the workflow may be over.
NothingToClaim(w) ==
    /\ pc[w] = "pick" /\ left[w] = {}
    /\ Goto(w, "fin")
    /\ Copy(w, NewWf, NewTasks, {})
    /\ UNCHANGED <<db, cur, try, why, client, env, hist>>

\* The listed workflow row is written back as running.
MarkRunning(w) ==
    /\ pc[w] = "mark"
    /\ wf' = [seen[w] EXCEPT !.status = "running"]
    /\ Goto(w, "refresh")
    /\ UNCHANGED <<tasks, ready, seen, list, left, cur, try, why, client, env, hist>>

-----------------------------------------------------------------------------
(* execute_claimed_task.                                                   *)

Refresh(w) ==
    /\ pc[w] = "refresh"
    /\ Copy(w, wf, NewTasks, {})
    /\ Goto(w, IF wf.cancel THEN "putCancelled" ELSE IF late THEN "dueWf" ELSE "check")
    /\ UNCHANGED <<db, cur, try, why, client, env, hist>>

MarkDue(w) ==
    /\ pc[w] = "dueWf"
    /\ wf' = [seen[w] EXCEPT !.cancel = TRUE,
                             !.err = IF @ = "none" THEN "deadline" ELSE @]
    /\ Goto(w, "putCancelled")
    /\ UNCHANGED <<tasks, ready, seen, list, left, cur, try, why, client, env, hist>>

WithinBudget(w) ==
    /\ pc[w] = "check"
    /\ Copy(w, NewWf, NewTasks, {})
    /\ Goto(w, "run")
    /\ UNCHANGED <<db, cur, try, why, client, env, hist>>

\* Budgets are totals over the executions so far: the first one has not
\* used up anything.
BudgetExceeded(w) ==
    /\ HasLimits
    /\ pc[w] = "check"
    /\ \E t \in Tasks : ran[t] # {}
    /\ wanted' = TRUE
    /\ Goto(w, "budget")
    /\ UNCHANGED <<db, seen, list, left, cur, try, why, client, env, ran, settled>>

BudgetWorkflow(w) ==
    /\ pc[w] = "budget"
    /\ wf' = [seen[w] EXCEPT !.cancel = TRUE, !.err = "other"]
    /\ Goto(w, "budgetList")
    /\ UNCHANGED <<tasks, ready, seen, list, left, cur, try, why, client, env, hist>>

BudgetList(w) ==
    /\ pc[w] = "budgetList"
    /\ Copy(w, NewWf, NewTasks, With(tasks, "queued") \ {cur[w]})
    /\ Goto(w, "budgetSweep")
    /\ UNCHANGED <<db, cur, try, why, client, env, hist>>

\* cancel_workflow_task_if_queued
BudgetSweep(w, t) ==
    /\ pc[w] = "budgetSweep" /\ t \in left[w]
    /\ tasks' = IF tasks[t].status = "queued"
                THEN [tasks EXCEPT ![t].status = "cancelled"] ELSE tasks
    /\ left' = [left EXCEPT ![w] = @ \ {t}]
    /\ UNCHANGED <<wf, ready, pc, seen, list, cur, try, why, client, env, hist>>

BudgetSwept(w) ==
    /\ pc[w] = "budgetSweep" /\ left[w] = {}
    /\ Goto(w, "putCancelled")
    /\ UNCHANGED <<db, seen, list, left, cur, try, why, client, env, hist>>

RunEnds(w, o) ==
    /\ pc[w] = "run"
    /\ o \in {"ok", "fail"}
    /\ ran' = [ran EXCEPT ![cur[w]] = @ \cup {o}]
    /\ Goto(w, IF o = "ok" THEN "putDone" ELSE "failGet")
    /\ UNCHANGED <<db, seen, list, left, cur, try, why, client, env, settled, wanted>>

\* A check of workflow_run_should_cancel stops the run.
RunStops(w) ==
    /\ pc[w] = "run"
    /\ late \/ wf.cancel
    /\ why' = [why EXCEPT ![w] = IF late THEN "deadline" ELSE "cancel"]
    /\ ran' = [ran EXCEPT ![cur[w]] = @ \cup {"stopped"}]
    /\ Goto(w, "putStopped")
    /\ UNCHANGED <<db, seen, list, left, cur, try, client, env, settled, wanted>>

\* The claimed row, with a new status, is written over the current one.
PutTask(w, status) ==
    /\ tasks' = [tasks EXCEPT ![cur[w]] = [status |-> status, attempt |-> try[w]]]
    /\ Hold(w, NoTask, 0)
    /\ UNCHANGED <<wf, client, env, ran, wanted>>

PutDone(w) ==
    /\ pc[w] = "putDone"
    /\ PutTask(w, "done")
    /\ settled' = [settled EXCEPT ![cur[w]] = TRUE]
    /\ Goto(w, "fin")
    /\ UNCHANGED <<ready, seen, list, left, why>>

\* cancel_task_now
PutCancelled(w) ==
    /\ pc[w] = "putCancelled"
    /\ PutTask(w, "cancelled")
    /\ settled' = [settled EXCEPT ![cur[w]] = TRUE]
    /\ Goto(w, "fin") /\ Copy(w, NewWf, NewTasks, {})
    /\ UNCHANGED <<ready, why>>

PutStopped(w) ==
    /\ pc[w] = "putStopped"
    /\ PutTask(w, "cancelled")
    /\ settled' = [settled EXCEPT ![cur[w]] = TRUE]
    /\ Goto(w, "stopGet")
    /\ UNCHANGED <<ready, seen, list, left, why>>

\* The workflow is marked cancelled if it is not, or not for this reason.
StopGet(w) ==
    /\ pc[w] = "stopGet"
    /\ IF ~wf.cancel \/ (why[w] = "deadline" /\ wf.err # "deadline")
       THEN Copy(w, wf, NewTasks, {}) /\ Goto(w, "stopWf") /\ UNCHANGED why
       ELSE /\ Copy(w, NewWf, NewTasks, {}) /\ Goto(w, "fin")
            /\ why' = [why EXCEPT ![w] = "none"]
    /\ UNCHANGED <<db, cur, try, client, env, hist>>

StopWorkflow(w) ==
    /\ pc[w] = "stopWf"
    /\ wf' = [seen[w] EXCEPT !.cancel = TRUE,
                             !.err = IF why[w] = "deadline" THEN "deadline"
                                     ELSE IF @ = "none" THEN "other" ELSE @]
    /\ why' = [why EXCEPT ![w] = "none"]
    /\ Goto(w, "fin") /\ Copy(w, NewWf, NewTasks, {})
    /\ UNCHANGED <<tasks, ready, cur, try, client, env, hist>>

\* A failed run is retried unless its attempts are used up or somebody cancelled.
FailGet(w) ==
    /\ pc[w] = "failGet"
    /\ Goto(w, IF try[w] < MaxAttempts[cur[w]] /\ ~wf.cancel THEN "requeue" ELSE "putError")
    /\ UNCHANGED <<db, seen, list, left, cur, try, why, client, env, hist>>

Requeue(w) ==
    /\ pc[w] = "requeue"
    /\ PutTask(w, "queued")
    /\ ready' = [ready EXCEPT ![cur[w]] = FALSE]
    /\ Goto(w, "idle")
    /\ UNCHANGED <<seen, list, left, why, settled>>

PutError(w) ==
    /\ pc[w] = "putError"
    /\ PutTask(w, "error")
    /\ settled' = [settled EXCEPT ![cur[w]] = TRUE]
    /\ Goto(w, "fin")
    /\ UNCHANGED <<ready, seen, list, left, why>>

-----------------------------------------------------------------------------
(* maybe_finalize_workflow.                                                *)

HardError(rows)   == \E t \in Tasks \ AllowError : rows[t].status = "error"
AllTerminal(rows) == \A t \in Tasks : rows[t].status \in Terminal

\* Mutant: a workflow without running tasks is done.
VerdictIdle(row, rows) ==
    LET because(text) == IF row.err = "none" THEN text ELSE row.err
    IN CASE HardError(rows) -> [row EXCEPT !.status = "error", !.err = because("other")]
         [] ~HardError(rows) /\ row.cancel ->
              IF AllTerminal(rows)
              THEN [row EXCEPT !.status = "cancelled", !.err = because("other")]
              ELSE [row EXCEPT !.status = "running"]
         [] ~HardError(rows) /\ ~row.cancel ->
              IF With(rows, "running") = {} THEN [row EXCEPT !.status = "done", !.err = "none"]
              ELSE [row EXCEPT !.status = "running"]

\* The workflow row that a copy of it and a list of its tasks call for.
Verdict(row, rows) ==
    LET because(text) == IF row.err = "none" THEN text ELSE row.err
    IN CASE HardError(rows) -> [row EXCEPT !.status = "error", !.err = because("other")]
         [] ~HardError(rows) /\ row.cancel ->
              IF AllTerminal(rows)
              THEN [row EXCEPT !.status = "cancelled", !.err = because("other")]
              ELSE [row EXCEPT !.status = "running"]
         [] ~HardError(rows) /\ ~row.cancel ->
              IF AllTerminal(rows) THEN [row EXCEPT !.status = "done", !.err = "none"]
              ELSE [row EXCEPT !.status = IF With(rows, "running") # {}
                                          THEN "running" ELSE "queued"]

FinalizeGet(w) ==
    /\ pc[w] = "fin"
    /\ Copy(w, wf, NewTasks, {})
    /\ Goto(w, "finList")
    /\ UNCHANGED <<db, cur, try, why, client, env, hist>>

\* The row is written only if it changes.  The result of a terminal row also
\* holds the tasks' times and results, so it may change when nothing else does.
FinalizeList(w) ==
    /\ pc[w] = "finList"
    /\ LET v == Verdict(seen[w], tasks)
       IN \/ /\ v # seen[w] \/ v.status \in Terminal
             /\ Copy(w, v, NewTasks, {}) /\ Goto(w, "finPut")
          \/ v = seen[w] /\ Rest(w)
    /\ UNCHANGED <<db, cur, try, why, client, env, hist>>

FinalizePut(w) ==
    /\ pc[w] = "finPut"
    /\ wf' = seen[w]
    /\ Rest(w)
    /\ UNCHANGED <<tasks, ready, cur, try, why, client, env, hist>>

-----------------------------------------------------------------------------
(* POST /api/v1/workflow/cancel, time, crashes.                            *)

CancelGet(c) ==
    /\ up /\ cpc[c] = "idle" /\ cancels < MaxCancels
    /\ cancels' = cancels + 1 /\ wanted' = TRUE
    /\ cseen' = [cseen EXCEPT ![c] = wf]
    /\ cpc' = [cpc EXCEPT ![c] = "put"]
    /\ UNCHANGED <<db, worker, env, ran, settled>>

CancelPut(c) ==
    /\ cpc[c] = "put"
    /\ wf' = [cseen[c] EXCEPT !.cancel = TRUE,
                              !.status = IF @ = "queued" THEN "running" ELSE @]
    /\ cseen' = [cseen EXCEPT ![c] = NewWf]
    /\ cpc' = [cpc EXCEPT ![c] = "idle"]
    /\ UNCHANGED <<tasks, ready, worker, cancels, env, hist>>

DeadlinePasses ==
    /\ HasDeadline /\ ~late
    /\ late' = TRUE /\ wanted' = TRUE
    /\ UNCHANGED <<db, worker, client, up, crashes, ran, settled>>

BackoffEnds(t) ==
    /\ ~ready[t]
    /\ ready' = [ready EXCEPT ![t] = TRUE]
    /\ UNCHANGED <<wf, tasks, worker, client, env, hist>>

Crash ==
    /\ up /\ crashes < MaxCrashes
    /\ up' = FALSE /\ crashes' = crashes + 1
    /\ pc' = [w \in Workers |-> "idle"]
    /\ seen' = [w \in Workers |-> NewWf] /\ list' = [w \in Workers |-> NewTasks]
    /\ left' = [w \in Workers |-> {}]
    /\ cur' = [w \in Workers |-> NoTask] /\ try' = [w \in Workers |-> 0]
    /\ why' = [w \in Workers |-> "none"]
    /\ cpc' = [c \in Clients |-> "idle"] /\ cseen' = [c \in Clients |-> NewWf]
    /\ UNCHANGED <<db, cancels, late, hist>>

\* Mutant: recovery looks at every task that is not done.
recover_unfinished(status) == IF status # "done" THEN "queued" ELSE status

\* recover_inflight_workflows, for either table.
recover(status) == IF status = "running" THEN "queued" ELSE status

Start ==
    /\ ~up
    /\ up' = TRUE
    /\ wf' = [wf EXCEPT !.status = recover(@)]
    /\ tasks' = [t \in Tasks |-> [tasks[t] EXCEPT !.status = recover(@)]]
    /\ UNCHANGED <<ready, worker, client, late, crashes, hist>>

-----------------------------------------------------------------------------
PassStep(w) ==
    \/ ListWorkflow(w) \/ ListExpired(w) \/ ExpireWorkflow(w) \/ ListTasks(w)
    \/ \E t \in Tasks : \/ ExpireTask(w, t) \/ SweepTask(w, t)
                        \/ Claim(w, t) \/ ClaimLost(w, t)
    \/ NothingToClaim(w) \/ MarkRunning(w)

ExecuteStep(w) ==
    \/ Refresh(w) \/ MarkDue(w) \/ WithinBudget(w) \/ BudgetExceeded(w)
    \/ BudgetWorkflow(w) \/ BudgetList(w) \/ BudgetSwept(w)
    \/ \E t \in Tasks : BudgetSweep(w, t)
    \/ \E o \in {"ok", "fail"} : RunEnds(w, o)
    \/ RunStops(w)
    \/ PutDone(w) \/ PutCancelled(w) \/ PutStopped(w) \/ StopGet(w) \/ StopWorkflow(w)
    \/ FailGet(w) \/ Requeue(w) \/ PutError(w)

FinalizeStep(w) == FinalizeGet(w) \/ FinalizeList(w) \/ FinalizePut(w)

WorkerStep(w) == PassStep(w) \/ ExecuteStep(w) \/ FinalizeStep(w)

Next ==
    \/ \E w \in Workers : WorkerStep(w)
    \/ \E c \in Clients : CancelGet(c) \/ CancelPut(c)
    \/ \E t \in Tasks : BackoffEnds(t)
    \/ DeadlinePasses \/ Crash \/ Start

Spec == Init /\ [][Next]_vars

\* Workers are scheduled and their runs end (every model and tool call has a
\* timeout), requests are answered, time passes, and a supervisor restarts the
\* daemon.
Fairness ==
    /\ \A w \in Workers : WF_vars(WorkerStep(w))
    /\ \A c \in Clients : WF_vars(CancelPut(c))
    /\ \A t \in Tasks : WF_vars(BackoffEnds(t))
    /\ WF_vars(DeadlinePasses) /\ WF_vars(Start)

FairSpec == Spec /\ Fairness

-----------------------------------------------------------------------------
(* What the engine promises.                                               *)

\* No two workers execute one task, although a sweep may overwrite the row of
\* a task that is being executed, and retries and recovery put rows back to
\* queued (claim_workflow_task).
OneWorkerPerTask ==
    \A w1, w2 \in Workers : cur[w1] \in Tasks /\ cur[w1] = cur[w2] => w1 = w2

Claims(w) == cur[w] = NoTask /\ cur'[w] # NoTask

\* Once the outcome of a task was persisted, no worker executes the task
\* again: not from a stale list, not after a sweep, a crash or a recovery.
NeverRerun == [][\A w \in Workers : Claims(w) => ~settled[cur'[w]]]_vars

\* A task starts only after what it depends on really ended well enough: it
\* succeeded; it failed and may; or, for an aggregate, it is over.  The listed
\* rows this is decided on may be out of date by then (try_pick_in_workflow).
Satisfied(t, d) ==
    \/ "ok" \in ran[d]
    \/ "fail" \in ran[d] /\ (d \in AllowError \/ t \in Aggregates)
    \/ wanted /\ t \in Aggregates

DepsFirst ==
    [][\A w \in Workers : Claims(w) => \A d \in Deps[cur'[w]] : Satisfied(cur'[w], d)]_vars

\* The workflow's verdict is not made up by a finaliser that works on old
\* copies: it is done only if every task succeeded or was allowed to fail,
\* error only if a task that may not fail did, cancelled only if somebody
\* asked for that.  A workflow somebody did ask to stop may still be done.
VerdictWitnessed ==
    /\ wf.status = "done" /\ ~wanted =>
         \A t \in Tasks : "ok" \in ran[t] \/ (t \in AllowError /\ "fail" \in ran[t])
    /\ wf.status = "error" => \E t \in Tasks \ AllowError : "fail" \in ran[t]
    /\ wf.status = "cancelled" \/ wf.cancel => wanted

\* Every workflow is settled for good in the end: workflow_engine.h, "persists
\* results and moves the workflow to done/error/cancelled".
WorkflowSettles == <>[](wf.status \in Terminal)

\* docs/WORKFLOWS.md: "When all tasks become terminal, the workflow becomes
\* terminal."
SettlesWithTasks == AllTerminal(tasks) ~> (wf.status \in Terminal \/ ~AllTerminal(tasks))
=============================================================================
