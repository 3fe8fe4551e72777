--------------------------- MODULE WorkflowProofs ---------------------------
(***************************************************************************)
(* What is proved of Workflow, for any graph of tasks, any number of       *)
(* workers, clients and crashes, with deadlines and budgets.               *)
(***************************************************************************)
EXTENDS Workflow, TLAPS

-----------------------------------------------------------------------------
(* The inductive invariants.                                               *)

\* A daemon that is down executes nothing.
DownIdle == ~up => \A w \in Workers : pc[w] = "idle"

\* The row of a task in execution is running, unless a sweep overwrote it;
\* in particular nobody can claim the task.  Its outcome is not persisted yet.
OwnedRow ==
    \A w \in Workers : cur[w] \in Tasks =>
        tasks[cur[w]].status \in {"running", "cancelled"} /\ ~settled[cur[w]]

\* The row of a task with a persisted outcome never leaves the terminal states.
SettledRow == \A t \in Tasks : settled[t] => tasks[t].status \in Terminal

OwnerInv == DownIdle /\ OwnedRow /\ OneWorkerPerTask /\ SettledRow

\* What a task's row may say when executions ended as in r, and x says whether
\* somebody asked for the workflow to stop.
RowsOk(rows, r, x) ==
    \A t \in Tasks : /\ rows[t].status = "done" => "ok" \in r[t]
                     /\ rows[t].status = "error" => "fail" \in r[t]
                     /\ rows[t].status = "cancelled" => x

\* What a workflow's row may say.
WfOk(row, r, x) ==
    /\ row.status = "done" /\ ~x =>
         \A t \in Tasks : "ok" \in r[t] \/ (t \in AllowError /\ "fail" \in r[t])
    /\ row.status = "error" => \E t \in Tasks \ AllowError : "fail" \in r[t]
    /\ row.status = "cancelled" \/ row.cancel => x

\* The tables and every copy of them say only what happened.
TablesTrue == RowsOk(tasks, ran, wanted) /\ WfOk(wf, ran, wanted) /\ (late => wanted)
CopiesTrue ==
    /\ \A w \in Workers : WfOk(seen[w], ran, wanted) /\ RowsOk(list[w], ran, wanted)
    /\ \A c \in Clients : WfOk(cseen[c], ran, wanted) /\ (cpc[c] = "put" => wanted)

\* So does the place each worker is at: what it is about to write is true, and
\* what it may claim has its dependencies behind it.
Stopping == {"listDue", "expire", "sweep", "dueWf", "budget", "budgetList", "budgetSweep",
             "putCancelled", "putStopped", "stopGet", "stopWf"}
StepTrue(w) ==
    /\ pc[w] = "putDone" => "ok" \in ran[cur[w]]
    /\ pc[w] \in {"failGet", "requeue", "putError"} => "fail" \in ran[cur[w]]
    /\ pc[w] \in Stopping => wanted
    /\ pc[w] = "pick" => \A t \in left[w] : \A d \in Deps[t] : Satisfied(t, d)
StepsTrue == \A w \in Workers : StepTrue(w)

HonestInv == TablesTrue /\ CopiesTrue /\ StepsTrue

-----------------------------------------------------------------------------
(* Types.                                                                  *)

\* What create_workflow inserts is well formed.
LEMMA NewType == NewWf \in WfRow /\ NewTasks \in [Tasks -> TaskRow]
  BY DEF NewWf, NewTasks, WfRow, TaskRow, Status

\* The tasks with a status are tasks.
LEMMA WithType ==
  ASSUME NEW rows, NEW status PROVE With(rows, status) \in SUBSET Tasks
  BY DEF With

\* So are the runnable ones.
LEMMA RunnableType ==
  ASSUME NEW rows PROVE Runnable(rows) \in SUBSET Tasks
  BY DEF Runnable, With

\* maybe_finalize_workflow makes a well-formed row.
LEMMA VerdictType ==
  ASSUME NEW row \in WfRow, NEW rows PROVE Verdict(row, rows) \in WfRow
  BY DEF Verdict, WfRow, Status, Terminal

\* Every way the code edits a copy of a row gives a row.
LEMMA WfRowEdits ==
  ASSUME NEW row \in WfRow
  PROVE  /\ \A s \in Status : [row EXCEPT !.status = s] \in WfRow
         /\ \A e \in {"none", "deadline", "other"} :
              [row EXCEPT !.cancel = TRUE, !.err = e] \in WfRow
         /\ \A s \in Status : [row EXCEPT !.cancel = TRUE, !.status = s] \in WfRow
         /\ row.err \in {"none", "deadline", "other"} /\ row.status \in Status
  BY DEF WfRow

\* A task's row stays well formed under the code's edits.
LEMMA TaskRowEdits ==
  ASSUME NEW row \in TaskRow, NEW s \in Status
  PROVE  [row EXCEPT !.status = s] \in TaskRow /\ row.status \in Status
  BY DEF TaskRow

\* A workflow that was just created is well typed.
LEMMA InitType == Init => TypeOK
  <1> SUFFICES ASSUME Init PROVE TypeOK
    OBVIOUS
  <1>1. TablesOK
    BY NewType DEF Init, TablesOK
  <1>2. WorkersOK
    BY NewType, GraphAssumption DEF Init, WorkersOK, Passing, Executing
  <1>3. ClientsOK
    BY NewType, OptionAssumption DEF Init, ClientsOK
  <1>4. QED
    BY <1>1, <1>2, <1>3 DEF TypeOK

\* Every step keeps the types.
LEMMA StepType == TypeOK /\ [Next]_vars => TypeOK'
  <1> SUFFICES ASSUME TypeOK, [Next]_vars PROVE TypeOK'
    OBVIOUS
  <1> USE NewType, WithType, RunnableType, VerdictType, GraphAssumption
  <1>0. TablesOK /\ WorkersOK /\ ClientsOK
    BY DEF TypeOK
  <1>1. ASSUME NEW w \in Workers, ListWorkflow(w) PROVE TypeOK'
    <2>1. TablesOK'
      BY <1>0, <1>1 DEF ListWorkflow, Copy, db, client, env, hist, TablesOK, WorkersOK,
         ClientsOK, WfRow, TaskRow, Status, Terminal
    <2>2. WorkersOK'
      BY <1>0, <1>1 DEF ListWorkflow, Copy, Goto, db, client, env, hist, TablesOK,
         WorkersOK, Passing, Executing, Closing
    <2>3. ClientsOK'
      BY <1>0, <1>1, OptionAssumption DEF ListWorkflow, Copy, db, client, env, hist,
         TablesOK, ClientsOK
    <2>4. QED
      BY <2>1, <2>2, <2>3 DEF TypeOK
  <1>2. ASSUME NEW w \in Workers, ListExpired(w) PROVE TypeOK'
    <2>1. TablesOK'
      BY <1>0, <1>2 DEF ListExpired, Copy, db, client, env, hist, TablesOK, WorkersOK,
         ClientsOK, WfRow, TaskRow, Status, Terminal
    <2>2. WorkersOK'
      BY <1>0, <1>2 DEF ListExpired, Copy, Goto, db, client, env, hist, TablesOK,
         WorkersOK, Passing, Executing, Closing
    <2>3. ClientsOK'
      BY <1>0, <1>2, OptionAssumption DEF ListExpired, Copy, db, client, env, hist,
         TablesOK, ClientsOK
    <2>4. QED
      BY <2>1, <2>2, <2>3 DEF TypeOK
  <1>3. ASSUME NEW w \in Workers, ExpireWorkflow(w) PROVE TypeOK'
    <2>1. TablesOK'
      <3>1. wf' \in WfRow
        BY <1>0, <1>3, WfRowEdits DEF ExpireWorkflow, TablesOK, WorkersOK, ClientsOK,
           Status, Terminal
      <3>2. QED
        BY <1>0, <1>3, <3>1 DEF ExpireWorkflow, Copy, client, env, hist, TablesOK
    <2>2. WorkersOK'
      BY <1>0, <1>3 DEF ExpireWorkflow, Goto, Copy, client, env, hist, TablesOK,
         WorkersOK, Passing, Executing, Closing
    <2>3. ClientsOK'
      BY <1>0, <1>3, OptionAssumption DEF ExpireWorkflow, Copy, client, env, hist,
         TablesOK, ClientsOK
    <2>4. QED
      BY <2>1, <2>2, <2>3 DEF TypeOK
  <1>4. ASSUME NEW w \in Workers, ListTasks(w) PROVE TypeOK'
    <2>1. TablesOK'
      BY <1>0, <1>4 DEF ListTasks, Rest, Copy, db, client, env, hist, TablesOK, WorkersOK,
         ClientsOK, WfRow, TaskRow, Status, Terminal
    <2>2. WorkersOK'
      <3>1. CASE Rest(w)
        BY <1>0, <1>4, <3>1 DEF ListTasks, Rest, Goto, Copy, TablesOK, WorkersOK, Passing,
           Executing
      <3>2. CASE Copy(w, seen[w], tasks, With(tasks, "queued")) /\ Goto(w, "sweep")
        BY <1>0, <1>4, <3>2 DEF ListTasks, Goto, Copy, TablesOK, WorkersOK, Passing,
           Executing
      <3>3. CASE Copy(w, seen[w], tasks, Runnable(tasks)) /\ Goto(w, "pick")
        BY <1>0, <1>4, <3>3 DEF ListTasks, Goto, Copy, TablesOK, WorkersOK, Passing,
           Executing
      <3>4. QED
        BY <1>4, <3>1, <3>2, <3>3 DEF ListTasks
    <2>3. ClientsOK'
      BY <1>0, <1>4, OptionAssumption DEF ListTasks, Rest, Copy, db, client, env, hist,
         TablesOK, ClientsOK
    <2>4. QED
      BY <2>1, <2>2, <2>3 DEF TypeOK
  <1>5. ASSUME NEW w \in Workers, NEW t \in Tasks, ExpireTask(w, t) PROVE TypeOK'
    <2>1. TablesOK'
      <3>1. list[w][t] \in TaskRow /\ "cancelled" \in Status
        BY <1>0 DEF WorkersOK, Status, Terminal
      <3>2. [list[w][t] EXCEPT !.status = "cancelled"] \in TaskRow
        BY <3>1, TaskRowEdits
      <3>3. tasks' \in [Tasks -> TaskRow]
        BY <1>0, <1>5, <3>2 DEF ExpireTask, CancelListed, TablesOK
      <3>4. QED
        BY <1>0, <1>5, <3>3 DEF ExpireTask, CancelListed, client, env, hist, TablesOK
    <2>2. WorkersOK'
      BY <1>0, <1>5 DEF ExpireTask, CancelListed, client, env, hist, TablesOK, WorkersOK,
         Passing, Executing, Closing
    <2>3. ClientsOK'
      BY <1>0, <1>5, OptionAssumption DEF ExpireTask, CancelListed, client, env, hist,
         TablesOK, ClientsOK
    <2>4. QED
      BY <2>1, <2>2, <2>3 DEF TypeOK
  <1>6. ASSUME NEW w \in Workers, NEW t \in Tasks, SweepTask(w, t) PROVE TypeOK'
    <2>1. TablesOK'
      <3>1. list[w][t] \in TaskRow /\ "cancelled" \in Status
        BY <1>0 DEF WorkersOK, Status, Terminal
      <3>2. [list[w][t] EXCEPT !.status = "cancelled"] \in TaskRow
        BY <3>1, TaskRowEdits
      <3>3. tasks' \in [Tasks -> TaskRow]
        BY <1>0, <1>6, <3>2 DEF SweepTask, CancelListed, TablesOK
      <3>4. QED
        BY <1>0, <1>6, <3>3 DEF SweepTask, CancelListed, client, env, hist, Goto, TablesOK
    <2>2. WorkersOK'
      BY <1>0, <1>6 DEF SweepTask, CancelListed, client, env, hist, Goto, TablesOK,
         WorkersOK, Passing, Executing, Closing
    <2>3. ClientsOK'
      BY <1>0, <1>6, OptionAssumption DEF SweepTask, CancelListed, client, env, hist,
         TablesOK, ClientsOK
    <2>4. QED
      BY <2>1, <2>2, <2>3 DEF TypeOK
  <1>7. ASSUME NEW w \in Workers, NEW t \in Tasks, Claim(w, t) PROVE TypeOK'
    <2>1. TablesOK'
      BY <1>0, <1>7 DEF Claim, Hold, Copy, client, env, hist, TablesOK, WorkersOK,
         ClientsOK, WfRow, TaskRow, Status, Terminal
    <2>2. WorkersOK'
      <3>1. list[w][t].attempt + 1 \in Nat
        BY <1>0, <1>7 DEF WorkersOK, TaskRow
      <3>2. QED
        BY <1>0, <1>7, <3>1 DEF Claim, Hold, Copy, Goto, WorkersOK, Passing, Executing
    <2>3. ClientsOK'
      BY <1>0, <1>7, OptionAssumption DEF Claim, Hold, Copy, client, env, hist, TablesOK,
         ClientsOK
    <2>4. QED
      BY <2>1, <2>2, <2>3 DEF TypeOK
  <1>8. ASSUME NEW w \in Workers, NEW t \in Tasks, ClaimLost(w, t) PROVE TypeOK'
    <2>1. TablesOK'
      BY <1>0, <1>8 DEF ClaimLost, db, client, env, hist, TablesOK, WorkersOK, ClientsOK,
         WfRow, TaskRow, Status, Terminal
    <2>2. WorkersOK'
      BY <1>0, <1>8 DEF ClaimLost, db, client, env, hist, TablesOK, WorkersOK, Passing,
         Executing, Closing
    <2>3. ClientsOK'
      BY <1>0, <1>8, OptionAssumption DEF ClaimLost, db, client, env, hist, TablesOK,
         ClientsOK
    <2>4. QED
      BY <2>1, <2>2, <2>3 DEF TypeOK
  <1>9. ASSUME NEW w \in Workers, NothingToClaim(w) PROVE TypeOK'
    <2>1. TablesOK'
      BY <1>0, <1>9 DEF NothingToClaim, Copy, db, client, env, hist, TablesOK, WorkersOK,
         ClientsOK, WfRow, TaskRow, Status, Terminal
    <2>2. WorkersOK'
      BY <1>0, <1>9 DEF NothingToClaim, Goto, Copy, db, client, env, hist, TablesOK,
         WorkersOK, Passing, Executing, Closing
    <2>3. ClientsOK'
      BY <1>0, <1>9, OptionAssumption DEF NothingToClaim, Copy, db, client, env, hist,
         TablesOK, ClientsOK
    <2>4. QED
      BY <2>1, <2>2, <2>3 DEF TypeOK
  <1>10. ASSUME NEW w \in Workers, MarkRunning(w) PROVE TypeOK'
    <2>1. TablesOK'
      <3>1. wf' \in WfRow
        BY <1>0, <1>10, WfRowEdits DEF MarkRunning, TablesOK, WorkersOK, ClientsOK,
           Status, Terminal
      <3>2. QED
        BY <1>0, <1>10, <3>1 DEF MarkRunning, client, env, hist, TablesOK
    <2>2. WorkersOK'
      BY <1>0, <1>10 DEF MarkRunning, Goto, client, env, hist, TablesOK, WorkersOK,
         Passing, Executing, Closing
    <2>3. ClientsOK'
      BY <1>0, <1>10, OptionAssumption DEF MarkRunning, client, env, hist, TablesOK,
         ClientsOK
    <2>4. QED
      BY <2>1, <2>2, <2>3 DEF TypeOK
  <1>11. ASSUME NEW w \in Workers, Refresh(w) PROVE TypeOK'
    <2>1. TablesOK'
      BY <1>0, <1>11 DEF Refresh, Copy, db, client, env, hist, TablesOK, WorkersOK,
         ClientsOK, WfRow, TaskRow, Status, Terminal
    <2>2. WorkersOK'
      BY <1>0, <1>11 DEF Refresh, Copy, Goto, db, client, env, hist, TablesOK, WorkersOK,
         Passing, Executing, Closing
    <2>3. ClientsOK'
      BY <1>0, <1>11, OptionAssumption DEF Refresh, Copy, db, client, env, hist, TablesOK,
         ClientsOK
    <2>4. QED
      BY <2>1, <2>2, <2>3 DEF TypeOK
  <1>12. ASSUME NEW w \in Workers, MarkDue(w) PROVE TypeOK'
    <2>1. TablesOK'
      <3>1. wf' \in WfRow
        BY <1>0, <1>12, WfRowEdits DEF MarkDue, TablesOK, WorkersOK, ClientsOK, Status,
           Terminal
      <3>2. QED
        BY <1>0, <1>12, <3>1 DEF MarkDue, client, env, hist, TablesOK
    <2>2. WorkersOK'
      BY <1>0, <1>12 DEF MarkDue, Goto, client, env, hist, TablesOK, WorkersOK, Passing,
         Executing, Closing
    <2>3. ClientsOK'
      BY <1>0, <1>12, OptionAssumption DEF MarkDue, client, env, hist, TablesOK, ClientsOK
    <2>4. QED
      BY <2>1, <2>2, <2>3 DEF TypeOK
  <1>13. ASSUME NEW w \in Workers, WithinBudget(w) PROVE TypeOK'
    <2>1. TablesOK'
      BY <1>0, <1>13 DEF WithinBudget, Copy, db, client, env, hist, TablesOK, WorkersOK,
         ClientsOK, WfRow, TaskRow, Status, Terminal
    <2>2. WorkersOK'
      BY <1>0, <1>13 DEF WithinBudget, Copy, Goto, db, client, env, hist, TablesOK,
         WorkersOK, Passing, Executing, Closing
    <2>3. ClientsOK'
      BY <1>0, <1>13, OptionAssumption DEF WithinBudget, Copy, db, client, env, hist,
         TablesOK, ClientsOK
    <2>4. QED
      BY <2>1, <2>2, <2>3 DEF TypeOK
  <1>14. ASSUME NEW w \in Workers, BudgetExceeded(w) PROVE TypeOK'
    <2>1. TablesOK'
      BY <1>0, <1>14 DEF BudgetExceeded, db, client, env, TablesOK, WorkersOK, ClientsOK,
         WfRow, TaskRow, Status, Terminal
    <2>2. WorkersOK'
      BY <1>0, <1>14 DEF BudgetExceeded, Goto, db, client, env, TablesOK, WorkersOK,
         Passing, Executing, Closing
    <2>3. ClientsOK'
      BY <1>0, <1>14, OptionAssumption DEF BudgetExceeded, db, client, env, TablesOK,
         ClientsOK
    <2>4. QED
      BY <2>1, <2>2, <2>3 DEF TypeOK
  <1>15. ASSUME NEW w \in Workers, BudgetWorkflow(w) PROVE TypeOK'
    <2>1. TablesOK'
      <3>1. wf' \in WfRow
        BY <1>0, <1>15, WfRowEdits DEF BudgetWorkflow, TablesOK, WorkersOK, ClientsOK,
           Status, Terminal
      <3>2. QED
        BY <1>0, <1>15, <3>1 DEF BudgetWorkflow, client, env, hist, TablesOK
    <2>2. WorkersOK'
      BY <1>0, <1>15 DEF BudgetWorkflow, Goto, client, env, hist, TablesOK, WorkersOK,
         Passing, Executing, Closing
    <2>3. ClientsOK'
      BY <1>0, <1>15, OptionAssumption DEF BudgetWorkflow, client, env, hist, TablesOK,
         ClientsOK
    <2>4. QED
      BY <2>1, <2>2, <2>3 DEF TypeOK
  <1>16. ASSUME NEW w \in Workers, BudgetList(w) PROVE TypeOK'
    <2>1. TablesOK'
      BY <1>0, <1>16 DEF BudgetList, Copy, db, client, env, hist, TablesOK, WorkersOK,
         ClientsOK, WfRow, TaskRow, Status, Terminal
    <2>2. WorkersOK'
      BY <1>0, <1>16 DEF BudgetList, Copy, Goto, db, client, env, hist, TablesOK,
         WorkersOK, Passing, Executing, Closing
    <2>3. ClientsOK'
      BY <1>0, <1>16, OptionAssumption DEF BudgetList, Copy, db, client, env, hist,
         TablesOK, ClientsOK
    <2>4. QED
      BY <2>1, <2>2, <2>3 DEF TypeOK
  <1>17. ASSUME NEW w \in Workers, BudgetSwept(w) PROVE TypeOK'
    <2>1. TablesOK'
      BY <1>0, <1>17 DEF BudgetSwept, db, client, env, hist, TablesOK, WorkersOK,
         ClientsOK, WfRow, TaskRow, Status, Terminal
    <2>2. WorkersOK'
      BY <1>0, <1>17 DEF BudgetSwept, Goto, db, client, env, hist, TablesOK, WorkersOK,
         Passing, Executing, Closing
    <2>3. ClientsOK'
      BY <1>0, <1>17, OptionAssumption DEF BudgetSwept, db, client, env, hist, TablesOK,
         ClientsOK
    <2>4. QED
      BY <2>1, <2>2, <2>3 DEF TypeOK
  <1>18. ASSUME NEW w \in Workers, NEW t \in Tasks, BudgetSweep(w, t) PROVE TypeOK'
    <2>1. TablesOK'
      <3>1. tasks' \in [Tasks -> TaskRow]
        BY <1>0, <1>18, TaskRowEdits DEF BudgetSweep, TablesOK, WorkersOK, Status, Terminal
      <3>2. QED
        BY <1>0, <1>18, <3>1 DEF BudgetSweep, client, env, hist, TablesOK
    <2>2. WorkersOK'
      BY <1>0, <1>18 DEF BudgetSweep, client, env, hist, TablesOK, WorkersOK, Passing,
         Executing, Closing
    <2>3. ClientsOK'
      BY <1>0, <1>18, OptionAssumption DEF BudgetSweep, client, env, hist, TablesOK,
         ClientsOK
    <2>4. QED
      BY <2>1, <2>2, <2>3 DEF TypeOK
  <1>19. ASSUME NEW w \in Workers, NEW o \in {"ok", "fail"}, RunEnds(w, o) PROVE TypeOK'
    <2>1. TablesOK'
      BY <1>0, <1>19 DEF RunEnds, db, client, env, TablesOK, WorkersOK, ClientsOK, WfRow,
         TaskRow, Status, Terminal
    <2>2. WorkersOK'
      BY <1>0, <1>19 DEF RunEnds, Goto, db, client, env, TablesOK, WorkersOK, Passing,
         Executing, Closing
    <2>3. ClientsOK'
      BY <1>0, <1>19, OptionAssumption DEF RunEnds, db, client, env, TablesOK, ClientsOK
    <2>4. QED
      BY <2>1, <2>2, <2>3 DEF TypeOK
  <1>20. ASSUME NEW w \in Workers, RunStops(w) PROVE TypeOK'
    <2>1. TablesOK'
      BY <1>0, <1>20 DEF RunStops, db, client, env, TablesOK, WorkersOK, ClientsOK, WfRow,
         TaskRow, Status, Terminal
    <2>2. WorkersOK'
      BY <1>0, <1>20 DEF RunStops, Goto, db, client, env, TablesOK, WorkersOK, Passing,
         Executing, Closing
    <2>3. ClientsOK'
      BY <1>0, <1>20, OptionAssumption DEF RunStops, db, client, env, TablesOK, ClientsOK
    <2>4. QED
      BY <2>1, <2>2, <2>3 DEF TypeOK
  <1>21. ASSUME NEW w \in Workers, PutDone(w) PROVE TypeOK'
    <2>1. TablesOK'
      BY <1>0, <1>21 DEF PutDone, PutTask, Hold, client, env, TablesOK, WorkersOK,
         ClientsOK, WfRow, TaskRow, Status, Terminal
    <2>2. WorkersOK'
      BY <1>0, <1>21 DEF PutDone, PutTask, Hold, client, env, Goto, TablesOK, WorkersOK,
         Passing, Executing, Closing
    <2>3. ClientsOK'
      BY <1>0, <1>21, OptionAssumption DEF PutDone, PutTask, Hold, client, env, TablesOK,
         ClientsOK
    <2>4. QED
      BY <2>1, <2>2, <2>3 DEF TypeOK
  <1>22. ASSUME NEW w \in Workers, PutCancelled(w) PROVE TypeOK'
    <2>1. TablesOK'
      BY <1>0, <1>22 DEF PutCancelled, PutTask, Hold, client, env, Copy, TablesOK,
         WorkersOK, ClientsOK, WfRow, TaskRow, Status, Terminal
    <2>2. WorkersOK'
      BY <1>0, <1>22 DEF PutCancelled, PutTask, Hold, client, env, Goto, Copy, TablesOK,
         WorkersOK, Passing, Executing, Closing
    <2>3. ClientsOK'
      BY <1>0, <1>22, OptionAssumption DEF PutCancelled, PutTask, Hold, client, env, Copy,
         TablesOK, ClientsOK
    <2>4. QED
      BY <2>1, <2>2, <2>3 DEF TypeOK
  <1>23. ASSUME NEW w \in Workers, PutStopped(w) PROVE TypeOK'
    <2>1. TablesOK'
      BY <1>0, <1>23 DEF PutStopped, PutTask, Hold, client, env, TablesOK, WorkersOK,
         ClientsOK, WfRow, TaskRow, Status, Terminal
    <2>2. WorkersOK'
      BY <1>0, <1>23 DEF PutStopped, PutTask, Hold, client, env, Goto, TablesOK,
         WorkersOK, Passing, Executing, Closing
    <2>3. ClientsOK'
      BY <1>0, <1>23, OptionAssumption DEF PutStopped, PutTask, Hold, client, env,
         TablesOK, ClientsOK
    <2>4. QED
      BY <2>1, <2>2, <2>3 DEF TypeOK
  <1>24. ASSUME NEW w \in Workers, StopGet(w) PROVE TypeOK'
    <2>1. TablesOK'
      BY <1>0, <1>24 DEF StopGet, Copy, db, client, env, hist, TablesOK, WorkersOK,
         ClientsOK, WfRow, TaskRow, Status, Terminal
    <2>2. WorkersOK'
      <3>1. CASE Copy(w, wf, NewTasks, {}) /\ Goto(w, "stopWf") /\ UNCHANGED why
        BY <1>0, <1>24, <3>1 DEF StopGet, Copy, Goto, TablesOK, WorkersOK, Executing,
           Closing
      <3>2. CASE Copy(w, NewWf, NewTasks, {}) /\ Goto(w,
      "fin") /\ why' = [why EXCEPT ![w] = "none"]
        BY <1>0, <1>24, <3>2 DEF StopGet, Copy, Goto, TablesOK, WorkersOK, Executing,
           Closing
      <3>3. QED
        BY <1>24, <3>1, <3>2 DEF StopGet
    <2>3. ClientsOK'
      BY <1>0, <1>24, OptionAssumption DEF StopGet, Copy, db, client, env, hist, TablesOK,
         ClientsOK
    <2>4. QED
      BY <2>1, <2>2, <2>3 DEF TypeOK
  <1>25. ASSUME NEW w \in Workers, StopWorkflow(w) PROVE TypeOK'
    <2>1. TablesOK'
      <3>1. wf' \in WfRow
        BY <1>0, <1>25, WfRowEdits DEF StopWorkflow, TablesOK, WorkersOK, ClientsOK,
           Status, Terminal
      <3>2. QED
        BY <1>0, <1>25, <3>1 DEF StopWorkflow, Copy, client, env, hist, TablesOK
    <2>2. WorkersOK'
      BY <1>0, <1>25 DEF StopWorkflow, Goto, Copy, client, env, hist, TablesOK, WorkersOK,
         Passing, Executing, Closing
    <2>3. ClientsOK'
      BY <1>0, <1>25, OptionAssumption DEF StopWorkflow, Copy, client, env, hist,
         TablesOK, ClientsOK
    <2>4. QED
      BY <2>1, <2>2, <2>3 DEF TypeOK
  <1>26. ASSUME NEW w \in Workers, FailGet(w) PROVE TypeOK'
    <2>1. TablesOK'
      BY <1>0, <1>26 DEF FailGet, db, client, env, hist, TablesOK, WorkersOK, ClientsOK,
         WfRow, TaskRow, Status, Terminal
    <2>2. WorkersOK'
      BY <1>0, <1>26 DEF FailGet, Goto, db, client, env, hist, TablesOK, WorkersOK,
         Passing, Executing, Closing
    <2>3. ClientsOK'
      BY <1>0, <1>26, OptionAssumption DEF FailGet, db, client, env, hist, TablesOK,
         ClientsOK
    <2>4. QED
      BY <2>1, <2>2, <2>3 DEF TypeOK
  <1>27. ASSUME NEW w \in Workers, Requeue(w) PROVE TypeOK'
    <2>1. TablesOK'
      BY <1>0, <1>27 DEF Requeue, PutTask, Hold, client, env, TablesOK, WorkersOK,
         ClientsOK, WfRow, TaskRow, Status, Terminal
    <2>2. WorkersOK'
      BY <1>0, <1>27 DEF Requeue, PutTask, Hold, client, env, Goto, TablesOK, WorkersOK,
         Passing, Executing, Closing
    <2>3. ClientsOK'
      BY <1>0, <1>27, OptionAssumption DEF Requeue, PutTask, Hold, client, env, TablesOK,
         ClientsOK
    <2>4. QED
      BY <2>1, <2>2, <2>3 DEF TypeOK
  <1>28. ASSUME NEW w \in Workers, PutError(w) PROVE TypeOK'
    <2>1. TablesOK'
      BY <1>0, <1>28 DEF PutError, PutTask, Hold, client, env, TablesOK, WorkersOK,
         ClientsOK, WfRow, TaskRow, Status, Terminal
    <2>2. WorkersOK'
      BY <1>0, <1>28 DEF PutError, PutTask, Hold, client, env, Goto, TablesOK, WorkersOK,
         Passing, Executing, Closing
    <2>3. ClientsOK'
      BY <1>0, <1>28, OptionAssumption DEF PutError, PutTask, Hold, client, env, TablesOK,
         ClientsOK
    <2>4. QED
      BY <2>1, <2>2, <2>3 DEF TypeOK
  <1>29. ASSUME NEW w \in Workers, FinalizeGet(w) PROVE TypeOK'
    <2>1. TablesOK'
      BY <1>0, <1>29 DEF FinalizeGet, Copy, db, client, env, hist, TablesOK, WorkersOK,
         ClientsOK, WfRow, TaskRow, Status, Terminal
    <2>2. WorkersOK'
      BY <1>0, <1>29 DEF FinalizeGet, Copy, Goto, db, client, env, hist, TablesOK,
         WorkersOK, Passing, Executing, Closing
    <2>3. ClientsOK'
      BY <1>0, <1>29, OptionAssumption DEF FinalizeGet, Copy, db, client, env, hist,
         TablesOK, ClientsOK
    <2>4. QED
      BY <2>1, <2>2, <2>3 DEF TypeOK
  <1>30. ASSUME NEW w \in Workers, FinalizeList(w) PROVE TypeOK'
    <2>1. TablesOK'
      BY <1>0, <1>30 DEF FinalizeList, Copy, Rest, db, client, env, hist, TablesOK,
         WorkersOK, ClientsOK, WfRow, TaskRow, Status, Terminal
    <2>2. WorkersOK'
      <3>1. CASE Copy(w, Verdict(seen[w], tasks), NewTasks, {}) /\ Goto(w, "finPut")
        <4>1. Verdict(seen[w], tasks) \in WfRow
          BY <1>0 DEF WorkersOK
        <4>2. QED
          BY <1>0, <1>30, <3>1, <4>1 DEF FinalizeList, Copy, Goto, WorkersOK, Executing,
             Closing
      <3>2. CASE Rest(w)
        BY <1>0, <1>30, <3>2 DEF FinalizeList, Rest, Copy, Goto, WorkersOK, Passing,
           Executing, Closing
      <3>3. QED
        BY <1>30, <3>1, <3>2 DEF FinalizeList
    <2>3. ClientsOK'
      BY <1>0, <1>30, OptionAssumption DEF FinalizeList, Copy, Rest, db, client, env,
         hist, TablesOK, ClientsOK
    <2>4. QED
      BY <2>1, <2>2, <2>3 DEF TypeOK
  <1>31. ASSUME NEW w \in Workers, FinalizePut(w) PROVE TypeOK'
    <2>1. TablesOK'
      BY <1>0, <1>31 DEF FinalizePut, Rest, Copy, client, env, hist, TablesOK, WorkersOK,
         ClientsOK, WfRow, TaskRow, Status, Terminal
    <2>2. WorkersOK'
      BY <1>0, <1>31 DEF FinalizePut, Rest, Goto, Copy, client, env, hist, TablesOK,
         WorkersOK, Passing, Executing, Closing
    <2>3. ClientsOK'
      BY <1>0, <1>31, OptionAssumption DEF FinalizePut, Rest, Copy, client, env, hist,
         TablesOK, ClientsOK
    <2>4. QED
      BY <2>1, <2>2, <2>3 DEF TypeOK
  <1>32. ASSUME NEW c \in Clients, CancelGet(c) PROVE TypeOK'
    <2>1. TablesOK'
      BY <1>0, <1>32 DEF CancelGet, db, worker, env, TablesOK, WorkersOK, ClientsOK,
         WfRow, TaskRow, Status, Terminal
    <2>2. WorkersOK'
      BY <1>0, <1>32 DEF CancelGet, db, worker, env, TablesOK, WorkersOK, Passing,
         Executing, Closing
    <2>3. ClientsOK'
      BY <1>0, <1>32, OptionAssumption DEF CancelGet, db, worker, env, TablesOK, ClientsOK
    <2>4. QED
      BY <2>1, <2>2, <2>3 DEF TypeOK
  <1>33. ASSUME NEW c \in Clients, CancelPut(c) PROVE TypeOK'
    <2>1. TablesOK'
      BY <1>0, <1>33 DEF CancelPut, worker, env, hist, TablesOK, WorkersOK, ClientsOK,
         WfRow, TaskRow, Status, Terminal
    <2>2. WorkersOK'
      BY <1>0, <1>33 DEF CancelPut, worker, env, hist, TablesOK, WorkersOK, Passing,
         Executing, Closing
    <2>3. ClientsOK'
      BY <1>0, <1>33, OptionAssumption DEF CancelPut, worker, env, hist, TablesOK, ClientsOK
    <2>4. QED
      BY <2>1, <2>2, <2>3 DEF TypeOK
  <1>34. ASSUME DeadlinePasses PROVE TypeOK'
    <2>1. TablesOK'
      BY <1>0, <1>34 DEF DeadlinePasses, db, worker, client, TablesOK, WorkersOK,
         ClientsOK, WfRow, TaskRow, Status, Terminal
    <2>2. WorkersOK'
      BY <1>0, <1>34 DEF DeadlinePasses, db, worker, client, TablesOK, WorkersOK, Passing,
         Executing, Closing
    <2>3. ClientsOK'
      BY <1>0, <1>34, OptionAssumption DEF DeadlinePasses, db, worker, client, TablesOK,
         ClientsOK
    <2>4. QED
      BY <2>1, <2>2, <2>3 DEF TypeOK
  <1>35. ASSUME NEW t \in Tasks, BackoffEnds(t) PROVE TypeOK'
    <2>1. TablesOK'
      BY <1>0, <1>35 DEF BackoffEnds, worker, client, env, hist, TablesOK, WorkersOK,
         ClientsOK, WfRow, TaskRow, Status, Terminal
    <2>2. WorkersOK'
      BY <1>0, <1>35 DEF BackoffEnds, worker, client, env, hist, TablesOK, WorkersOK,
         Passing, Executing, Closing
    <2>3. ClientsOK'
      BY <1>0, <1>35, OptionAssumption DEF BackoffEnds, worker, client, env, hist,
         TablesOK, ClientsOK
    <2>4. QED
      BY <2>1, <2>2, <2>3 DEF TypeOK
  <1>36. ASSUME Crash PROVE TypeOK'
    <2>1. TablesOK'
      BY <1>0, <1>36 DEF Crash, db, hist, TablesOK, WorkersOK, ClientsOK, WfRow, TaskRow,
         Status, Terminal
    <2>2. WorkersOK'
      BY <1>0, <1>36 DEF Crash, db, hist, TablesOK, WorkersOK, Passing, Executing, Closing
    <2>3. ClientsOK'
      BY <1>0, <1>36, OptionAssumption DEF Crash, db, hist, TablesOK, ClientsOK
    <2>4. QED
      BY <2>1, <2>2, <2>3 DEF TypeOK
  <1>37. ASSUME Start PROVE TypeOK'
    <2>1. TablesOK'
      <3>1. wf' \in WfRow
        BY <1>0, <1>37, WfRowEdits DEF Start, recover, TablesOK, Status
      <3>2. tasks' \in [Tasks -> TaskRow]
        BY <1>0, <1>37, TaskRowEdits DEF Start, recover, TablesOK, Status
      <3>3. QED
        BY <1>0, <1>37, <3>1, <3>2 DEF Start, hist, TablesOK
    <2>2. WorkersOK'
      BY <1>0, <1>37 DEF Start, recover, worker, client, hist, TablesOK, WorkersOK,
         Passing, Executing, Closing
    <2>3. ClientsOK'
      BY <1>0, <1>37, OptionAssumption DEF Start, recover, worker, client, hist, TablesOK,
         ClientsOK
    <2>4. QED
      BY <2>1, <2>2, <2>3 DEF TypeOK
  <1>38. CASE UNCHANGED vars
    BY <1>0, <1>38 DEF vars, TypeOK, TablesOK, WorkersOK, ClientsOK
  <1>39. QED
    BY <1>1, <1>2, <1>3, <1>4, <1>5, <1>6, <1>7, <1>8, <1>9, <1>10, <1>11, <1>12, <1>13,
       <1>14, <1>15, <1>16, <1>17, <1>18, <1>19, <1>20, <1>21, <1>22, <1>23, <1>24, <1>25,
       <1>26, <1>27, <1>28, <1>29, <1>30, <1>31, <1>32, <1>33, <1>34, <1>35, <1>36, <1>37,
       <1>38
       DEF Next, WorkerStep, PassStep, ExecuteStep, FinalizeStep

\* TypeOK holds in every reachable state: of each variable, and that a worker
\* holds a task exactly while it executes one (execute_claimed_task).
THEOREM TypeCorrect == Spec => []TypeOK
  BY InitType, StepType, PTL DEF Spec

-----------------------------------------------------------------------------
(* Who executes a task.                                                    *)

\* What a step may do to rows, owners and outcomes.
Keeps == UNCHANGED <<up, tasks, cur, settled>>
Cancels ==
    /\ \E t \in Tasks, row \in TaskRow :
         row.status = "cancelled" /\ tasks' = [tasks EXCEPT ![t] = row]
    /\ UNCHANGED <<up, cur, settled>>
Takes(w, t) ==
    /\ tasks[t].status = "queued"
    /\ \E row \in TaskRow : row.status = "running" /\ tasks' = [tasks EXCEPT ![t] = row]
    /\ cur' = [cur EXCEPT ![w] = t]
    /\ UNCHANGED <<up, settled>>
Gives(w) ==
    /\ cur[w] \in Tasks
    /\ \E row \in TaskRow :
         /\ tasks' = [tasks EXCEPT ![cur[w]] = row]
         /\ \/ row.status = "queued" /\ UNCHANGED settled
            \/ row.status \in Terminal /\ settled' = [settled EXCEPT ![cur[w]] = TRUE]
    /\ cur' = [cur EXCEPT ![w] = NoTask]
    /\ UNCHANGED up

OwnerStep ==
    \/ Keeps \/ Cancels
    \/ \E w \in Workers, t \in Tasks : pc[w] = "pick" /\ Takes(w, t)
    \/ \E w \in Workers : Gives(w)
    \/ Crash \/ Start

\* Every step is one of these.
LEMMA StepsOfOwners == TypeOK /\ [Next]_vars => OwnerStep
  <1> SUFFICES ASSUME TypeOK, [Next]_vars PROVE OwnerStep
    OBVIOUS
  <1>0. TablesOK /\ WorkersOK
    BY DEF TypeOK
  <1>1. ASSUME NEW w \in Workers, ListWorkflow(w) PROVE OwnerStep
    BY <1>1 DEF ListWorkflow, db, env, hist, OwnerStep, Keeps
  <1>2. ASSUME NEW w \in Workers, ListExpired(w) PROVE OwnerStep
    BY <1>2 DEF ListExpired, db, env, hist, OwnerStep, Keeps
  <1>3. ASSUME NEW w \in Workers, ExpireWorkflow(w) PROVE OwnerStep
    BY <1>3 DEF ExpireWorkflow, env, hist, OwnerStep, Keeps
  <1>4. ASSUME NEW w \in Workers, ListTasks(w) PROVE OwnerStep
    BY <1>4 DEF ListTasks, db, env, hist, OwnerStep, Keeps
  <1>5. ASSUME NEW w \in Workers, NEW t \in Tasks, ExpireTask(w, t) PROVE OwnerStep
    <2>1. list[w][t] \in TaskRow /\ "cancelled" \in Status
      BY <1>0 DEF WorkersOK, Status, Terminal
    <2>2. [list[w][t] EXCEPT !.status = "cancelled"] \in TaskRow
      BY <2>1, TaskRowEdits
    <2>3. [list[w][t] EXCEPT !.status = "cancelled"].status = "cancelled"
      BY <2>1 DEF TaskRow
    <2>4. QED
      BY <1>5, <2>2, <2>3 DEF ExpireTask, CancelListed, env, hist, OwnerStep, Cancels
  <1>6. ASSUME NEW w \in Workers, NEW t \in Tasks, SweepTask(w, t) PROVE OwnerStep
    <2>1. list[w][t] \in TaskRow /\ "cancelled" \in Status
      BY <1>0 DEF WorkersOK, Status, Terminal
    <2>2. [list[w][t] EXCEPT !.status = "cancelled"] \in TaskRow
      BY <2>1, TaskRowEdits
    <2>3. [list[w][t] EXCEPT !.status = "cancelled"].status = "cancelled"
      BY <2>1 DEF TaskRow
    <2>4. QED
      BY <1>6, <2>2, <2>3 DEF SweepTask, CancelListed, env, hist, OwnerStep, Cancels
  <1>7. ASSUME NEW w \in Workers, NEW t \in Tasks, Claim(w, t) PROVE OwnerStep
    <2>1. list[w][t].attempt + 1 \in Nat
      BY <1>0 DEF WorkersOK, TaskRow
    <2> DEFINE row == [status |-> "running", attempt |-> list[w][t].attempt + 1]
    <2>2. row \in TaskRow /\ row.status = "running"
      BY <2>1 DEF TaskRow, Status
    <2>3. Takes(w, t)
      BY <1>7, <2>2 DEF Claim, can_claim, Hold, env, hist, Takes
    <2>4. QED
      BY <1>7, <2>3 DEF Claim, OwnerStep
  <1>8. ASSUME NEW w \in Workers, NEW t \in Tasks, ClaimLost(w, t) PROVE OwnerStep
    BY <1>8 DEF ClaimLost, db, env, hist, OwnerStep, Keeps
  <1>9. ASSUME NEW w \in Workers, NothingToClaim(w) PROVE OwnerStep
    BY <1>9 DEF NothingToClaim, db, env, hist, OwnerStep, Keeps
  <1>10. ASSUME NEW w \in Workers, MarkRunning(w) PROVE OwnerStep
    BY <1>10 DEF MarkRunning, env, hist, OwnerStep, Keeps
  <1>11. ASSUME NEW w \in Workers, Refresh(w) PROVE OwnerStep
    BY <1>11 DEF Refresh, db, env, hist, OwnerStep, Keeps
  <1>12. ASSUME NEW w \in Workers, MarkDue(w) PROVE OwnerStep
    BY <1>12 DEF MarkDue, env, hist, OwnerStep, Keeps
  <1>13. ASSUME NEW w \in Workers, WithinBudget(w) PROVE OwnerStep
    BY <1>13 DEF WithinBudget, db, env, hist, OwnerStep, Keeps
  <1>14. ASSUME NEW w \in Workers, BudgetExceeded(w) PROVE OwnerStep
    BY <1>14 DEF BudgetExceeded, db, env, OwnerStep, Keeps
  <1>15. ASSUME NEW w \in Workers, BudgetWorkflow(w) PROVE OwnerStep
    BY <1>15 DEF BudgetWorkflow, env, hist, OwnerStep, Keeps
  <1>16. ASSUME NEW w \in Workers, BudgetList(w) PROVE OwnerStep
    BY <1>16 DEF BudgetList, db, env, hist, OwnerStep, Keeps
  <1>17. ASSUME NEW w \in Workers, BudgetSwept(w) PROVE OwnerStep
    BY <1>17 DEF BudgetSwept, db, env, hist, OwnerStep, Keeps
  <1>18. ASSUME NEW w \in Workers, NEW t \in Tasks, BudgetSweep(w, t) PROVE OwnerStep
    <2>1. CASE tasks[t].status = "queued"
      <3> DEFINE row == [tasks[t] EXCEPT !.status = "cancelled"]
      <3>1. tasks[t] \in TaskRow /\ "cancelled" \in Status
        BY <1>0 DEF TablesOK, Status, Terminal
      <3>2. row \in TaskRow
        BY <3>1, TaskRowEdits
      <3>3. row.status = "cancelled"
        BY <3>1 DEF TaskRow
      <3>4. QED
        BY <1>18, <2>1, <3>2, <3>3 DEF BudgetSweep, env, hist, OwnerStep, Cancels
    <2>2. CASE tasks[t].status # "queued"
      BY <1>18, <2>2 DEF BudgetSweep, env, hist, OwnerStep, Keeps
    <2>3. QED
      BY <2>1, <2>2
  <1>19. ASSUME NEW w \in Workers, NEW o \in {"ok", "fail"}, RunEnds(w, o) PROVE OwnerStep
    BY <1>19 DEF RunEnds, db, env, OwnerStep, Keeps
  <1>20. ASSUME NEW w \in Workers, RunStops(w) PROVE OwnerStep
    BY <1>20 DEF RunStops, db, env, OwnerStep, Keeps
  <1>21. ASSUME NEW w \in Workers, PutDone(w) PROVE OwnerStep
    <2> DEFINE row == [status |-> "done", attempt |-> try[w]]
    <2>1. cur[w] \in Tasks
      BY <1>0, <1>21 DEF PutDone, WorkersOK, Executing
    <2>2. row \in TaskRow /\ row.status = "done"
      BY <1>0 DEF WorkersOK, TaskRow, Status, Terminal
    <2>3. Gives(w)
      BY <1>21, <2>1, <2>2 DEF PutDone, PutTask, Hold, env, Gives, Terminal
    <2>4. QED
      BY <2>3 DEF OwnerStep
  <1>22. ASSUME NEW w \in Workers, PutCancelled(w) PROVE OwnerStep
    <2> DEFINE row == [status |-> "cancelled", attempt |-> try[w]]
    <2>1. cur[w] \in Tasks
      BY <1>0, <1>22 DEF PutCancelled, WorkersOK, Executing
    <2>2. row \in TaskRow /\ row.status = "cancelled"
      BY <1>0 DEF WorkersOK, TaskRow, Status, Terminal
    <2>3. Gives(w)
      BY <1>22, <2>1, <2>2 DEF PutCancelled, PutTask, Hold, env, Gives, Terminal
    <2>4. QED
      BY <2>3 DEF OwnerStep
  <1>23. ASSUME NEW w \in Workers, PutStopped(w) PROVE OwnerStep
    <2> DEFINE row == [status |-> "cancelled", attempt |-> try[w]]
    <2>1. cur[w] \in Tasks
      BY <1>0, <1>23 DEF PutStopped, WorkersOK, Executing
    <2>2. row \in TaskRow /\ row.status = "cancelled"
      BY <1>0 DEF WorkersOK, TaskRow, Status, Terminal
    <2>3. Gives(w)
      BY <1>23, <2>1, <2>2 DEF PutStopped, PutTask, Hold, env, Gives, Terminal
    <2>4. QED
      BY <2>3 DEF OwnerStep
  <1>24. ASSUME NEW w \in Workers, StopGet(w) PROVE OwnerStep
    BY <1>24 DEF StopGet, db, env, hist, OwnerStep, Keeps
  <1>25. ASSUME NEW w \in Workers, StopWorkflow(w) PROVE OwnerStep
    BY <1>25 DEF StopWorkflow, env, hist, OwnerStep, Keeps
  <1>26. ASSUME NEW w \in Workers, FailGet(w) PROVE OwnerStep
    BY <1>26 DEF FailGet, db, env, hist, OwnerStep, Keeps
  <1>27. ASSUME NEW w \in Workers, Requeue(w) PROVE OwnerStep
    <2> DEFINE row == [status |-> "queued", attempt |-> try[w]]
    <2>1. cur[w] \in Tasks
      BY <1>0, <1>27 DEF Requeue, WorkersOK, Executing
    <2>2. row \in TaskRow /\ row.status = "queued"
      BY <1>0 DEF WorkersOK, TaskRow, Status, Terminal
    <2>3. Gives(w)
      BY <1>27, <2>1, <2>2 DEF Requeue, PutTask, Hold, env, Gives, Terminal
    <2>4. QED
      BY <2>3 DEF OwnerStep
  <1>28. ASSUME NEW w \in Workers, PutError(w) PROVE OwnerStep
    <2> DEFINE row == [status |-> "error", attempt |-> try[w]]
    <2>1. cur[w] \in Tasks
      BY <1>0, <1>28 DEF PutError, WorkersOK, Executing
    <2>2. row \in TaskRow /\ row.status = "error"
      BY <1>0 DEF WorkersOK, TaskRow, Status, Terminal
    <2>3. Gives(w)
      BY <1>28, <2>1, <2>2 DEF PutError, PutTask, Hold, env, Gives, Terminal
    <2>4. QED
      BY <2>3 DEF OwnerStep
  <1>29. ASSUME NEW w \in Workers, FinalizeGet(w) PROVE OwnerStep
    BY <1>29 DEF FinalizeGet, db, env, hist, OwnerStep, Keeps
  <1>30. ASSUME NEW w \in Workers, FinalizeList(w) PROVE OwnerStep
    BY <1>30 DEF FinalizeList, db, env, hist, OwnerStep, Keeps
  <1>31. ASSUME NEW w \in Workers, FinalizePut(w) PROVE OwnerStep
    BY <1>31 DEF FinalizePut, env, hist, OwnerStep, Keeps
  <1>32. ASSUME NEW c \in Clients, CancelGet(c) PROVE OwnerStep
    BY <1>32 DEF CancelGet, db, worker, env, OwnerStep, Keeps
  <1>33. ASSUME NEW c \in Clients, CancelPut(c) PROVE OwnerStep
    BY <1>33 DEF CancelPut, worker, env, hist, OwnerStep, Keeps
  <1>34. ASSUME DeadlinePasses PROVE OwnerStep
    BY <1>34 DEF DeadlinePasses, db, worker, OwnerStep, Keeps
  <1>35. ASSUME NEW t \in Tasks, BackoffEnds(t) PROVE OwnerStep
    BY <1>35 DEF BackoffEnds, worker, env, hist, OwnerStep, Keeps
  <1>36. ASSUME Crash PROVE OwnerStep
    BY <1>36 DEF OwnerStep
  <1>37. ASSUME Start PROVE OwnerStep
    BY <1>37 DEF OwnerStep
  <1>38. CASE UNCHANGED vars
    BY <1>38 DEF vars, OwnerStep, Keeps
  <1>39. QED
    BY <1>1, <1>2, <1>3, <1>4, <1>5, <1>6, <1>7, <1>8, <1>9, <1>10, <1>11, <1>12, <1>13,
       <1>14, <1>15, <1>16, <1>17, <1>18, <1>19, <1>20, <1>21, <1>22, <1>23, <1>24, <1>25,
       <1>26, <1>27, <1>28, <1>29, <1>30, <1>31, <1>32, <1>33, <1>34, <1>35, <1>36, <1>37,
       <1>38
       DEF Next, WorkerStep, PassStep, ExecuteStep, FinalizeStep

\* Workers move only while the daemon is up.
LEMMA DownStep == DownIdle /\ [Next]_vars => DownIdle'
  <1> SUFFICES ASSUME DownIdle, [Next]_vars PROVE DownIdle'
    OBVIOUS
  <1>1. ASSUME NEW w \in Workers, PassStep(w) PROVE up /\ up'
    BY <1>1 DEF DownIdle, PassStep, ListWorkflow, ListExpired, ExpireWorkflow, ListTasks,
       ExpireTask, SweepTask, CancelListed, Claim, ClaimLost, NothingToClaim, MarkRunning,
       env
  <1>2. ASSUME NEW w \in Workers, ExecuteStep(w) PROVE up /\ up'
    BY <1>2 DEF DownIdle, ExecuteStep, Refresh, MarkDue, WithinBudget, BudgetExceeded,
       BudgetWorkflow, BudgetList, BudgetSwept, BudgetSweep, RunEnds, RunStops, PutTask,
       PutDone, PutCancelled, PutStopped, StopGet, StopWorkflow, FailGet, Requeue,
       PutError, env
  <1>3. ASSUME NEW w \in Workers, FinalizeStep(w) PROVE up /\ up'
    BY <1>3 DEF DownIdle, FinalizeStep, FinalizeGet, FinalizeList, FinalizePut, env
  <1>4. ASSUME NEW c \in Clients, CancelGet(c) \/ CancelPut(c) PROVE UNCHANGED <<up, pc>>
    BY <1>4 DEF CancelGet, CancelPut, worker, env
  <1>5. ASSUME NEW t \in Tasks, BackoffEnds(t) PROVE UNCHANGED <<up, pc>>
    BY <1>5 DEF BackoffEnds, worker, env
  <1>6. DeadlinePasses => UNCHANGED <<up, pc>>
    BY DEF DeadlinePasses, worker
  <1>7. Crash => DownIdle'
    BY DEF Crash, DownIdle
  <1>8. Start => up'
    BY DEF Start
  <1>9. CASE UNCHANGED vars
    BY <1>9 DEF vars, DownIdle
  <1>10. QED
    BY <1>1, <1>2, <1>3, <1>4, <1>5, <1>6, <1>7, <1>8, <1>9 DEF Next, WorkerStep, DownIdle

\* A row leaves the states of an owned or a settled task only through its owner.
LEMMA OwnerInvStep == TypeOK /\ OwnerInv /\ [Next]_vars => OwnerInv'
  <1> SUFFICES ASSUME TypeOK, OwnerInv, [Next]_vars PROVE OwnerInv'
    OBVIOUS
  <1>0. TypeOK' /\ OwnerStep /\ DownIdle'
    BY StepType, StepsOfOwners, DownStep DEF OwnerInv
  <1>a. /\ tasks \in [Tasks -> TaskRow] /\ settled \in [Tasks -> BOOLEAN]
        /\ cur \in [Workers -> Tasks \cup {NoTask}] /\ NoTask \notin Tasks
    BY GraphAssumption DEF TypeOK, TablesOK, WorkersOK
  <1> USE DEF OwnedRow, SettledRow, OneWorkerPerTask
  <1>1. CASE Keeps
    BY <1>0, <1>1 DEF Keeps, OwnerInv
  <1>2. CASE Cancels
    <2>1. PICK t \in Tasks, row \in TaskRow :
             row.status = "cancelled" /\ tasks' = [tasks EXCEPT ![t] = row]
      BY <1>2 DEF Cancels
    <2>2. OwnedRow' /\ OneWorkerPerTask' /\ SettledRow'
      BY <1>2, <1>a, <2>1 DEF Cancels, OwnerInv, Terminal
    <2>3. QED
      BY <1>0, <2>2 DEF OwnerInv
  <1>3. ASSUME NEW w \in Workers, NEW t \in Tasks, Takes(w, t) PROVE OwnerInv'
    <2>1. PICK row \in TaskRow : row.status = "running" /\ tasks' = [tasks EXCEPT ![t] = row]
      BY <1>3 DEF Takes
    <2>2. ~settled[t] /\ \A v \in Workers : cur[v] # t
      BY <1>3, <1>a DEF Takes, OwnerInv, Terminal
    <2>3. OwnedRow' /\ OneWorkerPerTask' /\ SettledRow'
      BY <1>3, <1>a, <2>1, <2>2 DEF Takes, OwnerInv, Terminal
    <2>4. QED
      BY <1>0, <2>3 DEF OwnerInv
  <1>4. ASSUME NEW w \in Workers, Gives(w) PROVE OwnerInv'
    <2>1. PICK row \in TaskRow :
            /\ tasks' = [tasks EXCEPT ![cur[w]] = row]
            /\ \/ row.status = "queued" /\ UNCHANGED settled
               \/ row.status \in Terminal /\ settled' = [settled EXCEPT ![cur[w]] = TRUE]
      BY <1>4 DEF Gives
    <2>2. ~settled[cur[w]] /\ \A v \in Workers \ {w} : cur[v] # cur[w]
      BY <1>4, <1>a DEF Gives, OwnerInv
    <2>3. OwnedRow' /\ OneWorkerPerTask' /\ SettledRow'
      BY <1>4, <1>a, <2>1, <2>2 DEF Gives, OwnerInv
    <2>4. QED
      BY <1>0, <2>3 DEF OwnerInv
  <1>5. CASE Crash
    BY <1>0, <1>5, <1>a DEF Crash, db, hist, OwnerInv
  <1>6. CASE Start
    <2>1. \A w \in Workers : cur'[w] \notin Tasks
      BY <1>6, <1>a DEF Start, worker, OwnerInv, DownIdle, TypeOK, WorkersOK, Executing
    <2>2. SettledRow'
      BY <1>6, <1>a DEF Start, recover, hist, OwnerInv, TaskRow, Terminal
    <2>3. QED
      BY <1>0, <2>1, <2>2 DEF OwnerInv
  <1>7. QED
    BY <1>0, <1>1, <1>2, <1>3, <1>4, <1>5, <1>6 DEF OwnerStep

\* At first nobody executes anything and nothing is settled.
LEMMA OwnerInvInit == Init => OwnerInv
  BY GraphAssumption DEF Init, OwnerInv, DownIdle, OwnedRow, OneWorkerPerTask, SettledRow

\* No two workers ever execute one task (claim_workflow_task).
THEOREM TaskHasOneWorker == Spec => []OneWorkerPerTask
  <1>1. OwnerInv => OneWorkerPerTask
    BY DEF OwnerInv
  <1>2. QED
    BY InitType, StepType, OwnerInvInit, OwnerInvStep, <1>1, PTL DEF Spec

\* No worker claims a task whose outcome was persisted, whatever stale lists,
\* sweeps and recoveries do to its row.
THEOREM NeverRunAgain == Spec => NeverRerun
  <1>1. TypeOK /\ OwnerInv /\ [Next]_vars
          => [\A w \in Workers : Claims(w) => ~settled[cur'[w]]]_vars
    <2> SUFFICES ASSUME TypeOK, OwnerInv, [Next]_vars, NEW w \in Workers, Claims(w)
                 PROVE  ~settled[cur'[w]]
      OBVIOUS
    <2>0. /\ OwnerStep
          /\ cur \in [Workers -> Tasks \cup {NoTask}] /\ NoTask \notin Tasks
      BY StepsOfOwners, GraphAssumption DEF TypeOK, WorkersOK
    <2>1. PICK v \in Workers, t \in Tasks : Takes(v, t)
      BY <2>0 DEF OwnerStep, Claims, Keeps, Cancels, Gives, Crash, Start, worker
    <2>2. cur'[w] = t
      BY <2>0, <2>1 DEF Takes, Claims
    <2>3. QED
      BY <2>1, <2>2 DEF Takes, OwnerInv, SettledRow, Terminal
  <1>2. QED
    BY InitType, StepType, OwnerInvInit, OwnerInvStep, <1>1, PTL DEF Spec, NeverRerun

-----------------------------------------------------------------------------
(* What the tables may say.                                                *)

\* History only grows.
LEMMA HistoryGrows ==
  TypeOK /\ [Next]_vars => (\A t \in Tasks : ran[t] \subseteq ran'[t]) /\ (wanted => wanted')
  <1> SUFFICES ASSUME TypeOK, [Next]_vars
               PROVE  (\A t \in Tasks : ran[t] \subseteq ran'[t]) /\ (wanted => wanted')
    OBVIOUS
  <1>0. ran \in [Tasks -> SUBSET {"ok", "fail", "stopped"}]
    BY DEF TypeOK, TablesOK
  <1>1. ASSUME NEW w \in Workers, PassStep(w) PROVE UNCHANGED <<ran, wanted>>
    BY <1>1 DEF PassStep, ListWorkflow, ListExpired, ExpireWorkflow, ListTasks,
       ExpireTask, SweepTask, CancelListed, Claim, ClaimLost, NothingToClaim, MarkRunning,
       hist
  <1>2. ASSUME NEW w \in Workers, ExecuteStep(w)
        PROVE  (\A t \in Tasks : ran[t] \subseteq ran'[t]) /\ (wanted => wanted')
    <2>1. CASE RunStops(w) \/ \E out \in {"ok", "fail"} : RunEnds(w, out)
      BY <1>0, <2>1 DEF RunStops, RunEnds
    <2>2. CASE BudgetExceeded(w)
      BY <2>2 DEF BudgetExceeded
    <2>3. ASSUME ~RunStops(w), \A out \in {"ok", "fail"} : ~RunEnds(w, out), ~BudgetExceeded(w)
          PROVE  UNCHANGED <<ran, wanted>>
      BY <1>2, <2>3 DEF ExecuteStep, Refresh, MarkDue, WithinBudget, BudgetWorkflow,
         BudgetList,
         BudgetSwept, BudgetSweep, PutTask, PutDone, PutCancelled, PutStopped, StopGet,
         StopWorkflow, FailGet, Requeue, PutError, hist
    <2>4. QED
      BY <2>1, <2>2, <2>3
  <1>3. ASSUME NEW w \in Workers, FinalizeStep(w) PROVE UNCHANGED <<ran, wanted>>
    BY <1>3 DEF FinalizeStep, FinalizeGet, FinalizeList, FinalizePut, hist
  <1>4. ASSUME NEW c \in Clients, CancelGet(c) \/ CancelPut(c)
        PROVE  UNCHANGED ran /\ (wanted => wanted')
    BY <1>4 DEF CancelGet, CancelPut, hist
  <1>5. ASSUME NEW t \in Tasks, BackoffEnds(t) PROVE UNCHANGED <<ran, wanted>>
    BY <1>5 DEF BackoffEnds, hist
  <1>6. DeadlinePasses \/ Crash \/ Start => UNCHANGED ran /\ (wanted => wanted')
    BY DEF DeadlinePasses, Crash, Start, hist
  <1>7. CASE UNCHANGED vars
    BY <1>7 DEF vars
  <1>8. QED
    BY <1>1, <1>2, <1>3, <1>4, <1>5, <1>6, <1>7 DEF Next, WorkerStep

\* What was true stays true.
LEMMA RowsStay ==
  ASSUME NEW r, NEW r2, NEW x, NEW x2, NEW rows,
         \A t \in Tasks : r[t] \subseteq r2[t], x => x2, RowsOk(rows, r, x)
  PROVE  RowsOk(rows, r2, x2)
  BY DEF RowsOk

\* The same for the workflow's row.
LEMMA WfStays ==
  ASSUME NEW r, NEW r2, NEW x, NEW x2, NEW row,
         \A t \in Tasks : r[t] \subseteq r2[t], x => x2, WfOk(row, r, x)
  PROVE  WfOk(row, r2, x2)
  BY DEF WfOk

\* Fresh rows say nothing.
LEMMA NewTrue ==
  ASSUME NEW r, NEW x PROVE WfOk(NewWf, r, x) /\ RowsOk(NewTasks, r, x)
  BY DEF WfOk, RowsOk, NewWf, NewTasks

\* The edits of the code keep a workflow's row true.
LEMMA WfEdits ==
  ASSUME NEW r, NEW x, NEW row \in WfRow, WfOk(row, r, x)
  PROVE  /\ \A s \in {"queued", "running"} : WfOk([row EXCEPT !.status = s], r, x)
         /\ x => \A e \in {"none", "deadline", "other"} :
                   WfOk([row EXCEPT !.cancel = TRUE, !.err = e], r, x)
         /\ x => \A s \in {"queued", "running", row.status} :
                   WfOk([row EXCEPT !.cancel = TRUE, !.status = s], r, x)
  BY DEF WfOk, WfRow

\* So do the edits of a task's row.
LEMMA RowsEdits ==
  ASSUME NEW r, NEW x, NEW rows \in [Tasks -> TaskRow], RowsOk(rows, r, x),
         NEW t \in Tasks, NEW row,
         row.status = "done" => "ok" \in r[t], row.status = "error" => "fail" \in r[t],
         row.status = "cancelled" => x
  PROVE  RowsOk([rows EXCEPT ![t] = row], r, x)
  BY DEF RowsOk

\* A verdict reached from true copies is true.
LEMMA VerdictTrue ==
  ASSUME NEW r, NEW x, NEW row \in WfRow, NEW rows \in [Tasks -> TaskRow],
         WfOk(row, r, x), RowsOk(rows, r, x)
  PROVE  WfOk(Verdict(row, rows), r, x)
  <1>1. CASE HardError(rows)
    <2>1. Verdict(row, rows).status = "error" /\ Verdict(row, rows).cancel = row.cancel
      BY <1>1 DEF Verdict, WfRow
    <2>2. \E t \in Tasks \ AllowError : "fail" \in r[t]
      BY <1>1 DEF HardError, RowsOk
    <2>3. QED
      BY <2>1, <2>2 DEF WfOk
  <1>2. CASE ~HardError(rows) /\ row.cancel
    <2>1. Verdict(row, rows).status \in {"cancelled", "running"} /\ x
      BY <1>2 DEF Verdict, WfRow, WfOk
    <2>2. QED
      BY <2>1 DEF WfOk
  <1>3. CASE ~HardError(rows) /\ ~row.cancel /\ AllTerminal(rows)
    <2>1. Verdict(row, rows).status = "done" /\ ~Verdict(row, rows).cancel
      BY <1>3 DEF Verdict, WfRow
    <2>2. x \/ \A t \in Tasks : "ok" \in r[t] \/ (t \in AllowError /\ "fail" \in r[t])
      BY <1>3 DEF HardError, AllTerminal, Terminal, RowsOk
    <2>3. QED
      BY <2>1, <2>2 DEF WfOk
  <1>4. CASE ~HardError(rows) /\ ~row.cancel /\ ~AllTerminal(rows)
    <2>1. Verdict(row, rows).status \in {"running", "queued"} /\ ~Verdict(row, rows).cancel
      BY <1>4 DEF Verdict, WfRow
    <2>2. QED
      BY <2>1 DEF WfOk
  <1>5. QED
    BY <1>1, <1>2, <1>3, <1>4

\* A task that is runnable in a true list has its dependencies behind it.
LEMMA RunnableSatisfied ==
  ASSUME RowsOk(tasks, ran, wanted)
  PROVE  \A t \in Runnable(tasks) : \A d \in Deps[t] : Satisfied(t, d)
  <1> SUFFICES ASSUME NEW t \in Runnable(tasks), NEW d \in Deps[t] PROVE Satisfied(t, d)
    OBVIOUS
  <1>1. t \in Tasks /\ d \in Tasks /\ DepOk(t, d, tasks)
    BY GraphAssumption DEF Runnable, With
  <1>2. QED
    BY <1>1 DEF DepOk, Satisfied, RowsOk, Terminal

\* Every step keeps the tables, the copies and the workers truthful.
LEMMA HonestStep == TypeOK /\ HonestInv /\ [Next]_vars => HonestInv'
  <1> SUFFICES ASSUME TypeOK, HonestInv, [Next]_vars PROVE HonestInv'
    OBVIOUS
  <1>0. TablesTrue /\ CopiesTrue /\ StepsTrue /\ TablesOK /\ WorkersOK /\ ClientsOK
    BY DEF TypeOK, HonestInv
  <1>a. (\A t \in Tasks : ran[t] \subseteq ran'[t]) /\ (wanted => wanted')
    BY HistoryGrows
  <1>b. /\ \A rows : RowsOk(rows, ran, wanted) => RowsOk(rows, ran', wanted')
        /\ \A row : WfOk(row, ran, wanted) => WfOk(row, ran', wanted')
        /\ WfOk(NewWf, ran', wanted') /\ RowsOk(NewTasks, ran', wanted')
    BY <1>a, RowsStay, WfStays, NewTrue
  <1>c. ASSUME NEW v \in Workers, pc'[v] = pc[v], cur'[v] = cur[v], left'[v] = left[v]
        PROVE  StepTrue(v)'
    <2>1. cur[v] \in Tasks => ran[cur[v]] \subseteq ran'[cur[v]]
      BY <1>a
    <2>2. pc[v] \in {"putDone", "failGet", "requeue", "putError"} => cur[v] \in Tasks
      BY <1>0 DEF WorkersOK, Executing
    <2>3. \A t, d : t \in left[v] /\ d \in Deps[t] /\ Satisfied(t, d) => Satisfied(t, d)'
      BY <1>0, <1>a, GraphAssumption DEF WorkersOK, Satisfied
    <2>4. QED
      BY <1>0, <1>a, <1>c, <2>1, <2>2, <2>3 DEF StepsTrue, StepTrue
  <1>1. ASSUME NEW w \in Workers, ListWorkflow(w) PROVE HonestInv'
    <2>1. TablesTrue'
      BY <1>0, <1>1, <1>b DEF ListWorkflow, Copy, db, client, env, hist, TablesTrue
    <2>2. CopiesTrue'
      BY <1>0, <1>1, <1>b DEF ListWorkflow, Copy, db, client, env, hist, CopiesTrue,
         TablesTrue, TablesOK, WorkersOK, ClientsOK
    <2>3. StepTrue(w)'
      BY <1>0, <1>1 DEF ListWorkflow, Copy, Goto, db, client, env, hist, StepTrue,
         Stopping, StepsTrue, TablesTrue, WorkersOK
    <2>4. \A v \in Workers \ {w} : StepTrue(v)'
      BY <1>0, <1>1, <1>c DEF ListWorkflow, Copy, Goto, db, client, env, hist, WorkersOK
    <2>5. QED
      BY <2>1, <2>2, <2>3, <2>4 DEF HonestInv, StepsTrue
  <1>2. ASSUME NEW w \in Workers, ListExpired(w) PROVE HonestInv'
    <2>1. TablesTrue'
      BY <1>0, <1>2, <1>b DEF ListExpired, Copy, db, client, env, hist, TablesTrue
    <2>2. CopiesTrue'
      BY <1>0, <1>2, <1>b DEF ListExpired, Copy, db, client, env, hist, CopiesTrue,
         TablesTrue, TablesOK, WorkersOK, ClientsOK
    <2>3. StepTrue(w)'
      BY <1>0, <1>2 DEF ListExpired, Copy, Goto, db, client, env, hist, StepTrue,
         Stopping, StepsTrue, TablesTrue, WorkersOK
    <2>4. \A v \in Workers \ {w} : StepTrue(v)'
      BY <1>0, <1>2, <1>c DEF ListExpired, Copy, Goto, db, client, env, hist, WorkersOK
    <2>5. QED
      BY <2>1, <2>2, <2>3, <2>4 DEF HonestInv, StepsTrue
  <1>3. ASSUME NEW w \in Workers, ExpireWorkflow(w) PROVE HonestInv'
    <2>1. TablesTrue'
      <3>1. WfOk(wf', ran, wanted)
        BY <1>0, <1>3, WfEdits, WfRowEdits DEF ExpireWorkflow, StepsTrue, StepTrue,
           Stopping, TablesTrue, CopiesTrue, WorkersOK, ClientsOK, TablesOK
      <3>2. QED
        BY <1>0, <1>3, <1>b, <3>1 DEF ExpireWorkflow, Copy, client, env, hist, TablesTrue
    <2>2. CopiesTrue'
      BY <1>0, <1>3, <1>b DEF ExpireWorkflow, Copy, client, env, hist, CopiesTrue,
         TablesTrue, TablesOK, WorkersOK, ClientsOK
    <2>3. StepTrue(w)'
      BY <1>0, <1>3 DEF ExpireWorkflow, Goto, Copy, client, env, hist, StepTrue, Stopping,
         StepsTrue, TablesTrue, WorkersOK
    <2>4. \A v \in Workers \ {w} : StepTrue(v)'
      BY <1>0, <1>3, <1>c DEF ExpireWorkflow, Goto, Copy, client, env, hist, WorkersOK
    <2>5. QED
      BY <2>1, <2>2, <2>3, <2>4 DEF HonestInv, StepsTrue
  <1>4. ASSUME NEW w \in Workers, ListTasks(w) PROVE HonestInv'
    <2>1. TablesTrue'
      BY <1>0, <1>4, <1>b DEF ListTasks, Rest, Copy, db, client, env, hist, TablesTrue
    <2>2. CopiesTrue'
      BY <1>0, <1>4, <1>b DEF ListTasks, Rest, Copy, db, client, env, hist, CopiesTrue,
         TablesTrue, TablesOK, WorkersOK, ClientsOK
    <2>3. StepTrue(w)'
      <3>1. UNCHANGED <<ran, wanted>> /\ pc \in [Workers -> Passing \cup Executing \cup Closing]
            /\ left \in [Workers -> SUBSET Tasks]
        BY <1>0, <1>4 DEF ListTasks, hist, WorkersOK
      <3>2. CASE pc'[w] = "idle"
        BY <3>2 DEF StepTrue, Stopping
      <3>3. CASE pc'[w] = "sweep" /\ seen[w].cancel
        BY <1>0, <3>1, <3>3 DEF StepTrue, Stopping, CopiesTrue, WfOk
      <3>4. CASE pc'[w] = "pick" /\ left'[w] = Runnable(tasks)
        <4>1. \A t \in Runnable(tasks) : \A d \in Deps[t] : Satisfied(t, d)
          BY <1>0, RunnableSatisfied DEF TablesTrue
        <4>2. \A t \in left'[w] : \A d \in Deps[t] : Satisfied(t, d)'
          BY <3>1, <3>4, <4>1 DEF Satisfied
        <4>3. QED
          BY <3>4, <4>2 DEF StepTrue, Stopping
      <3>5. QED
        BY <1>4, <3>1, <3>2, <3>3, <3>4 DEF ListTasks, Rest, Goto, Copy
    <2>4. \A v \in Workers \ {w} : StepTrue(v)'
      BY <1>0, <1>4, <1>c DEF ListTasks, Rest, Goto, Copy, db, client, env, hist, WorkersOK
    <2>5. QED
      BY <2>1, <2>2, <2>3, <2>4 DEF HonestInv, StepsTrue
  <1>5. ASSUME NEW w \in Workers, NEW t \in Tasks, ExpireTask(w, t) PROVE HonestInv'
    <2>1. TablesTrue'
      <3> DEFINE row == [list[w][t] EXCEPT !.status = "cancelled"]
      <3>1. wanted /\ tasks \in [Tasks -> TaskRow] /\ RowsOk(tasks, ran, wanted)
        BY <1>0, <1>5 DEF ExpireTask, StepsTrue, StepTrue, Stopping, TablesTrue, TablesOK
      <3>2. row.status = "cancelled"
        BY <1>0 DEF WorkersOK, TaskRow
      <3>3. RowsOk([tasks EXCEPT ![t] = row], ran, wanted)
        BY <3>1, <3>2, RowsEdits
      <3>4. tasks' = [tasks EXCEPT ![t] = row]
        BY <1>5 DEF ExpireTask, CancelListed
      <3>5. QED
        BY <1>0, <1>5, <1>b, <3>3, <3>4 DEF ExpireTask, CancelListed, client, env, hist,
           TablesTrue
    <2>2. CopiesTrue'
      BY <1>0, <1>5, <1>b DEF ExpireTask, CancelListed, client, env, hist, CopiesTrue,
         TablesTrue, TablesOK, WorkersOK, ClientsOK
    <2>3. StepTrue(w)'
      BY <1>0, <1>5 DEF ExpireTask, CancelListed, client, env, hist, StepTrue, Stopping,
         StepsTrue, TablesTrue, WorkersOK
    <2>4. \A v \in Workers \ {w} : StepTrue(v)'
      BY <1>0, <1>5, <1>c DEF ExpireTask, CancelListed, client, env, hist, WorkersOK
    <2>5. QED
      BY <2>1, <2>2, <2>3, <2>4 DEF HonestInv, StepsTrue
  <1>6. ASSUME NEW w \in Workers, NEW t \in Tasks, SweepTask(w, t) PROVE HonestInv'
    <2>1. TablesTrue'
      <3> DEFINE row == [list[w][t] EXCEPT !.status = "cancelled"]
      <3>1. wanted /\ tasks \in [Tasks -> TaskRow] /\ RowsOk(tasks, ran, wanted)
        BY <1>0, <1>6 DEF SweepTask, StepsTrue, StepTrue, Stopping, TablesTrue, TablesOK
      <3>2. row.status = "cancelled"
        BY <1>0 DEF WorkersOK, TaskRow
      <3>3. RowsOk([tasks EXCEPT ![t] = row], ran, wanted)
        BY <3>1, <3>2, RowsEdits
      <3>4. tasks' = [tasks EXCEPT ![t] = row]
        BY <1>6 DEF SweepTask, CancelListed
      <3>5. QED
        BY <1>0, <1>6, <1>b, <3>3, <3>4 DEF SweepTask, CancelListed, client, env, hist,
           TablesTrue
    <2>2. CopiesTrue'
      BY <1>0, <1>6, <1>b DEF SweepTask, CancelListed, client, env, hist, Goto,
         CopiesTrue, TablesTrue, TablesOK, WorkersOK, ClientsOK
    <2>3. StepTrue(w)'
      BY <1>0, <1>6 DEF SweepTask, CancelListed, client, env, hist, Goto, StepTrue,
         Stopping, StepsTrue, TablesTrue, WorkersOK
    <2>4. \A v \in Workers \ {w} : StepTrue(v)'
      BY <1>0, <1>6, <1>c DEF SweepTask, CancelListed, client, env, hist, Goto, WorkersOK
    <2>5. QED
      BY <2>1, <2>2, <2>3, <2>4 DEF HonestInv, StepsTrue
  <1>7. ASSUME NEW w \in Workers, NEW t \in Tasks, Claim(w, t) PROVE HonestInv'
    <2>1. TablesTrue'
      <3>1. RowsOk(tasks', ran, wanted)
        BY <1>0, <1>7, RowsEdits DEF Claim, StepsTrue, StepTrue, Stopping, TablesTrue,
           WorkersOK, TablesOK, TaskRow, Executing
      <3>2. QED
        BY <1>0, <1>7, <1>b, <3>1 DEF Claim, Hold, Copy, client, env, hist, TablesTrue
    <2>2. CopiesTrue'
      BY <1>0, <1>7, <1>b DEF Claim, Hold, Copy, client, env, hist, CopiesTrue,
         TablesTrue, TablesOK, WorkersOK, ClientsOK
    <2>3. StepTrue(w)'
      BY <1>0, <1>7 DEF Claim, Hold, Copy, Goto, client, env, hist, StepTrue, Stopping,
         StepsTrue, TablesTrue, WorkersOK
    <2>4. \A v \in Workers \ {w} : StepTrue(v)'
      BY <1>0, <1>7, <1>c DEF Claim, Hold, Copy, Goto, client, env, hist, WorkersOK
    <2>5. QED
      BY <2>1, <2>2, <2>3, <2>4 DEF HonestInv, StepsTrue
  <1>8. ASSUME NEW w \in Workers, NEW t \in Tasks, ClaimLost(w, t) PROVE HonestInv'
    <2>1. TablesTrue'
      BY <1>0, <1>8, <1>b DEF ClaimLost, db, client, env, hist, TablesTrue
    <2>2. CopiesTrue'
      BY <1>0, <1>8, <1>b DEF ClaimLost, db, client, env, hist, CopiesTrue, TablesTrue,
         TablesOK, WorkersOK, ClientsOK
    <2>3. StepTrue(w)'
      <3>1. UNCHANGED <<ran, wanted, pc>> /\ pc[w] = "pick" /\ left'[w] \subseteq left[w]
        BY <1>0, <1>8 DEF ClaimLost, hist, WorkersOK
      <3>2. \A u \in left'[w] : \A d \in Deps[u] : Satisfied(u, d)'
        BY <1>0, <3>1 DEF StepsTrue, StepTrue, Satisfied
      <3>3. QED
        BY <3>1, <3>2 DEF StepTrue, Stopping
    <2>4. \A v \in Workers \ {w} : StepTrue(v)'
      BY <1>0, <1>8, <1>c DEF ClaimLost, db, client, env, hist, WorkersOK
    <2>5. QED
      BY <2>1, <2>2, <2>3, <2>4 DEF HonestInv, StepsTrue
  <1>9. ASSUME NEW w \in Workers, NothingToClaim(w) PROVE HonestInv'
    <2>1. TablesTrue'
      BY <1>0, <1>9, <1>b DEF NothingToClaim, Copy, db, client, env, hist, TablesTrue
    <2>2. CopiesTrue'
      BY <1>0, <1>9, <1>b DEF NothingToClaim, Copy, db, client, env, hist, CopiesTrue,
         TablesTrue, TablesOK, WorkersOK, ClientsOK
    <2>3. StepTrue(w)'
      BY <1>0, <1>9 DEF NothingToClaim, Goto, Copy, db, client, env, hist, StepTrue,
         Stopping, StepsTrue, TablesTrue, WorkersOK
    <2>4. \A v \in Workers \ {w} : StepTrue(v)'
      BY <1>0, <1>9, <1>c DEF NothingToClaim, Goto, Copy, db, client, env, hist, WorkersOK
    <2>5. QED
      BY <2>1, <2>2, <2>3, <2>4 DEF HonestInv, StepsTrue
  <1>10. ASSUME NEW w \in Workers, MarkRunning(w) PROVE HonestInv'
    <2>1. TablesTrue'
      <3>1. WfOk(wf', ran, wanted)
        BY <1>0, <1>10, WfEdits, WfRowEdits DEF MarkRunning, StepsTrue, StepTrue,
           Stopping, TablesTrue, CopiesTrue, WorkersOK, ClientsOK, TablesOK
      <3>2. QED
        BY <1>0, <1>10, <1>b, <3>1 DEF MarkRunning, client, env, hist, TablesTrue
    <2>2. CopiesTrue'
      BY <1>0, <1>10, <1>b DEF MarkRunning, client, env, hist, CopiesTrue, TablesTrue,
         TablesOK, WorkersOK, ClientsOK
    <2>3. StepTrue(w)'
      BY <1>0, <1>10 DEF MarkRunning, Goto, client, env, hist, StepTrue, Stopping,
         StepsTrue, TablesTrue, WorkersOK
    <2>4. \A v \in Workers \ {w} : StepTrue(v)'
      BY <1>0, <1>10, <1>c DEF MarkRunning, Goto, client, env, hist, WorkersOK
    <2>5. QED
      BY <2>1, <2>2, <2>3, <2>4 DEF HonestInv, StepsTrue
  <1>11. ASSUME NEW w \in Workers, Refresh(w) PROVE HonestInv'
    <2>1. TablesTrue'
      BY <1>0, <1>11, <1>b DEF Refresh, Copy, db, client, env, hist, TablesTrue
    <2>2. CopiesTrue'
      BY <1>0, <1>11, <1>b DEF Refresh, Copy, db, client, env, hist, CopiesTrue,
         TablesTrue, TablesOK, WorkersOK, ClientsOK
    <2>3. StepTrue(w)'
      <3>1. wf.cancel \/ late => wanted
        BY <1>0 DEF TablesTrue, WfOk
      <3>2. /\ pc'[w] \in {"putCancelled", "dueWf", "check"} /\ UNCHANGED wanted
            /\ pc'[w] # "check" => wf.cancel \/ late
        BY <1>0, <1>11 DEF Refresh, Goto, hist, WorkersOK
      <3>3. QED
        BY <3>1, <3>2 DEF StepTrue, Stopping
    <2>4. \A v \in Workers \ {w} : StepTrue(v)'
      BY <1>0, <1>11, <1>c DEF Refresh, Copy, Goto, db, client, env, hist, WorkersOK
    <2>5. QED
      BY <2>1, <2>2, <2>3, <2>4 DEF HonestInv, StepsTrue
  <1>12. ASSUME NEW w \in Workers, MarkDue(w) PROVE HonestInv'
    <2>1. TablesTrue'
      <3>1. WfOk(wf', ran, wanted)
        BY <1>0, <1>12, WfEdits, WfRowEdits DEF MarkDue, StepsTrue, StepTrue, Stopping,
           TablesTrue, CopiesTrue, WorkersOK, ClientsOK, TablesOK
      <3>2. QED
        BY <1>0, <1>12, <1>b, <3>1 DEF MarkDue, client, env, hist, TablesTrue
    <2>2. CopiesTrue'
      BY <1>0, <1>12, <1>b DEF MarkDue, client, env, hist, CopiesTrue, TablesTrue,
         TablesOK, WorkersOK, ClientsOK
    <2>3. StepTrue(w)'
      BY <1>0, <1>12 DEF MarkDue, Goto, client, env, hist, StepTrue, Stopping, StepsTrue,
         TablesTrue, WorkersOK
    <2>4. \A v \in Workers \ {w} : StepTrue(v)'
      BY <1>0, <1>12, <1>c DEF MarkDue, Goto, client, env, hist, WorkersOK
    <2>5. QED
      BY <2>1, <2>2, <2>3, <2>4 DEF HonestInv, StepsTrue
  <1>13. ASSUME NEW w \in Workers, WithinBudget(w) PROVE HonestInv'
    <2>1. TablesTrue'
      BY <1>0, <1>13, <1>b DEF WithinBudget, Copy, db, client, env, hist, TablesTrue
    <2>2. CopiesTrue'
      BY <1>0, <1>13, <1>b DEF WithinBudget, Copy, db, client, env, hist, CopiesTrue,
         TablesTrue, TablesOK, WorkersOK, ClientsOK
    <2>3. StepTrue(w)'
      BY <1>0, <1>13 DEF WithinBudget, Copy, Goto, db, client, env, hist, StepTrue,
         Stopping, StepsTrue, TablesTrue, WorkersOK
    <2>4. \A v \in Workers \ {w} : StepTrue(v)'
      BY <1>0, <1>13, <1>c DEF WithinBudget, Copy, Goto, db, client, env, hist, WorkersOK
    <2>5. QED
      BY <2>1, <2>2, <2>3, <2>4 DEF HonestInv, StepsTrue
  <1>14. ASSUME NEW w \in Workers, BudgetExceeded(w) PROVE HonestInv'
    <2>1. TablesTrue'
      BY <1>0, <1>14, <1>b DEF BudgetExceeded, db, client, env, TablesTrue
    <2>2. CopiesTrue'
      BY <1>0, <1>14, <1>b DEF BudgetExceeded, db, client, env, CopiesTrue, TablesTrue,
         TablesOK, WorkersOK, ClientsOK
    <2>3. StepTrue(w)'
      BY <1>0, <1>14 DEF BudgetExceeded, Goto, db, client, env, StepTrue, Stopping,
         StepsTrue, TablesTrue, WorkersOK
    <2>4. \A v \in Workers \ {w} : StepTrue(v)'
      BY <1>0, <1>14, <1>c DEF BudgetExceeded, Goto, db, client, env, WorkersOK
    <2>5. QED
      BY <2>1, <2>2, <2>3, <2>4 DEF HonestInv, StepsTrue
  <1>15. ASSUME NEW w \in Workers, BudgetWorkflow(w) PROVE HonestInv'
    <2>1. TablesTrue'
      <3>1. WfOk(wf', ran, wanted)
        BY <1>0, <1>15, WfEdits, WfRowEdits DEF BudgetWorkflow, StepsTrue, StepTrue,
           Stopping, TablesTrue, CopiesTrue, WorkersOK, ClientsOK, TablesOK
      <3>2. QED
        BY <1>0, <1>15, <1>b, <3>1 DEF BudgetWorkflow, client, env, hist, TablesTrue
    <2>2. CopiesTrue'
      BY <1>0, <1>15, <1>b DEF BudgetWorkflow, client, env, hist, CopiesTrue, TablesTrue,
         TablesOK, WorkersOK, ClientsOK
    <2>3. StepTrue(w)'
      BY <1>0, <1>15 DEF BudgetWorkflow, Goto, client, env, hist, StepTrue, Stopping,
         StepsTrue, TablesTrue, WorkersOK
    <2>4. \A v \in Workers \ {w} : StepTrue(v)'
      BY <1>0, <1>15, <1>c DEF BudgetWorkflow, Goto, client, env, hist, WorkersOK
    <2>5. QED
      BY <2>1, <2>2, <2>3, <2>4 DEF HonestInv, StepsTrue
  <1>16. ASSUME NEW w \in Workers, BudgetList(w) PROVE HonestInv'
    <2>1. TablesTrue'
      BY <1>0, <1>16, <1>b DEF BudgetList, Copy, db, client, env, hist, TablesTrue
    <2>2. CopiesTrue'
      BY <1>0, <1>16, <1>b DEF BudgetList, Copy, db, client, env, hist, CopiesTrue,
         TablesTrue, TablesOK, WorkersOK, ClientsOK
    <2>3. StepTrue(w)'
      BY <1>0, <1>16 DEF BudgetList, Copy, Goto, db, client, env, hist, StepTrue,
         Stopping, StepsTrue, TablesTrue, WorkersOK
    <2>4. \A v \in Workers \ {w} : StepTrue(v)'
      BY <1>0, <1>16, <1>c DEF BudgetList, Copy, Goto, db, client, env, hist, WorkersOK
    <2>5. QED
      BY <2>1, <2>2, <2>3, <2>4 DEF HonestInv, StepsTrue
  <1>17. ASSUME NEW w \in Workers, BudgetSwept(w) PROVE HonestInv'
    <2>1. TablesTrue'
      BY <1>0, <1>17, <1>b DEF BudgetSwept, db, client, env, hist, TablesTrue
    <2>2. CopiesTrue'
      BY <1>0, <1>17, <1>b DEF BudgetSwept, db, client, env, hist, CopiesTrue, TablesTrue,
         TablesOK, WorkersOK, ClientsOK
    <2>3. StepTrue(w)'
      BY <1>0, <1>17 DEF BudgetSwept, Goto, db, client, env, hist, StepTrue, Stopping,
         StepsTrue, TablesTrue, WorkersOK
    <2>4. \A v \in Workers \ {w} : StepTrue(v)'
      BY <1>0, <1>17, <1>c DEF BudgetSwept, Goto, db, client, env, hist, WorkersOK
    <2>5. QED
      BY <2>1, <2>2, <2>3, <2>4 DEF HonestInv, StepsTrue
  <1>18. ASSUME NEW w \in Workers, NEW t \in Tasks, BudgetSweep(w, t) PROVE HonestInv'
    <2>1. TablesTrue'
      <3> DEFINE row == [tasks[t] EXCEPT !.status = "cancelled"]
      <3>1. wanted /\ tasks \in [Tasks -> TaskRow] /\ RowsOk(tasks, ran, wanted)
        BY <1>0, <1>18 DEF BudgetSweep, StepsTrue, StepTrue, Stopping, TablesTrue, TablesOK
      <3>2. row.status = "cancelled"
        BY <3>1 DEF TaskRow
      <3>3. RowsOk([tasks EXCEPT ![t] = row], ran, wanted)
        BY <3>1, <3>2, RowsEdits
      <3>4. tasks' = [tasks EXCEPT ![t] = row] \/ tasks' = tasks
        BY <1>18 DEF BudgetSweep
      <3>5. QED
        BY <1>0, <1>18, <1>b, <3>1, <3>3, <3>4 DEF BudgetSweep, client, env, hist,
           TablesTrue
    <2>2. CopiesTrue'
      BY <1>0, <1>18, <1>b DEF BudgetSweep, client, env, hist, CopiesTrue, TablesTrue,
         TablesOK, WorkersOK, ClientsOK
    <2>3. StepTrue(w)'
      BY <1>0, <1>18 DEF BudgetSweep, client, env, hist, StepTrue, Stopping, StepsTrue,
         TablesTrue, WorkersOK
    <2>4. \A v \in Workers \ {w} : StepTrue(v)'
      BY <1>0, <1>18, <1>c DEF BudgetSweep, client, env, hist, WorkersOK
    <2>5. QED
      BY <2>1, <2>2, <2>3, <2>4 DEF HonestInv, StepsTrue
  <1>19. ASSUME NEW w \in Workers, NEW o \in {"ok", "fail"}, RunEnds(w, o) PROVE HonestInv'
    <2>1. TablesTrue'
      BY <1>0, <1>19, <1>b DEF RunEnds, db, client, env, TablesTrue
    <2>2. CopiesTrue'
      BY <1>0, <1>19, <1>b DEF RunEnds, db, client, env, CopiesTrue, TablesTrue, TablesOK,
         WorkersOK, ClientsOK
    <2>3. StepTrue(w)'
      <3>1. cur[w] \in Tasks
        BY <1>0, <1>19 DEF RunEnds, WorkersOK, Executing
      <3>2. o \in ran'[cur[w]] /\ UNCHANGED cur
        BY <1>0, <1>19, <3>1 DEF RunEnds, TablesOK
      <3>3. pc'[w] = IF o = "ok" THEN "putDone" ELSE "failGet"
        BY <1>0, <1>19 DEF RunEnds, Goto, WorkersOK
      <3>4. QED
        BY <3>2, <3>3 DEF StepTrue, Stopping
    <2>4. \A v \in Workers \ {w} : StepTrue(v)'
      BY <1>0, <1>19, <1>c DEF RunEnds, Goto, db, client, env, WorkersOK
    <2>5. QED
      BY <2>1, <2>2, <2>3, <2>4 DEF HonestInv, StepsTrue
  <1>20. ASSUME NEW w \in Workers, RunStops(w) PROVE HonestInv'
    <2>1. TablesTrue'
      BY <1>0, <1>20, <1>b DEF RunStops, db, client, env, TablesTrue
    <2>2. CopiesTrue'
      BY <1>0, <1>20, <1>b DEF RunStops, db, client, env, CopiesTrue, TablesTrue,
         TablesOK, WorkersOK, ClientsOK
    <2>3. StepTrue(w)'
      <3>1. wanted /\ UNCHANGED wanted
        BY <1>0, <1>20 DEF RunStops, TablesTrue, WfOk
      <3>2. pc'[w] = "putStopped"
        BY <1>0, <1>20 DEF RunStops, Goto, WorkersOK
      <3>3. QED
        BY <3>1, <3>2 DEF StepTrue, Stopping
    <2>4. \A v \in Workers \ {w} : StepTrue(v)'
      BY <1>0, <1>20, <1>c DEF RunStops, Goto, db, client, env, WorkersOK
    <2>5. QED
      BY <2>1, <2>2, <2>3, <2>4 DEF HonestInv, StepsTrue
  <1>21. ASSUME NEW w \in Workers, PutDone(w) PROVE HonestInv'
    <2>1. TablesTrue'
      <3>1. RowsOk(tasks', ran, wanted)
        BY <1>0, <1>21, RowsEdits DEF PutDone, PutTask, StepsTrue, StepTrue, Stopping,
           TablesTrue, WorkersOK, TablesOK, TaskRow, Executing
      <3>2. QED
        BY <1>0, <1>21, <1>b, <3>1 DEF PutDone, PutTask, Hold, client, env, Goto, TablesTrue
    <2>2. CopiesTrue'
      BY <1>0, <1>21, <1>b DEF PutDone, PutTask, Hold, client, env, Goto, CopiesTrue,
         TablesTrue, TablesOK, WorkersOK, ClientsOK
    <2>3. StepTrue(w)'
      BY <1>0, <1>21 DEF PutDone, PutTask, Hold, client, env, Goto, StepTrue, Stopping,
         StepsTrue, TablesTrue, WorkersOK
    <2>4. \A v \in Workers \ {w} : StepTrue(v)'
      BY <1>0, <1>21, <1>c DEF PutDone, PutTask, Hold, client, env, Goto, WorkersOK
    <2>5. QED
      BY <2>1, <2>2, <2>3, <2>4 DEF HonestInv, StepsTrue
  <1>22. ASSUME NEW w \in Workers, PutCancelled(w) PROVE HonestInv'
    <2>1. TablesTrue'
      <3>1. RowsOk(tasks', ran, wanted)
        BY <1>0, <1>22, RowsEdits DEF PutCancelled, PutTask, StepsTrue, StepTrue,
           Stopping, TablesTrue, WorkersOK, TablesOK, TaskRow, Executing
      <3>2. QED
        BY <1>0, <1>22, <1>b, <3>1 DEF PutCancelled, PutTask, Hold, client, env, Copy,
           TablesTrue
    <2>2. CopiesTrue'
      BY <1>0, <1>22, <1>b DEF PutCancelled, PutTask, Hold, client, env, Copy, CopiesTrue,
         TablesTrue, TablesOK, WorkersOK, ClientsOK
    <2>3. StepTrue(w)'
      BY <1>0, <1>22 DEF PutCancelled, PutTask, Hold, client, env, Goto, Copy, StepTrue,
         Stopping, StepsTrue, TablesTrue, WorkersOK
    <2>4. \A v \in Workers \ {w} : StepTrue(v)'
      BY <1>0, <1>22, <1>c DEF PutCancelled, PutTask, Hold, client, env, Goto, Copy,
         WorkersOK
    <2>5. QED
      BY <2>1, <2>2, <2>3, <2>4 DEF HonestInv, StepsTrue
  <1>23. ASSUME NEW w \in Workers, PutStopped(w) PROVE HonestInv'
    <2>1. TablesTrue'
      <3>1. RowsOk(tasks', ran, wanted)
        BY <1>0, <1>23, RowsEdits DEF PutStopped, PutTask, StepsTrue, StepTrue, Stopping,
           TablesTrue, WorkersOK, TablesOK, TaskRow, Executing
      <3>2. QED
        BY <1>0, <1>23, <1>b, <3>1 DEF PutStopped, PutTask, Hold, client, env, Goto,
           TablesTrue
    <2>2. CopiesTrue'
      BY <1>0, <1>23, <1>b DEF PutStopped, PutTask, Hold, client, env, Goto, CopiesTrue,
         TablesTrue, TablesOK, WorkersOK, ClientsOK
    <2>3. StepTrue(w)'
      BY <1>0, <1>23 DEF PutStopped, PutTask, Hold, client, env, Goto, StepTrue, Stopping,
         StepsTrue, TablesTrue, WorkersOK
    <2>4. \A v \in Workers \ {w} : StepTrue(v)'
      BY <1>0, <1>23, <1>c DEF PutStopped, PutTask, Hold, client, env, Goto, WorkersOK
    <2>5. QED
      BY <2>1, <2>2, <2>3, <2>4 DEF HonestInv, StepsTrue
  <1>24. ASSUME NEW w \in Workers, StopGet(w) PROVE HonestInv'
    <2>1. TablesTrue'
      BY <1>0, <1>24, <1>b DEF StopGet, Copy, db, client, env, hist, TablesTrue
    <2>2. CopiesTrue'
      BY <1>0, <1>24, <1>b DEF StopGet, Copy, db, client, env, hist, CopiesTrue,
         TablesTrue, TablesOK, WorkersOK, ClientsOK
    <2>3. StepTrue(w)'
      BY <1>0, <1>24 DEF StopGet, Copy, Goto, db, client, env, hist, StepTrue, Stopping,
         StepsTrue, TablesTrue, WorkersOK
    <2>4. \A v \in Workers \ {w} : StepTrue(v)'
      BY <1>0, <1>24, <1>c DEF StopGet, Copy, Goto, db, client, env, hist, WorkersOK
    <2>5. QED
      BY <2>1, <2>2, <2>3, <2>4 DEF HonestInv, StepsTrue
  <1>25. ASSUME NEW w \in Workers, StopWorkflow(w) PROVE HonestInv'
    <2>1. TablesTrue'
      <3>1. WfOk(wf', ran, wanted)
        BY <1>0, <1>25, WfEdits, WfRowEdits DEF StopWorkflow, StepsTrue, StepTrue,
           Stopping, TablesTrue, CopiesTrue, WorkersOK, ClientsOK, TablesOK
      <3>2. QED
        BY <1>0, <1>25, <1>b, <3>1 DEF StopWorkflow, Copy, client, env, hist, TablesTrue
    <2>2. CopiesTrue'
      BY <1>0, <1>25, <1>b DEF StopWorkflow, Copy, client, env, hist, CopiesTrue,
         TablesTrue, TablesOK, WorkersOK, ClientsOK
    <2>3. StepTrue(w)'
      BY <1>0, <1>25 DEF StopWorkflow, Goto, Copy, client, env, hist, StepTrue, Stopping,
         StepsTrue, TablesTrue, WorkersOK
    <2>4. \A v \in Workers \ {w} : StepTrue(v)'
      BY <1>0, <1>25, <1>c DEF StopWorkflow, Goto, Copy, client, env, hist, WorkersOK
    <2>5. QED
      BY <2>1, <2>2, <2>3, <2>4 DEF HonestInv, StepsTrue
  <1>26. ASSUME NEW w \in Workers, FailGet(w) PROVE HonestInv'
    <2>1. TablesTrue'
      BY <1>0, <1>26, <1>b DEF FailGet, db, client, env, hist, TablesTrue
    <2>2. CopiesTrue'
      BY <1>0, <1>26, <1>b DEF FailGet, db, client, env, hist, CopiesTrue, TablesTrue,
         TablesOK, WorkersOK, ClientsOK
    <2>3. StepTrue(w)'
      BY <1>0, <1>26 DEF FailGet, Goto, db, client, env, hist, StepTrue, Stopping,
         StepsTrue, TablesTrue, WorkersOK
    <2>4. \A v \in Workers \ {w} : StepTrue(v)'
      BY <1>0, <1>26, <1>c DEF FailGet, Goto, db, client, env, hist, WorkersOK
    <2>5. QED
      BY <2>1, <2>2, <2>3, <2>4 DEF HonestInv, StepsTrue
  <1>27. ASSUME NEW w \in Workers, Requeue(w) PROVE HonestInv'
    <2>1. TablesTrue'
      <3>1. RowsOk(tasks', ran, wanted)
        BY <1>0, <1>27, RowsEdits DEF Requeue, PutTask, StepsTrue, StepTrue, Stopping,
           TablesTrue, WorkersOK, TablesOK, TaskRow, Executing
      <3>2. QED
        BY <1>0, <1>27, <1>b, <3>1 DEF Requeue, PutTask, Hold, client, env, Goto, TablesTrue
    <2>2. CopiesTrue'
      BY <1>0, <1>27, <1>b DEF Requeue, PutTask, Hold, client, env, Goto, CopiesTrue,
         TablesTrue, TablesOK, WorkersOK, ClientsOK
    <2>3. StepTrue(w)'
      BY <1>0, <1>27 DEF Requeue, PutTask, Hold, client, env, Goto, StepTrue, Stopping,
         StepsTrue, TablesTrue, WorkersOK
    <2>4. \A v \in Workers \ {w} : StepTrue(v)'
      BY <1>0, <1>27, <1>c DEF Requeue, PutTask, Hold, client, env, Goto, WorkersOK
    <2>5. QED
      BY <2>1, <2>2, <2>3, <2>4 DEF HonestInv, StepsTrue
  <1>28. ASSUME NEW w \in Workers, PutError(w) PROVE HonestInv'
    <2>1. TablesTrue'
      <3>1. RowsOk(tasks', ran, wanted)
        BY <1>0, <1>28, RowsEdits DEF PutError, PutTask, StepsTrue, StepTrue, Stopping,
           TablesTrue, WorkersOK, TablesOK, TaskRow, Executing
      <3>2. QED
        BY <1>0, <1>28, <1>b, <3>1 DEF PutError, PutTask, Hold, client, env, Goto,
           TablesTrue
    <2>2. CopiesTrue'
      BY <1>0, <1>28, <1>b DEF PutError, PutTask, Hold, client, env, Goto, CopiesTrue,
         TablesTrue, TablesOK, WorkersOK, ClientsOK
    <2>3. StepTrue(w)'
      BY <1>0, <1>28 DEF PutError, PutTask, Hold, client, env, Goto, StepTrue, Stopping,
         StepsTrue, TablesTrue, WorkersOK
    <2>4. \A v \in Workers \ {w} : StepTrue(v)'
      BY <1>0, <1>28, <1>c DEF PutError, PutTask, Hold, client, env, Goto, WorkersOK
    <2>5. QED
      BY <2>1, <2>2, <2>3, <2>4 DEF HonestInv, StepsTrue
  <1>29. ASSUME NEW w \in Workers, FinalizeGet(w) PROVE HonestInv'
    <2>1. TablesTrue'
      BY <1>0, <1>29, <1>b DEF FinalizeGet, Copy, db, client, env, hist, TablesTrue
    <2>2. CopiesTrue'
      BY <1>0, <1>29, <1>b DEF FinalizeGet, Copy, db, client, env, hist, CopiesTrue,
         TablesTrue, TablesOK, WorkersOK, ClientsOK
    <2>3. StepTrue(w)'
      BY <1>0, <1>29 DEF FinalizeGet, Copy, Goto, db, client, env, hist, StepTrue,
         Stopping, StepsTrue, TablesTrue, WorkersOK
    <2>4. \A v \in Workers \ {w} : StepTrue(v)'
      BY <1>0, <1>29, <1>c DEF FinalizeGet, Copy, Goto, db, client, env, hist, WorkersOK
    <2>5. QED
      BY <2>1, <2>2, <2>3, <2>4 DEF HonestInv, StepsTrue
  <1>30. ASSUME NEW w \in Workers, FinalizeList(w) PROVE HonestInv'
    <2>1. TablesTrue'
      BY <1>0, <1>30, <1>b DEF FinalizeList, Copy, Rest, db, client, env, hist, TablesTrue
    <2>2. CopiesTrue'
      <3> DEFINE v == Verdict(seen[w], tasks)
      <3>1. WfOk(v, ran, wanted)
        BY <1>0, VerdictTrue DEF CopiesTrue, TablesTrue, WorkersOK, TablesOK
      <3>2. PICK row \in {v, NewWf} : Copy(w, row, NewTasks, {})
        BY <1>30 DEF FinalizeList, Rest
      <3>3. WfOk(row, ran', wanted')
        BY <1>b, <3>1, <3>2
      <3>4. UNCHANGED <<cpc, cseen, wanted, ran>>
        BY <1>30 DEF FinalizeList, client, hist
      <3> HIDE DEF v
      <3>5. QED
        BY <1>0, <1>b, <3>2, <3>3, <3>4 DEF Copy, CopiesTrue, WorkersOK
    <2>3. StepTrue(w)'
      BY <1>0, <1>30 DEF FinalizeList, Copy, Goto, Rest, db, client, env, hist, StepTrue,
         Stopping, StepsTrue, TablesTrue, WorkersOK
    <2>4. \A v \in Workers \ {w} : StepTrue(v)'
      BY <1>0, <1>30, <1>c DEF FinalizeList, Copy, Goto, Rest, db, client, env, hist,
         WorkersOK
    <2>5. QED
      BY <2>1, <2>2, <2>3, <2>4 DEF HonestInv, StepsTrue
  <1>31. ASSUME NEW w \in Workers, FinalizePut(w) PROVE HonestInv'
    <2>1. TablesTrue'
      <3>1. WfOk(wf', ran, wanted)
        BY <1>0, <1>31, WfEdits, WfRowEdits DEF FinalizePut, StepsTrue, StepTrue,
           Stopping, TablesTrue, CopiesTrue, WorkersOK, ClientsOK, TablesOK
      <3>2. QED
        BY <1>0, <1>31, <1>b, <3>1 DEF FinalizePut, Rest, Copy, client, env, hist,
           TablesTrue
    <2>2. CopiesTrue'
      BY <1>0, <1>31, <1>b DEF FinalizePut, Rest, Copy, client, env, hist, CopiesTrue,
         TablesTrue, TablesOK, WorkersOK, ClientsOK
    <2>3. StepTrue(w)'
      BY <1>0, <1>31 DEF FinalizePut, Rest, Goto, Copy, client, env, hist, StepTrue,
         Stopping, StepsTrue, TablesTrue, WorkersOK
    <2>4. \A v \in Workers \ {w} : StepTrue(v)'
      BY <1>0, <1>31, <1>c DEF FinalizePut, Rest, Goto, Copy, client, env, hist, WorkersOK
    <2>5. QED
      BY <2>1, <2>2, <2>3, <2>4 DEF HonestInv, StepsTrue
  <1>32. ASSUME NEW c \in Clients, CancelGet(c) PROVE HonestInv'
    <2>1. TablesTrue'
      BY <1>0, <1>32, <1>b DEF CancelGet, db, worker, env, TablesTrue
    <2>2. CopiesTrue'
      BY <1>0, <1>32, <1>b DEF CancelGet, db, worker, env, CopiesTrue, TablesTrue,
         TablesOK, WorkersOK, ClientsOK
    <2>3. StepsTrue'
      BY <1>0, <1>32, <1>c DEF CancelGet, db, worker, env, StepsTrue
    <2>4. QED
      BY <2>1, <2>2, <2>3 DEF HonestInv
  <1>33. ASSUME NEW c \in Clients, CancelPut(c) PROVE HonestInv'
    <2>1. TablesTrue'
      <3>1. wanted /\ cseen[c] \in WfRow /\ WfOk(cseen[c], ran, wanted)
        BY <1>0, <1>33 DEF CancelPut, CopiesTrue, ClientsOK
      <3>2. PICK s \in {"queued", "running", cseen[c].status} :
               wf' = [cseen[c] EXCEPT !.cancel = TRUE, !.status = s]
        BY <1>33, <3>1 DEF CancelPut, WfRow
      <3>3. WfOk(wf', ran, wanted)
        BY <3>1, <3>2, WfEdits
      <3>4. QED
        BY <1>0, <1>33, <1>b, <3>3 DEF CancelPut, env, hist, TablesTrue
    <2>2. CopiesTrue'
      BY <1>0, <1>33, <1>b DEF CancelPut, worker, env, hist, CopiesTrue, TablesTrue,
         TablesOK, WorkersOK, ClientsOK
    <2>3. StepsTrue'
      BY <1>0, <1>33, <1>c DEF CancelPut, worker, env, hist, StepsTrue
    <2>4. QED
      BY <2>1, <2>2, <2>3 DEF HonestInv
  <1>34. ASSUME DeadlinePasses PROVE HonestInv'
    <2>1. TablesTrue'
      BY <1>0, <1>34, <1>b DEF DeadlinePasses, db, worker, client, TablesTrue
    <2>2. CopiesTrue'
      BY <1>0, <1>34, <1>b DEF DeadlinePasses, db, worker, client, CopiesTrue, TablesTrue,
         TablesOK, WorkersOK, ClientsOK
    <2>3. StepsTrue'
      BY <1>0, <1>34, <1>c DEF DeadlinePasses, db, worker, client, StepsTrue
    <2>4. QED
      BY <2>1, <2>2, <2>3 DEF HonestInv
  <1>35. ASSUME NEW t \in Tasks, BackoffEnds(t) PROVE HonestInv'
    <2>1. TablesTrue'
      BY <1>0, <1>35, <1>b DEF BackoffEnds, worker, client, env, hist, TablesTrue
    <2>2. CopiesTrue'
      BY <1>0, <1>35, <1>b DEF BackoffEnds, worker, client, env, hist, CopiesTrue,
         TablesTrue, TablesOK, WorkersOK, ClientsOK
    <2>3. StepsTrue'
      BY <1>0, <1>35, <1>c DEF BackoffEnds, worker, client, env, hist, StepsTrue
    <2>4. QED
      BY <2>1, <2>2, <2>3 DEF HonestInv
  <1>36. ASSUME Crash PROVE HonestInv'
    <2>1. TablesTrue'
      BY <1>0, <1>36, <1>b DEF Crash, db, hist, TablesTrue
    <2>2. CopiesTrue'
      BY <1>0, <1>36, <1>b DEF Crash, db, hist, CopiesTrue, TablesTrue, TablesOK,
         WorkersOK, ClientsOK
    <2>3. StepsTrue'
      BY <1>36 DEF Crash, StepsTrue, StepTrue, Stopping
    <2>4. QED
      BY <2>1, <2>2, <2>3 DEF HonestInv
  <1>37. ASSUME Start PROVE HonestInv'
    <2>1. TablesTrue'
      <3>1. WfOk(wf', ran, wanted)
        <4>1. wf' = [wf EXCEPT !.status = "queued"] \/ wf' = wf
          BY <1>0, <1>37 DEF Start, recover, TablesOK, WfRow
        <4>2. WfOk(wf, ran, wanted) /\ wf \in WfRow
          BY <1>0 DEF TablesTrue, TablesOK
        <4>3. WfOk([wf EXCEPT !.status = "queued"], ran, wanted)
          BY <4>2, WfEdits
        <4>4. QED
          BY <4>1, <4>2, <4>3
      <3>2. \A t \in Tasks : tasks'[t].status \in {"queued", tasks[t].status}
        BY <1>0, <1>37 DEF Start, recover, TablesOK, TaskRow
      <3>3. RowsOk(tasks', ran, wanted)
        BY <1>0, <3>2 DEF RowsOk, TablesTrue
      <3>4. QED
        BY <1>0, <1>37, <1>b, <3>1, <3>3 DEF Start, hist, TablesTrue
    <2>2. CopiesTrue'
      BY <1>0, <1>37, <1>b DEF Start, recover, worker, client, hist, CopiesTrue,
         TablesTrue, TablesOK, WorkersOK, ClientsOK
    <2>3. StepsTrue'
      BY <1>0, <1>37, <1>c DEF Start, recover, worker, client, hist, StepsTrue
    <2>4. QED
      BY <2>1, <2>2, <2>3 DEF HonestInv
  <1>38. CASE UNCHANGED vars
    BY <1>0, <1>38, <1>b, <1>c DEF vars, HonestInv, TablesTrue, CopiesTrue, StepsTrue
  <1>39. QED
    BY <1>1, <1>2, <1>3, <1>4, <1>5, <1>6, <1>7, <1>8, <1>9, <1>10, <1>11, <1>12, <1>13,
       <1>14, <1>15, <1>16, <1>17, <1>18, <1>19, <1>20, <1>21, <1>22, <1>23, <1>24, <1>25,
       <1>26, <1>27, <1>28, <1>29, <1>30, <1>31, <1>32, <1>33, <1>34, <1>35, <1>36, <1>37,
       <1>38
       DEF Next, WorkerStep, PassStep, ExecuteStep, FinalizeStep

\* At first every row and copy is fresh.
LEMMA HonestInit == Init => HonestInv
  <1> SUFFICES ASSUME Init PROVE HonestInv
    OBVIOUS
  <1>1. TablesTrue
    BY NewTrue DEF Init, TablesTrue
  <1>2. CopiesTrue
    BY NewTrue DEF Init, CopiesTrue
  <1>3. StepsTrue
    BY DEF Init, StepsTrue, StepTrue, Stopping
  <1>4. QED
    BY <1>1, <1>2, <1>3 DEF HonestInv

\* No verdict is made up: a workflow is done, error or cancelled only if its
\* executions, or a request to stop it, account for that, although finalisers
\* and handlers write back copies (maybe_finalize_workflow).
THEOREM VerdictIsWitnessed == Spec => []VerdictWitnessed
  <1>1. HonestInv => VerdictWitnessed
    BY DEF HonestInv, TablesTrue, WfOk, VerdictWitnessed
  <1>2. QED
    BY InitType, StepType, HonestInit, HonestStep, <1>1, PTL DEF Spec

\* A task is claimed only after what it depends on ended well enough, although
\* the claim follows the list it was decided on (try_pick_in_workflow).
THEOREM DependenciesFirst == Spec => DepsFirst
  <1>1. TypeOK /\ HonestInv /\ [Next]_vars
          => [\A w \in Workers : Claims(w) => \A d \in Deps[cur'[w]] : Satisfied(cur'[w], d)]_vars
    <2> SUFFICES ASSUME TypeOK, HonestInv, [Next]_vars, NEW w \in Workers, Claims(w)
                 PROVE  \A d \in Deps[cur'[w]] : Satisfied(cur'[w], d)
      OBVIOUS
    <2>0. cur \in [Workers -> Tasks \cup {NoTask}] /\ NoTask \notin Tasks
      BY GraphAssumption DEF TypeOK, WorkersOK
    <2>1. PICK v \in Workers, t \in Tasks : Claim(v, t)
      <3>1. ASSUME NEW v \in Workers, PassStep(v), \A t \in Tasks : ~Claim(v, t)
            PROVE  UNCHANGED cur
        BY <3>1 DEF PassStep, ListWorkflow, ListExpired, ExpireWorkflow, ListTasks, Rest,
           Copy,
           ExpireTask, SweepTask, CancelListed, ClaimLost, NothingToClaim, MarkRunning
      <3>2. ASSUME NEW v \in Workers, ExecuteStep(v)
            PROVE  UNCHANGED cur \/ cur' = [cur EXCEPT ![v] = NoTask]
        BY <3>2 DEF ExecuteStep, Refresh, MarkDue, WithinBudget, BudgetExceeded,
           BudgetWorkflow,
           BudgetList, BudgetSwept, BudgetSweep, RunEnds, RunStops, PutTask, Hold, PutDone,
           PutCancelled, PutStopped, StopGet, StopWorkflow, FailGet, Requeue, PutError
      <3>3. ASSUME NEW v \in Workers, FinalizeStep(v) PROVE UNCHANGED cur
        BY <3>3 DEF FinalizeStep, FinalizeGet, FinalizeList, FinalizePut
      <3>4. ASSUME NEW c \in Clients, CancelGet(c) \/ CancelPut(c) PROVE UNCHANGED cur
        BY <3>4 DEF CancelGet, CancelPut, worker
      <3>5. ASSUME NEW t \in Tasks, BackoffEnds(t) PROVE UNCHANGED cur
        BY <3>5 DEF BackoffEnds, worker
      <3>6. DeadlinePasses \/ Start => UNCHANGED cur
        BY DEF DeadlinePasses, Start, worker
      <3>7. Crash => cur'[w] = NoTask
        BY DEF Crash
      <3>8. (UNCHANGED vars) => UNCHANGED cur
        BY DEF vars
      <3>9. QED
        BY <2>0, <3>1, <3>2, <3>3, <3>4, <3>5, <3>6, <3>7, <3>8 DEF Next, WorkerStep, Claims
    <2>2. cur'[w] = t
      BY <2>0, <2>1 DEF Claim, Hold, Claims
    <2>3. QED
      BY <2>1, <2>2 DEF Claim, HonestInv, StepsTrue, StepTrue
  <1>2. QED
    BY InitType, StepType, HonestInit, HonestStep, <1>1, PTL DEF Spec, DepsFirst
=============================================================================
