----------------------------- MODULE JobsProofs -----------------------------
(* Theorems about Jobs, for any sets of jobs, requests, workers and admin   *)
(* requests, any number of crashes, drains and submissions.                *)
EXTENDS Jobs, TLAPS

(* Lemmas about the stores: each operation keeps table and map well formed.*)

\* "No row" is a well-formed row.
LEMMA NoRowType == NoRow \in Row /\ NoRows \in [JobIds -> Row]
  BY DEF NoRow, NoRows, Row, Unfinished, Terminal, Outcomes

\* upsert_job keeps the table well formed whatever a caller passes.
LEMMA UpsertType ==
    ASSUME NEW d \in [JobIds -> Row], NEW j \in JobIds, NEW u \in RowUpdate
    PROVE  upsert_job(d, j, u) \in [JobIds -> Row]
  <1>1. Inserted(u) \in Row
    BY DEF Inserted, RowUpdate, Row, Unfinished, Terminal
  <1>2. QED
    BY <1>1 DEF upsert_job, RowUpdate, Row, Unfinished, Terminal

\* claim_job, delete_job, the startup recovery and the listing do too.
LEMMA TableType ==
    ASSUME NEW d \in [JobIds -> Row]
    PROVE  /\ \A j \in JobIds : claim_job(d, j) \in [JobIds -> Row]
           /\ \A j \in JobIds : delete_job(d, j) \in [JobIds -> Row]
           /\ recover_inflight_jobs_resumable(d) \in [JobIds -> Row]
           /\ list_jobs_by_status(d, "queued") \in [JobIds -> Row]
  <1>1. \A j \in JobIds : claim_job(d, j) \in [JobIds -> Row]
    BY DEF claim_job, Row, Unfinished
  <1>2. \A j \in JobIds : delete_job(d, j) \in [JobIds -> Row]
    BY NoRowType DEF delete_job
  <1>3. ASSUME NEW k \in JobIds, NEW s \in {"queued", "interrupted"}
        PROVE  [d[k] EXCEPT !.status = s] \in Row
    BY DEF Row, Unfinished, Terminal
  <1>4. recover_inflight_jobs_resumable(d) \in [JobIds -> Row]
    BY <1>3 DEF recover_inflight_jobs_resumable
  <1>5. list_jobs_by_status(d, "queued") \in [JobIds -> Row]
    BY NoRowType DEF list_jobs_by_status
  <1>6. QED
    BY <1>1, <1>2, <1>4, <1>5

\* "No entry" is a well-formed entry of g_jobs.
LEMMA NoEntryType == NoEntry \in Entry
  BY DEF NoEntry, Entry, Unfinished, Outcomes

\* job_create keeps the in-memory map well formed,
LEMMA CreateType ==
    ASSUME NEW m \in [JobIds -> Entry], NEW j \in JobIds
    PROVE  job_create(m, j) \in [JobIds -> Entry]
  <1>1. [NoEntry EXCEPT !.status = "queued"] \in Entry
    BY DEF NoEntry, Entry, Unfinished, Outcomes
  <1>2. QED
    BY <1>1 DEF job_create

\* job_set_status does,
LEMMA SetStatusType ==
    ASSUME NEW m \in [JobIds -> Entry], NEW j \in JobIds
    PROVE  job_set_status(m, j, "running") \in [JobIds -> Entry]
  BY DEF job_set_status, Entry, Unfinished

\* job_set_result does, for the outcome of an execution,
LEMMA SetResultType ==
    ASSUME NEW m \in [JobIds -> Entry], NEW j \in JobIds, NEW o \in Outcomes
    PROVE  job_set_result(m, j, o) \in [JobIds -> Entry]
  BY DEF job_set_result, Entry

\* job_request_cancel does,
LEMMA RequestCancelType ==
    ASSUME NEW m \in [JobIds -> Entry], NEW j \in JobIds
    PROVE  job_request_cancel(m, j) \in [JobIds -> Entry]
  BY DEF job_request_cancel, Entry

\* and so do job_delete and job_gc.
LEMMA EraseType ==
    ASSUME NEW m \in [JobIds -> Entry], NEW dead
    PROVE  job_erase(m, dead) \in [JobIds -> Entry]
  BY NoEntryType DEF job_erase

\* The daemon starts well formed: no rows, no entries, nobody at work.
LEMMA InitType == Init => TypeOK
  <1> SUFFICES ASSUME Init PROVE TypeOK
    OBVIOUS
  <1> USE DEF Init
  <1>1. StoreOK
    BY NoEntryType, NoRowType DEF StoreOK
  <1>2. RunnersOK
    BY NoRowType DEF RunnersOK, Pc, HbState
  <1>3. AdminsOK
    BY NoRowType DEF AdminsOK, AdminPc
  <1>4. up \in BOOLEAN /\ drain \in BOOLEAN
    OBVIOUS
  <1>5. EnvOK
    BY <1>4, BoundAssumption DEF EnvOK
  <1>6. HistOK
    BY DEF HistOK
  <1>7. QED
    BY <1>1, <1>2, <1>3, <1>5, <1>6 DEF TypeOK

\* Every step keeps the types.
LEMMA StepType == TypeOK /\ [Next]_vars => TypeOK'
  <1> SUFFICES ASSUME TypeOK, [Next]_vars PROVE TypeOK'
    OBVIOUS
  <1>0. StoreOK /\ RunnersOK /\ AdminsOK /\ EnvOK /\ HistOK
    BY DEF TypeOK
  <1>1. ASSUME NEW r \in Requests, NEW j \in JobIds, NEW q \in BOOLEAN, Accept(r, j, q)
        PROVE  TypeOK'
    <2>1. RunnersOK'
      BY <1>0, <1>1 DEF Accept, RunnersOK, Goto, Runners, Pc, store, local, admin, env, hist
    <2>2. EnvOK'
      BY <1>0, <1>1, BoundAssumption DEF Accept, EnvOK, store, local, admin, env, hist
    <2>3. StoreOK' /\ AdminsOK' /\ HistOK'
      BY <1>0, <1>1 DEF Accept, StoreOK, AdminsOK, HistOK, store, local, admin, env, hist
    <2>4. QED
      BY <2>1, <2>2, <2>3 DEF TypeOK
  <1>2. ASSUME NEW r \in Requests, CreateJob(r) PROVE TypeOK'
    <2>1. StoreOK'
      BY <1>0, <1>2, CreateType DEF CreateJob, StoreOK, RunnersOK, Runners, store, local,
         admin, env, hist
    <2>2. RunnersOK'
      BY <1>0, <1>2 DEF CreateJob, RunnersOK, Goto, Runners, Pc, store, local, admin, env,
         hist
    <2>3. AdminsOK' /\ EnvOK' /\ HistOK'
      BY <1>0, <1>2 DEF CreateJob, AdminsOK, EnvOK, HistOK, store, local, admin, env, hist
    <2>4. QED
      BY <2>1, <2>2, <2>3 DEF TypeOK
  <1>3. ASSUME NEW r \in Requests, RejectDuplicate(r) PROVE TypeOK'
    <2>1. RunnersOK'
      BY <1>0, <1>3, NoRowType DEF RejectDuplicate, RunnersOK, Goto, Release, Runners, Pc,
         HbState, store, local, admin, env, hist
    <2>2. StoreOK' /\ AdminsOK' /\ EnvOK' /\ HistOK'
      BY <1>0, <1>3 DEF RejectDuplicate, StoreOK, AdminsOK, EnvOK, HistOK, store, local,
         admin, env, hist
    <2>3. QED
      BY <2>1, <2>2 DEF TypeOK
  <1>4. ASSUME NEW r \in Requests, PersistStub(r) PROVE TypeOK'
    <2>1. StoreOK'
      BY <1>0, <1>4, UpsertType DEF PersistStub, StoreOK, RunnersOK, Runners, Update,
         RowUpdate, Unfinished, Terminal, store, local, admin, env, hist
    <2>2. RunnersOK'
      BY <1>0, <1>4 DEF PersistStub, RunnersOK, Goto, Runners, Pc, store, local, admin,
         env, hist
    <2>3. AdminsOK' /\ EnvOK' /\ HistOK'
      BY <1>0, <1>4 DEF PersistStub, AdminsOK, EnvOK, HistOK, store, local, admin, env, hist
    <2>4. QED
      BY <2>1, <2>2, <2>3 DEF TypeOK
  <1>5. ASSUME NEW r \in Requests, StartThread(r) PROVE TypeOK'
    <2>1. StoreOK'
      BY <1>0, <1>5, SetStatusType DEF StartThread, StoreOK, RunnersOK, Runners, store,
         local, admin, env, hist
    <2>2. RunnersOK'
      BY <1>0, <1>5 DEF StartThread, RunnersOK, Goto, Runners, Pc, store, local, admin,
         env, hist
    <2>3. AdminsOK' /\ EnvOK' /\ HistOK'
      BY <1>0, <1>5 DEF StartThread, AdminsOK, EnvOK, HistOK, store, local, admin, env, hist
    <2>4. QED
      BY <2>1, <2>2, <2>3 DEF TypeOK
  <1>6. ASSUME NEW r \in Requests, PersistRunning(r) PROVE TypeOK'
    <2>1. StoreOK'
      BY <1>0, <1>6, UpsertType DEF PersistRunning, StoreOK, RunnersOK, Runners, Update,
         RowUpdate, Unfinished, Terminal, store, local, admin, env, hist
    <2>2. RunnersOK'
      BY <1>0, <1>6 DEF PersistRunning, RunnersOK, Goto, Runners, Pc, store, local, admin,
         env, hist
    <2>3. AdminsOK' /\ EnvOK' /\ HistOK'
      BY <1>0, <1>6 DEF PersistRunning, AdminsOK, EnvOK, HistOK, store, local, admin, env,
         hist
    <2>4. QED
      BY <2>1, <2>2, <2>3 DEF TypeOK
  <1>7. ASSUME NEW w \in Workers, ListQueued(w) PROVE TypeOK'
    <2>1. RunnersOK'
      BY <1>0, <1>7, TableType DEF ListQueued, RunnersOK, StoreOK, Goto, Runners, Pc,
         store, local, admin, env, hist
    <2>2. StoreOK' /\ AdminsOK' /\ EnvOK' /\ HistOK'
      BY <1>0, <1>7 DEF ListQueued, StoreOK, AdminsOK, EnvOK, HistOK, store, local, admin,
         env, hist
    <2>3. QED
      BY <2>1, <2>2 DEF TypeOK
  <1>8. ASSUME NEW w \in Workers, NEW j \in JobIds, FinalizeCancelled(w, j) PROVE TypeOK'
    <2>1. Update("cancelled", todo[w][j].cancel, todo[w][j].req, todo[w][j].result) \in RowUpdate
      BY <1>0, <1>8 DEF FinalizeCancelled, StoreOK, RunnersOK, Runners, Update, Row,
         RowUpdate, Terminal
    <2>2. StoreOK'
      BY <1>0, <1>8, UpsertType, <2>1 DEF FinalizeCancelled, StoreOK, RunnersOK, Runners,
         Scanning, Rewrite, store, local, admin, env, hist
    <2>3. RunnersOK'
      BY <1>0, <1>8, NoRowType DEF FinalizeCancelled, RunnersOK, Goto, Runners, Pc,
         Scanning, Skip, store, local, admin, env, hist
    <2>4. AdminsOK' /\ EnvOK' /\ HistOK'
      BY <1>0, <1>8 DEF FinalizeCancelled, AdminsOK, EnvOK, HistOK, store, local, admin,
         env, hist
    <2>5. QED
      BY <2>1, <2>2, <2>3, <2>4 DEF TypeOK
  <1>9. ASSUME NEW w \in Workers, NEW j \in JobIds, FinalizeUnresumable(w, j) PROVE TypeOK'
    <2>1. Update("interrupted", todo[w][j].cancel, todo[w][j].req, todo[w][j].result) \in RowUpdate
      BY <1>0, <1>9 DEF FinalizeUnresumable, StoreOK, RunnersOK, Runners, Update, Row,
         RowUpdate, Terminal
    <2>2. StoreOK'
      BY <1>0, <1>9, UpsertType, <2>1 DEF FinalizeUnresumable, StoreOK, RunnersOK,
         Runners, Scanning, Rewrite, store, local, admin, env, hist
    <2>3. RunnersOK'
      BY <1>0, <1>9, NoRowType DEF FinalizeUnresumable, RunnersOK, Goto, Runners, Pc,
         Scanning, Skip, store, local, admin, env, hist
    <2>4. AdminsOK' /\ EnvOK' /\ HistOK'
      BY <1>0, <1>9 DEF FinalizeUnresumable, AdminsOK, EnvOK, HistOK, store, local, admin,
         env, hist
    <2>5. QED
      BY <2>1, <2>2, <2>3, <2>4 DEF TypeOK
  <1>10. ASSUME NEW w \in Workers, NEW j \in JobIds, Claim(w, j) PROVE TypeOK'
    <2>1. StoreOK'
      BY <1>0, <1>10, TableType DEF Claim, StoreOK, store, local, admin, env, hist
    <2>2. RunnersOK'
      BY <1>0, <1>10, NoRowType DEF Claim, RunnersOK, Goto, Runners, Pc, Scanning, store,
         local, admin, env, hist
    <2>3. AdminsOK' /\ EnvOK' /\ HistOK'
      BY <1>0, <1>10 DEF Claim, AdminsOK, EnvOK, HistOK, store, local, admin, env, hist
    <2>4. QED
      BY <2>1, <2>2, <2>3 DEF TypeOK
  <1>11. ASSUME NEW w \in Workers, NEW j \in JobIds, ClaimLost(w, j) PROVE TypeOK'
    <2>1. RunnersOK'
      BY <1>0, <1>11, NoRowType DEF ClaimLost, RunnersOK, Goto, Runners, Pc, Scanning,
         Skip, store, local, admin, env, hist
    <2>2. StoreOK' /\ AdminsOK' /\ EnvOK' /\ HistOK'
      BY <1>0, <1>11 DEF ClaimLost, StoreOK, AdminsOK, EnvOK, HistOK, store, local, admin,
         env, hist
    <2>3. QED
      BY <2>1, <2>2 DEF TypeOK
  <1>12. ASSUME NEW w \in Workers, GetClaimed(w) PROVE TypeOK'
    <2>1. CASE Release(w)
      <3>1. RunnersOK'
        BY <1>0, <2>1, NoRowType DEF RunnersOK, Goto, Release, Runners, Pc, HbState
      <3>2. StoreOK' /\ AdminsOK' /\ EnvOK' /\ HistOK'
        BY <1>0, <1>12 DEF GetClaimed, StoreOK, AdminsOK, EnvOK, HistOK, store, admin,
           env, hist
      <3>3. QED
        BY <3>1, <3>2 DEF TypeOK
    <2>2. CASE Goto(w, "enter") /\ UNCHANGED <<job, body, outcome, hb, todo>>
      <3>1. job[w] \in JobIds /\ hb[w] \notin {"armed", "write", "writeCancel"}
        BY <1>0, <1>12 DEF GetClaimed, RunnersOK, Runners
      <3>2. RunnersOK'
        BY <1>0, <2>2, <3>1 DEF RunnersOK, Goto, Runners, Pc
      <3>3. StoreOK' /\ AdminsOK' /\ EnvOK' /\ HistOK'
        BY <1>0, <1>12 DEF GetClaimed, StoreOK, AdminsOK, EnvOK, HistOK, store, admin,
           env, hist
      <3>4. QED
        BY <3>2, <3>3 DEF TypeOK
    <2>3. QED
      BY <1>12, <2>1, <2>2 DEF GetClaimed
  <1>13. ASSUME NEW w \in Workers, EnterJob(w) PROVE TypeOK'
    <2>1. StoreOK'
      BY <1>0, <1>13, CreateType DEF EnterJob, StoreOK, RunnersOK, Runners, store, local,
         admin, env, hist
    <2>2. RunnersOK'
      BY <1>0, <1>13 DEF EnterJob, RunnersOK, Goto, Runners, Pc, store, local, admin, env,
         hist
    <2>3. AdminsOK' /\ EnvOK' /\ HistOK'
      BY <1>0, <1>13 DEF EnterJob, AdminsOK, EnvOK, HistOK, store, local, admin, env, hist
    <2>4. QED
      BY <2>1, <2>2, <2>3 DEF TypeOK
  <1>14. ASSUME NEW w \in Workers, PersistTrace(w) PROVE TypeOK'
    <2>1. StoreOK'
      BY <1>0, <1>14, UpsertType DEF PersistTrace, StoreOK, RunnersOK, Runners, Update,
         RowUpdate, Unfinished, Terminal, store, local, admin, env, hist
    <2>2. RunnersOK'
      BY <1>0, <1>14 DEF PersistTrace, RunnersOK, Goto, Runners, Pc, store, local, admin,
         env, hist
    <2>3. AdminsOK' /\ EnvOK' /\ HistOK'
      BY <1>0, <1>14 DEF PersistTrace, AdminsOK, EnvOK, HistOK, store, local, admin, env,
         hist
    <2>4. QED
      BY <2>1, <2>2, <2>3 DEF TypeOK
  <1>15. ASSUME NEW w \in Workers, MarkRunning(w) PROVE TypeOK'
    <2>1. StoreOK'
      BY <1>0, <1>15, SetStatusType DEF MarkRunning, StoreOK, RunnersOK, Runners, store,
         local, admin, env, hist
    <2>2. RunnersOK'
      BY <1>0, <1>15 DEF MarkRunning, RunnersOK, Goto, Runners, Pc, store, local, admin,
         env, hist
    <2>3. AdminsOK' /\ EnvOK' /\ HistOK'
      BY <1>0, <1>15 DEF MarkRunning, AdminsOK, EnvOK, HistOK, store, local, admin, env,
         hist
    <2>4. QED
      BY <2>1, <2>2, <2>3 DEF TypeOK
  <1>16. ASSUME NEW r \in Runners, HeartbeatCheck(r) PROVE TypeOK'
    <2>1. RunnersOK'
      BY <1>0, <1>16 DEF HeartbeatCheck, RunnersOK, HbState, store, local, admin, env, hist
    <2>2. StoreOK' /\ AdminsOK' /\ EnvOK' /\ HistOK'
      BY <1>0, <1>16 DEF HeartbeatCheck, StoreOK, AdminsOK, EnvOK, HistOK, store, local,
         admin, env, hist
    <2>3. QED
      BY <2>1, <2>2 DEF TypeOK
  <1>17. ASSUME NEW r \in Runners, HeartbeatRead(r) PROVE TypeOK'
    <2>1. RunnersOK'
      BY <1>0, <1>17 DEF HeartbeatRead, RunnersOK, HbState, store, local, admin, env, hist
    <2>2. StoreOK' /\ AdminsOK' /\ EnvOK' /\ HistOK'
      BY <1>0, <1>17 DEF HeartbeatRead, StoreOK, AdminsOK, EnvOK, HistOK, store, local,
         admin, env, hist
    <2>3. QED
      BY <2>1, <2>2 DEF TypeOK
  <1>18. ASSUME NEW r \in Runners, HeartbeatWrite(r) PROVE TypeOK'
    <2>1. StoreOK'
      BY <1>0, <1>18, UpsertType DEF HeartbeatWrite, StoreOK, RunnersOK, Update,
         RowUpdate, Unfinished, Terminal, store, local, admin, env, hist
    <2>2. RunnersOK'
      BY <1>0, <1>18 DEF HeartbeatWrite, RunnersOK, HbState, store, local, admin, env, hist
    <2>3. AdminsOK' /\ EnvOK' /\ HistOK'
      BY <1>0, <1>18 DEF HeartbeatWrite, AdminsOK, EnvOK, HistOK, store, local, admin,
         env, hist
    <2>4. QED
      BY <2>1, <2>2, <2>3 DEF TypeOK
  <1>19. ASSUME NEW r \in Runners, NEW o \in RunOutcomes, RunEnds(r, o) PROVE TypeOK'
    <2>1. RunnersOK'
      BY <1>0, <1>19, OutcomeAssumption DEF RunEnds, RunnersOK, Goto, Runners, Pc, store,
         local, admin, env, hist
    <2>2. HistOK'
      BY <1>0, <1>19, OutcomeAssumption DEF RunEnds, HistOK, RunnersOK, store, local,
         admin, env, hist
    <2>3. StoreOK' /\ AdminsOK' /\ EnvOK'
      BY <1>0, <1>19 DEF RunEnds, StoreOK, AdminsOK, EnvOK, store, local, admin, env, hist
    <2>4. QED
      BY <2>1, <2>2, <2>3 DEF TypeOK
  <1>20. ASSUME NEW r \in Runners, SetResult(r) PROVE TypeOK'
    <2>1. StoreOK'
      BY <1>0, <1>20, SetResultType DEF SetResult, StoreOK, RunnersOK, store, local,
         admin, env, hist
    <2>2. RunnersOK'
      BY <1>0, <1>20 DEF SetResult, RunnersOK, Goto, Runners, Pc, store, local, admin,
         env, hist
    <2>3. AdminsOK' /\ EnvOK' /\ HistOK'
      BY <1>0, <1>20 DEF SetResult, AdminsOK, EnvOK, HistOK, store, local, admin, env, hist
    <2>4. QED
      BY <2>1, <2>2, <2>3 DEF TypeOK
  <1>21. ASSUME NEW r \in Runners, PersistResult(r) PROVE TypeOK'
    <2>1. ASSUME NEW b \in BOOLEAN
          PROVE  Update(outcome[r], FALSE, b, outcome[r]) \in RowUpdate
      BY <1>0, <1>21 DEF PersistResult, RunnersOK, Update, RowUpdate, Outcomes, Terminal
    <2>2. (r \in Workers) \in BOOLEAN
      OBVIOUS
    <2>3. Update(outcome[r], FALSE, r \in Workers, outcome[r]) \in RowUpdate
      BY <2>1, <2>2
    <2>4. StoreOK'
      BY <1>0, <1>21, <2>3, UpsertType DEF PersistResult, StoreOK, RunnersOK
    <2>5. RunnersOK'
      BY <1>0, <1>21, NoRowType DEF PersistResult, RunnersOK, Goto, Release, Pc, HbState
    <2>6. HistOK'
      BY <1>0, <1>21 DEF PersistResult, RunnersOK, HistOK
    <2>7. AdminsOK' /\ EnvOK'
      BY <1>0, <1>21 DEF PersistResult, AdminsOK, EnvOK, admin, env
    <2>8. QED
      BY <2>4, <2>5, <2>6, <2>7 DEF TypeOK
  <1>22. ASSUME NEW a \in Admins, NEW j \in JobIds, CancelRequest(a, j) PROVE TypeOK'
    <2>1. StoreOK'
      BY <1>0, <1>22, RequestCancelType DEF CancelRequest, StoreOK, store, local, admin,
         env, hist
    <2>2. AdminsOK'
      BY <1>0, <1>22 DEF CancelRequest, AdminsOK, AdminGoto, AdminDone, AdminPc, store,
         local, admin, env, hist
    <2>3. HistOK'
      BY <1>0, <1>22 DEF CancelRequest, HistOK, store, local, admin, env, hist
    <2>4. RunnersOK' /\ EnvOK'
      BY <1>0, <1>22 DEF CancelRequest, RunnersOK, EnvOK, store, local, admin, env, hist
    <2>5. QED
      BY <2>1, <2>2, <2>3, <2>4 DEF TypeOK
  <1>23. ASSUME NEW a \in Admins, CancelGet(a) PROVE TypeOK'
    <2>1. AdminsOK'
      BY <1>0, <1>23, NoRowType DEF CancelGet, AdminsOK, AdminGoto, AdminDone, AdminPc,
         StoreOK, store, local, admin, env, hist
    <2>2. StoreOK' /\ RunnersOK' /\ EnvOK' /\ HistOK'
      BY <1>0, <1>23 DEF CancelGet, StoreOK, RunnersOK, EnvOK, HistOK, store, local,
         admin, env, hist
    <2>3. QED
      BY <2>1, <2>2 DEF TypeOK
  <1>24. ASSUME NEW a \in Admins, CancelMem(a) PROVE TypeOK'
    <2>1. ASSUME NEW s \in Unfinished \cup Terminal \cup {"absent"}
          PROVE  [arow[a] EXCEPT !.status = s] \in Row
      BY <1>0 DEF AdminsOK, Row
    <2>2. ajob[a] \in JobIds /\ arow[a] \in Row /\ arow[a].status # "absent"
      BY <1>0, <1>24 DEF CancelMem, AdminsOK
    <2>3. PICK s \in Unfinished \cup Terminal : arow' = [arow EXCEPT ![a].status = s]
      BY <1>0, <1>24, <2>2 DEF CancelMem, StoreOK, Row, Entry, Terminal, Outcomes
    <2>4. s # "absent"
      BY DEF Unfinished, Terminal
    <2>5. AdminsOK'
      <3>1. arow' \in [Admins -> Row]
        BY <1>0, <2>1, <2>3 DEF AdminsOK
      <3>2. arow'[a].status # "absent"
        BY <1>0, <2>2, <2>3, <2>4 DEF AdminsOK, Row
      <3>3. \A b \in Admins \ {a} : arow'[b] = arow[b]
        BY <1>0, <2>3 DEF AdminsOK
      <3>4. QED
        BY <1>0, <1>24, <2>2, <3>1, <3>2, <3>3 DEF CancelMem, AdminGoto, AdminsOK, AdminPc
    <2>6. StoreOK' /\ RunnersOK' /\ EnvOK' /\ HistOK'
      BY <1>0, <1>24 DEF CancelMem, StoreOK, RunnersOK, EnvOK, HistOK, store, local, env,
         hist
    <2>7. QED
      BY <2>5, <2>6 DEF TypeOK
  <1>25. ASSUME NEW a \in Admins, CancelPut(a) PROVE TypeOK'
    <2>1. StoreOK'
      BY <1>0, <1>25, UpsertType DEF CancelPut, StoreOK, AdminsOK, Row, Update, RowUpdate,
         Unfinished, Terminal, store, local, admin, env, hist
    <2>2. AdminsOK'
      BY <1>0, <1>25, NoRowType DEF CancelPut, AdminsOK, AdminGoto, AdminDone, AdminPc,
         store, local, admin, env, hist
    <2>3. HistOK'
      BY <1>0, <1>25 DEF CancelPut, HistOK, AdminsOK, store, local, admin, env, hist
    <2>4. RunnersOK' /\ EnvOK'
      BY <1>0, <1>25 DEF CancelPut, RunnersOK, EnvOK, store, local, admin, env, hist
    <2>5. QED
      BY <2>1, <2>2, <2>3, <2>4 DEF TypeOK
  <1>26. ASSUME NEW a \in Admins, NEW j \in JobIds, DeleteRequest(a, j) PROVE TypeOK'
    <2>1. StoreOK'
      BY <1>0, <1>26, EraseType DEF DeleteRequest, StoreOK, store, local, admin, env, hist
    <2>2. AdminsOK'
      BY <1>0, <1>26 DEF DeleteRequest, AdminsOK, AdminGoto, AdminDone, AdminPc, store,
         local, admin, env, hist
    <2>3. RunnersOK' /\ EnvOK' /\ HistOK'
      BY <1>0, <1>26 DEF DeleteRequest, RunnersOK, EnvOK, HistOK, store, local, admin,
         env, hist
    <2>4. QED
      BY <2>1, <2>2, <2>3 DEF TypeOK
  <1>27. ASSUME NEW a \in Admins, DeleteGet(a) PROVE TypeOK'
    <2>1. AdminsOK'
      BY <1>0, <1>27, NoRowType DEF DeleteGet, AdminsOK, AdminGoto, AdminDone, AdminPc,
         store, local, admin, env, hist
    <2>2. StoreOK' /\ RunnersOK' /\ EnvOK' /\ HistOK'
      BY <1>0, <1>27 DEF DeleteGet, StoreOK, RunnersOK, EnvOK, HistOK, store, local,
         admin, env, hist
    <2>3. QED
      BY <2>1, <2>2 DEF TypeOK
  <1>28. ASSUME NEW a \in Admins, DeleteRow(a) PROVE TypeOK'
    <2>1. StoreOK'
      BY <1>0, <1>28, TableType DEF DeleteRow, StoreOK, AdminsOK, store, local, admin,
         env, hist
    <2>2. AdminsOK'
      BY <1>0, <1>28, NoRowType DEF DeleteRow, AdminsOK, AdminGoto, AdminDone, AdminPc,
         store, local, admin, env, hist
    <2>3. HistOK'
      BY <1>0, <1>28 DEF DeleteRow, HistOK, AdminsOK, store, local, admin, env, hist
    <2>4. RunnersOK' /\ EnvOK'
      BY <1>0, <1>28 DEF DeleteRow, RunnersOK, EnvOK, store, local, admin, env, hist
    <2>5. QED
      BY <2>1, <2>2, <2>3, <2>4 DEF TypeOK
  <1>29. ASSUME Gc PROVE TypeOK'
    <2>1. StoreOK'
      BY <1>0, <1>29, EraseType DEF Gc, StoreOK, store, local, admin, env, hist
    <2>2. RunnersOK' /\ AdminsOK' /\ EnvOK' /\ HistOK'
      BY <1>0, <1>29 DEF Gc, RunnersOK, AdminsOK, EnvOK, HistOK, store, local, admin, env,
         hist
    <2>3. QED
      BY <2>1, <2>2 DEF TypeOK
  <1>30. ASSUME DrainBegin PROVE TypeOK'
    <2>1. EnvOK'
      BY <1>0, <1>30, BoundAssumption DEF DrainBegin, EnvOK, store, local, admin, env, hist
    <2>2. StoreOK' /\ RunnersOK' /\ AdminsOK' /\ HistOK'
      BY <1>0, <1>30 DEF DrainBegin, StoreOK, RunnersOK, AdminsOK, HistOK, store, local,
         admin, env, hist
    <2>3. QED
      BY <2>1, <2>2 DEF TypeOK
  <1>31. ASSUME DrainEnd PROVE TypeOK'
    <2>1. EnvOK'
      BY <1>0, <1>31 DEF DrainEnd, EnvOK, store, local, admin, env, hist
    <2>2. StoreOK' /\ RunnersOK' /\ AdminsOK' /\ HistOK'
      BY <1>0, <1>31 DEF DrainEnd, StoreOK, RunnersOK, AdminsOK, HistOK, store, local,
         admin, env, hist
    <2>3. QED
      BY <2>1, <2>2 DEF TypeOK
  <1>32. ASSUME Start PROVE TypeOK'
    <2>1. StoreOK'
      BY <1>0, <1>32, TableType DEF Start, StoreOK, store, local, admin, env, hist
    <2>2. EnvOK'
      BY <1>0, <1>32 DEF Start, EnvOK, store, local, admin, env, hist
    <2>3. RunnersOK' /\ AdminsOK' /\ HistOK'
      BY <1>0, <1>32 DEF Start, RunnersOK, AdminsOK, HistOK, store, local, admin, env, hist
    <2>4. QED
      BY <2>1, <2>2, <2>3 DEF TypeOK
  <1>33. ASSUME Crash PROVE TypeOK'
    <2>1. StoreOK'
      BY <1>0, <1>33, NoEntryType DEF Crash, StoreOK
    <2>3. RunnersOK'
      BY <1>33, NoRowType DEF Crash, RunnersOK, Pc, HbState
    <2>4. AdminsOK'
      BY <1>33, NoRowType DEF Crash, AdminsOK, AdminPc
    <2>5. up' \in BOOLEAN /\ drain' \in BOOLEAN
      BY <1>33 DEF Crash
    <2>6. EnvOK'
      BY <1>0, <1>33, <2>5, BoundAssumption DEF Crash, EnvOK
    <2>7. HistOK'
      BY <1>0, <1>33 DEF Crash, HistOK, hist
    <2>8. QED
      BY <2>1, <2>3, <2>4, <2>6, <2>7 DEF TypeOK
  <1>34. CASE UNCHANGED vars
    BY <1>0, <1>34 DEF vars, TypeOK, StoreOK, RunnersOK, AdminsOK, EnvOK, HistOK
  <1>35. QED
    BY <1>1, <1>2, <1>3, <1>4, <1>5, <1>6, <1>7, <1>8, <1>9, <1>10, <1>11, <1>12, <1>13,
       <1>14, <1>15, <1>16, <1>17, <1>18, <1>19, <1>20, <1>21, <1>22, <1>23, <1>24, <1>25,
       <1>26, <1>27, <1>28, <1>29, <1>30, <1>31, <1>32, <1>33, <1>34
       DEF Next, ThreadStep, EngineStep, HeartbeatStep, FinishStep, CancelStep, DeleteStep

\* TypeOK holds in every reachable state.
THEOREM TypeCorrect == Spec => []TypeOK
  BY InitType, StepType, PTL DEF Spec

(* What a step may do to the table, whoever takes it: the statements of    *)
(* agent_db_jobs.cpp, and a delete only on behalf of job/delete.           *)
TableStep ==
    \/ UNCHANGED db
    \/ \E j \in JobIds : \E u \in RowUpdate : db' = upsert_job(db, j, u)
    \/ \E j \in JobIds : can_claim(db, j) /\ db' = claim_job(db, j)
    \/ db' = recover_inflight_jobs_resumable(db)

\* Every action but DeleteRow is a TableStep.
LEMMA StepsOfTheTable ==
    ASSUME TypeOK, Next PROVE TableStep \/ \E a \in Admins : DeleteRow(a)
  <1>0. RunnersOK /\ AdminsOK /\ StoreOK
    BY DEF TypeOK
  <1> USE DEF Update, RowUpdate, Unfinished, Terminal, Outcomes
  <1>1. ASSUME NEW r \in Requests, ThreadStep(r) PROVE TableStep
    <2>1. CASE PersistStub(r)
      <3>1. job[r] \in JobIds /\ Update("queued", FALSE, body[r], "none") \in RowUpdate
        BY <1>0, <2>1 DEF PersistStub, RunnersOK, Runners
      <3>2. QED
        BY <2>1, <3>1 DEF PersistStub, TableStep
    <2>2. CASE PersistRunning(r)
      <3>1. job[r] \in JobIds /\ Update("running", FALSE, FALSE, "none") \in RowUpdate
        BY <1>0, <2>2 DEF PersistRunning, RunnersOK, Runners
      <3>2. QED
        BY <2>2, <3>1 DEF PersistRunning, TableStep
    <2>3. CASE CreateJob(r) \/ RejectDuplicate(r) \/ StartThread(r)
      BY <2>3 DEF CreateJob, RejectDuplicate, StartThread, store, TableStep
    <2>4. QED
      BY <1>1, <2>1, <2>2, <2>3 DEF ThreadStep
  <1>2. ASSUME NEW w \in Workers, EngineStep(w) PROVE TableStep
    <2>1. ASSUME NEW j \in JobIds, NEW s \in {"cancelled", "interrupted"}, Rewrite(w, j, s)
          PROVE TableStep
      <3>1. Update(s, todo[w][j].cancel, todo[w][j].req, todo[w][j].result) \in RowUpdate
        BY <1>0 DEF RunnersOK, Runners, Row
      <3>2. QED
        BY <2>1, <3>1 DEF Rewrite, TableStep
    <2>2. ASSUME NEW j \in JobIds, FinalizeCancelled(w, j) \/ FinalizeUnresumable(w, j)
          PROVE TableStep
      BY <2>1, <2>2 DEF FinalizeCancelled, FinalizeUnresumable
    <2>3. ASSUME NEW j \in JobIds, Claim(w, j) \/ ClaimLost(w, j) PROVE TableStep
      BY <2>3 DEF Claim, ClaimLost, store, TableStep
    <2>4. CASE PersistTrace(w)
      <3>1. job[w] \in JobIds /\ Update("unset", FALSE, FALSE, "none") \in RowUpdate
        BY <1>0, <2>4 DEF PersistTrace, RunnersOK, Runners
      <3>2. QED
        BY <2>4, <3>1 DEF PersistTrace, TableStep
    <2>5. CASE ListQueued(w) \/ GetClaimed(w) \/ EnterJob(w) \/ MarkRunning(w)
      BY <2>5 DEF ListQueued, GetClaimed, EnterJob, MarkRunning, store, TableStep
    <2>6. QED
      BY <1>2, <2>2, <2>3, <2>4, <2>5 DEF EngineStep
  <1>3. ASSUME NEW r \in Runners, HeartbeatCheck(r) \/ HeartbeatStep(r) \/ FinishStep(r)
        PROVE TableStep
    <2>1. CASE HeartbeatWrite(r)
      <3>1. job[r] \in JobIds
        BY <1>0, <2>1 DEF HeartbeatWrite, RunnersOK
      <3>2. (hb[r] = "writeCancel") \in BOOLEAN
        OBVIOUS
      <3>3. \A b \in BOOLEAN : Update("running", b, FALSE, "none") \in RowUpdate
        OBVIOUS
      <3>4. Update("running", hb[r] = "writeCancel", FALSE, "none") \in RowUpdate
        BY <3>2, <3>3
      <3>5. QED
        BY <2>1, <3>1, <3>4 DEF HeartbeatWrite, TableStep
    <2>2. CASE PersistResult(r)
      <3>1. job[r] \in JobIds /\ outcome[r] \in Outcomes
        BY <1>0, <2>2 DEF PersistResult, RunnersOK
      <3>2. (r \in Workers) \in BOOLEAN
        OBVIOUS
      <3>3. \A b \in BOOLEAN : Update(outcome[r], FALSE, b, outcome[r]) \in RowUpdate
        BY <3>1
      <3>4. Update(outcome[r], FALSE, r \in Workers, outcome[r]) \in RowUpdate
        BY <3>2, <3>3
      <3>5. QED
        BY <2>2, <3>1, <3>4 DEF PersistResult, TableStep
    <2>3. CASE HeartbeatCheck(r) \/ HeartbeatRead(r) \/ SetResult(r)
      BY <2>3 DEF HeartbeatCheck, HeartbeatRead, SetResult, store, TableStep
    <2>4. ASSUME NEW o \in RunOutcomes, RunEnds(r, o) PROVE TableStep
      BY <2>4 DEF RunEnds, store, TableStep
    <2>5. QED
      BY <1>3, <2>1, <2>2, <2>3, <2>4 DEF HeartbeatStep, FinishStep
  <1>4. ASSUME NEW a \in Admins, CancelStep(a) PROVE TableStep
    <2>1. CASE CancelPut(a)
      <3>1. ajob[a] \in JobIds
        BY <1>0, <2>1 DEF CancelPut, AdminsOK
      <3>2. Update(arow[a].status, TRUE, arow[a].req, arow[a].result) \in RowUpdate
        BY <1>0, <2>1 DEF CancelPut, AdminsOK, Row
      <3>3. QED
        BY <2>1, <3>1, <3>2 DEF CancelPut, TableStep
    <2>2. CASE CancelGet(a) \/ CancelMem(a)
      BY <2>2 DEF CancelGet, CancelMem, store, TableStep
    <2>3. QED
      BY <1>4, <2>1, <2>2 DEF CancelStep
  <1>5. ASSUME NEW a \in Admins, NEW j \in JobIds, CancelRequest(a, j) \/ DeleteRequest(a, j)
        PROVE TableStep
    BY <1>5 DEF CancelRequest, DeleteRequest, TableStep
  <1>6. CASE Gc \/ DrainBegin \/ DrainEnd \/ Crash \/ Start
    BY <1>6 DEF Gc, DrainBegin, DrainEnd, Crash, Start, store, TableStep
  <1>7. ASSUME NEW r \in Requests, NEW j \in JobIds, NEW q \in BOOLEAN, Accept(r, j, q)
        PROVE TableStep
    BY <1>7 DEF Accept, store, TableStep
  <1>8. ASSUME NEW a \in Admins, DeleteStep(a) PROVE TableStep \/ DeleteRow(a)
    BY <1>8 DEF DeleteStep, DeleteGet, store, TableStep
  <1>9. QED
    BY <1>1, <1>2, <1>3, <1>4, <1>5, <1>6, <1>7, <1>8 DEF Next

\* A TableStep keeps a terminal status, a persisted cancel and the row.
Monotone(k) ==
    /\ db[k].status \in Terminal => db'[k].status = db[k].status
    /\ db[k].status # "absent" => /\ db'[k].status # "absent"
                                  /\ db[k].cancel => db'[k].cancel
                                  /\ db[k].req => db'[k].req

\* Every TableStep is Monotone: the lemma behind all the sticky facts.
LEMMA TableMonotone ==
    ASSUME TypeOK, TableStep, NEW k \in JobIds PROVE Monotone(k)
  <1>0. db \in [JobIds -> Row]
    BY DEF TypeOK, StoreOK
  <1>1. ASSUME NEW j \in JobIds, NEW u \in RowUpdate, db' = upsert_job(db, j, u)
        PROVE  Monotone(k)
    <2>1. CASE k # j
      BY <1>0, <1>1, <2>1 DEF upsert_job, Monotone
    <2>2. CASE k = j /\ db[k].status # "absent"
      <3>1. db'[k] = [status |-> IF db[k].status \in Terminal THEN db[k].status
                                 ELSE Inserted(u).status,
                      cancel |-> db[k].cancel \/ u.cancel,
                      req    |-> db[k].req \/ u.req,
                      result |-> IF u.result # "none" THEN u.result ELSE db[k].result]
        BY <1>0, <1>1, <2>2 DEF upsert_job
      <3>2. Inserted(u).status # "absent"
        BY DEF Inserted, RowUpdate, Unfinished, Terminal
      <3>3. /\ db'[k].status = IF db[k].status \in Terminal THEN db[k].status
                               ELSE Inserted(u).status
            /\ db'[k].cancel = (db[k].cancel \/ u.cancel)
            /\ db'[k].req = (db[k].req \/ u.req)
        BY <3>1
      <3>4. QED
        BY <3>2, <3>3, <2>2 DEF Monotone, Terminal
    <2>3. CASE k = j /\ db[k].status = "absent"
      BY <2>3 DEF Monotone, Terminal
    <2>4. QED
      BY <2>1, <2>2, <2>3
  <1>2. ASSUME NEW j \in JobIds, can_claim(db, j), db' = claim_job(db, j)
        PROVE  Monotone(k)
    BY <1>0, <1>2 DEF can_claim, claim_job, Row, Terminal, Monotone
  <1>3. CASE db' = recover_inflight_jobs_resumable(db)
    BY <1>0, <1>3 DEF recover_inflight_jobs_resumable, Row, Terminal, Unfinished, Monotone
  <1>4. CASE UNCHANGED db
    BY <1>4 DEF Monotone
  <1>5. QED
    BY <1>1, <1>2, <1>3, <1>4 DEF TableStep

\* The CASE in upsert_job, the WHERE of claim_job and the recovery together:
\* nothing but job/delete touches the status of a finished job.
THEOREM TerminalStatusIsSticky == Spec => TerminalSticky
  <1>1. TypeOK /\ [Next]_vars
          => [\A j \in JobIds : db[j].status \in Terminal
                => db'[j].status \in {db[j].status, "absent"}]_vars
    <2> SUFFICES ASSUME TypeOK, Next, NEW j \in JobIds, db[j].status \in Terminal
                 PROVE  db'[j].status \in {db[j].status, "absent"}
      OBVIOUS
    <2>1. CASE TableStep
      BY <2>1, TableMonotone DEF Monotone
    <2>2. ASSUME NEW a \in Admins, DeleteRow(a)
          PROVE  db'[j].status \in {db[j].status, "absent"}
      BY <2>2 DEF DeleteRow, delete_job, NoRow, TypeOK, StoreOK
    <2>3. QED
      BY <2>1, <2>2, StepsOfTheTable
  <1>2. QED
    BY <1>1, TypeCorrect, PTL DEF Spec, TerminalSticky

(* The invariant behind NoResumeAfterSettled: what the history remembers,  *)
(* the table still says.                                                   *)
SettledInv ==
    \A j \in JobIds : /\ settled[j] => db[j].status \in Terminal
                      /\ acked[j] => db[j].status # "absent" /\ db[j].cancel

\* SettledInv is inductive, given the types.
LEMMA SettledStep == TypeOK /\ SettledInv /\ [Next]_vars => SettledInv'
  <1> SUFFICES ASSUME TypeOK, SettledInv, [Next]_vars PROVE SettledInv'
    OBVIOUS
  <1>1. CASE UNCHANGED vars
    BY <1>1 DEF vars, SettledInv
  <1>2. ASSUME NEW a \in Admins, DeleteRow(a) PROVE SettledInv'
    BY <1>2 DEF DeleteRow, delete_job, NoRow, SettledInv, TypeOK, StoreOK, AdminsOK, HistOK
  <1>3. ASSUME TableStep, UNCHANGED <<acked, settled>> PROVE SettledInv'
    BY <1>3, TableMonotone DEF Monotone, SettledInv, Terminal
  <1>4. ASSUME NEW r \in Runners, PersistResult(r), TableStep PROVE SettledInv'
    <2>1. job[r] \in JobIds /\ outcome[r] \in Outcomes
      BY <1>4 DEF PersistResult, TypeOK, RunnersOK
    <2>2. db'[job[r]].status \in Terminal
      BY <1>4, <2>1 DEF PersistResult, TypeOK, StoreOK, Row, upsert_job, Inserted, Update,
                        Outcomes, Terminal
    <2>3. settled' = [settled EXCEPT ![job[r]] = TRUE] /\ UNCHANGED acked
      BY <1>4 DEF PersistResult
    <2>4. QED
      BY <1>4, <2>1, <2>2, <2>3, TableMonotone
      DEF Monotone, SettledInv, Terminal, TypeOK, HistOK
  <1>5. ASSUME NEW a \in Admins, CancelPut(a), TableStep PROVE SettledInv'
    <2>1. ajob[a] \in JobIds /\ arow[a].status \in Unfinished \cup Terminal
      BY <1>5 DEF CancelPut, TypeOK, AdminsOK, Row
    <2>2. db'[ajob[a]].status # "absent" /\ db'[ajob[a]].cancel
      BY <1>5, <2>1 DEF CancelPut, TypeOK, StoreOK, Row, upsert_job, Inserted, Update,
                        Unfinished, Terminal
    <2>3. acked' = [acked EXCEPT ![ajob[a]] = TRUE] /\ UNCHANGED settled
      BY <1>5 DEF CancelPut
    <2>4. QED
      BY <1>5, <2>1, <2>2, <2>3, TableMonotone
      DEF Monotone, SettledInv, Terminal, TypeOK, HistOK
  <1>6. Next => \/ \E a \in Admins : CancelPut(a) \/ DeleteRow(a)
                \/ \E r \in Runners : PersistResult(r)
                \/ UNCHANGED <<acked, settled>>
    BY DEF Next, ThreadStep, EngineStep, HeartbeatStep, FinishStep, CancelStep, DeleteStep,
           hist, Accept, CreateJob, RejectDuplicate, PersistStub, StartThread,
           PersistRunning,
           ListQueued, FinalizeCancelled, FinalizeUnresumable, Claim, ClaimLost, GetClaimed,
           EnterJob, PersistTrace, MarkRunning, HeartbeatCheck, HeartbeatRead,
           HeartbeatWrite,
           RunEnds, SetResult, CancelRequest, CancelGet, CancelMem, DeleteRequest,
           DeleteGet,
           Gc, DrainBegin, DrainEnd, Crash, Start
  <1>7. QED
    BY <1>1, <1>2, <1>3, <1>4, <1>5, <1>6, StepsOfTheTable

\* A cancel that reached the table and an outcome that was persisted hold off
\* every later claim, across crashes and whatever other threads write late.
THEOREM NeverResumedAfterSettled == Spec => NoResumeAfterSettled
  <1>1. Init => SettledInv
    BY DEF Init, SettledInv
  <1>2. TypeOK /\ SettledInv /\ [Next]_vars
          => [\A w \in Workers : pc[w] = "scan" /\ pc'[w] = "get"
                => ~acked[job'[w]] /\ ~settled[job'[w]]]_vars
    <2> SUFFICES ASSUME TypeOK, SettledInv, Next, NEW w \in Workers,
                        pc[w] = "scan", pc'[w] = "get"
                 PROVE  ~acked[job'[w]] /\ ~settled[job'[w]]
      OBVIOUS
    <2>1. \E j \in JobIds : Claim(w, j)
      <3> USE DEF TypeOK, RunnersOK, Runners, Goto, Release, local
      <3>1. ASSUME NEW v \in Workers, EngineStep(v) PROVE \E j \in JobIds : Claim(w, j)
        <4>1. ASSUME NEW j \in JobIds,
                     FinalizeCancelled(v, j) \/ FinalizeUnresumable(v, j) \/ ClaimLost(v, j)
              PROVE  FALSE
          BY <4>1 DEF FinalizeCancelled, FinalizeUnresumable, ClaimLost, Skip
        <4>2. CASE ListQueued(v) \/ GetClaimed(v) \/ EnterJob(v) \/ PersistTrace(v) \/ MarkRunning(v)
          BY <4>2 DEF ListQueued, GetClaimed, EnterJob, PersistTrace, MarkRunning
        <4>3. ASSUME NEW j \in JobIds, Claim(v, j) PROVE Claim(w, j)
          BY <4>3 DEF Claim
        <4>4. QED
          BY <3>1, <4>1, <4>2, <4>3 DEF EngineStep
      <3>2. ASSUME NEW r \in Requests,
                   ThreadStep(r) \/ \E j \in JobIds, q \in BOOLEAN : Accept(r, j, q)
            PROVE  FALSE
        BY <3>2 DEF ThreadStep, CreateJob, RejectDuplicate, PersistStub, StartThread,
                    PersistRunning, Accept
      <3>3. ASSUME NEW r \in Runners, HeartbeatCheck(r) \/ HeartbeatStep(r) \/ FinishStep(r)
            PROVE  FALSE
        BY <3>3 DEF HeartbeatCheck, HeartbeatStep, HeartbeatRead, HeartbeatWrite,
           FinishStep,
                    RunEnds, SetResult, PersistResult
      <3>4. ASSUME NEW a \in Admins,
                   \/ CancelStep(a) \/ DeleteStep(a)
                   \/ \E j \in JobIds : CancelRequest(a, j) \/ DeleteRequest(a, j)
            PROVE  FALSE
        BY <3>4 DEF CancelStep, DeleteStep, CancelRequest, CancelGet, CancelMem, CancelPut,
                    DeleteRequest, DeleteGet, DeleteRow
      <3>5. CASE Gc \/ DrainBegin \/ DrainEnd \/ Crash \/ Start
        BY <3>5 DEF Gc, DrainBegin, DrainEnd, Crash, Start
      <3>6. QED
        BY <3>1, <3>2, <3>3, <3>4, <3>5 DEF Next
    <2>2. PICK j \in JobIds : Claim(w, j)
      BY <2>1
    <2>3. job'[w] = j
      BY <2>2 DEF Claim, TypeOK, RunnersOK, Runners
    <2>4. db[j].status = "queued" /\ ~db[j].cancel
      BY <2>2 DEF Claim, can_claim
    <2>5. QED
      BY <2>3, <2>4 DEF SettledInv, Terminal
  <1>3. QED
    BY <1>1, <1>2, SettledStep, TypeCorrect, PTL DEF Spec, NoResumeAfterSettled

(* The invariant behind NoOrphan, when no client deletes jobs.  A finished  *)
(* heartbeat or cancel may write "running" long after it read the job, so  *)
(* the ownership of everything still in flight has to be tracked: of the   *)
(* in-memory entry, of the row a cancel is about to write, and of the      *)
(* request a claimed row needs so that execute_job does not return early.  *)

\* The runner answers for the in-memory entry: it will set its result.
EntryOwner(r, j) ==
    job[r] = j /\ pc[r] \in {"stub", "spawn", "dbrun", "trace", "setrun", "run", "join"}

Owned(j) == \E r \in Runners : Owns(r, j)

RowOwned     == \A j \in JobIds : up /\ db[j].status = "running" => Owned(j)
EntryOwned   == \A j \in JobIds : mem[j].status \in Unfinished
                                    => \E r \in Runners : EntryOwner(r, j)
PendingOwned == \A a \in Admins :
                    apc[a] \in {"cmem", "cput"} /\ arow[a].status = "running"
                      => Owned(ajob[a]) \/ db[ajob[a]].status \in Terminal
ListedKept   == \A w \in Workers : \A j \in JobIds :
                    todo[w][j].status # "absent" /\ todo[w][j].req
                      => db[j].status # "absent" /\ db[j].req
ClaimedKept  == \A w \in Workers :
                    pc[w] = "get" => db[job[w]].status # "absent" /\ db[job[w]].req
NoDeletes    == \A a \in Admins : apc[a] \notin {"dget", "drow"}
DownIsIdle   == ~up => /\ \A r \in Runners : pc[r] = "idle"
                       /\ \A a \in Admins : apc[a] = "idle"

OwnerInv == /\ RowOwned /\ EntryOwned /\ PendingOwned
            /\ ListedKept /\ ClaimedKept /\ NoDeletes /\ DownIsIdle

\* No step but a crash takes a job from its owner before its row is terminal.
LEMMA OwnersKept ==
    ASSUME TypeOK, OwnerInv, Next, ~Crash, NEW r \in Runners, NEW j \in JobIds, Owns(r, j)
    PROVE  Owns(r, j)' \/ db'[j].status \in Terminal
  <1> USE DEF TypeOK, RunnersOK, Runners, Owns, Goto, Release, local
  <1>1. ASSUME NEW v \in Requests,
               ThreadStep(v) \/ \E k \in JobIds, q \in BOOLEAN : Accept(v, k, q)
        PROVE  Owns(r, j)'
    BY <1>1 DEF ThreadStep, CreateJob, RejectDuplicate, PersistStub, StartThread,
                PersistRunning, Accept
  <1>2. ASSUME NEW w \in Workers, EngineStep(w) PROVE Owns(r, j)'
    <2>1. ASSUME NEW k \in JobIds,
                 FinalizeCancelled(w, k) \/ FinalizeUnresumable(w, k) \/ ClaimLost(w, k)
          PROVE  Owns(r, j)'
      BY <2>1 DEF FinalizeCancelled, FinalizeUnresumable, ClaimLost, Skip, Scanning
    <2>2. ASSUME NEW k \in JobIds, Claim(w, k) PROVE Owns(r, j)'
      BY <2>2 DEF Claim, Scanning
    <2>3. CASE ListQueued(w) \/ EnterJob(w) \/ PersistTrace(w) \/ MarkRunning(w)
      BY <2>3 DEF ListQueued, EnterJob, PersistTrace, MarkRunning
    <2>4. CASE GetClaimed(w)
      BY <2>4 DEF GetClaimed, OwnerInv, ClaimedKept
    <2>5. QED
      BY <1>2, <2>1, <2>2, <2>3, <2>4 DEF EngineStep
  <1>3. ASSUME NEW v \in Runners, HeartbeatCheck(v) \/ HeartbeatStep(v) \/ SetResult(v)
        PROVE  Owns(r, j)'
    BY <1>3 DEF HeartbeatCheck, HeartbeatStep, HeartbeatRead, HeartbeatWrite, SetResult
  <1>4. ASSUME NEW v \in Runners, NEW o \in RunOutcomes, RunEnds(v, o) PROVE Owns(r, j)'
    BY <1>4 DEF RunEnds
  <1>5. ASSUME NEW v \in Runners, PersistResult(v)
        PROVE  Owns(r, j)' \/ db'[j].status \in Terminal
    <2>1. CASE v # r
      BY <1>5, <2>1 DEF PersistResult
    <2>2. CASE v = r
      <3>1. job[r] = j /\ outcome[r] \in Outcomes
        BY <1>5, <2>2 DEF PersistResult
      <3>2. db'[j].status \in Terminal
        BY <1>5, <2>2, <3>1 DEF PersistResult, StoreOK, Row, upsert_job, Inserted, Update,
                                Outcomes, Terminal
      <3>3. QED
        BY <3>2
    <2>3. QED
      BY <2>1, <2>2
  <1>6. ASSUME NEW a \in Admins,
               \/ CancelStep(a) \/ DeleteStep(a)
               \/ \E k \in JobIds : CancelRequest(a, k) \/ DeleteRequest(a, k)
        PROVE  Owns(r, j)'
    BY <1>6 DEF CancelStep, DeleteStep, CancelRequest, CancelGet, CancelMem, CancelPut,
                DeleteRequest, DeleteGet, DeleteRow
  <1>7. CASE Gc \/ DrainBegin \/ DrainEnd \/ Start
    BY <1>7 DEF Gc, DrainBegin, DrainEnd, Start
  <1>8. QED
    BY <1>1, <1>2, <1>3, <1>4, <1>5, <1>6, <1>7 DEF Next, FinishStep

\* Nor does it take the in-memory entry from its owner while it is unfinished.
LEMMA EntryOwnersKept ==
    ASSUME TypeOK, OwnerInv, Next, ~Crash, NEW r \in Runners, NEW j \in JobIds,
           EntryOwner(r, j)
    PROVE  EntryOwner(r, j)' \/ mem'[j].status \notin Unfinished
  <1> USE DEF TypeOK, RunnersOK, Runners, EntryOwner, Goto, Release, local
  <1>1. ASSUME NEW v \in Requests,
               ThreadStep(v) \/ \E k \in JobIds, q \in BOOLEAN : Accept(v, k, q)
        PROVE  EntryOwner(r, j)'
    BY <1>1 DEF ThreadStep, CreateJob, RejectDuplicate, PersistStub, StartThread,
                PersistRunning, Accept
  <1>2. ASSUME NEW w \in Workers, EngineStep(w) PROVE EntryOwner(r, j)'
    <2>1. ASSUME NEW k \in JobIds,
                 FinalizeCancelled(w, k) \/ FinalizeUnresumable(w, k) \/ ClaimLost(w, k)
          PROVE  EntryOwner(r, j)'
      BY <2>1 DEF FinalizeCancelled, FinalizeUnresumable, ClaimLost, Skip, Scanning
    <2>2. ASSUME NEW k \in JobIds, Claim(w, k) PROVE EntryOwner(r, j)'
      BY <2>2 DEF Claim, Scanning
    <2>3. CASE ListQueued(w) \/ EnterJob(w) \/ PersistTrace(w) \/ MarkRunning(w)
      BY <2>3 DEF ListQueued, EnterJob, PersistTrace, MarkRunning
    <2>4. CASE GetClaimed(w)
      BY <2>4 DEF GetClaimed
    <2>5. QED
      BY <1>2, <2>1, <2>2, <2>3, <2>4 DEF EngineStep
  <1>3. ASSUME NEW v \in Runners, HeartbeatCheck(v) \/ HeartbeatStep(v) \/ PersistResult(v)
        PROVE  EntryOwner(r, j)'
    BY <1>3 DEF HeartbeatCheck, HeartbeatStep, HeartbeatRead, HeartbeatWrite, PersistResult
  <1>4. ASSUME NEW v \in Runners, NEW o \in RunOutcomes, RunEnds(v, o)
        PROVE  EntryOwner(r, j)'
    BY <1>4 DEF RunEnds
  <1>5. ASSUME NEW v \in Runners, SetResult(v)
        PROVE  EntryOwner(r, j)' \/ mem'[j].status \notin Unfinished
    <2>1. CASE v # r
      BY <1>5, <2>1 DEF SetResult
    <2>2. CASE v = r
      <3>1. job[r] = j /\ outcome[r] \in Outcomes
        BY <1>5, <2>2 DEF SetResult
      <3>2. mem'[j].status \notin Unfinished
        BY <1>5, <2>2, <3>1 DEF SetResult, StoreOK, Entry, job_set_result, Outcomes,
           Unfinished
      <3>3. QED
        BY <3>2
    <2>3. QED
      BY <2>1, <2>2
  <1>6. ASSUME NEW a \in Admins,
               \/ CancelStep(a) \/ DeleteStep(a)
               \/ \E k \in JobIds : CancelRequest(a, k) \/ DeleteRequest(a, k)
        PROVE  EntryOwner(r, j)'
    BY <1>6 DEF CancelStep, DeleteStep, CancelRequest, CancelGet, CancelMem, CancelPut,
                DeleteRequest, DeleteGet, DeleteRow
  <1>7. CASE Gc \/ DrainBegin \/ DrainEnd \/ Start
    BY <1>7 DEF Gc, DrainBegin, DrainEnd, Start
  <1>8. QED
    BY <1>1, <1>2, <1>3, <1>4, <1>5, <1>6, <1>7 DEF Next, FinishStep

\* The row an upsert leaves: nobody else's row changes, and it says "running"
\* only if the update does and the row was not terminal.
LEMMA UpsertStatus ==
    ASSUME TypeOK, NEW j \in JobIds, NEW k \in JobIds, NEW u \in RowUpdate,
           db' = upsert_job(db, k, u), db'[j].status = "running", db[j].status # "running"
    PROVE  j = k /\ u.status = "running" /\ db[j].status \notin Terminal
  <1>1. j = k
    BY DEF TypeOK, StoreOK, upsert_job
  <1>2. db[j].status \notin Terminal
    BY <1>1 DEF TypeOK, StoreOK, upsert_job, Terminal
  <1>3. Inserted(u).status = "running"
    BY <1>1, <1>2 DEF TypeOK, StoreOK, upsert_job, Terminal
  <1>4. QED
    BY <1>1, <1>2, <1>3 DEF Inserted, RowUpdate, Unfinished, Terminal

\* A row that turns "running" has an owner after the step: the thread that
\* wrote it, or whoever owned the job that a cancel writes back.
LEMMA NewRunningOwned ==
    ASSUME TypeOK, OwnerInv, Next, ~Crash, NEW j \in JobIds,
           db'[j].status = "running", db[j].status # "running"
    PROVE  Owned(j)'
  <1>0. RunnersOK /\ AdminsOK /\ StoreOK
    BY DEF TypeOK
  <1> USE DEF Update, RowUpdate, Unfinished, Terminal, Outcomes
  <1>1. ASSUME NEW r \in Requests,
               ThreadStep(r) \/ \E k \in JobIds, q \in BOOLEAN : Accept(r, k, q)
        PROVE  Owned(j)'
    <2>1. CASE PersistStub(r)
      <3>1. job[r] \in JobIds /\ Update("queued", FALSE, body[r], "none") \in RowUpdate
        BY <1>0, <2>1 DEF PersistStub, RunnersOK, Runners
      <3>2. QED
        BY <2>1, <3>1, UpsertStatus DEF PersistStub
    <2>2. CASE PersistRunning(r)
      <3>1. job[r] \in JobIds /\ Update("running", FALSE, FALSE, "none") \in RowUpdate
        BY <1>0, <2>2 DEF PersistRunning, RunnersOK, Runners
      <3>2. j = job[r]
        BY <2>2, <3>1, UpsertStatus DEF PersistRunning
      <3>3. Owns(r, j)'
        BY <1>0, <2>2, <3>2 DEF PersistRunning, Goto, RunnersOK, Runners, Owns
      <3>4. QED
        BY <3>3 DEF Owned, Runners
    <2>3. CASE CreateJob(r) \/ RejectDuplicate(r) \/ StartThread(r)
      BY <2>3 DEF CreateJob, RejectDuplicate, StartThread, store
    <2>4. ASSUME NEW k \in JobIds, NEW q \in BOOLEAN, Accept(r, k, q) PROVE FALSE
      BY <2>4 DEF Accept, store
    <2>5. QED
      BY <1>1, <2>1, <2>2, <2>3, <2>4 DEF ThreadStep
  <1>2. ASSUME NEW w \in Workers, EngineStep(w) PROVE Owned(j)'
    <2>1. ASSUME NEW k \in JobIds, NEW s \in {"cancelled", "interrupted"}, Rewrite(w, k, s)
          PROVE FALSE
      <3>1. Update(s, todo[w][k].cancel, todo[w][k].req, todo[w][k].result) \in RowUpdate
        BY <1>0 DEF RunnersOK, Runners, Row
      <3>2. QED
        BY <2>1, <3>1, UpsertStatus DEF Rewrite
    <2>2. ASSUME NEW k \in JobIds, FinalizeCancelled(w, k) \/ FinalizeUnresumable(w, k)
          PROVE FALSE
      BY <2>1, <2>2 DEF FinalizeCancelled, FinalizeUnresumable
    <2>3. ASSUME NEW k \in JobIds, Claim(w, k) PROVE Owned(j)'
      <3>1. k = j
        BY <1>0, <2>3 DEF Claim, claim_job, StoreOK
      <3>2. Owns(w, j)'
        BY <1>0, <2>3, <3>1 DEF Claim, Goto, RunnersOK, Runners, Owns
      <3>3. QED
        BY <3>2 DEF Owned, Runners
    <2>4. CASE PersistTrace(w)
      <3>1. job[w] \in JobIds /\ Update("unset", FALSE, FALSE, "none") \in RowUpdate
        BY <1>0, <2>4 DEF PersistTrace, RunnersOK, Runners
      <3>2. QED
        BY <2>4, <3>1, UpsertStatus DEF PersistTrace
    <2>5. CASE ListQueued(w) \/ GetClaimed(w) \/ EnterJob(w) \/ MarkRunning(w)
      BY <2>5 DEF ListQueued, GetClaimed, EnterJob, MarkRunning, store
    <2>6. ASSUME NEW k \in JobIds, ClaimLost(w, k) PROVE FALSE
      BY <2>6 DEF ClaimLost, store
    <2>7. QED
      BY <1>2, <2>2, <2>3, <2>4, <2>5, <2>6 DEF EngineStep
  <1>3. ASSUME NEW r \in Runners, HeartbeatCheck(r) \/ HeartbeatStep(r) \/ FinishStep(r)
        PROVE Owned(j)'
    <2>1. CASE HeartbeatWrite(r)
      <3>1. job[r] \in JobIds /\ pc[r] \in {"run", "join"}
        BY <1>0, <2>1 DEF HeartbeatWrite, RunnersOK
      <3>2. (hb[r] = "writeCancel") \in BOOLEAN
        OBVIOUS
      <3>3. PICK b \in BOOLEAN :
              db' = upsert_job(db, job[r], Update("running", b, FALSE, "none"))
        BY <2>1, <3>2, Zenon DEF HeartbeatWrite
      <3>4. Update("running", b, FALSE, "none") \in RowUpdate
        OBVIOUS
      <3>5. j = job[r]
        BY <3>1, <3>3, <3>4, UpsertStatus
      <3>6. Owns(r, j)'
        BY <2>1, <3>1, <3>5 DEF HeartbeatWrite, Owns
      <3>7. QED
        BY <3>6 DEF Owned
    <2>2. CASE PersistResult(r)
      <3>1. job[r] \in JobIds /\ outcome[r] \in Outcomes
        BY <1>0, <2>2 DEF PersistResult, RunnersOK
      <3>2. (r \in Workers) \in BOOLEAN
        OBVIOUS
      <3>3. \A b \in BOOLEAN : Update(outcome[r], FALSE, b, outcome[r]) \in RowUpdate
        BY <3>1
      <3>4. Update(outcome[r], FALSE, r \in Workers, outcome[r]) \in RowUpdate
        BY <3>2, <3>3
      <3>5. \A b \in BOOLEAN : Update(outcome[r], FALSE, b, outcome[r]).status # "running"
        BY <3>1
      <3>6. Update(outcome[r], FALSE, r \in Workers, outcome[r]).status # "running"
        BY <3>2, <3>5
      <3>7. QED
        BY <2>2, <3>1, <3>4, <3>6, UpsertStatus DEF PersistResult
    <2>3. CASE HeartbeatCheck(r) \/ HeartbeatRead(r) \/ SetResult(r)
      BY <2>3 DEF HeartbeatCheck, HeartbeatRead, SetResult, store
    <2>4. ASSUME NEW o \in RunOutcomes, RunEnds(r, o) PROVE FALSE
      BY <2>4 DEF RunEnds, store
    <2>5. QED
      BY <1>3, <2>1, <2>2, <2>3, <2>4 DEF HeartbeatStep, FinishStep
  <1>4. ASSUME NEW a \in Admins, CancelPut(a) PROVE Owned(j)'
    <2>1. ajob[a] \in JobIds
      BY <1>0, <1>4 DEF CancelPut, AdminsOK
    <2>2. Update(arow[a].status, TRUE, arow[a].req, arow[a].result) \in RowUpdate
      BY <1>0, <1>4 DEF CancelPut, AdminsOK, Row
    <2>3. j = ajob[a] /\ arow[a].status = "running" /\ db[j].status \notin Terminal
      BY <1>4, <2>1, <2>2, UpsertStatus DEF CancelPut
    <2>4. Owned(j)
      BY <1>4, <2>3 DEF CancelPut, OwnerInv, PendingOwned
    <2>5. PICK r \in Runners : Owns(r, j)
      BY <2>4 DEF Owned
    <2>6. Owns(r, j)'
      BY <2>5, OwnersKept
    <2>7. QED
      BY <2>6 DEF Owned
  <1>5. ASSUME NEW a \in Admins,
               \/ CancelGet(a) \/ CancelMem(a)
               \/ \E k \in JobIds : CancelRequest(a, k) \/ DeleteRequest(a, k)
        PROVE FALSE
    BY <1>5 DEF CancelGet, CancelMem, CancelRequest, DeleteRequest, store
  <1>6. ASSUME NEW a \in Admins, DeleteStep(a) PROVE FALSE
    BY <1>0, <1>6 DEF DeleteStep, DeleteGet, DeleteRow, OwnerInv, NoDeletes
  <1>7. CASE Gc \/ DrainBegin \/ DrainEnd
    BY <1>7 DEF Gc, DrainBegin, DrainEnd, store
  <1>8. CASE Start
    BY <1>0, <1>8 DEF Start, recover_inflight_jobs_resumable, StoreOK, Row
  <1>9. QED
    BY <1>1, <1>2, <1>3, <1>4, <1>5, <1>6, <1>7, <1>8 DEF Next, CancelStep

\* An entry that turns unfinished is owned by the thread that made it so.
LEMMA NewEntryOwned ==
    ASSUME TypeOK, Next, NEW j \in JobIds,
           mem'[j].status \in Unfinished, mem[j].status \notin Unfinished
    PROVE  \E r \in Runners : EntryOwner(r, j)'
  <1> USE DEF TypeOK, StoreOK, RunnersOK, Runners, EntryOwner, Goto
  <1>1. ASSUME NEW r \in Requests,
               ThreadStep(r) \/ \E k \in JobIds, q \in BOOLEAN : Accept(r, k, q)
        PROVE  EntryOwner(r, j)'
    <2>1. CASE CreateJob(r)
      BY <2>1 DEF CreateJob, job_create
    <2>2. CASE StartThread(r)
      BY <2>2 DEF StartThread, job_set_status
    <2>3. ~ UNCHANGED mem
      OBVIOUS
    <2>4. QED
      BY <1>1, <2>1, <2>2, <2>3 DEF ThreadStep, RejectDuplicate, PersistStub,
         PersistRunning,
                                    Accept, store
  <1>2. ASSUME NEW w \in Workers, EngineStep(w) PROVE EntryOwner(w, j)'
    <2>1. CASE EnterJob(w)
      BY <2>1 DEF EnterJob, job_create
    <2>2. CASE MarkRunning(w)
      BY <2>2 DEF MarkRunning, job_set_status
    <2>3. ~ UNCHANGED mem
      OBVIOUS
    <2>4. QED
      BY <1>2, <2>1, <2>2, <2>3 DEF EngineStep, ListQueued, FinalizeCancelled,
            FinalizeUnresumable, Claim, ClaimLost, GetClaimed, PersistTrace, store
  <1>3. ASSUME NEW r \in Runners, SetResult(r) PROVE FALSE
    BY <1>3 DEF SetResult, Entry, job_set_result, Outcomes, Unfinished
  <1>4. ASSUME NEW r \in Runners, HeartbeatCheck(r) \/ HeartbeatStep(r) \/ PersistResult(r)
        PROVE  FALSE
    BY <1>4 DEF HeartbeatCheck, HeartbeatStep, HeartbeatRead, HeartbeatWrite,
       PersistResult, store
  <1>5. ASSUME NEW r \in Runners, NEW o \in RunOutcomes, RunEnds(r, o) PROVE FALSE
    BY <1>5 DEF RunEnds, store
  <1>6. ASSUME NEW a \in Admins, NEW k \in JobIds, CancelRequest(a, k) PROVE FALSE
    BY <1>6 DEF CancelRequest, cancellable, job_request_cancel, Entry
  <1>7. ASSUME NEW a \in Admins, NEW k \in JobIds, DeleteRequest(a, k) PROVE FALSE
    BY <1>7 DEF DeleteRequest, job_erase, NoEntry, Unfinished
  <1>8. ASSUME NEW a \in Admins, CancelStep(a) \/ DeleteStep(a) PROVE FALSE
    BY <1>8 DEF CancelStep, DeleteStep, CancelGet, CancelMem, CancelPut, DeleteGet,
                DeleteRow, store
  <1>9. CASE Gc \/ Crash
    BY <1>9 DEF Gc, Crash, job_erase, NoEntry, Unfinished
  <1>10. CASE DrainBegin \/ DrainEnd \/ Start
    BY <1>10 DEF DrainBegin, DrainEnd, Start, store
  <1>11. QED
    BY <1>1, <1>2, <1>3, <1>4, <1>5, <1>6, <1>7, <1>8, <1>9, <1>10
    DEF Next, FinishStep

\* How a step touches one cancel request's copy of the row.
LEMMA PendingSteps ==
    ASSUME TypeOK, OwnerInv, Next, ~Crash, NEW a \in Admins,
           apc'[a] \in {"cmem", "cput"}, arow'[a].status = "running"
    PROVE  /\ ajob'[a] = ajob[a] /\ ajob[a] \in JobIds
           /\ \/ apc[a] \in {"cmem", "cput"} /\ arow[a].status = "running"
              \/ apc[a] = "cget" /\ db[ajob[a]].status = "running"
              \/ apc[a] = "cmem" /\ mem[ajob[a]].status = "running"
  <1> USE DEF TypeOK, AdminsOK, AdminGoto, AdminDone
  <1>1. ASSUME NEW b \in Admins, CancelMem(b)
        PROVE  /\ ajob'[a] = ajob[a] /\ ajob[a] \in JobIds
               /\ \/ apc[a] \in {"cmem", "cput"} /\ arow[a].status = "running"
                  \/ apc[a] = "cmem" /\ mem[ajob[a]].status = "running"
    BY <1>1 DEF CancelMem, Row
  <1>2. ASSUME NEW b \in Admins, CancelGet(b) \/ CancelPut(b) \/ DeleteStep(b)
        PROVE  /\ ajob'[a] = ajob[a] /\ ajob[a] \in JobIds
               /\ \/ apc[a] \in {"cmem", "cput"} /\ arow[a].status = "running"
                  \/ apc[a] = "cget" /\ db[ajob[a]].status = "running"
    <2>1. CASE b # a
      BY <1>2, <2>1 DEF CancelGet, CancelPut, DeleteStep, DeleteGet, DeleteRow
    <2>2. CASE b = a /\ CancelGet(b)
      BY <2>2 DEF CancelGet
    <2>3. CASE b = a /\ (CancelPut(b) \/ DeleteStep(b))
      BY <2>3 DEF CancelPut, DeleteStep, DeleteGet, DeleteRow
    <2>4. QED
      BY <1>2, <2>1, <2>2, <2>3
  <1>3. ASSUME NEW b \in Admins, NEW k \in JobIds, CancelRequest(b, k) \/ DeleteRequest(b, k)
        PROVE  /\ ajob'[a] = ajob[a] /\ ajob[a] \in JobIds
               /\ apc[a] \in {"cmem", "cput"} /\ arow[a].status = "running"
    BY <1>3 DEF CancelRequest, DeleteRequest
  <1>4. ASSUME UNCHANGED admin
        PROVE  /\ ajob'[a] = ajob[a] /\ ajob[a] \in JobIds
               /\ apc[a] \in {"cmem", "cput"} /\ arow[a].status = "running"
    BY <1>4 DEF admin
  <1>5. \/ UNCHANGED admin
        \/ \E b \in Admins : \/ CancelStep(b) \/ DeleteStep(b)
                             \/ \E k \in JobIds : CancelRequest(b, k) \/ DeleteRequest(b, k)
    BY DEF Next, ThreadStep, EngineStep, HeartbeatStep, FinishStep,
           Accept, CreateJob, RejectDuplicate, PersistStub, StartThread, PersistRunning,
           ListQueued, FinalizeCancelled, FinalizeUnresumable, Claim, ClaimLost, GetClaimed,
           EnterJob, PersistTrace, MarkRunning, HeartbeatCheck, HeartbeatRead,
           HeartbeatWrite,
           RunEnds, SetResult, PersistResult, Gc, DrainBegin, DrainEnd, Start
  <1>6. QED
    BY <1>1, <1>2, <1>3, <1>4, <1>5 DEF CancelStep

\* What a worker's list and its claim say about a row, the table still says.
LEMMA ListedStep ==
    ASSUME TypeOK, OwnerInv, Next, TableStep PROVE ListedKept' /\ ClaimedKept'
  <1>0. \A k \in JobIds : Monotone(k)
    BY TableMonotone
  <1> USE DEF TypeOK, StoreOK, RunnersOK, Runners, OwnerInv, ListedKept, ClaimedKept,
              Goto, Release, local
  <1>1. ASSUME NEW w \in Workers, ListQueued(w) PROVE ListedKept' /\ ClaimedKept'
    BY <1>1 DEF ListQueued, list_jobs_by_status, NoRow, store
  <1>2. ASSUME NEW w \in Workers, NEW j \in JobIds, Claim(w, j)
        PROVE  ListedKept' /\ ClaimedKept'
    <2>1. db[j].status # "absent" /\ db[j].req
      BY <1>2 DEF Claim, Scanning
    <2>2. ListedKept'
      BY <1>0, <1>2 DEF Claim, NoRows, NoRow, Monotone
    <2>3. ClaimedKept'
      BY <1>0, <1>2, <2>1 DEF Claim, Monotone
    <2>4. QED
      BY <2>2, <2>3
  <1>3. ASSUME NEW w \in Workers, NEW j \in JobIds,
               FinalizeCancelled(w, j) \/ FinalizeUnresumable(w, j) \/ ClaimLost(w, j)
        PROVE  ListedKept' /\ ClaimedKept'
    <2>1. Skip(w, j)
      BY <1>3 DEF FinalizeCancelled, FinalizeUnresumable, ClaimLost
    <2>2. \A v \in Workers : \A k \in JobIds :
            todo'[v][k].status # "absent" => todo'[v][k] = todo[v][k]
      BY <2>1 DEF Skip, NoRow
    <2>3. \A v \in Workers : pc'[v] = "get" => pc[v] = "get" /\ job'[v] = job[v]
      BY <2>1 DEF Skip
    <2>4. QED
      BY <1>0, <2>2, <2>3 DEF Monotone
  <1>4. ASSUME NEW w \in Workers,
               GetClaimed(w) \/ EnterJob(w) \/ PersistTrace(w) \/ MarkRunning(w)
        PROVE  ListedKept' /\ ClaimedKept'
    BY <1>0, <1>4 DEF GetClaimed, EnterJob, PersistTrace, MarkRunning, store, NoRows, NoRow,
                      Monotone
  <1>5. ASSUME NEW r \in Requests,
               ThreadStep(r) \/ \E k \in JobIds, q \in BOOLEAN : Accept(r, k, q)
        PROVE  ListedKept' /\ ClaimedKept'
    <2>1. \A v \in Workers : \A k \in JobIds :
            todo'[v][k].status # "absent" => todo'[v][k] = todo[v][k]
      <3>1. CASE RejectDuplicate(r)
        BY <3>1 DEF RejectDuplicate, NoRows, NoRow
      <3>2. CASE UNCHANGED todo
        BY <3>2
      <3>3. QED
        BY <1>5, <3>1, <3>2 DEF ThreadStep, CreateJob, PersistStub, StartThread,
                                PersistRunning, Accept
    <2>2. \A v \in Workers : pc'[v] = "get" => pc[v] = "get" /\ job'[v] = job[v]
      BY <1>5 DEF ThreadStep, CreateJob, RejectDuplicate, PersistStub, StartThread,
                  PersistRunning, Accept
    <2>3. QED
      BY <1>0, <2>1, <2>2 DEF Monotone
  <1>6. ASSUME NEW r \in Runners, HeartbeatCheck(r) \/ HeartbeatStep(r) \/ SetResult(r)
        PROVE  ListedKept' /\ ClaimedKept'
    BY <1>0, <1>6 DEF HeartbeatCheck, HeartbeatStep, HeartbeatRead, HeartbeatWrite,
       SetResult,
                      Monotone
  <1>7. ASSUME NEW r \in Runners, NEW o \in RunOutcomes, RunEnds(r, o)
        PROVE  ListedKept' /\ ClaimedKept'
    BY <1>0, <1>7 DEF RunEnds, Monotone
  <1>8. ASSUME NEW r \in Runners, PersistResult(r) PROVE ListedKept' /\ ClaimedKept'
    BY <1>0, <1>8 DEF PersistResult, NoRows, NoRow, Monotone
  <1>9. ASSUME UNCHANGED local PROVE ListedKept' /\ ClaimedKept'
    BY <1>0, <1>9 DEF Monotone
  <1>10. CASE Crash
    BY <1>0, <1>10 DEF Crash, NoRows, NoRow, Monotone
  <1>11. ASSUME NEW a \in Admins,
                \/ CancelStep(a) \/ DeleteStep(a)
                \/ \E k \in JobIds : CancelRequest(a, k) \/ DeleteRequest(a, k)
         PROVE  UNCHANGED local
    BY <1>11 DEF CancelStep, DeleteStep, CancelRequest, CancelGet, CancelMem, CancelPut,
                 DeleteRequest, DeleteGet, DeleteRow
  <1>12. Gc \/ DrainBegin \/ DrainEnd \/ Start => UNCHANGED local
    BY DEF Gc, DrainBegin, DrainEnd, Start
  <1>13. QED
    BY <1>1, <1>2, <1>3, <1>4, <1>5, <1>6, <1>7, <1>8, <1>9, <1>10, <1>11, <1>12
    DEF Next, EngineStep, FinishStep

\* While the daemon is down, only its start or a leftover of no effect happens.
LEMMA DownSteps ==
    ASSUME TypeOK, DownIsIdle, Next, ~up PROVE Start \/ Gc \/ DrainEnd
  <1> USE DEF DownIsIdle, TypeOK, RunnersOK, Runners
  <1>1. ASSUME NEW r \in Requests,
               ThreadStep(r) \/ \E j \in JobIds, q \in BOOLEAN : Accept(r, j, q)
        PROVE  FALSE
    BY <1>1 DEF ThreadStep, CreateJob, RejectDuplicate, PersistStub, StartThread,
                PersistRunning, Accept
  <1>2. ASSUME NEW w \in Workers, EngineStep(w) PROVE FALSE
    BY <1>2 DEF EngineStep, ListQueued, FinalizeCancelled, FinalizeUnresumable, Claim,
                ClaimLost, Scanning, GetClaimed, EnterJob, PersistTrace, MarkRunning
  <1>3. ASSUME NEW r \in Runners, HeartbeatCheck(r) \/ HeartbeatStep(r) \/ FinishStep(r)
        PROVE  FALSE
    BY <1>3 DEF HeartbeatCheck, HeartbeatStep, HeartbeatRead, HeartbeatWrite, FinishStep,
                RunEnds, SetResult, PersistResult
  <1>4. ASSUME NEW a \in Admins,
               \/ CancelStep(a) \/ DeleteStep(a)
               \/ \E j \in JobIds : CancelRequest(a, j) \/ DeleteRequest(a, j)
        PROVE  FALSE
    BY <1>4 DEF CancelStep, DeleteStep, CancelRequest, CancelGet, CancelMem, CancelPut,
                DeleteRequest, DeleteGet, DeleteRow
  <1>5. CASE DrainBegin \/ Crash
    BY <1>5 DEF DrainBegin, Crash
  <1>6. QED
    BY <1>1, <1>2, <1>3, <1>4, <1>5 DEF Next

\* Without a client that deletes, no admin request ever turns to deleting.
LEMMA NoDeletesStep ==
    ASSUME "delete" \notin AdminOps, TypeOK, NoDeletes, Next PROVE NoDeletes'
  <1> USE DEF NoDeletes, AdminGoto, AdminDone, TypeOK, AdminsOK
  <1>1. CASE UNCHANGED apc
    BY <1>1
  <1>2. ASSUME NEW a \in Admins,
               \/ CancelStep(a) \/ DeleteStep(a)
               \/ \E j \in JobIds : CancelRequest(a, j) \/ DeleteRequest(a, j)
        PROVE  NoDeletes'
    BY <1>2 DEF CancelStep, DeleteStep, CancelRequest, CancelGet, CancelMem, CancelPut,
                DeleteRequest, DeleteGet, DeleteRow
  <1>3. CASE Crash
    BY <1>3 DEF Crash
  <1>4. QED
    BY <1>1, <1>2, <1>3
    DEF Next, ThreadStep, EngineStep, HeartbeatStep, FinishStep, admin, Accept, CreateJob,
        RejectDuplicate, PersistStub, StartThread, PersistRunning, ListQueued,
        FinalizeCancelled, FinalizeUnresumable, Claim, ClaimLost, GetClaimed, EnterJob,
        PersistTrace, MarkRunning, HeartbeatCheck, HeartbeatRead, HeartbeatWrite, RunEnds,
        SetResult, PersistResult, Gc, DrainBegin, DrainEnd, Start

\* OwnerInv is inductive.
LEMMA OwnerStep ==
    ASSUME "delete" \notin AdminOps
    PROVE  TypeOK /\ OwnerInv /\ [Next]_vars => OwnerInv'
  <1> SUFFICES ASSUME TypeOK, OwnerInv, [Next]_vars PROVE OwnerInv'
    OBVIOUS
  <1>1. CASE UNCHANGED vars
    BY <1>1 DEF vars, OwnerInv, RowOwned, EntryOwned, PendingOwned, ListedKept, ClaimedKept,
                NoDeletes, DownIsIdle, Owned, Owns, EntryOwner
  <1>2. CASE Crash
    BY <1>2 DEF Crash, OwnerInv, RowOwned, EntryOwned, PendingOwned, ListedKept,
       ClaimedKept,
                NoDeletes, DownIsIdle, NoEntry, Unfinished, NoRows, NoRow, Runners
  <1>3. CASE Next /\ ~Crash
    <2>0. \A a \in Admins : ~DeleteRow(a)
      BY DEF DeleteRow, OwnerInv, NoDeletes
    <2>1. TableStep
      BY <1>3, <2>0, StepsOfTheTable
    <2>2. \A j \in JobIds : Monotone(j)
      BY <2>1, TableMonotone
    <2>3. ASSUME NEW j \in JobIds, Owned(j) PROVE Owned(j)' \/ db'[j].status \in Terminal
      BY <1>3, <2>3, OwnersKept DEF Owned
    <2>4. RowOwned'
      <3> SUFFICES ASSUME NEW j \in JobIds, up', db'[j].status = "running" PROVE Owned(j)'
        BY DEF RowOwned
      <3>1. CASE db[j].status # "running"
        BY <1>3, <3>1, NewRunningOwned
      <3>2. CASE db[j].status = "running" /\ up
        BY <3>2, <2>3 DEF OwnerInv, RowOwned, Terminal
      <3>3. CASE db[j].status = "running" /\ ~up
        <4>1. Start
          BY <1>3, <3>3, DownSteps DEF OwnerInv, Gc, DrainEnd, env
        <4>2. QED
          BY <4>1 DEF Start, recover_inflight_jobs_resumable, TypeOK, StoreOK, Row,
             Unfinished
      <3>4. QED
        BY <3>1, <3>2, <3>3 DEF TypeOK, EnvOK
    <2>5. EntryOwned'
      <3> SUFFICES ASSUME NEW j \in JobIds, mem'[j].status \in Unfinished
                   PROVE  \E r \in Runners : EntryOwner(r, j)'
        BY DEF EntryOwned
      <3>1. CASE mem[j].status \notin Unfinished
        BY <1>3, <3>1, NewEntryOwned
      <3>2. CASE mem[j].status \in Unfinished
        BY <1>3, <3>2, EntryOwnersKept DEF OwnerInv, EntryOwned
      <3>3. QED
        BY <3>1, <3>2
    <2>6. PendingOwned'
      <3> SUFFICES ASSUME NEW a \in Admins,
                          apc'[a] \in {"cmem", "cput"}, arow'[a].status = "running"
                   PROVE  Owned(ajob[a])' \/ db'[ajob'[a]].status \in Terminal
        BY DEF PendingOwned
      <3>1. ajob'[a] = ajob[a] /\ ajob[a] \in JobIds
        BY <1>3, PendingSteps
      <3>2. Owned(ajob[a]) \/ db[ajob[a]].status \in Terminal
        <4>1. CASE apc[a] \in {"cmem", "cput"} /\ arow[a].status = "running"
          BY <4>1 DEF OwnerInv, PendingOwned
        <4>2. CASE apc[a] = "cget" /\ db[ajob[a]].status = "running"
          BY <4>2, <3>1 DEF OwnerInv, RowOwned, DownIsIdle
        <4>3. CASE apc[a] = "cmem" /\ mem[ajob[a]].status = "running"
          BY <4>3, <3>1 DEF OwnerInv, EntryOwned, EntryOwner, Owned, Owns, Unfinished
        <4>4. QED
          BY <1>3, <4>1, <4>2, <4>3, PendingSteps
      <3>3. Owned(ajob[a]) => (\E r \in Runners : Owns(r, ajob[a])') \/ db'[ajob[a]].status \in Terminal
        BY <1>3, <3>1, OwnersKept DEF Owned
      <3>4. QED
        BY <2>2, <3>1, <3>2, <3>3 DEF Monotone, Owned, Owns
    <2>7. ListedKept' /\ ClaimedKept'
      BY <1>3, <2>1, ListedStep
    <2>8. NoDeletes'
      BY <1>3, NoDeletesStep DEF OwnerInv
    <2>9. DownIsIdle'
      <3>1. CASE ~up
        BY <1>3, <3>1, DownSteps, Zenon DEF OwnerInv, DownIsIdle, Start, Gc, DrainEnd,
           local, admin
      <3>2. CASE up
        <4>1. up'
          BY <1>3, <3>2, Zenon
          DEF Next, ThreadStep, EngineStep, HeartbeatStep, FinishStep, CancelStep,
          DeleteStep,
              env, Accept, CreateJob, RejectDuplicate, PersistStub, StartThread,
              PersistRunning, ListQueued, FinalizeCancelled, FinalizeUnresumable, Claim,
              ClaimLost, GetClaimed, EnterJob, PersistTrace, MarkRunning, HeartbeatCheck,
              HeartbeatRead, HeartbeatWrite, RunEnds, SetResult, PersistResult,
              CancelRequest, CancelGet, CancelMem, CancelPut, DeleteRequest, DeleteGet,
              DeleteRow, Gc, DrainBegin, DrainEnd, Start
        <4>2. QED
          BY <4>1 DEF DownIsIdle
      <3>3. QED
        BY <3>1, <3>2
    <2>10. QED
      BY <2>4, <2>5, <2>6, <2>7, <2>8, <2>9 DEF OwnerInv
  <1>4. QED
    BY <1>1, <1>2, <1>3

\* As long as clients only submit and cancel, a row that says "running" under
\* a running daemon has a thread that will finish it.
THEOREM RunningHasOwner ==
    ASSUME "delete" \notin AdminOps PROVE Spec => []NoOrphan
  <1>1. Init => OwnerInv
    BY DEF Init, OwnerInv, RowOwned, EntryOwned, PendingOwned, ListedKept, ClaimedKept,
           NoDeletes, DownIsIdle, NoRows, NoRow, NoEntry, Unfinished, Runners
  <1>2. OwnerInv => NoOrphan
    BY DEF OwnerInv, RowOwned, Owned, NoOrphan
  <1>3. TypeOK /\ OwnerInv /\ [Next]_vars => OwnerInv'
    BY OwnerStep
  <1>4. QED
    BY <1>1, <1>2, <1>3, TypeCorrect, PTL DEF Spec


-----------------------------------------------------------------------------
(* Statuses are witnessed: wherever a status, a result or a cancel flag is *)
(* kept (a row, a map entry, a listed row, a row job/cancel read), some    *)
(* execution or some client stands behind it.                              *)

\* a: a client asked to cancel the job; M: the outcomes its executions had.
Told(a, M, x) ==
    /\ x.status \in {"done", "error"} => x.status \in M
    /\ x.status = "cancelled" => a
    /\ x.result # "none" => x.result \in M
    /\ x.cancel => a

RowsTold == \A j \in JobIds : Told(asked[j], made[j], db[j])
EntriesTold == \A j \in JobIds : Told(asked[j], made[j], mem[j])
ListedTold == \A r \in Runners, j \in JobIds : Told(asked[j], made[j], todo[r][j])
RunsTold ==
    \A r \in Runners :
        /\ pc[r] \in {"join", "persist"} =>
               /\ outcome[r] \in made[job[r]]
               /\ outcome[r] = "cancelled" => asked[job[r]]
        /\ hb[r] = "writeCancel" => asked[job[r]]
AdminsTold ==
    \A a \in Admins :
        /\ apc[a] \in {"cget", "cmem", "cput"} => asked[ajob[a]]
        /\ apc[a] \in {"cmem", "cput"} => Told(asked[ajob[a]], made[ajob[a]], arow[a])

WitnessInv == RowsTold /\ EntriesTold /\ ListedTold /\ RunsTold /\ AdminsTold

\* The history only grows.
Grows == \A j \in JobIds : (asked[j] => asked'[j]) /\ made[j] \subseteq made'[j]

LEMMA ToldGrows ==
    ASSUME NEW a, NEW b, NEW M, NEW N, NEW x, Told(a, M, x), a => b, M \subseteq N
    PROVE  Told(b, N, x)
  BY DEF Told

\* An empty row or entry, and one that was just queued, claim nothing.
LEMMA ToldNothing ==
    ASSUME NEW a, NEW M
    PROVE  /\ Told(a, M, NoRow) /\ Told(a, M, NoEntry)
           /\ Told(a, M, [NoEntry EXCEPT !.status = "queued"])
  BY DEF Told, NoRow, NoEntry

LEMMA HistorySteps ==
    ASSUME Next
    PROVE  \/ \E a \in Admins, j \in JobIds : CancelRequest(a, j)
           \/ \E r \in Runners, o \in RunOutcomes : RunEnds(r, o)
           \/ UNCHANGED <<asked, made>>
  BY DEF Next, ThreadStep, EngineStep, HeartbeatStep, FinishStep, CancelStep, DeleteStep,
         hist, Accept, CreateJob, RejectDuplicate, PersistStub, StartThread,
         PersistRunning, ListQueued, FinalizeCancelled, FinalizeUnresumable, Claim,
         ClaimLost, GetClaimed, EnterJob, PersistTrace, MarkRunning, HeartbeatCheck,
         HeartbeatRead, HeartbeatWrite, SetResult, PersistResult, CancelGet, CancelMem,
         CancelPut, DeleteRequest, DeleteGet, DeleteRow, Gc, DrainBegin, DrainEnd, Crash,
         Start

LEMMA HistoryGrows == ASSUME TypeOK, Next PROVE Grows
  <1>1. CASE UNCHANGED <<asked, made>>
    BY <1>1 DEF Grows
  <1>2. ASSUME NEW a \in Admins, NEW j \in JobIds, CancelRequest(a, j) PROVE Grows
    BY <1>2 DEF CancelRequest, Grows, TypeOK, HistOK
  <1>3. ASSUME NEW r \in Runners, NEW o \in RunOutcomes, RunEnds(r, o) PROVE Grows
    <2>1. job[r] \in JobIds
      BY <1>3 DEF RunEnds, TypeOK, RunnersOK
    <2>2. made' = [made EXCEPT ![job[r]] = @ \cup {o}] /\ asked' = asked
      BY <1>3 DEF RunEnds
    <2>3. QED
      BY <2>1, <2>2 DEF Grows, TypeOK, HistOK
  <1>4. QED
    BY <1>1, <1>2, <1>3, HistorySteps

\* upsert_job of a witnessed update keeps the table witnessed.
LEMMA UpsertTold ==
    ASSUME TypeOK, RowsTold, Grows, NEW j \in JobIds, NEW u \in RowUpdate,
           Told(asked[j], made[j], u), db' = upsert_job(db, j, u)
    PROVE  RowsTold'
  <1>0. db \in [JobIds -> Row]
    BY DEF TypeOK, StoreOK
  <1>1. ASSUME NEW k \in JobIds PROVE Told(asked[k], made[k], db'[k])
    <2>1. CASE k # j
      BY <1>0, <2>1 DEF upsert_job, RowsTold
    <2>2. CASE k = j /\ db[k].status = "absent"
      <3>1. db'[k] = [status |-> IF u.status = "unset" THEN "queued" ELSE u.status,
                      cancel |-> u.cancel, req |-> u.req, result |-> u.result]
        BY <1>0, <2>2 DEF upsert_job, Inserted
      <3>2. QED
        BY <2>2, <3>1 DEF Told, RowUpdate
    <2>3. CASE k = j /\ db[k].status # "absent"
      <3>1. db'[k] = [status |-> IF db[k].status \in Terminal THEN db[k].status
                                 ELSE IF u.status = "unset" THEN "queued" ELSE u.status,
                      cancel |-> db[k].cancel \/ u.cancel,
                      req    |-> db[k].req \/ u.req,
                      result |-> IF u.result # "none" THEN u.result ELSE db[k].result]
        BY <1>0, <2>3 DEF upsert_job, Inserted
      <3>2. Told(asked[k], made[k], db[k]) /\ Told(asked[k], made[k], u)
        BY <2>3 DEF RowsTold
      <3>3. /\ db'[k].status = IF db[k].status \in Terminal THEN db[k].status
                               ELSE IF u.status = "unset" THEN "queued" ELSE u.status
            /\ db'[k].cancel = (db[k].cancel \/ u.cancel)
            /\ db'[k].result = IF u.result # "none" THEN u.result ELSE db[k].result
        BY <3>1
      <3>4. /\ db'[k].status \in {"done", "error"} => db'[k].status \in made[k]
            /\ db'[k].status = "cancelled" => asked[k]
        BY <3>2, <3>3 DEF Told
      <3>5. db'[k].cancel => asked[k]
        BY <3>2, <3>3, Zenon DEF Told
      <3>6. db'[k].result # "none" => db'[k].result \in made[k]
        BY <3>2, <3>3 DEF Told
      <3>7. QED
        BY <3>4, <3>5, <3>6 DEF Told
    <2>4. QED
      BY <2>1, <2>2, <2>3
  <1>2. QED
    BY <1>1, ToldGrows DEF RowsTold, Grows

LEMMA RowsTable ==
    ASSUME TypeOK, RowsTold, Grows,
           \/ UNCHANGED db
           \/ \E j \in JobIds : db' = claim_job(db, j)
           \/ \E j \in JobIds : db' = delete_job(db, j)
           \/ db' = recover_inflight_jobs_resumable(db)
    PROVE  RowsTold'
  <1>0. db \in [JobIds -> Row]
    BY DEF TypeOK, StoreOK
  <1>1. ASSUME NEW k \in JobIds PROVE Told(asked[k], made[k], db'[k])
    <2>0. Told(asked[k], made[k], db[k])
      BY DEF RowsTold
    <2>1. CASE UNCHANGED db
      BY <2>0, <2>1
    <2>2. ASSUME NEW j \in JobIds, db' = claim_job(db, j)
          PROVE  Told(asked[k], made[k], db'[k])
      BY <1>0, <2>0, <2>2 DEF claim_job, Told, Row
    <2>3. ASSUME NEW j \in JobIds, db' = delete_job(db, j)
          PROVE  Told(asked[k], made[k], db'[k])
      <3>1. db'[k] = NoRow \/ db'[k] = db[k]
        BY <1>0, <2>3 DEF delete_job
      <3>2. QED
        BY <2>0, <3>1, ToldNothing
    <2>4. CASE db' = recover_inflight_jobs_resumable(db)
      <3>1. \/ db'[k] = db[k]
            \/ db'[k] = [db[k] EXCEPT !.status = "queued"]
            \/ db'[k] = [db[k] EXCEPT !.status = "interrupted"]
        BY <1>0, <2>4 DEF recover_inflight_jobs_resumable
      <3>2. db[k] \in Row
        BY <1>0
      <3>3. QED
        BY <2>0, <3>1, <3>2 DEF Told, Row
    <2>5. QED
      BY <2>1, <2>2, <2>3, <2>4
  <1>2. QED
    BY <1>1, ToldGrows DEF RowsTold, Grows

\* An upsert of an update that is witnessed; the history stays as it is.
ToldWrite ==
    /\ \E j \in JobIds, u \in RowUpdate :
           Told(asked[j], made[j], u) /\ db' = upsert_job(db, j, u)
    /\ UNCHANGED <<asked, made>>

\* Every row written to the table is witnessed, and nothing else is done to the
\* table but a claim, a delete or the recovery.
LEMMA WritesAreTold ==
    ASSUME TypeOK, WitnessInv, Next
    PROVE  \/ ToldWrite
           \/ \E w \in Workers, j \in JobIds : Claim(w, j)
           \/ \E a \in Admins : DeleteRow(a)
           \/ Start
           \/ UNCHANGED db
  <1>0. StoreOK /\ RunnersOK /\ AdminsOK
    BY DEF TypeOK
  <1>00. ListedTold /\ RunsTold /\ AdminsTold
    BY DEF WitnessInv
  <1>9. \/ \E r \in Requests : PersistStub(r) \/ PersistRunning(r)
        \/ \E w \in Workers : \/ PersistTrace(w)
                              \/ \E j \in JobIds : \/ FinalizeCancelled(w, j)
                                                   \/ FinalizeUnresumable(w, j)
                                                   \/ Claim(w, j)
        \/ \E r \in Runners : HeartbeatWrite(r) \/ PersistResult(r)
        \/ \E a \in Admins : CancelPut(a) \/ DeleteRow(a)
        \/ Start
        \/ UNCHANGED db
    <2>1. ASSUME NEW r \in Requests,
                 ThreadStep(r) \/ \E j \in JobIds, q \in BOOLEAN : Accept(r, j, q)
          PROVE  PersistStub(r) \/ PersistRunning(r) \/ UNCHANGED db
      BY <2>1 DEF ThreadStep, store, Accept, CreateJob, RejectDuplicate, StartThread
    <2>2. ASSUME NEW w \in Workers, EngineStep(w)
          PROVE  \/ PersistTrace(w) \/ UNCHANGED db
                 \/ \E j \in JobIds : \/ FinalizeCancelled(w, j)
                                      \/ FinalizeUnresumable(w, j) \/ Claim(w, j)
      BY <2>2 DEF EngineStep, store, ListQueued, ClaimLost, GetClaimed, EnterJob,
                  MarkRunning
    <2>3. ASSUME NEW r \in Runners, HeartbeatCheck(r) \/ HeartbeatStep(r) \/ FinishStep(r)
          PROVE  HeartbeatWrite(r) \/ PersistResult(r) \/ UNCHANGED db
      BY <2>3 DEF HeartbeatStep, FinishStep, store, HeartbeatCheck, HeartbeatRead,
                  RunEnds, SetResult
    <2>4. ASSUME NEW a \in Admins,
                 \/ CancelStep(a) \/ DeleteStep(a)
                 \/ \E j \in JobIds : CancelRequest(a, j) \/ DeleteRequest(a, j)
          PROVE  CancelPut(a) \/ DeleteRow(a) \/ UNCHANGED db
      BY <2>4 DEF CancelStep, DeleteStep, store, CancelRequest, CancelGet, CancelMem,
                  DeleteRequest, DeleteGet
    <2>5. Gc \/ DrainBegin \/ DrainEnd \/ Crash => UNCHANGED db
      BY DEF Gc, DrainBegin, DrainEnd, Crash, store
    <2>6. QED
      BY <2>1, <2>2, <2>3, <2>4, <2>5 DEF Next
  <1> USE DEF Update, RowUpdate, Unfinished, Terminal, Outcomes
  <1>1. ASSUME NEW r \in Runners, NEW s \in {"queued", "running", "unset"},
               NEW q \in BOOLEAN, job[r] \in JobIds, UNCHANGED <<asked, made>>,
               db' = upsert_job(db, job[r], Update(s, FALSE, q, "none"))
        PROVE  ToldWrite
    <2>1. Update(s, FALSE, q, "none") \in RowUpdate
      OBVIOUS
    <2>2. Told(asked[job[r]], made[job[r]], Update(s, FALSE, q, "none"))
      BY DEF Told
    <2>3. QED
      BY <1>1, <2>1, <2>2 DEF ToldWrite
  <1>2. ASSUME NEW r \in Requests, PersistStub(r) PROVE ToldWrite
    <2>1. job[r] \in JobIds /\ body[r] \in BOOLEAN /\ r \in Runners
      BY <1>0, <1>2 DEF PersistStub, RunnersOK, Runners
    <2>2. QED
      BY <1>1, <1>2, <2>1 DEF PersistStub, hist
  <1>3. ASSUME NEW r \in Requests, PersistRunning(r) PROVE ToldWrite
    <2>1. job[r] \in JobIds /\ r \in Runners
      BY <1>0, <1>3 DEF PersistRunning, RunnersOK, Runners
    <2>2. QED
      BY <1>1, <1>3, <2>1 DEF PersistRunning, hist
  <1>4. ASSUME NEW w \in Workers, PersistTrace(w) PROVE ToldWrite
    <2>1. job[w] \in JobIds /\ w \in Runners
      BY <1>0, <1>4 DEF PersistTrace, RunnersOK, Runners
    <2>2. QED
      BY <1>1, <1>4, <2>1 DEF PersistTrace, hist
  <1>5. ASSUME NEW w \in Workers, NEW j \in JobIds,
               FinalizeCancelled(w, j) \/ FinalizeUnresumable(w, j)
        PROVE  ToldWrite
    <2> DEFINE row == todo[w][j]
    <2>1. PICK s \in {"cancelled", "interrupted"} :
                 /\ db' = upsert_job(db, j, Update(s, row.cancel, row.req, row.result))
                 /\ s = "cancelled" => row.cancel
      BY <1>5 DEF FinalizeCancelled, FinalizeUnresumable, Rewrite
    <2>2. row \in Row /\ Told(asked[j], made[j], row)
      BY <1>0, <1>00 DEF RunnersOK, Runners, ListedTold
    <2>3. Update(s, row.cancel, row.req, row.result) \in RowUpdate
      BY <2>2 DEF Row
    <2>4. Told(asked[j], made[j], Update(s, row.cancel, row.req, row.result))
      BY <2>1, <2>2 DEF Told
    <2>5. QED
      BY <1>5, <2>1, <2>3, <2>4 DEF ToldWrite, FinalizeCancelled, FinalizeUnresumable, hist
  <1>6. ASSUME NEW r \in Runners, HeartbeatWrite(r) PROVE ToldWrite
    <2> DEFINE c == hb[r] = "writeCancel"
    <2>h. UNCHANGED <<asked, made>>
      BY <1>6 DEF HeartbeatWrite, hist
    <2>1. job[r] \in JobIds
      BY <1>0, <1>6 DEF HeartbeatWrite, RunnersOK
    <2>2. db' = upsert_job(db, job[r], Update("running", c, FALSE, "none"))
      BY <1>6 DEF HeartbeatWrite
    <2>3. c \in BOOLEAN
      OBVIOUS
    <2>4. c => asked[job[r]]
      BY <1>00 DEF RunsTold
    <2> HIDE DEF c
    <2>5. Update("running", c, FALSE, "none") \in RowUpdate
      BY <2>3
    <2>6. Told(asked[job[r]], made[job[r]], Update("running", c, FALSE, "none"))
      BY <2>3, <2>4 DEF Told
    <2>7. QED
      BY <2>1, <2>2, <2>5, <2>6, <2>h DEF ToldWrite
  <1>7. ASSUME NEW r \in Runners, PersistResult(r) PROVE ToldWrite
    <2> DEFINE q == r \in Workers
               u == Update(outcome[r], FALSE, q, outcome[r])
    <2>h. UNCHANGED <<asked, made>>
      BY <1>7 DEF PersistResult, hist
    <2>1. job[r] \in JobIds /\ outcome[r] \in Outcomes
      BY <1>0, <1>7 DEF PersistResult, RunnersOK
    <2>2. db' = upsert_job(db, job[r], u) /\ pc[r] = "persist"
      BY <1>7 DEF PersistResult
    <2>3. q \in BOOLEAN
      OBVIOUS
    <2>4. outcome[r] \in made[job[r]] /\ (outcome[r] = "cancelled" => asked[job[r]])
      BY <1>00, <2>2 DEF RunsTold
    <2> HIDE DEF q
    <2>5. u \in RowUpdate
      BY <2>1, <2>3
    <2>6. Told(asked[job[r]], made[job[r]], u)
      BY <2>4 DEF Told
    <2> HIDE DEF u
    <2>7. QED
      BY <2>1, <2>2, <2>5, <2>6, <2>h DEF ToldWrite
  <1>8. ASSUME NEW a \in Admins, CancelPut(a) PROVE ToldWrite
    <2> DEFINE u == Update(arow[a].status, TRUE, arow[a].req, arow[a].result)
    <2>h. UNCHANGED <<asked, made>>
      BY <1>8 DEF CancelPut, hist
    <2>1. ajob[a] \in JobIds /\ apc[a] = "cput" /\ db' = upsert_job(db, ajob[a], u)
      BY <1>0, <1>8 DEF CancelPut, AdminsOK
    <2>2. u \in RowUpdate
      BY <1>0, <2>1 DEF AdminsOK, Row
    <2>3. asked[ajob[a]] /\ Told(asked[ajob[a]], made[ajob[a]], arow[a])
      BY <1>00, <2>1 DEF AdminsTold
    <2>4. Told(asked[ajob[a]], made[ajob[a]], u)
      BY <2>3 DEF Told
    <2> HIDE DEF u
    <2>5. QED
      BY <2>1, <2>2, <2>4, <2>h DEF ToldWrite
  <1>10. QED
    BY <1>2, <1>3, <1>4, <1>5, <1>6, <1>7, <1>8, <1>9

LEMMA RowsToldStep ==
    ASSUME TypeOK, WitnessInv, Next PROVE RowsTold'
  <1>0. RowsTold /\ Grows /\ AdminsOK
    BY HistoryGrows DEF TypeOK, WitnessInv
  <1>1. CASE ToldWrite
    <2>1. PICK j \in JobIds, u \in RowUpdate :
                 Told(asked[j], made[j], u) /\ db' = upsert_job(db, j, u)
      BY <1>1 DEF ToldWrite
    <2>2. QED
      BY <1>0, <2>1, UpsertTold
  <1>2. ASSUME NEW a \in Admins, DeleteRow(a) PROVE RowsTold'
    <2>1. ajob[a] \in JobIds /\ db' = delete_job(db, ajob[a])
      BY <1>0, <1>2 DEF DeleteRow, AdminsOK
    <2>2. QED
      BY <1>0, <2>1, RowsTable
  <1>3. ASSUME NEW w \in Workers, NEW j \in JobIds, Claim(w, j) PROVE RowsTold'
    BY <1>0, <1>3, RowsTable DEF Claim
  <1>4. CASE Start \/ UNCHANGED db
    BY <1>0, <1>4, RowsTable DEF Start
  <1>5. QED
    BY <1>1, <1>2, <1>3, <1>4, WritesAreTold

\* Every entry written to the map is witnessed.
LEMMA EntriesToldStep ==
    ASSUME TypeOK, WitnessInv, Next PROVE EntriesTold'
  <1>0. StoreOK /\ RunnersOK /\ Grows /\ HistOK
    BY HistoryGrows DEF TypeOK
  <1>00. EntriesTold /\ RunsTold
    BY DEF WitnessInv
  <1>000. mem \in [JobIds -> Entry]
    BY <1>0 DEF StoreOK
  <1>g. ASSUME \A k \in JobIds : Told(asked[k], made[k], mem'[k]) PROVE EntriesTold'
    BY <1>0, <1>g, ToldGrows DEF EntriesTold, Grows
  <1>1. ASSUME NEW j \in JobIds, mem' = job_create(mem, j) PROVE EntriesTold'
    <2> SUFFICES ASSUME NEW k \in JobIds PROVE Told(asked[k], made[k], mem'[k])
      BY <1>g
    <2>1. mem'[k] = mem[k] \/ mem'[k] = [NoEntry EXCEPT !.status = "queued"]
      BY <1>000, <1>1 DEF job_create
    <2>2. QED
      BY <1>00, <2>1, ToldNothing DEF EntriesTold
  <1>2. ASSUME NEW j \in JobIds, mem' = job_set_status(mem, j, "running")
        PROVE  EntriesTold'
    <2> SUFFICES ASSUME NEW k \in JobIds PROVE Told(asked[k], made[k], mem'[k])
      BY <1>g
    <2>1. mem'[k] = mem[k] \/ mem'[k] = [mem[k] EXCEPT !.status = "running"]
      BY <1>000, <1>2 DEF job_set_status
    <2>2. Told(asked[k], made[k], mem[k]) /\ mem[k] \in Entry
      BY <1>00, <1>000 DEF EntriesTold
    <2>3. QED
      BY <2>1, <2>2 DEF Told, Entry
  <1>3. ASSUME NEW r \in Runners, SetResult(r) PROVE EntriesTold'
    <2>1. job[r] \in JobIds /\ outcome[r] \in Outcomes /\ pc[r] = "join"
      BY <1>0, <1>3 DEF SetResult, RunnersOK
    <2>2. outcome[r] \in made[job[r]] /\ (outcome[r] = "cancelled" => asked[job[r]])
      BY <1>00, <2>1 DEF RunsTold
    <2>3. SUFFICES ASSUME NEW k \in JobIds PROVE Told(asked[k], made[k], mem'[k])
      BY <1>g
    <2>4. Told(asked[k], made[k], mem[k]) /\ mem[k] \in Entry
      BY <1>00, <1>000 DEF EntriesTold
    <2>5. CASE mem'[k] = mem[k]
      BY <2>4, <2>5
    <2>6. CASE /\ k = job[r]
               /\ mem'[k] = [mem[k] EXCEPT !.status = outcome[r], !.result = outcome[r]]
      <3>1. /\ mem'[k].status = outcome[r] /\ mem'[k].result = outcome[r]
            /\ mem'[k].cancel = mem[k].cancel
        BY <2>4, <2>6 DEF Entry
      <3>2. QED
        BY <2>2, <2>4, <2>6, <3>1 DEF Told
    <2>7. QED
      BY <1>3, <1>000, <2>1, <2>5, <2>6 DEF SetResult, job_set_result
  <1>4. ASSUME NEW a \in Admins, NEW j \in JobIds, CancelRequest(a, j) PROVE EntriesTold'
    <2>1. mem' = job_request_cancel(mem, j) /\ asked' = [asked EXCEPT ![j] = TRUE]
      BY <1>4 DEF CancelRequest
    <2>2. SUFFICES ASSUME NEW k \in JobIds PROVE Told(asked'[k], made'[k], mem'[k])
      BY DEF EntriesTold
    <2>3. Told(asked'[k], made'[k], mem[k]) /\ mem[k] \in Entry
      BY <1>0, <1>00, <1>000, ToldGrows DEF EntriesTold, Grows
    <2>4. CASE k # j
      BY <1>000, <2>1, <2>3, <2>4 DEF job_request_cancel
    <2>5. CASE k = j
      <3>1. mem'[k] = [mem[k] EXCEPT !.cancel = TRUE] /\ asked'[k]
        BY <1>0, <1>000, <2>1, <2>5 DEF job_request_cancel, HistOK
      <3>2. /\ mem'[k].status = mem[k].status /\ mem'[k].result = mem[k].result
        BY <2>3, <3>1 DEF Entry
      <3>3. QED
        BY <2>3, <3>1, <3>2 DEF Told
    <2>6. QED
      BY <2>4, <2>5
  <1>5. ASSUME NEW dead, mem' = job_erase(mem, dead) PROVE EntriesTold'
    <2> SUFFICES ASSUME NEW k \in JobIds PROVE Told(asked[k], made[k], mem'[k])
      BY <1>g
    <2>1. mem'[k] = mem[k] \/ mem'[k] = NoEntry
      BY <1>000, <1>5 DEF job_erase
    <2>2. QED
      BY <1>00, <2>1, ToldNothing DEF EntriesTold
  <1>6. CASE UNCHANGED mem
    BY <1>00, <1>6, <1>g DEF EntriesTold
  <1>7. CASE Crash
    BY <1>7, ToldNothing DEF Crash, EntriesTold
  <1>8. ASSUME NEW r \in Runners,
               CreateJob(r) \/ EnterJob(r) \/ StartThread(r) \/ MarkRunning(r)
        PROVE  EntriesTold'
    <2>1. job[r] \in JobIds
      BY <1>0, <1>8 DEF CreateJob, EnterJob, StartThread, MarkRunning, RunnersOK
    <2>2. QED
      BY <1>1, <1>2, <1>8, <2>1 DEF CreateJob, EnterJob, StartThread, MarkRunning
  <1>9. ASSUME NEW a \in Admins, NEW j \in JobIds, DeleteRequest(a, j) PROVE EntriesTold'
    BY <1>5, <1>6, <1>9 DEF DeleteRequest
  <1>10. CASE Gc
    BY <1>5, <1>10 DEF Gc
  <1>11. \/ \E r \in Runners : \/ CreateJob(r) \/ EnterJob(r) \/ StartThread(r)
                               \/ MarkRunning(r) \/ SetResult(r)
         \/ \E a \in Admins, j \in JobIds : CancelRequest(a, j) \/ DeleteRequest(a, j)
         \/ Gc \/ Crash
         \/ UNCHANGED mem
    BY DEF Next, Runners, ThreadStep, EngineStep, HeartbeatStep, FinishStep, CancelStep,
           DeleteStep, store, Accept, RejectDuplicate, PersistStub, PersistRunning,
           ListQueued, FinalizeCancelled, FinalizeUnresumable, Claim, ClaimLost,
           GetClaimed, PersistTrace, HeartbeatCheck, HeartbeatRead, HeartbeatWrite,
           RunEnds, PersistResult, CancelGet, CancelMem, CancelPut, DeleteGet, DeleteRow,
           DrainBegin, DrainEnd, Start
  <1>12. QED
    BY <1>3, <1>4, <1>6, <1>7, <1>8, <1>9, <1>10, <1>11

\* A listed row is one the table held; a row looked at is struck off the list.
LEMMA ListedToldStep ==
    ASSUME TypeOK, WitnessInv, Next PROVE ListedTold'
  <1>0. StoreOK /\ RunnersOK /\ Grows
    BY HistoryGrows DEF TypeOK
  <1>00. RowsTold /\ ListedTold
    BY DEF WitnessInv
  <1>000. todo \in [Runners -> [JobIds -> Row]]
    BY <1>0 DEF RunnersOK
  <1> SUFFICES ASSUME NEW r \in Runners, NEW j \in JobIds
               PROVE  Told(asked'[j], made'[j], todo'[r][j])
    BY DEF ListedTold
  <1>1. todo'[r][j] \in {todo[r][j], NoRow, db[j]}
    <2>1. CASE UNCHANGED todo
      BY <2>1
    <2>2. ASSUME NEW s \in Runners, todo' = [todo EXCEPT ![s] = NoRows]
          PROVE  todo'[r][j] \in {todo[r][j], NoRow, db[j]}
      BY <1>000, <2>2 DEF NoRows
    <2>3. ASSUME NEW s \in Runners, NEW k \in JobIds, todo' = [todo EXCEPT ![s][k] = NoRow]
          PROVE  todo'[r][j] \in {todo[r][j], NoRow, db[j]}
      BY <1>000, <2>3
    <2>4. ASSUME NEW w \in Workers, ListQueued(w)
          PROVE  todo'[r][j] \in {todo[r][j], NoRow, db[j]}
      BY <1>0, <1>000, <2>4 DEF ListQueued, list_jobs_by_status, StoreOK, Runners
    <2>5. CASE Crash
      BY <2>5 DEF Crash, NoRows
    <2>6. \/ UNCHANGED todo
          \/ \E s \in Runners : todo' = [todo EXCEPT ![s] = NoRows]
          \/ \E s \in Runners, k \in JobIds : todo' = [todo EXCEPT ![s][k] = NoRow]
          \/ \E w \in Workers : ListQueued(w)
          \/ Crash
      BY DEF Next, Runners, ThreadStep, EngineStep, HeartbeatStep, FinishStep, CancelStep,
             DeleteStep, local, Release, Skip, Accept, CreateJob, RejectDuplicate,
             PersistStub, StartThread, PersistRunning, FinalizeCancelled,
             FinalizeUnresumable, Claim, ClaimLost, GetClaimed, EnterJob, PersistTrace,
             MarkRunning, HeartbeatCheck, HeartbeatRead, HeartbeatWrite, RunEnds,
             SetResult, PersistResult, CancelRequest, CancelGet, CancelMem, CancelPut,
             DeleteRequest, DeleteGet, DeleteRow, Gc, DrainBegin, DrainEnd, Start
    <2>7. QED
      BY <2>1, <2>2, <2>3, <2>4, <2>5, <2>6
  <1>2. Told(asked[j], made[j], todo'[r][j])
    BY <1>00, <1>1, ToldNothing DEF RowsTold, ListedTold
  <1>3. QED
    BY <1>0, <1>2, ToldGrows DEF Grows

\* How a runner comes to have an outcome, or a cancel to write.
LEMMA RunSteps ==
    ASSUME TypeOK, Next, NEW r \in Runners
    PROVE  /\ pc'[r] \in {"join", "persist"} =>
                \/ /\ pc[r] \in {"join", "persist"}
                   /\ outcome'[r] = outcome[r] /\ job'[r] = job[r]
                \/ \E o \in RunOutcomes : RunEnds(r, o)
           /\ hb'[r] = "writeCancel" =>
                \/ hb[r] = "writeCancel" /\ job'[r] = job[r]
                \/ HeartbeatRead(r)
  <1> DEFINE Ran == pc'[r] \in {"join", "persist"} =>
                        \/ /\ pc[r] \in {"join", "persist"}
                           /\ outcome'[r] = outcome[r] /\ job'[r] = job[r]
                        \/ \E o \in RunOutcomes : RunEnds(r, o)
             Beat == hb'[r] = "writeCancel" =>
                        \/ hb[r] = "writeCancel" /\ job'[r] = job[r]
                        \/ HeartbeatRead(r)
  <1>0. RunnersOK
    BY DEF TypeOK
  <1>1. CASE UNCHANGED <<pc, job, outcome, hb>>
    BY <1>1
  <1>2. ASSUME NEW s \in Runners, Release(s) PROVE Ran /\ Beat
    BY <1>0, <1>2 DEF Release, Goto, RunnersOK
  <1>3. ASSUME NEW s \in Runners,
               NEW p \in Pc \ {"join", "persist"}, Goto(s, p), UNCHANGED <<outcome, hb>>,
               \/ UNCHANGED job
               \/ /\ pc[s] \in {"idle", "scan"}
                  /\ \E j \in JobIds : job' = [job EXCEPT ![s] = j]
        PROVE  Ran /\ Beat
    BY <1>0, <1>3 DEF Goto, RunnersOK
  <1>4. ASSUME NEW s \in Runners, HeartbeatCheck(s) PROVE Ran /\ Beat
    BY <1>0, <1>4 DEF HeartbeatCheck, RunnersOK
  <1>5. ASSUME NEW s \in Runners, HeartbeatRead(s) PROVE Ran /\ Beat
    <2>1. CASE s = r
      BY <1>5, <2>1 DEF HeartbeatRead
    <2>2. CASE s # r
      BY <1>0, <1>5, <2>2 DEF HeartbeatRead, RunnersOK
    <2>3. QED
      BY <2>1, <2>2
  <1>6. ASSUME NEW s \in Runners, HeartbeatWrite(s) PROVE Ran /\ Beat
    BY <1>0, <1>6 DEF HeartbeatWrite, RunnersOK
  <1>7. ASSUME NEW s \in Runners, NEW o \in RunOutcomes, RunEnds(s, o) PROVE Ran /\ Beat
    <2>1. CASE s = r
      BY <1>7, <2>1 DEF RunEnds
    <2>2. CASE s # r
      BY <1>0, <1>7, <2>2 DEF RunEnds, Goto, RunnersOK
    <2>3. QED
      BY <2>1, <2>2
  <1>8. ASSUME NEW s \in Runners, SetResult(s) PROVE Ran /\ Beat
    BY <1>0, <1>8 DEF SetResult, Goto, RunnersOK
  <1>9. CASE Crash
    BY <1>9 DEF Crash
  <1>10. ASSUME NEW s \in Requests,
                \/ ThreadStep(s)
                \/ \E j \in JobIds, q \in BOOLEAN : Accept(s, j, q)
         PROVE  Ran /\ Beat
    <2>1. s \in Runners
      BY DEF Runners
    <2>2. CASE ThreadStep(s)
      BY <1>2, <1>3, <2>1, <2>2
      DEF ThreadStep, CreateJob, RejectDuplicate, PersistStub, StartThread,
          PersistRunning, Pc
    <2>3. CASE \E j \in JobIds, q \in BOOLEAN : Accept(s, j, q)
      BY <1>3, <2>1, <2>3 DEF Accept, Pc
    <2>4. QED
      BY <1>10, <2>2, <2>3
  <1>11. ASSUME NEW w \in Workers, EngineStep(w) PROVE Ran /\ Beat
    <2>1. w \in Runners
      BY DEF Runners
    <2>2. ASSUME NEW j \in JobIds, Skip(w, j) PROVE Ran /\ Beat
      <3>1. PICK p \in {"scan", "idle"} : Goto(w, p)
        BY <2>2, Zenon DEF Skip
      <3>2. QED
        BY <1>3, <2>1, <2>2, <3>1 DEF Skip, Pc
    <2>3. ASSUME NEW j \in JobIds, Claim(w, j) PROVE Ran /\ Beat
      BY <1>3, <2>1, <2>3 DEF Claim, Scanning, Pc
    <2>4. CASE ListQueued(w)
      BY <1>3, <2>1, <2>4 DEF ListQueued, Pc
    <2>5. CASE GetClaimed(w)
      <3>1. Release(w) \/ (Goto(w, "enter") /\ UNCHANGED <<job, outcome, hb>>)
        BY <2>5, Zenon DEF GetClaimed
      <3>2. QED
        BY <1>2, <1>3, <2>1, <3>1 DEF Pc
    <2>6. CASE EnterJob(w) \/ PersistTrace(w) \/ MarkRunning(w)
      BY <1>3, <2>1, <2>6 DEF EnterJob, PersistTrace, MarkRunning, Pc
    <2>7. QED
      BY <1>11, <2>2, <2>3, <2>4, <2>5, <2>6
      DEF EngineStep, FinalizeCancelled, FinalizeUnresumable, ClaimLost
  <1>12. ASSUME NEW s \in Runners, PersistResult(s) PROVE Ran /\ Beat
    BY <1>2, <1>12 DEF PersistResult
  <1>13. \/ \E s \in Requests : \/ ThreadStep(s)
                                \/ \E j \in JobIds, q \in BOOLEAN : Accept(s, j, q)
         \/ \E w \in Workers : EngineStep(w)
         \/ \E s \in Runners : \/ HeartbeatCheck(s) \/ HeartbeatRead(s)
                               \/ HeartbeatWrite(s) \/ SetResult(s) \/ PersistResult(s)
                               \/ \E o \in RunOutcomes : RunEnds(s, o)
         \/ Crash
         \/ UNCHANGED <<pc, job, outcome, hb>>
    BY DEF Next, HeartbeatStep, FinishStep, CancelStep, DeleteStep, local, CancelRequest,
           CancelGet, CancelMem, CancelPut, DeleteRequest, DeleteGet, DeleteRow, Gc,
           DrainBegin, DrainEnd, Start
  <1> HIDE DEF Ran, Beat
  <1>14. Ran /\ Beat
    <2>1. UNCHANGED <<pc, job, outcome, hb>> => Ran /\ Beat
      BY <1>1 DEF Ran, Beat
    <2>2. Crash => Ran /\ Beat
      BY <1>9 DEF Ran, Beat
    <2>3. QED
      BY <2>1, <2>2, <1>4, <1>5, <1>6, <1>7, <1>8, <1>10, <1>11, <1>12, <1>13
  <1>15. QED
    BY <1>14 DEF Ran, Beat

\* An execution's outcome, and the cancel its heartbeat writes, are witnessed.
LEMMA RunsToldStep ==
    ASSUME TypeOK, WitnessInv, Next PROVE RunsTold'
  <1>0. RunnersOK /\ HistOK /\ Grows /\ EntriesTold /\ RunsTold
    BY HistoryGrows DEF TypeOK, WitnessInv
  <1> SUFFICES ASSUME NEW r \in Runners
               PROVE  /\ pc'[r] \in {"join", "persist"} =>
                             /\ outcome'[r] \in made'[job'[r]]
                             /\ outcome'[r] = "cancelled" => asked'[job'[r]]
                      /\ hb'[r] = "writeCancel" => asked'[job'[r]]
    BY DEF RunsTold
  <1>1. ASSUME pc'[r] \in {"join", "persist"}
        PROVE  outcome'[r] \in made'[job'[r]]
               /\ (outcome'[r] = "cancelled" => asked'[job'[r]])
    <2>1. CASE /\ pc[r] \in {"join", "persist"}
               /\ outcome'[r] = outcome[r] /\ job'[r] = job[r]
      <3>1. job[r] \in JobIds
        BY <1>0, <2>1 DEF RunnersOK
      <3>2. QED
        BY <1>0, <2>1, <3>1 DEF RunsTold, Grows
    <2>2. ASSUME NEW o \in RunOutcomes, RunEnds(r, o)
          PROVE  outcome'[r] \in made'[job'[r]]
                 /\ (outcome'[r] = "cancelled" => asked'[job'[r]])
      <3>1. job[r] \in JobIds
        BY <1>0, <2>2 DEF RunEnds, RunnersOK
      <3>2. /\ outcome'[r] = o /\ made'[job[r]] = made[job[r]] \cup {o}
            /\ job'[r] = job[r] /\ asked' = asked
        BY <1>0, <2>2, <3>1 DEF RunEnds, RunnersOK, HistOK
      <3>3. o = "cancelled" => mem[job[r]].cancel
        BY <2>2 DEF RunEnds
      <3>4. mem[job[r]].cancel => asked[job[r]]
        BY <1>0, <3>1 DEF EntriesTold, Told
      <3>5. QED
        BY <3>2, <3>3, <3>4
    <2>3. QED
      BY <1>1, <2>1, <2>2, RunSteps
  <1>2. ASSUME hb'[r] = "writeCancel" PROVE asked'[job'[r]]
    <2>1. CASE hb[r] = "writeCancel" /\ job'[r] = job[r]
      <3>1. job[r] \in JobIds
        BY <1>0, <2>1 DEF RunnersOK
      <3>2. QED
        BY <1>0, <2>1, <3>1 DEF RunsTold, Grows
    <2>2. CASE HeartbeatRead(r)
      <3>1. job[r] \in JobIds /\ job' = job
        BY <1>0, <2>2 DEF HeartbeatRead, RunnersOK
      <3>2. mem[job[r]].cancel
        BY <1>0, <1>2, <2>2 DEF HeartbeatRead, RunnersOK
      <3>3. QED
        BY <1>0, <3>1, <3>2 DEF EntriesTold, Told, Grows
    <2>3. QED
      BY <1>2, <2>1, <2>2, RunSteps
  <1>3. QED
    BY <1>1, <1>2

\* The row a job/cancel carries was read from the table, its status perhaps
\* from the map; both were witnessed, and the request itself is asked.
LEMMA AdminsToldStep ==
    ASSUME TypeOK, WitnessInv, Next PROVE AdminsTold'
  <1>0. StoreOK /\ AdminsOK /\ HistOK /\ Grows /\ RowsTold /\ EntriesTold /\ AdminsTold
    BY HistoryGrows DEF TypeOK, WitnessInv
  <1> DEFINE Good(b) ==
               /\ apc'[b] \in {"cget", "cmem", "cput"} => asked'[ajob'[b]]
               /\ apc'[b] \in {"cmem", "cput"}
                    => Told(asked'[ajob'[b]], made'[ajob'[b]], arow'[b])
  <1> SUFFICES ASSUME NEW b \in Admins PROVE Good(b)
    BY DEF AdminsTold
  <1>1. CASE apc'[b] = apc[b] /\ ajob'[b] = ajob[b] /\ arow'[b] = arow[b]
    <2>1. CASE apc[b] \notin {"cget", "cmem", "cput"}
      BY <1>1, <2>1
    <2>2. CASE apc[b] \in {"cget", "cmem", "cput"}
      <3>1. ajob[b] \in JobIds
        BY <1>0, <2>2 DEF AdminsOK
      <3>2. asked'[ajob[b]] /\ made[ajob[b]] \subseteq made'[ajob[b]]
        BY <1>0, <2>2, <3>1 DEF AdminsTold, Grows
      <3>3. apc[b] \in {"cmem", "cput"} => Told(asked[ajob[b]], made[ajob[b]], arow[b])
        BY <1>0 DEF AdminsTold
      <3>4. apc[b] \in {"cmem", "cput"} => Told(asked'[ajob[b]], made'[ajob[b]], arow[b])
        BY <3>2, <3>3, ToldGrows
      <3>5. QED
        BY <1>1, <3>2, <3>4
    <2>3. QED
      BY <2>1, <2>2
  <1>2. CASE apc'[b] \notin {"cget", "cmem", "cput"}
    BY <1>2
  <1>3. ASSUME NEW j \in JobIds, CancelRequest(b, j) PROVE Good(b)
    BY <1>0, <1>3 DEF CancelRequest, AdminGoto, AdminsOK, HistOK
  <1>4. CASE CancelGet(b) /\ apc'[b] = "cmem"
    <2>1. ajob[b] \in JobIds /\ apc[b] = "cget"
      BY <1>0, <1>4 DEF CancelGet, AdminsOK
    <2>2. arow'[b] = db[ajob[b]] /\ ajob'[b] = ajob[b] /\ asked' = asked /\ made' = made
      BY <1>0, <1>4 DEF CancelGet, AdminDone, AdminGoto, AdminsOK, hist
    <2>3. asked[ajob[b]] /\ Told(asked[ajob[b]], made[ajob[b]], db[ajob[b]])
      BY <1>0, <2>1 DEF AdminsTold, RowsTold
    <2>4. QED
      BY <2>2, <2>3
  <1>5. CASE CancelMem(b)
    <2> DEFINE s == mem[ajob[b]].status
    <2>1. ajob[b] \in JobIds /\ apc[b] = "cmem"
      BY <1>0, <1>5 DEF CancelMem, AdminsOK
    <2>2. /\ arow'[b].status = IF s = "absent" THEN arow[b].status ELSE s
          /\ arow'[b].cancel = arow[b].cancel /\ arow'[b].result = arow[b].result
          /\ ajob'[b] = ajob[b] /\ asked' = asked /\ made' = made
      <3>1. arow' = [arow EXCEPT ![b].status = IF s = "absent" THEN @ ELSE s]
        BY <1>5 DEF CancelMem
      <3>2. arow'[b] = [arow[b] EXCEPT !.status = IF s = "absent" THEN @ ELSE s]
        BY <1>0, <3>1 DEF AdminsOK
      <3>3. arow[b] \in Row
        BY <1>0 DEF AdminsOK
      <3>4. ajob' = ajob /\ asked' = asked /\ made' = made
        BY <1>5 DEF CancelMem, hist
      <3>5. QED
        BY <3>2, <3>3, <3>4 DEF Row
    <2>3. /\ asked[ajob[b]]
          /\ Told(asked[ajob[b]], made[ajob[b]], arow[b])
          /\ Told(asked[ajob[b]], made[ajob[b]], mem[ajob[b]])
      BY <1>0, <2>1 DEF AdminsTold, EntriesTold
    <2>4. Told(asked[ajob[b]], made[ajob[b]], arow'[b])
      BY <2>2, <2>3 DEF Told
    <2>5. QED
      BY <2>2, <2>3, <2>4
  <1>6. \/ apc'[b] = apc[b] /\ ajob'[b] = ajob[b] /\ arow'[b] = arow[b]
        \/ apc'[b] \notin {"cget", "cmem", "cput"}
        \/ \E j \in JobIds : CancelRequest(b, j)
        \/ CancelGet(b) /\ apc'[b] = "cmem"
        \/ CancelMem(b)
    <2>1. CASE UNCHANGED admin
      BY <2>1 DEF admin
    <2>2. ASSUME NEW a \in Admins, AdminDone(a)
          PROVE  \/ apc'[b] = apc[b] /\ ajob'[b] = ajob[b] /\ arow'[b] = arow[b]
                 \/ apc'[b] = "idle"
      BY <1>0, <2>2 DEF AdminDone, AdminGoto, AdminsOK
    <2>3. ASSUME NEW a \in Admins, NEW j \in JobIds, DeleteRequest(a, j)
          PROVE  \/ apc'[b] = apc[b] /\ ajob'[b] = ajob[b] /\ arow'[b] = arow[b]
                 \/ apc'[b] \in {"drow", "dget"}
      BY <1>0, <2>3 DEF DeleteRequest, AdminGoto, AdminsOK
    <2>4. ASSUME NEW a \in Admins, DeleteGet(a)
          PROVE  \/ apc'[b] = apc[b] /\ ajob'[b] = ajob[b] /\ arow'[b] = arow[b]
                 \/ apc'[b] \in {"drow", "idle"}
      BY <1>0, <2>4 DEF DeleteGet, AdminDone, AdminGoto, AdminsOK
    <2>5. ASSUME NEW a \in Admins, NEW j \in JobIds, CancelRequest(a, j)
          PROVE  \/ apc'[b] = apc[b] /\ ajob'[b] = ajob[b] /\ arow'[b] = arow[b]
                 \/ CancelRequest(b, j)
      BY <1>0, <2>5 DEF CancelRequest, AdminGoto, AdminsOK
    <2>6. ASSUME NEW a \in Admins, CancelGet(a)
          PROVE  \/ apc'[b] = apc[b] /\ ajob'[b] = ajob[b] /\ arow'[b] = arow[b]
                 \/ apc'[b] = "idle"
                 \/ CancelGet(b) /\ apc'[b] = "cmem"
      BY <1>0, <2>6 DEF CancelGet, AdminDone, AdminGoto, AdminsOK
    <2>7. ASSUME NEW a \in Admins, CancelMem(a)
          PROVE  \/ apc'[b] = apc[b] /\ ajob'[b] = ajob[b] /\ arow'[b] = arow[b]
                 \/ CancelMem(b)
      <3>1. CASE a = b
        BY <2>7, <3>1
      <3>2. CASE a # b
        BY <1>0, <2>7, <3>2 DEF CancelMem, AdminGoto, AdminsOK
      <3>3. QED
        BY <3>1, <3>2
    <2>8. CASE Crash
      BY <2>8 DEF Crash
    <2>9. \/ UNCHANGED admin
          \/ \E a \in Admins : \/ AdminDone(a)
                               \/ \E j \in JobIds : CancelRequest(a, j) \/ DeleteRequest(a, j)
                               \/ DeleteGet(a) \/ CancelGet(a) \/ CancelMem(a)
          \/ Crash
      BY DEF Next, ThreadStep, EngineStep, HeartbeatStep, FinishStep, CancelStep,
             DeleteStep, Accept, CreateJob, RejectDuplicate, PersistStub, StartThread,
             PersistRunning, ListQueued, FinalizeCancelled, FinalizeUnresumable, Claim,
             ClaimLost, GetClaimed, EnterJob, PersistTrace, MarkRunning, HeartbeatCheck,
             HeartbeatRead, HeartbeatWrite, RunEnds, SetResult, PersistResult, CancelPut,
             DeleteRow, Gc, DrainBegin, DrainEnd, Start
    <2>10. QED
      BY <2>1, <2>2, <2>3, <2>4, <2>5, <2>6, <2>7, <2>8, <2>9
  <1>7. QED
    BY <1>1, <1>2, <1>3, <1>4, <1>5, <1>6

LEMMA WitnessStep == TypeOK /\ WitnessInv /\ [Next]_vars => WitnessInv'
  <1> SUFFICES ASSUME TypeOK, WitnessInv, [Next]_vars PROVE WitnessInv'
    OBVIOUS
  <1>1. CASE UNCHANGED vars
    BY <1>1 DEF vars, WitnessInv, RowsTold, EntriesTold, ListedTold, RunsTold, AdminsTold
  <1>2. CASE Next
    BY <1>2, RowsToldStep, EntriesToldStep, ListedToldStep, RunsToldStep, AdminsToldStep
    DEF WitnessInv
  <1>3. QED
    BY <1>1, <1>2

LEMMA WitnessInit == Init => WitnessInv
  <1> SUFFICES ASSUME Init PROVE WitnessInv
    OBVIOUS
  <1>1. /\ \A j \in JobIds : db[j] = NoRow /\ mem[j] = NoEntry
        /\ \A r \in Runners, j \in JobIds : todo[r][j] = NoRow
    BY DEF Init, NoRows
  <1>2. RowsTold /\ EntriesTold /\ ListedTold
    BY <1>1, ToldNothing DEF RowsTold, EntriesTold, ListedTold
  <1>3. RunsTold /\ AdminsTold
    BY DEF Init, RunsTold, AdminsTold
  <1>4. QED
    BY <1>2, <1>3 DEF WitnessInv

\* Whatever interleaving of executions, stale rewrites, heartbeats, cancels,
\* deletes, crashes and recoveries: the table and the map say done or error
\* only after an execution that ended so, cancelled only after a client's
\* cancel, and a stored result is one that an execution produced.
THEOREM OutcomesAreWitnessed == Spec => []OutcomeWitnessed
  <1>1. WitnessInv => OutcomeWitnessed
    BY DEF WitnessInv, RowsTold, EntriesTold, Told, OutcomeWitnessed, Witnessed
  <1>2. QED
    BY <1>1, WitnessInit, WitnessStep, TypeCorrect, PTL DEF Spec

-----------------------------------------------------------------------------
(* Jobs implements JobRecord, with every row seen as RecordOf(row).        *)

\* Nothing a client can rely on changes.
LEMMA SameRecords ==
    ASSUME UNCHANGED <<db, asked, made>> PROVE UNCHANGED Records!recordVars
  BY DEF Records!recordVars, record

\* An upsert of a witnessed update is one write of the record.
LEMMA WriteRefines ==
    ASSUME TypeOK, RowsTold, RowsTold', ToldWrite PROVE Records!RecordNext
  <1>1. PICK j \in JobIds, u \in RowUpdate : db' = upsert_job(db, j, u)
    BY DEF ToldWrite
  <1>2. UNCHANGED <<asked, made>>
    BY DEF ToldWrite
  <1>3. db \in [JobIds -> Row]
    BY DEF TypeOK, StoreOK
  <1> DEFINE old == RecordOf(db[j])
             new == RecordOf(db'[j])
  <1>4. db' = [db EXCEPT ![j] = db'[j]]
    BY <1>1, <1>3 DEF upsert_job
  <1>5. record' = [record EXCEPT ![j] = new] /\ record[j] = old
    BY <1>3, <1>4 DEF record
  <1>6. db'[j] \in Row /\ db[j] \in Row
    BY <1>1, <1>3, UpsertType
  <1>7. new \in Records!Record
    BY <1>6 DEF RecordOf, Row, Unfinished, Terminal, Outcomes, Records!Record,
                Records!Verdicts, Records!Ends
  <1>8. Told(asked[j], made[j], db'[j])
    BY <1>2 DEF RowsTold
  <1>9. Records!Founded(j, new)
    BY <1>6, <1>8 DEF Told, RecordOf, Row, Unfinished, Records!Founded
  <1>10. Records!Keeps(old, new)
    <2>1. TableStep
      BY <1>1 DEF TableStep
    <2>2. Monotone(j)
      BY <2>1, TableMonotone
    <2>3. db[j].status # "absent" /\ db[j].result # "none" => db'[j].result # "none"
      BY <1>1, <1>3 DEF upsert_job, Inserted
    <2>4. QED
      BY <1>6, <2>2, <2>3
      DEF Monotone, Records!Keeps, Records!Verdicts, RecordOf, Row, Unfinished, Terminal
  <1> HIDE DEF old, new
  <1>11. Records!RecordWrite(j)
    BY <1>2, <1>5, <1>7, <1>9, <1>10 DEF Records!RecordWrite
  <1>12. QED
    BY <1>11 DEF Records!RecordNext

\* Every step of Jobs is a step of JobRecord, or none.
LEMMA RecordStepRefines ==
    TypeOK /\ WitnessInv /\ [Next]_vars => [Records!RecordNext]_Records!recordVars
  <1> SUFFICES ASSUME TypeOK, WitnessInv, [Next]_vars
               PROVE  Records!RecordNext \/ UNCHANGED Records!recordVars
    OBVIOUS
  <1>0. CASE UNCHANGED vars
    BY <1>0, SameRecords DEF vars
  <1>1. db \in [JobIds -> Row] /\ RunnersOK /\ AdminsOK /\ RowsTold /\ EntriesTold
    BY DEF TypeOK, StoreOK, WitnessInv
  <1>2. ASSUME NEW a \in Admins, NEW j \in JobIds, CancelRequest(a, j)
        PROVE  Records!RecordNext
    <2>1. db' = db /\ made' = made /\ asked' = [asked EXCEPT ![j] = TRUE]
      BY <1>2 DEF CancelRequest
    <2>2. Records!RecordAsk(j)
      BY <2>1 DEF Records!RecordAsk, record
    <2>3. QED
      BY <2>2 DEF Records!RecordNext
  <1>3. ASSUME NEW r \in Runners, NEW o \in RunOutcomes, RunEnds(r, o)
        PROVE  Records!RecordNext
    <2>1. job[r] \in JobIds /\ o \in Records!Ends
      BY <1>1, <1>3, OutcomeAssumption DEF RunEnds, RunnersOK, Outcomes, Records!Ends
    <2>2. /\ db' = db /\ asked' = asked /\ made' = [made EXCEPT ![job[r]] = @ \cup {o}]
          /\ o = "cancelled" => mem[job[r]].cancel
      BY <1>3 DEF RunEnds, store
    <2>3. o = "cancelled" => asked[job[r]]
      BY <1>1, <2>1, <2>2 DEF EntriesTold, Told
    <2>4. Records!RecordExecute(job[r], o)
      BY <2>2, <2>3 DEF Records!RecordExecute, record
    <2>5. QED
      BY <2>1, <2>4 DEF Records!RecordNext
  <1>4. ASSUME NEW a \in Admins, DeleteRow(a) PROVE Records!RecordNext
    <2>1. /\ ajob[a] \in JobIds /\ asked' = asked /\ made' = made
          /\ db' = [db EXCEPT ![ajob[a]] = NoRow]
      BY <1>1, <1>4 DEF DeleteRow, delete_job, AdminsOK
    <2>2. RecordOf(NoRow) = Records!Nothing
      BY DEF RecordOf, NoRow, Unfinished, Records!Nothing
    <2>3. record' = [record EXCEPT ![ajob[a]] = Records!Nothing]
      BY <1>1, <2>1, <2>2 DEF record
    <2>4. QED
      BY <2>1, <2>3 DEF Records!RecordNext, Records!RecordDelete
  <1>5. ASSUME NEW w \in Workers, NEW j \in JobIds, Claim(w, j)
        PROVE  UNCHANGED Records!recordVars
    <2>1. /\ asked' = asked /\ made' = made /\ db[j].status = "queued"
          /\ db' = [db EXCEPT ![j].status = "running"]
      BY <1>5 DEF Claim, can_claim, claim_job, hist
    <2>2. ASSUME NEW k \in JobIds PROVE RecordOf(db'[k]) = RecordOf(db[k])
      BY <1>1, <2>1 DEF RecordOf, Unfinished, Row
    <2>3. QED
      BY <2>1, <2>2 DEF Records!recordVars, record
  <1>6. CASE Start
    <2> DEFINE lost == {j \in JobIds : db[j].status \in Unfinished /\ ~db[j].req}
    <2>1. asked' = asked /\ made' = made /\ db' = recover_inflight_jobs_resumable(db)
      BY <1>6 DEF Start, hist
    <2>2. ASSUME NEW j \in JobIds
          PROVE  RecordOf(db'[j]) = IF j \in lost
                                    THEN [RecordOf(db[j]) EXCEPT !.state = "interrupted"]
                                    ELSE RecordOf(db[j])
      <3>1. db[j] \in Row
        BY <1>1
      <3>2. CASE db[j].status \notin Unfinished
        BY <1>1, <2>1, <3>2 DEF recover_inflight_jobs_resumable
      <3>3. CASE db[j].status \in Unfinished /\ db[j].req
        <4>1. db'[j] = [db[j] EXCEPT !.status = "queued"]
          BY <1>1, <2>1, <3>3 DEF recover_inflight_jobs_resumable
        <4>2. QED
          BY <3>1, <3>3, <4>1 DEF RecordOf, Row, Unfinished
      <3>4. CASE j \in lost
        <4>1. db'[j] = [db[j] EXCEPT !.status = "interrupted"]
          BY <1>1, <2>1, <3>4 DEF recover_inflight_jobs_resumable
        <4>2. QED
          BY <3>1, <3>4, <4>1 DEF RecordOf, Row, Unfinished
      <3>5. QED
        BY <3>2, <3>3, <3>4
    <2>3. lost \in SUBSET {j \in JobIds : record[j].state = "open"}
      BY DEF record, RecordOf
    <2>4. record' = [j \in JobIds |-> IF j \in lost
                                     THEN [record[j] EXCEPT !.state = "interrupted"]
                                     ELSE record[j]]
      BY <2>2 DEF record
    <2> HIDE DEF lost
    <2>5. Records!RecordRestart
      BY <2>1, <2>3, <2>4 DEF Records!RecordRestart
    <2>6. QED
      BY <2>5 DEF Records!RecordNext
  <1>7. CASE ToldWrite /\ Next
    BY <1>1, <1>7, RowsToldStep, WriteRefines
  <1>8. CASE UNCHANGED db /\ Next
    <2>1. \/ \E a \in Admins, j \in JobIds : CancelRequest(a, j)
          \/ \E r \in Runners, o \in RunOutcomes : RunEnds(r, o)
          \/ UNCHANGED <<asked, made>>
      BY <1>8, HistorySteps
    <2>2. QED
      BY <1>2, <1>3, <1>8, <2>1, SameRecords
  <1>9. QED
    BY <1>0, <1>4, <1>5, <1>6, <1>7, <1>8, WritesAreTold

\* The async jobs of agentd implement one atomic record per job: however the
\* handlers, workers, heartbeats, admin requests, crashes and recoveries
\* interleave, every step is a client's request, the end of an execution, a
\* write that keeps what was promised, a delete, a restart, or unobservable.
THEOREM JobsImplementRecord == Spec => ActsAsRecord
  <1>1. Init => Records!RecordInit
    <2>1. RecordOf(NoRow) = Records!Nothing
      BY DEF RecordOf, NoRow, Unfinished, Records!Nothing
    <2>2. QED
      BY <2>1 DEF Init, NoRows, record, Records!RecordInit
  <1>2. TypeOK /\ WitnessInv /\ [Next]_vars => [Records!RecordNext]_Records!recordVars
    BY RecordStepRefines
  <1>3. QED
    BY <1>1, <1>2, WitnessInit, WitnessStep, TypeCorrect, PTL
    DEF Spec, ActsAsRecord, Records!RecordSpec
=============================================================================
