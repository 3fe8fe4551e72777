------------------------------ MODULE JobStore ------------------------------
(***************************************************************************)
(* The two places agentd keeps an async job in, as operators on values:    *)
(*                                                                         *)
(*   - the durable `jobs` table (daemon/src/agent_db_jobs.cpp).  Every     *)
(*     operator below is one SQL statement or transaction, executed under  *)
(*     AgentDb::mu_, hence one atomic step of the models that use it;      *)
(*   - the in-memory map g_jobs (daemon/src/job_manager.cpp).  Every       *)
(*     operator is one function that holds g_jobs_mu from start to end.    *)
(*                                                                         *)
(* A job's request body, trace id, error text, timestamps and priority are *)
(* abstracted to what the scheduler tells apart: whether request_json is   *)
(* empty, and which outcome a stored result describes.  A missing row, or  *)
(* a missing map entry, is a record whose status is "absent".              *)
(***************************************************************************)
EXTENDS Naturals

Terminal   == {"done", "error", "cancelled", "interrupted"}
Unfinished == {"queued", "running"}
Outcomes   == {"done", "error", "cancelled"}     \* what one execution can yield

\* A row of the jobs table: req is "request_json is not empty".
Row == [status : Unfinished \cup Terminal \cup {"absent"},
        cancel : BOOLEAN,
        req    : BOOLEAN,
        result : Outcomes \cup {"none"}]

\* What a caller of upsert_job passes in: a status left empty is "unset".
RowUpdate == [status : Unfinished \cup Terminal \cup {"unset"},
              cancel : BOOLEAN,
              req    : BOOLEAN,
              result : Outcomes \cup {"none"}]

\* An entry of g_jobs (struct JobState).
Entry == [status : Unfinished \cup Outcomes \cup {"absent"},
          cancel : BOOLEAN,
          result : Outcomes \cup {"none"}]

NoRow   == [status |-> "absent", cancel |-> FALSE, req |-> FALSE, result |-> "none"]
NoEntry == [status |-> "absent", cancel |-> FALSE, result |-> "none"]

-----------------------------------------------------------------------------
(* The jobs table.                                                         *)

\* The INSERT path: an unset status is stored as "queued".
Inserted(u) ==
    [status |-> IF u.status = "unset" THEN "queued" ELSE u.status,
     cancel |-> u.cancel, req |-> u.req, result |-> u.result]

\* Mutant: a late write brings a finished job back.
upsert_job_revives(db, j, u) ==
    [db EXCEPT ![j] = [Inserted(u) EXCEPT
                        !.cancel = @ \/ db[j].cancel,
                        !.req    = @ \/ db[j].req]]

\* Mutant: cancel_requested is set from the update instead of or-ed.
upsert_job_sets_cancel(db, j, u) ==
    [db EXCEPT ![j] =
        IF @.status = "absent" THEN Inserted(u)
        ELSE [status |-> IF @.status \in Terminal THEN @.status ELSE Inserted(u).status,
              cancel |-> u.cancel,
              req    |-> @.req \/ u.req,
              result |-> IF u.result # "none" THEN u.result ELSE @.result]]

\* INSERT ... ON CONFLICT DO UPDATE: a terminal status is kept, cancel_requested
\* is an OR, an empty field of the update leaves the stored one alone.
upsert_job(db, j, u) ==
    [db EXCEPT ![j] =
        IF @.status = "absent" THEN Inserted(u)
        ELSE [status |-> IF @.status \in Terminal THEN @.status ELSE Inserted(u).status,
              cancel |-> @.cancel \/ u.cancel,
              req    |-> @.req \/ u.req,
              result |-> IF u.result # "none" THEN u.result ELSE @.result]]

delete_job(db, j) == [db EXCEPT ![j] = NoRow]

\* Mutant: the WHERE clause forgets cancel_requested.
can_claim_any_queued(db, j) == db[j].status = "queued"

\* The WHERE clause and the SET clause of claim_job.
can_claim(db, j) == db[j].status = "queued" /\ ~db[j].cancel
claim_job(db, j) == [db EXCEPT ![j].status = "running"]

\* Mutant: only rows that are already queued are looked at.
recover_leaves_running(db) ==
    [j \in DOMAIN db |->
        IF db[j].status = "queued" /\ ~db[j].req
        THEN [db[j] EXCEPT !.status = "interrupted"] ELSE db[j]]

\* One transaction: running -> queued, then rows with nothing to resume from
\* become "interrupted".
recover_inflight_jobs_resumable(db) ==
    [j \in DOMAIN db |->
        IF db[j].status \in Unfinished
        THEN [db[j] EXCEPT !.status = IF db[j].req THEN "queued" ELSE "interrupted"]
        ELSE db[j]]

\* The rows claim_one scans: every queued row as it was when it was listed.
\* Priority, age and the limit of 64 rows only fix the order of the scan,
\* which the model leaves open.
list_jobs_by_status(db, status) ==
    [j \in DOMAIN db |-> IF db[j].status = status THEN db[j] ELSE NoRow]

-----------------------------------------------------------------------------
(* The in-memory map.                                                      *)

\* job_create does nothing when the id is present (its callers test that).
job_create(mem, j) ==
    IF mem[j].status # "absent" THEN mem
    ELSE [mem EXCEPT ![j] = [NoEntry EXCEPT !.status = "queued"]]

job_set_status(mem, j, status) ==
    IF mem[j].status = "absent" THEN mem
    ELSE [mem EXCEPT ![j].status = status]

\* job_set_result overwrites whatever an earlier execution left.
job_set_result(mem, j, outcome) ==
    IF mem[j].status = "absent" THEN mem
    ELSE [mem EXCEPT ![j].status = outcome, ![j].result = outcome]

\* job_request_cancel returns false, and changes nothing, otherwise.
cancellable(mem, j)        == mem[j].status \in Unfinished
job_request_cancel(mem, j) == [mem EXCEPT ![j].cancel = TRUE]

\* job_delete and job_gc only ever erase finished entries.
finished(mem, j)     == mem[j].status \in Terminal
job_erase(mem, dead) == [j \in DOMAIN mem |-> IF j \in dead THEN NoEntry ELSE mem[j]]
=============================================================================
