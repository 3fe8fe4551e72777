------------------------------- MODULE Jobs --------------------------------
(***************************************************************************)
(* Async jobs of agentd: who runs a job, and where its state lives.        *)
(*                                                                         *)
(* Actors, all concurrent, each step one locked section of the code:       *)
(*                                                                         *)
(*   - Requests: a POST /api/v1/run_async handler and the detached thread  *)
(*     it spawns (run_endpoints.cpp).  The handler ends where the thread   *)
(*     begins, so one program counter follows both;                        *)
(*   - Workers: the JobEngine's threads, which claim queued rows of the    *)
(*     jobs table and execute them (job_engine.cpp);                       *)
(*   - the heartbeat thread of every execution (run_request.cpp);          *)
(*   - Admins: POST /api/v1/job/cancel and /job/delete (job_endpoints.cpp);*)
(*   - the GC thread, the OTA thread that drains the daemon, and crashes.  *)
(*                                                                         *)
(* The run itself (model calls, tools) is abstracted to its outcome.       *)
(***************************************************************************)
EXTENDS JobStore

CONSTANTS JobIds,       \* job ids in use
          Requests,     \* run_async requests in flight at one time
          Workers,      \* JobEngine workers (Options::max_concurrency)
          Admins,       \* job/cancel and job/delete requests in flight
          AdminOps,     \* which of the two clients use
          RunOutcomes,  \* how executions end (done and error are alike)
          MaxSubmits,   \* bound: run_async requests that pass validation
          MaxCrashes,   \* bound: daemon deaths
          MaxDrains     \* bound: OTA drains

ASSUME OpsAssumption   == AdminOps \subseteq {"cancel", "delete"}
ASSUME OutcomeAssumption == RunOutcomes \subseteq Outcomes
ASSUME BoundAssumption ==
    MaxSubmits \in Nat /\ MaxCrashes \in Nat /\ MaxDrains \in Nat
ASSUME ActorAssumption == Requests \cap Workers = {}

Runners == Requests \cup Workers

VARIABLES
    db,       \* the jobs table: what survives a crash
    mem,      \* g_jobs
    up,       \* the daemon process is running
    drain,    \* drain_is_active()
    pc, job,  \* per runner: its next step, and the job it handles
    body,     \* per runner: the request it carries could be persisted
    outcome,  \* per runner: how its execution ended
    hb,       \* per runner: its heartbeat thread
    todo,     \* per runner: rows listed by claim_one and not looked at yet
    apc, ajob, arow,   \* per admin request: next step, job, row it read
    submits, crashes, drains,   \* counters for the bounds
    asked, acked, settled, made   \* history, see below

store  == <<db, mem>>
local  == <<pc, job, body, outcome, hb, todo>>
admin  == <<apc, ajob, arow>>
env    == <<up, drain, submits, crashes, drains>>
hist   == <<asked, acked, settled, made>>
vars   == <<db, mem, up, drain, pc, job, body, outcome, hb, todo,
            apc, ajob, arow, submits, crashes, drains, asked, acked, settled, made>>

\* History, per job id: a client's cancel reached the in-memory job (asked);
\* a cancel request got as far as the jobs table (acked) or an execution
\* persisted its outcome (settled) and the row was not deleted since; the
\* outcomes executions have produced (made).

Pc == {"idle", "create", "stub", "spawn", "dbrun",                \* Requests
       "scan", "get", "enter", "trace", "setrun",                 \* Workers
       "run", "join", "persist"}                                  \* both
AdminPc == {"idle", "cget", "cmem", "cput", "dget", "drow"}
HbState == {"idle", "armed", "write", "writeCancel", "gone"}
NoJobId == "none"

StoreOK == db \in [JobIds -> Row] /\ mem \in [JobIds -> Entry]

RunnersOK ==
    /\ pc \in [Runners -> Pc]
    /\ job \in [Runners -> JobIds \cup {NoJobId}]
    /\ body \in [Runners -> BOOLEAN]
    /\ outcome \in [Runners -> Outcomes \cup {"none"}]
    /\ hb \in [Runners -> HbState]
    /\ todo \in [Runners -> [JobIds -> Row]]
    /\ \A r \in Runners : /\ pc[r] \notin {"idle", "scan"} => job[r] \in JobIds
                          /\ pc[r] \in {"join", "persist"} => outcome[r] \in Outcomes
                          /\ hb[r] \in {"armed", "write", "writeCancel"}
                                => pc[r] \in {"run", "join"}

AdminsOK ==
    /\ apc \in [Admins -> AdminPc]
    /\ ajob \in [Admins -> JobIds \cup {NoJobId}]
    /\ arow \in [Admins -> Row]
    /\ \A a \in Admins : /\ apc[a] # "idle" => ajob[a] \in JobIds
                         /\ apc[a] \in {"cmem", "cput"} => arow[a].status # "absent"

EnvOK ==
    /\ up \in BOOLEAN /\ drain \in BOOLEAN
    /\ submits \in 0..MaxSubmits /\ crashes \in 0..MaxCrashes /\ drains \in 0..MaxDrains

HistOK ==
    /\ asked \in [JobIds -> BOOLEAN] /\ acked \in [JobIds -> BOOLEAN]
    /\ settled \in [JobIds -> BOOLEAN] /\ made \in [JobIds -> SUBSET Outcomes]

\* The type of every variable, and which local state goes with which step.
TypeOK == StoreOK /\ RunnersOK /\ AdminsOK /\ EnvOK /\ HistOK

NoRows == [j \in JobIds |-> NoRow]

Init ==
    /\ db = NoRows
    /\ mem = [j \in JobIds |-> NoEntry]
    /\ drain = FALSE
    /\ pc = [r \in Runners |-> "idle"]
    /\ job = [r \in Runners |-> NoJobId]
    /\ body = [r \in Runners |-> FALSE]
    /\ outcome = [r \in Runners |-> "none"]
    /\ hb = [r \in Runners |-> "idle"]
    /\ todo = [r \in Runners |-> NoRows]
    /\ apc = [a \in Admins |-> "idle"]
    /\ ajob = [a \in Admins |-> NoJobId]
    /\ arow = [a \in Admins |-> NoRow]
    /\ up = TRUE
    /\ submits = 0 /\ crashes = 0 /\ drains = 0
    /\ asked = [j \in JobIds |-> FALSE]
    /\ acked = [j \in JobIds |-> FALSE]
    /\ settled = [j \in JobIds |-> FALSE]
    /\ made = [j \in JobIds |-> {}]

-----------------------------------------------------------------------------
(* run_async: the handler, then its detached thread.                       *)

Update(status, cancel, req, result) ==
    [status |-> status, cancel |-> cancel, req |-> req, result |-> result]

Goto(r, p) == pc' = [pc EXCEPT ![r] = p]

\* The runner is done with its job and forgets it.
Release(r) ==
    /\ Goto(r, "idle")
    /\ job' = [job EXCEPT ![r] = NoJobId]
    /\ body' = [body EXCEPT ![r] = FALSE]
    /\ outcome' = [outcome EXCEPT ![r] = "none"]
    /\ hb' = [hb EXCEPT ![r] = "idle"]
    /\ todo' = [todo EXCEPT ![r] = NoRows]

\* A request that passed authentication, the drain check and validation.
\* q: sanitize_job_request_json_for_persist returned something, i.e. the
\* redacted body is no larger than 256 KiB.
Accept(r, j, q) ==
    /\ up /\ ~drain
    /\ submits < MaxSubmits
    /\ submits' = submits + 1
    /\ pc[r] = "idle"
    /\ Goto(r, "create")
    /\ job' = [job EXCEPT ![r] = j]
    /\ body' = [body EXCEPT ![r] = q]
    /\ UNCHANGED <<store, outcome, hb, todo, admin, up, drain, crashes, drains, hist>>

CreateJob(r) ==
    /\ pc[r] = "create"
    /\ mem[job[r]].status = "absent"
    /\ mem' = job_create(mem, job[r])
    /\ Goto(r, "stub")
    /\ UNCHANGED <<db, job, body, outcome, hb, todo, admin, env, hist>>

\* 409 "job_id already exists"
RejectDuplicate(r) ==
    /\ pc[r] = "create"
    /\ mem[job[r]].status # "absent"
    /\ Release(r)
    /\ UNCHANGED <<store, admin, env, hist>>

PersistStub(r) ==
    /\ pc[r] = "stub"
    /\ db' = upsert_job(db, job[r], Update("queued", FALSE, body[r], "none"))
    /\ Goto(r, "spawn")
    /\ UNCHANGED <<mem, job, body, outcome, hb, todo, admin, env, hist>>

StartThread(r) ==
    /\ pc[r] = "spawn"
    /\ mem' = job_set_status(mem, job[r], "running")
    /\ Goto(r, "dbrun")
    /\ UNCHANGED <<db, job, body, outcome, hb, todo, admin, env, hist>>

PersistRunning(r) ==
    /\ pc[r] = "dbrun"
    /\ db' = upsert_job(db, job[r], Update("running", FALSE, FALSE, "none"))
    /\ Goto(r, "run")
    /\ UNCHANGED <<mem, job, body, outcome, hb, todo, admin, env, hist>>

-----------------------------------------------------------------------------
(* JobEngine: claim_one, then the first half of execute_job.               *)

\* worker_main skips its turn while draining; an empty list is no step.
ListQueued(w) ==
    /\ up /\ ~drain
    /\ pc[w] = "idle"
    /\ \E j \in JobIds : db[j].status = "queued"
    /\ todo' = [todo EXCEPT ![w] = list_jobs_by_status(db, "queued")]
    /\ Goto(w, "scan")
    /\ UNCHANGED <<store, job, body, outcome, hb, admin, env, hist>>

\* The scan goes on to the next listed row, or claim_one returns false.
Skip(w, j) ==
    /\ todo' = [todo EXCEPT ![w][j] = NoRow]
    /\ Goto(w, IF \E k \in JobIds \ {j} : todo[w][k].status # "absent"
               THEN "scan" ELSE "idle")
    /\ UNCHANGED <<job, body, outcome, hb>>

Scanning(w, j) == pc[w] = "scan" /\ todo[w][j].status # "absent"

\* The listed row, with a new status, is written back over the current one.
Rewrite(w, j, status) ==
    db' = upsert_job(db, j, Update(status, todo[w][j].cancel,
                                   todo[w][j].req, todo[w][j].result))

FinalizeCancelled(w, j) ==
    /\ Scanning(w, j)
    /\ todo[w][j].cancel
    /\ Rewrite(w, j, "cancelled")
    /\ Skip(w, j)
    /\ UNCHANGED <<mem, admin, env, hist>>

FinalizeUnresumable(w, j) ==
    /\ Scanning(w, j)
    /\ ~todo[w][j].cancel /\ ~todo[w][j].req
    /\ Rewrite(w, j, "interrupted")
    /\ Skip(w, j)
    /\ UNCHANGED <<mem, admin, env, hist>>

Claim(w, j) ==
    /\ Scanning(w, j)
    /\ ~todo[w][j].cancel /\ todo[w][j].req
    /\ can_claim(db, j)
    /\ db' = claim_job(db, j)
    /\ job' = [job EXCEPT ![w] = j]
    /\ body' = [body EXCEPT ![w] = todo[w][j].req]
    /\ todo' = [todo EXCEPT ![w] = NoRows]
    /\ Goto(w, "get")
    /\ UNCHANGED <<mem, outcome, hb, admin, env, hist>>

ClaimLost(w, j) ==
    /\ Scanning(w, j)
    /\ ~todo[w][j].cancel /\ todo[w][j].req
    /\ ~can_claim(db, j)
    /\ Skip(w, j)
    /\ UNCHANGED <<store, admin, env, hist>>

\* get_job after the claim; the listed row stands in for one deleted meanwhile.
\* execute_job returns at once when the row has no request.
GetClaimed(w) ==
    /\ pc[w] = "get"
    /\ LET req == IF db[job[w]].status = "absent" THEN body[w] ELSE db[job[w]].req
       IN IF req THEN /\ Goto(w, "enter")
                      /\ UNCHANGED <<job, body, outcome, hb, todo>>
                 ELSE Release(w)
    /\ UNCHANGED <<store, admin, env, hist>>

EnterJob(w) ==
    /\ pc[w] = "enter"
    /\ mem' = job_create(mem, job[w])
    /\ Goto(w, "trace")
    /\ UNCHANGED <<db, job, body, outcome, hb, todo, admin, env, hist>>

\* The row that carries the trace id sets neither status nor request.  Every
\* request run_async persists holds a trace id, so the branch is always taken.
PersistTrace(w) ==
    /\ pc[w] = "trace"
    /\ db' = upsert_job(db, job[w], Update("unset", FALSE, FALSE, "none"))
    /\ Goto(w, "setrun")
    /\ UNCHANGED <<mem, job, body, outcome, hb, todo, admin, env, hist>>

MarkRunning(w) ==
    /\ pc[w] = "setrun"
    /\ mem' = job_set_status(mem, job[w], "running")
    /\ Goto(w, "run")
    /\ UNCHANGED <<db, job, body, outcome, hb, todo, admin, env, hist>>

-----------------------------------------------------------------------------
(* One execution: run_request_to_json_internal, its heartbeat thread, and  *)
(* the code around it that records the outcome.                            *)

\* The heartbeat thread returns for good when it sees a cancel.
HeartbeatCheck(r) ==
    /\ pc[r] = "run"
    /\ hb[r] = "idle"
    /\ hb' = [hb EXCEPT ![r] = IF mem[job[r]].cancel THEN "gone" ELSE "armed"]
    /\ UNCHANGED <<store, pc, job, body, outcome, todo, admin, env, hist>>

\* It reads the flag once more for the row it is about to write.
HeartbeatRead(r) ==
    /\ hb[r] = "armed"
    /\ hb' = [hb EXCEPT ![r] = IF mem[job[r]].cancel THEN "writeCancel" ELSE "write"]
    /\ UNCHANGED <<store, pc, job, body, outcome, todo, admin, env, hist>>

\* Mutant: the row is marked cancelled whatever the flag said.
HeartbeatWriteCancels(r) ==
    /\ hb[r] \in {"write", "writeCancel"}
    /\ db' = upsert_job(db, job[r], Update("running", TRUE, FALSE, "none"))
    /\ hb' = [hb EXCEPT ![r] = "idle"]
    /\ UNCHANGED <<mem, pc, job, body, outcome, todo, admin, env, hist>>

HeartbeatWrite(r) ==
    /\ hb[r] \in {"write", "writeCancel"}
    /\ db' = upsert_job(db, job[r],
                        Update("running", hb[r] = "writeCancel", FALSE, "none"))
    /\ hb' = [hb EXCEPT ![r] = "idle"]
    /\ UNCHANGED <<mem, pc, job, body, outcome, todo, admin, env, hist>>

\* The run ends.  It is "cancelled" only when a check of the job's flag said so.
RunEnds(r, o) ==
    /\ pc[r] = "run"
    /\ o = "cancelled" => mem[job[r]].cancel
    /\ outcome' = [outcome EXCEPT ![r] = o]
    /\ made' = [made EXCEPT ![job[r]] = @ \cup {o}]
    /\ Goto(r, "join")
    /\ UNCHANGED <<store, job, body, hb, todo, admin, env, asked, acked, settled>>

\* The heartbeat thread is joined before the result is published.
SetResult(r) ==
    /\ pc[r] = "join"
    /\ hb[r] \in {"idle", "gone"}
    /\ mem' = job_set_result(mem, job[r], outcome[r])
    /\ Goto(r, "persist")
    /\ UNCHANGED <<db, job, body, outcome, hb, todo, admin, env, hist>>

\* Mutant: a job that was garbage-collected meanwhile is not persisted.
PersistResultIfInMemory(r) ==
    /\ pc[r] = "persist"
    /\ IF mem[job[r]].status = "absent" THEN UNCHANGED <<db, settled>>
       ELSE /\ db' = upsert_job(db, job[r], Update(outcome[r], FALSE, r \in Workers, outcome[r]))
            /\ settled' = [settled EXCEPT ![job[r]] = TRUE]
    /\ Release(r)
    /\ UNCHANGED <<mem, admin, env, asked, acked, made>>

\* Only the worker's row carries the request again.
PersistResult(r) ==
    /\ pc[r] = "persist"
    /\ db' = upsert_job(db, job[r], Update(outcome[r], FALSE, r \in Workers, outcome[r]))
    /\ settled' = [settled EXCEPT ![job[r]] = TRUE]
    /\ Release(r)
    /\ UNCHANGED <<mem, admin, env, asked, acked, made>>

-----------------------------------------------------------------------------
(* POST /api/v1/job/cancel and POST /api/v1/job/delete.  The 409 answers    *)
(* change nothing and are no step.                                         *)

AdminGoto(a, p) == apc' = [apc EXCEPT ![a] = p]

AdminDone(a) ==
    /\ AdminGoto(a, "idle")
    /\ ajob' = [ajob EXCEPT ![a] = NoJobId]
    /\ arow' = [arow EXCEPT ![a] = NoRow]

CancelRequest(a, j) ==
    /\ up /\ "cancel" \in AdminOps
    /\ apc[a] = "idle"
    /\ cancellable(mem, j)
    /\ mem' = job_request_cancel(mem, j)
    /\ asked' = [asked EXCEPT ![j] = TRUE]
    /\ AdminGoto(a, "cget")
    /\ ajob' = [ajob EXCEPT ![a] = j]
    /\ UNCHANGED <<db, local, arow, env, acked, settled, made>>

\* Mutant: the result of get_job is not looked at.
CancelGetUnchecked(a) ==
    /\ apc[a] = "cget"
    /\ arow' = [arow EXCEPT ![a] = db[ajob[a]]]
    /\ AdminGoto(a, "cmem")
    /\ UNCHANGED <<store, local, ajob, env, hist>>

\* Without a row there is nothing to persist the cancel in.
CancelGet(a) ==
    /\ apc[a] = "cget"
    /\ IF db[ajob[a]].status = "absent"
       THEN AdminDone(a)
       ELSE /\ arow' = [arow EXCEPT ![a] = db[ajob[a]]]
            /\ AdminGoto(a, "cmem")
            /\ UNCHANGED ajob
    /\ UNCHANGED <<store, local, env, hist>>

\* "Preserve status as-is when known": the status of the in-memory job.
CancelMem(a) ==
    /\ apc[a] = "cmem"
    /\ LET s == mem[ajob[a]].status
       IN arow' = [arow EXCEPT ![a].status = IF s = "absent" THEN @ ELSE s]
    /\ AdminGoto(a, "cput")
    /\ UNCHANGED <<store, local, ajob, env, hist>>

CancelPut(a) ==
    /\ apc[a] = "cput"
    /\ db' = upsert_job(db, ajob[a],
                        Update(arow[a].status, TRUE, arow[a].req, arow[a].result))
    /\ acked' = [acked EXCEPT ![ajob[a]] = TRUE]
    /\ AdminDone(a)
    /\ UNCHANGED <<mem, local, env, asked, settled, made>>

\* job_delete erases a finished entry, or the handler looks at the row.
DeleteRequest(a, j) ==
    /\ up /\ "delete" \in AdminOps
    /\ apc[a] = "idle"
    /\ mem' = IF finished(mem, j) THEN job_erase(mem, {j}) ELSE mem
    /\ AdminGoto(a, IF finished(mem, j) THEN "drow" ELSE "dget")
    /\ ajob' = [ajob EXCEPT ![a] = j]
    /\ UNCHANGED <<db, local, arow, env, hist>>

\* Only a row that is terminal may go without an in-memory entry.
DeleteGet(a) ==
    /\ apc[a] = "dget"
    /\ IF db[ajob[a]].status \in Terminal
       THEN AdminGoto(a, "drow") /\ UNCHANGED <<ajob, arow>>
       ELSE AdminDone(a)
    /\ UNCHANGED <<store, local, env, hist>>

DeleteRow(a) ==
    /\ apc[a] = "drow"
    /\ db' = delete_job(db, ajob[a])
    /\ acked' = [acked EXCEPT ![ajob[a]] = FALSE]
    /\ settled' = [settled EXCEPT ![ajob[a]] = FALSE]
    /\ AdminDone(a)
    /\ UNCHANGED <<mem, local, env, asked, made>>

-----------------------------------------------------------------------------
(* Background and environment.                                             *)

\* job_gc: which finished entries are old enough, or too many, is left open.
Gc ==
    /\ \E dead \in (SUBSET {j \in JobIds : finished(mem, j)}) \ {{}} :
         mem' = job_erase(mem, dead)
    /\ UNCHANGED <<db, local, admin, env, hist>>

\* run_ota_async / run_restart_async.  The wait for running jobs ends at its
\* timeout whatever they do, so nothing guards the end of the drain; the
\* restart itself is a Crash.
DrainBegin ==
    /\ up /\ ~drain
    /\ drains < MaxDrains
    /\ drain' = TRUE /\ drains' = drains + 1
    /\ UNCHANGED <<store, local, admin, up, submits, crashes, hist>>

DrainEnd ==
    /\ drain
    /\ drain' = FALSE
    /\ UNCHANGED <<store, local, admin, up, submits, crashes, drains, hist>>

\* The process dies between any two steps.  JobEngine::stop followed by the
\* process's exit is the same step: it only waits for the workers first.
Crash ==
    /\ up
    /\ crashes < MaxCrashes
    /\ up' = FALSE /\ crashes' = crashes + 1
    /\ mem' = [j \in JobIds |-> NoEntry]
    /\ drain' = FALSE
    /\ pc' = [r \in Runners |-> "idle"]
    /\ job' = [r \in Runners |-> NoJobId]
    /\ body' = [r \in Runners |-> FALSE]
    /\ outcome' = [r \in Runners |-> "none"]
    /\ hb' = [r \in Runners |-> "idle"]
    /\ todo' = [r \in Runners |-> NoRows]
    /\ apc' = [a \in Admins |-> "idle"]
    /\ ajob' = [a \in Admins |-> NoJobId]
    /\ arow' = [a \in Admins |-> NoRow]
    /\ UNCHANGED <<db, submits, drains, hist>>

\* main recovers the table before the engine and the HTTP server start.
Start ==
    /\ ~up
    /\ up' = TRUE
    /\ db' = recover_inflight_jobs_resumable(db)
    /\ UNCHANGED <<mem, local, admin, drain, submits, crashes, drains, hist>>

-----------------------------------------------------------------------------
ThreadStep(r) ==
    \/ CreateJob(r) \/ RejectDuplicate(r) \/ PersistStub(r)
    \/ StartThread(r) \/ PersistRunning(r)

EngineStep(w) ==
    \/ ListQueued(w)
    \/ \E j \in JobIds : \/ FinalizeCancelled(w, j) \/ FinalizeUnresumable(w, j)
                         \/ Claim(w, j) \/ ClaimLost(w, j)
    \/ GetClaimed(w) \/ EnterJob(w) \/ PersistTrace(w) \/ MarkRunning(w)

HeartbeatStep(r) == HeartbeatRead(r) \/ HeartbeatWrite(r)

FinishStep(r) ==
    \/ \E o \in RunOutcomes : RunEnds(r, o)
    \/ SetResult(r) \/ PersistResult(r)

CancelStep(a) == CancelGet(a) \/ CancelMem(a) \/ CancelPut(a)
DeleteStep(a) == DeleteGet(a) \/ DeleteRow(a)

Next ==
    \/ \E r \in Requests : \/ \E j \in JobIds, q \in BOOLEAN : Accept(r, j, q)
                           \/ ThreadStep(r)
    \/ \E w \in Workers : EngineStep(w)
    \/ \E r \in Runners : HeartbeatCheck(r) \/ HeartbeatStep(r) \/ FinishStep(r)
    \/ \E a \in Admins : \/ \E j \in JobIds : CancelRequest(a, j) \/ DeleteRequest(a, j)
                         \/ CancelStep(a) \/ DeleteStep(a)
    \/ Gc \/ DrainBegin \/ DrainEnd \/ Crash \/ Start

Spec == Init /\ [][Next]_vars

\* Threads are scheduled, a run ends (every model and tool call has a timeout),
\* the OTA command ends, and a supervisor restarts the daemon.  Nothing obliges
\* a client to submit or to cancel, or the daemon to die, drain or beat.
Fairness ==
    /\ \A r \in Requests : WF_vars(ThreadStep(r))
    /\ \A w \in Workers : WF_vars(EngineStep(w))
    /\ \A r \in Runners : WF_vars(HeartbeatStep(r)) /\ WF_vars(FinishStep(r))
    /\ \A a \in Admins : WF_vars(CancelStep(a)) /\ WF_vars(DeleteStep(a))
    /\ WF_vars(DrainEnd) /\ WF_vars(Start)

FairSpec == Spec /\ Fairness

-----------------------------------------------------------------------------
(* What the component promises.                                            *)

Executing(r, j) == job[r] = j /\ pc[r] \in {"run", "join"}

\* A runner that has taken the job on and has not yet recorded its outcome.
Owns(r, j) ==
    /\ job[r] = j
    /\ pc[r] \in {"stub", "spawn", "dbrun", "get", "enter", "trace", "setrun",
                  "run", "join", "persist"}

\* The table never takes a verdict back: whatever heartbeats, cancels, late
\* executions and recoveries write to the row of a finished job, its status
\* stays, until job/delete removes the row (the CASE in upsert_job).
TerminalSticky ==
    [][\A j \in JobIds : db[j].status \in Terminal
                          => db'[j].status \in {db[j].status, "absent"}]_vars

\* A worker never starts a job that was persisted as cancelled by job/cancel,
\* or whose outcome an execution has persisted: not from a stale list, not
\* after a crash and recovery, not after a late upsert from another thread.
NoResumeAfterSettled ==
    [][\A w \in Workers : pc[w] = "scan" /\ pc'[w] = "get"
                           => ~acked[job'[w]] /\ ~settled[job'[w]]]_vars

\* No status is made up.  The table and the map report done or error only if
\* an execution of the job ended that way, and cancelled only if a client
\* asked for it, although job/cancel copies statuses from one to the other
\* and claim_one writes stale rows back.
Witnessed(j, status) ==
    CASE status \in {"done", "error"} -> status \in made[j]
      [] status = "cancelled"         -> asked[j]
      [] OTHER                        -> TRUE

OutcomeWitnessed ==
    \A j \in JobIds : /\ Witnessed(j, db[j].status) /\ Witnessed(j, mem[j].status)
                      /\ db[j].result # "none" => db[j].result \in made[j]

\* The row as a client can rely on it: queued and running are both "open".
RecordOf(row) == [state  |-> IF row.status \in Unfinished THEN "open" ELSE row.status,
                  cancel |-> row.cancel, result |-> row.result]

record == [j \in JobIds |-> RecordOf(db[j])]

Records == INSTANCE JobRecord WITH Ids <- JobIds, ended <- made

\* Two stores, stale copies, heartbeats and a recovery look to a client like one
\* record per job, written atomically: no step takes a verdict, a cancel or a
\* result back, or writes one that no execution and no client accounts for.
ActsAsRecord == Records!RecordSpec

\* While the daemon is up, a row that says "running" has a thread that will
\* finish it; otherwise nothing but a restart would ever move it on.  It holds
\* as long as no client deletes jobs: a job/cancel that read the row before a
\* job/delete re-inserts it as "running" (handle_job_cancel_endpoint).
NoOrphan ==
    \A j \in JobIds : up /\ db[j].status = "running" => \E r \in Runners : Owns(r, j)

\* Every job that reached the table leaves queued/running, across crashes,
\* drains, cancels and workers that lose claims (JobEngine's continuity goal).
JobSettles ==
    \A j \in JobIds : (db[j].status \in Unfinished) ~> (db[j].status \notin Unfinished)

\* job_engine.h: "a job may run twice if the daemon dies mid-request", so not
\* otherwise: no two threads run one job at the same time.
NoDoubleRun ==
    \A j \in JobIds : \A r1, r2 \in Runners :
        Executing(r1, j) /\ Executing(r2, j) => r1 = r2

\* run_endpoints_internal.cpp: a job whose request is too large to persist
\* "remains runnable in the current process lifetime"; its row becomes
\* interrupted at a restart, never under a running daemon.
InterruptedOnlyAtStart ==
    [][\A j \in JobIds : db[j].status \in Unfinished /\ db'[j].status = "interrupted"
                          => ~up]_vars
=============================================================================
