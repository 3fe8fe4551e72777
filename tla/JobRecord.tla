----------------------------- MODULE JobRecord ------------------------------
(***************************************************************************)
(* What the async jobs of agentd promise clients: a record per job, always *)
(* written atomically, although the daemon keeps a job in two stores and   *)
(* several threads write back old copies of it.  A verdict, once written,  *)
(* stands until the record is deleted; it, the result and the cancel flag  *)
(* each come from an execution or from a client.  Jobs implements this.    *)
(***************************************************************************)
EXTENDS Naturals

CONSTANT Ids

VARIABLES record,  \* of each job: its state, cancel flag and result
          asked,   \* of each job: a client asked to cancel it
          ended    \* of each job: the outcomes its executions had (at least one
                   \* execution, perhaps several)

recordVars == <<record, asked, ended>>

Verdicts == {"done", "error", "cancelled", "interrupted"}
Ends     == {"done", "error", "cancelled"}
Record   == [state : {"absent", "open"} \cup Verdicts, cancel : BOOLEAN,
             result : Ends \cup {"none"}]
Nothing  == [state |-> "absent", cancel |-> FALSE, result |-> "none"]

RecordInit ==
    /\ record = [j \in Ids |-> Nothing]
    /\ asked = [j \in Ids |-> FALSE]
    /\ ended = [j \in Ids |-> {}]

RecordAsk(j) == asked' = [asked EXCEPT ![j] = TRUE] /\ UNCHANGED <<record, ended>>

\* An execution ends; it is cancelled only if somebody asked for that.
RecordExecute(j, o) ==
    /\ o = "cancelled" => asked[j]
    /\ ended' = [ended EXCEPT ![j] = @ \cup {o}]
    /\ UNCHANGED <<record, asked>>

\* The state, flag or result that a write brings in has a witness.
Founded(j, new) ==
    /\ new.state \in {"done", "error"} => new.state \in ended[j]
    /\ new.state = "cancelled" => asked[j]
    /\ new.cancel => asked[j]
    /\ new.result \in ended[j] \cup {"none"}

\* What a write takes away: no verdict, no cancel, no result, no record.
Keeps(old, new) ==
    /\ old.state \in Verdicts => new.state = old.state
    /\ old.state # "absent" => /\ new.state # "absent"
                               /\ old.cancel => new.cancel
                               /\ old.result # "none" => new.result # "none"

RecordWrite(j) ==
    /\ \E new \in Record : /\ Keeps(record[j], new) /\ Founded(j, new)
                           /\ record' = [record EXCEPT ![j] = new]
    /\ UNCHANGED <<asked, ended>>

RecordDelete(j) ==
    /\ record' = [record EXCEPT ![j] = Nothing]
    /\ UNCHANGED <<asked, ended>>

\* A restart gives up open jobs that it cannot resume, and changes no others.
RecordRestart ==
    /\ \E lost \in SUBSET {j \in Ids : record[j].state = "open"} :
           record' = [j \in Ids |-> IF j \in lost
                                    THEN [record[j] EXCEPT !.state = "interrupted"]
                                    ELSE record[j]]
    /\ UNCHANGED <<asked, ended>>

RecordNext ==
    \/ \E j \in Ids : \/ RecordAsk(j) \/ RecordWrite(j) \/ RecordDelete(j)
                      \/ \E o \in Ends : RecordExecute(j, o)
    \/ RecordRestart

RecordSpec == RecordInit /\ [][RecordNext]_recordVars
=============================================================================
