----------------------------- MODULE EventFeed ------------------------------
(***************************************************************************)
(* What the WebUI's session event stream promises.  A page reads the log   *)
(* of its session one event after the other: it never skips one, goes back *)
(* or reads for a session it does not have open.  It takes up another      *)
(* place only when its user has moved it, to another session or to or from *)
(* a job, and then exactly the cursor the browser keeps for that session:  *)
(* one that some page with that session open has saved.  SessionEvents     *)
(* implements this.                                                        *)
(***************************************************************************)
EXTENDS Naturals

CONSTANTS Tabs, Sessions, None

VARIABLES log,    \* how many events each session has logged
          saved,  \* of each session: the cursor the browser keeps
          view,   \* of each page: the session, and whether a job, its user has it show
          at      \* of each page: the session and job it has open, the last event read

feedVars == <<log, saved, view, at>>

View == [session : Sessions, job : BOOLEAN]
Closed == [session |-> None, job |-> FALSE, last |-> 0]

FeedInit ==
    /\ log = [s \in Sessions |-> 0] /\ saved = [s \in Sessions |-> 0]
    /\ view \in [Tabs -> [session : Sessions, job : {FALSE}]]
    /\ at = [t \in Tabs |-> Closed]

FeedPublish(s) ==
    /\ log' = [log EXCEPT ![s] = @ + 1]
    /\ UNCHANGED <<saved, view, at>>

\* A page with a stream: a session is open, and not for a job.
Reading(t) == at[t].session # None /\ ~at[t].job

\* A page that has not read any event begins anywhere; after that it reads
\* the next one.  Saving the new cursor may fail.
FeedRead(t) ==
    /\ Reading(t)
    /\ \E n \in 1..log[at[t].session] :
           /\ at[t].last = 0 \/ n = at[t].last + 1
           /\ at' = [at EXCEPT ![t].last = n]
           /\ saved' \in {saved, [saved EXCEPT ![at[t].session] = n]}
    /\ UNCHANGED <<log, view>>

\* A page writes the cursor it has reached again.
FeedSave(t) ==
    /\ Reading(t)
    /\ saved' = [saved EXCEPT ![at[t].session] = at[t].last]
    /\ UNCHANGED <<log, view, at>>

\* Its user moves a page; nothing else changes yet.
FeedMove(t) ==
    /\ \E v \in View : view' = [view EXCEPT ![t] = v]
    /\ UNCHANGED <<log, saved, at>>

\* A page that was moved opens what it is to show, at the saved cursor.
FeedOpen(t) ==
    LET v == view[t]
    IN /\ <<at[t].session, at[t].job>> # <<v.session, v.job>>
       /\ at' = [at EXCEPT ![t] = [session |-> v.session, job |-> v.job,
                                   last |-> saved[v.session]]]
       /\ UNCHANGED <<log, saved, view>>

\* A page is loaded again.
FeedClose(t) ==
    /\ view' = [view EXCEPT ![t].job = FALSE]
    /\ at' = [at EXCEPT ![t] = Closed]
    /\ UNCHANGED <<log, saved>>

FeedNext ==
    \/ \E s \in Sessions : FeedPublish(s)
    \/ \E t \in Tabs : \/ FeedRead(t) \/ FeedSave(t) \/ FeedMove(t)
                       \/ FeedOpen(t) \/ FeedClose(t)

FeedSpec == FeedInit /\ [][FeedNext]_feedVars
=============================================================================
