--------------------------- MODULE SessionEvents ----------------------------
(***************************************************************************)
(* The event stream of a session in the WebUI, in broker mode              *)
(* (useSessionEventStreaming.ts, sse.ts): a page connects to the broker's  *)
(* .../sessions/{id}/events with the Last-Event-ID it has saved, appends   *)
(* what it reads to a bounded buffer, saves buffer and cursor in the       *)
(* browser's localStorage under the session's key and shows the buffer as  *)
(* liveEvents, the list the job hooks write while a job is active.         *)
(*                                                                         *)
(* A page is a React component.  A set-state changes what is rendered; the *)
(* effects of that render run later, cleanups first, and until then the    *)
(* old stream goes on.  Several pages share one localStorage.  Event n of  *)
(* session s is [session |-> s, n |-> n]: ids repeat between sessions.  An *)
(* event the server sends without an id is [session |-> s, n |-> 0].       *)
(* Texts, time stamps, the status line and the cap on the job's events are *)
(* left out.                                                               *)
(***************************************************************************)
EXTENDS Naturals, Sequences

CONSTANTS Tabs, Sessions, None,
          MaxBuf,     \* SESSION_STREAM_MAX_EVENTS
          MaxLog,     \* bound: events of each session
          MaxMoves,   \* bound: switches, runs and reloads
          MaxBreaks   \* bound: failed or ended connections, events without an id

ASSUME BufAssumption == MaxBuf \in Nat \ {0}
ASSUME SessionAssumption == None \notin Sessions
ASSUME FeedBounds == /\ MaxLog \in [Sessions -> Nat] /\ MaxMoves \in Nat
                     /\ MaxBreaks \in Nat

VARIABLES
    log,      \* external: how many events each session has logged
    storage,  \* localStorage: the persisted state of each session
    session,  \* of each page: the session it shows
    job,      \* of each page: activeJobId is set
    seen,     \* of each page: session and job its effects last ran for
    ref,      \* of each page: persistedRef.current
    shown,    \* of each page: liveEvents
    phase,    \* of each page's stream loop: "off", "connecting", "live", "sleep"
    next,     \* of a live stream: the event the server sends next; else 0
    late,     \* of each page: an event a cancelled loop read and has not handled
    moves, breaks  \* counters for the bounds

page == <<session, job, seen>>
loop == <<phase, next, late>>
vars == <<log, storage, session, job, seen, ref, shown, phase, next, late,
          moves, breaks>>

Event == [session : Sessions, n : Nat]
JobEvent == [session |-> None, n |-> 0]
State == [last : Nat, events : Seq(Event)]
EMPTY_PERSISTED_STATE == [last |-> 0, events |-> <<>>]
Unseen == [session |-> None, job |-> FALSE]

\* The type of every variable.
TypeOK ==
    /\ log \in [Sessions -> Nat]
    /\ storage \in [Sessions -> State]
    /\ session \in [Tabs -> Sessions] /\ job \in [Tabs -> BOOLEAN]
    /\ seen \in [Tabs -> [session : Sessions \cup {None}, job : BOOLEAN]]
    /\ ref \in [Tabs -> State]
    /\ shown \in [Tabs -> Seq(Event \cup {JobEvent})]
    /\ phase \in [Tabs -> {"off", "connecting", "live", "sleep"}]
    /\ next \in [Tabs -> Nat] /\ late \in [Tabs -> Event \cup {JobEvent}]
    /\ moves \in 0..MaxMoves /\ breaks \in 0..MaxBreaks

\* Pages just loaded, in a browser that never opened these sessions.
Init ==
    /\ log = [s \in Sessions |-> 0]
    /\ storage = [s \in Sessions |-> EMPTY_PERSISTED_STATE]
    /\ session \in [Tabs -> Sessions] /\ job = [t \in Tabs |-> FALSE]
    /\ seen = [t \in Tabs |-> Unseen]
    /\ ref = [t \in Tabs |-> EMPTY_PERSISTED_STATE]
    /\ shown = [t \in Tabs |-> <<>>]
    /\ phase = [t \in Tabs |-> "off"] /\ next = [t \in Tabs |-> 0]
    /\ late = [t \in Tabs |-> JobEvent]
    /\ moves = 0 /\ breaks = 0

-----------------------------------------------------------------------------
(* The session's agent and the broker's proxy: outside this code.          *)

Publish(s) ==
    /\ log[s] < MaxLog[s]
    /\ log' = [log EXCEPT ![s] = @ + 1]
    /\ UNCHANGED <<storage, page, ref, shown, loop, moves, breaks>>

\* Where the server begins: after the acknowledged event or, as the resume
\* test has it, with that event once more; anywhere for a reader without one.
Resume(s, last) == IF last = 0 THEN 1..(log[s] + 1) ELSE {last, last + 1}

-----------------------------------------------------------------------------
(* One event of the stream.                                                *)

LastOf(q) == IF Len(q) > MaxBuf THEN SubSeq(q, Len(q) - MaxBuf + 1, Len(q)) ELSE q

\* Mutant: an event that was replayed is appended again.
HeldNever(st, e) == FALSE

\* An event whose id the buffer holds: appendSessionStreamEvent returns null.
Held(st, e) == e.n # 0 /\ \E i \in 1..Len(st.events) : st.events[i].n = e.n

\* The state with any other event, which keeps its cursor if that has no id.
appendSessionStreamEvent(st, e) ==
    [last |-> IF e.n = 0 THEN st.last ELSE e.n, events |-> LastOf(Append(st.events, e))]

\* The callback.  Saving may fail and nobody is told.
Apply(t, e) ==
    LET st == appendSessionStreamEvent(ref[t], e)
    IN IF Held(ref[t], e) THEN UNCHANGED <<ref, storage, shown>>
       ELSE /\ ref' = [ref EXCEPT ![t] = st]
            /\ storage' \in {storage, [storage EXCEPT ![e.session] = st]}
            /\ shown' = [shown EXCEPT ![t] = st.events]

Deliver(t) ==
    LET s == seen[t].session
    IN /\ phase[t] = "live" /\ next[t] <= log[s]
       /\ Apply(t, [session |-> s, n |-> next[t]])
       /\ next' = [next EXCEPT ![t] = @ + 1]
       /\ UNCHANGED <<log, page, phase, late, moves, breaks>>

\* The server may send an event without an id at any time, a new one or one
\* it has sent before: nothing tells them apart.
DeliverBare(t) ==
    /\ phase[t] = "live" /\ breaks < MaxBreaks
    /\ Apply(t, [session |-> seen[t].session, n |-> 0])
    /\ breaks' = breaks + 1
    /\ UNCHANGED <<log, page, loop, moves>>

\* Mutant: the callback of a cancelled loop goes on.
LateHandled(t) ==
    /\ late[t] # JobEvent
    /\ Apply(t, late[t])
    /\ late' = [late EXCEPT ![t] = JobEvent]
    /\ UNCHANGED <<log, page, phase, next, moves, breaks>>

\* A loop that was cancelled after its read was resolved: the callback returns.
LateCallback(t) ==
    /\ late[t] # JobEvent
    /\ late' = [late EXCEPT ![t] = JobEvent]
    /\ UNCHANGED <<log, storage, page, ref, shown, phase, next, moves, breaks>>

-----------------------------------------------------------------------------
(* The loop.                                                               *)

\* fetch with the cursor in persistedRef, and its answer.
Connect(t) ==
    /\ phase[t] = "connecting"
    /\ phase' = [phase EXCEPT ![t] = "live"]
    /\ \E k \in Resume(seen[t].session, ref[t].last) : next' = [next EXCEPT ![t] = k]
    /\ UNCHANGED <<log, storage, page, ref, shown, late, moves, breaks>>

\* Mutant: an ended stream is not opened again.
BreakForGood(t) ==
    /\ phase[t] \in {"connecting", "live"} /\ breaks < MaxBreaks
    /\ phase' = [phase EXCEPT ![t] = "off"]
    /\ next' = [next EXCEPT ![t] = 0]
    /\ breaks' = breaks + 1
    /\ UNCHANGED <<log, storage, page, ref, shown, late, moves>>

\* The fetch fails, is refused, breaks or ends.
Break(t) ==
    /\ phase[t] \in {"connecting", "live"} /\ breaks < MaxBreaks
    /\ phase' = [phase EXCEPT ![t] = "sleep"]
    /\ next' = [next EXCEPT ![t] = 0]
    /\ breaks' = breaks + 1
    /\ UNCHANGED <<log, storage, page, ref, shown, late, moves>>

Retry(t) ==
    /\ phase[t] = "sleep"
    /\ phase' = [phase EXCEPT ![t] = "connecting"]
    /\ UNCHANGED <<log, storage, page, ref, shown, next, late, moves, breaks>>

\* The cleanup of the loop's effect: an event that was read stays behind.
Cancelled(t) ==
    /\ late' = [late EXCEPT ![t] =
           IF phase[t] = "live" /\ next[t] <= log[seen[t].session]
           THEN [session |-> seen[t].session, n |-> next[t]] ELSE @]
    /\ next' = [next EXCEPT ![t] = 0]

-----------------------------------------------------------------------------
(* The page.                                                               *)

Due(t) == seen[t] # [session |-> session[t], job |-> job[t]]

\* Mutant: the new session's buffer is not shown.
EffectsKeepShown(t) ==
    /\ Due(t)
    /\ seen' = [seen EXCEPT ![t] = [session |-> session[t], job |-> job[t]]]
    /\ Cancelled(t)
    /\ ref' = [ref EXCEPT ![t] = storage[session[t]]]
    /\ phase' = [phase EXCEPT ![t] = IF job[t] THEN "off" ELSE "connecting"]
    /\ UNCHANGED <<log, storage, session, job, shown, moves, breaks>>

\* The effects of a render with another session or job: the old loop is
\* cancelled, the saved state read and, without a job, shown and a loop begun.
Effects(t) ==
    /\ Due(t)
    /\ seen' = [seen EXCEPT ![t] = [session |-> session[t], job |-> job[t]]]
    /\ Cancelled(t)
    /\ ref' = [ref EXCEPT ![t] = storage[session[t]]]
    /\ shown' = [shown EXCEPT ![t] = IF job[t] THEN @ ELSE storage[session[t]].events]
    /\ phase' = [phase EXCEPT ![t] = IF job[t] THEN "off" ELSE "connecting"]
    /\ UNCHANGED <<log, storage, session, job, moves, breaks>>

\* Other credentials: only the loop's effect runs again.
Reauthorize(t) ==
    /\ ~Due(t) /\ phase[t] # "off" /\ moves < MaxMoves
    /\ Cancelled(t)
    /\ phase' = [phase EXCEPT ![t] = "connecting"]
    /\ moves' = moves + 1
    /\ UNCHANGED <<log, storage, page, ref, shown, breaks>>

\* setSessionId, by the user or after an attach.
SetSession(t, s) ==
    /\ moves < MaxMoves /\ s # session[t]
    /\ session' = [session EXCEPT ![t] = s]
    /\ moves' = moves + 1
    /\ UNCHANGED <<log, storage, job, seen, ref, shown, loop, breaks>>

\* onSuccess of newSession.
NewSession(t, s) ==
    /\ moves < MaxMoves /\ s # session[t]
    /\ session' = [session EXCEPT ![t] = s]
    /\ job' = [job EXCEPT ![t] = FALSE]
    /\ shown' = [shown EXCEPT ![t] = <<>>]
    /\ moves' = moves + 1
    /\ UNCHANGED <<log, storage, seen, ref, loop, breaks>>

\* onSuccess of run: an async one makes the job active, a sync one is over.
RunSucceeds(t) ==
    /\ moves < MaxMoves
    /\ shown' = [shown EXCEPT ![t] = <<>>]
    /\ \E active \in {job[t], TRUE} : job' = [job EXCEPT ![t] = active]
    /\ moves' = moves + 1
    /\ UNCHANGED <<log, storage, session, seen, ref, loop, breaks>>

\* Mutant: the job's events go into the session's buffer.
JobProgressBuffered(t) ==
    /\ seen[t].job /\ \A i \in 1..Len(shown[t]) : shown[t][i] # JobEvent
    /\ shown' = [shown EXCEPT ![t] = Append(@, JobEvent)]
    /\ ref' = [ref EXCEPT ![t].events = Append(@, JobEvent)]
    /\ UNCHANGED <<log, storage, page, loop, moves, breaks>>

\* The job hooks, whose effect runs for an active job, show its events: one
\* stands for any number.
JobProgress(t) ==
    /\ seen[t].job /\ \A i \in 1..Len(shown[t]) : shown[t][i] # JobEvent
    /\ shown' = [shown EXCEPT ![t] = Append(@, JobEvent)]
    /\ UNCHANGED <<log, storage, page, ref, loop, moves, breaks>>

\* They find it finished.
JobDone(t) ==
    /\ job[t] /\ seen[t].job
    /\ job' = [job EXCEPT ![t] = FALSE]
    /\ UNCHANGED <<log, storage, session, seen, ref, shown, loop, moves, breaks>>

\* The page is loaded again; its session is remembered by the browser.
Reload(t) ==
    /\ moves < MaxMoves
    /\ job' = [job EXCEPT ![t] = FALSE] /\ seen' = [seen EXCEPT ![t] = Unseen]
    /\ ref' = [ref EXCEPT ![t] = EMPTY_PERSISTED_STATE]
    /\ shown' = [shown EXCEPT ![t] = <<>>]
    /\ phase' = [phase EXCEPT ![t] = "off"] /\ next' = [next EXCEPT ![t] = 0]
    /\ late' = [late EXCEPT ![t] = JobEvent]
    /\ moves' = moves + 1
    /\ UNCHANGED <<log, storage, session, breaks>>

-----------------------------------------------------------------------------
PageStep(t) ==
    \/ Deliver(t) \/ DeliverBare(t) \/ LateCallback(t)
    \/ Connect(t) \/ Break(t) \/ Retry(t)
    \/ Effects(t) \/ Reauthorize(t) \/ RunSucceeds(t) \/ JobProgress(t)
    \/ JobDone(t) \/ Reload(t)
    \/ \E s \in Sessions : SetSession(t, s) \/ NewSession(t, s)

Next == (\E s \in Sessions : Publish(s)) \/ (\E t \in Tabs : PageStep(t))

Spec == Init /\ [][Next]_vars

\* The browser runs effects, callbacks and timers, connections get an answer
\* and carry what was sent, and the job hooks find an active job's end.
Fairness ==
    \A t \in Tabs : /\ WF_vars(Effects(t)) /\ WF_vars(Retry(t))
                    /\ WF_vars(Connect(t)) /\ WF_vars(Deliver(t))
                    /\ WF_vars(JobDone(t))

FairSpec == Spec /\ Fairness

-----------------------------------------------------------------------------
(* Properties.                                                             *)

\* A list of events of session s in which the ones with an id are the last ones
\* up to the cursor, in order, without a gap and each once, with any number of
\* events without an id between them.  If it has any with an id it has the
\* cursor's.
RunUpTo(q, last, s) ==
    /\ \A i \in 1..Len(q) : q[i].session = s /\ q[i].n <= last
    /\ \A i \in 1..Len(q) : q[i].n # 0 =>
           \/ q[i].n = last /\ \A j \in (i + 1)..Len(q) : q[j].n = 0
           \/ \E j \in (i + 1)..Len(q) :
                  q[j].n = q[i].n + 1 /\ \A k \in (i + 1)..(j - 1) : q[k].n = 0
    /\ \A i \in 1..Len(q) : q[i].n # 0 => \E j \in 1..Len(q) : q[j].n = last

\* A state within its bound holds such a list, empty only without a cursor.
WindowOf(st, s) ==
    /\ Len(st.events) <= MaxBuf /\ (st.events = <<>> => st.last = 0)
    /\ RunUpTo(st.events, st.last, s)

\* What localStorage keeps under a session's key, and what a page holds for
\* its session, are such windows of that session's log: a late callback, a
\* switch, a failed save, another page's save or a replay never puts a
\* foreign event, a repeated or a missing id in, also when events without an
\* id push the cursor's own event out and the server sends it again
\* (appendSessionStreamEvent, writePersistedSessionStream and the cancelled
\* flag of useSessionEventStreaming).  Nothing is said of how often an event
\* without an id is held: a replay appends it again.
BuffersAreWindows ==
    /\ \A s \in Sessions : WindowOf(storage[s], s) /\ storage[s].last <= log[s]
    /\ \A t \in Tabs : seen[t].session # None =>
           /\ WindowOf(ref[t], seen[t].session)
           /\ ref[t].last <= log[seen[t].session]

\* Once its effects have run, a page without a job shows the buffer of its
\* session or, after a run that was not a job cleared it, nothing (effect 1
\* and the callback, against every other writer of liveEvents).
SettledView ==
    \A t \in Tabs : ~Due(t) /\ ~job[t] => shown[t] \in {<<>>, ref[t].events}

\* The abstract feed: the cursors the browser keeps, what each page is to
\* show, and the cursor it has reached in what it has open.
saved == [s \in Sessions |-> storage[s].last]
view == [t \in Tabs |-> [session |-> session[t], job |-> job[t]]]
at == [t \in Tabs |-> [session |-> seen[t].session, job |-> seen[t].job,
                       last |-> ref[t].last]]
Feed == INSTANCE EventFeed WITH saved <- saved, view <- view, at <- at

\* Every page reads its session's events one after the other, whatever happens
\* to its connections; it goes to another place only when its effects run for
\* another session or job, and then to the cursor saved for that session (the
\* Last-Event-ID it sends, the dedupe in appendSessionStreamEvent, the effect
\* that reads localStorage and the cancelled flag).
ReadsAsFeed == Feed!FeedSpec

\* A page that is left alone ends with its stream open and nothing unread
\* (streamLoop, which connects again until it is cancelled).
CatchesUp ==
    \A t \in Tabs : <>[](phase[t] = "live" /\ next[t] = log[session[t]] + 1)
=============================================================================
