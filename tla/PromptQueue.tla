---------------------------- MODULE PromptQueue -----------------------------
(***************************************************************************)
(* The prompt queue of a WebUI page (useRunExecution.ts, with the queue    *)
(* kept by useLocalStorageState.ts, the session by useAppShellState.ts and *)
(* useAppSessionMutations.ts, and the jobs picked up again by              *)
(* useRunWatchState.ts).  A prompt submitted while a run is active is put  *)
(* in a queue; an effect takes prompts out one at a time and sends them to *)
(* the daemon.                                                             *)
(*                                                                         *)
(* What a callback or an effect reads of the page's state is what was last *)
(* rendered (r); a set-state changes what the next render will see.  One   *)
(* step of Render is a render with the effects that follow it.  isPending  *)
(* tells of the latest mutation only, while every mutation's onSuccess and *)
(* onError run.  Queued prompts are numbered in the order they are queued; *)
(* a prompt sent without queueing is Direct.  Texts, attachments, options  *)
(* of a run and notices are left out, and localStorage keeps what it is    *)
(* given.                                                                  *)
(***************************************************************************)
EXTENDS Naturals, Sequences, FiniteSets

CONSTANTS Sessions, None,
          Default,      \* the session a new browser starts with
          MaxPrompts,   \* bound: prompts queued
          MaxDirect,    \* bound: prompts sent without queueing
          MaxFaults     \* bound: requests refused or lost, session switches
                        \* and reloads, together

ASSUME QueueSessions == Default \in Sessions /\ None \notin Sessions
ASSUME QueueBounds == MaxPrompts \in Nat /\ MaxDirect \in Nat /\ MaxFaults \in Nat

VARIABLES
    runQueue, activeJobId, sessionId,  \* state of the page; job 0 is none
    latest,             \* the mutation the page observes if it is pending, or 0
    dequeueInFlightRef, checking,  \* the ref; the job being looked up again
    r, dirty,           \* what was last rendered; a render is due
    useAsync,           \* effectiveUseAsync
    storage, savedSession, jobStore,  \* localStorage, by session
    flights,            \* requests the daemon or the page has yet to deal with
    runs, live,         \* the daemon: prompts it ran, and the runs not over
    made, directs,      \* history: prompts queued, and sent without queueing
    refused, excused, repeated,  \* history: see the actions
    faults              \* counts up to MaxFaults

state == <<runQueue, activeJobId, sessionId, latest, dequeueInFlightRef, checking>>
browser == <<storage, savedSession, jobStore>>
daemon == <<runs, live>>
verdicts == <<refused, excused, repeated>>
history == <<made, directs, verdicts>>
vars == <<runQueue, activeJobId, sessionId, latest, dequeueInFlightRef, checking,
          r, dirty, useAsync, storage, savedSession, jobStore, flights, runs,
          live, made, directs, refused, excused, repeated, faults>>

Direct == 0
Prompt == Nat
Flight == [id : Nat, p : Prompt, queued : BOOLEAN, gone : BOOLEAN,
           is : {"sent", "ran", "refused", "failed"}, run : Nat]
Blank == [queue |-> <<>>, active |-> 0, pending |-> FALSE, session |-> None]

InSeq(q) == {q[i] : i \in DOMAIN q}

\* The type of every variable.
TypeOK ==
    /\ runQueue \in Seq(Prompt) /\ activeJobId \in Nat /\ sessionId \in Sessions
    /\ latest \in Nat /\ dequeueInFlightRef \in BOOLEAN /\ checking \in Nat
    /\ r \in [queue : Seq(Prompt), active : Nat, pending : BOOLEAN,
              session : Sessions \cup {None}]
    /\ dirty \in BOOLEAN /\ useAsync \in BOOLEAN
    /\ storage \in [Sessions -> Seq(Prompt)] /\ savedSession \in Sessions
    /\ jobStore \in [Sessions -> Nat]
    /\ flights \subseteq Flight
    /\ runs \in Seq(Prompt) /\ live \subseteq Nat
    /\ made \in Nat /\ directs \in Nat
    /\ refused \subseteq Nat /\ excused \subseteq Nat /\ repeated \subseteq Nat
    /\ faults \in 0..MaxFaults

\* A browser that never queued anything loads the page.
Init ==
    /\ runQueue = <<>> /\ activeJobId = 0 /\ sessionId = Default
    /\ latest = 0 /\ dequeueInFlightRef = FALSE /\ checking = 0
    /\ r = Blank /\ dirty = TRUE /\ useAsync \in BOOLEAN
    /\ storage = [s \in Sessions |-> <<>>] /\ savedSession = Default
    /\ jobStore = [s \in Sessions |-> 0]
    /\ flights = {} /\ runs = <<>> /\ live = {}
    /\ made = 0 /\ directs = 0
    /\ refused = {} /\ excused = {} /\ repeated = {}
    /\ faults = 0

-----------------------------------------------------------------------------
(* Submitting.                                                             *)

\* mutate: a request is on its way, under the first free number, and its
\* mutation is the observed one.
Mutate(p, queued) ==
    \E n \in 1..(Cardinality(flights) + 1) :
        /\ \A f \in flights : f.id # n
        /\ \A k \in 1..(n - 1) : \E f \in flights : f.id = k
        /\ flights' = flights \cup {[id |-> n, p |-> p, queued |-> queued,
                                     gone |-> FALSE, is |-> "sent", run |-> 0]}
        /\ latest' = n
        /\ dirty' = TRUE

\* handleDirectRunRequest, as it was last rendered: enqueueRun ...
Enqueue ==
    /\ r.session # None /\ made < MaxPrompts
    /\ r.active # 0 \/ r.pending
    /\ runQueue' = Append(runQueue, made + 1) /\ made' = made + 1
    /\ dirty' = TRUE
    /\ UNCHANGED <<activeJobId, sessionId, latest, dequeueInFlightRef, checking, r,
                   useAsync, browser, flights, daemon, directs, verdicts, faults>>

\* ... or run.mutate.
RunDirect ==
    /\ r.session # None /\ directs < MaxDirect
    /\ r.active = 0 /\ ~r.pending
    /\ Mutate(Direct, FALSE) /\ directs' = directs + 1
    /\ UNCHANGED <<runQueue, activeJobId, sessionId, dequeueInFlightRef, checking, r,
                   useAsync, browser, daemon, made, verdicts, faults>>

-----------------------------------------------------------------------------
(* A render and its effects.                                               *)

\* What the render sees.
View == [queue |-> runQueue, active |-> activeJobId, pending |-> latest # 0,
         session |-> sessionId]

\* Mutant: the ref is not looked at.
CanDequeueAnyway == activeJobId = 0 /\ latest = 0 /\ runQueue # <<>>

CanDequeue ==
    activeJobId = 0 /\ latest = 0 /\ runQueue # <<>> /\ ~dequeueInFlightRef

\* Mutant: the queue is saved under the key it was read from.
SaveOldKey ==
    /\ storage' = [storage EXCEPT
           ![IF r.session = None THEN sessionId ELSE r.session] = runQueue]
    /\ savedSession' = sessionId

\* The effects of useLocalStorageState, for the queue and for the session.
Save ==
    /\ storage' = [storage EXCEPT ![sessionId] = runQueue]
    /\ savedSession' = sessionId

\* They save, look up a job remembered for the session if none is active, and
\* take a prompt out of the queue.
Render ==
    /\ dirty
    /\ r' = View
    /\ Save
    /\ checking' = IF activeJobId = 0 THEN jobStore[sessionId] ELSE 0
    /\ IF CanDequeue
       THEN /\ Mutate(Head(runQueue), TRUE)
            /\ runQueue' = Tail(runQueue) /\ dequeueInFlightRef' = TRUE
       ELSE /\ dirty' = FALSE
            /\ UNCHANGED <<runQueue, latest, dequeueInFlightRef, flights>>
    /\ UNCHANGED <<activeJobId, sessionId, useAsync, jobStore, daemon, history, faults>>

-----------------------------------------------------------------------------
(* The daemon and the network.                                             *)

Becomes(f, what, run) ==
    flights' = (flights \ {f}) \cup {[f EXCEPT !.is = what, !.run = run]}

\* The run is accepted; a page that is gone does not hear of it.
Accept(f) ==
    /\ f.is = "sent"
    /\ runs' = Append(runs, f.p) /\ live' = live \cup {Len(runs) + 1}
    /\ IF f.gone THEN flights' = flights \ {f} ELSE Becomes(f, "ran", Len(runs) + 1)
    /\ UNCHANGED <<state, r, dirty, useAsync, browser, history, faults>>

\* It is answered with ok = false.
Refuse(f) ==
    /\ f.is = "sent" /\ ~f.gone /\ faults < MaxFaults
    /\ Becomes(f, "refused", 0) /\ faults' = faults + 1
    /\ UNCHANGED <<state, r, dirty, useAsync, browser, daemon, history>>

\* The request, or the answer to one that runs, is lost and the call throws.
Fail(f) ==
    /\ f.is \in {"sent", "ran"} /\ ~f.gone /\ faults < MaxFaults
    /\ Becomes(f, "failed", 0) /\ faults' = faults + 1
    /\ repeated' = IF f.is = "ran" /\ f.queued THEN repeated \cup {f.p} ELSE repeated
    /\ UNCHANGED <<state, r, dirty, useAsync, browser, daemon, made, directs,
                   refused, excused>>

RunOver(n) ==
    /\ n \in live
    /\ live' = live \ {n}
    /\ UNCHANGED <<state, r, dirty, useAsync, browser, flights, runs, history, faults>>

-----------------------------------------------------------------------------
(* Answers.                                                                *)

\* Mutant: no render follows the end of a mutation.
SettleSilently(f) ==
    /\ flights' = flights \ {f}
    /\ dequeueInFlightRef' = (dequeueInFlightRef /\ ~f.queued)
    /\ latest' = IF latest = f.id THEN 0 ELSE latest
    /\ UNCHANGED dirty

\* What every answer ends with: the finally of the dequeue, the mutation over.
Settle(f) ==
    /\ flights' = flights \ {f}
    /\ dequeueInFlightRef' = (dequeueInFlightRef /\ ~f.queued)
    /\ latest' = IF latest = f.id THEN 0 ELSE latest
    /\ dirty' = TRUE

\* onSuccess of an accepted run: its job becomes the active one and is
\* remembered for the session last rendered; a sync run has no job and is
\* answered when it is over.
AnswerRan(f) ==
    /\ f.is = "ran" /\ (useAsync \/ f.run \notin live)
    /\ activeJobId' = IF useAsync THEN f.run ELSE activeJobId
    /\ jobStore' = IF useAsync THEN [jobStore EXCEPT ![r.session] = f.run] ELSE jobStore
    /\ Settle(f)
    /\ UNCHANGED <<runQueue, sessionId, checking, r, useAsync, storage, savedSession,
                   daemon, history, faults>>

\* onSuccess of a refused one: the error is shown, the prompt is not kept.
AnswerRefused(f) ==
    /\ f.is = "refused"
    /\ refused' = IF f.queued THEN refused \cup {f.p} ELSE refused
    /\ Settle(f)
    /\ UNCHANGED <<runQueue, activeJobId, sessionId, checking, r, useAsync, browser,
                   daemon, made, directs, excused, repeated, faults>>

\* Mutant: it is put back although the dequeue never took it out.
AnswerFailedTwice(f) ==
    /\ f.is = "failed"
    /\ runQueue' = IF f.queued THEN <<f.p, f.p>> \o runQueue ELSE runQueue
    /\ Settle(f)
    /\ UNCHANGED <<activeJobId, sessionId, checking, r, useAsync, browser, daemon,
                   history, faults>>

\* onError, and the catch of the dequeue, which puts the prompt back.
AnswerFailed(f) ==
    /\ f.is = "failed"
    /\ runQueue' = IF f.queued THEN <<f.p>> \o runQueue ELSE runQueue
    /\ Settle(f)
    /\ UNCHANGED <<activeJobId, sessionId, checking, r, useAsync, browser, daemon,
                   history, faults>>

-----------------------------------------------------------------------------
(* Jobs, sessions and reloads.                                             *)

\* The job hooks find the active job finished.
JobDone ==
    /\ r.active # 0 /\ r.active \notin live
    /\ activeJobId' = 0 /\ jobStore' = [jobStore EXCEPT ![r.session] = 0]
    /\ dirty' = TRUE
    /\ UNCHANGED <<runQueue, sessionId, latest, dequeueInFlightRef, checking, r,
                   useAsync, storage, savedSession, flights, daemon, history, faults>>

\* The remembered job is looked up: it is watched again, or forgotten.
Restore ==
    /\ checking # 0
    /\ checking' = 0 /\ dirty' = TRUE
    /\ IF checking \in live
       THEN activeJobId' = checking /\ UNCHANGED jobStore
       ELSE jobStore' = [jobStore EXCEPT ![r.session] = 0] /\ UNCHANGED activeJobId
    /\ UNCHANGED <<runQueue, sessionId, latest, dequeueInFlightRef, r, useAsync,
                   storage, savedSession, flights, daemon, history, faults>>

\* setSessionId, by the user or an attach; newSession also drops the job.
SetSession(s) ==
    /\ s # sessionId /\ faults < MaxFaults
    /\ sessionId' = s /\ dirty' = TRUE /\ faults' = faults + 1
    /\ activeJobId' \in {activeJobId, 0}
    /\ UNCHANGED <<runQueue, latest, dequeueInFlightRef, checking, r, useAsync,
                   browser, flights, daemon, history>>

\* Prompts put in or taken out of the queue since the render that saved it.
Unsaved ==
    IF r.session = None THEN {}
    ELSE (InSeq(runQueue) \ InSeq(r.queue)) \cup (InSeq(r.queue) \ InSeq(runQueue))

\* Mutant: the session is the one last rendered, not the one kept.
ReloadRendered ==
    /\ faults < MaxFaults
    /\ sessionId' = r.session /\ runQueue' = storage[savedSession]
    /\ activeJobId' = 0 /\ latest' = 0 /\ dequeueInFlightRef' = FALSE
    /\ checking' = 0 /\ r' = Blank /\ dirty' = TRUE
    /\ flights' = {[f EXCEPT !.gone = TRUE] : f \in {g \in flights : g.is = "sent"}}
    /\ excused' = excused \cup Unsaved \cup {f.p : f \in {g \in flights : g.queued}}
    /\ faults' = faults + 1
    /\ UNCHANGED <<useAsync, browser, daemon, made, directs, refused, repeated>>

\* The page is loaded again.  Nobody hears the answers to its requests, and
\* what no render has saved is forgotten.
Reload ==
    /\ faults < MaxFaults
    /\ sessionId' = savedSession /\ runQueue' = storage[savedSession]
    /\ activeJobId' = 0 /\ latest' = 0 /\ dequeueInFlightRef' = FALSE
    /\ checking' = 0 /\ r' = Blank /\ dirty' = TRUE
    /\ flights' = {[f EXCEPT !.gone = TRUE] : f \in {g \in flights : g.is = "sent"}}
    /\ excused' = excused \cup Unsaved \cup {f.p : f \in {g \in flights : g.queued}}
    /\ faults' = faults + 1
    /\ UNCHANGED <<useAsync, browser, daemon, made, directs, refused, repeated>>

-----------------------------------------------------------------------------
Answer(f) == AnswerRan(f) \/ AnswerRefused(f) \/ AnswerFailed(f)

Next ==
    \/ Enqueue \/ RunDirect \/ Render \/ JobDone \/ Restore \/ Reload
    \/ \E f \in flights : Accept(f) \/ Refuse(f) \/ Fail(f) \/ Answer(f)
    \/ \E n \in live : RunOver(n)
    \/ \E s \in Sessions : SetSession(s)

Spec == Init /\ [][Next]_vars

\* React renders what is due, the daemon deals with requests and ends its
\* runs, answers arrive and the job hooks notice an end.
Progress ==
    \/ Render \/ JobDone
    \/ \E f \in flights : Accept(f) \/ Answer(f)
    \/ \E n \in live : RunOver(n)

Fairness == WF_vars(Progress)

FairSpec == Spec /\ Fairness

-----------------------------------------------------------------------------
(* Properties.                                                             *)

\* A prompt that was queued is still queued, on its way, has run or was
\* refused, whatever fails and however the session changes; only a reload may
\* take one that was not saved yet or was on its way (the catch of the dequeue
\* and the effect of useLocalStorageState).
NothingLost ==
    1..made \subseteq InSeq(runQueue) \cup {f.p : f \in {g \in flights : ~g.gone}}
                      \cup InSeq(runs) \cup refused \cup excused

\* The daemon gets queued prompts in the order they were queued (docs/WEBUI.md
\* "queued runs execute in order"): when it runs one, every earlier one has
\* run, was refused or was lost to a reload.
SubmittedInOrder ==
    [][Len(runs') > Len(runs) =>
           1..(runs'[Len(runs')] - 1) \subseteq InSeq(runs) \cup refused \cup excused]_vars

\* No queued prompt runs twice, unless the answer to it was lost or the page
\* was reloaded before the answer (the slice of the dequeue against the
\* requeue of its catch).
RunsOnce ==
    \A i, j \in DOMAIN runs :
        i # j /\ runs[i] = runs[j] => runs[i] \in {Direct} \cup repeated \cup excused

\* A queue left alone drains: the ref is never the reason why nothing happens.
QueueDrains == <>[](runQueue = <<>>)
=============================================================================
