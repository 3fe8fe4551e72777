------------------------------ MODULE MemQueue ------------------------------
(***************************************************************************)
(* The message queue of the memory worker kept under ref/claude-mem, for   *)
(* one session: the rows of PendingMessageStore.ts, the iterator of        *)
(* SessionQueueProcessor.ts, the session objects of SessionManager.ts, the *)
(* generators that worker-service.ts and the session routes start (these   *)
(* only as bundled in plugin/scripts/worker-service.cjs), the agents they  *)
(* run and ResponseProcessor.ts.                                           *)
(*                                                                         *)
(* The worker has one thread: what a handler does up to its next await is  *)
(* one step.  A generator is a call of startSession: it asks its agent the *)
(* initial prompt (0) and then every message the iterator claims; Claude   *)
(* takes prompts while others are unanswered, Gemini and OpenRouter one at *)
(* a time.  The iterator a failed Claude query was pulling is left behind: *)
(* nothing returns it, so it goes on waiting for a message and claims it   *)
(* for nobody (strays).  Sessions do not share rows, so there is one; what *)
(* is stored of an answer, memory session ids, process slots and the       *)
(* viewer's status are left out.                                           *)
(***************************************************************************)
EXTENDS Naturals, Sequences, FiniteSets

CONSTANTS MaxMsgs,      \* bound: messages; they are numbered as inserted
          MaxAsked,     \* bound: prompts an agent holds unanswered
          MaxFaults,    \* bound: errors and empty answers of agents, ends of the
                        \* worker process and deletions of the session, together
          MaxTotal,     \* bound: messages and faults together
          MaxRestarts,  \* the restarts the routes allow in a row (3 in the code)
          Agents,       \* what the settings may select
          Fallbacks     \* what is configured besides, in the order it is tried

ASSUME MemBounds ==
    /\ MaxMsgs \in Nat /\ MaxAsked \in Nat
    /\ MaxFaults \in Nat /\ MaxTotal \in Nat /\ MaxRestarts \in Nat
ASSUME MemAgents == /\ Agents \subseteq {"claude", "gemini", "openrouter"}
                    /\ Fallbacks \in Seq({"gemini", "openrouter"})

VARIABLES
    status, old,   \* the rows; those processing for more than 60 s
    objs, made,    \* session objects; how many were made
    cur,           \* the one in the map, 0 if none
    spawnInProgress, crashRecoveryScheduled,  \* for this session
    strays,        \* iterators of failed Claude queries that were not returned
    deleting,      \* deleteSession: the object whose generator it awaits, 0 if none
    up, recover,   \* the worker is initialized; its recovery is to come
    sent,          \* messages inserted
    handed, healed,  \* history: messages handed over, self-healed
    unread,        \* history: messages claimed by a stray
    left,          \* history: rows were left behind since a generator was last started:
                   \* one ended and was told to stop, the timer of the routes found no
                   \* session or a generator that waits, or a stray healed them
    faults         \* counts up to MaxFaults

queue == <<status, old>>
session == <<objs, strays, made, cur, spawnInProgress, crashRecoveryScheduled>>
vars == <<status, old, objs, strays, made, cur, spawnInProgress, crashRecoveryScheduled,
          deleting, up, recover, sent, handed, healed, unread, left, faults>>

Msgs == 1..MaxMsgs
\* Only a fault takes an object out of the map, so there is always room for one.
MaxObjects == MaxFaults + 1
Ids == 1..MaxObjects
Status == {"none", "pending", "processing", "failed", "deleted"}

\* An ActiveSession: processingMessageIds, whether its controller is aborted,
\* idleTimedOut, consecutiveRestarts; and its generator, if on: who started
\* it, its agent (the fb-th fallback, 0 if none), the prompts it was asked,
\* and its iterator: the object it was made from (0: not made yet), whether
\* its signal is aborted, whether that object has another controller by now,
\* and whether it may be pulled, waits for a message or has returned.
Object == [processingMessageIds : SUBSET Msgs, aborted : BOOLEAN,
           idleTimedOut : BOOLEAN, consecutiveRestarts : Nat,
           on : BOOLEAN, by : {"routes", "worker"},
           agent : {"claude", "gemini", "openrouter"}, fb : Nat,
           asked : Seq(0..MaxMsgs), it : Nat, cut : BOOLEAN, loose : BOOLEAN,
           state : {"ready", "waiting", "done"}]

\* The iterator of a failed query: its number, the object whose generator it
\* served, the one it was made from, and as above.
Stray == [no : 0..MaxFaults, of : Ids, it : Nat, loose : BOOLEAN,
          state : {"ready", "waiting"}]

\* The type of every variable.
TypeOK ==
    /\ status \in [Msgs -> Status] /\ old \subseteq Msgs
    /\ objs \in [Ids -> Object] /\ strays \subseteq Stray
    /\ made \in 0..MaxObjects /\ cur \in 0..made
    /\ spawnInProgress \in BOOLEAN /\ crashRecoveryScheduled \in BOOLEAN
    /\ deleting \in 0..made
    /\ up \in BOOLEAN /\ recover \in BOOLEAN /\ sent \in 0..MaxMsgs
    /\ handed \subseteq Msgs /\ healed \subseteq Msgs /\ unread \subseteq Msgs
    /\ left \in BOOLEAN
    /\ faults \in 0..MaxFaults

\* An object as initializeSession makes it.
Fresh == [processingMessageIds |-> {}, aborted |-> FALSE, idleTimedOut |-> FALSE,
          consecutiveRestarts |-> 0, on |-> FALSE, by |-> "routes",
          agent |-> "claude", fb |-> 0, asked |-> <<>>, it |-> 0,
          cut |-> FALSE, loose |-> FALSE, state |-> "done"]

\* The worker starts on an empty table.
Init ==
    /\ status = [m \in Msgs |-> "none"] /\ old = {}
    /\ objs = [o \in Ids |-> Fresh] /\ strays = {} /\ made = 0 /\ cur = 0
    /\ spawnInProgress = FALSE /\ crashRecoveryScheduled = FALSE
    /\ deleting = 0
    /\ up = FALSE /\ recover = FALSE /\ sent = 0
    /\ handed = {} /\ healed = {} /\ unread = {} /\ left = FALSE
    /\ faults = 0

Fault == /\ faults < MaxFaults /\ sent + faults < MaxTotal
         /\ faults' = faults + 1

-----------------------------------------------------------------------------
(* Session objects and their controllers.                                  *)

\* initializeSession: the object in the map, made if there is none.
Current == IF cur = 0 THEN made + 1 ELSE cur
\* Mutant: the object in the map is not the one that was made.
InitializeNext == /\ cur = 0 => made < MaxObjects
                  /\ cur' = made + 1
                  /\ made' = IF cur = 0 THEN made + 1 ELSE made

Initialize == /\ cur = 0 => made < MaxObjects
              /\ cur' = Current
              /\ made' = IF cur = 0 THEN made + 1 ELSE made

\* abort() of o's controller: the iterators that hold it see it, a waiting
\* one at once.
Aborted(os, o) ==
    [i \in Ids |->
        LET hit == os[i].on /\ os[i].it = o /\ ~os[i].loose
        IN  [os[i] EXCEPT !.aborted = @ \/ i = o, !.cut = @ \/ hit,
                          !.state = IF hit /\ @ = "waiting" THEN "ready" ELSE @]]

\* o gets a new controller and nobody aborts the one it had.
Renewed(os, o) ==
    [i \in Ids |-> [os[i] EXCEPT !.aborted = @ /\ i # o,
                                 !.loose = @ \/ (os[i].on /\ os[i].it = o)]]

\* startSession of an agent, from the initial prompt.
Asking(x, agent) ==
    [x EXCEPT !.on = TRUE, !.agent = agent, !.asked = <<0>>, !.it = 0,
              !.cut = FALSE, !.loose = FALSE, !.state = "ready"]

\* A generator is started for o; an aborted controller is replaced.
Started(os, o, by, agent) ==
    [os EXCEPT ![o] = [Asking(@, agent) EXCEPT !.by = by, !.aborted = FALSE, !.fb = 0]]

Ended(os, o) ==
    [os EXCEPT ![o] = [Fresh EXCEPT !.processingMessageIds = os[o].processingMessageIds,
                                    !.aborted = os[o].aborted,
                                    !.idleTimedOut = os[o].idleTimedOut,
                                    !.consecutiveRestarts = os[o].consecutiveRestarts]]

\* Mutant: nobody is told.
WokenNobody(os, o) == os

\* The same for strays.  One that sees the abort returns.
StraysAborted(S, o) == {g \in S : g.it # o \/ g.loose}
StraysRenewed(S, o) == {[g EXCEPT !.loose = @ \/ g.it = o] : g \in S}
StraysWoken(S, o) == {[g EXCEPT !.state = IF g.it = o THEN "ready" ELSE @] : g \in S}

\* The generator of o is over and nothing returns the iterator that Claude's
\* query was given: if it was made and has not returned it is left behind.
StraysLeft(o) ==
    LET x == objs[o]
        no == CHOOSE k \in 0..MaxFaults : k = MaxFaults \/ \A g \in strays : g.no # k
    IN  IF x.agent = "claude" /\ x.it # 0 /\ ~x.cut /\ x.state # "done"
        THEN strays \cup {[no |-> no, of |-> o, it |-> x.it, loose |-> x.loose,
                           state |-> x.state]}
        ELSE strays

\* emit('message') on the emitter of o.
Woken(os, o) ==
    [i \in Ids |->
        IF os[i].on /\ os[i].it = o /\ os[i].state = "waiting"
        THEN [os[i] EXCEPT !.state = "ready"] ELSE os[i]]

\* ensureGeneratorRunning, for the object in the map.
EnsureGeneratorRunning(os, o) ==
    IF spawnInProgress \/ os[o].on
    THEN objs' = os /\ UNCHANGED <<spawnInProgress, left>>
    ELSE /\ \E a \in Agents : objs' = Started(os, o, "routes", a)
         /\ spawnInProgress' = TRUE /\ left' = FALSE

-----------------------------------------------------------------------------
(* Requests.                                                               *)

\* handleObservations, handleSummarize: the row is inserted, the iterator is
\* woken and a generator is there.
QueueMessage ==
    /\ up /\ sent < MaxMsgs /\ sent + faults < MaxTotal /\ Initialize
    /\ sent' = sent + 1 /\ status' = [status EXCEPT ![sent + 1] = "pending"]
    /\ EnsureGeneratorRunning(Woken(objs, Current), Current)
    /\ strays' = StraysWoken(strays, Current)
    /\ UNCHANGED <<old, crashRecoveryScheduled, deleting, up, recover, handed, healed,
                   unread, faults>>

\* handleSessionInit.
InitSession ==
    /\ up /\ Initialize
    /\ EnsureGeneratorRunning(objs, Current)
    /\ UNCHANGED <<queue, strays, crashRecoveryScheduled, deleting, up, recover, sent,
                   handed, healed, unread, faults>>

Waiting(rows) == {m \in Msgs : rows[m] \in {"pending", "processing"}}

\* processPendingQueues, at startup and on request.  The pending rows of a
\* session started more than 6 hours ago fail first.
ProcessPendingQueues(atStartup) ==
    /\ up /\ (atStartup => recover)
    /\ recover' = (recover /\ ~atStartup)
    /\ \E stale \in BOOLEAN :
           status' = [m \in Msgs |-> IF stale /\ status[m] = "pending" THEN "failed"
                                     ELSE status[m]]
    /\ IF Waiting(status') = {} \/ (cur # 0 /\ objs[cur].on)
       THEN UNCHANGED <<objs, made, cur, left>>
       ELSE /\ Initialize /\ left' = FALSE
            /\ \E a \in Agents : objs' = Started(objs, Current, "worker", a)
    /\ UNCHANGED <<old, strays, spawnInProgress, crashRecoveryScheduled, deleting, up, sent,
                   handed, healed, unread, faults>>

\* deleteSession: aborts, awaits the generator if there is one, and takes the
\* session out of the map.
DeleteSession ==
    /\ up /\ cur # 0 /\ deleting = 0 /\ Fault
    /\ objs' = Aborted(objs, cur) /\ strays' = StraysAborted(strays, cur)
    /\ IF objs[cur].on THEN deleting' = cur /\ UNCHANGED cur
                       ELSE cur' = 0 /\ UNCHANGED deleting
    /\ UNCHANGED <<queue, made, spawnInProgress, crashRecoveryScheduled, up, recover,
                   sent, handed, healed, unread, left>>

-----------------------------------------------------------------------------
(* The iterator.                                                           *)

\* More than 60 s pass.
Age(m) ==
    /\ up /\ status[m] = "processing" /\ m \notin old
    /\ old' = old \cup {m}
    /\ UNCHANGED <<status, session, deleting, up, recover, sent, handed,
                   healed, unread, left, faults>>

\* An agent pulls its iterator: what it was made from, and its signal.
CanPull(o) ==
    /\ objs[o].on /\ objs[o].state = "ready" /\ Len(objs[o].asked) < MaxAsked
    /\ objs[o].agent = "claude" \/ objs[o].asked = <<>>

\* getMessageIterator makes the iterator, from the object in the map by then.
Iterating(o) ==
    IF objs[o].it # 0 THEN objs
    ELSE [objs EXCEPT ![o].it = Current, ![o].cut = objs[Current].aborted]

\* claimNextMessage: stale rows are pending again, the first pending one is taken.
SelfHealed == {m \in Msgs : status[m] = "processing" /\ m \in old}

Claimable == {m \in Msgs : status[m] = "pending"} \cup SelfHealed
FirstOf(S) == CHOOSE m \in S : \A n \in S : m <= n

\* Mutant: the row is read but not marked.
ClaimedUnmarked(m) ==
    [n \in Msgs |-> IF n \in SelfHealed THEN "pending" ELSE status[n]]

Claimed(m) ==
    [n \in Msgs |-> IF n = m THEN "processing"
                    ELSE IF n \in SelfHealed THEN "pending" ELSE status[n]]

\* The loop ends, a message is yielded, or the queue is empty.
Pull(o) ==
    /\ CanPull(o)
    /\ IF objs[o].it # 0 THEN UNCHANGED <<made, cur>> ELSE Initialize
    /\ LET os == Iterating(o)
       IN  IF os[o].cut
           THEN /\ objs' = [os EXCEPT ![o].state = "done"]
                /\ UNCHANGED <<queue, handed, healed>>
           ELSE IF Claimable = {}
           THEN /\ objs' = [os EXCEPT ![o].state = "waiting"]
                /\ UNCHANGED <<queue, handed, healed>>
           ELSE LET m == FirstOf(Claimable)
                IN  /\ status' = Claimed(m)
                    /\ old' = (old \ SelfHealed) \ {m}
                    /\ objs' = [os EXCEPT ![o].processingMessageIds = @ \cup {m},
                                          ![o].asked = Append(@, m)]
                    /\ handed' = handed \cup {m} /\ healed' = healed \cup SelfHealed
    /\ UNCHANGED <<strays, spawnInProgress, crashRecoveryScheduled, deleting, up, recover,
                   sent, unread, left, faults>>

\* 3 minutes without a message: the object is aborted, the iterator returns.
IdleTimeout(o) ==
    /\ objs[o].on /\ objs[o].state = "waiting"
    /\ objs' = [Aborted(objs, objs[o].it) EXCEPT ![o].state = "done",
                                                 ![objs[o].it].idleTimedOut = TRUE]
    /\ strays' = StraysAborted(strays, objs[o].it)
    /\ UNCHANGED <<queue, made, cur, spawnInProgress, crashRecoveryScheduled, deleting, up,
                   recover, sent, handed, healed, unread, left, faults>>

\* A stray that was woken, or was pulled before its query failed: it waits, or it
\* claims a message and has its object track it.  What it yields is written to
\* the process of the query, which is closed; the write throws, and that returns
\* the iterator (streamInput of the SDK, as bundled).
StrayPull(g) ==
    /\ g.state = "ready"
    /\ IF Claimable = {}
       THEN /\ strays' = (strays \ {g}) \cup {[g EXCEPT !.state = "waiting"]}
            /\ UNCHANGED <<queue, objs, healed, unread, left>>
       ELSE LET m == FirstOf(Claimable)
            IN  /\ status' = Claimed(m)
                /\ old' = (old \ SelfHealed) \ {m}
                /\ objs' = [objs EXCEPT ![g.of].processingMessageIds = @ \cup {m}]
                /\ healed' = healed \cup SelfHealed /\ unread' = unread \cup {m}
                /\ strays' = strays \ {g}
                /\ left' = (left \/ SelfHealed \ {m} # {})
    /\ UNCHANGED <<made, cur, spawnInProgress, crashRecoveryScheduled, deleting, up,
                   recover, sent, handed, faults>>

\* 3 minutes without a message: it aborts the controller its object has by now.
StrayIdle(g) ==
    /\ g.state = "waiting"
    /\ objs' = [Aborted(objs, g.it) EXCEPT ![g.it].idleTimedOut = TRUE]
    /\ strays' = StraysAborted(strays, g.it) \ {g}
    /\ UNCHANGED <<queue, made, cur, spawnInProgress, crashRecoveryScheduled, deleting, up,
                   recover, sent, handed, healed, unread, left, faults>>

-----------------------------------------------------------------------------
(* The agents.                                                             *)

\* Mutant: every row of the session is confirmed.
ConfirmedAll(o) == [m \in Msgs |-> IF status[m] = "none" THEN "none" ELSE "deleted"]

\* confirmProcessed of every message the object tracks.
Confirmed(o) ==
    [m \in Msgs |-> IF m \in objs[o].processingMessageIds THEN "deleted" ELSE status[m]]

\* processAgentResponse: what was answered is stored, then every message the
\* object tracks is deleted.
Respond(o) ==
    /\ objs[o].on /\ objs[o].asked # <<>>
    /\ status' = Confirmed(o)
    /\ old' = {m \in old : status'[m] = "processing"}
    /\ objs' = [objs EXCEPT ![o].asked = Tail(@), ![o].processingMessageIds = {}]
    /\ UNCHANGED <<strays, made, cur, spawnInProgress, crashRecoveryScheduled, deleting,
                   up, recover, sent, handed, healed, unread, left, faults>>

\* An empty answer is skipped by Gemini, and by OpenRouter for the first prompt.
RespondEmpty(o) ==
    /\ objs[o].on /\ objs[o].asked # <<>>
    /\ Fault
    /\ \/ objs[o].agent = "gemini"
       \/ objs[o].agent = "openrouter" /\ Head(objs[o].asked) = 0
    /\ objs' = [objs EXCEPT ![o].asked = Tail(@)]
    /\ UNCHANGED <<queue, strays, made, cur, spawnInProgress, crashRecoveryScheduled,
                   deleting, up, recover, sent, handed, healed, unread, left>>

-----------------------------------------------------------------------------
(* The end of a generator: the catch and the finally of its promise.       *)

\* The promise settles, and the deletion that awaits it goes on at once.
Settle(o) == IF deleting = o THEN cur' = 0 /\ deleting' = 0
             ELSE UNCHANGED <<cur, deleting>>

Failing(S) == [m \in Msgs |-> IF status[m] \in S THEN "failed" ELSE status[m]]

\* Started by the routes: an error fails what is being processed; unless it
\* was aborted, it is restarted by a timer while rows are left, a few times.
RoutesEnd(o, thrown) ==
    /\ objs[o].by = "routes"
    /\ LET aborted == objs[o].aborted
           rows == IF thrown /\ ~aborted THEN Failing({"processing"}) ELSE status
           more == Waiting(rows) # {}
           n == objs[o].consecutiveRestarts + 1
           os == Ended(objs, o)
           ss == StraysLeft(o)
       IN  /\ status' = rows /\ old' = {m \in old : rows[m] = "processing"}
           /\ spawnInProgress' = FALSE
           /\ \/ /\ aborted
                 /\ objs' = os /\ strays' = ss
                 /\ left' = more /\ UNCHANGED crashRecoveryScheduled
              \/ /\ ~aborted /\ more /\ crashRecoveryScheduled
                 /\ objs' = os /\ strays' = ss
                 /\ UNCHANGED <<crashRecoveryScheduled, left>>
              \/ /\ ~aborted /\ more /\ ~crashRecoveryScheduled /\ n > MaxRestarts
                 /\ objs' = [Aborted(os, o) EXCEPT ![o].consecutiveRestarts = n]
                 /\ strays' = StraysAborted(ss, o)
                 /\ left' = TRUE /\ UNCHANGED crashRecoveryScheduled
              \/ /\ ~aborted /\ more /\ ~crashRecoveryScheduled /\ n <= MaxRestarts
                 /\ objs' = [Aborted(os, o) EXCEPT ![o].consecutiveRestarts = n,
                                                   ![o].aborted = FALSE]
                 /\ strays' = StraysAborted(ss, o)
                 /\ crashRecoveryScheduled' = TRUE /\ UNCHANGED left
              \/ /\ ~aborted /\ ~more
                 /\ objs' = [Aborted(os, o) EXCEPT ![o].consecutiveRestarts = 0]
                 /\ strays' = StraysAborted(ss, o)
                 /\ UNCHANGED <<crashRecoveryScheduled, left>>
    /\ Settle(o)
    /\ UNCHANGED <<made, up, recover, sent, handed, healed, unread>>

\* The timer of the routes.
CrashRecovery ==
    /\ crashRecoveryScheduled /\ crashRecoveryScheduled' = FALSE
    /\ IF cur # 0 /\ ~objs[cur].on
       THEN /\ \E a \in Agents : objs' = Started(objs, cur, "routes", a)
            /\ left' = FALSE
       ELSE /\ UNCHANGED objs
            /\ left' = \/ left
                       \/ Waiting(status) # {} /\ (cur = 0 \/ objs[cur].state = "waiting")
    /\ UNCHANGED <<queue, strays, made, cur, spawnInProgress, deleting, up, recover, sent,
                   handed, healed, unread, faults>>

\* Started by the worker: it is restarted at once while rows are left, unless
\* it was idle.
WorkerEnd(o) ==
    /\ objs[o].by = "worker"
    /\ LET os == Ended(objs, o)
           more == Waiting(status) # {}
       IN  IF objs[o].idleTimedOut
           THEN /\ objs' = [os EXCEPT ![o].idleTimedOut = FALSE] /\ left' = more
                /\ strays' = StraysLeft(o)
           ELSE IF more
           THEN /\ \E a \in Agents : objs' = Started(Renewed(os, o), o, "worker", a)
                /\ strays' = StraysRenewed(StraysLeft(o), o) /\ UNCHANGED left
           ELSE objs' = os /\ strays' = StraysLeft(o) /\ UNCHANGED left
    /\ Settle(o)
    /\ UNCHANGED <<queue, made, spawnInProgress, crashRecoveryScheduled, up, recover, sent,
                   handed, healed, unread>>

\* An error that a restart would meet again.
WorkerGivesUp(o) ==
    /\ objs[o].by = "worker" /\ objs[o].fb = 0
    /\ objs' = Ended(objs, o) /\ strays' = StraysLeft(o)
    /\ left' = (Waiting(status) # {})
    /\ Settle(o)
    /\ UNCHANGED <<queue, made, spawnInProgress, crashRecoveryScheduled, up, recover, sent,
                   handed, healed, unread>>

\* runFallbackForTerminatedSession: the next configured agent is asked ...
Fallback(o) ==
    /\ objs[o].by = "worker" /\ objs[o].fb < Len(Fallbacks)
    /\ LET k == objs[o].fb + 1
       IN  objs' = [objs EXCEPT ![o] = [Asking(@, Fallbacks[k]) EXCEPT !.fb = k]]
    /\ strays' = StraysLeft(o)
    /\ UNCHANGED <<queue, made, cur, spawnInProgress, crashRecoveryScheduled, deleting, up,
                   recover, sent, handed, healed, unread, left>>

\* ... and when none is left the rows are abandoned and the session removed.
Abandon(o) ==
    /\ objs[o].by = "worker" /\ objs[o].fb = Len(Fallbacks)
    /\ status' = Failing({"pending", "processing"}) /\ old' = {}
    /\ objs' = [Ended(objs, o) EXCEPT ![o].idleTimedOut = FALSE]
    /\ strays' = StraysLeft(o)
    /\ cur' = 0 /\ deleting' = IF deleting = o THEN 0 ELSE deleting
    /\ UNCHANGED <<made, spawnInProgress, crashRecoveryScheduled, up, recover, sent,
                   handed, healed, unread, left>>

\* The agent returns: its iterator has and everything is answered, or Claude's
\* process is ended by the controller.
Return(o) ==
    /\ objs[o].on
    /\ \/ objs[o].state = "done" /\ objs[o].asked = <<>>
       \/ objs[o].agent = "claude" /\ objs[o].aborted
    /\ RoutesEnd(o, FALSE) \/ WorkerEnd(o)
    /\ UNCHANGED faults

\* The agent throws; a fallback's error only leads to the next one.
Throw(o) ==
    /\ objs[o].on /\ Fault
    /\ objs[o].agent = "claude" \/ objs[o].asked # <<>>
    /\ \/ RoutesEnd(o, TRUE)
       \/ objs[o].fb = 0 /\ WorkerEnd(o)
       \/ WorkerGivesUp(o) \/ Fallback(o) \/ Abandon(o)

\* Claude's context is full: the controller is aborted and the agent returns.
Overflow(o) ==
    /\ objs[o].on /\ objs[o].agent = "claude" /\ objs[o].asked # <<>> /\ ~objs[o].aborted
    /\ Fault
    /\ objs' = [Aborted(objs, o) EXCEPT ![o].asked = <<>>]
    /\ strays' = StraysAborted(strays, o)
    /\ UNCHANGED <<queue, made, cur, spawnInProgress, crashRecoveryScheduled, deleting, up,
                   recover, sent, handed, healed, unread, left>>

-----------------------------------------------------------------------------
(* The worker process.                                                     *)

Crash ==
    /\ up /\ Fault
    /\ up' = FALSE /\ recover' = FALSE
    /\ objs' = [o \in Ids |-> Fresh] /\ strays' = {} /\ made' = 0 /\ cur' = 0
    /\ spawnInProgress' = FALSE /\ crashRecoveryScheduled' = FALSE
    /\ deleting' = 0
    /\ UNCHANGED <<queue, sent, handed, healed, unread, left>>

\* Mutant: the worker starts without recovery.
StartOnly ==
    /\ ~up /\ up' = TRUE /\ recover' = FALSE
    /\ status' = [m \in Msgs |-> IF status[m] = "processing" THEN "pending" ELSE status[m]]
    /\ old' = {}
    /\ UNCHANGED <<session, deleting, sent, handed, healed, unread, left, faults>>

\* initializeBackground: every processing row is pending again, the routes are
\* open and the recovery comes.
Start ==
    /\ ~up /\ up' = TRUE /\ recover' = TRUE
    /\ status' = [m \in Msgs |-> IF status[m] = "processing" THEN "pending" ELSE status[m]]
    /\ old' = {}
    /\ UNCHANGED <<session, deleting, sent, handed, healed, unread, left, faults>>

-----------------------------------------------------------------------------
Next ==
    \/ QueueMessage \/ InitSession \/ DeleteSession
    \/ ProcessPendingQueues(TRUE) \/ ProcessPendingQueues(FALSE)
    \/ CrashRecovery \/ Crash \/ Start
    \/ \E m \in Msgs : Age(m)
    \/ \E o \in Ids : \/ Pull(o) \/ IdleTimeout(o) \/ Respond(o) \/ RespondEmpty(o)
                       \/ Return(o) \/ Throw(o) \/ Overflow(o)
    \/ \E g \in strays : StrayPull(g) \/ StrayIdle(g)

Spec == Init /\ [][Next]_vars

\* Each agent pulls, answers and returns; timers fire, and the worker is
\* started again and recovers.
Works(o) == Pull(o) \/ Respond(o) \/ Return(o)
Recovers == Start \/ ProcessPendingQueues(TRUE) \/ CrashRecovery

FairSpec == /\ Spec /\ WF_vars(Recovers)
            /\ \A o \in Ids : WF_vars(Works(o))

-----------------------------------------------------------------------------
(* Properties.                                                             *)

\* No two prompts that await their answer carry the same message, whichever
\* generators hold them, unless it was self-healed after 60 s
\* (SessionQueueProcessor.ts: "Uses atomic claim-confirm to prevent duplicates").
HeldOnce ==
    \A m \in Msgs \ healed : \A o, p \in Ids :
        \A i \in DOMAIN objs[o].asked, j \in DOMAIN objs[p].asked :
            objs[o].asked[i] = m /\ objs[p].asked[j] = m => o = p /\ i = j

\* No message leaves the table before an agent was given it, with one exception
\* that the code has: a message the iterator of a failed Claude query claimed.
\* That is tracked by its session object like any other, so the next answer to
\* the object deletes it although no agent saw it (SDKAgent.ts on the claim:
\* "'processing' status in DB until ResponseProcessor calls confirmProcessed()").
GoneWasHanded == \A m \in Msgs : status[m] = "deleted" => m \in handed \cup unread

\* The routes take a generator for granted that does not serve the session in
\* the map: the object it was started for was taken out, by session id.
Misled == spawnInProgress /\ (cur = 0 \/ ~objs[cur].on)

\* A pending message has somebody who will look at it: the recovery to come,
\* the timer of the routes, or a generator that does not wait for a message
\* already in the table.  Excepted is what the code leaves behind (left): the last
\* generator to end was told to stop with rows left (an abort, the restart limit,
\* an unrecoverable error), the timer of the routes found no session or a
\* generator that waits, or the iterator of a failed query made stale rows
\* pending again; and the time in which the routes are misled
\* (worker-service.ts on the fallback: "instead of leaving pending messages
\* stuck forever").
Attended ==
    up /\ (\E m \in Msgs : status[m] = "pending") =>
        \/ recover \/ crashRecoveryScheduled \/ left \/ Misled
        \/ \E o \in Ids : objs[o].on /\ objs[o].state # "waiting"

\* A message is deleted by the answer to its own prompt (PendingMessageStore.ts
\* on confirmProcessed: "Only call this AFTER the observation/summary has been
\* stored to DB. This prevents message loss on generator crash").
ConfirmsTheAnswered ==
    [][\A m \in Msgs : status[m] # "deleted" /\ status'[m] = "deleted" =>
           \E o \in Ids : /\ objs[o].asked # <<>> /\ Head(objs[o].asked) = m
                         /\ objs'[o].asked = Tail(objs[o].asked)]_vars

\* Pending messages do not wait for ever unless they were left, in one of the
\* ways Attended lists, or the routes are misled: a crash, an error or a restart
\* of the worker is followed by a generator that takes them
\* (initializeBackground, the finally of a generator, the timer of the routes).
Drains == <>[](left \/ Misled \/ \A m \in Msgs : status[m] # "pending")
=============================================================================
