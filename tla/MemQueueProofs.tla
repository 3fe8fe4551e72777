--------------------------- MODULE MemQueueProofs ---------------------------
(***************************************************************************)
(* Proofs about the message queue of the memory worker.  Every step acts   *)
(* on session objects through a few operators; what each of them does to   *)
(* an object is a lemma, so that the invariants need not expand records.   *)
(***************************************************************************)
EXTENDS MemQueue, SequenceTheorems, NaturalsInduction, WellFoundedInduction, TLAPS

Objects == [Ids -> Object]

\* What the invariants read of an object: the messages it tracks, the prompts
\* its generator was asked, whether there is one, its iterator and its state;
\* y became x: at most a waiting iterator was woken.
Calm(x, y) == /\ x.processingMessageIds = y.processingMessageIds
              /\ x.asked = y.asked /\ x.on = y.on /\ x.it = y.it
              /\ x.state # y.state => y.state = "waiting" /\ x.state = "ready"

-----------------------------------------------------------------------------
(* The operators on session objects.                                       *)

LEMMA BoundsTypes == /\ MaxObjects \in Nat /\ MaxObjects >= 1
                     /\ Ids \subseteq Nat /\ 0 \notin Ids
                     /\ Msgs \subseteq Nat /\ 0 \notin Msgs
  BY MemBounds DEF MaxObjects, Ids, Msgs

\* initializeSession makes an object nobody uses.
LEMMA FreshFacts == /\ Fresh \in Object /\ Fresh.processingMessageIds = {}
                    /\ Fresh.asked = <<>> /\ ~Fresh.on /\ Fresh.it = 0
                    /\ Fresh.state = "done"
  BY DEF Fresh, Object

\* abort() only wakes waiting iterators.
LEMMA AbortedFacts ==
  ASSUME NEW os \in Objects, NEW o
  PROVE  /\ Aborted(os, o) \in Objects
         /\ \A i \in Ids : Calm(Aborted(os, o)[i], os[i])
  <1>1. ASSUME NEW i \in Ids
        PROVE  /\ Aborted(os, o)[i] \in Object
               /\ Calm(Aborted(os, o)[i], os[i])
    <2>1. os[i] \in Object  BY DEF Objects
    <2> QED  BY <2>1 DEF Aborted, Object, Calm
  <1> QED  BY <1>1 DEF Aborted, Objects

\* A new controller leaves what generators do alone.
LEMMA RenewedFacts ==
  ASSUME NEW os \in Objects, NEW o
  PROVE  /\ Renewed(os, o) \in Objects
         /\ \A i \in Ids : Calm(Renewed(os, o)[i], os[i])
  <1>1. ASSUME NEW i \in Ids
        PROVE  /\ Renewed(os, o)[i] \in Object
               /\ Calm(Renewed(os, o)[i], os[i])
    <2>1. os[i] \in Object  BY DEF Objects
    <2> QED  BY <2>1 DEF Renewed, Object, Calm
  <1> QED  BY <1>1 DEF Renewed, Objects

\* startSession asks the initial prompt of a generator that may be pulled.
LEMMA AskingFacts ==
  ASSUME NEW x \in Object, NEW a \in {"claude", "gemini", "openrouter"}
  PROVE  LET y == Asking(x, a)
         IN  /\ y \in Object /\ y.processingMessageIds = x.processingMessageIds
             /\ y.asked = <<0>> /\ y.on /\ y.it = 0 /\ y.state = "ready"
             /\ y.fb = x.fb
  <1>1. <<0>> \in Seq(0..MaxMsgs)  BY MemBounds
  <1> QED  BY <1>1 DEF Asking, Object

LEMMA StartedFacts ==
  ASSUME NEW os \in Objects, NEW o \in Ids, NEW by \in {"routes", "worker"},
         NEW a \in Agents
  PROVE  LET r == Started(os, o, by, a)
         IN  /\ r \in Objects
             /\ r[o].processingMessageIds = os[o].processingMessageIds
             /\ r[o].asked = <<0>> /\ r[o].on /\ r[o].it = 0 /\ r[o].state = "ready"
             /\ \A i \in Ids \ {o} : r[i] = os[i]
  <1>1. os[o] \in Object  BY DEF Objects
  <1>2. a \in {"claude", "gemini", "openrouter"}  BY MemAgents
  <1> DEFINE y == Asking(os[o], a)
             z == [y EXCEPT !.by = by, !.aborted = FALSE, !.fb = 0]
  <1>3. /\ y \in Object /\ y.processingMessageIds = os[o].processingMessageIds
        /\ y.asked = <<0>> /\ y.on /\ y.it = 0 /\ y.state = "ready"
    BY <1>1, <1>2, AskingFacts
  <1>4. Started(os, o, by, a) = [os EXCEPT ![o] = z]  BY DEF Started
  <1> HIDE DEF y
  <1>5. /\ z \in Object /\ z.processingMessageIds = os[o].processingMessageIds
        /\ z.asked = <<0>> /\ z.on /\ z.it = 0 /\ z.state = "ready"
    BY <1>3 DEF Object
  <1> HIDE DEF z
  <1> QED  BY <1>4, <1>5 DEF Objects

\* The end of a generator clears its prompts and its iterator; the object still
\* tracks the messages it was given.
LEMMA EndedFacts ==
  ASSUME NEW os \in Objects, NEW o \in Ids
  PROVE  LET r == Ended(os, o)
         IN  /\ r \in Objects
             /\ r[o].processingMessageIds = os[o].processingMessageIds
             /\ r[o].asked = <<>> /\ ~r[o].on /\ r[o].it = 0 /\ r[o].state = "done"
             /\ \A i \in Ids \ {o} : r[i] = os[i]
  <1>1. os[o] \in Object  BY DEF Objects
  <1> DEFINE z == [Fresh EXCEPT !.processingMessageIds = os[o].processingMessageIds,
                                !.aborted = os[o].aborted,
                                !.idleTimedOut = os[o].idleTimedOut,
                                !.consecutiveRestarts = os[o].consecutiveRestarts]
  <1>2. /\ z \in Object /\ z.processingMessageIds = os[o].processingMessageIds
        /\ z.asked = <<>> /\ ~z.on /\ z.it = 0 /\ z.state = "done"
    BY <1>1, FreshFacts DEF Object, Fresh
  <1>3. Ended(os, o) = [os EXCEPT ![o] = z]  BY DEF Ended
  <1> HIDE DEF z
  <1> QED  BY <1>2, <1>3 DEF Objects

\* emit('message') makes the iterators that wait on o ready, and nothing else.
LEMMA WokenFacts ==
  ASSUME NEW os \in Objects, NEW o
  PROVE  /\ Woken(os, o) \in Objects
         /\ \A i \in Ids :
               /\ Calm(Woken(os, o)[i], os[i])
               /\ os[i].on /\ os[i].it = o => Woken(os, o)[i].state # "waiting"
  <1>1. ASSUME NEW i \in Ids
        PROVE  /\ Woken(os, o)[i] \in Object
               /\ Calm(Woken(os, o)[i], os[i])
               /\ os[i].on /\ os[i].it = o => Woken(os, o)[i].state # "waiting"
    <2>1. os[i] \in Object  BY DEF Objects
    <2> QED  BY <2>1 DEF Woken, Object, Calm
  <1> QED  BY <1>1 DEF Woken, Objects

\* The first of a nonempty set of messages is one of them.
LEMMA FirstOfIn ==
  ASSUME NEW S \in SUBSET Nat, S # {}
  PROVE  FirstOf(S) \in S
  <1> DEFINE R == {ss \in Nat \X Nat : ss[1] < ss[2]}
  <1>1. IsWellFoundedOn(R, Nat)  BY NatLessThanWellFounded DEF OpToRel
  <1> HIDE DEF R
  <1>2. PICK x \in S : \A y \in S : ~(<<y, x>> \in R)  BY <1>1, WFMin
  <1>3. ASSUME NEW y \in S  PROVE  x <= y
    <2>1. x \in Nat /\ y \in Nat  OBVIOUS
    <2>2. y < x => <<y, x>> \in R  BY <2>1, Zenon DEF R
    <2> QED  BY <1>2, <2>1, <2>2
  <1> QED  BY <1>3 DEF FirstOf

\* The restart counter and the flags of an object.
LEMMA FlagsFacts ==
  ASSUME NEW os \in Objects, NEW o, NEW n \in Nat, NEW b \in BOOLEAN
  PROVE  /\ [os EXCEPT ![o].consecutiveRestarts = n] \in Objects
         /\ \A i \in Ids : Calm([os EXCEPT ![o].consecutiveRestarts = n][i], os[i])
         /\ [os EXCEPT ![o].aborted = b] \in Objects
         /\ \A i \in Ids : Calm([os EXCEPT ![o].aborted = b][i], os[i])
         /\ [os EXCEPT ![o].idleTimedOut = b] \in Objects
         /\ \A i \in Ids : Calm([os EXCEPT ![o].idleTimedOut = b][i], os[i])
  <1>1. ASSUME NEW i \in Ids
        PROVE  /\ [os EXCEPT ![o].consecutiveRestarts = n][i] \in Object
               /\ Calm([os EXCEPT ![o].consecutiveRestarts = n][i], os[i])
               /\ [os EXCEPT ![o].aborted = b][i] \in Object
               /\ Calm([os EXCEPT ![o].aborted = b][i], os[i])
               /\ [os EXCEPT ![o].idleTimedOut = b][i] \in Object
               /\ Calm([os EXCEPT ![o].idleTimedOut = b][i], os[i])
    <2>1. os[i] \in Object  BY DEF Objects
    <2>2. CASE i = o  BY <2>1, <2>2 DEF Object, Objects, Calm
    <2>3. CASE i # o  BY <2>1, <2>3 DEF Object, Objects, Calm
    <2> QED  BY <2>2, <2>3
  <1> QED  BY <1>1 DEF Objects

LEMMA CalmTwice ==
  ASSUME NEW x, NEW y, NEW z, Calm(x, y), Calm(y, z)
  PROVE  Calm(x, z)
  BY DEF Calm

-----------------------------------------------------------------------------
(* What each step does to the objects, and that it keeps the types.        *)

AllCalm == \A i \in Ids : Calm(objs'[i], objs[i])
OthersCalm(o) == \A i \in Ids \ {o} : Calm(objs'[i], objs[i])

\* A generator is started for o, or o's ends.
StartsAt(o) ==
    /\ objs'[o].processingMessageIds = objs[o].processingMessageIds
    /\ objs'[o].asked = <<0>> /\ objs'[o].on /\ objs'[o].it = 0
    /\ objs'[o].state = "ready"
    /\ OthersCalm(o)
EndsAt(o) ==
    /\ objs'[o].processingMessageIds = objs[o].processingMessageIds
    /\ objs'[o].asked = <<>> /\ ~objs'[o].on
    /\ OthersCalm(o)

LEMMA CalmSelf == \A x : Calm(x, x)
  BY DEF Calm

LEMMA InitializeFacts ==
  ASSUME TypeOK, Initialize
  PROVE  /\ Current \in Ids /\ cur' = Current /\ made' \in 0..MaxObjects
         /\ cur' \in 0..made' /\ deleting \in 0..made' /\ made <= made'
         /\ cur = 0 => Current = made + 1 /\ made' = made + 1
         /\ cur # 0 => Current = cur /\ made' = made
  BY BoundsTypes DEF TypeOK, Initialize, Current, Ids

LEMMA TypeFacts ==
  ASSUME TypeOK
  PROVE  /\ objs \in Objects /\ \A o \in Ids : objs[o] \in Object
         /\ cur # 0 => cur \in Ids
  BY BoundsTypes DEF TypeOK, Objects, Ids

\* What a failed query leaves behind, and what happens to it.
LEMMA StraysTypes ==
  ASSUME NEW S \in SUBSET Stray, NEW o
  PROVE  /\ StraysAborted(S, o) \in SUBSET Stray
         /\ StraysRenewed(S, o) \in SUBSET Stray
         /\ StraysWoken(S, o) \in SUBSET Stray
  <1>1. ASSUME NEW g \in S
        PROVE  /\ [g EXCEPT !.loose = @ \/ g.it = o] \in Stray
               /\ [g EXCEPT !.state = IF g.it = o THEN "ready" ELSE @] \in Stray
    BY DEF Stray
  <1> QED  BY <1>1 DEF StraysAborted, StraysRenewed, StraysWoken

LEMMA StraysLeftTypes ==
  ASSUME TypeOK, NEW o \in Ids
  PROVE  StraysLeft(o) \in SUBSET Stray
  <1> DEFINE x == objs[o]
             Free(k) == k = MaxFaults \/ \A g \in strays : g.no # k
             no == CHOOSE k \in 0..MaxFaults : Free(k)
             g0 == [no |-> no, of |-> o, it |-> x.it, loose |-> x.loose,
                    state |-> x.state]
  <1>1. x \in Object  BY TypeFacts
  <1>2. no \in 0..MaxFaults
    <2>1. MaxFaults \in 0..MaxFaults /\ Free(MaxFaults)  BY MemBounds
    <2> HIDE DEF Free
    <2> QED  BY <2>1
  <1>3. x.state # "done" => g0 \in Stray
    <2> HIDE DEF no, x
    <2> QED  BY <1>1, <1>2 DEF Stray, Object
  <1>4. strays \subseteq Stray  BY DEF TypeOK
  <1>5. StraysLeft(o) = IF x.agent = "claude" /\ x.it # 0 /\ ~x.cut /\ x.state # "done"
                        THEN strays \cup {g0} ELSE strays
    BY DEF StraysLeft
  <1> HIDE DEF g0
  <1> QED  BY <1>3, <1>4, <1>5

LEMMA StraysKept ==
  ASSUME TypeOK,
         \/ QueueMessage \/ DeleteSession
         \/ \E o \in Ids : \/ IdleTimeout(o) \/ Overflow(o) \/ WorkerEnd(o)
                           \/ WorkerGivesUp(o) \/ Fallback(o) \/ Abandon(o)
                           \/ \E thrown \in BOOLEAN : RoutesEnd(o, thrown)
  PROVE  strays' \subseteq Stray
  <1>1. strays \in SUBSET Stray  BY DEF TypeOK
  <1>2. CASE QueueMessage  BY <1>1, <1>2, StraysTypes DEF QueueMessage
  <1>3. CASE DeleteSession  BY <1>1, <1>3, StraysTypes DEF DeleteSession
  <1>4. ASSUME NEW o \in Ids, IdleTimeout(o) \/ Overflow(o)  PROVE  strays' \subseteq Stray
    <2>1. strays' \in {StraysAborted(strays, objs[o].it), StraysAborted(strays, o)}
      BY <1>4 DEF IdleTimeout, Overflow
    <2> QED  BY <1>1, <2>1, StraysTypes
  <1>5. ASSUME NEW o \in Ids
        PROVE  /\ StraysLeft(o) \in SUBSET Stray
               /\ StraysAborted(StraysLeft(o), o) \in SUBSET Stray
               /\ StraysRenewed(StraysLeft(o), o) \in SUBSET Stray
    BY StraysLeftTypes, StraysTypes
  <1>6. ASSUME NEW o \in Ids, WorkerEnd(o)  PROVE  strays' \subseteq Stray
    <2>1. strays' \in {StraysLeft(o), StraysRenewed(StraysLeft(o), o)}
      BY <1>6 DEF WorkerEnd
    <2> QED  BY <1>5, <2>1
  <1>7. ASSUME NEW o \in Ids, WorkerGivesUp(o) \/ Fallback(o) \/ Abandon(o)
        PROVE  strays' \subseteq Stray
    <2>1. strays' = StraysLeft(o)  BY <1>7 DEF WorkerGivesUp, Fallback, Abandon
    <2> QED  BY <1>5, <2>1
  <1>8. ASSUME NEW o \in Ids, NEW thrown \in BOOLEAN, RoutesEnd(o, thrown)
        PROVE  strays' \subseteq Stray
    <2>1. strays' \in {StraysLeft(o), StraysAborted(StraysLeft(o), o)}
      BY <1>8 DEF RoutesEnd
    <2> QED  BY <1>5, <2>1
  <1> QED  BY <1>2, <1>3, <1>4, <1>6, <1>7, <1>8

LEMMA EnsureFacts ==
  ASSUME TypeOK, NEW os \in Objects, \A i \in Ids : Calm(os[i], objs[i]),
         NEW o \in Ids, EnsureGeneratorRunning(os, o)
  PROVE  /\ objs' \in Objects /\ spawnInProgress' \in BOOLEAN /\ left' \in BOOLEAN
         /\ \/ /\ objs' = os /\ spawnInProgress' = spawnInProgress /\ left' = left
               /\ spawnInProgress \/ objs[o].on
            \/ StartsAt(o)
  <1>1. CASE spawnInProgress \/ os[o].on
    BY <1>1 DEF EnsureGeneratorRunning, TypeOK, Calm
  <1>2. CASE ~(spawnInProgress \/ os[o].on)
    <2>1. PICK a \in Agents : objs' = Started(os, o, "routes", a)
      BY <1>2 DEF EnsureGeneratorRunning
    <2>2. spawnInProgress' = TRUE /\ left' = FALSE
      BY <1>2 DEF EnsureGeneratorRunning
    <2>3. /\ objs' \in Objects
          /\ objs'[o].processingMessageIds = os[o].processingMessageIds
          /\ objs'[o].asked = <<0>> /\ objs'[o].on /\ objs'[o].it = 0
          /\ objs'[o].state = "ready"
          /\ \A i \in Ids \ {o} : objs'[i] = os[i]
      BY <2>1, StartedFacts, "routes" \in {"routes", "worker"}
    <2>4. OthersCalm(o)  BY <2>3 DEF OthersCalm
    <2>5. os[o].processingMessageIds = objs[o].processingMessageIds  BY DEF Calm
    <2> QED  BY <2>2, <2>3, <2>4, <2>5 DEF StartsAt
  <1> QED  BY <1>1, <1>2

LEMMA QueueMessageFacts ==
  ASSUME TypeOK, QueueMessage
  PROVE  /\ TypeOK' /\ Initialize /\ Current \in Ids
         /\ \/ /\ AllCalm /\ spawnInProgress' = spawnInProgress
               /\ spawnInProgress \/ objs[Current].on
               /\ objs[Current].on /\ objs[Current].it = Current =>
                      objs'[Current].state # "waiting"
            \/ StartsAt(Current)
  <1>1. /\ sent < MaxMsgs /\ Initialize /\ sent' = sent + 1
        /\ status' = [status EXCEPT ![sent + 1] = "pending"]
        /\ EnsureGeneratorRunning(Woken(objs, Current), Current)
        /\ UNCHANGED <<old, crashRecoveryScheduled, deleting, up, recover, handed,
                       healed, unread, faults>>
    BY DEF QueueMessage
  <1>2. /\ Current \in Ids /\ made' \in 0..MaxObjects /\ cur' \in 0..made'
        /\ deleting \in 0..made'
    BY <1>1, InitializeFacts
  <1>3. objs \in Objects  BY TypeFacts
  <1> DEFINE os == Woken(objs, Current)
  <1>4. /\ os \in Objects /\ \A i \in Ids : Calm(os[i], objs[i])
        /\ objs[Current].on /\ objs[Current].it = Current => os[Current].state # "waiting"
    BY <1>2, <1>3, WokenFacts
  <1>5. EnsureGeneratorRunning(os, Current)  BY <1>1
  <1> HIDE DEF os
  <1>6. /\ objs' \in Objects /\ spawnInProgress' \in BOOLEAN /\ left' \in BOOLEAN
        /\ \/ /\ objs' = os /\ spawnInProgress' = spawnInProgress /\ left' = left
              /\ spawnInProgress \/ objs[Current].on
           \/ StartsAt(Current)
    BY <1>2, <1>4, <1>5, EnsureFacts
  <1>7. sent' \in 0..MaxMsgs /\ status' \in [Msgs -> Status]
    <2>1. sent' \in 0..MaxMsgs  BY <1>1, MemBounds DEF TypeOK
    <2>2. status \in [Msgs -> Status] /\ "pending" \in Status  BY DEF TypeOK, Status
    <2>3. status' \in [Msgs -> Status]  BY <1>1, <2>2
    <2> QED  BY <2>1, <2>3
  <1>s. strays' \subseteq Stray  BY StraysKept
  <1>8. TypeOK'
    BY <1>s, <1>1, <1>2, <1>6, <1>7 DEF TypeOK, Objects, Ids, Msgs, MaxObjects
  <1> QED  BY <1>1, <1>2, <1>4, <1>6, <1>8 DEF AllCalm

LEMMA InitSessionFacts ==
  ASSUME TypeOK, InitSession
  PROVE  /\ TypeOK' /\ Initialize /\ Current \in Ids
         /\ \/ /\ AllCalm /\ spawnInProgress' = spawnInProgress /\ left' = left
               /\ spawnInProgress \/ objs[Current].on
            \/ StartsAt(Current)
  <1>1. /\ Initialize /\ EnsureGeneratorRunning(objs, Current)
        /\ UNCHANGED <<queue, strays, crashRecoveryScheduled, deleting, up, recover, sent,
                       handed, healed, unread, faults>>
    BY DEF InitSession
  <1>2. /\ Current \in Ids /\ made' \in 0..MaxObjects /\ cur' \in 0..made'
        /\ deleting \in 0..made'
    BY <1>1, InitializeFacts
  <1>3. objs \in Objects  BY TypeFacts
  <1>6. /\ objs' \in Objects /\ spawnInProgress' \in BOOLEAN /\ left' \in BOOLEAN
        /\ \/ /\ objs' = objs /\ spawnInProgress' = spawnInProgress /\ left' = left
              /\ spawnInProgress \/ objs[Current].on
           \/ StartsAt(Current)
    BY <1>1, <1>2, <1>3, CalmSelf, EnsureFacts
  <1>8. TypeOK'
    BY <1>1, <1>2, <1>6 DEF TypeOK, Objects, Ids, Msgs, MaxObjects, queue
  <1> QED  BY <1>1, <1>2, <1>6, <1>8, CalmSelf DEF AllCalm

LEMMA RecoverFacts ==
  ASSUME TypeOK, NEW atStartup \in BOOLEAN, ProcessPendingQueues(atStartup)
  PROVE  /\ TypeOK' /\ \A m \in Msgs : status'[m] \in {status[m], "failed"}
         /\ \/ /\ UNCHANGED <<objs, made, cur, left>>
               /\ (\A m \in Msgs : status'[m] # "pending") \/ (cur # 0 /\ objs[cur].on)
            \/ Initialize /\ Current \in Ids /\ StartsAt(Current)
  <1>1. /\ recover' = (recover /\ ~atStartup)
        /\ UNCHANGED <<old, strays, spawnInProgress, crashRecoveryScheduled, deleting, up,
                       sent, handed, healed, unread, faults>>
    BY DEF ProcessPendingQueues
  <1>2. PICK stale \in BOOLEAN :
          status' = [m \in Msgs |-> IF stale /\ status[m] = "pending" THEN "failed"
                                    ELSE status[m]]
    BY DEF ProcessPendingQueues
  <1>3. /\ status' \in [Msgs -> Status]
        /\ \A m \in Msgs : status'[m] \in {status[m], "failed"}
    BY <1>2 DEF TypeOK, Status
  <1>4. CASE Waiting(status') = {} \/ (cur # 0 /\ objs[cur].on)
    <2>1. UNCHANGED <<objs, made, cur, left>>  BY <1>4 DEF ProcessPendingQueues
    <2>2. TypeOK'  BY <1>1, <1>3, <2>1 DEF TypeOK, Objects, Ids, Msgs, MaxObjects
    <2>3. Waiting(status') = {} => \A m \in Msgs : status'[m] # "pending"
      BY DEF Waiting
    <2> QED  BY <1>3, <1>4, <2>1, <2>2, <2>3
  <1>5. CASE ~(Waiting(status') = {} \/ (cur # 0 /\ objs[cur].on))
    <2>1. Initialize /\ left' = FALSE  BY <1>5 DEF ProcessPendingQueues
    <2>2. PICK a \in Agents : objs' = Started(objs, Current, "worker", a)
      BY <1>5 DEF ProcessPendingQueues
    <2>3. /\ Current \in Ids /\ made' \in 0..MaxObjects /\ cur' \in 0..made'
          /\ deleting \in 0..made'
      BY <2>1, InitializeFacts
    <2>4. objs \in Objects  BY TypeFacts
    <2>5. /\ objs' \in Objects
          /\ objs'[Current].processingMessageIds = objs[Current].processingMessageIds
          /\ objs'[Current].asked = <<0>> /\ objs'[Current].on /\ objs'[Current].it = 0
          /\ objs'[Current].state = "ready"
          /\ \A i \in Ids \ {Current} : objs'[i] = objs[i]
      BY <2>2, <2>3, <2>4, StartedFacts, "worker" \in {"routes", "worker"}
    <2>6. StartsAt(Current)  BY <2>5, CalmSelf DEF StartsAt, OthersCalm
    <2>7. TypeOK'
      BY <1>1, <1>3, <2>1, <2>3, <2>5 DEF TypeOK, Objects, Ids, Msgs, MaxObjects
    <2> QED  BY <1>3, <2>1, <2>3, <2>6, <2>7
  <1> QED  BY <1>4, <1>5

LEMMA DeleteFacts ==
  ASSUME TypeOK, DeleteSession
  PROVE  TypeOK' /\ AllCalm /\ cur' \in {0, cur}
  <1>1. /\ cur # 0 /\ faults < MaxFaults /\ faults' = faults + 1
        /\ objs' = Aborted(objs, cur)
        /\ \/ deleting' = cur /\ cur' = cur
           \/ cur' = 0 /\ deleting' = deleting
        /\ UNCHANGED <<queue, made, spawnInProgress, crashRecoveryScheduled, up, recover,
                       sent, handed, healed, unread, left>>
    BY DEF DeleteSession, Fault
  <1>2. objs \in Objects  BY TypeFacts
  <1>3. objs' \in Objects /\ AllCalm  BY <1>1, <1>2, AbortedFacts DEF AllCalm
  <1>4. /\ cur' \in 0..made' /\ deleting' \in 0..made' /\ cur' \in {0, cur}
        /\ faults' \in 0..MaxFaults
    BY <1>1, BoundsTypes, MemBounds DEF TypeOK
  <1>s. strays' \subseteq Stray  BY StraysKept
  <1>5. TypeOK'  BY <1>s, <1>1, <1>3, <1>4 DEF TypeOK, Objects, queue, Ids, Msgs, MaxObjects
  <1> QED  BY <1>3, <1>4, <1>5

LEMMA CrashRecoveryFacts ==
  ASSUME TypeOK, CrashRecovery
  PROVE  /\ TypeOK'
         /\ \/ cur # 0 /\ StartsAt(cur)
            \/ /\ objs' = objs /\ (cur # 0 => objs[cur].on)
               /\ left' = \/ left
                          \/ /\ Waiting(status) # {}
                             /\ cur = 0 \/ objs[cur].state = "waiting"
  <1>1. /\ crashRecoveryScheduled' = FALSE
        /\ UNCHANGED <<queue, strays, made, cur, spawnInProgress, deleting, up, recover,
                       sent, handed, healed, unread, faults>>
    BY DEF CrashRecovery
  <1>2. objs \in Objects /\ (cur # 0 => cur \in Ids)  BY TypeFacts
  <1>3. CASE cur # 0 /\ ~objs[cur].on
    <2>1. PICK a \in Agents : objs' = Started(objs, cur, "routes", a)
      BY <1>3 DEF CrashRecovery
    <2>2. left' = FALSE  BY <1>3 DEF CrashRecovery
    <2>3. /\ objs' \in Objects
          /\ objs'[cur].processingMessageIds = objs[cur].processingMessageIds
          /\ objs'[cur].asked = <<0>> /\ objs'[cur].on /\ objs'[cur].it = 0
          /\ objs'[cur].state = "ready"
          /\ \A i \in Ids \ {cur} : objs'[i] = objs[i]
      BY <1>2, <1>3, <2>1, StartedFacts, "routes" \in {"routes", "worker"}
    <2>4. StartsAt(cur)  BY <2>3, CalmSelf DEF StartsAt, OthersCalm
    <2>5. TypeOK'
      BY <1>1, <2>2, <2>3 DEF TypeOK, Objects, queue, Ids, Msgs, MaxObjects
    <2> QED  BY <1>3, <2>4, <2>5
  <1>4. CASE ~(cur # 0 /\ ~objs[cur].on)
    <2>1. /\ objs' = objs
          /\ left' = \/ left
                     \/ Waiting(status) # {} /\ (cur = 0 \/ objs[cur].state = "waiting")
      BY <1>4 DEF CrashRecovery
    <2>2. left' \in BOOLEAN  BY <2>1 DEF TypeOK
    <2>3. TypeOK'
      BY <1>1, <2>1, <2>2 DEF TypeOK, queue, Ids, Msgs, MaxObjects
    <2> QED  BY <1>4, <2>1, <2>3
  <1> QED  BY <1>3, <1>4

LEMMA AgeFacts ==
  ASSUME TypeOK, NEW m \in Msgs, Age(m)
  PROVE  TypeOK'
  BY DEF TypeOK, Age, session, Ids, Msgs, MaxObjects

LEMMA IdleFacts ==
  ASSUME TypeOK, NEW o \in Ids, IdleTimeout(o)
  PROVE  /\ TypeOK' /\ OthersCalm(o)
         /\ objs'[o].processingMessageIds = objs[o].processingMessageIds
         /\ objs'[o].asked = objs[o].asked /\ objs'[o].on /\ objs'[o].it = objs[o].it
         /\ objs'[o].state = "done"
  <1> DEFINE k == objs[o].it
             A == Aborted(objs, k)
             B == [A EXCEPT ![o].state = "done"]
  <1>1. /\ objs[o].on
        /\ objs' = [B EXCEPT ![k].idleTimedOut = TRUE]
        /\ UNCHANGED <<queue, made, cur, spawnInProgress, crashRecoveryScheduled,
                       deleting, up, recover, sent, handed, healed, unread, left, faults>>
    BY DEF IdleTimeout
  <1>2. objs \in Objects  BY TypeFacts
  <1>3. A \in Objects /\ \A i \in Ids : Calm(A[i], objs[i])  BY <1>2, AbortedFacts
  <1> HIDE DEF A
  <1>4. /\ B \in Objects /\ \A i \in Ids \ {o} : B[i] = A[i]
        /\ B[o].processingMessageIds = A[o].processingMessageIds
        /\ B[o].asked = A[o].asked /\ B[o].on = A[o].on /\ B[o].it = A[o].it
        /\ B[o].state = "done"
    <2>1. A[o] \in Object  BY <1>3 DEF Objects
    <2>2. [A[o] EXCEPT !.state = "done"] \in Object  BY <2>1 DEF Object
    <2>3. B = [A EXCEPT ![o] = [A[o] EXCEPT !.state = "done"]]  OBVIOUS
    <2> QED  BY <1>3, <2>1, <2>2, <2>3 DEF Objects, Object
  <1> HIDE DEF B
  <1>5. objs' \in Objects /\ \A i \in Ids : Calm(objs'[i], B[i])
    BY <1>1, <1>4, <1>2, FlagsFacts, TRUE \in BOOLEAN, 0 \in Nat
  <1>6. OthersCalm(o)  BY <1>3, <1>4, <1>5, CalmTwice DEF OthersCalm
  <1>s. strays' \subseteq Stray  BY StraysKept
  <1>7. TypeOK'  BY <1>s, <1>1, <1>5 DEF TypeOK, Objects, queue, Ids, Msgs, MaxObjects
  <1>8. Calm(objs'[o], B[o]) /\ Calm(A[o], objs[o])  BY <1>3, <1>5
  <1> QED  BY <1>1, <1>4, <1>6, <1>7, <1>8 DEF Calm

\* One pull either claims nothing or claims the first message that may be claimed.
Claims(o, m) ==
    /\ m \in Claimable /\ status' = Claimed(m)
    /\ objs'[o].processingMessageIds = objs[o].processingMessageIds \cup {m}
    /\ objs'[o].asked = Append(objs[o].asked, m)
    /\ handed' = handed \cup {m} /\ healed' = healed \cup SelfHealed
    /\ unread' = unread /\ objs'[o].state = "ready"
ClaimsNothing(o) ==
    /\ UNCHANGED <<status, handed, healed, unread>>
    /\ objs'[o].processingMessageIds = objs[o].processingMessageIds
    /\ objs'[o].asked = objs[o].asked
    /\ objs'[o].state # "waiting" \/ Claimable = {}

LEMMA PullFacts ==
  ASSUME TypeOK, NEW o \in Ids, Pull(o)
  PROVE  /\ TypeOK' /\ objs[o].on /\ objs'[o].on
         /\ \A i \in Ids \ {o} : objs'[i] = objs[i]
         /\ \/ objs[o].it # 0 /\ objs'[o].it = objs[o].it /\ UNCHANGED <<made, cur>>
            \/ Initialize /\ Current \in Ids /\ objs'[o].it = Current
         /\ ClaimsNothing(o) \/ \E m \in Msgs : Claims(o, m)
  <1>1. /\ objs[o].on /\ objs[o].state = "ready"
        /\ UNCHANGED <<strays, spawnInProgress, crashRecoveryScheduled, deleting, up,
                       recover, sent, unread, left, faults>>
    BY DEF Pull, CanPull
  <1>2. objs \in Objects /\ objs[o] \in Object  BY TypeFacts
  <1>3. /\ \/ objs[o].it # 0 /\ UNCHANGED <<made, cur>>
           \/ objs[o].it = 0 /\ Initialize
        /\ made' \in 0..MaxObjects /\ cur' \in 0..made' /\ deleting' \in 0..made'
    <2>1. CASE objs[o].it # 0
      <3>1. UNCHANGED <<made, cur>>  BY <2>1 DEF Pull
      <3> QED  BY <1>1, <2>1, <3>1 DEF TypeOK
    <2>2. CASE objs[o].it = 0
      <3>1. Initialize  BY <2>2 DEF Pull
      <3> QED  BY <1>1, <2>2, <3>1, InitializeFacts
    <2> QED  BY <2>1, <2>2
  <1> DEFINE os == Iterating(o)
  <1>4. /\ os \in Objects /\ os[o].on /\ os[o].state = "ready"
        /\ os[o].asked = objs[o].asked
        /\ os[o].processingMessageIds = objs[o].processingMessageIds
        /\ \A i \in Ids \ {o} : os[i] = objs[i]
        /\ \/ objs[o].it # 0 /\ os[o].it = objs[o].it
           \/ objs[o].it = 0 /\ Current \in Ids /\ os[o].it = Current
    <2>1. CASE objs[o].it # 0
      BY <1>1, <1>2, <2>1 DEF Iterating
    <2>2. CASE objs[o].it = 0
      <3>1. Current \in Ids  BY <1>3, <2>2, InitializeFacts
      <3> DEFINE x == [objs[o] EXCEPT !.it = Current]
                 y == [x EXCEPT !.cut = objs[Current].aborted]
      <3>2. objs[Current].aborted \in BOOLEAN /\ Current \in Nat
        BY <3>1, BoundsTypes, TypeFacts DEF Object
      <3>3. /\ y \in Object /\ y.on /\ y.state = "ready" /\ y.asked = objs[o].asked
            /\ y.processingMessageIds = objs[o].processingMessageIds /\ y.it = Current
        BY <1>1, <1>2, <3>2 DEF Object
      <3>4. os = [objs EXCEPT ![o] = y]
        BY <1>2, <2>2 DEF Iterating, Objects
      <3> HIDE DEF y, os
      <3> QED  BY <1>2, <2>2, <3>1, <3>3, <3>4 DEF Objects
    <2> QED  BY <2>1, <2>2
  <1>5. os[o] \in Object  BY <1>4 DEF Objects
  <1>6. IF os[o].cut
        THEN objs' = [os EXCEPT ![o].state = "done"] /\ UNCHANGED <<queue, handed, healed>>
        ELSE IF Claimable = {}
        THEN objs' = [os EXCEPT ![o].state = "waiting"] /\ UNCHANGED <<queue, handed, healed>>
        ELSE LET m == FirstOf(Claimable)
             IN  /\ status' = Claimed(m)
                 /\ old' = (old \ SelfHealed) \ {m}
                 /\ objs' = [os EXCEPT ![o].processingMessageIds = @ \cup {m},
                                       ![o].asked = Append(@, m)]
                 /\ handed' = handed \cup {m} /\ healed' = healed \cup SelfHealed
    BY DEF Pull
  <1> HIDE DEF os
  <1>7. ASSUME NEW z \in Object, z.on, z.it = os[o].it, objs' = [os EXCEPT ![o] = z],
               status' \in [Msgs -> Status], old' \subseteq Msgs, handed' \subseteq Msgs,
               healed' \subseteq Msgs
        PROVE  /\ TypeOK' /\ objs'[o] = z /\ objs'[o].on
               /\ \A i \in Ids \ {o} : objs'[i] = objs[i]
               /\ \/ objs[o].it # 0 /\ objs'[o].it = objs[o].it /\ UNCHANGED <<made, cur>>
                  \/ Initialize /\ Current \in Ids /\ objs'[o].it = Current
    <2>1. objs' \in Objects /\ objs'[o] = z /\ \A i \in Ids \ {o} : objs'[i] = objs[i]
      BY <1>4, <1>7 DEF Objects
    <2>2. TypeOK'
      BY <1>1, <1>3, <1>7, <2>1 DEF TypeOK, Objects, Ids, Msgs, MaxObjects
    <2> QED  BY <1>3, <1>4, <1>7, <2>1, <2>2
  <1>8. ASSUME NEW s \in {"done", "waiting"}, objs' = [os EXCEPT ![o].state = s],
               UNCHANGED <<queue, handed, healed>>, s # "waiting" \/ Claimable = {}
        PROVE  /\ TypeOK' /\ objs'[o].on /\ ClaimsNothing(o)
               /\ \A i \in Ids \ {o} : objs'[i] = objs[i]
               /\ \/ objs[o].it # 0 /\ objs'[o].it = objs[o].it /\ UNCHANGED <<made, cur>>
                  \/ Initialize /\ Current \in Ids /\ objs'[o].it = Current
    <2> DEFINE z == [os[o] EXCEPT !.state = s]
    <2>1. /\ z \in Object /\ z.on /\ z.it = os[o].it /\ z.state = s
          /\ z.asked = objs[o].asked
          /\ z.processingMessageIds = objs[o].processingMessageIds
      BY <1>4, <1>5 DEF Object
    <2>2. objs' = [os EXCEPT ![o] = z]  BY <1>8
    <2>3. /\ status' \in [Msgs -> Status] /\ old' \subseteq Msgs /\ handed' \subseteq Msgs
          /\ healed' \subseteq Msgs /\ UNCHANGED <<status, handed, healed, unread>>
      BY <1>1, <1>8 DEF TypeOK, queue
    <2> HIDE DEF z
    <2>4. /\ TypeOK' /\ objs'[o] = z /\ objs'[o].on
          /\ \A i \in Ids \ {o} : objs'[i] = objs[i]
          /\ \/ objs[o].it # 0 /\ objs'[o].it = objs[o].it /\ UNCHANGED <<made, cur>>
             \/ Initialize /\ Current \in Ids /\ objs'[o].it = Current
      BY <1>7, <2>1, <2>2, <2>3
    <2> QED  BY <1>8, <2>1, <2>3, <2>4 DEF ClaimsNothing
  <1>9. CASE os[o].cut
    BY <1>1, <1>6, <1>8, <1>9
  <1>10. CASE ~os[o].cut /\ Claimable = {}
    BY <1>1, <1>6, <1>8, <1>10
  <1>11. CASE ~os[o].cut /\ Claimable # {}
    <2> DEFINE m == FirstOf(Claimable)
               x == [os[o] EXCEPT !.processingMessageIds = os[o].processingMessageIds \cup {m}]
               z == [x EXCEPT !.asked = Append(os[o].asked, m)]
    <2>1. /\ status' = Claimed(m) /\ old' = (old \ SelfHealed) \ {m}
          /\ objs' = [os EXCEPT ![o].processingMessageIds = @ \cup {m},
                                ![o].asked = Append(@, m)]
          /\ handed' = handed \cup {m} /\ healed' = healed \cup SelfHealed
      BY <1>6, <1>11
    <2>2. Claimable \subseteq Msgs /\ SelfHealed \subseteq Msgs
      BY DEF Claimable, SelfHealed
    <2>3. Claimable \in SUBSET Nat  BY <2>2, BoundsTypes
    <2>4. m \in Claimable /\ m \in Msgs  BY <1>11, <2>2, <2>3, FirstOfIn
    <2> HIDE DEF m
    <2>5. m \in 0..MaxMsgs  BY <2>4, MemBounds DEF Msgs
    <2>6. Append(os[o].asked, m) \in Seq(0..MaxMsgs)
      BY <1>5, <2>5, AppendProperties DEF Object
    <2>7. /\ z \in Object /\ z.on /\ z.it = os[o].it /\ z.state = "ready"
          /\ z.asked = Append(os[o].asked, m)
          /\ z.processingMessageIds = os[o].processingMessageIds \cup {m}
      BY <1>4, <1>5, <2>4, <2>6 DEF Object
    <2>8. objs' = [os EXCEPT ![o] = z]  BY <1>4, <1>5, <2>1 DEF Objects, Object
    <2>9. status' \in [Msgs -> Status]  BY <2>1 DEF Claimed, TypeOK, Status
    <2>10. old' \subseteq Msgs /\ handed' \subseteq Msgs /\ healed' \subseteq Msgs
      BY <2>1, <2>2, <2>4 DEF TypeOK
    <2> HIDE DEF z, x
    <2>11. /\ TypeOK' /\ objs'[o] = z /\ objs'[o].on
           /\ \A i \in Ids \ {o} : objs'[i] = objs[i]
           /\ \/ objs[o].it # 0 /\ objs'[o].it = objs[o].it /\ UNCHANGED <<made, cur>>
              \/ Initialize /\ Current \in Ids /\ objs'[o].it = Current
      BY <1>7, <2>7, <2>8, <2>9, <2>10
    <2>12. Claims(o, m)  BY <1>1, <1>4, <2>1, <2>4, <2>7, <2>11 DEF Claims
    <2> QED  BY <1>1, <2>4, <2>11, <2>12
  <1> QED  BY <1>9, <1>10, <1>11

\* A stray claims at most one message, for the object whose generator it served.
StrayClaims(o, m) ==
    /\ m \in Claimable /\ status' = Claimed(m)
    /\ objs'[o].processingMessageIds = objs[o].processingMessageIds \cup {m}
    /\ objs'[o].asked = objs[o].asked
    /\ \A i \in Ids \ {o} : objs'[i] = objs[i]
    /\ healed' = healed \cup SelfHealed /\ unread' = unread \cup {m}
    /\ left' = (left \/ SelfHealed \ {m} # {})
    /\ UNCHANGED <<handed, sent>>

LEMMA StrayPullFacts ==
  ASSUME TypeOK, NEW g \in strays, StrayPull(g)
  PROVE  /\ TypeOK' /\ g.of \in Ids
         /\ UNCHANGED <<made, cur, spawnInProgress, crashRecoveryScheduled, up, recover>>
         /\ \A i \in Ids : /\ objs'[i].on = objs[i].on /\ objs'[i].it = objs[i].it
                           /\ objs'[i].state = objs[i].state
         /\ \/ UNCHANGED <<status, objs, handed, healed, unread, left, sent>>
            \/ \E m \in Msgs : StrayClaims(g.of, m)
  <1> DEFINE o == g.of
  <1>1. UNCHANGED <<made, cur, spawnInProgress, crashRecoveryScheduled, deleting, up,
                    recover, sent, handed, faults>>
    BY DEF StrayPull
  <1>2. g \in Stray /\ o \in Ids /\ strays \subseteq Stray  BY DEF TypeOK, Stray
  <1>3. objs \in Objects /\ objs[o] \in Object  BY <1>2, TypeFacts
  <1>4. CASE Claimable = {}
    <2>1. /\ strays' = (strays \ {g}) \cup {[g EXCEPT !.state = "waiting"]}
          /\ UNCHANGED <<queue, objs, healed, unread, left>>
      BY <1>4 DEF StrayPull
    <2>2. [g EXCEPT !.state = "waiting"] \in Stray  BY <1>2 DEF Stray
    <2>3. strays' \subseteq Stray  BY <1>2, <2>1, <2>2
    <2>4. TypeOK'  BY <1>1, <2>1, <2>3 DEF TypeOK, queue, Ids, Msgs, MaxObjects
    <2> QED  BY <1>1, <1>2, <2>1, <2>4 DEF queue
  <1>5. CASE Claimable # {}
    <2> DEFINE m == FirstOf(Claimable)
               z == [objs[o] EXCEPT !.processingMessageIds =
                                        objs[o].processingMessageIds \cup {m}]
    <2>1. /\ status' = Claimed(m) /\ old' = (old \ SelfHealed) \ {m}
          /\ objs' = [objs EXCEPT ![o].processingMessageIds = @ \cup {m}]
          /\ healed' = healed \cup SelfHealed /\ unread' = unread \cup {m}
          /\ strays' = strays \ {g} /\ left' = (left \/ SelfHealed \ {m} # {})
      BY <1>5 DEF StrayPull
    <2>2. Claimable \subseteq Msgs /\ SelfHealed \subseteq Msgs
      BY DEF Claimable, SelfHealed
    <2>3. m \in Claimable /\ m \in Msgs  BY <1>5, <2>2, BoundsTypes, FirstOfIn
    <2> HIDE DEF m
    <2>4. /\ z \in Object /\ z.on = objs[o].on /\ z.it = objs[o].it
          /\ z.state = objs[o].state /\ z.asked = objs[o].asked
          /\ z.processingMessageIds = objs[o].processingMessageIds \cup {m}
      BY <1>3, <2>3 DEF Object
    <2>5. objs' = [objs EXCEPT ![o] = z]  BY <2>1
    <2> HIDE DEF z
    <2>6. objs' \in Objects /\ objs'[o] = z /\ \A i \in Ids \ {o} : objs'[i] = objs[i]
      BY <1>2, <1>3, <2>4, <2>5 DEF Objects
    <2>7. status' \in [Msgs -> Status]  BY <2>1 DEF Claimed, TypeOK, Status
    <2>8. /\ old' \subseteq Msgs /\ healed' \subseteq Msgs /\ unread' \subseteq Msgs
          /\ strays' \subseteq Stray /\ left' \in BOOLEAN
      BY <1>2, <2>1, <2>2, <2>3 DEF TypeOK
    <2>9. TypeOK'
      BY <1>1, <2>6, <2>7, <2>8 DEF TypeOK, Objects, Ids, Msgs, MaxObjects
    <2>10. StrayClaims(o, m)
      BY <1>1, <2>1, <2>3, <2>4, <2>6 DEF StrayClaims
    <2>11. \A i \in Ids : /\ objs'[i].on = objs[i].on /\ objs'[i].it = objs[i].it
                          /\ objs'[i].state = objs[i].state
      BY <2>4, <2>6
    <2> QED  BY <1>1, <1>2, <2>3, <2>9, <2>10, <2>11
  <1> QED  BY <1>4, <1>5

\* The idle timer of a stray aborts: waiting iterators of the object are woken.
LEMMA StrayIdleFacts ==
  ASSUME TypeOK, NEW g \in strays, StrayIdle(g)
  PROVE  TypeOK' /\ AllCalm
  <1> DEFINE A == Aborted(objs, g.it)
  <1>1. /\ objs' = [A EXCEPT ![g.it].idleTimedOut = TRUE]
        /\ strays' = StraysAborted(strays, g.it) \ {g}
        /\ UNCHANGED <<queue, made, cur, spawnInProgress, crashRecoveryScheduled,
                       deleting, up, recover, sent, handed, healed, unread, left, faults>>
    BY DEF StrayIdle
  <1>2. objs \in Objects /\ strays \in SUBSET Stray  BY TypeFacts DEF TypeOK
  <1>3. A \in Objects /\ \A i \in Ids : Calm(A[i], objs[i])  BY <1>2, AbortedFacts
  <1> HIDE DEF A
  <1>4. objs' \in Objects /\ \A i \in Ids : Calm(objs'[i], A[i])
    BY <1>1, <1>3, FlagsFacts, TRUE \in BOOLEAN, 0 \in Nat
  <1>5. AllCalm  BY <1>3, <1>4, CalmTwice DEF AllCalm
  <1>6. strays' \subseteq Stray  BY <1>1, <1>2, StraysTypes
  <1>7. TypeOK'  BY <1>1, <1>4, <1>6 DEF TypeOK, Objects, queue, Ids, Msgs, MaxObjects
  <1> QED  BY <1>5, <1>7

\* An answer takes the first prompt away; o's generator goes on.
Answers(o) ==
    /\ objs[o].asked # <<>> /\ objs'[o].asked = Tail(objs[o].asked)
    /\ objs'[o].processingMessageIds \subseteq objs[o].processingMessageIds
    /\ objs'[o].on = objs[o].on /\ objs'[o].it = objs[o].it
    /\ objs'[o].state = objs[o].state
    /\ OthersCalm(o)

LEMMA AnswerTypes ==
  ASSUME TypeOK, NEW o \in Ids, objs[o].asked # <<>>, NEW P \in SUBSET Msgs,
         P \subseteq objs[o].processingMessageIds, NEW os,
         os = [objs EXCEPT ![o] = [objs[o] EXCEPT !.asked = Tail(objs[o].asked),
                                                  !.processingMessageIds = P]],
         objs' = os
  PROVE  objs' \in Objects /\ Answers(o)
  <1> DEFINE x == [objs[o] EXCEPT !.asked = Tail(objs[o].asked)]
             z == [x EXCEPT !.processingMessageIds = P]
  <1>1. objs \in Objects /\ objs[o] \in Object  BY TypeFacts
  <1>2. Tail(objs[o].asked) \in Seq(0..MaxMsgs)
    BY <1>1, HeadTailProperties DEF Object
  <1>3. /\ z \in Object /\ z.asked = Tail(objs[o].asked) /\ z.processingMessageIds = P
        /\ z.on = objs[o].on /\ z.it = objs[o].it /\ z.state = objs[o].state
    BY <1>1, <1>2 DEF Object
  <1>4. objs' = [objs EXCEPT ![o] = z]  OBVIOUS
  <1> HIDE DEF z
  <1> QED  BY <1>1, <1>3, <1>4, CalmSelf DEF Objects, Answers, OthersCalm

LEMMA RespondFacts ==
  ASSUME TypeOK, NEW o \in Ids, Respond(o)
  PROVE  TypeOK' /\ Answers(o)
  <1>1. /\ objs[o].asked # <<>> /\ status' = Confirmed(o)
        /\ old' = {m \in old : status'[m] = "processing"}
        /\ objs' = [objs EXCEPT ![o].asked = Tail(@), ![o].processingMessageIds = {}]
        /\ UNCHANGED <<strays, made, cur, spawnInProgress, crashRecoveryScheduled, deleting,
                       up, recover, sent, handed, healed, unread, left, faults>>
    BY DEF Respond
  <1>2. objs \in Objects /\ objs[o] \in Object  BY TypeFacts
  <1>3. objs' = [objs EXCEPT ![o] = [objs[o] EXCEPT !.asked = Tail(objs[o].asked),
                                                    !.processingMessageIds = {}]]
    BY <1>1, <1>2 DEF Objects, Object
  <1>4. objs' \in Objects /\ Answers(o)
    BY <1>1, <1>2, <1>3, AnswerTypes, {} \in SUBSET Msgs,
       {} \subseteq objs[o].processingMessageIds
  <1>5. status' \in [Msgs -> Status]  BY <1>1 DEF Confirmed, TypeOK, Status
  <1>6. TypeOK'  BY <1>1, <1>4, <1>5 DEF TypeOK, Objects, Ids, Msgs, MaxObjects
  <1> QED  BY <1>4, <1>6

LEMMA RespondEmptyFacts ==
  ASSUME TypeOK, NEW o \in Ids, RespondEmpty(o)
  PROVE  TypeOK' /\ Answers(o)
  <1>1. /\ objs[o].asked # <<>> /\ faults < MaxFaults /\ faults' = faults + 1
        /\ objs' = [objs EXCEPT ![o].asked = Tail(@)]
        /\ UNCHANGED <<queue, strays, made, cur, spawnInProgress, crashRecoveryScheduled,
                       deleting, up, recover, sent, handed, healed, unread, left>>
    BY DEF RespondEmpty, Fault
  <1>2. objs \in Objects /\ objs[o] \in Object  BY TypeFacts
  <1> DEFINE P == objs[o].processingMessageIds
             x == [objs[o] EXCEPT !.asked = Tail(objs[o].asked)]
  <1>3. P \in SUBSET Msgs  BY <1>2 DEF Object
  <1>4. [x EXCEPT !.processingMessageIds = P] = x  BY <1>2 DEF Object
  <1>5. objs' = [objs EXCEPT ![o] = [objs[o] EXCEPT !.asked = Tail(objs[o].asked),
                                                    !.processingMessageIds = P]]
    BY <1>1, <1>2, <1>4 DEF Objects
  <1>6. P \subseteq objs[o].processingMessageIds  OBVIOUS
  <1> HIDE DEF P
  <1>7. objs' \in Objects /\ Answers(o)
    BY <1>1, <1>3, <1>5, <1>6, AnswerTypes
  <1>8. faults' \in 0..MaxFaults  BY <1>1, MemBounds DEF TypeOK
  <1>9. TypeOK'  BY <1>1, <1>7, <1>8 DEF TypeOK, Objects, Ids, Msgs, MaxObjects, queue
  <1> QED  BY <1>7, <1>9

LEMMA OverflowFacts ==
  ASSUME TypeOK, NEW o \in Ids, Overflow(o)
  PROVE  /\ TypeOK' /\ OthersCalm(o) /\ objs'[o].asked = <<>>
         /\ objs'[o].processingMessageIds = objs[o].processingMessageIds
         /\ objs'[o].on = objs[o].on /\ objs'[o].it = objs[o].it
         /\ objs'[o].state = "waiting" => objs[o].state = "waiting"
  <1> DEFINE A == Aborted(objs, o)
             z == [A[o] EXCEPT !.asked = <<>>]
  <1>1. /\ faults < MaxFaults /\ faults' = faults + 1
        /\ objs' = [A EXCEPT ![o].asked = <<>>]
        /\ UNCHANGED <<queue, made, cur, spawnInProgress, crashRecoveryScheduled,
                       deleting, up, recover, sent, handed, healed, unread, left>>
    BY DEF Overflow, Fault
  <1>2. objs \in Objects  BY TypeFacts
  <1>3. A \in Objects /\ \A i \in Ids : Calm(A[i], objs[i])  BY <1>2, AbortedFacts
  <1> HIDE DEF A
  <1>4. A[o] \in Object  BY <1>3 DEF Objects
  <1>5. /\ z \in Object /\ z.asked = <<>>
        /\ z.processingMessageIds = A[o].processingMessageIds
        /\ z.on = A[o].on /\ z.it = A[o].it /\ z.state = A[o].state
    BY <1>4, <<>> \in Seq(0..MaxMsgs) DEF Object
  <1>6. objs' = [A EXCEPT ![o] = z]  BY <1>1
  <1> HIDE DEF z
  <1>7. objs' \in Objects /\ objs'[o] = z /\ \A i \in Ids \ {o} : objs'[i] = A[i]
    BY <1>3, <1>5, <1>6 DEF Objects
  <1>8. OthersCalm(o)  BY <1>3, <1>7 DEF OthersCalm
  <1>9. faults' \in 0..MaxFaults  BY <1>1, MemBounds DEF TypeOK
  <1>s. strays' \subseteq Stray  BY StraysKept
  <1>10. TypeOK'
    BY <1>s, <1>1, <1>7, <1>9 DEF TypeOK, Objects, Ids, Msgs, MaxObjects, queue
  <1>11. Calm(A[o], objs[o])  BY <1>3
  <1> QED  BY <1>5, <1>7, <1>8, <1>10, <1>11 DEF Calm

LEMMA CrashFacts ==
  ASSUME TypeOK, Crash
  PROVE  TypeOK' /\ \A i \in Ids : objs'[i] = Fresh
  <1>1. /\ faults < MaxFaults /\ faults' = faults + 1
        /\ objs' = [o \in Ids |-> Fresh] /\ strays' = {} /\ made' = 0 /\ cur' = 0
        /\ deleting' = 0
        /\ up' = FALSE /\ recover' = FALSE /\ spawnInProgress' = FALSE
        /\ crashRecoveryScheduled' = FALSE
        /\ UNCHANGED <<queue, sent, handed, healed, unread, left>>
    BY DEF Crash, Fault
  <1>2. faults' \in 0..MaxFaults  BY <1>1, MemBounds DEF TypeOK
  <1>3. objs' \in [Ids -> Object]  BY <1>1, FreshFacts
  <1>4. made' \in 0..MaxObjects /\ cur' \in 0..made' /\ deleting' \in 0..made'
    BY <1>1, BoundsTypes
  <1>5. TypeOK'
    BY <1>1, <1>2, <1>3, <1>4 DEF TypeOK, Ids, Msgs, MaxObjects, queue
  <1> QED  BY <1>1, <1>5

LEMMA StartFacts ==
  ASSUME TypeOK, Start
  PROVE  TypeOK' /\ objs' = objs /\ cur' = cur
  <1>1. /\ up' = TRUE /\ recover' = TRUE /\ old' = {}
        /\ status' = [m \in Msgs |-> IF status[m] = "processing" THEN "pending"
                                     ELSE status[m]]
        /\ UNCHANGED <<session, deleting, sent, handed, healed, unread, left, faults>>
    BY DEF Start
  <1>2. status' \in [Msgs -> Status]  BY <1>1 DEF TypeOK, Status
  <1> QED  BY <1>1, <1>2 DEF TypeOK, Ids, Msgs, MaxObjects, session

LEMMA SettleFacts ==
  ASSUME TypeOK, NEW o, Settle(o), made' = made
  PROVE  /\ cur' \in 0..made' /\ deleting' \in 0..made' /\ cur' \in {0, cur}
  BY BoundsTypes DEF TypeOK, Settle

LEMMA FailingFacts ==
  ASSUME TypeOK, NEW S
  PROVE  /\ Failing(S) \in [Msgs -> Status]
         /\ \A m \in Msgs : Failing(S)[m] \in {status[m], "failed"}
         /\ \A m \in Msgs : Failing(S)[m] = "pending" => "pending" \notin S
  BY DEF Failing, TypeOK, Status

\* o's generator ended and the object was then only flagged or aborted.
LEMMA EndsAtFacts ==
  ASSUME TypeOK, NEW o \in Ids, objs' \in Objects,
         \A i \in Ids : Calm(objs'[i], Ended(objs, o)[i])
  PROVE  EndsAt(o)
  <1>1. objs \in Objects  BY TypeFacts
  <1> DEFINE r == Ended(objs, o)
  <1>2. /\ r[o].processingMessageIds = objs[o].processingMessageIds
        /\ r[o].asked = <<>> /\ ~r[o].on /\ \A i \in Ids \ {o} : r[i] = objs[i]
    BY <1>1, EndedFacts
  <1>3. \A i \in Ids : Calm(objs'[i], r[i])  OBVIOUS
  <1> HIDE DEF r
  <1>4. OthersCalm(o)  BY <1>2, <1>3 DEF OthersCalm
  <1>5. Calm(objs'[o], r[o])  BY <1>3
  <1> QED  BY <1>2, <1>4, <1>5 DEF EndsAt, Calm

\* A generator of the routes ends: whoever could leave rows behind schedules the
\* timer or says so.
LEMMA RoutesEndFacts ==
  ASSUME TypeOK, NEW o \in Ids, NEW thrown \in BOOLEAN, RoutesEnd(o, thrown),
         faults' \in 0..MaxFaults
  PROVE  /\ TypeOK' /\ EndsAt(o) /\ cur' \in {0, cur} /\ spawnInProgress' = FALSE
         /\ \A m \in Msgs : status'[m] \in {status[m], "failed"}
         /\ (\E m \in Msgs : status'[m] = "pending") => left' \/ crashRecoveryScheduled'
  <1> DEFINE aborted == objs[o].aborted
             rows == IF thrown /\ ~aborted THEN Failing({"processing"}) ELSE status
             more == Waiting(rows) # {}
             n == objs[o].consecutiveRestarts + 1
             os == Ended(objs, o)
             A == Aborted(os, o)
  <1>1. /\ status' = rows /\ old' = {m \in old : rows[m] = "processing"}
        /\ spawnInProgress' = FALSE /\ Settle(o)
        /\ UNCHANGED <<made, up, recover, sent, handed, healed, unread>>
    BY DEF RoutesEnd
  <1>2. \/ aborted /\ objs' = os /\ left' = more
           /\ UNCHANGED crashRecoveryScheduled
        \/ ~aborted /\ more /\ crashRecoveryScheduled /\ objs' = os
           /\ UNCHANGED <<crashRecoveryScheduled, left>>
        \/ ~aborted /\ more /\ objs' = [A EXCEPT ![o].consecutiveRestarts = n]
           /\ left' = TRUE /\ UNCHANGED crashRecoveryScheduled
        \/ ~aborted /\ more /\ objs' = [A EXCEPT ![o].consecutiveRestarts = n,
                                                 ![o].aborted = FALSE]
           /\ crashRecoveryScheduled' = TRUE /\ UNCHANGED left
        \/ ~aborted /\ ~more /\ objs' = [A EXCEPT ![o].consecutiveRestarts = 0]
           /\ UNCHANGED <<crashRecoveryScheduled, left>>
    BY DEF RoutesEnd
  <1>3. /\ objs \in Objects /\ objs[o] \in Object /\ n \in Nat
    BY TypeFacts DEF Object
  <1>4. os \in Objects  BY <1>3, EndedFacts
  <1>5. rows \in [Msgs -> Status] /\ \A m \in Msgs : rows[m] \in {status[m], "failed"}
    BY FailingFacts DEF TypeOK
  <1>6. (\E m \in Msgs : rows[m] = "pending") => more  BY DEF Waiting
  <1>7. more \in BOOLEAN  OBVIOUS
  <1> HIDE DEF rows, more, n
  <1>8. A \in Objects /\ \A i \in Ids : Calm(A[i], os[i])  BY <1>4, AbortedFacts
  <1> HIDE DEF os, A
  <1>9. ASSUME NEW k \in Nat
        PROVE  /\ [A EXCEPT ![o].consecutiveRestarts = k] \in Objects
               /\ \A i \in Ids : Calm([A EXCEPT ![o].consecutiveRestarts = k][i], os[i])
    <2>1. /\ [A EXCEPT ![o].consecutiveRestarts = k] \in Objects
          /\ \A i \in Ids : Calm([A EXCEPT ![o].consecutiveRestarts = k][i], A[i])
      BY <1>8, FlagsFacts, TRUE \in BOOLEAN
    <2> QED  BY <1>8, <2>1, CalmTwice
  <1>10. /\ [A EXCEPT ![o].consecutiveRestarts = n, ![o].aborted = FALSE] \in Objects
         /\ \A i \in Ids : Calm([A EXCEPT ![o].consecutiveRestarts = n,
                                          ![o].aborted = FALSE][i], os[i])
    <2> DEFINE B == [A EXCEPT ![o].consecutiveRestarts = n]
               C == [B EXCEPT ![o].aborted = FALSE]
    <2>1. B \in Objects /\ \A i \in Ids : Calm(B[i], os[i])  BY <1>3, <1>9
    <2>2. [A EXCEPT ![o].consecutiveRestarts = n, ![o].aborted = FALSE] = C
      OBVIOUS
    <2> HIDE DEF B
    <2>3. C \in Objects /\ \A i \in Ids : Calm(C[i], B[i])
      BY <2>1, <1>3, FlagsFacts, FALSE \in BOOLEAN
    <2> HIDE DEF C
    <2>4. \A i \in Ids : Calm(C[i], os[i])  BY <2>1, <2>3, CalmTwice
    <2> QED  BY <2>2, <2>3, <2>4
  <1>11. objs' \in Objects /\ \A i \in Ids : Calm(objs'[i], os[i])
    <2>1. 0 \in Nat  OBVIOUS
    <2>2. CASE objs' = os  BY <1>4, <2>2, CalmSelf
    <2>3. CASE objs' = [A EXCEPT ![o].consecutiveRestarts = n]  BY <1>3, <1>9, <2>3
    <2>4. CASE objs' = [A EXCEPT ![o].consecutiveRestarts = 0]  BY <1>9, <2>1, <2>4
    <2>5. CASE objs' = [A EXCEPT ![o].consecutiveRestarts = n, ![o].aborted = FALSE]
      BY <1>10, <2>5
    <2> QED  BY <1>2, <2>2, <2>3, <2>4, <2>5
  <1>12. EndsAt(o)  BY <1>11, EndsAtFacts DEF os
  <1>13. cur' \in 0..made' /\ deleting' \in 0..made' /\ cur' \in {0, cur}
    BY <1>1, SettleFacts
  <1>14. left' \in BOOLEAN /\ crashRecoveryScheduled' \in BOOLEAN
    BY <1>2, <1>7 DEF TypeOK
  <1>s. strays' \subseteq Stray  BY StraysKept
  <1>15. TypeOK'
    BY <1>s, <1>1, <1>5, <1>11, <1>13, <1>14 DEF TypeOK, Objects, Ids, Msgs, MaxObjects
  <1>16. more => left' \/ crashRecoveryScheduled'
    <2>1. \/ left' = more
          \/ crashRecoveryScheduled /\ crashRecoveryScheduled' = crashRecoveryScheduled
          \/ left' = TRUE
          \/ crashRecoveryScheduled' = TRUE
          \/ ~more
      BY <1>2
    <2>2. left' = more => (more => left')  BY <1>7, <1>14
    <2>3. crashRecoveryScheduled /\ crashRecoveryScheduled' = crashRecoveryScheduled
            => crashRecoveryScheduled'
      BY <1>14 DEF TypeOK
    <2> QED  BY <2>1, <2>2, <2>3
  <1> QED  BY <1>1, <1>5, <1>6, <1>12, <1>13, <1>15, <1>16

\* A generator of the worker ends: rows left are said so, or it starts again.
LEMMA WorkerEndFacts ==
  ASSUME TypeOK, NEW o \in Ids, WorkerEnd(o), faults' \in 0..MaxFaults
  PROVE  /\ TypeOK' /\ status' = status /\ cur' \in {0, cur}
         /\ UNCHANGED <<spawnInProgress, crashRecoveryScheduled>>
         /\ \/ EndsAt(o) /\ ((\E m \in Msgs : status'[m] = "pending") => left')
            \/ StartsAt(o)
  <1> DEFINE os == Ended(objs, o)
             more == Waiting(status) # {}
  <1>1. /\ Settle(o)
        /\ UNCHANGED <<queue, made, spawnInProgress, crashRecoveryScheduled, up, recover,
                       sent, handed, healed, unread>>
    BY DEF WorkerEnd
  <1>2. \/ objs' = [os EXCEPT ![o].idleTimedOut = FALSE] /\ left' = more
        \/ more /\ (\E a \in Agents : objs' = Started(Renewed(os, o), o, "worker", a))
           /\ UNCHANGED left
        \/ ~more /\ objs' = os /\ UNCHANGED left
    BY DEF WorkerEnd
  <1>3. objs \in Objects  BY TypeFacts
  <1>4. /\ os \in Objects
        /\ os[o].processingMessageIds = objs[o].processingMessageIds
        /\ \A i \in Ids \ {o} : os[i] = objs[i]
    BY <1>3, EndedFacts
  <1>5. (\E m \in Msgs : status[m] = "pending") => more  BY DEF Waiting
  <1>6. more \in BOOLEAN /\ left' \in BOOLEAN  BY <1>2 DEF TypeOK
  <1>7. cur' \in 0..made' /\ deleting' \in 0..made' /\ cur' \in {0, cur}
    BY <1>1, SettleFacts
  <1> HIDE DEF os, more
  <1>s. strays' \subseteq Stray  BY StraysKept
  <1>8. objs' \in Objects => TypeOK'
    BY <1>s, <1>1, <1>6, <1>7 DEF TypeOK, Objects, Ids, Msgs, MaxObjects, queue
  <1>9. CASE objs' = [os EXCEPT ![o].idleTimedOut = FALSE] /\ left' = more
    <2>1. objs' \in Objects /\ \A i \in Ids : Calm(objs'[i], os[i])
      BY <1>4, <1>9, FlagsFacts, FALSE \in BOOLEAN, 0 \in Nat
    <2>2. EndsAt(o)  BY <2>1, EndsAtFacts DEF os
    <2> QED  BY <1>1, <1>5, <1>7, <1>8, <1>9, <2>1, <2>2 DEF queue
  <1>10. CASE /\ more /\ UNCHANGED left
              /\ \E a \in Agents : objs' = Started(Renewed(os, o), o, "worker", a)
    <2> DEFINE R == Renewed(os, o)
    <2>1. PICK a \in Agents : objs' = Started(R, o, "worker", a)  BY <1>10
    <2>2. R \in Objects /\ \A i \in Ids : Calm(R[i], os[i])  BY <1>4, RenewedFacts
    <2> HIDE DEF R
    <2>3. /\ objs' \in Objects
          /\ objs'[o].processingMessageIds = R[o].processingMessageIds
          /\ objs'[o].asked = <<0>> /\ objs'[o].on /\ objs'[o].it = 0
          /\ objs'[o].state = "ready"
          /\ \A i \in Ids \ {o} : objs'[i] = R[i]
      BY <2>1, <2>2, StartedFacts, "worker" \in {"routes", "worker"}
    <2>4. OthersCalm(o)  BY <1>4, <2>2, <2>3 DEF OthersCalm
    <2>5. R[o].processingMessageIds = objs[o].processingMessageIds
      BY <1>4, <2>2 DEF Calm
    <2>6. StartsAt(o)  BY <2>3, <2>4, <2>5 DEF StartsAt
    <2> QED  BY <1>1, <1>7, <1>8, <2>3, <2>6 DEF queue
  <1>11. CASE ~more /\ objs' = os /\ UNCHANGED left
    <2>1. objs' \in Objects /\ \A i \in Ids : Calm(objs'[i], os[i])
      BY <1>4, <1>11, CalmSelf
    <2>2. EndsAt(o)  BY <2>1, EndsAtFacts DEF os
    <2> QED  BY <1>1, <1>5, <1>7, <1>8, <1>11, <2>1, <2>2 DEF queue
  <1> QED  BY <1>2, <1>9, <1>10, <1>11

LEMMA GivesUpFacts ==
  ASSUME TypeOK, NEW o \in Ids, WorkerGivesUp(o), faults' \in 0..MaxFaults
  PROVE  /\ TypeOK' /\ status' = status /\ cur' \in {0, cur} /\ EndsAt(o)
         /\ (\E m \in Msgs : status'[m] = "pending") => left'
  <1>1. /\ Settle(o) /\ objs' = Ended(objs, o) /\ left' = (Waiting(status) # {})
        /\ UNCHANGED <<queue, made, spawnInProgress, crashRecoveryScheduled, up, recover,
                       sent, handed, healed, unread>>
    BY DEF WorkerGivesUp
  <1>2. objs' \in Objects /\ \A i \in Ids : Calm(objs'[i], Ended(objs, o)[i])
    BY <1>1, TypeFacts, EndedFacts, CalmSelf
  <1>3. EndsAt(o)  BY <1>2, EndsAtFacts
  <1>4. cur' \in 0..made' /\ deleting' \in 0..made' /\ cur' \in {0, cur}
    BY <1>1, SettleFacts
  <1>s. strays' \subseteq Stray  BY StraysKept
  <1>5. TypeOK'
    BY <1>s, <1>1, <1>2, <1>4 DEF TypeOK, Objects, Ids, Msgs, MaxObjects, queue
  <1>6. (\E m \in Msgs : status[m] = "pending") => left'  BY <1>1 DEF Waiting
  <1> QED  BY <1>1, <1>3, <1>4, <1>5, <1>6 DEF queue

LEMMA FallbackFacts ==
  ASSUME TypeOK, NEW o \in Ids, Fallback(o), faults' \in 0..MaxFaults
  PROVE  TypeOK' /\ StartsAt(o)
  <1> DEFINE k == objs[o].fb + 1
             f == Fallbacks[k]
             y == Asking(objs[o], f)
             z == [y EXCEPT !.fb = k]
  <1>1. /\ objs[o].fb < Len(Fallbacks)
        /\ UNCHANGED <<queue, made, cur, spawnInProgress, crashRecoveryScheduled,
                       deleting, up, recover, sent, handed, healed, unread, left>>
    BY DEF Fallback
  <1>2. objs \in Objects /\ objs[o] \in Object /\ objs[o].fb \in Nat /\ k \in Nat
    BY TypeFacts DEF Object
  <1>3. f \in {"claude", "gemini", "openrouter"}
    <2>1. objs[o].fb + 1 \in 1..Len(Fallbacks)  BY <1>1, <1>2, MemAgents
    <2> QED  BY <2>1, MemAgents
  <1>4. objs' = [objs EXCEPT ![o] = z]  BY DEF Fallback
  <1> HIDE DEF f
  <1>5. /\ y \in Object /\ y.processingMessageIds = objs[o].processingMessageIds
        /\ y.asked = <<0>> /\ y.on /\ y.it = 0 /\ y.state = "ready"
    BY <1>2, <1>3, AskingFacts
  <1> HIDE DEF y, k
  <1>6. /\ z \in Object /\ z.processingMessageIds = objs[o].processingMessageIds
        /\ z.asked = <<0>> /\ z.on /\ z.it = 0 /\ z.state = "ready"
    BY <1>2, <1>5 DEF Object
  <1> HIDE DEF z
  <1>7. objs' \in Objects /\ objs'[o] = z /\ \A i \in Ids \ {o} : objs'[i] = objs[i]
    BY <1>2, <1>4, <1>6 DEF Objects
  <1>8. StartsAt(o)  BY <1>6, <1>7, CalmSelf DEF StartsAt, OthersCalm
  <1>s. strays' \subseteq Stray  BY StraysKept
  <1>9. TypeOK'  BY <1>s, <1>1, <1>7 DEF TypeOK, Objects, Ids, Msgs, MaxObjects, queue
  <1> QED  BY <1>8, <1>9

LEMMA AbandonFacts ==
  ASSUME TypeOK, NEW o \in Ids, Abandon(o), faults' \in 0..MaxFaults
  PROVE  /\ TypeOK' /\ cur' = 0 /\ EndsAt(o)
         /\ \A m \in Msgs : status'[m] \in {status[m], "failed"}
         /\ \A m \in Msgs : status'[m] # "pending"
  <1> DEFINE os == Ended(objs, o)
  <1>1. /\ status' = Failing({"pending", "processing"}) /\ old' = {}
        /\ objs' = [os EXCEPT ![o].idleTimedOut = FALSE]
        /\ cur' = 0 /\ deleting' = (IF deleting = o THEN 0 ELSE deleting)
        /\ UNCHANGED <<made, spawnInProgress, crashRecoveryScheduled, up, recover, sent,
                       handed, healed, unread, left>>
    BY DEF Abandon
  <1>2. os \in Objects  BY TypeFacts, EndedFacts
  <1> HIDE DEF os
  <1>3. objs' \in Objects /\ \A i \in Ids : Calm(objs'[i], os[i])
    BY <1>1, <1>2, FlagsFacts, FALSE \in BOOLEAN, 0 \in Nat
  <1>4. EndsAt(o)  BY <1>3, EndsAtFacts DEF os
  <1>5. /\ status' \in [Msgs -> Status]
        /\ \A m \in Msgs : status'[m] \in {status[m], "failed"}
        /\ \A m \in Msgs : status'[m] # "pending"
    BY <1>1, FailingFacts
  <1>6. cur' \in 0..made' /\ deleting' \in 0..made'  BY <1>1, BoundsTypes DEF TypeOK
  <1>s. strays' \subseteq Stray  BY StraysKept
  <1>7. TypeOK'
    BY <1>s, <1>1, <1>3, <1>5, <1>6 DEF TypeOK, Objects, Ids, Msgs, MaxObjects
  <1> QED  BY <1>1, <1>4, <1>5, <1>7

\* The end of a generator, whichever way: it is started again, or nobody is left
\* with pending rows unknown to the timer and to the history.
LEMMA EndFacts ==
  ASSUME TypeOK, NEW o \in Ids, Return(o) \/ Throw(o)
  PROVE  /\ TypeOK' /\ objs[o].on /\ cur' \in {0, cur}
         /\ UNCHANGED <<made, up, recover, sent, handed, healed, unread>>
         /\ \A m \in Msgs : /\ status'[m] \in {status[m], "failed"}
                            /\ status[m] = "none" => status'[m] = "none"
         /\ \/ StartsAt(o)
            \/ /\ EndsAt(o)
               /\ (\E m \in Msgs : status'[m] = "pending") =>
                      left' \/ crashRecoveryScheduled'
  <1>1. objs[o].on /\ faults' \in 0..MaxFaults
    <2>1. CASE Return(o)  BY <2>1 DEF Return, TypeOK
    <2>2. CASE Throw(o)  BY <2>2, MemBounds DEF Throw, Fault, TypeOK
    <2> QED  BY <2>1, <2>2
  <1>2. \/ RoutesEnd(o, FALSE) \/ RoutesEnd(o, TRUE) \/ WorkerEnd(o)
        \/ WorkerGivesUp(o) \/ Fallback(o) \/ Abandon(o)
    BY DEF Return, Throw
  <1>3. ASSUME NEW thrown \in BOOLEAN, RoutesEnd(o, thrown)
        PROVE  /\ TypeOK' /\ cur' \in {0, cur}
               /\ UNCHANGED <<made, up, recover, sent, handed, healed, unread>>
               /\ \A m \in Msgs : /\ status'[m] \in {status[m], "failed"}
                                  /\ status[m] = "none" => status'[m] = "none"
               /\ EndsAt(o)
               /\ (\E m \in Msgs : status'[m] = "pending") =>
                      left' \/ crashRecoveryScheduled'
    <2>1. UNCHANGED <<made, up, recover, sent, handed, healed, unread>>
      BY <1>3 DEF RoutesEnd
    <2>2. \A m \in Msgs : status[m] = "none" => status'[m] = "none"
      BY <1>3 DEF RoutesEnd, Failing, TypeOK
    <2> QED  BY <1>1, <1>3, <2>1, <2>2, RoutesEndFacts
  <1>4. CASE WorkerEnd(o)
    <2>1. UNCHANGED <<made, up, recover, sent, handed, healed, unread>>
      BY <1>4 DEF WorkerEnd
    <2> QED  BY <1>1, <1>4, <2>1, WorkerEndFacts
  <1>5. CASE WorkerGivesUp(o)
    <2>1. UNCHANGED <<made, up, recover, sent, handed, healed, unread>>
      BY <1>5 DEF WorkerGivesUp
    <2> QED  BY <1>1, <1>5, <2>1, GivesUpFacts
  <1>6. CASE Fallback(o)
    <2>1. UNCHANGED <<made, up, recover, sent, handed, healed, unread, status, cur>>
      BY <1>6 DEF Fallback, queue
    <2> QED  BY <1>1, <1>6, <2>1, FallbackFacts
  <1>7. CASE Abandon(o)
    <2>1. UNCHANGED <<made, up, recover, sent, handed, healed, unread>>
      BY <1>7 DEF Abandon
    <2>2. \A m \in Msgs : status[m] = "none" => status'[m] = "none"
      BY <1>7 DEF Abandon, Failing, TypeOK
    <2> QED  BY <1>1, <1>7, <2>1, <2>2, AbandonFacts
  <1>8. CASE RoutesEnd(o, FALSE) \/ RoutesEnd(o, TRUE)
    BY <1>1, <1>3, <1>8, TRUE \in BOOLEAN, FALSE \in BOOLEAN
  <1> QED  BY <1>2, <1>4, <1>5, <1>6, <1>7, <1>8

-----------------------------------------------------------------------------
(* Types.                                                                  *)

LEMMA TypesInit == Init => TypeOK
  <1> SUFFICES ASSUME Init PROVE TypeOK  OBVIOUS
  <1>1. objs \in [Ids -> Object]  BY FreshFacts DEF Init
  <1>2. status \in [Msgs -> Status]  BY DEF Init, Status
  <1>3. /\ made \in 0..MaxObjects /\ cur \in 0..made /\ deleting \in 0..made
        /\ sent \in 0..MaxMsgs /\ faults \in 0..MaxFaults
    BY BoundsTypes, MemBounds DEF Init
  <1>4. /\ old \subseteq Msgs /\ handed \subseteq Msgs /\ healed \subseteq Msgs
        /\ unread \subseteq Msgs /\ strays \subseteq Stray
    BY DEF Init
  <1>5. /\ spawnInProgress \in BOOLEAN /\ crashRecoveryScheduled \in BOOLEAN
        /\ up \in BOOLEAN /\ recover \in BOOLEAN /\ left \in BOOLEAN
    BY DEF Init
  <1> QED  BY <1>1, <1>2, <1>3, <1>4, <1>5 DEF TypeOK

LEMMA TypesNext ==
  ASSUME TypeOK, [Next]_vars
  PROVE  TypeOK'
  <1>1. CASE QueueMessage  BY <1>1, QueueMessageFacts
  <1>2. CASE InitSession  BY <1>2, InitSessionFacts
  <1>3. CASE DeleteSession  BY <1>3, DeleteFacts
  <1>4. CASE ProcessPendingQueues(TRUE) \/ ProcessPendingQueues(FALSE)
    BY <1>4, RecoverFacts
  <1>5. CASE CrashRecovery  BY <1>5, CrashRecoveryFacts
  <1>6. CASE Crash  BY <1>6, CrashFacts
  <1>7. CASE Start  BY <1>7, StartFacts
  <1>8. CASE \E m \in Msgs : Age(m)  BY <1>8, AgeFacts
  <1>9. CASE \E o \in Ids : \/ Pull(o) \/ IdleTimeout(o) \/ Respond(o) \/ RespondEmpty(o)
                           \/ Return(o) \/ Throw(o) \/ Overflow(o)
    BY <1>9, PullFacts, IdleFacts, RespondFacts, RespondEmptyFacts, EndFacts,
       OverflowFacts
  <1>10. CASE \E g \in strays : StrayPull(g) \/ StrayIdle(g)
    BY <1>10, StrayPullFacts, StrayIdleFacts
  <1>11. CASE UNCHANGED vars
    BY <1>11 DEF vars, TypeOK, Ids, Msgs, MaxObjects
  <1> QED
    BY <1>1, <1>2, <1>3, <1>4, <1>5, <1>6, <1>7, <1>8, <1>9, <1>10, <1>11 DEF Next

\* Every variable keeps its type: the object in the map and the one being deleted
\* are ones that were made (initializeSession, deleteSession), a claim always finds
\* the message it takes (claimNextMessage) and the fallbacks are tried in bounds.
THEOREM MemTypes == Spec => []TypeOK
  <1>1. Init => TypeOK  BY TypesInit
  <1>2. TypeOK /\ [Next]_vars => TypeOK'  BY TypesNext
  <1> QED  BY <1>1, <1>2, PTL DEF Spec

-----------------------------------------------------------------------------
(* The messages: who was handed what, and who holds it.                    *)

\* Without a worker there is no session and no generator.
DownInv == ~up => /\ cur = 0 /\ strays = {}
                  /\ \A o \in Ids : ~objs[o].on /\ objs[o].asked = <<>>

\* What an object tracks was handed to its agent, or claimed by a stray.
TrackedInv == \A o \in Ids : objs[o].processingMessageIds \subseteq handed \cup unread

\* Only inserted rows exist, and only they are handed over or claimed.
InsertedInv == /\ \A m \in Msgs : m > sent => status[m] = "none"
               /\ \A m \in handed \cup unread : m <= sent

\* A message some agent holds is not claimed again, unless it was self-healed.
HeldNotPending ==
    \A m \in Msgs \ healed : \A o \in Ids : \A i \in DOMAIN objs[o].asked :
        objs[o].asked[i] = m => status[m] \notin {"none", "pending"}

MessagesInv == /\ TypeOK /\ DownInv /\ TrackedInv /\ InsertedInv
               /\ GoneWasHanded /\ HeldNotPending /\ HeldOnce

\* The prompts of an object are kept, dropped, or replaced by the initial prompt.
AskedKept(o) == \/ objs'[o].asked \in {objs[o].asked, <<>>, <<0>>}
                \/ /\ objs[o].asked # <<>>
                   /\ objs'[o].asked = Tail(objs[o].asked)

\* A step that hands nothing over and makes no held message pending again.
Quiet ==
    /\ \A i \in Ids : /\ objs'[i].processingMessageIds \subseteq objs[i].processingMessageIds
                      /\ AskedKept(i)
    /\ UNCHANGED <<handed, healed, unread>> /\ sent <= sent'
    /\ \A m \in Msgs :
          /\ status'[m] \in {"none", "pending"} => status[m] \in {"none", "pending"}
          /\ status'[m] = "deleted" =>
                 status[m] = "deleted" \/ \E o \in Ids : m \in objs[o].processingMessageIds
          /\ m > sent' /\ status[m] = "none" =>
                 status'[m] = "none" \/ \E o \in Ids : m \in objs[o].processingMessageIds

LEMMA CalmKept ==
  ASSUME NEW i \in Ids, Calm(objs'[i], objs[i])
  PROVE  /\ objs'[i].processingMessageIds \subseteq objs[i].processingMessageIds
         /\ AskedKept(i)
  BY DEF Calm, AskedKept

LEMMA StartsKept ==
  ASSUME NEW o \in Ids, StartsAt(o) \/ EndsAt(o) \/ Answers(o)
  PROVE  \A i \in Ids :
            /\ objs'[i].processingMessageIds \subseteq objs[i].processingMessageIds
            /\ AskedKept(i)
  <1>1. OthersCalm(o)  BY DEF StartsAt, EndsAt, Answers
  <1>2. objs'[o].processingMessageIds \subseteq objs[o].processingMessageIds
    BY DEF StartsAt, EndsAt, Answers
  <1>3. AskedKept(o)  BY DEF StartsAt, EndsAt, Answers, AskedKept
  <1> QED  BY <1>1, <1>2, <1>3, CalmKept DEF OthersCalm

LEMMA AllCalmKept ==
  ASSUME AllCalm
  PROVE  \A i \in Ids :
            /\ objs'[i].processingMessageIds \subseteq objs[i].processingMessageIds
            /\ AskedKept(i)
  BY CalmKept DEF AllCalm

\* Rows that fail, or that do not change, keep the messages' invariants.
LEMMA RowsQuiet ==
  ASSUME TypeOK, UNCHANGED <<handed, healed, unread, sent>>,
         \A m \in Msgs : /\ status'[m] \in {status[m], "failed"}
                         /\ status[m] = "none" => status'[m] = "none",
         \A i \in Ids :
            /\ objs'[i].processingMessageIds \subseteq objs[i].processingMessageIds
            /\ AskedKept(i)
  PROVE  Quiet
  <1>1. sent <= sent'  BY DEF TypeOK
  <1>2. ASSUME NEW m \in Msgs
        PROVE  /\ status'[m] \in {"none", "pending"} => status[m] \in {"none", "pending"}
               /\ status'[m] = "deleted" => status[m] = "deleted"
               /\ status[m] = "none" => status'[m] = "none"
    <2>1. /\ status'[m] \in {status[m], "failed"}
          /\ status[m] = "none" => status'[m] = "none"
      OBVIOUS
    <2> QED  BY <2>1
  <1> QED  BY <1>1, <1>2 DEF Quiet

LEMMA NextQuiet ==
  ASSUME TypeOK, InsertedInv, [Next]_vars
  PROVE  \/ Quiet \/ Start \/ \E o \in Ids : Pull(o)
         \/ \E g \in strays : StrayPull(g)
  <1> DEFINE Kept == \A i \in Ids :
                 /\ objs'[i].processingMessageIds \subseteq objs[i].processingMessageIds
                 /\ AskedKept(i)
  <1>a. ASSUME objs' = objs PROVE Kept  BY <1>a DEF AskedKept
  <1>b. ASSUME UNCHANGED <<status, handed, healed, unread, sent>>, Kept PROVE Quiet
    <2>1. \A m \in Msgs : /\ status'[m] \in {status[m], "failed"}
                          /\ status[m] = "none" => status'[m] = "none"
      BY <1>b
    <2> QED  BY <1>b, <2>1, RowsQuiet
  <1>1. CASE QueueMessage
    <2>1. Kept  BY <1>1, QueueMessageFacts, StartsKept, AllCalmKept
    <2>2. /\ sent' = sent + 1 /\ status' = [status EXCEPT ![sent + 1] = "pending"]
          /\ sent \in Nat /\ UNCHANGED <<handed, healed, unread>>
      BY <1>1, MemBounds DEF QueueMessage, TypeOK
    <2>3. status \in [Msgs -> Status]  BY DEF TypeOK
    <2>4. ASSUME NEW m \in Msgs, m # sent + 1  PROVE  status'[m] = status[m]
      BY <2>2, <2>3, <2>4
    <2>5. ASSUME NEW m \in Msgs, m = sent + 1
          PROVE  status[m] = "none" /\ status'[m] = "pending" /\ ~(m > sent')
      BY <2>2, <2>3, <2>5 DEF InsertedInv
    <2>6. sent <= sent'  BY <2>2
    <2>7. ASSUME NEW m \in Msgs
          PROVE  /\ status'[m] \in {"none", "pending"} => status[m] \in {"none", "pending"}
                 /\ status'[m] = "deleted" => status[m] = "deleted"
                 /\ m > sent' /\ status[m] = "none" => status'[m] = "none"
      BY <2>4, <2>5
    <2> QED  BY <2>1, <2>2, <2>6, <2>7 DEF Quiet
  <1>2. CASE InitSession
    <2>1. Kept  BY <1>2, InitSessionFacts, StartsKept, AllCalmKept
    <2> QED  BY <1>2, <1>b, <2>1 DEF InitSession, queue
  <1>3. CASE DeleteSession
    <2>1. Kept  BY <1>3, DeleteFacts, AllCalmKept
    <2> QED  BY <1>3, <1>b, <2>1 DEF DeleteSession, queue
  <1>4. ASSUME NEW atStartup \in BOOLEAN, ProcessPendingQueues(atStartup)
        PROVE  Quiet
    <2>1. Kept  BY <1>4, <1>a, RecoverFacts, StartsKept
    <2>2. UNCHANGED <<handed, healed, unread, sent>>  BY <1>4 DEF ProcessPendingQueues
    <2>3. \A m \in Msgs : status'[m] \in {status[m], "failed"}  BY <1>4, RecoverFacts
    <2>4. \A m \in Msgs : status[m] = "none" => status'[m] = "none"
      BY <1>4 DEF ProcessPendingQueues
    <2> QED  BY <2>1, <2>2, <2>3, <2>4, RowsQuiet
  <1>5. CASE CrashRecovery
    <2>1. Kept  BY <1>5, <1>a, CrashRecoveryFacts, StartsKept, TypeFacts
    <2> QED  BY <1>5, <1>b, <2>1 DEF CrashRecovery, queue
  <1>6. CASE Crash
    <2>1. ASSUME NEW i \in Ids
          PROVE  /\ objs'[i].processingMessageIds \subseteq objs[i].processingMessageIds
                 /\ AskedKept(i)
      <3>1. objs'[i] = Fresh  BY <1>6, CrashFacts
      <3> QED  BY <3>1, FreshFacts DEF AskedKept
    <2>2. Kept  BY <2>1
    <2> QED  BY <1>6, <1>b, <2>2 DEF Crash, queue
  <1>7. CASE \E m \in Msgs : Age(m)
    <2>1. UNCHANGED <<objs, status, handed, healed, unread, sent>>  BY <1>7 DEF Age, session
    <2> QED  BY <1>a, <1>b, <2>1
  <1>8. CASE UNCHANGED vars
    <2>1. UNCHANGED <<objs, status, handed, healed, unread, sent>>  BY <1>8 DEF vars
    <2> QED  BY <1>a, <1>b, <2>1
  <1>9. ASSUME NEW o \in Ids, IdleTimeout(o)  PROVE  Quiet
    <2>1. UNCHANGED <<status, handed, healed, unread, sent>>  BY <1>9 DEF IdleTimeout, queue
    <2>2. /\ OthersCalm(o)
          /\ objs'[o].processingMessageIds \subseteq objs[o].processingMessageIds
          /\ AskedKept(o)
      BY <1>9, IdleFacts DEF AskedKept
    <2>3. Kept  BY <2>2, CalmKept DEF OthersCalm
    <2> QED  BY <1>b, <2>1, <2>3
  <1>10. ASSUME NEW o \in Ids, Overflow(o)  PROVE  Quiet
    <2>1. UNCHANGED <<status, handed, healed, unread, sent>>  BY <1>10 DEF Overflow, queue
    <2>2. /\ OthersCalm(o)
          /\ objs'[o].processingMessageIds \subseteq objs[o].processingMessageIds
          /\ AskedKept(o)
      BY <1>10, OverflowFacts DEF AskedKept
    <2>3. Kept  BY <2>2, CalmKept DEF OthersCalm
    <2> QED  BY <1>b, <2>1, <2>3
  <1>11. ASSUME NEW o \in Ids, RespondEmpty(o)  PROVE  Quiet
    <2>1. UNCHANGED <<status, handed, healed, unread, sent>>
      BY <1>11 DEF RespondEmpty, queue
    <2>2. Kept  BY <1>11, RespondEmptyFacts, StartsKept
    <2> QED  BY <1>b, <2>1, <2>2
  <1>12. ASSUME NEW o \in Ids, Respond(o)  PROVE  Quiet
    <2>1. UNCHANGED <<handed, healed, unread, sent>> /\ status' = Confirmed(o)
      BY <1>12 DEF Respond
    <2>2. Kept  BY <1>12, RespondFacts, StartsKept
    <2>3. sent <= sent'  BY <2>1 DEF TypeOK
    <2>4. ASSUME NEW m \in Msgs
          PROVE  /\ status'[m] \in {"none", "pending"} => status[m] \in {"none", "pending"}
                 /\ status'[m] = "deleted" =>
                        status[m] = "deleted" \/ m \in objs[o].processingMessageIds
                 /\ status[m] = "none" =>
                        status'[m] = "none" \/ m \in objs[o].processingMessageIds
      BY <2>1 DEF Confirmed
    <2> QED  BY <2>1, <2>2, <2>3, <2>4 DEF Quiet
  <1>13. ASSUME NEW o \in Ids, Return(o) \/ Throw(o)  PROVE  Quiet
    <2>1. Kept  BY <1>13, EndFacts, StartsKept
    <2>2. /\ UNCHANGED <<handed, healed, unread, sent>>
          /\ \A m \in Msgs : /\ status'[m] \in {status[m], "failed"}
                             /\ status[m] = "none" => status'[m] = "none"
      BY <1>13, EndFacts
    <2> QED  BY <2>1, <2>2, RowsQuiet
  <1>14. CASE ProcessPendingQueues(TRUE) \/ ProcessPendingQueues(FALSE)
    BY <1>4, <1>14, TRUE \in BOOLEAN, FALSE \in BOOLEAN
  <1>15. ASSUME NEW g \in strays, StrayIdle(g)  PROVE  Quiet
    <2>1. UNCHANGED <<status, handed, healed, unread, sent>>
      BY <1>15 DEF StrayIdle, queue
    <2>2. Kept  BY <1>15, StrayIdleFacts, AllCalmKept
    <2> QED  BY <1>b, <2>1, <2>2
  <1> HIDE DEF Kept
  <1> QED
    BY <1>1, <1>2, <1>3, <1>5, <1>6, <1>7, <1>8, <1>9, <1>10, <1>11, <1>12, <1>13, <1>14,
       <1>15
    DEF Next

\* Where a kept prompt was before.
LEMMA KeptPlace ==
  ASSUME TypeOK, NEW o \in Ids, AskedKept(o)
  PROVE  \E d \in {0, 1} : \A i \in DOMAIN objs'[o].asked :
            /\ i \in Nat
            /\ objs'[o].asked[i] # 0 => /\ i + d \in DOMAIN objs[o].asked
                                        /\ objs[o].asked[i + d] = objs'[o].asked[i]
  <1> DEFINE s == objs[o].asked
             t == objs'[o].asked
  <1>1. s \in Seq(0..MaxMsgs)  BY TypeFacts DEF Object
  <1>2. \/ t = s \/ t = <<>> \/ t = <<0>> \/ (s # <<>> /\ t = Tail(s))
    BY DEF AskedKept
  <1> HIDE DEF s, t
  <1>3. CASE t = s
    <2>1. \A i \in DOMAIN t : i \in Nat /\ i + 0 \in DOMAIN s /\ s[i + 0] = t[i]
      BY <1>1, <1>3
    <2> QED  BY <2>1 DEF s, t
  <1>4. CASE t = <<>>
    <2>1. DOMAIN t = {}  BY <1>4
    <2> QED  BY <2>1 DEF s, t
  <1>5. CASE t = <<0>>
    <2>1. DOMAIN t = {1} /\ t[1] = 0  BY <1>5
    <2> QED  BY <2>1 DEF s, t
  <1>6. CASE s # <<>> /\ t = Tail(s)
    <2>1. /\ t \in Seq(0..MaxMsgs) /\ Len(t) = Len(s) - 1
          /\ \A i \in 1..Len(t) : t[i] = s[i + 1]
      BY <1>1, <1>6, HeadTailProperties
    <2>2. \A i \in DOMAIN t : i \in Nat /\ i + 1 \in DOMAIN s /\ s[i + 1] = t[i]
      BY <1>1, <2>1
    <2> QED  BY <2>2 DEF s, t
  <1> QED  BY <1>2, <1>3, <1>4, <1>5, <1>6

LEMMA QuietMessages ==
  ASSUME MessagesInv, TypeOK', Quiet
  PROVE  /\ TrackedInv' /\ InsertedInv' /\ GoneWasHanded' /\ HeldNotPending' /\ HeldOnce'
  <1> USE DEF MessagesInv
  <1>1. TrackedInv'
    BY DEF Quiet, TrackedInv
  <1>2. GoneWasHanded'
    BY DEF Quiet, TrackedInv, GoneWasHanded
  <1>3. InsertedInv'
    <2>1. sent \in Nat /\ sent' \in Nat  BY MemBounds DEF TypeOK
    <2>2. /\ sent <= sent' /\ handed' = handed /\ handed \subseteq Msgs
          /\ unread' = unread /\ unread \subseteq Msgs
      BY DEF Quiet, TypeOK
    <2>3. Msgs \subseteq Nat  BY BoundsTypes
    <2>4. \A m \in handed' \cup unread' : m <= sent'  BY <2>1, <2>2, <2>3 DEF InsertedInv
    <2>5. ASSUME NEW m \in Msgs, m > sent'  PROVE  status'[m] = "none"
      <3>1. m > sent  BY <2>1, <2>2, <2>3, <2>5
      <3>2. status[m] = "none" /\ m \notin handed \cup unread
        BY <2>1, <2>3, <3>1 DEF InsertedInv
      <3>3. ~\E o \in Ids : m \in objs[o].processingMessageIds
        BY <3>2 DEF TrackedInv
      <3> QED  BY <2>5, <3>2, <3>3 DEF Quiet
    <2> QED  BY <2>4, <2>5 DEF InsertedInv, Msgs
  <1>4. ASSUME NEW o \in Ids
        PROVE  \E d \in {0, 1} : \A i \in DOMAIN objs'[o].asked :
                  /\ i \in Nat
                  /\ objs'[o].asked[i] # 0 => /\ i + d \in DOMAIN objs[o].asked
                                              /\ objs[o].asked[i + d] = objs'[o].asked[i]
    BY KeptPlace DEF Quiet
  <1>5. \A m \in Msgs : m # 0  BY BoundsTypes
  <1>6. HeldNotPending'
    <2> SUFFICES ASSUME NEW m \in Msgs \ healed', NEW o \in Ids,
                        NEW i \in DOMAIN objs'[o].asked, objs'[o].asked[i] = m
                 PROVE  status'[m] \notin {"none", "pending"}
      BY DEF HeldNotPending, Ids, Msgs, MaxObjects
    <2>1. m \in Msgs \ healed  BY DEF Quiet
    <2>2. \E j \in DOMAIN objs[o].asked : objs[o].asked[j] = m  BY <1>4, <1>5
    <2>3. status[m] \notin {"none", "pending"}  BY <2>1, <2>2 DEF HeldNotPending
    <2> QED  BY <2>1, <2>3 DEF Quiet
  <1>7. HeldOnce'
    <2> SUFFICES ASSUME NEW m \in Msgs \ healed', NEW o \in Ids, NEW p \in Ids,
                        NEW i \in DOMAIN objs'[o].asked, NEW j \in DOMAIN objs'[p].asked,
                        objs'[o].asked[i] = m, objs'[p].asked[j] = m
                 PROVE  o = p /\ i = j
      BY DEF HeldOnce, Ids, Msgs, MaxObjects
    <2>1. m \in Msgs \ healed /\ m # 0  BY <1>5 DEF Quiet
    <2>2. PICK d \in {0, 1} : \A k \in DOMAIN objs'[o].asked :
                  /\ k \in Nat
                  /\ objs'[o].asked[k] # 0 => /\ k + d \in DOMAIN objs[o].asked
                                              /\ objs[o].asked[k + d] = objs'[o].asked[k]
      BY <1>4
    <2>3. PICK e \in {0, 1} : \A k \in DOMAIN objs'[p].asked :
                  /\ k \in Nat
                  /\ objs'[p].asked[k] # 0 => /\ k + e \in DOMAIN objs[p].asked
                                              /\ objs[p].asked[k + e] = objs'[p].asked[k]
      BY <1>4
    <2>4. i \in Nat /\ i + d \in DOMAIN objs[o].asked /\ objs[o].asked[i + d] = m
      BY <2>1, <2>2
    <2>5. j \in Nat /\ j + e \in DOMAIN objs[p].asked /\ objs[p].asked[j + e] = m
      BY <2>1, <2>3
    <2>6. o = p /\ i + d = j + e  BY <2>1, <2>4, <2>5 DEF HeldOnce
    <2>7. CASE d = e
      <3>1. i + d = j + d /\ d \in Nat  BY <2>6, <2>7
      <3> QED  BY <2>4, <2>5, <2>6, <3>1
    <2>8. CASE d # e
      <3>1. \A k \in DOMAIN objs'[o].asked :
              objs'[o].asked[k] # 0 => /\ objs[o].asked[k + d] = objs'[o].asked[k]
                                       /\ objs[o].asked[k + e] = objs'[o].asked[k]
                                       /\ k + d \in DOMAIN objs[o].asked
                                       /\ k + e \in DOMAIN objs[o].asked
        BY <2>2, <2>3, <2>6
      <3>2. i + d = i + e
        BY <2>1, <3>1 DEF HeldOnce
      <3> QED  BY <2>4, <2>8, <3>2
    <2> QED  BY <2>7, <2>8
  <1> QED  BY <1>1, <1>2, <1>3, <1>6, <1>7

\* A pull that claims nothing is quiet too.
LEMMA IdlePullQuiet ==
  ASSUME TypeOK, NEW o \in Ids, Pull(o), ClaimsNothing(o)
  PROVE  Quiet
  <1>1. \A i \in Ids \ {o} : objs'[i] = objs[i]  BY PullFacts
  <1>2. sent' = sent  BY DEF Pull
  <1>3. \A i \in Ids :
            /\ objs'[i].processingMessageIds \subseteq objs[i].processingMessageIds
            /\ AskedKept(i)
    BY <1>1 DEF ClaimsNothing, AskedKept
  <1>4. UNCHANGED <<status, handed, healed, unread, sent>>  BY <1>2 DEF ClaimsNothing
  <1>5. \A m \in Msgs : /\ status'[m] \in {status[m], "failed"}
                        /\ status[m] = "none" => status'[m] = "none"
    BY <1>4
  <1> QED  BY <1>3, <1>4, <1>5, RowsQuiet

\* Claiming m: a message that was not self-healed is pending, so nobody holds it.
LEMMA ClaimMessages ==
  ASSUME MessagesInv, NEW o \in Ids, Pull(o), NEW m \in Msgs, Claims(o, m)
  PROVE  /\ TrackedInv' /\ InsertedInv' /\ GoneWasHanded' /\ HeldNotPending' /\ HeldOnce'
  <1> USE DEF MessagesInv
  <1>1. /\ \A i \in Ids \ {o} : objs'[i] = objs[i]
        /\ TypeOK'
    BY PullFacts
  <1>2. /\ m \in Claimable /\ status' = Claimed(m)
        /\ objs'[o].processingMessageIds = objs[o].processingMessageIds \cup {m}
        /\ objs'[o].asked = Append(objs[o].asked, m)
        /\ handed' = handed \cup {m} /\ healed' = healed \cup SelfHealed
        /\ unread' = unread
    BY DEF Claims
  <1>3. sent' = sent /\ sent \in Nat /\ Msgs \subseteq Nat
    BY BoundsTypes, MemBounds DEF Pull, TypeOK
  <1>4. TrackedInv'  BY <1>1, <1>2 DEF TrackedInv
  <1>5. /\ status'[m] = "processing"
        /\ \A n \in Msgs \ {m} : \/ status'[n] = status[n]
                                 \/ n \in SelfHealed /\ status'[n] = "pending"
    BY <1>2 DEF Claimed
  <1>6. GoneWasHanded'
    BY <1>2, <1>5 DEF GoneWasHanded
  <1>7. \A n \in SelfHealed \cup {m} : n \in Msgs /\ status[n] # "none"
    BY <1>2 DEF Claimable, SelfHealed
  <1>8. \A n \in SelfHealed \cup {m} : n <= sent
    <2>1. \A n \in Msgs : n > sent => status[n] = "none"  BY DEF InsertedInv
    <2>2. ASSUME NEW n \in SelfHealed \cup {m}  PROVE  n <= sent
      <3>1. n \in Nat /\ ~(n > sent)  BY <1>3, <1>7, <2>1
      <3> QED  BY <1>3, <3>1
    <2> QED  BY <2>2
  <1>9. InsertedInv'
    <2>1. \A n \in handed' \cup unread' : n <= sent'
      BY <1>2, <1>3, <1>8 DEF InsertedInv
    <2>2. ASSUME NEW n \in Msgs, n > sent'  PROVE  status'[n] = "none"
      <3>1. n \notin SelfHealed \cup {m}  BY <1>3, <1>8, <2>2
      <3> QED  BY <1>3, <1>5, <2>2, <3>1 DEF InsertedInv
    <2> QED  BY <2>1, <2>2 DEF InsertedInv, Msgs
  <1>10. objs[o].asked \in Seq(0..MaxMsgs) /\ m \in 0..MaxMsgs
    BY TypeFacts, MemBounds DEF Object, Msgs
  <1> DEFINE s == objs[o].asked
             t == objs'[o].asked
  <1>11. /\ DOMAIN t = 1..(Len(s) + 1) /\ DOMAIN s = 1..Len(s) /\ Len(s) \in Nat
         /\ t[Len(s) + 1] = m /\ \A i \in DOMAIN s : t[i] = s[i]
    <2>1. /\ t \in Seq(0..MaxMsgs) /\ Len(t) = Len(s) + 1
          /\ \A i \in 1..Len(s) : t[i] = s[i]
          /\ t[Len(s) + 1] = m
      BY <1>2, <1>10, AppendProperties
    <2>2. DOMAIN t = 1..Len(t) /\ DOMAIN s = 1..Len(s) /\ Len(s) \in Nat
      BY <1>10, <2>1
    <2> QED  BY <2>1, <2>2
  <1>12. ASSUME NEW n \in Msgs \ healed'
         PROVE  /\ n \in Msgs \ healed /\ n \notin SelfHealed
                /\ n = m => status[n] = "pending"
    BY <1>2 DEF Claimable
  <1>13. ASSUME NEW n \in Msgs \ healed', NEW p \in Ids, NEW i \in DOMAIN objs'[p].asked,
                objs'[p].asked[i] = n
         PROVE  \/ n = m /\ p = o /\ i = Len(s) + 1
                \/ n # m /\ i \in DOMAIN objs[p].asked /\ objs[p].asked[i] = n
    <2>1. ASSUME NEW j \in DOMAIN objs[p].asked, objs[p].asked[j] = n  PROVE  n # m
      BY <1>12, <2>1 DEF HeldNotPending
    <2>2. CASE p # o  BY <1>1, <1>13, <2>1, <2>2
    <2>3. CASE p = o /\ i = Len(s) + 1
      BY <1>11, <1>13, <2>3
    <2>4. CASE p = o /\ i # Len(s) + 1
      <3>1. i \in DOMAIN s /\ s[i] = n  BY <1>11, <1>13, <2>4
      <3> QED  BY <2>1, <2>4, <3>1
    <2> QED  BY <2>2, <2>3, <2>4
  <1>14. HeldNotPending'
    <2> SUFFICES ASSUME NEW n \in Msgs \ healed', NEW p \in Ids,
                        NEW i \in DOMAIN objs'[p].asked, objs'[p].asked[i] = n
                 PROVE  status'[n] \notin {"none", "pending"}
      BY DEF HeldNotPending, Ids, Msgs, MaxObjects
    <2>1. CASE n = m  BY <1>5, <2>1
    <2>2. CASE n # m
      <3>1. status[n] \notin {"none", "pending"}
        BY <1>12, <1>13, <2>2 DEF HeldNotPending
      <3> QED  BY <1>5, <1>12, <2>2, <3>1
    <2> QED  BY <2>1, <2>2
  <1>15. HeldOnce'
    <2> SUFFICES ASSUME NEW n \in Msgs \ healed', NEW p \in Ids, NEW q \in Ids,
                        NEW i \in DOMAIN objs'[p].asked, NEW j \in DOMAIN objs'[q].asked,
                        objs'[p].asked[i] = n, objs'[q].asked[j] = n
                 PROVE  p = q /\ i = j
      BY DEF HeldOnce, Ids, Msgs, MaxObjects
    <2>1. \/ n = m /\ p = o /\ i = Len(s) + 1
          \/ n # m /\ i \in DOMAIN objs[p].asked /\ objs[p].asked[i] = n
      BY <1>13
    <2>2. \/ n = m /\ q = o /\ j = Len(s) + 1
          \/ n # m /\ j \in DOMAIN objs[q].asked /\ objs[q].asked[j] = n
      BY <1>13
    <2> QED  BY <1>12, <2>1, <2>2 DEF HeldOnce
  <1> QED  BY <1>4, <1>6, <1>9, <1>14, <1>15

\* A stray that claims m hands it to nobody: the prompts stay as they were, and a
\* row that it makes pending again is self-healed.
LEMMA StrayMessages ==
  ASSUME MessagesInv, NEW o \in Ids, NEW m \in Msgs, StrayClaims(o, m)
  PROVE  /\ TrackedInv' /\ InsertedInv' /\ GoneWasHanded' /\ HeldNotPending' /\ HeldOnce'
  <1> USE DEF MessagesInv
  <1>1. /\ m \in Claimable /\ status' = Claimed(m)
        /\ objs'[o].processingMessageIds = objs[o].processingMessageIds \cup {m}
        /\ \A i \in Ids : objs'[i].asked = objs[i].asked
        /\ \A i \in Ids \ {o} : objs'[i] = objs[i]
        /\ healed' = healed \cup SelfHealed /\ unread' = unread \cup {m}
        /\ handed' = handed /\ sent' = sent
    BY DEF StrayClaims
  <1>2. sent \in Nat /\ Msgs \subseteq Nat  BY BoundsTypes, MemBounds DEF TypeOK
  <1>3. /\ status'[m] = "processing"
        /\ \A n \in Msgs \ {m} : \/ status'[n] = status[n]
                                 \/ n \in SelfHealed /\ status'[n] = "pending"
    BY <1>1 DEF Claimed
  <1>4. TrackedInv'  BY <1>1 DEF TrackedInv
  <1>5. GoneWasHanded'  BY <1>1, <1>3 DEF GoneWasHanded
  <1>6. \A n \in SelfHealed \cup {m} : n <= sent
    <2>1. \A n \in SelfHealed \cup {m} : n \in Msgs /\ status[n] # "none"
      BY <1>1 DEF Claimable, SelfHealed
    <2>2. \A n \in Msgs : n > sent => status[n] = "none"  BY DEF InsertedInv
    <2>3. ASSUME NEW n \in SelfHealed \cup {m}  PROVE  n <= sent
      <3>1. n \in Nat /\ ~(n > sent)  BY <1>2, <2>1, <2>2
      <3> QED  BY <1>2, <3>1
    <2> QED  BY <2>3
  <1>7. InsertedInv'
    <2>1. \A n \in handed' \cup unread' : n <= sent'  BY <1>1, <1>6 DEF InsertedInv
    <2>2. ASSUME NEW n \in Msgs, n > sent'  PROVE  status'[n] = "none"
      <3>1. n \notin SelfHealed \cup {m}  BY <1>1, <1>2, <1>6, <2>2
      <3> QED  BY <1>1, <1>3, <2>2, <3>1 DEF InsertedInv
    <2> QED  BY <2>1, <2>2 DEF InsertedInv, Msgs
  <1>8. HeldNotPending'
    <2> SUFFICES ASSUME NEW n \in Msgs \ healed', NEW p \in Ids,
                        NEW i \in DOMAIN objs'[p].asked, objs'[p].asked[i] = n
                 PROVE  status'[n] \notin {"none", "pending"}
      BY DEF HeldNotPending, Ids, Msgs, MaxObjects
    <2>1. n \in Msgs \ healed /\ n \notin SelfHealed  BY <1>1
    <2>2. status[n] \notin {"none", "pending"}  BY <1>1, <2>1 DEF HeldNotPending
    <2> QED  BY <1>3, <2>1, <2>2
  <1>9. HeldOnce'
    <2> SUFFICES ASSUME NEW n \in Msgs \ healed', NEW p \in Ids, NEW q \in Ids,
                        NEW i \in DOMAIN objs'[p].asked, NEW j \in DOMAIN objs'[q].asked,
                        objs'[p].asked[i] = n, objs'[q].asked[j] = n
                 PROVE  p = q /\ i = j
      BY DEF HeldOnce, Ids, Msgs, MaxObjects
    <2>1. n \in Msgs \ healed  BY <1>1
    <2> QED  BY <1>1, <2>1 DEF HeldOnce
  <1> QED  BY <1>4, <1>5, <1>7, <1>8, <1>9

\* A worker that starts makes rows pending again when nobody holds any.
LEMMA StartMessages ==
  ASSUME MessagesInv, Start
  PROVE  /\ TrackedInv' /\ InsertedInv' /\ GoneWasHanded' /\ HeldNotPending' /\ HeldOnce'
  <1> USE DEF MessagesInv
  <1>1. /\ ~up /\ UNCHANGED <<objs, sent, handed, healed, unread>>
        /\ status' = [m \in Msgs |-> IF status[m] = "processing" THEN "pending"
                                     ELSE status[m]]
    BY DEF Start, session
  <1>2. \A o \in Ids : DOMAIN objs'[o].asked = {}  BY <1>1 DEF DownInv
  <1>3. TrackedInv'  BY <1>1 DEF TrackedInv
  <1>4. InsertedInv'  BY <1>1 DEF InsertedInv, Msgs
  <1>5. GoneWasHanded'  BY <1>1 DEF GoneWasHanded, Msgs
  <1>6. HeldNotPending' /\ HeldOnce'
    BY <1>2 DEF HeldNotPending, HeldOnce, Ids, MaxObjects
  <1> QED  BY <1>3, <1>4, <1>5, <1>6

LEMMA DownNext ==
  ASSUME TypeOK, DownInv, [Next]_vars
  PROVE  DownInv'
  <1>1. CASE up /\ up'  BY <1>1 DEF DownInv
  <1>2. CASE up /\ ~up'
    <2>1. Crash
      <3>1. ASSUME NEW o \in Ids, Return(o) \/ Throw(o)  PROVE  up' = up
        BY <3>1, EndFacts
      <3> QED
        BY <1>2, <3>1
        DEF Next, vars, QueueMessage, InitSession, DeleteSession, ProcessPendingQueues,
            CrashRecovery, Start, Age, Pull, IdleTimeout, Respond, RespondEmpty, Overflow,
            StrayPull, StrayIdle
    <2>2. cur' = 0 /\ strays' = {}  BY <2>1 DEF Crash
    <2>3. \A o \in Ids : ~objs'[o].on /\ objs'[o].asked = <<>>
      BY <2>1, CrashFacts, FreshFacts
    <2> QED  BY <2>2, <2>3 DEF DownInv, Ids, MaxObjects
  <1>3. CASE ~up
    <2>1. /\ cur = 0 /\ strays = {}
          /\ \A o \in Ids : ~objs[o].on /\ objs[o].asked = <<>>
      BY <1>3 DEF DownInv
    <2>2. Start \/ CrashRecovery \/ UNCHANGED vars
      BY <1>3, <2>1
      DEF Next, QueueMessage, InitSession, DeleteSession, ProcessPendingQueues, Crash,
          Age, Pull, CanPull, IdleTimeout, Respond, RespondEmpty, Return, Throw, Overflow
    <2>3. objs' = objs /\ cur' = cur /\ strays' = strays
      BY <2>1, <2>2 DEF Start, CrashRecovery, vars, session
    <2> QED  BY <2>1, <2>3 DEF DownInv
  <1> QED  BY <1>1, <1>2, <1>3 DEF TypeOK

LEMMA MessagesInit == Init => MessagesInv
  <1> SUFFICES ASSUME Init PROVE MessagesInv  OBVIOUS
  <1>1. TypeOK  BY TypesInit
  <1>2. \A o \in Ids : objs[o] = Fresh  BY DEF Init
  <1>3. \A o \in Ids : /\ objs[o].processingMessageIds = {} /\ ~objs[o].on
                       /\ objs[o].asked = <<>> /\ DOMAIN objs[o].asked = {}
    BY <1>2, FreshFacts
  <1>4. DownInv  BY <1>3 DEF DownInv, Init
  <1>5. TrackedInv /\ HeldNotPending /\ HeldOnce
    BY <1>3 DEF TrackedInv, HeldNotPending, HeldOnce
  <1>6. InsertedInv /\ GoneWasHanded  BY DEF InsertedInv, GoneWasHanded, Init
  <1> QED  BY <1>1, <1>4, <1>5, <1>6 DEF MessagesInv

LEMMA MessagesNext ==
  ASSUME MessagesInv, [Next]_vars
  PROVE  MessagesInv'
  <1>1. TypeOK' /\ DownInv'  BY TypesNext, DownNext DEF MessagesInv
  <1>2. \/ Quiet \/ Start
        \/ \E o \in Ids : Pull(o) /\ \E m \in Msgs : Claims(o, m)
        \/ \E o \in Ids, m \in Msgs : StrayClaims(o, m)
    <2>1. \/ Quiet \/ Start \/ \E o \in Ids : Pull(o)
          \/ \E g \in strays : StrayPull(g)
      BY NextQuiet DEF MessagesInv
    <2>2. ASSUME NEW o \in Ids, Pull(o)
          PROVE  Quiet \/ \E m \in Msgs : Claims(o, m)
      BY <2>2, PullFacts, IdlePullQuiet DEF MessagesInv
    <2>3. ASSUME NEW g \in strays, StrayPull(g)
          PROVE  Quiet \/ \E o \in Ids, m \in Msgs : StrayClaims(o, m)
      <3>1. CASE UNCHANGED <<status, objs, handed, healed, unread, left, sent>>
        <4>1. \A i \in Ids :
                 /\ objs'[i].processingMessageIds \subseteq objs[i].processingMessageIds
                 /\ AskedKept(i)
          BY <3>1 DEF AskedKept
        <4> QED  BY <3>1, <4>1, RowsQuiet DEF MessagesInv
      <3>2. CASE \E m \in Msgs : StrayClaims(g.of, m)
        BY <2>3, <3>2, StrayPullFacts DEF MessagesInv
      <3> QED  BY <2>3, <3>1, <3>2, StrayPullFacts DEF MessagesInv
    <2> QED  BY <2>1, <2>2, <2>3
  <1>3. /\ TrackedInv' /\ InsertedInv' /\ GoneWasHanded' /\ HeldNotPending' /\ HeldOnce'
    BY <1>1, <1>2, QuietMessages, ClaimMessages, StrayMessages, StartMessages
  <1> QED  BY <1>1, <1>3 DEF MessagesInv

\* No two unanswered prompts carry the same message, whatever generators a session
\* was given and however they ended, unless the message was self-healed: a claim
\* takes a pending row (claimNextMessage), and rows in somebody's hands are pending
\* again only when the worker starts, when nobody holds any.
THEOREM MessagesHeldOnce == Spec => []HeldOnce
  <1>1. MessagesInv /\ [Next]_vars => MessagesInv'  BY MessagesNext
  <1>2. MessagesInv => HeldOnce  BY DEF MessagesInv
  <1> QED  BY MessagesInit, <1>1, <1>2, PTL DEF Spec

\* A row is deleted (confirmProcessed) only after the message was handed to an agent
\* or, the one way past that, was claimed by the iterator a failed Claude query left
\* behind: whatever a session object tracks came to it in one of these two ways.
THEOREM GoneOnlyAfterHanded == Spec => []GoneWasHanded
  <1>1. MessagesInv /\ [Next]_vars => MessagesInv'  BY MessagesNext
  <1>2. MessagesInv => GoneWasHanded  BY DEF MessagesInv
  <1> QED  BY MessagesInit, <1>1, <1>2, PTL DEF Spec

-----------------------------------------------------------------------------
(* Pending messages are attended to.                                       *)

\* Generators belong to objects that were made; the one of the object in the map
\* iterates over that object, so emit('message') reaches it; only an iterator waits.
IterInv == /\ \A o \in Ids : objs[o].on => o <= made
           /\ cur # 0 /\ objs[cur].on => objs[cur].it \in {0, cur}
           /\ \A o \in Ids : objs[o].on /\ objs[o].state = "waiting" => objs[o].it # 0

Pending == \E m \in Msgs : status[m] = "pending"
Busy == \E o \in Ids : objs[o].on /\ objs[o].state # "waiting"
Unserved == cur = 0 \/ ~objs[cur].on

\* Attended, with the recovery to come counted only if it will start a generator.
AttendedInv == up /\ Pending => \/ recover /\ Unserved
                                \/ crashRecoveryScheduled \/ left \/ Misled \/ Busy

AttendInv == TypeOK /\ DownInv /\ IterInv /\ AttendedInv

\* How the object in the map may change, and how a generator may.
CurStep == /\ made <= made'
           /\ cur' \in {0, cur} \/ (cur = 0 /\ cur' = made + 1)
IterStep(i) == objs'[i].on =>
    \/ /\ objs[i].on /\ objs'[i].it = objs[i].it
       /\ objs'[i].state = "waiting" => objs[i].state = "waiting"
    \/ i <= made' /\ objs'[i].it = 0 /\ objs'[i].state # "waiting"

\* Nobody starts, ends or begins to wait.
Gentle == \A i \in Ids : /\ objs'[i].on = objs[i].on /\ objs'[i].it = objs[i].it
                         /\ objs'[i].state = "waiting" => objs[i].state = "waiting"

LEMMA IterKept ==
  ASSUME TypeOK, TypeOK', IterInv, CurStep, \A i \in Ids : IterStep(i)
  PROVE  IterInv'
  <1>1. /\ made \in Nat /\ made' \in Nat /\ made <= made' /\ Ids \subseteq Nat
        /\ cur' # 0 => cur' \in Ids
    BY BoundsTypes DEF TypeOK, Ids, CurStep
  <1>2. ASSUME NEW i \in Ids, objs'[i].on
        PROVE  /\ i <= made'
               /\ objs'[i].state = "waiting" => objs'[i].it # 0
    BY <1>1, <1>2 DEF IterStep, IterInv
  <1>3. ASSUME cur' # 0, objs'[cur'].on  PROVE  objs'[cur'].it \in {0, cur'}
    <2>1. \/ /\ objs[cur'].on /\ objs'[cur'].it = objs[cur'].it
          \/ objs'[cur'].it = 0
      BY <1>1, <1>3 DEF IterStep
    <2>2. objs[cur'].on => cur' <= made  BY <1>1, <1>3 DEF IterInv
    <2>3. objs[cur'].on => cur' = cur  BY <1>1, <1>3, <2>2 DEF CurStep
    <2> QED  BY <1>3, <2>1, <2>3 DEF IterInv
  <1> QED  BY <1>2, <1>3 DEF IterInv, Ids, MaxObjects

LEMMA GentleSteps ==
  ASSUME Gentle
  PROVE  \A i \in Ids : IterStep(i)
  BY DEF Gentle, IterStep

LEMMA StartsSteps ==
  ASSUME NEW o \in Ids, StartsAt(o) \/ EndsAt(o), StartsAt(o) => o <= made'
  PROVE  \A i \in Ids : IterStep(i)
  <1>1. OthersCalm(o)  BY DEF StartsAt, EndsAt
  <1>2. \A i \in Ids \ {o} : IterStep(i)  BY <1>1 DEF OthersCalm, Calm, IterStep
  <1>3. IterStep(o)  BY DEF StartsAt, EndsAt, IterStep
  <1> QED  BY <1>2, <1>3

LEMMA CalmGentle == ASSUME AllCalm PROVE Gentle
  BY DEF AllCalm, Calm, Gentle

LEMMA StartsBusy == ASSUME NEW o \in Ids, StartsAt(o) PROVE Busy'
  BY DEF StartsAt, Busy, Ids, MaxObjects

LEMMA BusyAttended == Busy' => AttendedInv'
  BY DEF AttendedInv

\* Steps that start, end and stall no generator.
LEMMA GentleAttended ==
  ASSUME TypeOK, TypeOK', IterInv, AttendedInv, Gentle, CurStep, up' => up,
         Pending' => Pending, recover' = recover,
         crashRecoveryScheduled' = crashRecoveryScheduled, left' = left,
         spawnInProgress' = spawnInProgress
  PROVE  IterInv' /\ AttendedInv'
  <1>1. IterInv'  BY GentleSteps, IterKept
  <1>2. Busy => Busy'  BY DEF Gentle, Busy, Ids, MaxObjects
  <1>3. Unserved => Unserved'
    <2>1. /\ cur' # 0 => cur' \in Ids
          /\ made \in Nat
      BY BoundsTypes DEF TypeOK, Ids
    <2>2. CASE cur' = 0  BY <2>2 DEF Unserved
    <2>3. CASE cur' # 0 /\ cur' = cur  BY <2>1, <2>3 DEF Unserved, Gentle
    <2>4. CASE cur' # 0 /\ cur' = made + 1
      BY <2>1, <2>4 DEF Unserved, Gentle, IterInv
    <2> QED  BY <2>2, <2>3, <2>4 DEF CurStep
  <1>4. Misled => Misled'  BY <1>3 DEF Misled, Unserved
  <1>5. AttendedInv'  BY <1>2, <1>3, <1>4 DEF AttendedInv
  <1> QED  BY <1>1, <1>5

LEMMA InitializeStep == ASSUME TypeOK, Initialize PROVE CurStep
  BY InitializeFacts DEF CurStep

LEMMA QueueMessageAttended ==
  ASSUME AttendInv, QueueMessage
  PROVE  IterInv' /\ AttendedInv'
  <1> USE DEF AttendInv
  <1>1. /\ TypeOK' /\ Initialize /\ Current \in Ids
    BY QueueMessageFacts
  <1>2. CurStep /\ cur' = Current /\ Current <= made'
    BY <1>1, InitializeStep, InitializeFacts
  <1>3. CASE StartsAt(Current)
    BY <1>1, <1>2, <1>3, StartsSteps, IterKept, StartsBusy, BusyAttended
  <1>4. CASE /\ AllCalm /\ spawnInProgress' = spawnInProgress
             /\ spawnInProgress \/ objs[Current].on
             /\ objs[Current].on /\ objs[Current].it = Current =>
                    objs'[Current].state # "waiting"
    <2>1. IterInv'  BY <1>1, <1>2, <1>4, CalmGentle, GentleSteps, IterKept
    <2>2. CASE objs[Current].on
      <3>1. cur # 0 /\ Current = cur
        BY <1>1, <2>2, BoundsTypes, InitializeFacts DEF IterInv, TypeOK
      <3>2. objs[Current].it = 0 => objs[Current].state # "waiting"
        BY <1>1, <2>2 DEF IterInv
      <3>3. Calm(objs'[Current], objs[Current])  BY <1>1, <1>4 DEF AllCalm
      <3>4. objs'[Current].on /\ objs'[Current].state # "waiting"
        BY <1>4, <2>2, <3>1, <3>2, <3>3 DEF IterInv, Calm
      <3>5. Busy'  BY <1>1, <3>4 DEF Busy, Ids, MaxObjects
      <3> QED  BY <2>1, <3>5, BusyAttended
    <2>3. CASE ~objs[Current].on
      <3>1. Misled'  BY <1>1, <1>2, <1>4, <2>3 DEF Misled, AllCalm, Calm
      <3> QED  BY <2>1, <3>1 DEF AttendedInv
    <2> QED  BY <2>2, <2>3
  <1> QED  BY <1>3, <1>4, QueueMessageFacts

LEMMA InitSessionAttended ==
  ASSUME AttendInv, InitSession
  PROVE  IterInv' /\ AttendedInv'
  <1> USE DEF AttendInv
  <1>1. /\ TypeOK' /\ Initialize /\ Current \in Ids
    BY InitSessionFacts
  <1>2. CurStep /\ cur' = Current /\ Current <= made'
    BY <1>1, InitializeStep, InitializeFacts
  <1>3. CASE StartsAt(Current)
    BY <1>1, <1>2, <1>3, StartsSteps, IterKept, StartsBusy, BusyAttended
  <1>4. CASE AllCalm /\ spawnInProgress' = spawnInProgress /\ left' = left
    <2>1. UNCHANGED <<status, crashRecoveryScheduled, up, recover>>
      BY DEF InitSession, queue
    <2>2. Pending' => Pending  BY <2>1 DEF Pending, Msgs
    <2> QED  BY <1>1, <1>2, <1>4, <2>1, <2>2, CalmGentle, GentleAttended
  <1> QED  BY <1>3, <1>4, InitSessionFacts

LEMMA RecoverAttended ==
  ASSUME AttendInv, NEW atStartup \in BOOLEAN, ProcessPendingQueues(atStartup)
  PROVE  IterInv' /\ AttendedInv'
  <1> USE DEF AttendInv
  <1>1. TypeOK' /\ \A m \in Msgs : status'[m] \in {status[m], "failed"}
    BY RecoverFacts
  <1>2. Pending' => Pending  BY <1>1 DEF Pending, Msgs
  <1>3. CASE Initialize /\ Current \in Ids /\ StartsAt(Current)
    <2>1. CurStep /\ Current <= made'  BY <1>3, InitializeStep, InitializeFacts
    <2> QED  BY <1>1, <1>3, <2>1, StartsSteps, IterKept, StartsBusy, BusyAttended
  <1>4. CASE /\ UNCHANGED <<objs, made, cur, left>>
             /\ (\A m \in Msgs : status'[m] # "pending") \/ (cur # 0 /\ objs[cur].on)
    <2>1. UNCHANGED <<spawnInProgress, crashRecoveryScheduled, up>>
      BY DEF ProcessPendingQueues
    <2>2. IterInv'  BY <1>4 DEF IterInv, Ids, MaxObjects
    <2>3. CASE \A m \in Msgs : status'[m] # "pending"
      <3>1. ~Pending'  BY <2>3 DEF Pending, Msgs
      <3> QED  BY <2>2, <3>1 DEF AttendedInv
    <2>4. CASE cur # 0 /\ objs[cur].on
      <3>1. ~Unserved /\ ~Misled  BY <2>4 DEF Unserved, Misled
      <3>2. Busy => Busy'  BY <1>4 DEF Busy, Ids, MaxObjects
      <3> QED  BY <1>2, <1>4, <2>1, <2>2, <3>1, <3>2 DEF AttendedInv
    <2> QED  BY <1>4, <2>3, <2>4
  <1> QED  BY <1>3, <1>4, RecoverFacts

LEMMA CrashRecoveryAttended ==
  ASSUME AttendInv, CrashRecovery
  PROVE  IterInv' /\ AttendedInv'
  <1> USE DEF AttendInv
  <1>1. TypeOK' /\ UNCHANGED <<status, made, cur>>
    BY CrashRecoveryFacts DEF CrashRecovery, queue
  <1>2. /\ cur # 0 => cur \in Ids /\ cur <= made
        /\ made \in Nat
    BY BoundsTypes DEF TypeOK, Ids
  <1>3. CurStep  BY <1>1, <1>2 DEF CurStep
  <1>4. CASE cur # 0 /\ StartsAt(cur)
    BY <1>1, <1>2, <1>3, <1>4, StartsSteps, IterKept, StartsBusy, BusyAttended
  <1>5. CASE /\ objs' = objs /\ (cur # 0 => objs[cur].on)
             /\ left' = \/ left
                        \/ /\ Waiting(status) # {}
                           /\ cur = 0 \/ objs[cur].state = "waiting"
    <2>1. IterInv'  BY <1>1, <1>5 DEF IterInv, Ids, MaxObjects
    <2>2. Pending' => Waiting(status) # {}  BY <1>1 DEF Pending, Waiting, Msgs
    <2>3. CASE cur # 0 /\ objs[cur].state # "waiting"
      <3>1. Busy'  BY <1>2, <1>5, <2>3 DEF Busy, Ids, MaxObjects
      <3> QED  BY <2>1, <3>1, BusyAttended
    <2>4. CASE cur = 0 \/ objs[cur].state = "waiting"
      <3>1. Pending' => left'  BY <1>5, <2>2, <2>4
      <3> QED  BY <2>1, <3>1 DEF AttendedInv
    <2> QED  BY <2>3, <2>4
  <1> QED  BY <1>4, <1>5, CrashRecoveryFacts

LEMMA PullAttended ==
  ASSUME AttendInv, NEW o \in Ids, Pull(o)
  PROVE  IterInv' /\ AttendedInv'
  <1> USE DEF AttendInv
  <1>1. /\ TypeOK' /\ objs[o].on /\ objs'[o].on
        /\ \A i \in Ids \ {o} : objs'[i] = objs[i]
        /\ \/ objs[o].it # 0 /\ objs'[o].it = objs[o].it /\ UNCHANGED <<made, cur>>
           \/ Initialize /\ Current \in Ids /\ objs'[o].it = Current
    BY PullFacts
  <1>2. made \in Nat /\ made' \in Nat /\ Ids \subseteq Nat /\ 0 \notin Ids
    BY <1>1, BoundsTypes DEF TypeOK
  <1>3. o <= made  BY <1>1 DEF IterInv
  <1>4. ASSUME Initialize, Current \in Ids, objs'[o].it = Current  PROVE  IterInv'
    <2>1. /\ cur' = Current /\ made <= made'
          /\ cur = 0 => Current = made + 1
          /\ cur # 0 => Current = cur
      BY <1>4, InitializeFacts
    <2>2. \A i \in Ids : objs'[i].on => i <= made'
      BY <1>1, <1>2, <1>3, <2>1 DEF IterInv
    <2>3. \A i \in Ids : objs'[i].on /\ objs'[i].state = "waiting" => objs'[i].it # 0
      BY <1>1, <1>2, <1>4 DEF IterInv
    <2>4. cur' # 0 /\ objs'[cur'].on => objs'[cur'].it \in {0, cur'}
      <3>1. CASE cur' = o  BY <1>4, <2>1, <3>1
      <3>2. CASE cur' # o /\ cur # 0
        BY <1>1, <1>4, <2>1, <3>2 DEF IterInv
      <3>3. CASE cur' # o /\ cur = 0
        <4>1. cur' = made + 1 /\ cur' \in Ids  BY <1>4, <3>3, InitializeFacts
        <4>2. ~objs[cur'].on  BY <1>2, <4>1 DEF IterInv
        <4> QED  BY <1>1, <3>3, <4>1, <4>2
      <3> QED  BY <3>1, <3>2, <3>3
    <2> QED  BY <2>2, <2>3, <2>4 DEF IterInv, Ids, MaxObjects
  <1>5. ASSUME objs[o].it # 0, objs'[o].it = objs[o].it, UNCHANGED <<made, cur>>
        PROVE  IterInv'
    <2>1. \A i \in Ids : objs'[i].on => i <= made'
      BY <1>1, <1>3, <1>5 DEF IterInv
    <2>2. \A i \in Ids : objs'[i].on /\ objs'[i].state = "waiting" => objs'[i].it # 0
      BY <1>1, <1>5 DEF IterInv
    <2>3. cur' # 0 /\ objs'[cur'].on => objs'[cur'].it \in {0, cur'}
      BY <1>1, <1>5, TypeFacts DEF IterInv
    <2> QED  BY <2>1, <2>2, <2>3 DEF IterInv, Ids, MaxObjects
  <1>6. IterInv'  BY <1>1, <1>4, <1>5
  <1>7. Busy' \/ ~Pending'
    <2>1. CASE objs'[o].state # "waiting"  BY <1>1, <2>1 DEF Busy, Ids, MaxObjects
    <2>2. CASE objs'[o].state = "waiting"
      <3>1. ClaimsNothing(o)  BY <2>2, PullFacts DEF Claims
      <3>2. Claimable = {} /\ status' = status  BY <2>2, <3>1 DEF ClaimsNothing
      <3> QED  BY <3>2 DEF Claimable, Pending, Msgs
    <2> QED  BY <2>1, <2>2
  <1> QED  BY <1>6, <1>7, BusyAttended DEF AttendedInv

LEMMA EndAttended ==
  ASSUME AttendInv, NEW o \in Ids, Return(o) \/ Throw(o)
  PROVE  IterInv' /\ AttendedInv'
  <1> USE DEF AttendInv
  <1>1. TypeOK' /\ objs[o].on /\ cur' \in {0, cur} /\ made' = made  BY EndFacts
  <1>2. made \in Nat  BY BoundsTypes DEF TypeOK
  <1>3. CurStep /\ o <= made'  BY <1>1, <1>2 DEF CurStep, IterInv
  <1>4. StartsAt(o) \/ EndsAt(o)  BY EndFacts
  <1>5. IterInv'  BY <1>1, <1>3, <1>4, StartsSteps, IterKept
  <1>6. CASE StartsAt(o)  BY <1>5, <1>6, StartsBusy, BusyAttended
  <1>7. CASE (\E m \in Msgs : status'[m] = "pending") => left' \/ crashRecoveryScheduled'
    BY <1>5, <1>7 DEF AttendedInv, Pending, Msgs
  <1> QED  BY <1>6, <1>7, EndFacts

\* The agents' answers, timeouts and overflows, ageing rows and deletions.
LEMMA GentleNext ==
  ASSUME AttendInv,
         \/ DeleteSession \/ (\E m \in Msgs : Age(m)) \/ UNCHANGED vars
         \/ \E o \in Ids : \/ IdleTimeout(o) \/ Respond(o) \/ RespondEmpty(o)
                           \/ Overflow(o)
         \/ \E g \in strays : StrayPull(g) \/ StrayIdle(g)
  PROVE  IterInv' /\ AttendedInv'
  <1> USE DEF AttendInv
  <1>1. made \in Nat  BY BoundsTypes DEF TypeOK
  <1>2. CASE DeleteSession
    <2>1. TypeOK' /\ Gentle /\ cur' \in {0, cur}  BY <1>2, DeleteFacts, CalmGentle
    <2>2. UNCHANGED <<status, made, up, recover, crashRecoveryScheduled, left,
                      spawnInProgress>>
      BY <1>2 DEF DeleteSession, queue
    <2>3. CurStep  BY <1>1, <2>1, <2>2 DEF CurStep
    <2>4. Pending' => Pending  BY <2>2 DEF Pending, Msgs
    <2> QED  BY <2>1, <2>2, <2>3, <2>4, GentleAttended
  <1>3. ASSUME TypeOK', Gentle, Pending' => Pending,
               UNCHANGED <<made, cur, up, recover, crashRecoveryScheduled, left,
                           spawnInProgress>>
        PROVE  IterInv' /\ AttendedInv'
    <2>1. CurStep  BY <1>1, <1>3 DEF CurStep
    <2> QED  BY <1>3, <2>1, GentleAttended
  <1>4. CASE (\E m \in Msgs : Age(m)) \/ UNCHANGED vars
    <2>1. UNCHANGED <<status, objs, made, cur, up, recover, crashRecoveryScheduled, left,
                      spawnInProgress>>
      BY <1>4 DEF Age, session, vars
    <2>2. Gentle /\ (Pending' => Pending)  BY <2>1 DEF Gentle, Pending, Msgs
    <2>3. TypeOK'  BY <1>4, AgeFacts, TypesNext
    <2> QED  BY <1>3, <2>1, <2>2, <2>3
  <1>5. ASSUME NEW o \in Ids, IdleTimeout(o)  PROVE  IterInv' /\ AttendedInv'
    <2>1. UNCHANGED <<status, made, cur, up, recover, crashRecoveryScheduled, left,
                      spawnInProgress>> /\ objs[o].on
      BY <1>5 DEF IdleTimeout, queue
    <2>2. objs[o].on \in BOOLEAN /\ objs'[o].on \in BOOLEAN
      BY <1>5, IdleFacts DEF TypeOK, Object, Ids, MaxObjects
    <2>3. objs'[o].on = objs[o].on  BY <1>5, <2>1, <2>2, IdleFacts
    <2>4. Gentle  BY <1>5, <2>3, IdleFacts DEF Gentle, OthersCalm, Calm
    <2>5. Pending' => Pending  BY <2>1 DEF Pending, Msgs
    <2>6. TypeOK'  BY <1>5, IdleFacts
    <2> QED  BY <1>3, <2>1, <2>4, <2>5, <2>6
  <1>6. ASSUME NEW o \in Ids, Answers(o)  PROVE  Gentle
    BY <1>6 DEF Answers, Gentle, OthersCalm, Calm
  <1>7. ASSUME NEW o \in Ids, Respond(o)  PROVE  IterInv' /\ AttendedInv'
    <2>1. UNCHANGED <<made, cur, up, recover, crashRecoveryScheduled, left,
                      spawnInProgress>> /\ status' = Confirmed(o)
      BY <1>7 DEF Respond
    <2>2. TypeOK' /\ Gentle  BY <1>6, <1>7, RespondFacts
    <2>3. Pending' => Pending  BY <2>1 DEF Pending, Msgs, Confirmed
    <2> QED  BY <1>3, <2>1, <2>2, <2>3
  <1>8. ASSUME NEW o \in Ids, RespondEmpty(o)  PROVE  IterInv' /\ AttendedInv'
    <2>1. UNCHANGED <<status, made, cur, up, recover, crashRecoveryScheduled, left,
                      spawnInProgress>>
      BY <1>8 DEF RespondEmpty, queue
    <2>2. TypeOK' /\ Gentle  BY <1>6, <1>8, RespondEmptyFacts
    <2>3. Pending' => Pending  BY <2>1 DEF Pending, Msgs
    <2> QED  BY <1>3, <2>1, <2>2, <2>3
  <1>9. ASSUME NEW o \in Ids, Overflow(o)  PROVE  IterInv' /\ AttendedInv'
    <2>1. UNCHANGED <<status, made, cur, up, recover, crashRecoveryScheduled, left,
                      spawnInProgress>>
      BY <1>9 DEF Overflow, queue
    <2>2. TypeOK' /\ Gentle
      BY <1>9, OverflowFacts DEF Gentle, OthersCalm, Calm
    <2>3. Pending' => Pending  BY <2>1 DEF Pending, Msgs
    <2> QED  BY <1>3, <2>1, <2>2, <2>3
  <1>10. ASSUME NEW g \in strays, StrayIdle(g)  PROVE  IterInv' /\ AttendedInv'
    <2>1. UNCHANGED <<status, made, cur, up, recover, crashRecoveryScheduled, left,
                      spawnInProgress>>
      BY <1>10 DEF StrayIdle, queue
    <2>2. TypeOK' /\ Gentle  BY <1>10, StrayIdleFacts, CalmGentle
    <2>3. Pending' => Pending  BY <2>1 DEF Pending, Msgs
    <2> QED  BY <1>3, <2>1, <2>2, <2>3
  <1>11. ASSUME NEW g \in strays, StrayPull(g)  PROVE  IterInv' /\ AttendedInv'
    <2>1. /\ TypeOK' /\ Gentle
          /\ UNCHANGED <<made, cur, spawnInProgress, crashRecoveryScheduled, up, recover>>
      BY <1>11, StrayPullFacts DEF Gentle
    <2>2. CASE UNCHANGED <<status, objs, handed, healed, unread, left, sent>>
      <3>1. Pending' => Pending  BY <2>2 DEF Pending, Msgs
      <3> QED  BY <1>3, <2>1, <2>2, <3>1
    <2>3. CASE \E m \in Msgs : StrayClaims(g.of, m)
      <3>1. PICK m \in Msgs : StrayClaims(g.of, m)  BY <2>3
      <3>2. status' = Claimed(m) /\ left' = (left \/ SelfHealed \ {m} # {})
        BY <3>1 DEF StrayClaims
      <3>3. CASE SelfHealed \ {m} = {}
        <4>1. Pending' => Pending  BY <3>2, <3>3 DEF Pending, Claimed, Msgs
        <4>2. left' = left  BY <3>2, <3>3 DEF TypeOK
        <4> QED  BY <1>3, <2>1, <4>1, <4>2
      <3>4. CASE SelfHealed \ {m} # {}
        <4>1. left'  BY <3>2, <3>4
        <4>2. CurStep  BY <1>1, <2>1 DEF CurStep
        <4>3. IterInv'  BY <2>1, <4>2, GentleSteps, IterKept
        <4> QED  BY <4>1, <4>3 DEF AttendedInv
      <3> QED  BY <3>3, <3>4
    <2> QED  BY <1>11, <2>2, <2>3, StrayPullFacts
  <1> QED  BY <1>2, <1>4, <1>5, <1>7, <1>8, <1>9, <1>10, <1>11

LEMMA AttendInit == Init => AttendInv
  <1> SUFFICES ASSUME Init PROVE AttendInv  OBVIOUS
  <1>1. TypeOK /\ DownInv  BY MessagesInit DEF MessagesInv
  <1>2. \A o \in Ids : ~objs[o].on  BY FreshFacts DEF Init
  <1>3. IterInv  BY <1>2 DEF IterInv, Init
  <1>4. AttendedInv  BY DEF AttendedInv, Init
  <1> QED  BY <1>1, <1>3, <1>4 DEF AttendInv

LEMMA AttendNext ==
  ASSUME AttendInv, [Next]_vars
  PROVE  AttendInv'
  <1>1. TypeOK' /\ DownInv'  BY TypesNext, DownNext DEF AttendInv
  <1>2. CASE Crash
    <2>1. up' = FALSE /\ cur' = 0  BY <1>2 DEF Crash
    <2>2. \A o \in Ids : ~objs'[o].on  BY <1>2, CrashFacts, FreshFacts DEF AttendInv
    <2>3. IterInv'  BY <2>1, <2>2 DEF IterInv, Ids, MaxObjects
    <2> QED  BY <1>1, <2>1, <2>3 DEF AttendInv, AttendedInv
  <1>3. CASE Start
    <2>1. ~up /\ recover' = TRUE /\ UNCHANGED <<objs, made, cur>>
      BY <1>3 DEF Start, session
    <2>2. cur' = 0  BY <2>1 DEF AttendInv, DownInv
    <2>3. IterInv'  BY <2>1 DEF AttendInv, IterInv, Ids, MaxObjects
    <2>4. AttendedInv'  BY <2>1, <2>2 DEF AttendedInv, Unserved
    <2> QED  BY <1>1, <2>3, <2>4 DEF AttendInv
  <1>4. CASE ProcessPendingQueues(TRUE) \/ ProcessPendingQueues(FALSE)
    BY <1>1, <1>4, RecoverAttended, TRUE \in BOOLEAN, FALSE \in BOOLEAN DEF AttendInv
  <1>5. CASE QueueMessage \/ InitSession \/ CrashRecovery
    BY <1>1, <1>5, QueueMessageAttended, InitSessionAttended, CrashRecoveryAttended
    DEF AttendInv
  <1>6. CASE \E o \in Ids : Pull(o) \/ Return(o) \/ Throw(o)
    BY <1>1, <1>6, PullAttended, EndAttended DEF AttendInv
  <1>7. CASE \/ DeleteSession \/ (\E m \in Msgs : Age(m)) \/ UNCHANGED vars
             \/ \E o \in Ids : \/ IdleTimeout(o) \/ Respond(o) \/ RespondEmpty(o)
                               \/ Overflow(o)
             \/ \E g \in strays : StrayPull(g) \/ StrayIdle(g)
    BY <1>1, <1>7, GentleNext DEF AttendInv
  <1> QED  BY <1>2, <1>3, <1>4, <1>5, <1>6, <1>7 DEF Next

\* Whatever crashes, ends, deletions and idle timeouts a session sees, a pending
\* message has a recovery, a timer or a generator that will look at it, or it is one
\* of the exceptions Attended names.  The inductive invariant needs that the
\* generator of the object in the map iterates over that object (queueObservation
\* wakes the emitter of the session in the map).
THEOREM PendingAttended == Spec => []Attended
  <1>1. AttendInv /\ [Next]_vars => AttendInv'  BY AttendNext
  <1>2. AttendInv => Attended
    BY DEF AttendInv, AttendedInv, Attended, Pending, Busy
  <1> QED  BY AttendInit, <1>1, <1>2, PTL DEF Spec
=============================================================================
