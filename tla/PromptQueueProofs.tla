------------------------- MODULE PromptQueueProofs --------------------------
(***************************************************************************)
(* Proofs about PromptQueue: its types, and that no queued prompt is lost. *)
(***************************************************************************)
EXTENDS PromptQueue, FiniteSetTheorems, TLAPS

\* The queue that was rendered is the one that was saved; a page that has not
\* rendered yet holds the saved queue and awaits no answer.
Saved ==
    IF r.session = None
    THEN runQueue = storage[savedSession] /\ \A f \in flights : f.gone
    ELSE r.queue = storage[savedSession]

\* A request nobody hears of is only on its way; a prompt that was not queued
\* is Direct; and what was accepted is among the runs.
FlightOk(f) == /\ f.gone => f.is = "sent"
               /\ ~f.queued => f.p = Direct
               /\ f.is = "ran" => f.p \in InSeq(runs)

QueueInv == /\ TypeOK /\ IsFiniteSet(flights)
            /\ Saved
            /\ \A f \in flights : FlightOk(f)
            /\ NothingLost

-----------------------------------------------------------------------------
(* Sequences of prompts.                                                   *)

\* The members of a sequence with an element more or less at either end.
LEMMA Members ==
    ASSUME NEW q \in Seq(Nat), NEW p \in Nat
    PROVE  /\ Append(q, p) \in Seq(Nat) /\ InSeq(Append(q, p)) = InSeq(q) \cup {p}
           /\ <<p>> \o q \in Seq(Nat) /\ InSeq(<<p>> \o q) = InSeq(q) \cup {p}
  <1>1. Append(q, p) \in Seq(Nat) /\ InSeq(Append(q, p)) = InSeq(q) \cup {p}
    <2>1. /\ Append(q, p) \in Seq(Nat) /\ Len(Append(q, p)) = Len(q) + 1
          /\ \A i \in 1..Len(q) : Append(q, p)[i] = q[i]
          /\ Append(q, p)[Len(q) + 1] = p
      OBVIOUS
    <2>2. /\ DOMAIN q = 1..Len(q) /\ DOMAIN Append(q, p) = 1..(Len(q) + 1) /\ Len(q) \in Nat
      BY <2>1
    <2>3. InSeq(Append(q, p)) \subseteq InSeq(q) \cup {p}
      BY <2>1, <2>2 DEF InSeq
    <2>4. InSeq(q) \subseteq InSeq(Append(q, p))
      BY <2>1, <2>2 DEF InSeq
    <2>5. p \in InSeq(Append(q, p))
      BY <2>1, <2>2 DEF InSeq
    <2> QED BY <2>1, <2>3, <2>4, <2>5
  <1>2. <<p>> \o q \in Seq(Nat) /\ InSeq(<<p>> \o q) = InSeq(q) \cup {p}
    <2> DEFINE c == <<p>> \o q
    <2>1. /\ c \in Seq(Nat) /\ Len(c) = Len(q) + 1 /\ c[1] = p
          /\ \A i \in 1..Len(q) : c[i + 1] = q[i]
      OBVIOUS
    <2>2. /\ DOMAIN q = 1..Len(q) /\ DOMAIN c = 1..(Len(q) + 1) /\ Len(q) \in Nat
      BY <2>1
    <2> HIDE DEF c
    <2>3. InSeq(c) \subseteq InSeq(q) \cup {p}
      <3> SUFFICES ASSUME NEW i \in 1..(Len(q) + 1) PROVE c[i] \in InSeq(q) \cup {p}
        BY <2>2 DEF InSeq
      <3>1. CASE i = 1
        BY <3>1, <2>1
      <3>2. CASE i # 1
        <4>1. i - 1 \in 1..Len(q) /\ (i - 1) + 1 = i
          BY <3>2, <2>2
        <4> QED BY <4>1, <2>1, <2>2 DEF InSeq
      <3> QED BY <3>1, <3>2
    <2>4. InSeq(q) \subseteq InSeq(c)
      <3> SUFFICES ASSUME NEW i \in 1..Len(q) PROVE q[i] \in InSeq(c)
        BY <2>2 DEF InSeq
      <3>1. i + 1 \in 1..(Len(q) + 1) /\ c[i + 1] = q[i]
        BY <2>1, <2>2
      <3> QED BY <3>1, <2>2 DEF InSeq
    <2>5. p \in InSeq(c)
      BY <2>1, <2>2 DEF InSeq
    <2> QED BY <2>1, <2>3, <2>4, <2>5 DEF c
  <1> QED BY <1>1, <1>2

\* Taking the first prompt out loses none.
LEMMA HeadAndTail ==
    ASSUME NEW q \in Seq(Nat), q # <<>>
    PROVE  /\ Head(q) \in Nat /\ Tail(q) \in Seq(Nat)
           /\ InSeq(q) \subseteq InSeq(Tail(q)) \cup {Head(q)}
  <1>1. /\ Len(q) \in Nat /\ Len(q) > 0 /\ DOMAIN q = 1..Len(q) /\ Head(q) = q[1]
        /\ Tail(q) \in Seq(Nat) /\ Len(Tail(q)) = Len(q) - 1
        /\ \A i \in 1..(Len(q) - 1) : Tail(q)[i] = q[i + 1]
    OBVIOUS
  <1>2. DOMAIN Tail(q) = 1..(Len(q) - 1)
    BY <1>1
  <1>3. ASSUME NEW i \in 1..Len(q) PROVE q[i] \in InSeq(Tail(q)) \cup {Head(q)}
    <2>1. CASE i = 1
      BY <2>1, <1>1
    <2>2. CASE i # 1
      <3>1. i - 1 \in 1..(Len(q) - 1) /\ (i - 1) + 1 = i
        BY <2>2, <1>1
      <3> QED BY <3>1, <1>1, <1>2 DEF InSeq
    <2> QED BY <2>1, <2>2
  <1> QED BY <1>1, <1>3 DEF InSeq
-----------------------------------------------------------------------------
(* Requests.                                                               *)

\* A new request is on its way and will be heard of.
LEMMA Mutated ==
    ASSUME flights \subseteq Flight, IsFiniteSet(flights),
           NEW p \in Nat, NEW queued \in BOOLEAN, Mutate(p, queued)
    PROVE  /\ latest' \in Nat /\ dirty' = TRUE /\ IsFiniteSet(flights')
           /\ \E f \in Flight : /\ flights' = flights \cup {f} /\ f.p = p
                               /\ f.queued = queued /\ ~f.gone /\ f.is = "sent"
  <1>1. Cardinality(flights) \in Nat
    BY FS_CardinalityType
  <1>2. PICK n \in 1..(Cardinality(flights) + 1) :
            /\ flights' = flights \cup {[id |-> n, p |-> p, queued |-> queued,
                                         gone |-> FALSE, is |-> "sent", run |-> 0]}
            /\ latest' = n /\ dirty' = TRUE
    BY DEF Mutate
  <1>3. n \in Nat
    BY <1>1
  <1>4. IsFiniteSet(flights')
    BY <1>2, FS_AddElement
  <1>5. [id |-> n, p |-> p, queued |-> queued, gone |-> FALSE, is |-> "sent",
         run |-> 0] \in Flight
    BY <1>3 DEF Flight, Prompt
  <1> QED BY <1>2, <1>3, <1>4, <1>5

\* A request that changes stays a request for the same prompt.
LEMMA Became ==
    ASSUME flights \subseteq Flight, IsFiniteSet(flights), NEW f \in flights,
           NEW what \in {"sent", "ran", "refused", "failed"}, NEW run \in Nat,
           Becomes(f, what, run)
    PROVE  /\ flights' \subseteq Flight /\ IsFiniteSet(flights')
           /\ \E g \in Flight : /\ flights' = (flights \ {f}) \cup {g} /\ g.p = f.p
                               /\ g.queued = f.queued /\ g.gone = f.gone /\ g.is = what
  <1> DEFINE g == [f EXCEPT !.is = what, !.run = run]
  <1>1. /\ g \in Flight /\ g.p = f.p /\ g.queued = f.queued /\ g.gone = f.gone
        /\ g.is = what
    BY DEF Flight
  <1>2. flights' = (flights \ {f}) \cup {g}
    BY DEF Becomes
  <1>3. IsFiniteSet(flights')
    BY <1>2, FS_AddElement, FS_RemoveElement
  <1> QED BY <1>1, <1>2, <1>3

\* An answered request is gone.
LEMMA Answered ==
    ASSUME TypeOK, IsFiniteSet(flights), NEW f \in flights, Settle(f)
    PROVE  /\ flights' = flights \ {f} /\ flights' \subseteq Flight
           /\ IsFiniteSet(flights') /\ latest' \in Nat /\ dirty' = TRUE
           /\ dequeueInFlightRef' \in BOOLEAN
  <1>1. IsFiniteSet(flights \ {f})
    BY FS_RemoveElement
  <1>2. flights' = flights \ {f} /\ flights \subseteq Flight
    BY DEF TypeOK, Settle
  <1>3. latest' \in Nat /\ dirty' = TRUE
    BY DEF TypeOK, Settle
  <1>4. dequeueInFlightRef' \in BOOLEAN
    BY Zenon DEF TypeOK, Settle
  <1> QED BY <1>1, <1>2, <1>3, <1>4

-----------------------------------------------------------------------------
(* Every step keeps the invariant.                                         *)

LEMMA QueueInvInit == Init => QueueInv
  <1> SUFFICES ASSUME Init PROVE QueueInv
    OBVIOUS
  <1>1. TypeOK
    <2>1. dequeueInFlightRef \in BOOLEAN /\ dirty \in BOOLEAN /\ useAsync \in BOOLEAN
      BY Zenon DEF Init
    <2>2. r \in [queue : Seq(Nat), active : Nat, pending : BOOLEAN,
                 session : Sessions \cup {None}]
      BY DEF Init, Blank
    <2>3. /\ runQueue \in Seq(Nat) /\ runs \in Seq(Nat) /\ flights \subseteq Flight
          /\ storage \in [Sessions -> Seq(Nat)] /\ jobStore \in [Sessions -> Nat]
      BY DEF Init
    <2>4. faults \in 0..MaxFaults
      BY QueueBounds DEF Init
    <2> QED BY <2>1, <2>2, <2>3, <2>4, QueueSessions DEF Init, TypeOK, Prompt
  <1>2. IsFiniteSet(flights) /\ \A f \in flights : FlightOk(f)
    BY FS_EmptySet DEF Init
  <1>3. Saved
    BY QueueSessions DEF Init, Saved, Blank
  <1>4. NothingLost
    BY DEF Init, NothingLost
  <1> QED BY <1>1, <1>2, <1>3, <1>4 DEF QueueInv

LEMMA EnqueueKeeps == QueueInv /\ Enqueue => QueueInv'
  <1> SUFFICES ASSUME QueueInv, Enqueue PROVE QueueInv'
    OBVIOUS
  <1> USE DEF QueueInv
  <1>1. made \in Nat /\ made + 1 \in Nat /\ runQueue \in Seq(Nat)
    BY DEF TypeOK, Prompt
  <1>2. /\ runQueue' \in Seq(Nat) /\ InSeq(runQueue') = InSeq(runQueue) \cup {made + 1}
        /\ made' = made + 1
    BY <1>1, Members DEF Enqueue
  <1>3. TypeOK'
    BY <1>1, <1>2 DEF TypeOK, Enqueue, browser, daemon, verdicts, Prompt
  <1>4. IsFiniteSet(flights)' /\ Saved'
    BY DEF Enqueue, Saved, browser
  <1>5. \A f \in flights' : FlightOk(f)'
    BY DEF Enqueue, FlightOk, daemon
  <1>6. 1..made' \subseteq (1..made) \cup {made + 1}
    BY <1>1, <1>2
  <1>7. NothingLost'
    BY <1>2, <1>6 DEF NothingLost, Enqueue, daemon, verdicts
  <1> QED BY <1>3, <1>4, <1>5, <1>7

LEMMA RunDirectKeeps == QueueInv /\ RunDirect => QueueInv'
  <1> SUFFICES ASSUME QueueInv, RunDirect PROVE QueueInv'
    OBVIOUS
  <1> USE DEF QueueInv
  <1>1. Mutate(Direct, FALSE) /\ Direct \in Nat /\ flights \subseteq Flight
    BY DEF RunDirect, Direct, TypeOK
  <1>2. latest' \in Nat /\ dirty' = TRUE /\ IsFiniteSet(flights')
    BY <1>1, Mutated
  <1>3. PICK f \in Flight : /\ flights' = flights \cup {f} /\ f.p = Direct
                            /\ f.queued = FALSE /\ ~f.gone /\ f.is = "sent"
    BY <1>1, Mutated
  <1>4. TypeOK'
    BY <1>2, <1>3 DEF TypeOK, RunDirect, browser, daemon, verdicts
  <1>5. Saved'
    BY DEF RunDirect, Saved, browser
  <1>6. \A g \in flights' : FlightOk(g)'
    BY <1>3 DEF RunDirect, FlightOk, daemon
  <1>7. NothingLost'
    BY <1>3 DEF NothingLost, RunDirect, daemon, verdicts
  <1> QED BY <1>2, <1>4, <1>5, <1>6, <1>7

LEMMA RenderKeeps == QueueInv /\ Render => QueueInv'
  <1> SUFFICES ASSUME QueueInv, Render PROVE QueueInv'
    OBVIOUS
  <1> USE DEF QueueInv
  <1>1. /\ runQueue \in Seq(Nat) /\ flights \subseteq Flight /\ sessionId \in Sessions
        /\ storage \in [Sessions -> Seq(Nat)] /\ sessionId # None
    BY QueueSessions DEF TypeOK, Prompt
  <1>2. /\ storage' \in [Sessions -> Seq(Nat)] /\ storage'[sessionId] = runQueue
        /\ savedSession' = sessionId
    BY <1>1 DEF Render, Save
  <1>3. /\ r' = View /\ r'.session = sessionId /\ r'.queue = runQueue
        /\ r' \in [queue : Seq(Prompt), active : Nat, pending : BOOLEAN,
                    session : Sessions \cup {None}]
    BY <1>1 DEF Render, View, TypeOK, Prompt
  <1>4. Saved'
    BY <1>1, <1>2, <1>3 DEF Saved
  <1>5. checking' \in Nat
    BY <1>1 DEF Render, TypeOK
  <1>6. CASE CanDequeue
    <2>1. /\ Mutate(Head(runQueue), TRUE) /\ runQueue' = Tail(runQueue)
          /\ dequeueInFlightRef' = TRUE /\ runQueue # <<>>
      BY <1>6 DEF Render, CanDequeue
    <2>2. /\ Head(runQueue) \in Nat /\ runQueue' \in Seq(Nat)
          /\ InSeq(runQueue) \subseteq InSeq(runQueue') \cup {Head(runQueue)}
      BY <1>1, <2>1, HeadAndTail
    <2>3. latest' \in Nat /\ dirty' = TRUE /\ IsFiniteSet(flights')
      BY <1>1, <2>1, <2>2, Mutated
    <2>4. PICK f \in Flight : /\ flights' = flights \cup {f} /\ f.p = Head(runQueue)
                              /\ f.queued = TRUE /\ ~f.gone /\ f.is = "sent"
      BY <1>1, <2>1, <2>2, Mutated
    <2>5. TypeOK'
      BY <1>1, <1>2, <1>3, <1>5, <2>1, <2>2, <2>3, <2>4
      DEF TypeOK, Render, daemon, history, verdicts, Prompt
    <2>6. \A g \in flights' : FlightOk(g)'
      BY <2>4 DEF Render, FlightOk, daemon
    <2>7. NothingLost'
      BY <2>2, <2>4 DEF NothingLost, Render, daemon, history, verdicts
    <2> QED BY <1>4, <2>3, <2>5, <2>6, <2>7
  <1>7. CASE ~CanDequeue
    <2>1. /\ dirty' = FALSE
          /\ UNCHANGED <<runQueue, latest, dequeueInFlightRef, flights, daemon, history>>
      BY <1>7 DEF Render
    <2>2. TypeOK'
      BY <1>1, <1>2, <1>3, <1>5, <2>1
      DEF TypeOK, Render, daemon, history, verdicts, Prompt
    <2>3. \A g \in flights' : FlightOk(g)'
      BY <2>1 DEF FlightOk, daemon
    <2>4. NothingLost'
      BY <2>1 DEF NothingLost, daemon, history, verdicts
    <2> QED BY <1>4, <2>1, <2>2, <2>3, <2>4
  <1> QED BY <1>6, <1>7

LEMMA AcceptKeeps == ASSUME QueueInv, NEW f \in flights, Accept(f) PROVE QueueInv'
  <1> USE DEF QueueInv
  <1>1. /\ f \in Flight /\ f.p \in Nat /\ runs \in Seq(Nat) /\ Len(runs) + 1 \in Nat
        /\ flights \subseteq Flight
    BY DEF TypeOK, Flight, Prompt
  <1>2. runs' \in Seq(Nat) /\ InSeq(runs') = InSeq(runs) \cup {f.p}
    BY <1>1, Members DEF Accept
  <1>3. /\ flights' \subseteq Flight /\ IsFiniteSet(flights')
        /\ flights' \subseteq flights \/ \E g \in Flight :
               flights' = (flights \ {f}) \cup {g} /\ g.p = f.p /\ ~g.gone /\ g.is = "ran"
                   /\ g.queued = f.queued
        /\ flights \ {f} \subseteq flights'
    <2>1. CASE f.gone
      <3>1. flights' = flights \ {f}
        BY <2>1 DEF Accept
      <3> QED BY <3>1, <1>1, FS_RemoveElement
    <2>2. CASE ~f.gone
      <3>1. Becomes(f, "ran", Len(runs) + 1)
        BY <2>2 DEF Accept
      <3> QED BY <3>1, <1>1, <2>2, Became
    <2> QED BY <2>1, <2>2
  <1>4. TypeOK'
    BY <1>1, <1>2, <1>3
    DEF TypeOK, Accept, state, browser, history, verdicts, Prompt
  <1>5. Saved'
    BY <1>3 DEF Saved, Accept, state, browser, FlightOk
  <1>6. \A g \in flights' : FlightOk(g)'
    BY <1>2, <1>3 DEF FlightOk
  <1>7. NothingLost'
    BY <1>2, <1>3 DEF NothingLost, Accept, state, history, verdicts
  <1> QED BY <1>3, <1>4, <1>5, <1>6, <1>7

LEMMA RefuseKeeps == ASSUME QueueInv, NEW f \in flights, Refuse(f) PROVE QueueInv'
  <1> USE DEF QueueInv
  <1>1. Becomes(f, "refused", 0) /\ ~f.gone /\ flights \subseteq Flight
    BY DEF Refuse, TypeOK
  <1>2. PICK g \in Flight : /\ flights' = (flights \ {f}) \cup {g} /\ g.p = f.p
                            /\ g.queued = f.queued /\ ~g.gone /\ g.is = "refused"
    BY <1>1, Became
  <1>3. flights' \subseteq Flight /\ IsFiniteSet(flights')
    BY <1>1, Became
  <1>4. faults' \in 0..MaxFaults
    BY QueueBounds DEF TypeOK, Refuse
  <1>5. TypeOK'
    BY <1>3, <1>4 DEF TypeOK, Refuse, state, browser, daemon, history, verdicts
  <1>6. Saved'
    BY <1>1 DEF Saved, Refuse, state, browser
  <1>7. \A h \in flights' : FlightOk(h)'
    BY <1>2 DEF FlightOk, Refuse, daemon
  <1>8. NothingLost'
    BY <1>2 DEF NothingLost, Refuse, state, daemon, history, verdicts
  <1> QED BY <1>3, <1>5, <1>6, <1>7, <1>8

LEMMA FailKeeps == ASSUME QueueInv, NEW f \in flights, Fail(f) PROVE QueueInv'
  <1> USE DEF QueueInv
  <1>1. Becomes(f, "failed", 0) /\ ~f.gone /\ flights \subseteq Flight /\ f.p \in Nat
    BY DEF Fail, TypeOK, Flight, Prompt
  <1>2. PICK g \in Flight : /\ flights' = (flights \ {f}) \cup {g} /\ g.p = f.p
                            /\ g.queued = f.queued /\ ~g.gone /\ g.is = "failed"
    BY <1>1, Became
  <1>3. flights' \subseteq Flight /\ IsFiniteSet(flights')
    BY <1>1, Became
  <1>4. faults' \in 0..MaxFaults /\ repeated' \subseteq Nat
    <2>1. faults' \in 0..MaxFaults
      BY QueueBounds DEF TypeOK, Fail
    <2>2. repeated' \subseteq repeated \cup {f.p} /\ repeated \subseteq Nat
      BY DEF TypeOK, Fail
    <2> QED BY <1>1, <2>1, <2>2
  <1>5. TypeOK'
    BY <1>3, <1>4 DEF TypeOK, Fail, state, browser, daemon
  <1>6. Saved'
    BY <1>1 DEF Saved, Fail, state, browser
  <1>7. \A h \in flights' : FlightOk(h)'
    BY <1>2 DEF FlightOk, Fail, daemon
  <1>8. NothingLost'
    BY <1>2 DEF NothingLost, Fail, state, daemon
  <1> QED BY <1>3, <1>5, <1>6, <1>7, <1>8

LEMMA RunOverKeeps == ASSUME QueueInv, NEW n \in live, RunOver(n) PROVE QueueInv'
  <1> USE DEF QueueInv, RunOver, state, browser, history, verdicts
  <1>1. TypeOK'
    BY DEF TypeOK
  <1>2. Saved' /\ IsFiniteSet(flights)'
    BY DEF Saved
  <1>3. \A f \in flights' : FlightOk(f)'
    BY DEF FlightOk
  <1>4. NothingLost'
    BY DEF NothingLost
  <1> QED BY <1>1, <1>2, <1>3, <1>4

-----------------------------------------------------------------------------
(* Answers reach a page that has rendered.                                 *)

LEMMA Rendered ==
    ASSUME QueueInv, NEW f \in flights, f.is # "sent"
    PROVE  r.session \in Sessions /\ r.session # None /\ f \in Flight /\ f.p \in Nat
  <1>1. ~f.gone
    BY DEF QueueInv, FlightOk
  <1>2. r.session # None
    BY <1>1 DEF QueueInv, Saved
  <1> QED BY <1>2 DEF QueueInv, TypeOK, Flight, Prompt

LEMMA AnswerRanKeeps == ASSUME QueueInv, NEW f \in flights, AnswerRan(f) PROVE QueueInv'
  <1> USE DEF QueueInv
  <1>1. Settle(f) /\ f.is = "ran" /\ f.p \in InSeq(runs)
    BY DEF AnswerRan, FlightOk
  <1>2. r.session \in Sessions /\ r.session # None /\ f \in Flight /\ f.run \in Nat
    BY <1>1, Rendered DEF Flight
  <1>3. /\ flights' = flights \ {f} /\ flights' \subseteq Flight
        /\ IsFiniteSet(flights') /\ latest' \in Nat /\ dirty' = TRUE
        /\ dequeueInFlightRef' \in BOOLEAN
    BY <1>1, Answered
  <1>4. activeJobId' \in Nat /\ jobStore' \in [Sessions -> Nat]
    BY <1>2 DEF AnswerRan, TypeOK
  <1>5. TypeOK'
    BY <1>3, <1>4 DEF TypeOK, AnswerRan, daemon, history, verdicts
  <1>6. Saved'
    BY <1>2 DEF Saved, AnswerRan
  <1>7. \A h \in flights' : FlightOk(h)'
    BY <1>3 DEF FlightOk, AnswerRan, daemon
  <1>8. NothingLost'
    BY <1>1, <1>3 DEF NothingLost, AnswerRan, daemon, history, verdicts
  <1> QED BY <1>3, <1>5, <1>6, <1>7, <1>8

LEMMA AnswerRefusedKeeps ==
    ASSUME QueueInv, NEW f \in flights, AnswerRefused(f) PROVE QueueInv'
  <1> USE DEF QueueInv
  <1>1. Settle(f) /\ f.is = "refused" /\ (~f.queued => f.p = 0)
    BY DEF AnswerRefused, FlightOk, Direct
  <1>2. r.session # None /\ f.p \in Nat
    BY <1>1, Rendered
  <1>3. /\ flights' = flights \ {f} /\ flights' \subseteq Flight
        /\ IsFiniteSet(flights') /\ latest' \in Nat /\ dirty' = TRUE
        /\ dequeueInFlightRef' \in BOOLEAN
    BY <1>1, Answered
  <1>4. refused' \subseteq refused \cup {f.p} /\ refused \subseteq refused'
    BY DEF AnswerRefused
  <1>5. refused' \subseteq Nat
    BY <1>2, <1>4 DEF TypeOK
  <1>6. f.queued => f.p \in refused'
    BY DEF AnswerRefused
  <1>7. TypeOK'
    BY <1>3, <1>5 DEF TypeOK, AnswerRefused, browser, daemon
  <1>8. Saved'
    BY <1>2 DEF Saved, AnswerRefused, browser
  <1>9. \A h \in flights' : FlightOk(h)'
    BY <1>3 DEF FlightOk, AnswerRefused, daemon
  <1>10. NothingLost'
    BY <1>1, <1>3, <1>4, <1>6 DEF NothingLost, AnswerRefused, daemon
  <1> QED BY <1>3, <1>7, <1>8, <1>9, <1>10

LEMMA AnswerFailedKeeps ==
    ASSUME QueueInv, NEW f \in flights, AnswerFailed(f) PROVE QueueInv'
  <1> USE DEF QueueInv
  <1>1. Settle(f) /\ f.is = "failed" /\ (~f.queued => f.p = 0)
    BY DEF AnswerFailed, FlightOk, Direct
  <1>2. r.session # None /\ f.p \in Nat /\ runQueue \in Seq(Nat)
    BY <1>1, Rendered DEF TypeOK, Prompt
  <1>3. /\ flights' = flights \ {f} /\ flights' \subseteq Flight
        /\ IsFiniteSet(flights') /\ latest' \in Nat /\ dirty' = TRUE
        /\ dequeueInFlightRef' \in BOOLEAN
    BY <1>1, Answered
  <1>4. /\ runQueue' \in Seq(Nat) /\ InSeq(runQueue) \subseteq InSeq(runQueue')
        /\ f.queued => f.p \in InSeq(runQueue')
    <2>1. CASE f.queued
      <3>1. runQueue' = <<f.p>> \o runQueue
        BY <2>1 DEF AnswerFailed
      <3> QED BY <1>2, <3>1, Members
    <2>2. CASE ~f.queued
      BY <1>2, <2>2 DEF AnswerFailed
    <2> QED BY <2>1, <2>2
  <1>5. TypeOK'
    BY <1>3, <1>4 DEF TypeOK, AnswerFailed, browser, daemon, history, verdicts, Prompt
  <1>6. Saved'
    BY <1>2 DEF Saved, AnswerFailed, browser
  <1>7. \A h \in flights' : FlightOk(h)'
    BY <1>3 DEF FlightOk, AnswerFailed, daemon
  <1>8. NothingLost'
    BY <1>1, <1>3, <1>4 DEF NothingLost, AnswerFailed, daemon, history, verdicts
  <1> QED BY <1>3, <1>5, <1>6, <1>7, <1>8

-----------------------------------------------------------------------------
(* Jobs, sessions and reloads.                                             *)

\* Forgetting a job keeps the type of the store.  A page that has not rendered
\* writes under no session at all, which changes nothing.
LEMMA Forgotten ==
    ASSUME TypeOK PROVE [jobStore EXCEPT ![r.session] = 0] \in [Sessions -> Nat]
  BY DEF TypeOK

LEMMA JobDoneKeeps == ASSUME QueueInv, JobDone PROVE QueueInv'
  <1> USE DEF QueueInv
  <1>1. jobStore' \in [Sessions -> Nat]
    BY Forgotten DEF JobDone
  <1>2. TypeOK'
    BY <1>1 DEF TypeOK, JobDone, daemon, history, verdicts
  <1>3. Saved' /\ IsFiniteSet(flights)'
    BY DEF Saved, JobDone
  <1>4. \A f \in flights' : FlightOk(f)'
    BY DEF FlightOk, JobDone, daemon
  <1>5. NothingLost'
    BY DEF NothingLost, JobDone, daemon, history, verdicts
  <1> QED BY <1>2, <1>3, <1>4, <1>5

LEMMA RestoreKeeps == ASSUME QueueInv, Restore PROVE QueueInv'
  <1> USE DEF QueueInv
  <1>1. jobStore' \in [Sessions -> Nat] /\ activeJobId' \in Nat
    BY Forgotten DEF Restore, TypeOK
  <1>2. TypeOK'
    BY <1>1 DEF TypeOK, Restore, daemon, history, verdicts
  <1>3. Saved' /\ IsFiniteSet(flights)'
    BY DEF Saved, Restore
  <1>4. \A f \in flights' : FlightOk(f)'
    BY DEF FlightOk, Restore, daemon
  <1>5. NothingLost'
    BY DEF NothingLost, Restore, daemon, history, verdicts
  <1> QED BY <1>2, <1>3, <1>4, <1>5

LEMMA SetSessionKeeps ==
    ASSUME QueueInv, NEW s \in Sessions, SetSession(s) PROVE QueueInv'
  <1> USE DEF QueueInv
  <1>1. activeJobId' \in Nat /\ faults' \in 0..MaxFaults
    BY QueueBounds DEF SetSession, TypeOK
  <1>2. TypeOK'
    BY <1>1 DEF TypeOK, SetSession, browser, daemon, history, verdicts
  <1>3. Saved' /\ IsFiniteSet(flights)'
    BY DEF Saved, SetSession, browser
  <1>4. \A f \in flights' : FlightOk(f)'
    BY DEF FlightOk, SetSession, daemon
  <1>5. NothingLost'
    BY DEF NothingLost, SetSession, daemon, history, verdicts
  <1> QED BY <1>2, <1>3, <1>4, <1>5

\* What the page forgets is excused, and what it had saved it reads again.
LEMMA ReloadKeeps == ASSUME QueueInv, Reload PROVE QueueInv'
  <1> USE DEF QueueInv
  <1> DEFINE sent == {g \in flights : g.is = "sent"}
             away(f) == [f EXCEPT !.gone = TRUE]
             onWay == {f.p : f \in {g \in flights : g.queued}}
  <1>1. /\ flights' = {away(f) : f \in sent} /\ flights \subseteq Flight
        /\ excused' = excused \cup Unsaved \cup onWay
        /\ runQueue' = storage[savedSession] /\ runQueue' \in Seq(Nat)
        /\ savedSession \in Sessions
    BY DEF Reload, TypeOK, Prompt
  <1>2. ASSUME NEW f \in sent
        PROVE  /\ away(f) \in Flight /\ away(f).gone /\ away(f).is = "sent"
               /\ away(f).p = f.p /\ away(f).queued = f.queued
    BY <1>1 DEF Flight
  <1>3. flights' \subseteq Flight /\ \A g \in flights' : g.gone
    BY <1>1, <1>2
  <1>4. IsFiniteSet(flights')
    <2>1. IsFiniteSet(sent)
      BY FS_Subset
    <2> DEFINE m == [f \in sent |-> away(f)]
    <2>2. m \in Surjection(sent, flights')
      BY <1>1 DEF Surjection
    <2> HIDE DEF sent, m
    <2> QED BY <2>1, <2>2, FS_Surjection
  <1>5. InSeq(runQueue) \subseteq InSeq(runQueue') \cup Unsaved
    <2>1. CASE r.session = None
      BY <1>1, <2>1 DEF Saved
    <2>2. CASE r.session # None
      BY <1>1, <2>2 DEF Saved, Unsaved
    <2> QED BY <2>1, <2>2
  <1>6. ASSUME NEW f \in flights PROVE f.p \in excused' \cup {0}
    BY <1>1 DEF FlightOk, Direct
  <1>7. Unsaved \subseteq Nat
    <2>1. InSeq(runQueue) \subseteq Nat
      BY DEF TypeOK, Prompt, InSeq
    <2>2. r.queue \in Seq(Nat)
      BY DEF TypeOK, Prompt
    <2>3. InSeq(r.queue) \subseteq Nat
      BY <2>2 DEF InSeq
    <2> QED BY <2>1, <2>3 DEF Unsaved
  <1>8. excused' \subseteq Nat
    <2>1. onWay \subseteq Nat
      BY <1>1 DEF Flight, Prompt
    <2> QED BY <1>1, <1>7, <2>1 DEF TypeOK
  <1>9. TypeOK'
    <2>1. faults' \in 0..MaxFaults
      <3>1. faults \in 0..MaxFaults /\ faults < MaxFaults /\ faults' = faults + 1
        BY DEF Reload, TypeOK
      <3> QED BY <3>1, QueueBounds
    <2>2. r' \in [queue : Seq(Nat), active : Nat, pending : BOOLEAN,
                  session : Sessions \cup {None}]
      BY DEF Reload, Blank
    <2>3. dequeueInFlightRef' \in BOOLEAN /\ dirty' \in BOOLEAN
      BY Zenon DEF Reload
    <2> QED BY <1>1, <1>3, <1>8, <2>1, <2>2, <2>3
         DEF TypeOK, Reload, browser, daemon, Prompt
  <1>10. Saved'
    BY <1>1, <1>3 DEF Saved, Reload, Blank, browser
  <1>11. \A g \in flights' : FlightOk(g)'
    <2> SUFFICES ASSUME NEW f \in sent PROVE FlightOk(away(f))'
      BY <1>1
    <2>1. f \in flights /\ FlightOk(f)
      OBVIOUS
    <2> QED BY <2>1, <1>2 DEF FlightOk
  <1>12. NothingLost'
    <2> SUFFICES ASSUME NEW k \in 1..made
                 PROVE  k \in InSeq(runQueue') \cup InSeq(runs) \cup refused \cup excused'
      BY DEF NothingLost, Reload, daemon
    <2>1. k # 0 /\ k \in Nat
      BY DEF TypeOK
    <2>2. k \in InSeq(runQueue) \cup {f.p : f \in flights} \cup InSeq(runs) \cup refused
               \cup excused
      BY DEF NothingLost
    <2>3. excused \subseteq excused' /\ Unsaved \subseteq excused'
      BY <1>1
    <2> QED BY <1>5, <1>6, <2>1, <2>2, <2>3
  <1> QED BY <1>4, <1>9, <1>10, <1>11, <1>12

-----------------------------------------------------------------------------
(* Theorems.                                                               *)

LEMMA QueueInvNext == QueueInv /\ [Next]_vars => QueueInv'
  <1> SUFFICES ASSUME QueueInv, [Next]_vars PROVE QueueInv'
    OBVIOUS
  <1>1. CASE Enqueue \/ RunDirect \/ Render
    BY <1>1, EnqueueKeeps, RunDirectKeeps, RenderKeeps
  <1>2. CASE JobDone \/ Restore \/ Reload
    BY <1>2, JobDoneKeeps, RestoreKeeps, ReloadKeeps
  <1>3. ASSUME NEW f \in flights, Accept(f) \/ Refuse(f) \/ Fail(f) PROVE QueueInv'
    BY <1>3, AcceptKeeps, RefuseKeeps, FailKeeps
  <1>4. ASSUME NEW f \in flights, Answer(f) PROVE QueueInv'
    BY <1>4, AnswerRanKeeps, AnswerRefusedKeeps, AnswerFailedKeeps DEF Answer
  <1>5. ASSUME NEW n \in live, RunOver(n) PROVE QueueInv'
    BY <1>5, RunOverKeeps
  <1>6. ASSUME NEW s \in Sessions, SetSession(s) PROVE QueueInv'
    BY <1>6, SetSessionKeeps
  <1>7. CASE UNCHANGED vars
    <2> USE <1>7 DEF QueueInv, vars
    <2>1. TypeOK'
      BY DEF TypeOK
    <2>2. Saved' /\ IsFiniteSet(flights)'
      BY DEF Saved
    <2>3. \A f \in flights' : FlightOk(f)'
      BY DEF FlightOk
    <2>4. NothingLost'
      BY DEF NothingLost
    <2> QED BY <2>1, <2>2, <2>3, <2>4
  <1> QED BY <1>1, <1>2, <1>3, <1>4, <1>5, <1>6, <1>7 DEF Next

\* Whatever the sessions and the bounds, the queue, its requests and what the
\* browser keeps satisfy the inductive invariant.
THEOREM QueueInvariant == Spec => []QueueInv
  BY QueueInvInit, QueueInvNext, PTL DEF Spec

\* Every variable of the page, the browser and the daemon keeps its type.
THEOREM QueueTypes == Spec => []TypeOK
  <1>1. QueueInv => TypeOK
    BY DEF QueueInv
  <1> QED BY <1>1, QueueInvariant, PTL

\* No prompt that was queued disappears while the page lives: it stays queued,
\* is on its way, has run or was refused; a reload takes only what was on its
\* way or not saved yet (the dequeue effect and its catch in useRunExecution,
\* the save effect of useLocalStorageState).
THEOREM PromptsNeverLost == Spec => []NothingLost
  <1>1. QueueInv => NothingLost
    BY DEF QueueInv
  <1> QED BY <1>1, QueueInvariant, PTL

-----------------------------------------------------------------------------
(* Order.  That no prompt runs twice and that the daemon gets them in turn *)
(* rest on one picture: the queue ascends, at most one queued prompt is    *)
(* out for it at a time, and that one comes before the whole queue.        *)

Done == InSeq(runs) \cup refused \cup excused
Again == {Direct} \cup repeated \cup excused

\* A queued prompt whose answer the page awaits.
Out(f) == f.queued /\ ~f.gone

Ascending(q) == \A i, j \in DOMAIN q : i < j => q[i] < q[j]

Known == /\ InSeq(runQueue) \subseteq 1..made /\ InSeq(r.queue) \subseteq 1..made
         /\ InSeq(runs) \subseteq 0..made
         /\ \A f \in flights : f.p \in 0..made /\ (f.queued => f.p # Direct)

QueueOrder ==
    /\ Ascending(runQueue) /\ Ascending(r.queue)
    /\ \A f \in flights : Out(f) => /\ dequeueInFlightRef = TRUE
                                    /\ \A g \in flights : Out(g) => g = f
                                    /\ \A k \in InSeq(runQueue) : f.p < k

\* What is still to be run, or to be put back, has not run yet.
NotRunYet ==
    /\ \A f \in flights : f.queued /\ f.gone => f.p \in excused
    /\ InSeq(runQueue) \cap InSeq(runs) \subseteq Again
    /\ \A f \in flights : f.is # "ran" /\ f.p \in InSeq(runs) => f.p \in Again

\* Whatever comes before a request on its way is dealt with, for good.
InTurn == \A f \in flights : f.is = "sent" => 1..(f.p - 1) \subseteq Done

OrderInv == Known /\ QueueOrder /\ NotRunYet /\ RunsOnce /\ InTurn

-----------------------------------------------------------------------------
LEMMA AscendingAppend ==
    ASSUME NEW q \in Seq(Nat), NEW p \in Nat, Ascending(q), \A k \in InSeq(q) : k < p
    PROVE  Ascending(Append(q, p))
  <1> DEFINE t == Append(q, p)
  <1>1. /\ DOMAIN t = 1..Len(q) + 1 /\ Len(q) \in Nat /\ DOMAIN q = 1..Len(q)
        /\ \A i \in 1..Len(q) : t[i] = q[i] /\ q[i] \in InSeq(q)
        /\ t[Len(q) + 1] = p
    BY DEF InSeq
  <1> HIDE DEF t
  <1>2. ASSUME NEW i \in DOMAIN t, NEW j \in DOMAIN t, i < j PROVE t[i] < t[j]
    <2>1. i \in 1..Len(q)
      BY <1>1, <1>2
    <2>2. CASE j = Len(q) + 1
      BY <1>1, <2>1, <2>2
    <2>3. CASE j # Len(q) + 1
      <3>1. j \in 1..Len(q)
        BY <1>1, <2>3
      <3> QED BY <1>1, <1>2, <2>1, <3>1 DEF Ascending
    <2> QED BY <2>2, <2>3
  <1> QED BY <1>2 DEF Ascending, t

LEMMA AscendingPutBack ==
    ASSUME NEW q \in Seq(Nat), NEW p \in Nat, Ascending(q), \A k \in InSeq(q) : p < k
    PROVE  Ascending(<<p>> \o q)
  <1> DEFINE t == <<p>> \o q
  <1>1. /\ t \in Seq(Nat) /\ Len(t) = Len(q) + 1 /\ t[1] = p /\ Len(q) \in Nat
        /\ \A i \in 1..Len(q) : t[i + 1] = q[i]
    OBVIOUS
  <1>2. DOMAIN t = 1..Len(q) + 1 /\ DOMAIN q = 1..Len(q)
    BY <1>1
  <1> HIDE DEF t
  <1>3. ASSUME NEW j \in 1..Len(q) + 1, j # 1
        PROVE  j - 1 \in DOMAIN q /\ t[j] = q[j - 1] /\ q[j - 1] \in InSeq(q)
    <2>1. j - 1 \in 1..Len(q) /\ (j - 1) + 1 = j
      BY <1>1, <1>3
    <2> QED BY <1>1, <1>2, <2>1 DEF InSeq
  <1>4. ASSUME NEW i \in DOMAIN t, NEW j \in DOMAIN t, i < j PROVE t[i] < t[j]
    <2>1. j # 1 /\ j - 1 \in DOMAIN q /\ t[j] = q[j - 1] /\ q[j - 1] \in InSeq(q)
      BY <1>1, <1>2, <1>3, <1>4
    <2>2. CASE i = 1
      BY <2>1, <2>2, <1>1
    <2>3. CASE i # 1
      <3>1. i - 1 \in DOMAIN q /\ t[i] = q[i - 1] /\ i - 1 < j - 1
        BY <1>2, <1>3, <1>4, <2>3
      <3> QED BY <2>1, <3>1 DEF Ascending
    <2> QED BY <2>2, <2>3
  <1> QED BY <1>4 DEF Ascending, t

LEMMA AscendingTail ==
    ASSUME NEW q \in Seq(Nat), q # <<>>, Ascending(q)
    PROVE  /\ Ascending(Tail(q)) /\ Head(q) \in InSeq(q)
           /\ \A k \in InSeq(Tail(q)) : k \in InSeq(q) /\ Head(q) < k
  <1> DEFINE t == Tail(q)
  <1>1. /\ Len(q) \in Nat /\ Len(q) > 0 /\ DOMAIN q = 1..Len(q) /\ Head(q) = q[1]
        /\ t \in Seq(Nat) /\ Len(t) = Len(q) - 1
        /\ \A i \in 1..(Len(q) - 1) : t[i] = q[i + 1]
    OBVIOUS
  <1>2. DOMAIN t = 1..(Len(q) - 1)
    BY <1>1
  <1> HIDE DEF t
  <1>3. ASSUME NEW i \in DOMAIN t PROVE i + 1 \in DOMAIN q /\ t[i] = q[i + 1] /\ 1 < i + 1
    BY <1>1, <1>2
  <1>4. 1 \in DOMAIN q /\ Head(q) \in InSeq(q)
    BY <1>1 DEF InSeq
  <1>5. Ascending(t)
    <2> SUFFICES ASSUME NEW i \in DOMAIN t, NEW j \in DOMAIN t, i < j PROVE t[i] < t[j]
      BY DEF Ascending
    <2>1. i + 1 < j + 1
      BY <1>2
    <2> QED BY <1>3, <2>1 DEF Ascending
  <1>6. ASSUME NEW i \in DOMAIN t PROVE t[i] \in InSeq(q) /\ Head(q) < t[i]
    BY <1>1, <1>3, <1>4 DEF Ascending, InSeq
  <1> QED BY <1>4, <1>5, <1>6 DEF InSeq, t

-----------------------------------------------------------------------------
(* Steps that leave the queue, what was rendered and the runs alone.       *)

\* History only grows, and with it what is excused from running once and what
\* is dealt with.
Grows == /\ refused \subseteq refused' /\ excused \subseteq excused'
         /\ repeated \subseteq repeated' /\ made' = made

Still == UNCHANGED <<runQueue, r, runs>>

LEMMA StillKeepsRunsOnce == ASSUME RunsOnce, Grows, UNCHANGED runs PROVE RunsOnce'
  BY DEF RunsOnce, Grows

\* A request that was refused or failed.
LEMMA ChangedKeepsOrder ==
    ASSUME OrderInv, Grows, Still, UNCHANGED dequeueInFlightRef,
           NEW f \in flights, NEW g,
           flights' = (flights \ {f}) \cup {g}, g.p = f.p, g.queued = f.queued,
           g.gone = f.gone, g.is # "sent", f.is # "ran" \/ f.p \in Again'
    PROVE  OrderInv'
  <1> USE DEF OrderInv, Grows, Still
  <1>1. Known'
    BY DEF Known
  <1>2. QueueOrder'
    BY DEF QueueOrder, Out
  <1>3. NotRunYet'
    BY DEF NotRunYet, Again
  <1>4. RunsOnce'
    BY StillKeepsRunsOnce
  <1>5. InTurn'
    BY DEF InTurn, Done
  <1> QED BY <1>1, <1>2, <1>3, <1>4, <1>5

\* An answered request, when the queue does not get it back.
LEMMA AnsweredKeepsOrder ==
    ASSUME OrderInv, Grows, Still, NEW f \in flights, ~f.gone, Settle(f)
    PROVE  OrderInv'
  <1> USE DEF OrderInv, Grows, Still
  <1>1. flights' = flights \ {f} /\ dequeueInFlightRef' = (dequeueInFlightRef /\ ~f.queued)
    BY DEF Settle
  <1>2. Known'
    BY <1>1 DEF Known
  <1>3. QueueOrder'
    BY <1>1 DEF QueueOrder, Out
  <1>4. NotRunYet'
    BY <1>1 DEF NotRunYet, Again
  <1>5. RunsOnce'
    BY StillKeepsRunsOnce
  <1>6. InTurn'
    BY <1>1 DEF InTurn, Done
  <1> QED BY <1>2, <1>3, <1>4, <1>5, <1>6

\* Nothing of it changes.
LEMMA QuietKeepsOrder ==
    ASSUME OrderInv, Grows, Still, UNCHANGED <<flights, dequeueInFlightRef>>
    PROVE  OrderInv'
  <1> USE DEF OrderInv, Grows, Still
  <1>1. Known' /\ QueueOrder'
    BY DEF Known, QueueOrder
  <1>2. NotRunYet' /\ InTurn'
    BY DEF NotRunYet, Again, InTurn, Done
  <1>3. RunsOnce'
    BY StillKeepsRunsOnce
  <1> QED BY <1>1, <1>2, <1>3

LEMMA RefuseKeepsOrder ==
    ASSUME QueueInv, OrderInv, NEW f \in flights, Refuse(f) PROVE OrderInv'
  <1>1. Becomes(f, "refused", 0) /\ flights \subseteq Flight /\ IsFiniteSet(flights)
    BY DEF Refuse, QueueInv, TypeOK
  <1>2. PICK g \in Flight : /\ flights' = (flights \ {f}) \cup {g} /\ g.p = f.p
                            /\ g.queued = f.queued /\ g.gone = f.gone /\ g.is = "refused"
    BY <1>1, Became
  <1>3. Grows /\ Still /\ UNCHANGED dequeueInFlightRef /\ f.is # "ran"
    BY DEF Refuse, Grows, Still, state, daemon, history, verdicts
  <1> QED BY <1>2, <1>3, ChangedKeepsOrder

LEMMA FailKeepsOrder ==
    ASSUME QueueInv, OrderInv, NEW f \in flights, Fail(f) PROVE OrderInv'
  <1>1. Becomes(f, "failed", 0) /\ flights \subseteq Flight /\ IsFiniteSet(flights)
    BY DEF Fail, QueueInv, TypeOK
  <1>2. PICK g \in Flight : /\ flights' = (flights \ {f}) \cup {g} /\ g.p = f.p
                            /\ g.queued = f.queued /\ g.gone = f.gone /\ g.is = "failed"
    BY <1>1, Became
  <1>3. Grows /\ Still /\ UNCHANGED dequeueInFlightRef
    BY DEF Fail, Grows, Still, state, daemon
  <1>4. f.is # "ran" \/ f.p \in Again'
    BY DEF Fail, Again, QueueInv, FlightOk
  <1> QED BY <1>2, <1>3, <1>4, ChangedKeepsOrder

LEMMA AnswerKeepsOrder ==
    ASSUME QueueInv, OrderInv, NEW f \in flights, AnswerRan(f) \/ AnswerRefused(f)
    PROVE  OrderInv'
  <1>1. Settle(f) /\ ~f.gone
    BY DEF AnswerRan, AnswerRefused, QueueInv, FlightOk
  <1>2. Grows /\ Still
    BY DEF AnswerRan, AnswerRefused, Grows, Still, daemon, history, verdicts
  <1> QED BY <1>1, <1>2, AnsweredKeepsOrder

LEMMA JobsKeepOrder ==
    ASSUME OrderInv, JobDone \/ Restore \/ \E s \in Sessions : SetSession(s)
    PROVE  OrderInv'
  <1>1. Grows /\ Still /\ UNCHANGED <<flights, dequeueInFlightRef>>
    BY DEF JobDone, Restore, SetSession, Grows, Still, daemon, history, verdicts
  <1> QED BY <1>1, QuietKeepsOrder

LEMMA RunOverKeepsOrder == ASSUME OrderInv, NEW n \in live, RunOver(n) PROVE OrderInv'
  <1>1. Grows /\ Still /\ UNCHANGED <<flights, dequeueInFlightRef>>
    BY DEF RunOver, Grows, Still, state, history, verdicts
  <1> QED BY <1>1, QuietKeepsOrder

-----------------------------------------------------------------------------
(* Steps that move a prompt.                                               *)

LEMMA EnqueueKeepsOrder == ASSUME QueueInv, OrderInv, Enqueue PROVE OrderInv'
  <1> USE DEF OrderInv
  <1> DEFINE p == made + 1
  <1>1. /\ made \in Nat /\ p \in Nat /\ runQueue \in Seq(Nat) /\ made' = p
        /\ UNCHANGED <<dequeueInFlightRef, r, flights, runs, refused, excused, repeated>>
        /\ runQueue' = Append(runQueue, p)
    BY DEF Enqueue, QueueInv, TypeOK, Prompt, daemon, verdicts
  <1>2. InSeq(runQueue') = InSeq(runQueue) \cup {p}
    BY <1>1, Members
  <1>3. /\ 0..made \subseteq 0..p /\ 1..made \subseteq 1..p /\ p \in 1..p
        /\ \A k \in 0..made : k < p
    BY <1>1
  <1>4. p \notin InSeq(runs) /\ \A f \in flights : f.p < p
    BY <1>1, <1>3 DEF Known
  <1>5. Ascending(runQueue')
    <2>1. \A k \in InSeq(runQueue) : k < p
      BY <1>1, <1>3 DEF Known
    <2> QED BY <1>1, <2>1, AscendingAppend DEF QueueOrder
  <1> HIDE DEF p
  <1>6. Known'
    BY <1>1, <1>2, <1>3 DEF Known
  <1>7. QueueOrder'
    BY <1>1, <1>2, <1>4, <1>5 DEF QueueOrder
  <1>8. NotRunYet'
    BY <1>1, <1>2, <1>4 DEF NotRunYet, Again
  <1>9. RunsOnce' /\ InTurn'
    BY <1>1 DEF RunsOnce, InTurn, Done
  <1> QED BY <1>6, <1>7, <1>8, <1>9

LEMMA RunDirectKeepsOrder == ASSUME QueueInv, OrderInv, RunDirect PROVE OrderInv'
  <1> USE DEF OrderInv
  <1>1. /\ Mutate(Direct, FALSE) /\ Direct \in Nat /\ flights \subseteq Flight
        /\ IsFiniteSet(flights) /\ made \in Nat
        /\ UNCHANGED <<dequeueInFlightRef, runQueue, r, runs, refused, excused, repeated,
                       made>>
    BY DEF RunDirect, Direct, QueueInv, TypeOK, daemon, verdicts
  <1>2. PICK f \in Flight : /\ flights' = flights \cup {f} /\ f.p = Direct
                            /\ f.queued = FALSE /\ ~f.gone /\ f.is = "sent"
    BY <1>1, Mutated
  <1>3. Known'
    BY <1>1, <1>2 DEF Known, Direct
  <1>4. QueueOrder'
    BY <1>1, <1>2 DEF QueueOrder, Out
  <1>5. NotRunYet' /\ RunsOnce'
    BY <1>1, <1>2 DEF NotRunYet, Again, RunsOnce
  <1>6. InTurn'
    <2>1. 1..(Direct - 1) = {}
      BY DEF Direct
    <2> QED BY <1>1, <1>2, <2>1 DEF InTurn, Done
  <1> QED BY <1>3, <1>4, <1>5, <1>6

\* The effect takes out the first prompt: nothing before it is left.
LEMMA RenderKeepsOrder == ASSUME QueueInv, OrderInv, Render PROVE OrderInv'
  <1> USE DEF OrderInv
  <1>1. /\ runQueue \in Seq(Nat) /\ flights \subseteq Flight /\ IsFiniteSet(flights)
        /\ made \in Nat /\ r'.queue = runQueue
        /\ UNCHANGED <<runs, refused, excused, repeated, made>>
    BY DEF Render, View, QueueInv, TypeOK, Prompt, daemon, history, verdicts
  <1>2. CASE CanDequeue
    <2> DEFINE p == Head(runQueue)
    <2>1. /\ Mutate(p, TRUE) /\ runQueue' = Tail(runQueue) /\ runQueue # <<>>
          /\ dequeueInFlightRef' = TRUE /\ ~dequeueInFlightRef
      BY <1>2 DEF Render, CanDequeue
    <2>2. /\ p \in Nat /\ InSeq(runQueue) \subseteq InSeq(runQueue') \cup {p}
          /\ Ascending(runQueue') /\ p \in InSeq(runQueue)
          /\ \A k \in InSeq(runQueue') : k \in InSeq(runQueue) /\ p < k
      BY <1>1, <2>1, HeadAndTail, AscendingTail DEF QueueOrder
    <2>3. PICK f \in Flight : /\ flights' = flights \cup {f} /\ f.p = p
                              /\ f.queued = TRUE /\ ~f.gone /\ f.is = "sent"
      BY <1>1, <2>1, <2>2, Mutated
    <2>4. \A g \in flights : ~Out(g)
      BY <2>1 DEF QueueOrder
    <2> HIDE DEF p
    <2>5. p \in 1..made
      BY <2>2 DEF Known
    <2>6. Known'
      <3>1. p \in 0..made /\ p # Direct
        BY <1>1, <2>5 DEF Direct
      <3> QED BY <1>1, <2>2, <2>3, <3>1 DEF Known
    <2>7. QueueOrder'
      BY <1>1, <2>1, <2>2, <2>3, <2>4 DEF QueueOrder, Out
    <2>8. NotRunYet' /\ RunsOnce'
      BY <1>1, <2>2, <2>3 DEF NotRunYet, Again, RunsOnce
    <2>9. ASSUME NEW k \in 1..(p - 1) PROVE k \in Done
      <3>1. k \in 1..made /\ k < p /\ k # 0 /\ k \in Nat
        BY <1>1, <2>5
      <3>2. k \notin InSeq(runQueue)
        BY <2>2, <3>1
      <3>3. k \notin {g.p : g \in {h \in flights : ~h.gone}}
        BY <2>4, <3>1 DEF Out, QueueInv, FlightOk, Direct
      <3> QED BY <3>1, <3>2, <3>3 DEF QueueInv, NothingLost, Done
    <2>10. InTurn'
      BY <1>1, <2>3, <2>9 DEF InTurn, Done
    <2> QED BY <2>6, <2>7, <2>8, <2>10
  <1>3. CASE ~CanDequeue
    <2>1. UNCHANGED <<runQueue, dequeueInFlightRef, flights>>
      BY <1>3 DEF Render
    <2>2. Known' /\ QueueOrder'
      BY <1>1, <2>1 DEF Known, QueueOrder
    <2>3. NotRunYet' /\ RunsOnce' /\ InTurn'
      BY <1>1, <2>1 DEF NotRunYet, Again, RunsOnce, InTurn, Done
    <2> QED BY <2>2, <2>3
  <1> QED BY <1>2, <1>3

\* One more run of a prompt that has not run, or may run again.
LEMMA RunsOnceAppend ==
    ASSUME QueueInv, RunsOnce, NEW p \in Nat, runs' = Append(runs, p),
           UNCHANGED <<repeated, excused>>, p \in InSeq(runs) => p \in Again
    PROVE  RunsOnce'
  <1>1. runs \in Seq(Nat)
    BY DEF QueueInv, TypeOK, Prompt
  <1>2. /\ DOMAIN runs' = 1..Len(runs) + 1 /\ Len(runs) \in Nat /\ DOMAIN runs = 1..Len(runs)
        /\ \A i \in 1..Len(runs) : runs'[i] = runs[i] /\ runs[i] \in InSeq(runs)
        /\ runs'[Len(runs) + 1] = p
    BY <1>1 DEF InSeq
  <1>3. ASSUME NEW i \in DOMAIN runs', NEW j \in DOMAIN runs', i # j, runs'[i] = runs'[j]
        PROVE  runs'[i] \in Again
    <2>1. CASE i \in DOMAIN runs /\ j \in DOMAIN runs
      BY <1>2, <1>3, <2>1 DEF RunsOnce, Again
    <2>2. CASE ~(i \in DOMAIN runs)
      <3>1. i = Len(runs) + 1 /\ j \in DOMAIN runs
        BY <1>2, <1>3, <2>2
      <3> QED BY <1>2, <1>3, <3>1
    <2>3. CASE ~(j \in DOMAIN runs)
      <3>1. j = Len(runs) + 1 /\ i \in DOMAIN runs
        BY <1>2, <1>3, <2>3
      <3> QED BY <1>2, <1>3, <3>1
    <2> QED BY <2>1, <2>2, <2>3
  <1> QED BY <1>3 DEF RunsOnce, Again

LEMMA AcceptKeepsOrder ==
    ASSUME QueueInv, OrderInv, NEW f \in flights, Accept(f) PROVE OrderInv'
  <1> USE DEF OrderInv
  <1>1. /\ f.p \in Nat /\ runs \in Seq(Nat) /\ Len(runs) + 1 \in Nat /\ made \in Nat
        /\ flights \subseteq Flight /\ IsFiniteSet(flights) /\ f.is = "sent"
        /\ runs' = Append(runs, f.p)
        /\ UNCHANGED <<runQueue, r, dequeueInFlightRef, made, refused, excused, repeated>>
    BY DEF Accept, QueueInv, TypeOK, Flight, Prompt, state, history, verdicts
  <1>2. InSeq(runs') = InSeq(runs) \cup {f.p}
    BY <1>1, Members
  <1>3. \/ f.gone /\ flights' = flights \ {f}
        \/ \E g \in Flight : /\ flights' = (flights \ {f}) \cup {g} /\ g.p = f.p
                             /\ g.queued = f.queued /\ g.gone = f.gone /\ g.is = "ran"
    <2>1. CASE f.gone
      BY <2>1 DEF Accept
    <2>2. CASE ~f.gone
      <3>1. Becomes(f, "ran", Len(runs) + 1)
        BY <2>2 DEF Accept
      <3> QED BY <1>1, <3>1, Became
    <2> QED BY <2>1, <2>2
  <1>4. Out(f) \/ f.p \in Again
    BY DEF Out, NotRunYet, Again, QueueInv, FlightOk
  <1>5. Known'
    BY <1>1, <1>2, <1>3 DEF Known
  <1>6. QueueOrder'
    BY <1>1, <1>3 DEF QueueOrder, Out
  <1>7. NotRunYet'
    <2>1. f.p \in InSeq(runQueue) => f.p \in Again
      <3>1. Out(f) => \A k \in InSeq(runQueue) : f.p < k
        BY DEF QueueOrder
      <3> QED BY <1>1, <1>4, <3>1
    <2>2. ASSUME NEW g \in flights, g # f, g.p = f.p PROVE g.p \in Again
      BY <1>4, <2>2 DEF QueueOrder, Out, NotRunYet, Again, QueueInv, FlightOk
    <2>3. \A g \in flights' : g.queued /\ g.gone => g.p \in excused'
      BY <1>1, <1>3 DEF NotRunYet
    <2>4. InSeq(runQueue') \cap InSeq(runs') \subseteq Again'
      BY <1>1, <1>2, <2>1 DEF NotRunYet, Again
    <2>5. \A g \in flights' : g.is # "ran" /\ g.p \in InSeq(runs') => g.p \in Again'
      BY <1>1, <1>2, <1>3, <2>2 DEF NotRunYet, Again
    <2> QED BY <2>3, <2>4, <2>5 DEF NotRunYet
  <1>8. RunsOnce'
    <2>1. f.p \in InSeq(runs) => f.p \in Again
      BY <1>1 DEF NotRunYet
    <2> QED BY <1>1, <2>1, RunsOnceAppend
  <1>9. InTurn'
    BY <1>1, <1>2, <1>3 DEF InTurn, Done
  <1> QED BY <1>5, <1>6, <1>7, <1>8, <1>9

\* The catch puts the prompt back before everything that is queued.
LEMMA AnswerFailedKeepsOrder ==
    ASSUME QueueInv, OrderInv, NEW f \in flights, AnswerFailed(f) PROVE OrderInv'
  <1> USE DEF OrderInv
  <1>1. /\ Settle(f) /\ f.is = "failed" /\ ~f.gone /\ (~f.queued => f.p = 0)
        /\ UNCHANGED <<r, runs, made, refused, excused, repeated>>
    BY DEF AnswerFailed, QueueInv, FlightOk, Direct, daemon, history, verdicts
  <1>2. CASE ~f.queued
    <2>1. Still /\ Grows
      BY <1>1, <1>2 DEF AnswerFailed, Still, Grows
    <2> QED BY <1>1, <2>1, AnsweredKeepsOrder
  <1>3. CASE f.queued
    <2>1. /\ runQueue' = <<f.p>> \o runQueue /\ flights' = flights \ {f}
          /\ f.p \in Nat /\ runQueue \in Seq(Nat) /\ made \in Nat
      BY <1>3 DEF AnswerFailed, Settle, QueueInv, TypeOK, Flight, Prompt
    <2>2. InSeq(runQueue') = InSeq(runQueue) \cup {f.p}
      BY <2>1, Members
    <2>3. /\ \A g \in flights' : ~Out(g)
          /\ \A k \in InSeq(runQueue) : f.p < k
      BY <1>1, <1>3, <2>1 DEF QueueOrder, Out
    <2>4. Ascending(runQueue')
      BY <2>1, <2>3, AscendingPutBack DEF QueueOrder
    <2>5. f.p \in 1..made
      <3>1. f.p # 0
        BY <1>3 DEF Known, Direct
      <3> QED BY <2>1, <3>1 DEF Known
    <2>6. Known'
      BY <1>1, <2>1, <2>2, <2>5 DEF Known
    <2>7. QueueOrder'
      BY <1>1, <2>3, <2>4 DEF QueueOrder
    <2>8. NotRunYet'
      BY <1>1, <2>1, <2>2 DEF NotRunYet, Again
    <2>9. RunsOnce' /\ InTurn'
      BY <1>1, <2>1 DEF RunsOnce, InTurn, Done
    <2> QED BY <2>6, <2>7, <2>8, <2>9
  <1> QED BY <1>2, <1>3

\* What the reloaded page reads was rendered, so it ascends; what it shares
\* with the queue is where it was, and the rest is excused.
LEMMA ReloadKeepsOrder == ASSUME QueueInv, OrderInv, Reload PROVE OrderInv'
  <1> USE DEF OrderInv
  <1> DEFINE sent == {g \in flights : g.is = "sent"}
             away(f) == [f EXCEPT !.gone = TRUE]
             onWay == {f.p : f \in {g \in flights : g.queued}}
  <1>1. /\ flights' = {away(f) : f \in sent} /\ flights \subseteq Flight
        /\ excused' = excused \cup Unsaved \cup onWay
        /\ runQueue' = storage[savedSession] /\ r' = Blank /\ made \in Nat
        /\ UNCHANGED <<runs, made, refused, repeated>>
    BY DEF Reload, QueueInv, TypeOK, daemon
  <1>2. ASSUME NEW f \in sent
        PROVE  /\ away(f).gone /\ away(f).is = "sent"
               /\ away(f).p = f.p /\ away(f).queued = f.queued
    BY <1>1 DEF Flight
  <1>3. ASSUME NEW g \in flights'
        PROVE  \E f \in flights : /\ g.gone /\ g.is = "sent" /\ f.is = "sent"
                                  /\ g.p = f.p /\ g.queued = f.queued
    BY <1>1, <1>2
  <1>4. excused \subseteq excused' /\ Grows
    BY <1>1 DEF Grows
  <1>5. ASSUME NEW f \in flights, f.queued PROVE f.p \in excused'
    BY <1>1, <1>5
  <1>6. /\ Ascending(runQueue') /\ InSeq(runQueue') \subseteq 1..made
        /\ InSeq(runQueue') \subseteq InSeq(runQueue) \cup excused'
    <2>1. CASE r.session = None
      <3>1. runQueue' = runQueue
        BY <1>1, <2>1 DEF QueueInv, Saved
      <3> QED BY <3>1 DEF QueueOrder, Known
    <2>2. CASE r.session # None
      <3>1. runQueue' = r.queue
        BY <1>1, <2>2 DEF QueueInv, Saved
      <3>2. InSeq(r.queue) \subseteq InSeq(runQueue) \cup excused'
        BY <1>1, <2>2 DEF Unsaved
      <3> QED BY <3>1, <3>2 DEF QueueOrder, Known
    <2> QED BY <2>1, <2>2
  <1> HIDE DEF sent, away, onWay
  <1>7. InSeq(r'.queue) = {} /\ Ascending(r'.queue)
    <2>1. r'.queue = <<>>
      BY <1>1 DEF Blank
    <2> QED BY <2>1 DEF InSeq, Ascending
  <1>8. Known'
    BY <1>1, <1>3, <1>6, <1>7 DEF Known
  <1>9. QueueOrder'
    BY <1>3, <1>6, <1>7 DEF QueueOrder, Out
  <1>10. NotRunYet'
    <2>1. \A g \in flights' : g.queued => g.p \in excused'
      BY <1>3, <1>5
    <2>2. InSeq(runQueue') \cap InSeq(runs') \subseteq Again'
      BY <1>1, <1>4, <1>6 DEF NotRunYet, Again
    <2>3. \A g \in flights' : g.is # "ran" /\ g.p \in InSeq(runs') => g.p \in Again'
      BY <1>1, <1>3, <1>4 DEF NotRunYet, Again
    <2> QED BY <2>1, <2>2, <2>3 DEF NotRunYet
  <1>11. RunsOnce'
    BY <1>1, <1>4, StillKeepsRunsOnce
  <1>12. InTurn'
    BY <1>1, <1>3, <1>4 DEF InTurn, Done
  <1> QED BY <1>8, <1>9, <1>10, <1>11, <1>12

-----------------------------------------------------------------------------
LEMMA OrderInvInit == Init => OrderInv
  <1> SUFFICES ASSUME Init PROVE OrderInv
    OBVIOUS
  <1>1. InSeq(<<>>) = {} /\ Ascending(<<>>)
    BY DEF InSeq, Ascending
  <1>2. runQueue = <<>> /\ r.queue = <<>> /\ runs = <<>> /\ flights = {}
    BY DEF Init, Blank
  <1>3. Known /\ QueueOrder /\ NotRunYet
    BY <1>1, <1>2 DEF Known, QueueOrder, NotRunYet
  <1>4. RunsOnce /\ InTurn
    BY <1>2 DEF RunsOnce, InTurn
  <1> QED BY <1>3, <1>4 DEF OrderInv

LEMMA OrderInvNext == QueueInv /\ OrderInv /\ [Next]_vars => OrderInv'
  <1> SUFFICES ASSUME QueueInv, OrderInv, [Next]_vars PROVE OrderInv'
    OBVIOUS
  <1>1. CASE Enqueue \/ RunDirect \/ Render \/ Reload
    BY <1>1, EnqueueKeepsOrder, RunDirectKeepsOrder, RenderKeepsOrder, ReloadKeepsOrder
  <1>2. CASE JobDone \/ Restore \/ \E s \in Sessions : SetSession(s)
    BY <1>2, JobsKeepOrder
  <1>3. ASSUME NEW f \in flights, Accept(f) \/ Refuse(f) \/ Fail(f) PROVE OrderInv'
    BY <1>3, AcceptKeepsOrder, RefuseKeepsOrder, FailKeepsOrder
  <1>4. ASSUME NEW f \in flights, Answer(f) PROVE OrderInv'
    BY <1>4, AnswerKeepsOrder, AnswerFailedKeepsOrder DEF Answer
  <1>5. ASSUME NEW n \in live, RunOver(n) PROVE OrderInv'
    BY <1>5, RunOverKeepsOrder
  <1>6. CASE UNCHANGED vars
    <2>1. Grows /\ Still /\ UNCHANGED <<flights, dequeueInFlightRef>>
      BY <1>6 DEF vars, Grows, Still
    <2> QED BY <2>1, QuietKeepsOrder
  <1> QED BY <1>1, <1>2, <1>3, <1>4, <1>5, <1>6 DEF Next

\* Only the daemon's acceptance of a request adds a run, and it is the request's.
LEMMA RunsInTurn ==
    ASSUME QueueInv, OrderInv, [Next]_vars, Len(runs') > Len(runs)
    PROVE  1..(runs'[Len(runs')] - 1) \subseteq Done
  <1>1. runs \in Seq(Nat)
    BY DEF QueueInv, TypeOK, Prompt
  <1>2. ~UNCHANGED runs
    BY <1>1
  <1>3. \E f \in flights : Accept(f)
    BY <1>2 DEF Next, vars, Enqueue, RunDirect, Render, JobDone, Restore, Reload, Refuse,
       Fail,
       Answer, AnswerRan, AnswerRefused, AnswerFailed, RunOver, SetSession, daemon
  <1>4. PICK f \in flights : Accept(f)
    BY <1>3
  <1>5. runs' = Append(runs, f.p) /\ f.is = "sent" /\ f.p \in Nat
    BY <1>4 DEF Accept, QueueInv, TypeOK, Flight, Prompt
  <1>6. runs'[Len(runs')] = f.p
    BY <1>1, <1>5
  <1> QED BY <1>5, <1>6 DEF OrderInv, InTurn

\* However many prompts are queued, requests fail and pages are reloaded, a
\* queued prompt runs once unless its answer was lost or the page was reloaded
\* before it came (the ref of the dequeue effect, the requeue of its catch).
THEOREM QueuedRunOnce == Spec => []RunsOnce
  <1>1. OrderInv => RunsOnce
    BY DEF OrderInv
  <1> QED BY <1>1, QueueInvInit, QueueInvNext, OrderInvInit, OrderInvNext, PTL DEF Spec

\* The daemon runs queued prompts in the order they were queued: when it takes
\* one, every earlier one has run, was refused or was lost to a reload.
THEOREM QueuedRunInOrder == Spec => SubmittedInOrder
  <1>1. QueueInv /\ OrderInv /\ [Next]_vars
          => [Len(runs') > Len(runs) =>
                 1..(runs'[Len(runs')] - 1) \subseteq InSeq(runs) \cup refused \cup excused]_vars
    BY RunsInTurn DEF Done
  <1> QED BY <1>1, QueueInvInit, QueueInvNext, OrderInvInit, OrderInvNext, PTL
          DEF Spec, SubmittedInOrder
=============================================================================
