------------------------ MODULE SessionEventsProofs -------------------------
(***************************************************************************)
(* The session event stream, for any number of pages and sessions, every   *)
(* buffer size and any number of events, switches and broken connections:  *)
(* buffers are windows of their session's log, with events that have no id *)
(* in between, a settled page shows its own, and the stream implements     *)
(* EventFeed.                                                              *)
(***************************************************************************)
EXTENDS SessionEvents, TLAPS

\* What the safety of a page rests on.  A loop runs only for a session whose
\* effects have run without a job, and a live stream sends either the last
\* acknowledged event again or the one after it: this is why the bounded
\* dedupe is enough.  A page shows foreign events only while its effects last
\* ran for a job.
PageInv(t) ==
    /\ seen[t].session # None => /\ WindowOf(ref[t], seen[t].session)
                                 /\ ref[t].last <= log[seen[t].session]
    /\ phase[t] # "off" => seen[t].session # None /\ ~seen[t].job
    /\ phase[t] = "live" =>
           next[t] > 0 /\ (ref[t].last = 0 \/ next[t] \in {ref[t].last, ref[t].last + 1})
    /\ ~seen[t].job => shown[t] \in {<<>>, ref[t].events}

StoreInv(s) == WindowOf(storage[s], s) /\ storage[s].last <= log[s]

FeedInv ==
    /\ TypeOK
    /\ \A s \in Sessions : StoreInv(s)
    /\ \A t \in Tabs : PageInv(t)

-----------------------------------------------------------------------------
(* Lemmas about the buffer.                                                *)

\* Cutting a buffer keeps its last MaxBuf entries, all of them when they fit.
LEMMA LastOfShifts ==
    ASSUME NEW q \in Seq(Event)
    PROVE  /\ LastOf(q) \in Seq(Event)
           /\ Len(LastOf(q)) <= Len(q) /\ Len(LastOf(q)) <= MaxBuf
           /\ q # <<>> => Len(LastOf(q)) > 0
           /\ \A i \in 1..Len(LastOf(q)) : LastOf(q)[i] = q[Len(q) - Len(LastOf(q)) + i]
  <1>1. CASE Len(q) > MaxBuf
    <2>1. LastOf(q) = SubSeq(q, Len(q) - MaxBuf + 1, Len(q))
      BY <1>1 DEF LastOf
    <2>2. /\ Len(q) - MaxBuf + 1 \in 1..Len(q) /\ Len(q) \in Nat
      BY <1>1, BufAssumption
    <2>3. LastOf(q) \in Seq(Event) /\ Len(LastOf(q)) = MaxBuf
      BY <2>1, <2>2, BufAssumption
    <2>4. \A i \in 1..MaxBuf : LastOf(q)[i] = q[Len(q) - MaxBuf + i]
      BY <2>1, <2>2, BufAssumption
    <2> QED BY <1>1, <2>3, <2>4, BufAssumption
  <1>2. CASE ~(Len(q) > MaxBuf)
    BY <1>2, BufAssumption DEF LastOf
  <1> QED BY <1>1, <1>2

\* The empty state is a window of any session.
LEMMA EmptyWindow ==
    ASSUME NEW s
    PROVE  EMPTY_PERSISTED_STATE \in State /\ WindowOf(EMPTY_PERSISTED_STATE, s)
  BY BufAssumption DEF EMPTY_PERSISTED_STATE, State, WindowOf, RunUpTo

\* The end of a run is a run up to the same cursor: an entry that is left has
\* its successor or the cursor's event behind it.
LEMMA EndOfRun ==
    ASSUME NEW s, NEW last \in Nat, NEW q \in Seq(Event), RunUpTo(q, last, s),
           NEW p \in Seq(Event), NEW d \in Nat, Len(q) = d + Len(p),
           \A i \in 1..Len(p) : p[i] = q[d + i]
    PROVE  RunUpTo(p, last, s)
  <1>1. /\ Len(q) \in Nat /\ Len(p) \in Nat
        /\ \A i \in 1..Len(q) : q[i].n \in Nat
    <2>1. \A i \in 1..Len(q) : q[i] \in Event
      OBVIOUS
    <2> QED BY <2>1 DEF Event
  <1>2. \A i \in 1..Len(p) : d + i \in 1..Len(q)
    BY <1>1
  <1>3. \A i \in 1..Len(p) : p[i].session = s /\ p[i].n <= last
    BY <1>2 DEF RunUpTo
  <1>4. ASSUME NEW i \in 1..Len(p), p[i].n # 0
        PROVE  \/ p[i].n = last /\ \A j \in (i + 1)..Len(p) : p[j].n = 0
               \/ \E j \in (i + 1)..Len(p) :
                      p[j].n = p[i].n + 1 /\ \A k \in (i + 1)..(j - 1) : p[k].n = 0
    <2>1. d + i \in 1..Len(q) /\ q[d + i].n # 0
      BY <1>2, <1>4
    <2>2. CASE q[d + i].n = last /\ \A j \in (d + i + 1)..Len(q) : q[j].n = 0
      <3>1. ASSUME NEW j \in (i + 1)..Len(p) PROVE p[j].n = 0
        <4>1. j \in 1..Len(p) /\ d + j \in (d + i + 1)..Len(q)
          BY <1>1
        <4> QED BY <2>2, <4>1
      <3> QED BY <2>2, <3>1
    <2>3. CASE \E j \in (d + i + 1)..Len(q) :
                   /\ q[j].n = q[d + i].n + 1
                   /\ \A k \in (d + i + 1)..(j - 1) : q[k].n = 0
      <3>1. PICK j \in (d + i + 1)..Len(q) :
                   /\ q[j].n = q[d + i].n + 1
                   /\ \A k \in (d + i + 1)..(j - 1) : q[k].n = 0
        BY <2>3
      <3>2. /\ j - d \in (i + 1)..Len(p) /\ j - d \in 1..Len(p) /\ d + (j - d) = j
        BY <1>1
      <3>3. p[j - d].n = p[i].n + 1
        BY <3>1, <3>2
      <3>4. ASSUME NEW k \in (i + 1)..(j - d - 1) PROVE p[k].n = 0
        <4>1. k \in 1..Len(p) /\ d + k \in (d + i + 1)..(j - 1)
          BY <1>1, <3>2
        <4> QED BY <3>1, <4>1
      <3> QED BY <3>2, <3>3, <3>4
    <2> QED BY <2>1, <2>2, <2>3 DEF RunUpTo
  <1>5. ASSUME NEW i \in 1..Len(p), p[i].n # 0
        PROVE  \E j \in 1..Len(p) : p[j].n = last
    <2>1. d + i \in 1..Len(q) /\ q[d + i].n # 0
      BY <1>2, <1>5
    <2>2. PICK j \in 1..Len(q) : q[j].n = last
      BY <2>1 DEF RunUpTo
    <2>3. q[j].n # 0
      <3>1. q[d + i].n <= last
        BY <2>1 DEF RunUpTo
      <3> QED BY <1>1, <2>1, <2>2, <3>1
    <2>4. \A k \in (j + 1)..Len(q) : q[k].n = 0
      <3>1. ASSUME NEW k \in (j + 1)..Len(q), q[k].n = q[j].n + 1 PROVE FALSE
        <4>1. k \in 1..Len(q)
          BY <1>1
        <4>2. q[k].n <= last
          BY <4>1 DEF RunUpTo
        <4> QED BY <1>1, <2>2, <3>1, <4>1, <4>2
      <3> QED BY <2>3, <3>1 DEF RunUpTo
    <2>5. j > d
      BY <1>1, <2>1, <2>4
    <2>6. j - d \in 1..Len(p) /\ d + (j - d) = j
      BY <1>1, <2>5
    <2> QED BY <2>2, <2>6
  <1> QED BY <1>3, <1>4, <1>5 DEF RunUpTo

\* A run goes on with an event without an id, or with one that is the next
\* after the cursor or, when no event with an id is left, the cursor's again.
LEMMA RunGoesOn ==
    ASSUME NEW s \in Sessions, NEW last \in Nat, NEW q \in Seq(Event),
           RunUpTo(q, last, s), NEW n \in Nat,
           \/ n = 0 \/ last = 0 \/ n = last + 1
           \/ n = last /\ \A i \in 1..Len(q) : q[i].n # n
    PROVE  RunUpTo(Append(q, [session |-> s, n |-> n]), IF n = 0 THEN last ELSE n, s)
  <1> DEFINE e == [session |-> s, n |-> n]
             p == Append(q, e)
             new == IF n = 0 THEN last ELSE n
             m == Len(q)
  <1>1. /\ e \in Event /\ m \in Nat /\ p \in Seq(Event) /\ Len(p) = m + 1
        /\ p[m + 1] = e /\ (\A i \in 1..m : p[i] = q[i] /\ q[i].n \in Nat)
    <2>0. e \in Event
      BY DEF Event
    <2>1. \A i \in 1..m : q[i] \in Event
      OBVIOUS
    <2>2. \A i \in 1..m : q[i].n \in Nat
      BY <2>1 DEF Event
    <2> HIDE DEF e
    <2> QED BY <2>0, <2>2
  <1>2. new \in Nat /\ e.n = n /\ e.session = s
    OBVIOUS
  <1>3. \A i \in 1..m : q[i].session = s /\ q[i].n <= last
    BY DEF RunUpTo
  <1>4. \/ n = 0 \/ (last # 0 /\ n = last + 1)
        \/ \A i \in 1..m : q[i].n = 0
    <2>1. CASE last = 0
      <3>1. ASSUME NEW i \in 1..m PROVE q[i].n = 0
        BY <1>1, <1>3, <2>1
      <3> QED BY <3>1
    <2>2. CASE n = last /\ \A i \in 1..m : q[i].n # n
      BY <2>2 DEF RunUpTo
    <2> QED BY <2>1, <2>2
  <1>5. last <= new \/ \A i \in 1..m : q[i].n = 0
    BY <1>4
  <1> HIDE DEF e, p, m, new
  <1>6. ASSUME NEW i \in 1..Len(p)
        PROVE  p[i].session = s /\ p[i].n <= new
    <2>1. CASE i = m + 1
      BY <1>1, <1>2, <2>1 DEF new
    <2>2. CASE i # m + 1
      <3>1. i \in 1..m
        BY <1>1, <2>2
      <3> QED BY <1>1, <1>2, <1>3, <1>5, <3>1
    <2> QED BY <2>1, <2>2
  <1>7. ASSUME NEW i \in 1..Len(p), p[i].n # 0
        PROVE  \/ p[i].n = new /\ \A j \in (i + 1)..Len(p) : p[j].n = 0
               \/ \E j \in (i + 1)..Len(p) :
                      p[j].n = p[i].n + 1 /\ \A k \in (i + 1)..(j - 1) : p[k].n = 0
    <2>1. CASE i = m + 1
      BY <1>1, <1>2, <1>7, <2>1 DEF new
    <2>2. CASE i # m + 1
      <3>1. i \in 1..m /\ p[i] = q[i] /\ q[i].n # 0
        BY <1>1, <1>7, <2>2
      <3>2. CASE q[i].n = last /\ \A j \in (i + 1)..m : q[j].n = 0
        <4>1. \A k \in (i + 1)..m : p[k].n = 0
          BY <1>1, <3>1, <3>2
        <4>2. CASE n = 0
          <5>1. \A j \in (i + 1)..Len(p) : j \in (i + 1)..m \/ j = m + 1
            BY <1>1, <3>1
          <5>2. \A j \in (i + 1)..Len(p) : p[j].n = 0
            BY <1>1, <1>2, <4>1, <4>2, <5>1
          <5> QED BY <3>1, <3>2, <4>2, <5>2 DEF new
        <4>3. CASE n # 0
          <5>1. n = last + 1
            BY <1>4, <3>1, <4>3
          <5>2. m + 1 \in (i + 1)..Len(p) /\ (m + 1) - 1 = m
            BY <1>1, <3>1
          <5> QED BY <1>1, <1>2, <3>1, <3>2, <4>1, <5>1, <5>2
        <4> QED BY <4>2, <4>3
      <3>3. CASE \E j \in (i + 1)..m :
                     q[j].n = q[i].n + 1 /\ \A k \in (i + 1)..(j - 1) : q[k].n = 0
        <4>1. PICK j \in (i + 1)..m :
                     q[j].n = q[i].n + 1 /\ \A k \in (i + 1)..(j - 1) : q[k].n = 0
          BY <3>3
        <4>2. j \in 1..m /\ j \in (i + 1)..Len(p)
          BY <1>1, <3>1
        <4>3. \A k \in (i + 1)..(j - 1) : k \in 1..m
          BY <1>1, <3>1, <4>2
        <4> QED BY <1>1, <3>1, <4>1, <4>2, <4>3
      <3> QED BY <3>1, <3>2, <3>3 DEF RunUpTo, m
    <2> QED BY <2>1, <2>2
  <1>8. ASSUME NEW i \in 1..Len(p), p[i].n # 0
        PROVE  \E j \in 1..Len(p) : p[j].n = new
    <2>1. CASE n # 0
      <3>1. m + 1 \in 1..Len(p)
        BY <1>1
      <3> QED BY <1>1, <1>2, <2>1, <3>1 DEF new
    <2>2. CASE n = 0
      <3>1. i \in 1..m /\ q[i].n # 0
        BY <1>1, <1>2, <1>8, <2>2
      <3>2. PICK j \in 1..m : q[j].n = last
        BY <3>1 DEF RunUpTo, m
      <3>3. j \in 1..Len(p)
        BY <1>1
      <3> QED BY <1>1, <2>2, <3>2, <3>3 DEF new
    <2> QED BY <2>1, <2>2
  <1>9. RunUpTo(p, new, s)
    BY <1>6, <1>7, <1>8 DEF RunUpTo
  <1> QED BY <1>9 DEF p, e, new

\* An event the server may send next, or one without an id, keeps the window.
LEMMA AppendWindow ==
    ASSUME NEW s \in Sessions, NEW st \in State, WindowOf(st, s), NEW n \in Nat,
           n = 0 \/ st.last = 0 \/ n \in {st.last, st.last + 1},
           ~Held(st, [session |-> s, n |-> n])
    PROVE  LET r == appendSessionStreamEvent(st, [session |-> s, n |-> n])
           IN r \in State /\ WindowOf(r, s) /\ r.last = IF n = 0 THEN st.last ELSE n
  <1> DEFINE e == [session |-> s, n |-> n]
             r == appendSessionStreamEvent(st, e)
             q == st.events
             p == Append(q, e)
             new == IF n = 0 THEN st.last ELSE n
             d == Len(p) - Len(LastOf(p))
  <1>1. st.last \in Nat /\ q \in Seq(Event) /\ e \in Event /\ new \in Nat /\ e.n = n
    BY DEF State, Event
  <1>2. RunUpTo(p, new, s)
    <2>1. RunUpTo(q, st.last, s)
      BY DEF WindowOf, RunUpTo
    <2>2. n = 0 \/ \A i \in 1..Len(q) : q[i].n # n
      BY <1>1 DEF Held
    <2> HIDE DEF q
    <2> QED BY <1>1, <2>1, <2>2, RunGoesOn
  <1>3. p \in Seq(Event) /\ Len(p) \in Nat /\ p # <<>>
    BY <1>1
  <1> HIDE DEF p
  <1>4. /\ LastOf(p) \in Seq(Event) /\ Len(LastOf(p)) \in Nat
        /\ Len(LastOf(p)) <= Len(p) /\ Len(LastOf(p)) <= MaxBuf
        /\ Len(LastOf(p)) > 0
        /\ \A i \in 1..Len(LastOf(p)) : LastOf(p)[i] = p[Len(p) - Len(LastOf(p)) + i]
    BY <1>3, LastOfShifts
  <1>5. d \in Nat /\ Len(p) = d + Len(LastOf(p))
    BY <1>3, <1>4
  <1>6. RunUpTo(LastOf(p), new, s)
    <2>1. \A i \in 1..Len(LastOf(p)) : LastOf(p)[i] = p[d + i]
      BY <1>4
    <2> HIDE DEF d, new
    <2> QED BY <1>1, <1>2, <1>3, <1>4, <1>5, <2>1, EndOfRun
  <1>7. r = [last |-> new, events |-> LastOf(p)]
    BY <1>1 DEF appendSessionStreamEvent, p
  <1>8. r \in State
    BY <1>1, <1>4, <1>7 DEF State
  <1>9. LastOf(p) # <<>>
    BY <1>4
  <1> QED BY <1>4, <1>6, <1>7, <1>8, <1>9 DEF WindowOf

-----------------------------------------------------------------------------
(* Every step keeps FeedInv.                                               *)

\* A page none of whose variables change keeps its part of the invariant.
LEMMA PageUntouched ==
    ASSUME TypeOK, NEW t \in Tabs, PageInv(t),
           \A s \in Sessions : log'[s] \in Nat /\ log[s] <= log'[s],
           seen'[t] = seen[t], ref'[t] = ref[t], shown'[t] = shown[t],
           phase'[t] = phase[t], next'[t] = next[t]
    PROVE  PageInv(t)'
  <1>1. seen[t].session # None => seen[t].session \in Sessions
    BY DEF TypeOK
  <1>2. ref[t].last \in Nat /\ \A s \in Sessions : log[s] \in Nat
    BY DEF TypeOK, State
  <1>3. WindowOf(ref[t], seen[t].session)' <=> WindowOf(ref[t], seen[t].session)
    BY DEF WindowOf, RunUpTo
  <1> QED BY <1>1, <1>2, <1>3 DEF PageInv

\* A session whose saved state does not change keeps its part.
LEMMA StoreUntouched ==
    ASSUME TypeOK, NEW s \in Sessions, StoreInv(s),
           log'[s] \in Nat, log[s] <= log'[s], storage'[s] = storage[s]
    PROVE  StoreInv(s)'
  <1>1. storage[s].last \in Nat /\ log[s] \in Nat
    BY DEF TypeOK, State
  <1>2. WindowOf(storage[s], s)' <=> WindowOf(storage[s], s)
    BY DEF WindowOf, RunUpTo
  <1> QED BY <1>1, <1>2 DEF StoreInv

\* A new event in a log.
LEMMA PublishKeeps ==
    ASSUME FeedInv, NEW s \in Sessions, Publish(s)
    PROVE  FeedInv'
  <1>1. TypeOK /\ (\A r \in Sessions : StoreInv(r)) /\ (\A t \in Tabs : PageInv(t))
    BY DEF FeedInv
  <1>2. /\ log' = [log EXCEPT ![s] = @ + 1]
        /\ UNCHANGED <<storage, session, job, seen, ref, shown, phase, next,
                       late, moves, breaks>>
    BY DEF Publish, page, loop
  <1>3. \A r \in Sessions : log'[r] \in Nat /\ log[r] <= log'[r]
    BY <1>1, <1>2 DEF TypeOK
  <1>4. TypeOK'
    BY <1>1, <1>2 DEF TypeOK
  <1>5. \A r \in Sessions : StoreInv(r)'
    BY <1>1, <1>2, <1>3, StoreUntouched
  <1>6. \A t \in Tabs : PageInv(t)'
    BY <1>1, <1>2, <1>3, PageUntouched
  <1> QED BY <1>4, <1>5, <1>6 DEF FeedInv

\* A step of page t that leaves the logs and localStorage alone only has to
\* keep the types and t's part.
LEMMA OnlyThisPage ==
    ASSUME FeedInv, NEW t \in Tabs, TypeOK', PageInv(t)',
           log' = log, storage' = storage,
           \A u \in Tabs \ {t} :
               /\ seen'[u] = seen[u] /\ ref'[u] = ref[u] /\ shown'[u] = shown[u]
               /\ phase'[u] = phase[u] /\ next'[u] = next[u]
    PROVE  FeedInv'
  <1>1. TypeOK /\ (\A r \in Sessions : StoreInv(r)) /\ (\A u \in Tabs : PageInv(u))
    BY DEF FeedInv
  <1>2. \A r \in Sessions : log'[r] \in Nat /\ log[r] <= log'[r]
    BY <1>1 DEF TypeOK
  <1>3. \A r \in Sessions : StoreInv(r)'
    BY <1>1, <1>2, StoreUntouched
  <1>4. \A u \in Tabs \ {t} : PageInv(u)'
    BY <1>1, <1>2, PageUntouched
  <1> QED BY <1>3, <1>4 DEF FeedInv

\* What the callback does to a page with a stream and, if the save succeeds,
\* to localStorage.
LEMMA ApplyFacts ==
    ASSUME FeedInv, NEW t \in Tabs, phase[t] = "live", NEW n \in Nat,
           n = 0 \/ n = next[t],
           Apply(t, [session |-> seen[t].session, n |-> n])
    PROVE  LET s == seen[t].session
           IN /\ s \in Sessions /\ ref'[t] \in State /\ WindowOf(ref'[t], s)
              /\ ref'[t].last = IF n = 0 THEN ref[t].last ELSE n
              /\ ref' = [ref EXCEPT ![t] = ref'[t]]
              /\ storage' = storage \/ storage' = [storage EXCEPT ![s] = ref'[t]]
              /\ \/ shown' = shown /\ ref' = ref
                 \/ shown' = [shown EXCEPT ![t] = ref'[t].events]
  <1> DEFINE s == seen[t].session
             e == [session |-> s, n |-> n]
             r == appendSessionStreamEvent(ref[t], e)
  <1>1. TypeOK /\ PageInv(t)
    BY DEF FeedInv
  <1>2. /\ s \in Sessions /\ next[t] \in Nat /\ next[t] > 0
        /\ WindowOf(ref[t], s) /\ ref[t] \in State
        /\ ref[t].last = 0 \/ next[t] \in {ref[t].last, ref[t].last + 1}
    BY <1>1 DEF TypeOK, PageInv
  <1>3. ref \in [Tabs -> State] /\ ref[t].last \in Nat
    BY <1>1 DEF TypeOK, State
  <1>4. e.n = n /\ e.session = s
    OBVIOUS
  <1>5. CASE Held(ref[t], e)
    <2>1. UNCHANGED <<ref, storage, shown>>
      BY <1>5 DEF Apply
    <2>2. PICK i \in 1..Len(ref[t].events) : ref[t].events[i].n = n /\ n # 0
      BY <1>4, <1>5 DEF Held
    <2>3. n <= ref[t].last
      BY <1>2, <2>2 DEF WindowOf, RunUpTo
    <2>4. n = ref[t].last
      BY <1>2, <1>3, <2>2, <2>3
    <2>5. ref' = [ref EXCEPT ![t] = ref'[t]]
      BY <1>3, <2>1
    <2> QED BY <1>2, <2>1, <2>2, <2>4, <2>5
  <1>6. CASE ~Held(ref[t], e)
    <2>1. r \in State /\ WindowOf(r, s) /\ r.last = IF n = 0 THEN ref[t].last ELSE n
      BY <1>2, <1>6, AppendWindow
    <2> HIDE DEF r
    <2>2. /\ ref' = [ref EXCEPT ![t] = r]
          /\ storage' \in {storage, [storage EXCEPT ![e.session] = r]}
          /\ shown' = [shown EXCEPT ![t] = r.events]
      BY <1>6 DEF Apply, r
    <2>3. ref'[t] = r
      BY <1>3, <2>2
    <2> QED BY <1>2, <1>4, <2>1, <2>2, <2>3
  <1> QED BY <1>5, <1>6

\* A callback whose event leaves the stream at or after the cursor.
LEMMA ApplyKeeps ==
    ASSUME FeedInv, NEW t \in Tabs, phase[t] = "live", NEW n \in Nat,
           n = 0 \/ (n = next[t] /\ n <= log[seen[t].session]),
           Apply(t, [session |-> seen[t].session, n |-> n]),
           NEW k \in Nat, k > 0, next' = [next EXCEPT ![t] = k],
           \/ n = 0 /\ k = next[t]
           \/ n # 0 /\ k = n + 1,
           breaks' \in 0..MaxBreaks,
           UNCHANGED <<log, session, job, seen, phase, late, moves>>
    PROVE  FeedInv'
  <1> DEFINE s == seen[t].session
             st == ref'[t]
  <1>1. TypeOK /\ (\A r \in Sessions : StoreInv(r)) /\ (\A u \in Tabs : PageInv(u))
    BY DEF FeedInv
  <1>2. /\ s \in Sessions /\ st \in State /\ WindowOf(st, s)
        /\ st.last = IF n = 0 THEN ref[t].last ELSE n
        /\ ref' = [ref EXCEPT ![t] = st]
        /\ storage' = storage \/ storage' = [storage EXCEPT ![s] = st]
        /\ \/ shown' = shown /\ ref' = ref
           \/ shown' = [shown EXCEPT ![t] = st.events]
    BY ApplyFacts
  <1>3. \A r \in Sessions : log'[r] \in Nat /\ log[r] <= log'[r]
    BY <1>1 DEF TypeOK
  <1>4. /\ st.last <= log[s] /\ (st.last = 0 \/ k \in {st.last, st.last + 1})
        /\ phase[t] = "live" /\ s # None /\ ~seen[t].job /\ st.last \in Nat
    <2>1. PageInv(t) /\ ref[t].last \in Nat
      BY <1>1 DEF TypeOK, State
    <2> QED BY <1>2, <2>1 DEF PageInv
  <1> HIDE DEF s, st
  <1>5. TypeOK'
    <2>1. /\ ref \in [Tabs -> State] /\ storage \in [Sessions -> State]
          /\ s \in Sessions /\ st \in State
      BY <1>1, <1>2 DEF TypeOK
    <2>2. /\ [ref EXCEPT ![t] = st] \in [Tabs -> State]
          /\ [storage EXCEPT ![s] = st] \in [Sessions -> State]
      BY <2>1
    <2>3. ref' \in [Tabs -> State] /\ storage' \in [Sessions -> State]
      BY <1>2, <2>1, <2>2
    <2>4. st.events \in Seq(Event \cup {JobEvent})
      <3>1. st.events \in Seq(Event)
        BY <2>1 DEF State
      <3> QED BY <3>1
    <2>5. shown' \in [Tabs -> Seq(Event \cup {JobEvent})]
      BY <1>1, <1>2, <2>4 DEF TypeOK
    <2>6. next' \in [Tabs -> Nat]
      BY <1>1 DEF TypeOK
    <2> QED BY <1>1, <2>3, <2>5, <2>6 DEF TypeOK
  <1>6. ASSUME NEW r \in Sessions PROVE StoreInv(r)'
    <2>1. CASE storage'[r] = storage[r]
      BY <1>1, <1>3, <2>1, StoreUntouched
    <2>2. CASE storage'[r] # storage[r]
      <3>1. r = s /\ storage'[r] = st
        BY <1>1, <1>2, <2>2 DEF TypeOK
      <3>2. WindowOf(storage[r], r)' <=> WindowOf(st, s)
        BY <3>1 DEF WindowOf, RunUpTo
      <3> QED BY <1>2, <1>4, <3>1, <3>2 DEF StoreInv
    <2> QED BY <2>1, <2>2
  <1>7. ASSUME NEW u \in Tabs PROVE PageInv(u)'
    <2>1. CASE u # t
      BY <1>1, <1>2, <1>3, <2>1, PageUntouched DEF TypeOK
    <2>2. CASE u = t
      <3>1. /\ seen'[t].session = s /\ seen'[t] = seen[t] /\ ref'[t] = st
            /\ next'[t] = k /\ phase'[t] = phase[t] /\ log' = log
        BY <1>1 DEF TypeOK, st, s
      <3>2. WindowOf(ref[t], seen[t].session)' <=> WindowOf(st, s)
        BY <3>1 DEF WindowOf, RunUpTo
      <3>3. shown'[t] \in {<<>>, st.events}
        <4>1. CASE shown' = shown /\ ref' = ref
          BY <1>1, <1>4, <4>1 DEF PageInv, st
        <4>2. CASE shown' = [shown EXCEPT ![t] = st.events]
          BY <1>1, <4>2 DEF TypeOK
        <4> QED BY <1>2, <4>1, <4>2
      <3> QED BY <1>2, <1>4, <2>2, <3>1, <3>2, <3>3 DEF PageInv
    <2> QED BY <2>1, <2>2
  <1> QED BY <1>5, <1>6, <1>7 DEF FeedInv

\* One event of the stream, with its id or without one.
LEMMA DeliverKeeps ==
    ASSUME FeedInv, NEW t \in Tabs, Deliver(t) \/ DeliverBare(t)
    PROVE  FeedInv'
  <1>1. TypeOK /\ PageInv(t) /\ phase[t] = "live"
    BY DEF FeedInv, Deliver, DeliverBare
  <1>2. next \in [Tabs -> Nat] /\ next[t] \in Nat /\ next[t] > 0 /\ breaks \in 0..MaxBreaks
    BY <1>1 DEF TypeOK, PageInv
  <1>3. CASE Deliver(t)
    <2>1. /\ next[t] <= log[seen[t].session] /\ next[t] + 1 \in Nat /\ next[t] + 1 > 0
          /\ Apply(t, [session |-> seen[t].session, n |-> next[t]])
          /\ next' = [next EXCEPT ![t] = next[t] + 1]
          /\ UNCHANGED <<log, session, job, seen, phase, late, moves>>
          /\ breaks' \in 0..MaxBreaks /\ next[t] # 0
      BY <1>2, <1>3 DEF Deliver, page
    <2> QED BY <1>1, <1>2, <2>1, ApplyKeeps
  <1>4. CASE DeliverBare(t)
    <2>1. breaks' \in 0..MaxBreaks
      BY <1>2, <1>4, FeedBounds DEF DeliverBare
    <2>2. next' = [next EXCEPT ![t] = next[t]]
      BY <1>2, <1>4 DEF DeliverBare, loop
    <2>3. /\ Apply(t, [session |-> seen[t].session, n |-> 0]) /\ 0 \in Nat
          /\ UNCHANGED <<log, session, job, seen, phase, late, moves>>
      BY <1>4 DEF DeliverBare, page, loop
    <2> QED BY <1>1, <1>2, <2>1, <2>2, <2>3, ApplyKeeps
  <1> QED BY <1>3, <1>4

\* A cancelled loop leaves an event of its session or nothing behind.
LEMMA CancelledType ==
    ASSUME FeedInv, NEW t \in Tabs, Cancelled(t)
    PROVE  /\ late' \in [Tabs -> Event \cup {JobEvent}]
           /\ next' = [next EXCEPT ![t] = 0]
  <1>1. TypeOK /\ PageInv(t)
    BY DEF FeedInv
  <1> DEFINE e == [session |-> seen[t].session, n |-> next[t]]
             old == late[t]
  <1>2. phase[t] = "live" => e \in Event
    BY <1>1 DEF TypeOK, PageInv, Event
  <1>3. old \in Event \cup {JobEvent} /\ late \in [Tabs -> Event \cup {JobEvent}]
    BY <1>1 DEF TypeOK
  <1> HIDE DEF e, old
  <1>4. \E x \in Event \cup {JobEvent} : late' = [late EXCEPT ![t] = x]
    <2>1. CASE phase[t] = "live" /\ next[t] <= log[seen[t].session]
      BY <1>2, <2>1 DEF Cancelled, e
    <2>2. CASE ~(phase[t] = "live" /\ next[t] <= log[seen[t].session])
      BY <1>3, <2>2 DEF Cancelled, old
    <2> QED BY <2>1, <2>2
  <1> QED BY <1>3, <1>4 DEF Cancelled

\* The callback of a cancelled loop.
LEMMA LateCallbackKeeps ==
    ASSUME FeedInv, NEW t \in Tabs, LateCallback(t)
    PROVE  FeedInv'
  <1>1. TypeOK /\ PageInv(t)
    BY DEF FeedInv
  <1>2. /\ late' = [late EXCEPT ![t] = JobEvent]
        /\ UNCHANGED <<log, storage, session, job, seen, ref, shown, phase, next,
                       moves, breaks>>
    BY DEF LateCallback, page
  <1>3. TypeOK'
    BY <1>1, <1>2 DEF TypeOK
  <1>4. PageInv(t)'
    BY <1>1, <1>2, PageUntouched DEF TypeOK
  <1> QED BY <1>2, <1>3, <1>4, OnlyThisPage

\* The server's answer: it begins at or after the acknowledged event.
LEMMA ConnectKeeps ==
    ASSUME FeedInv, NEW t \in Tabs, Connect(t)
    PROVE  FeedInv'
  <1>1. TypeOK /\ PageInv(t)
    BY DEF FeedInv
  <1>2. /\ phase[t] = "connecting" /\ phase' = [phase EXCEPT ![t] = "live"]
        /\ UNCHANGED <<log, storage, session, job, seen, ref, shown, late, moves, breaks>>
    BY DEF Connect, page
  <1>3. PICK k \in Resume(seen[t].session, ref[t].last) :
            next' = [next EXCEPT ![t] = k]
    BY DEF Connect
  <1>4. seen[t].session \in Sessions /\ ref[t].last \in Nat
    BY <1>1, <1>2 DEF TypeOK, PageInv, State
  <1>5. log[seen[t].session] \in Nat
    BY <1>1, <1>4 DEF TypeOK
  <1>6. k \in Nat /\ k > 0 /\ (ref[t].last = 0 \/ k \in {ref[t].last, ref[t].last + 1})
    <2>1. CASE ref[t].last = 0
      BY <1>3, <1>5, <2>1 DEF Resume
    <2>2. CASE ref[t].last # 0
      BY <1>3, <1>4, <2>2 DEF Resume
    <2> QED BY <2>1, <2>2
  <1>7. TypeOK'
    BY <1>1, <1>2, <1>3, <1>6 DEF TypeOK
  <1>8. /\ next'[t] = k /\ phase'[t] = "live" /\ seen'[t] = seen[t]
        /\ ref'[t] = ref[t] /\ shown'[t] = shown[t] /\ log' = log
    BY <1>1, <1>2, <1>3 DEF TypeOK
  <1>9. WindowOf(ref[t], seen[t].session)' <=> WindowOf(ref[t], seen[t].session)
    BY <1>8 DEF WindowOf, RunUpTo
  <1>10. PageInv(t)'
    BY <1>1, <1>2, <1>4, <1>6, <1>8, <1>9 DEF PageInv
  <1>11. \A u \in Tabs \ {t} : phase'[u] = phase[u] /\ next'[u] = next[u]
    BY <1>1, <1>2, <1>3 DEF TypeOK
  <1> QED BY <1>2, <1>7, <1>10, <1>11, OnlyThisPage

\* The phases of the loop that are not live ask nothing of its cursor.
LEMMA PhaseKeeps ==
    ASSUME FeedInv, NEW t \in Tabs, phase[t] # "off",
           NEW p \in {"connecting", "sleep"}, phase' = [phase EXCEPT ![t] = p],
           NEW k \in Nat, next' = [next EXCEPT ![t] = k],
           UNCHANGED <<log, storage, session, job, seen, ref, shown>>,
           late' \in [Tabs -> Event \cup {JobEvent}],
           moves' \in 0..MaxMoves, breaks' \in 0..MaxBreaks
    PROVE  FeedInv'
  <1>1. TypeOK /\ PageInv(t)
    BY DEF FeedInv
  <1>2. TypeOK'
    BY <1>1 DEF TypeOK
  <1>3. /\ phase'[t] = p
        /\ \A u \in Tabs \ {t} : phase'[u] = phase[u] /\ next'[u] = next[u]
    BY <1>1 DEF TypeOK
  <1>4. WindowOf(ref[t], seen[t].session)' <=> WindowOf(ref[t], seen[t].session)
    BY DEF WindowOf, RunUpTo
  <1>5. PageInv(t)'
    BY <1>1, <1>3, <1>4 DEF PageInv
  <1> QED BY <1>2, <1>3, <1>5, OnlyThisPage

LEMMA LoopKeeps ==
    ASSUME FeedInv, NEW t \in Tabs, Break(t) \/ Retry(t) \/ Reauthorize(t)
    PROVE  FeedInv'
  <1>1. TypeOK
    BY DEF FeedInv
  <1>2. late \in [Tabs -> Event \cup {JobEvent}] /\ moves \in 0..MaxMoves
        /\ breaks \in 0..MaxBreaks
    BY <1>1 DEF TypeOK
  <1>3. CASE Break(t)
    <2>1. breaks' \in 0..MaxBreaks
      BY <1>2, <1>3, FeedBounds DEF Break
    <2> QED BY <1>2, <1>3, <2>1, PhaseKeeps DEF Break, page
  <1>4. CASE Retry(t)
    <2>1. next[t] \in Nat /\ next' = [next EXCEPT ![t] = next[t]]
      BY <1>1, <1>4 DEF Retry, TypeOK
    <2> QED BY <1>2, <1>4, <2>1, PhaseKeeps DEF Retry, page
  <1>5. CASE Reauthorize(t)
    <2>1. late' \in [Tabs -> Event \cup {JobEvent}] /\ next' = [next EXCEPT ![t] = 0]
      BY <1>5, CancelledType DEF Reauthorize
    <2>2. moves' \in 0..MaxMoves
      BY <1>2, <1>5, FeedBounds DEF Reauthorize
    <2> QED BY <1>2, <1>5, <2>1, <2>2, PhaseKeeps DEF Reauthorize, page
  <1> QED BY <1>3, <1>4, <1>5

\* The effects: the page takes over a window of its new session.
LEMMA EffectsKeeps ==
    ASSUME FeedInv, NEW t \in Tabs, Effects(t)
    PROVE  FeedInv'
  <1> DEFINE s == session[t]
  <1>1. TypeOK /\ PageInv(t) /\ s \in Sessions
    BY DEF FeedInv, TypeOK
  <1>2. StoreInv(s)
    BY <1>1 DEF FeedInv
  <1>3. /\ seen' = [seen EXCEPT ![t] = [session |-> s, job |-> job[t]]]
        /\ ref' = [ref EXCEPT ![t] = storage[s]]
        /\ shown' = [shown EXCEPT ![t] = IF job[t] THEN @ ELSE storage[s].events]
        /\ phase' = [phase EXCEPT ![t] = IF job[t] THEN "off" ELSE "connecting"]
        /\ UNCHANGED <<log, storage, session, job, moves, breaks>>
    BY DEF Effects
  <1>4. late' \in [Tabs -> Event \cup {JobEvent}] /\ next' = [next EXCEPT ![t] = 0]
    BY CancelledType DEF Effects
  <1> HIDE DEF s
  <1>5. storage[s] \in State /\ storage[s].events \in Seq(Event \cup {JobEvent})
    <2>1. storage[s] \in State
      BY <1>1 DEF TypeOK
    <2>2. storage[s].events \in Seq(Event)
      BY <2>1 DEF State
    <2> QED BY <2>1, <2>2
  <1>6. TypeOK'
    <2>1. seen' \in [Tabs -> [session : Sessions \cup {None}, job : BOOLEAN]]
      BY <1>1, <1>3 DEF TypeOK
    <2>2. ref' \in [Tabs -> State]
      BY <1>1, <1>3, <1>5 DEF TypeOK
    <2>3. shown' \in [Tabs -> Seq(Event \cup {JobEvent})]
      BY <1>1, <1>3, <1>5 DEF TypeOK
    <2>4. phase' \in [Tabs -> {"off", "connecting", "live", "sleep"}]
      BY <1>1, <1>3 DEF TypeOK
    <2> QED BY <1>1, <1>3, <1>4, <2>1, <2>2, <2>3, <2>4 DEF TypeOK
  <1>7. /\ seen'[t].session = s /\ seen'[t].job = job[t] /\ ref'[t] = storage[s]
        /\ ~job[t] => shown'[t] = storage[s].events
        /\ phase'[t] \in {"off", "connecting"} /\ (phase'[t] # "off" => ~job[t])
    BY <1>1, <1>3 DEF TypeOK
  <1>8. WindowOf(ref[t], seen[t].session)' <=> WindowOf(storage[s], s)
    BY <1>7 DEF WindowOf, RunUpTo
  <1>9. s # None
    BY <1>1, SessionAssumption
  <1>10. PageInv(t)'
    BY <1>2, <1>3, <1>7, <1>8, <1>9 DEF PageInv, StoreInv
  <1>11. \A u \in Tabs \ {t} :
             /\ seen'[u] = seen[u] /\ ref'[u] = ref[u] /\ shown'[u] = shown[u]
             /\ phase'[u] = phase[u] /\ next'[u] = next[u]
    BY <1>1, <1>3, <1>4 DEF TypeOK
  <1> QED BY <1>3, <1>6, <1>10, <1>11, OnlyThisPage

\* What happens on the page before its effects run: the session, the job and
\* the list change, the list only to <<>> unless the job's hooks write it.
LEMMA RenderKeeps ==
    ASSUME FeedInv, NEW t \in Tabs,
           NEW q \in Seq(Event \cup {JobEvent}),
           q \in {<<>>, shown[t]} \/ seen[t].job,
           shown' = [shown EXCEPT ![t] = q],
           session' \in [Tabs -> Sessions], job' \in [Tabs -> BOOLEAN],
           moves' \in 0..MaxMoves,
           UNCHANGED <<log, storage, seen, ref, phase, next, late, breaks>>
    PROVE  FeedInv'
  <1>1. TypeOK /\ PageInv(t)
    BY DEF FeedInv
  <1>2. TypeOK'
    BY <1>1 DEF TypeOK
  <1>3. shown'[t] = q /\ \A u \in Tabs \ {t} : shown'[u] = shown[u]
    BY <1>1 DEF TypeOK
  <1>4. WindowOf(ref[t], seen[t].session)' <=> WindowOf(ref[t], seen[t].session)
    BY DEF WindowOf, RunUpTo
  <1>5. PageInv(t)'
    BY <1>1, <1>3, <1>4 DEF PageInv
  <1> QED BY <1>2, <1>3, <1>5, OnlyThisPage

LEMMA RenderStepsKeep ==
    ASSUME FeedInv, NEW t \in Tabs, NEW s \in Sessions,
           \/ SetSession(t, s) \/ NewSession(t, s)
           \/ RunSucceeds(t) \/ JobProgress(t) \/ JobDone(t)
    PROVE  FeedInv'
  <1> DEFINE T == Event \cup {JobEvent}
             old == shown[t]
  <1>1. /\ TypeOK /\ old \in Seq(T) /\ shown \in [Tabs -> Seq(T)]
        /\ session \in [Tabs -> Sessions] /\ job \in [Tabs -> BOOLEAN]
        /\ moves \in 0..MaxMoves
    BY DEF FeedInv, TypeOK
  <1>2. <<>> \in Seq(T) /\ Append(old, JobEvent) \in Seq(T)
    BY <1>1
  <1>3. shown = [shown EXCEPT ![t] = old]
    BY <1>1
  <1>4. moves < MaxMoves => moves + 1 \in 0..MaxMoves
    BY <1>1, FeedBounds
  <1> HIDE DEF old, T
  <1>5. CASE SetSession(t, s)
    <2>1. session' \in [Tabs -> Sessions]
      BY <1>1, <1>5 DEF SetSession
    <2> QED BY <1>1, <1>3, <1>4, <1>5, <2>1, RenderKeeps DEF SetSession, loop, old, T
  <1>6. CASE NewSession(t, s)
    <2>1. session' \in [Tabs -> Sessions] /\ job' \in [Tabs -> BOOLEAN]
      BY <1>1, <1>6 DEF NewSession
    <2> QED BY <1>1, <1>2, <1>4, <1>6, <2>1, RenderKeeps DEF NewSession, loop, T
  <1>7. CASE RunSucceeds(t)
    <2>1. job' \in [Tabs -> BOOLEAN]
      BY <1>1, <1>7 DEF RunSucceeds
    <2> QED BY <1>1, <1>2, <1>4, <1>7, <2>1, RenderKeeps DEF RunSucceeds, loop, T
  <1>8. CASE JobProgress(t)
    <2>1. /\ seen[t].job /\ shown' = [shown EXCEPT ![t] = Append(old, JobEvent)]
          /\ UNCHANGED <<log, storage, session, job, seen, ref, phase, next, late,
                         moves, breaks>>
      BY <1>8 DEF JobProgress, loop, page, old
    <2> QED BY <1>1, <1>2, <2>1, RenderKeeps DEF T
  <1>9. CASE JobDone(t)
    <2>1. job' \in [Tabs -> BOOLEAN]
      BY <1>1, <1>9 DEF JobDone
    <2> QED BY <1>1, <1>3, <1>9, <2>1, RenderKeeps DEF JobDone, loop, old, T
  <1> QED BY <1>5, <1>6, <1>7, <1>8, <1>9

\* A page that is loaded again starts from nothing.
LEMMA ReloadKeeps ==
    ASSUME FeedInv, NEW t \in Tabs, Reload(t)
    PROVE  FeedInv'
  <1>1. TypeOK
    BY DEF FeedInv
  <1>2. /\ job' = [job EXCEPT ![t] = FALSE] /\ seen' = [seen EXCEPT ![t] = Unseen]
        /\ ref' = [ref EXCEPT ![t] = EMPTY_PERSISTED_STATE]
        /\ shown' = [shown EXCEPT ![t] = <<>>]
        /\ phase' = [phase EXCEPT ![t] = "off"] /\ next' = [next EXCEPT ![t] = 0]
        /\ late' = [late EXCEPT ![t] = JobEvent]
        /\ moves < MaxMoves /\ moves' = moves + 1
        /\ UNCHANGED <<log, storage, session, breaks>>
    BY DEF Reload
  <1>3. TypeOK'
    <2>1. EMPTY_PERSISTED_STATE \in State
      BY EmptyWindow
    <2>2. Unseen \in [session : Sessions \cup {None}, job : BOOLEAN]
      BY DEF Unseen
    <2>3. ref' \in [Tabs -> State] /\ job' \in [Tabs -> BOOLEAN]
      BY <1>1, <1>2, <2>1 DEF TypeOK
    <2>4. seen' \in [Tabs -> [session : Sessions \cup {None}, job : BOOLEAN]]
      BY <1>1, <1>2, <2>2 DEF TypeOK
    <2>5. shown' \in [Tabs -> Seq(Event \cup {JobEvent})]
      BY <1>1, <1>2 DEF TypeOK
    <2>6. late' \in [Tabs -> Event \cup {JobEvent}]
      BY <1>1, <1>2 DEF TypeOK
    <2>7. moves' \in 0..MaxMoves
      BY <1>1, <1>2, FeedBounds DEF TypeOK
    <2> QED BY <1>1, <1>2, <2>3, <2>4, <2>5, <2>6, <2>7 DEF TypeOK
  <1>4. seen'[t] = Unseen /\ shown'[t] = <<>> /\ phase'[t] = "off"
    BY <1>1, <1>2 DEF TypeOK
  <1>5. PageInv(t)'
    BY <1>4 DEF PageInv, Unseen
  <1>6. \A u \in Tabs \ {t} :
            /\ seen'[u] = seen[u] /\ ref'[u] = ref[u] /\ shown'[u] = shown[u]
            /\ phase'[u] = phase[u] /\ next'[u] = next[u]
    BY <1>1, <1>2 DEF TypeOK
  <1> QED BY <1>2, <1>3, <1>5, <1>6, OnlyThisPage

-----------------------------------------------------------------------------
LEMMA FeedInvInit == Init => FeedInv
  <1> SUFFICES ASSUME Init PROVE FeedInv
    OBVIOUS
  <1>1. \A s \in Sessions : EMPTY_PERSISTED_STATE \in State /\ WindowOf(EMPTY_PERSISTED_STATE, s)
    BY EmptyWindow
  <1>2. EMPTY_PERSISTED_STATE \in State
    BY EmptyWindow
  <1>3. TypeOK
    <2>1. Unseen \in [session : Sessions \cup {None}, job : BOOLEAN]
      BY DEF Unseen
    <2> QED BY <1>2, <2>1, FeedBounds DEF Init, TypeOK
  <1>4. \A s \in Sessions : StoreInv(s)
    <2>1. EMPTY_PERSISTED_STATE.last = 0
      BY DEF EMPTY_PERSISTED_STATE
    <2> QED BY <1>1, <2>1 DEF Init, StoreInv
  <1>5. \A t \in Tabs : PageInv(t)
    BY DEF Init, PageInv, Unseen
  <1> QED BY <1>3, <1>4, <1>5 DEF FeedInv

LEMMA FeedInvNext == FeedInv /\ [Next]_vars => FeedInv'
  <1> SUFFICES ASSUME FeedInv, [Next]_vars PROVE FeedInv'
    OBVIOUS
  <1>1. ASSUME NEW s \in Sessions, Publish(s) PROVE FeedInv'
    BY <1>1, PublishKeeps
  <1>2. ASSUME NEW t \in Tabs, PageStep(t) PROVE FeedInv'
    <2>1. CASE Deliver(t) \/ DeliverBare(t)
      BY <2>1, DeliverKeeps
    <2>2. CASE LateCallback(t)
      BY <2>2, LateCallbackKeeps
    <2>3. CASE Connect(t)
      BY <2>3, ConnectKeeps
    <2>4. CASE Break(t) \/ Retry(t) \/ Reauthorize(t)
      BY <2>4, LoopKeeps
    <2>5. CASE Effects(t)
      BY <2>5, EffectsKeeps
    <2>6. CASE RunSucceeds(t) \/ JobProgress(t) \/ JobDone(t)
      <3>1. session[t] \in Sessions
        BY DEF FeedInv, TypeOK
      <3> QED BY <2>6, <3>1, RenderStepsKeep
    <2>7. CASE Reload(t)
      BY <2>7, ReloadKeeps
    <2>8. ASSUME NEW s \in Sessions, SetSession(t, s) \/ NewSession(t, s)
          PROVE  FeedInv'
      BY <2>8, RenderStepsKeep
    <2> QED BY <1>2, <2>1, <2>2, <2>3, <2>4, <2>5, <2>6, <2>7, <2>8 DEF PageStep
  <1>3. CASE UNCHANGED vars
    <2>1. TypeOK /\ (\A s \in Sessions : StoreInv(s)) /\ (\A t \in Tabs : PageInv(t))
      BY DEF FeedInv
    <2>2. UNCHANGED <<log, storage, session, job, seen, ref, shown, phase, next,
                      late, moves, breaks>>
      BY <1>3 DEF vars
    <2>3. TypeOK'
      BY <2>1, <2>2 DEF TypeOK
    <2>4. \A s \in Sessions : log'[s] \in Nat /\ log[s] <= log'[s]
      BY <2>1, <2>2 DEF TypeOK
    <2>5. \A s \in Sessions : StoreInv(s)'
      BY <2>1, <2>2, <2>4, StoreUntouched
    <2>6. \A t \in Tabs : PageInv(t)'
      BY <2>1, <2>2, <2>4, PageUntouched
    <2> QED BY <2>3, <2>5, <2>6 DEF FeedInv
  <1> QED BY <1>1, <1>2, <1>3 DEF Next

\* The stronger invariant holds in every reachable state.
THEOREM FeedInvariant == Spec => []FeedInv
  BY FeedInvInit, FeedInvNext, PTL DEF Spec

\* Every variable of the pages keeps its type (useSessionEventStreaming.ts).
THEOREM FeedTypes == Spec => []TypeOK
  <1>1. FeedInv => TypeOK
    BY DEF FeedInv
  <1> QED BY <1>1, FeedInvariant, PTL

\* However many pages share a browser and however their streams break, every
\* saved and every held buffer is a window of its session's log, among whose
\* events any number without an id may stand: the cancelled flag, the reload of
\* persistedRef and the bounded dedupe are enough, although events without an id
\* are never deduped and may push the cursor's own event out of the buffer.
THEOREM BuffersStayWindows == Spec => []BuffersAreWindows
  <1>1. FeedInv => BuffersAreWindows
    BY DEF FeedInv, BuffersAreWindows, StoreInv, PageInv
  <1> QED BY <1>1, FeedInvariant, PTL

\* A page whose effects have run and which has no job shows its own buffer.
THEOREM SettledPagesShowTheirOwn == Spec => []SettledView
  <1>1. FeedInv => SettledView
    <2> SUFFICES ASSUME FeedInv, NEW t \in Tabs, ~Due(t), ~job[t]
                 PROVE  shown[t] \in {<<>>, ref[t].events}
      BY DEF SettledView
    <2>1. seen[t].job = job[t]
      BY DEF Due
    <2> QED BY <2>1 DEF FeedInv, PageInv
  <1> QED BY <1>1, FeedInvariant, PTL

-----------------------------------------------------------------------------
(* The stream implements EventFeed.                                        *)

LEMMA FeedInitRefines == Init => Feed!FeedInit
  <1> SUFFICES ASSUME Init PROVE Feed!FeedInit
    OBVIOUS
  <1>1. view \in [Tabs -> [session : Sessions, job : {FALSE}]]
    BY DEF Init, view
  <1>2. saved = [s \in Sessions |-> 0] /\ at = [t \in Tabs |-> Feed!Closed]
    BY DEF Init, Feed!Closed, at, saved, Unseen, EMPTY_PERSISTED_STATE
  <1> QED BY <1>1, <1>2 DEF Init, Feed!FeedInit

\* Steps that leave sessions, jobs, cursors and logs alone are stuttering steps.
LEMMA FeedStutters ==
    ASSUME UNCHANGED <<log, storage, session, job, seen, ref>>
    PROVE  UNCHANGED Feed!feedVars
  BY DEF Feed!feedVars, at, saved, view

\* An event with an id is read, is one the page has, or has its cursor saved
\* again; one without an id can only do the last.
LEMMA DeliverRefines ==
    ASSUME FeedInv, NEW t \in Tabs, Deliver(t) \/ DeliverBare(t)
    PROVE  Feed!FeedRead(t) \/ Feed!FeedSave(t) \/ UNCHANGED Feed!feedVars
  <1> DEFINE s == seen[t].session
             n == IF Deliver(t) THEN next[t] ELSE 0
             new == IF n = 0 THEN ref[t].last ELSE n
  <1>1. TypeOK /\ PageInv(t) /\ phase[t] = "live"
    BY DEF FeedInv, Deliver, DeliverBare
  <1>2. n \in Nat /\ (n = 0 \/ n = next[t]) /\ ref[t].last \in Nat
    BY <1>1 DEF TypeOK, State
  <1>3. Apply(t, [session |-> s, n |-> n]) /\ (n # 0 => n <= log[s])
    BY <1>2 DEF Deliver, DeliverBare
  <1>4. UNCHANGED <<log, session, job, seen>>
    BY DEF Deliver, DeliverBare, page
  <1> HIDE DEF n
  <1>5. /\ s \in Sessions /\ ref'[t].last = new /\ ref' = [ref EXCEPT ![t] = ref'[t]]
        /\ storage' = storage \/ storage' = [storage EXCEPT ![s] = ref'[t]]
    BY <1>1, <1>2, <1>3, ApplyFacts
  <1>6. /\ at[t].session = s /\ at[t].last = ref[t].last /\ Feed!Reading(t)
    BY <1>1 DEF at, PageInv, Feed!Reading
  <1>7. /\ new = ref[t].last \/ ref[t].last = 0 \/ new = ref[t].last + 1
        /\ n # 0 => new \in 1..log[s]
    BY <1>1, <1>2, <1>3, <1>5 DEF PageInv, TypeOK
  <1>8. view' = view /\ log' = log
    BY <1>4 DEF view
  <1>9. at' = [at EXCEPT ![t].last = new]
    <2>1. \A u \in Tabs : u # t => ref'[u] = ref[u]
      BY <1>1, <1>5 DEF TypeOK
    <2> QED BY <1>4, <1>5, <2>1 DEF at
  <1>10. saved' \in {saved, [saved EXCEPT ![s] = new]}
    <2>1. CASE storage' = storage
      BY <2>1 DEF saved
    <2>2. CASE storage' = [storage EXCEPT ![s] = ref'[t]]
      <3>1. \A r \in Sessions :
                storage'[r].last = IF r = s THEN new ELSE storage[r].last
        BY <1>1, <1>5, <2>2 DEF TypeOK
      <3> QED BY <1>5, <3>1 DEF saved
    <2> QED BY <1>5, <2>1, <2>2
  <1>11. CASE new = ref[t].last
    <2>1. at' = at
      BY <1>4, <1>9, <1>11 DEF at
    <2> QED BY <1>6, <1>8, <1>10, <1>11, <2>1 DEF Feed!FeedSave, Feed!feedVars
  <1>12. CASE new # ref[t].last
    <2>1. n # 0
      BY <1>12
    <2> QED BY <1>6, <1>7, <1>8, <1>9, <1>10, <1>12, <2>1 DEF Feed!FeedRead
  <1> QED BY <1>11, <1>12

LEMMA FeedStepRefines ==
    FeedInv /\ [Next]_vars => [Feed!FeedNext]_Feed!feedVars
  <1> SUFFICES ASSUME FeedInv, [Next]_vars
               PROVE  Feed!FeedNext \/ UNCHANGED Feed!feedVars
    OBVIOUS
  <1>0. TypeOK
    BY DEF FeedInv
  <1>1. ASSUME NEW s \in Sessions, Publish(s) PROVE Feed!FeedNext
    <2>1. /\ log' = [log EXCEPT ![s] = @ + 1]
          /\ UNCHANGED <<storage, session, job, seen, ref>>
      BY <1>1 DEF Publish, page
    <2> QED BY <2>1 DEF Feed!FeedNext, Feed!FeedPublish, at, saved, view
  <1>2. ASSUME NEW t \in Tabs, Deliver(t) \/ DeliverBare(t)
        PROVE  Feed!FeedNext \/ UNCHANGED Feed!feedVars
    BY <1>2, DeliverRefines DEF Feed!FeedNext
  <1>3. ASSUME NEW t \in Tabs, Effects(t) PROVE Feed!FeedNext
    <2> DEFINE s == session[t]
    <2>1. s \in Sessions /\ view[t] = [session |-> s, job |-> job[t]]
      BY <1>0 DEF TypeOK, view
    <2>2. /\ seen' = [seen EXCEPT ![t] = [session |-> s, job |-> job[t]]]
          /\ ref' = [ref EXCEPT ![t] = storage[s]]
          /\ UNCHANGED <<log, storage, session, job>>
      BY <1>3 DEF Effects
    <2>3. at' = [at EXCEPT ![t] = [session |-> s, job |-> job[t], last |-> storage[s].last]]
      BY <1>0, <2>2 DEF at, TypeOK
    <2>4. saved[s] = storage[s].last /\ saved' = saved /\ view' = view /\ log' = log
      BY <2>1, <2>2 DEF saved, view
    <2>5. <<at[t].session, at[t].job>> # <<s, job[t]>>
      <3>1. seen[t] = [session |-> seen[t].session, job |-> seen[t].job]
        BY <1>0 DEF TypeOK
      <3>2. at[t].session = seen[t].session /\ at[t].job = seen[t].job
        BY DEF at
      <3>3. ~(seen[t].session = s /\ seen[t].job = job[t])
        BY <1>3, <3>1 DEF Effects, Due
      <3> QED BY <3>2, <3>3
    <2>6. view[t].session = s /\ view[t].job = job[t]
      BY <2>1
    <2> HIDE DEF s
    <2>7. Feed!FeedOpen(t)
      BY <2>3, <2>4, <2>5, <2>6 DEF Feed!FeedOpen
    <2> QED BY <2>7 DEF Feed!FeedNext
  <1>4. ASSUME NEW t \in Tabs, Reload(t) PROVE Feed!FeedNext
    <2>1. /\ seen' = [seen EXCEPT ![t] = Unseen] /\ log' = log /\ storage' = storage
          /\ ref' = [ref EXCEPT ![t] = EMPTY_PERSISTED_STATE]
          /\ job' = [job EXCEPT ![t] = FALSE] /\ session' = session
      BY <1>4 DEF Reload
    <2>2. at' = [at EXCEPT ![t] = Feed!Closed]
      BY <1>0, <2>1 DEF at, TypeOK, Unseen, EMPTY_PERSISTED_STATE, Feed!Closed
    <2>3. view' = [view EXCEPT ![t].job = FALSE] /\ saved' = saved
      BY <1>0, <2>1 DEF view, saved, TypeOK
    <2> QED BY <2>1, <2>2, <2>3 DEF Feed!FeedNext, Feed!FeedClose
  <1>5. ASSUME NEW t \in Tabs, NEW s \in Sessions,
               \/ SetSession(t, s) \/ NewSession(t, s) \/ RunSucceeds(t) \/ JobDone(t)
        PROVE  Feed!FeedNext
    <2>1. UNCHANGED <<log, storage, seen, ref>>
      BY <1>5 DEF SetSession, NewSession, RunSucceeds, JobDone
    <2>2. /\ session'[t] \in Sessions /\ job'[t] \in BOOLEAN
          /\ \A u \in Tabs : u # t => session'[u] = session[u] /\ job'[u] = job[u]
      BY <1>0, <1>5 DEF SetSession, NewSession, RunSucceeds, JobDone, TypeOK
    <2> DEFINE v == [session |-> session'[t], job |-> job'[t]]
    <2>3. v \in Feed!View
      BY <2>2 DEF Feed!View
    <2>4. view' = [view EXCEPT ![t] = v]
      BY <2>2 DEF view
    <2>5. log' = log /\ saved' = saved /\ at' = at
      BY <2>1 DEF saved, at
    <2> HIDE DEF v
    <2> QED BY <2>3, <2>4, <2>5 DEF Feed!FeedNext, Feed!FeedMove
  <1>6. ASSUME NEW t \in Tabs,
               \/ LateCallback(t) \/ Connect(t) \/ Break(t) \/ Retry(t)
               \/ Reauthorize(t) \/ JobProgress(t)
        PROVE  UNCHANGED Feed!feedVars
    <2>1. UNCHANGED <<log, storage, session, job, seen, ref>>
      BY <1>6 DEF LateCallback, Connect, Break, Retry, Reauthorize, JobProgress, page
    <2> QED BY <2>1, FeedStutters
  <1>7. ASSUME UNCHANGED vars PROVE UNCHANGED Feed!feedVars
    BY <1>7, FeedStutters DEF vars
  <1>8. ASSUME NEW t \in Tabs, PageStep(t)
        PROVE  Feed!FeedNext \/ UNCHANGED Feed!feedVars
    <2>1. session[t] \in Sessions
      BY <1>0 DEF TypeOK
    <2> QED BY <1>2, <1>3, <1>4, <1>5, <1>6, <1>8, <2>1 DEF PageStep
  <1> QED BY <1>1, <1>7, <1>8 DEF Next

\* Each page reads the events of its session one after the other, without a
\* gap and without going back, and takes up another place only when its user
\* has moved it: then the cursor saved for the session it is to show.
THEOREM StreamImplementsFeed == Spec => ReadsAsFeed
  <1>1. Init => Feed!FeedInit
    BY FeedInitRefines
  <1>2. FeedInv /\ [Next]_vars => [Feed!FeedNext]_Feed!feedVars
    BY FeedStepRefines
  <1> QED BY <1>1, <1>2, FeedInvariant, PTL DEF Spec, ReadsAsFeed, Feed!FeedSpec
=============================================================================
