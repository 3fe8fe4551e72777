-------------------------- MODULE JobStreamProofs ---------------------------
(***************************************************************************)
(* The window of events an in-memory job keeps, and what the WebUI shows   *)
(* of it, for every HardMax <= SoftMax and any slice, number of events,    *)
(* lives and broken connections.                                           *)
(***************************************************************************)
EXTENDS JobStream, SequenceTheorems, TLAPS

\* The part of the type invariant that the window needs.
WindowTypes ==
    /\ status \in {"absent", "running", "done"}
    /\ offset \in Nat /\ events \in Seq(Event)
    /\ life \in Nat /\ made \in Nat

\* WindowFaithful is not inductive: Resume starts counting from 0 again, which
\* is right only because an absent job has no window left.
WindowInv ==
    /\ WindowTypes
    /\ WindowFaithful
    /\ status = "absent" => offset = 0 /\ events = <<>>

-----------------------------------------------------------------------------
(* Lemmas about the operators of job_append_event.                         *)

\* Cutting removes events only above SoftMax, and never all of them: the
\* number cut is a natural number, and what stays is a proper length.
LEMMA ExcessBounds ==
    ASSUME NEW w \in Seq(Event), Len(w) >= 1
    PROVE  /\ Excess(w) \in Nat /\ Excess(w) < Len(w)
           /\ Len(w) > SoftMax => Len(w) - Excess(w) = HardMax
           /\ Len(w) <= SoftMax => Excess(w) = 0
  BY WindowAssumption DEF Excess

\* Erasing the k oldest events shifts the window by k and keeps its type.
LEMMA LastShifts ==
    ASSUME NEW w \in Seq(Event), NEW k \in Nat, k < Len(w)
    PROVE  /\ Last(w, k) \in Seq(Event)
           /\ Len(Last(w, k)) = Len(w) - k
           /\ \A i \in 1..Len(w) - k : Last(w, k)[i] = w[i + k]
  BY DEF Last

-----------------------------------------------------------------------------
\* job_append_event keeps the window faithful whether or not it cuts it.
LEMMA AppendKeepsWindow ==
    ASSUME WindowInv, AppendEvent
    PROVE  WindowInv'
  <1> DEFINE e == [life |-> life, n |-> made]
             w == Append(events, e)
             k == Excess(w)
  <1>0. /\ WindowTypes /\ WindowFaithful
        /\ status # "absent" /\ status' = status /\ life' = life
        /\ made' = made + 1 /\ events' = Last(w, k) /\ offset' = offset + k
    BY DEF WindowInv, AppendEvent
  <1>1. e \in Event
    BY <1>0 DEF WindowTypes, Event
  <1>2. /\ w \in Seq(Event) /\ Len(w) = Len(events) + 1
        /\ \A i \in 1..Len(events) : w[i] = events[i]
        /\ w[Len(events) + 1] = e
    BY <1>0, <1>1 DEF WindowTypes
  <1>3. Len(events) \in Nat
    BY <1>0 DEF WindowTypes
  <1> HIDE DEF w
  <1>4. /\ k \in Nat /\ k < Len(w)
        /\ Len(w) > SoftMax => Len(w) - k = HardMax
        /\ Len(w) <= SoftMax => k = 0
    BY <1>2, <1>3, ExcessBounds
  <1>5. /\ events' \in Seq(Event) /\ Len(events') = Len(w) - k
        /\ \A i \in 1..Len(w) - k : events'[i] = w[i + k]
    BY <1>0, <1>2, <1>4, LastShifts
  <1>6. End = made
    BY <1>0 DEF WindowFaithful
  <1> HIDE DEF k
  <1>7. WindowTypes'
    BY <1>0, <1>4, <1>5 DEF WindowTypes
  <1>8. ASSUME NEW i \in 1..Len(events')
        PROVE  events'[i] = [life |-> life, n |-> offset' + i - 1]
    <2>1. /\ i + k \in 1..Len(events) + 1 /\ events'[i] = w[i + k]
      BY <1>2, <1>3, <1>4, <1>5
    <2>2. offset \in Nat /\ made = offset + Len(events)
      BY <1>0, <1>6 DEF WindowTypes, End
    <2>3. CASE i + k = Len(events) + 1
      <3>1. made = offset' + i - 1
        BY <1>0, <1>3, <1>4, <2>2, <2>3
      <3> QED BY <1>2, <2>1, <2>3, <3>1
    <2>4. CASE i + k # Len(events) + 1
      <3>1. i + k \in 1..Len(events)
        BY <1>3, <1>4, <2>1, <2>4
      <3>2. w[i + k] = [life |-> life, n |-> offset + (i + k) - 1]
        BY <1>0, <1>2, <3>1 DEF WindowFaithful
      <3>3. offset + (i + k) - 1 = offset' + i - 1
        BY <1>0, <1>3, <1>4, <2>2
      <3> QED BY <2>1, <3>2, <3>3
    <2> QED BY <2>3, <2>4
  <1>9. End' = made'
    <2>1. End' = offset' + Len(events')
      BY DEF End
    <2>2. offset \in Nat /\ offset + Len(events) = made
      BY <1>0, <1>6 DEF End, WindowTypes
    <2>3. Len(events') = (Len(events) + 1) - k
      BY <1>2, <1>5
    <2> QED BY <1>0, <1>3, <1>4, <2>1, <2>2, <2>3
  <1>10. Len(events') <= SoftMax
    BY <1>2, <1>3, <1>4, <1>5, WindowAssumption
  <1>11. offset' > 0 => Len(events') >= HardMax
    <2>1. offset > 0 => Len(events) >= HardMax
      BY <1>0 DEF WindowFaithful
    <2> QED BY <1>0, <1>2, <1>3, <1>4, <1>5, <2>1, WindowAssumption DEF WindowTypes
  <1>12. WindowFaithful'
    BY <1>0, <1>8, <1>9, <1>10, <1>11 DEF WindowFaithful
  <1> QED BY <1>0, <1>7, <1>12 DEF WindowInv

\* Forgetting the job (job_gc, job/delete, a restart) empties the window.
LEMMA ForgetKeepsWindow ==
    ASSUME WindowInv, Forget, UNCHANGED <<life, made>>
    PROVE  WindowInv'
  BY WindowAssumption DEF WindowInv, WindowTypes, WindowFaithful, Forget, End

\* A resumed job starts a new life with the empty window of job_create.
LEMMA ResumeKeepsWindow ==
    ASSUME WindowInv, Resume
    PROVE  WindowInv'
  <1>1. offset = 0 /\ events = <<>> /\ life \in Nat
    BY DEF WindowInv, WindowTypes, Resume
  <1>2. /\ status' = "running" /\ offset' = 0 /\ events' = <<>>
        /\ made' = 0 /\ life' \in Nat
    BY <1>1 DEF Resume
  <1> QED BY <1>2, WindowAssumption DEF WindowInv, WindowTypes, WindowFaithful, End

\* Every other step leaves the window, and whether there is one, alone.
LEMMA OthersKeepWindow ==
    ASSUME WindowInv, UNCHANGED <<offset, events, life, made>>,
           status' = status \/ (status # "absent" /\ status' \in {"running", "done"})
    PROVE  WindowInv'
  BY DEF WindowInv, WindowTypes, WindowFaithful, End

LEMMA WindowInvInit == Init => WindowInv
  BY WindowAssumption DEF Init, WindowInv, WindowTypes, WindowFaithful, End

LEMMA WindowInvNext == WindowInv /\ [Next]_vars => WindowInv'
  <1> SUFFICES ASSUME WindowInv, [Next]_vars PROVE WindowInv'
    OBVIOUS
  <1>1. CASE AppendEvent
    BY <1>1, AppendKeepsWindow
  <1>2. CASE Gc \/ Restart
    BY <1>2, ForgetKeepsWindow DEF Gc, Restart
  <1>3. CASE Resume
    BY <1>3, ResumeKeepsWindow
  <1>4. CASE Finish \/ Persist
    BY <1>4, OthersKeepWindow DEF Finish, Persist
  <1>5. CASE Server \/ Drop
    BY <1>5, OthersKeepWindow DEF Server, StreamTurn, StreamFallback, Drop, job
  <1>6. CASE WebUI \/ Watchdog \/ SaveCursor \/ Reload
    BY <1>6, OthersKeepWindow
       DEF WebUI, OpenStream, Receive, StreamEnded, Poll, Watchdog, SaveCursor, Reload, job
  <1>7. CASE UNCHANGED vars
    BY <1>7, OthersKeepWindow DEF vars
  <1> QED BY <1>1, <1>2, <1>3, <1>4, <1>5, <1>6, <1>7 DEF Next, Daemon

\* A cursor names one event for as long as the job lives in memory: for every
\* window size job_append_event may be built with, the window holds the latest
\* events of this life under their own numbers and its length stays in bounds.
THEOREM WindowIsFaithful == Spec => []WindowFaithful
  <1>1. WindowInv => WindowFaithful
    BY DEF WindowInv
  <1> QED BY <1>1, WindowInvInit, WindowInvNext, PTL DEF Spec

-----------------------------------------------------------------------------
(* From the window to the screen.  ShownInOrder depends on everything      *)
(* between the two: the messages on the wire follow each other and the     *)
(* page's cursor, the thread's cursor is where they end, and the page's    *)
(* cursor comes right after the last event it shows.                       *)

\* A message after which the stream goes on, and the cursor it leads to.
Goes(m) == m.kind \in {"event", "reset"}
Reaches(m) == IF m.kind = "event" THEN m.id + 1 ELSE m.base

\* The cursor of a page that starts at c, once it has read i messages of w.
Pos(w, c, i) == IF i = 0 THEN c ELSE Reaches(w[i])

\* Every event on the wire carries its own number and comes when the page's
\* cursor is there; only the last message may end the stream.
Linked(w, c) ==
    \A i \in 1..Len(w) :
        /\ w[i].kind = "event" => w[i].id = Pos(w, c, i - 1) /\ w[i].ev.n = w[i].id
        /\ i < Len(w) => Goes(w[i])
AllGo(w) == \A i \in 1..Len(w) : Goes(w[i])

WireInv ==
    mode = "stream" =>
        /\ Linked(wire, cursorRef)
        /\ conn = "open" => AllGo(wire) /\ cursor = Pos(wire, cursorRef, Len(wire))

\* Shown events follow each other even where the life changes.
Consecutive(s) == \A i \in 1..Len(s) - 1 : s[i + 1].n = s[i].n + 1
ShownInv == /\ Consecutive(liveEvents)
            /\ liveEvents # <<>> => liveEvents[Len(liveEvents)].n + 1 = cursorRef

\* Only a restart queues the job, and it leaves room for another life.
QueuedInv == row = "queued" => status = "absent" /\ life < MaxLives /\ ~unsaved

StreamInv == TypeOK /\ WindowInv /\ QueuedInv /\ WireInv /\ ShownInv

-----------------------------------------------------------------------------
(* Lemmas about messages and slices.                                       *)

LEMMA MessageFields ==
    ASSUME NEW m \in Message
    PROVE  /\ m.kind \in {"event", "reset", "job_done", "error"}
           /\ m.kind = "event" => m.ev \in Event /\ m.ev.n \in Nat /\ m.id \in Nat
           /\ m.kind = "reset" => m.base \in Nat
           /\ Goes(m) => Reaches(m) \in Nat
  BY DEF Message, Event, Goes, Reaches

\* Reading one more piece of the wire: what links up with the end of it
\* extends it.
LEMMA LinkedConcat ==
    ASSUME NEW w \in Seq(Message), NEW v \in Seq(Message), NEW c \in Nat,
           Linked(w, c), AllGo(w), Linked(v, Pos(w, c, Len(w)))
    PROVE  /\ w \o v \in Seq(Message)
           /\ Linked(w \o v, c)
           /\ Pos(w \o v, c, Len(w \o v)) = Pos(v, Pos(w, c, Len(w)), Len(v))
           /\ AllGo(v) => AllGo(w \o v)
  <1> DEFINE u == w \o v
             d == Pos(w, c, Len(w))
  <1>1. /\ u \in Seq(Message) /\ Len(u) = Len(w) + Len(v)
        /\ \A i \in 1..Len(u) : u[i] = IF i <= Len(w) THEN w[i] ELSE v[i - Len(w)]
        /\ Len(w) \in Nat /\ Len(v) \in Nat
    BY ConcatProperties, LenProperties
  <1> HIDE DEF u
  <1>2. ASSUME NEW i \in 1..Len(v) PROVE Pos(u, c, Len(w) + i) = Pos(v, d, i)
    BY <1>1 DEF Pos
  <1>3. Pos(u, c, Len(w)) = d
    BY <1>1 DEF Pos
  <1>4. Linked(u, c)
    <2> SUFFICES ASSUME NEW i \in 1..Len(u)
                 PROVE  /\ u[i].kind = "event" =>
                              u[i].id = Pos(u, c, i - 1) /\ u[i].ev.n = u[i].id
                        /\ i < Len(u) => Goes(u[i])
      BY DEF Linked
    <2>1. CASE i <= Len(w)
      <3>1. i \in 1..Len(w) /\ u[i] = w[i] /\ Pos(u, c, i - 1) = Pos(w, c, i - 1)
        BY <1>1, <2>1 DEF Pos
      <3> QED BY <3>1 DEF Linked, AllGo
    <2>2. CASE i > Len(w)
      <3> DEFINE j == i - Len(w)
      <3>1. j \in 1..Len(v) /\ u[i] = v[j] /\ i = Len(w) + j
        BY <1>1, <2>2
      <3>2. Pos(u, c, i - 1) = Pos(v, d, j - 1)
        <4>1. CASE j = 1
          <5>1. i - 1 = Len(w) /\ Pos(v, d, j - 1) = d
            BY <1>1, <3>1, <4>1 DEF Pos
          <5> QED BY <5>1, <1>3
        <4>2. CASE j # 1
          <5>1. j - 1 \in 1..Len(v) /\ i - 1 = Len(w) + (j - 1)
            BY <1>1, <3>1, <4>2
          <5> QED BY <5>1, <1>2
        <4> QED BY <4>1, <4>2
      <3>3. i < Len(u) => j < Len(v)
        BY <1>1, <3>1
      <3> QED BY <3>1, <3>2, <3>3 DEF Linked
    <2> QED BY <2>1, <2>2, <1>1
  <1>5. Pos(u, c, Len(u)) = Pos(v, d, Len(v))
    <2>1. CASE Len(v) = 0
      BY <2>1, <1>1, <1>3 DEF Pos
    <2>2. CASE Len(v) # 0
      <3>1. Len(v) \in 1..Len(v)
        BY <2>2, <1>1
      <3> QED BY <3>1, <1>1, <1>2
    <2> QED BY <2>1, <2>2
  <1>6. ASSUME AllGo(v), NEW i \in 1..Len(u) PROVE Goes(u[i])
    <2>1. i <= Len(w) => i \in 1..Len(w) /\ u[i] = w[i]
      BY <1>1
    <2>2. ~(i <= Len(w)) => i - Len(w) \in 1..Len(v) /\ u[i] = v[i - Len(w)]
      BY <1>1
    <2> QED BY <1>6, <2>1, <2>2 DEF AllGo
  <1>7. AllGo(v) => AllGo(u)
    BY <1>6 DEF AllGo
  <1> QED BY <1>1, <1>4, <1>5, <1>7 DEF u

\* Reading the first message leads to where it says; if it ends the stream it
\* was the only one.
LEMMA LinkedTail ==
    ASSUME NEW w \in Seq(Message), w # <<>>, NEW c \in Nat, Linked(w, c)
    PROVE  /\ Head(w) \in Message /\ Tail(w) \in Seq(Message)
           /\ Head(w).kind = "event" => Head(w).id = c /\ Head(w).ev.n = c
           /\ ~Goes(Head(w)) => Tail(w) = <<>> /\ ~AllGo(w)
           /\ Goes(Head(w)) =>
                 /\ Linked(Tail(w), Reaches(Head(w)))
                 /\ Pos(Tail(w), Reaches(Head(w)), Len(Tail(w))) = Pos(w, c, Len(w))
           /\ AllGo(w) => AllGo(Tail(w))
  <1> DEFINE t == Tail(w)
             d == Reaches(Head(w))
  <1>1. /\ Len(w) \in Nat /\ Len(w) >= 1 /\ Head(w) = w[1] /\ w[1] \in Message
        /\ t \in Seq(Message) /\ Len(t) = Len(w) - 1
        /\ \A i \in 1..Len(t) : t[i] = w[i + 1]
    <2>1. Len(w) \in Nat \ {0} /\ Head(w) \in Message /\ Head(w) = w[1]
      BY HeadTailProperties, EmptySeq
    <2>2. /\ t \in Seq(Message) /\ Len(t) = Len(w) - 1
          /\ \A i \in 1..Len(t) : t[i] = w[i + 1]
      BY HeadTailProperties
    <2> QED BY <2>1, <2>2
  <1> HIDE DEF t
  <1>2. Head(w).kind = "event" => Head(w).id = c /\ Head(w).ev.n = c
    BY <1>1 DEF Linked, Pos
  <1>3. ~Goes(Head(w)) => Len(w) = 1
    BY <1>1 DEF Linked
  <1>4. ~Goes(Head(w)) => t = <<>> /\ ~AllGo(w)
    BY <1>1, <1>3 DEF AllGo
  <1>5. ASSUME NEW i \in 0..Len(t) PROVE Pos(t, d, i) = Pos(w, c, i + 1)
    BY <1>1 DEF Pos
  <1>6. Linked(t, d)
    <2> SUFFICES ASSUME NEW i \in 1..Len(t)
                 PROVE  /\ t[i].kind = "event" =>
                              t[i].id = Pos(t, d, i - 1) /\ t[i].ev.n = t[i].id
                        /\ i < Len(t) => Goes(t[i])
      BY DEF Linked
    <2>1. /\ i + 1 \in 1..Len(w) /\ t[i] = w[i + 1] /\ i - 1 \in 0..Len(t)
          /\ (i - 1) + 1 = (i + 1) - 1 /\ (i < Len(t) => i + 1 < Len(w))
      BY <1>1
    <2>2. Pos(t, d, i - 1) = Pos(w, c, (i + 1) - 1)
      BY <2>1, <1>5
    <2> QED BY <2>1, <2>2 DEF Linked
  <1>7. Pos(t, d, Len(t)) = Pos(w, c, Len(w))
    BY <1>1, <1>5
  <1>8. AllGo(w) => AllGo(t)
    BY <1>1 DEF AllGo
  <1> QED BY <1>1, <1>2, <1>4, <1>6, <1>7, <1>8 DEF t

\* What arrives of a broken stream is still in order.
LEMMA LinkedPrefix ==
    ASSUME NEW w \in Seq(Message), NEW c, Linked(w, c), NEW k \in 0..Len(w)
    PROVE  SubSeq(w, 1, k) \in Seq(Message) /\ Linked(SubSeq(w, 1, k), c)
  <1> DEFINE p == SubSeq(w, 1, k)
  <1>1. /\ p \in Seq(Message) /\ Len(p) = k /\ \A i \in 1..k : p[i] = w[i]
        /\ Len(w) \in Nat
    BY LenProperties
  <1> HIDE DEF p
  <1>2. ASSUME NEW i \in 0..k PROVE Pos(p, c, i) = Pos(w, c, i)
    BY <1>1 DEF Pos
  <1>3. ASSUME NEW i \in 1..k
        PROVE  /\ i \in 1..Len(w) /\ i - 1 \in 0..k /\ (i < k => i < Len(w))
    BY <1>1
  <1> QED BY <1>1, <1>2, <1>3 DEF Linked, p

\* One snapshot: the slice holds the events it was asked for, in order, and
\* starts at the cursor or, if that was cut off, where the window starts.
LEMMA SliceFacts ==
    ASSUME WindowInv, NEW c \in Nat
    PROVE  /\ Clamp(c) \in Nat /\ Take(c) \in Nat
           /\ SliceFrom(c) \in Seq(Event) /\ Len(SliceFrom(c)) = Take(c)
           /\ \A i \in 1..Take(c) : SliceFrom(c)[i].n = Clamp(c) + i - 1
           /\ Take(c) > 0 => Clamp(c) = IF c < offset THEN offset ELSE c
  <1>1. /\ offset \in Nat /\ events \in Seq(Event) /\ Len(events) \in Nat
        /\ \A i \in 1..Len(events) : events[i] = [life |-> life, n |-> offset + i - 1]
    BY LenProperties DEF WindowInv, WindowTypes, WindowFaithful
  <1>2. /\ End \in Nat /\ End = offset + Len(events)
        /\ Clamp(c) \in Nat /\ Clamp(c) >= offset /\ Clamp(c) <= End
    BY <1>1 DEF End, Clamp
  <1>3. /\ Take(c) \in Nat /\ Take(c) <= End - Clamp(c)
        /\ Take(c) > 0 => Clamp(c) = IF c < offset THEN offset ELSE c
    <2>1. End - Clamp(c) \in Nat
      BY <1>2
    <2>2. Take(c) \in Nat /\ Take(c) <= End - Clamp(c)
      BY <2>1, WindowAssumption DEF Take
    <2>3. Take(c) > 0 => Clamp(c) = IF c < offset THEN offset ELSE c
      <3>1. c < offset => Clamp(c) = offset
        BY DEF Clamp
      <3>2. ~(c < offset) /\ c > End => Take(c) = 0
        <4>1. ~(c < offset) /\ c > End => End - Clamp(c) = 0
          BY <1>2 DEF Clamp
        <4> QED BY <4>1, <2>2
      <3>3. ~(c < offset) /\ ~(c > End) => Clamp(c) = c
        BY DEF Clamp
      <3> QED BY <3>1, <3>2, <3>3
    <2> QED BY <2>2, <2>3
  <1> DEFINE a == Clamp(c) - offset
             z == a + Take(c)
  <1>4. a \in Nat /\ z \in Nat /\ z <= Len(events) /\ z - a = Take(c)
    BY <1>1, <1>2, <1>3
  <1>5. SliceFrom(c) = SubSeq(events, a + 1, z)
    BY DEF SliceFrom
  <1> HIDE DEF a, z
  <1>6. \A i \in a + 1..z : events[i] \in Event
    BY <1>1, <1>4, ElementOfSeq
  <1>7. /\ SliceFrom(c) \in Seq(Event) /\ Len(SliceFrom(c)) = Take(c)
        /\ \A i \in 1..Take(c) : SliceFrom(c)[i] = events[a + i]
    <2>1. a + 1 \in Int /\ z \in Int /\ z - (a + 1) + 1 = Take(c)
      BY <1>3, <1>4
    <2>2. /\ SubSeq(events, a + 1, z) \in Seq(Event)
          /\ Len(SubSeq(events, a + 1, z)) = IF a + 1 <= z THEN z - (a + 1) + 1 ELSE 0
          /\ \A i \in 1..z - (a + 1) + 1 : SubSeq(events, a + 1, z)[i] = events[(a + 1) + i - 1]
      BY <1>6, <2>1, SubSeqProperties
    <2>3. Len(SliceFrom(c)) = Take(c)
      BY <1>3, <1>4, <1>5, <2>1, <2>2
    <2>4. ASSUME NEW i \in 1..Take(c) PROVE SliceFrom(c)[i] = events[a + i]
      <3>1. (a + 1) + i - 1 = a + i
        BY <1>3, <1>4
      <3> QED BY <3>1, <2>1, <2>2, <1>5
    <2> QED BY <1>5, <2>2, <2>3, <2>4
  <1>8. ASSUME NEW i \in 1..Take(c) PROVE SliceFrom(c)[i].n = Clamp(c) + i - 1
    <2>1. a + i \in 1..Len(events)
      <3>1. i \in Nat /\ 1 <= i /\ i <= z - a
        BY <1>3, <1>4
      <3> QED BY <3>1, <1>1, <1>4
    <2>2. offset + (a + i) - 1 = Clamp(c) + i - 1
      BY <1>1, <1>2, <1>3 DEF a
    <2>3. events[a + i].n = offset + (a + i) - 1
      <3> DEFINE j == a + i
      <3>1. j \in 1..Len(events)
        BY <2>1
      <3> HIDE DEF j
      <3>2. events[j] = [life |-> life, n |-> offset + j - 1]
        BY <1>1, <3>1
      <3> QED BY <3>2 DEF j
    <2> QED BY <1>7, <2>2, <2>3
  <1> QED BY <1>2, <1>3, <1>7, <1>8

\* A reset moves the page's cursor to the start of the window.
LEMMA ResetLinked ==
    ASSUME WindowInv, NEW c \in Nat
    PROVE  /\ Reset(c) \in Seq(Message) /\ Linked(Reset(c), c) /\ AllGo(Reset(c))
           /\ Pos(Reset(c), c, Len(Reset(c))) = IF c < offset THEN offset ELSE c
  <1>1. offset \in Nat
    BY DEF WindowInv, WindowTypes
  <1>2. CASE c < offset
    <2> DEFINE m == [kind |-> "reset", base |-> offset]
    <2>1. m \in Message /\ m.kind = "reset" /\ m.base = offset
      BY <1>1 DEF Message
    <2>2. Reset(c) = <<m>>
      BY <1>2 DEF Reset
    <2> HIDE DEF m
    <2>3. <<m>> \in Seq(Message) /\ Len(<<m>>) = 1 /\ <<m>>[1] = m
      BY <2>1
    <2>4. Linked(<<m>>, c) /\ AllGo(<<m>>)
      BY <2>1, <2>3 DEF Linked, AllGo, Goes
    <2>5. Pos(<<m>>, c, Len(<<m>>)) = offset
      BY <2>1, <2>3 DEF Pos, Reaches
    <2> QED BY <1>2, <2>2, <2>3, <2>4, <2>5
  <1>3. CASE ~(c < offset)
    <2>1. Reset(c) = <<>>
      BY <1>3 DEF Reset
    <2> QED BY <1>3, <2>1 DEF Linked, AllGo, Pos
  <1> QED BY <1>2, <1>3

\* The labelled slice starts there and ends at the thread's next cursor.
LEMMA LabelledLinked ==
    ASSUME WindowInv, NEW c \in Nat, NEW d, d = IF c < offset THEN offset ELSE c
    PROVE  /\ Labelled(c) \in Seq(Message) /\ Linked(Labelled(c), d) /\ AllGo(Labelled(c))
           /\ Pos(Labelled(c), d, Len(Labelled(c))) = After(c) /\ After(c) \in Nat
  <1> DEFINE w == Labelled(c)
             k == Take(c)
             b == Clamp(c)
  <1>1. /\ b \in Nat /\ k \in Nat /\ SliceFrom(c) \in Seq(Event)
        /\ Len(SliceFrom(c)) = k /\ (k > 0 => b = d)
        /\ \A i \in 1..k : SliceFrom(c)[i].n = b + i - 1
    BY SliceFacts
  <1>2. offset \in Nat /\ d \in Nat
    BY DEF WindowInv, WindowTypes
  <1>3. ASSUME NEW i \in 1..k
        PROVE  [kind |-> "event", ev |-> SliceFrom(c)[i], id |-> b + i - 1] \in Message
    <2>1. SliceFrom(c)[i] \in Event /\ b + i - 1 \in Nat
      BY <1>1, ElementOfSeq
    <2> QED BY <2>1 DEF Message
  <1>4. /\ w \in [1..k -> Message]
        /\ \A i \in 1..k : /\ w[i].kind = "event" /\ w[i].id = b + i - 1
                           /\ w[i].ev.n = b + i - 1
    BY <1>1, <1>3 DEF Labelled
  <1>5. w \in Seq(Message) /\ Len(w) = k
    BY <1>1, <1>4
  <1> HIDE DEF w, k, b
  <1>6. ASSUME NEW i \in 0..k, k > 0 PROVE Pos(w, d, i) = b + i
    <2>1. CASE i = 0
      BY <2>1, <1>1, <1>6 DEF Pos
    <2>2. CASE i # 0
      <3>1. i \in 1..k
        BY <2>2, <1>1
      <3>2. w[i].kind = "event" /\ w[i].id = b + i - 1
        BY <3>1, <1>4
      <3> QED BY <2>2, <3>2, <1>1 DEF Pos, Reaches
    <2> QED BY <2>1, <2>2
  <1>7. Linked(w, d)
    <2> SUFFICES ASSUME NEW i \in 1..k
                 PROVE  w[i].id = Pos(w, d, i - 1) /\ w[i].ev.n = w[i].id /\ Goes(w[i])
      BY <1>5 DEF Linked
    <2>1. i - 1 \in 0..k /\ k > 0 /\ b + (i - 1) = b + i - 1
      BY <1>1
    <2> QED BY <2>1, <1>4, <1>6 DEF Goes
  <1>8. AllGo(w)
    BY <1>4, <1>5 DEF AllGo, Goes
  <1>9. Pos(w, d, Len(w)) = After(c) /\ After(c) \in Nat
    <2>1. CASE k > 0
      <3>1. k \in 0..k
        BY <1>1
      <3> QED BY <1>1, <1>5, <1>6, <2>1, <3>1 DEF After, k, b
    <2>2. CASE ~(k > 0)
      <3>1. k = 0 /\ After(c) = d
        BY <2>2, <1>1 DEF After, k
      <3> QED BY <3>1, <1>2, <1>5 DEF Pos
    <2> QED BY <2>1, <2>2
  <1> QED BY <1>5, <1>7, <1>8, <1>9 DEF w

\* The message that ends a stream follows anything.
LEMMA EndLinked ==
    ASSUME NEW kind \in {"job_done", "error"}, NEW c
    PROVE  <<[kind |-> kind]>> \in Seq(Message) /\ Linked(<<[kind |-> kind]>>, c)
  <1> DEFINE m == [kind |-> kind]
  <1>1. m \in Message /\ m.kind # "event"
    BY DEF Message
  <1> HIDE DEF m
  <1>2. <<m>> \in Seq(Message) /\ Len(<<m>>) = 1 /\ <<m>>[1] = m
    BY <1>1
  <1>3. Linked(<<m>>, c)
    BY <1>1, <1>2 DEF Linked
  <1> QED BY <1>2, <1>3 DEF m

-----------------------------------------------------------------------------
(* The steps of the daemon: the wire and the page stay.                    *)

LEMMA AppendKeepsStream == ASSUME StreamInv, WindowInv', AppendEvent PROVE StreamInv'
  <1> USE DEF StreamInv
  <1>1. offset' \in Nat /\ events' \in Seq(Event)
    BY DEF WindowInv, WindowTypes
  <1>2. made' \in 0..MaxEvents
    BY StreamBounds DEF TypeOK, AppendEvent
  <1>3. TypeOK'
    BY <1>1, <1>2 DEF TypeOK, AppendEvent, net, page
  <1>4. QueuedInv'
    BY DEF QueuedInv, AppendEvent
  <1>5. WireInv' /\ ShownInv'
    BY DEF WireInv, ShownInv, AppendEvent, net, page
  <1> QED BY <1>3, <1>4, <1>5

LEMMA RunKeepsStream ==
    ASSUME StreamInv, WindowInv', Finish \/ Persist PROVE StreamInv'
  <1> USE DEF StreamInv, Finish, Persist
  <1>1. TypeOK'
    BY DEF TypeOK, net, page
  <1>2. QueuedInv'
    BY DEF QueuedInv
  <1>3. WireInv' /\ ShownInv'
    BY DEF WireInv, ShownInv, net, page
  <1> QED BY <1>1, <1>2, <1>3

LEMMA GcKeepsStream == ASSUME StreamInv, WindowInv', Gc PROVE StreamInv'
  <1> USE DEF StreamInv, Gc
  <1>1. offset' \in Nat /\ events' \in Seq(Event)
    BY DEF WindowInv, WindowTypes
  <1>2. TypeOK'
    BY <1>1 DEF TypeOK, Forget, net, page
  <1>3. QueuedInv'
    BY DEF QueuedInv
  <1>4. WireInv' /\ ShownInv'
    BY DEF WireInv, ShownInv, net, page
  <1> QED BY <1>2, <1>3, <1>4

LEMMA RestartKeepsStream == ASSUME StreamInv, WindowInv', Restart PROVE StreamInv'
  <1> USE DEF StreamInv, Restart
  <1>1. offset' \in Nat /\ events' \in Seq(Event)
    BY DEF WindowInv, WindowTypes
  <1>2. TypeOK'
    BY <1>1 DEF TypeOK, Forget, page
  <1>3. QueuedInv'
    BY DEF QueuedInv, Forget
  <1>4. WireInv' /\ ShownInv'
    BY DEF WireInv, ShownInv, page
  <1> QED BY <1>2, <1>3, <1>4

LEMMA ResumeKeepsStream == ASSUME StreamInv, WindowInv', Resume PROVE StreamInv'
  <1> USE DEF StreamInv, Resume
  <1>1. life' \in 1..MaxLives /\ made' \in 0..MaxEvents
    BY StreamBounds DEF TypeOK, QueuedInv
  <1>2. TypeOK'
    BY <1>1 DEF TypeOK, net, page
  <1>3. QueuedInv'
    BY DEF QueuedInv
  <1>4. WireInv' /\ ShownInv'
    BY DEF WireInv, ShownInv, net, page
  <1> QED BY <1>2, <1>3, <1>4

-----------------------------------------------------------------------------
(* The steps of the stream's thread.                                       *)

\* One turn of the loop writes what links up with what is on the wire.
LEMMA TurnKeepsStream == ASSUME StreamInv, WindowInv', StreamTurn PROVE StreamInv'
  <1> USE DEF StreamInv
  <1> DEFINE c == cursor
             d == IF c < offset THEN offset ELSE c
             w1 == wire \o Reset(c)
             w2 == w1 \o Labelled(c)
             e == IF status = "done" THEN JobDone ELSE <<>>
  <1>1. /\ c \in Nat /\ cursorRef \in Nat /\ wire \in Seq(Message) /\ mode = "stream"
        /\ Linked(wire, cursorRef) /\ AllGo(wire) /\ c = Pos(wire, cursorRef, Len(wire))
    BY DEF TypeOK, StreamTurn, WireInv
  <1>2. /\ w1 \in Seq(Message) /\ Linked(w1, cursorRef) /\ AllGo(w1)
        /\ Pos(w1, cursorRef, Len(w1)) = d
    <2>1. /\ Reset(c) \in Seq(Message) /\ Linked(Reset(c), c) /\ AllGo(Reset(c))
          /\ Pos(Reset(c), c, Len(Reset(c))) = d
      BY <1>1, ResetLinked
    <2> QED BY <1>1, <2>1, LinkedConcat
  <1>3. /\ w2 \in Seq(Message) /\ Linked(w2, cursorRef) /\ AllGo(w2)
        /\ Pos(w2, cursorRef, Len(w2)) = After(c) /\ After(c) \in Nat
    <2>1. /\ Labelled(c) \in Seq(Message) /\ Linked(Labelled(c), d) /\ AllGo(Labelled(c))
          /\ Pos(Labelled(c), d, Len(Labelled(c))) = After(c) /\ After(c) \in Nat
      BY <1>1, LabelledLinked
    <2> HIDE DEF w1, d
    <2> QED BY <1>1, <1>2, <2>1, LinkedConcat
  <1>4. wire' = w2 \o e /\ cursor' = After(c)
    BY DEF StreamTurn
  <1> HIDE DEF w2, c
  <1>5. /\ wire' \in Seq(Message) /\ Linked(wire', cursorRef)
        /\ conn' = "open" => AllGo(wire') /\ cursor' = Pos(wire', cursorRef, Len(wire'))
    <2>1. CASE status = "done"
      <3>1. e = <<[kind |-> "job_done"]>> /\ conn' = "closed"
        BY <2>1 DEF JobDone, StreamTurn
      <3>2. e \in Seq(Message) /\ Linked(e, After(c))
        BY <3>1, EndLinked
      <3> HIDE DEF e
      <3> QED BY <1>1, <1>3, <1>4, <3>1, <3>2, LinkedConcat
    <2>2. CASE status # "done"
      <3>1. e = <<>>
        BY <2>2
      <3>2. wire' = w2
        BY <3>1, <1>3, <1>4, ConcatEmptySeq
      <3> QED BY <3>2, <1>3, <1>4
    <2> QED BY <2>1, <2>2
  <1>6. TypeOK'
    BY <1>1, <1>3, <1>4, <1>5 DEF TypeOK, StreamTurn, job, page
  <1>7. QueuedInv' /\ ShownInv'
    BY DEF QueuedInv, ShownInv, StreamTurn, job, page
  <1>8. WireInv'
    BY <1>5 DEF WireInv, StreamTurn, page
  <1> QED BY <1>6, <1>7, <1>8

LEMMA FallbackKeepsStream == ASSUME StreamInv, WindowInv', StreamFallback PROVE StreamInv'
  <1> USE DEF StreamInv
  <1> DEFINE e == IF row = "done" THEN JobDone ELSE <<[kind |-> "error"]>>
  <1>1. /\ cursorRef \in Nat /\ wire \in Seq(Message) /\ mode = "stream"
        /\ Linked(wire, cursorRef) /\ AllGo(wire)
    BY DEF TypeOK, StreamFallback, WireInv
  <1>2. e \in Seq(Message) /\ Linked(e, Pos(wire, cursorRef, Len(wire)))
    BY EndLinked DEF JobDone
  <1>3. wire' = wire \o e /\ conn' = "closed"
    BY DEF StreamFallback
  <1> HIDE DEF e
  <1>4. wire' \in Seq(Message) /\ Linked(wire', cursorRef)
    BY <1>1, <1>2, <1>3, LinkedConcat
  <1>5. TypeOK'
    BY <1>3, <1>4 DEF TypeOK, StreamFallback, job, page
  <1>6. QueuedInv' /\ ShownInv'
    BY DEF QueuedInv, ShownInv, StreamFallback, job, page
  <1>7. WireInv'
    BY <1>3, <1>4 DEF WireInv, StreamFallback, page
  <1> QED BY <1>5, <1>6, <1>7

LEMMA DropKeepsStream == ASSUME StreamInv, WindowInv', Drop PROVE StreamInv'
  <1> USE DEF StreamInv
  <1>1. wire \in Seq(Message) /\ mode = "stream" /\ Linked(wire, cursorRef)
    BY DEF TypeOK, Drop, WireInv
  <1>2. wire' \in Seq(Message) /\ Linked(wire', cursorRef) /\ conn' = "closed"
    BY <1>1, LinkedPrefix DEF Drop
  <1>3. breaks' \in 0..MaxBreaks
    BY StreamBounds DEF TypeOK, Drop
  <1>4. TypeOK'
    BY <1>2, <1>3 DEF TypeOK, Drop, job, page
  <1>5. QueuedInv' /\ ShownInv'
    BY DEF QueuedInv, ShownInv, Drop, job, page
  <1>6. WireInv'
    BY <1>2 DEF WireInv, Drop, page
  <1> QED BY <1>4, <1>5, <1>6

-----------------------------------------------------------------------------
(* The steps of the page.                                                  *)

LEMMA OpenKeepsStream == ASSUME StreamInv, WindowInv', OpenStream PROVE StreamInv'
  <1> USE DEF StreamInv, OpenStream
  <1>1. TypeOK'
    BY DEF TypeOK, job
  <1>2. QueuedInv' /\ ShownInv'
    BY DEF QueuedInv, ShownInv, job
  <1>3. WireInv'
    BY DEF WireInv, Linked, AllGo, Pos
  <1> QED BY <1>1, <1>2, <1>3

\* One more event after the last one shown.
LEMMA ShownAppend ==
    ASSUME NEW s \in Seq(Event), NEW e \in Event, NEW c \in Nat, Consecutive(s),
           s # <<>> => s[Len(s)].n + 1 = c, e.n = c
    PROVE  /\ Append(s, e) \in Seq(Event) /\ Consecutive(Append(s, e))
           /\ Append(s, e)[Len(Append(s, e))].n + 1 = c + 1
  <1> DEFINE t == Append(s, e)
  <1>1. /\ t \in Seq(Event) /\ Len(t) = Len(s) + 1 /\ Len(s) \in Nat
        /\ \A i \in 1..Len(s) : t[i] = s[i]
        /\ t[Len(s) + 1] = e
    BY AppendProperties, LenProperties
  <1> HIDE DEF t
  <1>2. ASSUME NEW i \in 1..Len(t) - 1 PROVE t[i + 1].n = t[i].n + 1
    <2>1. i \in 1..Len(s) /\ t[i] = s[i]
      BY <1>1
    <2>2. CASE i = Len(s)
      <3>1. t[i + 1] = e /\ s # <<>>
        BY <1>1, <2>1, <2>2
      <3> QED BY <2>1, <2>2, <3>1
    <2>3. CASE i # Len(s)
      <3>1. i \in 1..Len(s) - 1 /\ i + 1 \in 1..Len(s)
        BY <1>1, <2>1, <2>3
      <3> QED BY <1>1, <2>1, <3>1 DEF Consecutive
    <2> QED BY <2>2, <2>3
  <1>3. t[Len(t)].n + 1 = c + 1
    BY <1>1
  <1> QED BY <1>1, <1>2, <1>3 DEF Consecutive, t

LEMMA ReceiveKeepsStream == ASSUME StreamInv, WindowInv', Receive PROVE StreamInv'
  <1> USE DEF StreamInv
  <1> DEFINE m == Head(wire)
  <1>1. /\ cursorRef \in Nat /\ wire \in Seq(Message) /\ wire # <<>> /\ mode = "stream"
        /\ liveEvents \in Seq(Event) /\ Linked(wire, cursorRef) /\ wire' = Tail(wire)
        /\ UNCHANGED <<job, conn, cursor, saved, breaks>>
    BY DEF TypeOK, Receive, WireInv
  <1>2. /\ m \in Message /\ Tail(wire) \in Seq(Message)
        /\ m.kind = "event" => m.id = cursorRef /\ m.ev.n = cursorRef
        /\ ~Goes(m) => ~AllGo(wire)
        /\ Goes(m) => /\ Linked(Tail(wire), Reaches(m))
                      /\ Pos(Tail(wire), Reaches(m), Len(Tail(wire)))
                           = Pos(wire, cursorRef, Len(wire))
        /\ AllGo(wire) => AllGo(Tail(wire))
    BY <1>1, LinkedTail
  <1>3. /\ m.kind \in {"event", "reset", "job_done", "error"}
        /\ m.kind = "event" => m.ev \in Event /\ m.ev.n \in Nat /\ m.id \in Nat
        /\ m.kind = "reset" => m.base \in Nat
        /\ Goes(m) => Reaches(m) \in Nat
    BY <1>2, MessageFields
  <1>4. conn = "open" => AllGo(wire) /\ cursor = Pos(wire, cursorRef, Len(wire))
    BY <1>1 DEF WireInv
  <1>5. CASE Goes(m)
    <2>1. mode' = "stream" /\ cursorRef' = Reaches(m) /\ cursorRef' \in Nat
      <3>1. CASE m.kind = "event"
        BY <1>1, <1>3, <1>5, <3>1 DEF Receive, Reaches
      <3>2. CASE m.kind = "reset"
        BY <1>1, <1>3, <1>5, <3>2 DEF Receive, Reaches
      <3> QED BY <1>5, <3>1, <3>2 DEF Goes
    <2>2. liveEvents' \in Seq(Event) /\ ShownInv'
      <3>1. CASE m.kind = "event"
        <4>1. liveEvents' = Append(liveEvents, m.ev) /\ cursorRef' = cursorRef + 1
          BY <1>2, <3>1 DEF Receive
        <4>2. /\ Consecutive(liveEvents)
              /\ liveEvents # <<>> => liveEvents[Len(liveEvents)].n + 1 = cursorRef
          BY DEF ShownInv
        <4> HIDE DEF m
        <4> QED BY <1>1, <1>2, <1>3, <3>1, <4>1, <4>2, ShownAppend DEF ShownInv
      <3>2. CASE m.kind = "reset"
        <4>1. liveEvents' = <<>>
          BY <3>2 DEF Receive
        <4> QED BY <4>1 DEF ShownInv, Consecutive
      <3> QED BY <1>5, <3>1, <3>2 DEF Goes
    <2>3. WireInv'
      BY <1>1, <1>2, <1>4, <1>5, <2>1 DEF WireInv
    <2>4. TypeOK'
      BY <1>1, <1>2, <2>1, <2>2 DEF TypeOK, job
    <2>5. QueuedInv'
      BY <1>1 DEF QueuedInv, job
    <2> QED BY <2>2, <2>3, <2>4, <2>5
  <1>6. CASE ~Goes(m)
    <2>1. /\ mode' \in {"finished", "poll"} /\ UNCHANGED <<cursorRef, liveEvents>>
      <3>1. CASE m.kind = "job_done"
        BY <3>1 DEF Receive
      <3>2. CASE m.kind = "error"
        BY <3>2 DEF Receive
      <3> QED BY <1>3, <1>6, <3>1, <3>2 DEF Goes
    <2>2. conn' = "closed"
      BY <1>1, <1>2, <1>4, <1>6 DEF TypeOK
    <2>3. TypeOK'
      BY <1>1, <1>2, <2>1, <2>2 DEF TypeOK, job
    <2>4. QueuedInv' /\ ShownInv' /\ WireInv'
      BY <1>1, <2>1 DEF QueuedInv, ShownInv, WireInv, job
    <2> QED BY <2>3, <2>4
  <1> QED BY <1>5, <1>6

\* A slice after the last event shown.
LEMMA ShownConcat ==
    ASSUME NEW s \in Seq(Event), NEW v \in Seq(Event), NEW c \in Nat, Consecutive(s),
           s # <<>> => s[Len(s)].n + 1 = c,
           Len(v) > 0, \A i \in 1..Len(v) : v[i].n = c + i - 1
    PROVE  /\ s \o v \in Seq(Event) /\ Consecutive(s \o v)
           /\ (s \o v)[Len(s \o v)].n + 1 = c + Len(v)
  <1> DEFINE t == s \o v
  <1>1. /\ t \in Seq(Event) /\ Len(t) = Len(s) + Len(v) /\ Len(s) \in Nat /\ Len(v) \in Nat
        /\ \A i \in 1..Len(t) : t[i] = IF i <= Len(s) THEN s[i] ELSE v[i - Len(s)]
    BY ConcatProperties, LenProperties
  <1> HIDE DEF t
  <1>2. ASSUME NEW i \in 1..Len(t) - 1 PROVE t[i + 1].n = t[i].n + 1
    <2>1. CASE i < Len(s)
      <3>1. i \in 1..Len(s) - 1 /\ t[i] = s[i] /\ t[i + 1] = s[i + 1]
        BY <1>1, <2>1
      <3> QED BY <3>1 DEF Consecutive
    <2>2. CASE i = Len(s)
      <3>1. t[i] = s[Len(s)] /\ t[i + 1] = v[1] /\ s # <<>> /\ v[1].n = c + 1 - 1
        <4>1. i \in 1..Len(t) /\ i + 1 \in 1..Len(t) /\ ~(i + 1 <= Len(s)) /\ i + 1 - Len(s) = 1
              /\ 1 \in 1..Len(v)
          BY <1>1, <2>2
        <4> QED BY <1>1, <2>2, <4>1
      <3> QED BY <3>1
    <2>3. CASE i > Len(s)
      <3> DEFINE j == i - Len(s)
      <3>1. /\ i \in 1..Len(t) /\ i + 1 \in 1..Len(t) /\ ~(i <= Len(s)) /\ ~(i + 1 <= Len(s))
            /\ j \in 1..Len(v) /\ j + 1 \in 1..Len(v) /\ (i + 1) - Len(s) = j + 1
        BY <1>1, <2>3
      <3>2. t[i] = v[j] /\ t[i + 1] = v[j + 1]
        BY <1>1, <3>1
      <3> HIDE DEF j
      <3>3. v[j].n = c + j - 1 /\ v[j + 1].n = c + (j + 1) - 1
        BY <3>1
      <3> QED BY <3>1, <3>2, <3>3
    <2> QED BY <1>1, <2>1, <2>2, <2>3
  <1>3. t[Len(t)].n + 1 = c + Len(v)
    <2>1. Len(t) \in 1..Len(t) /\ ~(Len(t) <= Len(s)) /\ Len(t) - Len(s) = Len(v)
          /\ Len(v) \in 1..Len(v)
      BY <1>1
    <2>2. t[Len(t)] = v[Len(v)] /\ v[Len(v)].n = c + Len(v) - 1
      BY <1>1, <2>1
    <2> QED BY <1>1, <2>2
  <1> QED BY <1>1, <1>2, <1>3 DEF Consecutive, t

LEMMA PollKeepsStream == ASSUME StreamInv, WindowInv', Poll PROVE StreamInv'
  <1> USE DEF StreamInv
  <1> DEFINE v == SliceFrom(cursorRef)
             k == Take(cursorRef)
  <1>1. /\ cursorRef \in Nat /\ liveEvents \in Seq(Event) /\ mode = "poll"
        /\ mode' \in {"finished", "poll"} /\ UNCHANGED <<job, net, saved, breaks>>
    BY DEF TypeOK, Poll
  <1>2. /\ cursorRef' \in Nat /\ liveEvents' \in Seq(Event) /\ ShownInv'
    <2>1. CASE status # "absent" /\ k > 0
      <3>1. /\ Clamp(cursorRef) \in Nat /\ k \in Nat /\ v \in Seq(Event) /\ Len(v) = k
            /\ \A i \in 1..k : v[i].n = Clamp(cursorRef) + i - 1
            /\ Clamp(cursorRef) = IF cursorRef < offset THEN offset ELSE cursorRef
        BY <1>1, <2>1, SliceFacts
      <3>2. /\ liveEvents' = IF cursorRef < offset THEN v ELSE liveEvents \o v
            /\ cursorRef' = Clamp(cursorRef) + k
        BY <2>1 DEF Poll
      <3> HIDE DEF v, k
      <3>3. CASE cursorRef < offset
        <4>1. liveEvents' = v
          BY <3>2, <3>3
        <4>2. Consecutive(v)
          <5> SUFFICES ASSUME NEW i \in 1..Len(v) - 1 PROVE v[i + 1].n = v[i].n + 1
            BY DEF Consecutive
          <5>1. i \in 1..k /\ i + 1 \in 1..k
            BY <3>1
          <5>2. v[i].n = Clamp(cursorRef) + i - 1 /\ v[i + 1].n = Clamp(cursorRef) + (i + 1) - 1
            BY <3>1, <5>1
          <5> QED BY <3>1, <5>1, <5>2
        <4>3. v[Len(v)].n + 1 = cursorRef'
          <5>1. k \in 1..k
            BY <2>1, <3>1
          <5>2. v[k].n = Clamp(cursorRef) + k - 1
            BY <3>1, <5>1
          <5> QED BY <3>1, <3>2, <5>2
        <4>4. cursorRef' \in Nat
          BY <3>1, <3>2
        <4>5. ShownInv'
          BY <4>1, <4>2, <4>3 DEF ShownInv, Consecutive
        <4> QED BY <3>1, <4>1, <4>4, <4>5
      <3>4. CASE ~(cursorRef < offset)
        <4>1. liveEvents' = liveEvents \o v /\ Clamp(cursorRef) = cursorRef
          BY <3>1, <3>2, <3>4
        <4>2. /\ Consecutive(liveEvents)
              /\ liveEvents # <<>> => liveEvents[Len(liveEvents)].n + 1 = cursorRef
          BY DEF ShownInv
        <4>3. /\ liveEvents \o v \in Seq(Event) /\ Consecutive(liveEvents \o v)
              /\ (liveEvents \o v)[Len(liveEvents \o v)].n + 1 = cursorRef + Len(v)
          <5>1. Len(v) > 0 /\ \A i \in 1..Len(v) : v[i].n = cursorRef + i - 1
            BY <2>1, <3>1, <4>1
          <5> QED BY <1>1, <3>1, <4>2, <5>1, ShownConcat
        <4> QED BY <3>1, <3>2, <4>1, <4>3 DEF ShownInv
      <3> QED BY <3>3, <3>4
    <2>2. CASE ~(status # "absent" /\ k > 0)
      <3>1. UNCHANGED <<liveEvents, cursorRef>>
        BY <2>2 DEF Poll
      <3> QED BY <1>1, <3>1 DEF ShownInv
    <2> QED BY <2>1, <2>2
  <1>3. TypeOK'
    BY <1>1, <1>2 DEF TypeOK, job, net
  <1>4. QueuedInv' /\ WireInv'
    BY <1>1 DEF QueuedInv, WireInv, job
  <1> QED BY <1>2, <1>3, <1>4

LEMMA PageKeepsStream ==
    ASSUME StreamInv, WindowInv', StreamEnded \/ Watchdog \/ SaveCursor PROVE StreamInv'
  <1> USE DEF StreamInv, StreamEnded, Watchdog, SaveCursor
  <1>1. TypeOK'
    <2>1. CASE StreamEnded
      BY <2>1 DEF TypeOK, job, net
    <2>2. CASE Watchdog
      BY <2>2 DEF TypeOK, job
    <2>3. CASE SaveCursor
      BY <2>3 DEF TypeOK, job, net
    <2> QED BY <2>1, <2>2, <2>3
  <1>2. QueuedInv' /\ ShownInv'
    BY DEF QueuedInv, ShownInv, job
  <1>3. WireInv'
    BY DEF WireInv, net
  <1> QED BY <1>1, <1>2, <1>3

LEMMA ReloadKeepsStream == ASSUME StreamInv, WindowInv', Reload PROVE StreamInv'
  <1> USE DEF StreamInv, Reload
  <1>1. breaks' \in 0..MaxBreaks
    BY StreamBounds DEF TypeOK
  <1>2. TypeOK'
    BY <1>1 DEF TypeOK, job
  <1>3. QueuedInv' /\ ShownInv' /\ WireInv'
    BY DEF QueuedInv, ShownInv, Consecutive, WireInv, job
  <1> QED BY <1>2, <1>3

-----------------------------------------------------------------------------
LEMMA StreamInvInit == Init => StreamInv
  <1> SUFFICES ASSUME Init PROVE StreamInv
    OBVIOUS
  <1>1. WindowInv
    BY WindowInvInit
  <1>2. TypeOK
    <2>1. unsaved \in BOOLEAN
      BY Zenon DEF Init
    <2>2. life \in 1..MaxLives /\ made \in 0..MaxEvents /\ breaks \in 0..MaxBreaks
      BY StreamBounds DEF Init
    <2> QED BY <2>1, <2>2 DEF Init, TypeOK
  <1>3. QueuedInv /\ WireInv /\ ShownInv
    BY DEF Init, QueuedInv, WireInv, ShownInv, Consecutive
  <1> QED BY <1>1, <1>2, <1>3 DEF StreamInv

LEMMA StreamInvNext == StreamInv /\ [Next]_vars => StreamInv'
  <1> SUFFICES ASSUME StreamInv, [Next]_vars PROVE StreamInv'
    OBVIOUS
  <1>1. WindowInv'
    BY WindowInvNext DEF StreamInv
  <1>2. CASE Daemon \/ AppendEvent \/ Gc \/ Restart
    BY <1>1, <1>2, RunKeepsStream, ResumeKeepsStream, AppendKeepsStream, GcKeepsStream,
       RestartKeepsStream DEF Daemon
  <1>3. CASE Server \/ Drop
    BY <1>1, <1>3, TurnKeepsStream, FallbackKeepsStream, DropKeepsStream DEF Server
  <1>4. CASE WebUI
    BY <1>1, <1>4, OpenKeepsStream, ReceiveKeepsStream, PageKeepsStream, PollKeepsStream
       DEF WebUI
  <1>5. CASE Watchdog \/ SaveCursor \/ Reload
    BY <1>1, <1>5, PageKeepsStream, ReloadKeepsStream
  <1>6. CASE UNCHANGED vars
    <2>1. TypeOK'
      BY <1>6 DEF vars, StreamInv, TypeOK
    <2>2. QueuedInv' /\ WireInv' /\ ShownInv'
      BY <1>6 DEF vars, StreamInv, QueuedInv, WireInv, ShownInv
    <2> QED BY <1>1, <2>1, <2>2 DEF StreamInv
  <1> QED BY <1>2, <1>3, <1>4, <1>5, <1>6 DEF Next

\* The job, the stream and the page keep their types, the lives stay within
\* their number, and no stream stays open for a page that stopped reading it.
THEOREM StreamTypes == Spec => []TypeOK
  <1>1. StreamInv => TypeOK
    BY DEF StreamInv
  <1> QED BY <1>1, StreamInvInit, StreamInvNext, PTL DEF Spec

\* Whatever the sizes of window and slice, and however often the stream breaks,
\* the window is cut, the daemon restarts or the page is reloaded, the WebUI
\* shows the events of a life in order, none twice and none left out.
THEOREM EventsShownInOrder == Spec => []ShownInOrder
  <1>1. StreamInv => ShownInOrder
    BY DEF StreamInv, ShownInv, Consecutive, ShownInOrder
  <1> QED BY <1>1, StreamInvInit, StreamInvNext, PTL DEF Spec
=============================================================================
