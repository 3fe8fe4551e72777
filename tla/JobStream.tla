----------------------------- MODULE JobStream ------------------------------
(***************************************************************************)
(* Progress events of one async job, from the run to the screen:           *)
(*                                                                         *)
(*   - the bounded window of events the in-memory job keeps, and the slice *)
(*     of it a cursor asks for (job_manager.cpp);                          *)
(*   - GET /api/v1/job/stream, a thread that pulls slices and writes them  *)
(*     to a socket (job_stream_endpoint.cpp), and GET /api/v1/job, which   *)
(*     answers one poll (job_endpoints.cpp);                               *)
(*   - the WebUI that reads the stream, falls back to polling, saves its   *)
(*     cursor and picks the job up again after a reload                    *)
(*     (useJobStreaming.ts, useRunWatchState.ts).                          *)
(*                                                                         *)
(* The job is created anew in memory, with an empty window, whenever the   *)
(* JobEngine resumes it after a restart: each such life is numbered, and   *)
(* event n of a life is the n-th event appended in it.  Two things the     *)
(* model leaves out: pings, and the cap on the events the WebUI displays.  *)
(***************************************************************************)
EXTENDS Naturals, Sequences

CONSTANTS HardMax,    \* kHardMax: events kept when the window is cut
          SoftMax,    \* kSoftMax: events that make it be cut
          Slice,      \* max_events of one snapshot
          MaxEvents,  \* bound: events of one life
          MaxLives,   \* bound: lives of the job
          MaxBreaks   \* bound: dropped connections and reloads

ASSUME WindowAssumption ==
    /\ HardMax \in Nat \ {0} /\ SoftMax \in Nat /\ HardMax <= SoftMax
    /\ Slice \in Nat \ {0}
ASSUME StreamBounds ==
    MaxEvents \in Nat /\ MaxLives \in Nat \ {0} /\ MaxBreaks \in Nat

VARIABLES
    status,          \* of the in-memory job: "absent", "running" or "done"
    offset, events,  \* events_offset and events
    life, made,      \* history: which life, and how many events it has seen
    row,             \* the job's row: "absent", "queued", "running" or "done"
    unsaved,         \* the run has ended and its row is still to be written
    conn, cursor,    \* the stream's socket, and the cursor of its thread
    wire,            \* what the thread wrote and the WebUI has not read
    mode,            \* of the WebUI: "idle", "stream", "poll" or "finished"
    cursorRef, liveEvents,  \* of the WebUI
    saved,           \* the cursor in the WebUI's job store
    breaks           \* counter for MaxBreaks

job  == <<status, offset, events, life, made, row, unsaved>>
net  == <<conn, cursor, wire>>
page == <<mode, cursorRef, liveEvents, saved>>
vars == <<status, offset, events, life, made, row, unsaved, conn, cursor, wire,
          mode, cursorRef, liveEvents, saved, breaks>>

Event == [life : Nat, n : Nat]
Message == [kind : {"event"}, ev : Event, id : Nat]
           \cup [kind : {"reset"}, base : Nat]
           \cup [kind : {"job_done", "error"}]

\* The type of every variable; and nobody keeps a stream open for a page that
\* has stopped reading it.
TypeOK ==
    /\ status \in {"absent", "running", "done"}
    /\ offset \in Nat /\ events \in Seq(Event)
    /\ life \in 1..MaxLives /\ made \in 0..MaxEvents
    /\ row \in {"absent", "queued", "running", "done"} /\ unsaved \in BOOLEAN
    /\ conn \in {"open", "closed"} /\ cursor \in Nat /\ wire \in Seq(Message)
    /\ mode \in {"idle", "stream", "poll", "finished"}
    /\ cursorRef \in Nat /\ liveEvents \in Seq(Event) /\ saved \in Nat
    /\ breaks \in 0..MaxBreaks
    /\ conn = "open" => mode = "stream"

\* A client has just submitted the job and its thread has started it.
Init ==
    /\ status = "running" /\ offset = 0 /\ events = <<>> /\ life = 1 /\ made = 0
    /\ row = "running" /\ unsaved = FALSE
    /\ conn = "closed" /\ cursor = 0 /\ wire = <<>>
    /\ mode = "idle" /\ cursorRef = 0 /\ liveEvents = <<>> /\ saved = 0
    /\ breaks = 0

-----------------------------------------------------------------------------
(* The in-memory job.                                                      *)

\* The window after an append: its last HardMax events once it exceeds
\* SoftMax, and how many went.
Excess(w) == IF Len(w) > SoftMax THEN Len(w) - HardMax ELSE 0
Last(w, k) == SubSeq(w, k + 1, Len(w))

\* Mutant: the cut is not counted in events_offset.
AppendUncounted ==
    /\ status # "absent" /\ made < MaxEvents
    /\ LET w == Append(events, [life |-> life, n |-> made])
       IN events' = Last(w, Excess(w)) /\ UNCHANGED offset
    /\ made' = made + 1
    /\ UNCHANGED <<status, life, row, unsaved, net, page, breaks>>

\* job_append_event, by the run, the heartbeat or a cancel request; the last
\* may come when the job is already finished.
AppendEvent ==
    /\ status # "absent" /\ made < MaxEvents
    /\ LET w == Append(events, [life |-> life, n |-> made])
       IN /\ events' = Last(w, Excess(w))
          /\ offset' = offset + Excess(w)
    /\ made' = made + 1
    /\ UNCHANGED <<status, life, row, unsaved, net, page, breaks>>

\* job_set_result; the thread then writes the row.
Finish ==
    /\ status = "running"
    /\ status' = "done" /\ unsaved' = TRUE
    /\ UNCHANGED <<offset, events, life, made, row, net, page, breaks>>

Persist ==
    /\ unsaved
    /\ row' = "done" /\ unsaved' = FALSE
    /\ UNCHANGED <<status, offset, events, life, made, net, page, breaks>>

Forget == status' = "absent" /\ offset' = 0 /\ events' = <<>>

\* job_gc erases a finished job; job/delete takes its row too.
Gc ==
    /\ status = "done"
    /\ Forget
    /\ row' \in {row, "absent"}
    /\ UNCHANGED <<life, made, unsaved, net, page, breaks>>

\* The daemon dies and comes back; an unfinished job is queued again.
Restart ==
    /\ life < MaxLives
    /\ status # "absent"
    /\ Forget
    /\ row' = IF row = "running" THEN "queued" ELSE row
    /\ unsaved' = FALSE
    /\ conn' = "closed"
    /\ UNCHANGED <<life, made, cursor, wire, page, breaks>>

\* The JobEngine resumes it: job_create, with an empty window.
Resume ==
    /\ status = "absent" /\ row = "queued"
    /\ status' = "running" /\ row' = "running"
    /\ life' = life + 1 /\ made' = 0
    /\ UNCHANGED <<offset, events, unsaved, net, page, breaks>>

-----------------------------------------------------------------------------
(* job_get_snapshot: the slice of the window from cursor c on.             *)

End == offset + Len(events)
Clamp(c) == IF c < offset THEN offset ELSE IF c > End THEN End ELSE c
Take(c) == IF End - Clamp(c) < Slice THEN End - Clamp(c) ELSE Slice
SliceFrom(c) == SubSeq(events, Clamp(c) - offset + 1, Clamp(c) - offset + Take(c))

(* The stream's thread: one turn of its loop.                              *)

Reset(c) == IF c < offset THEN <<[kind |-> "reset", base |-> offset]>> ELSE <<>>
Labelled(c) == [i \in 1..Take(c) |->
                  [kind |-> "event", ev |-> SliceFrom(c)[i], id |-> Clamp(c) + i - 1]]

\* The cursor after the turn: it moves only with a reset or with events.
After(c) == IF Take(c) > 0 THEN Clamp(c) + Take(c) ELSE IF c < offset THEN offset ELSE c

JobDone == <<[kind |-> "job_done"]>>

StreamTurn ==
    /\ conn = "open" /\ status # "absent"
    /\ cursor' = After(cursor)
    /\ wire' = wire \o Reset(cursor) \o Labelled(cursor)
                    \o (IF status = "done" THEN JobDone ELSE <<>>)
    /\ conn' = IF status = "done" THEN "closed" ELSE "open"
    /\ UNCHANGED <<job, page, breaks>>

\* Mutant: a job that is not in memory is waited for.
StreamWaits ==
    /\ conn = "open" /\ status = "absent"
    /\ row = "done"
    /\ wire' = wire \o JobDone
    /\ conn' = "closed"
    /\ UNCHANGED <<job, cursor, page, breaks>>

\* The job is not in memory: the row is consulted, and the stream ends.
StreamFallback ==
    /\ conn = "open" /\ status = "absent"
    /\ wire' = wire \o (IF row = "done" THEN JobDone
                                        ELSE <<[kind |-> "error"]>>)
    /\ conn' = "closed"
    /\ UNCHANGED <<job, cursor, page, breaks>>

\* The connection breaks; some of what was written still arrives.
Drop ==
    /\ conn = "open" /\ breaks < MaxBreaks
    /\ breaks' = breaks + 1
    /\ conn' = "closed"
    /\ \E k \in 0..Len(wire) : wire' = SubSeq(wire, 1, k)
    /\ UNCHANGED <<job, cursor, page>>

-----------------------------------------------------------------------------
(* The WebUI.                                                              *)

OpenStream ==
    /\ mode = "idle"
    /\ mode' = "stream"
    /\ conn' = "open" /\ cursor' = cursorRef /\ wire' = <<>>
    /\ UNCHANGED <<job, cursorRef, liveEvents, saved, breaks>>

\* Mutant: the cursor stays on the event just received.
ReceiveStays ==
    /\ mode = "stream" /\ wire # <<>>
    /\ LET m == Head(wire)
       IN CASE m.kind = "event" -> /\ cursorRef' = m.id
                                   /\ liveEvents' = Append(liveEvents, m.ev)
                                   /\ mode' = mode
            [] m.kind = "reset" -> /\ cursorRef' = m.base
                                   /\ liveEvents' = <<>> /\ mode' = mode
            [] m.kind = "job_done" -> mode' = "finished" /\ UNCHANGED <<cursorRef, liveEvents>>
            [] m.kind = "error" -> mode' = "poll" /\ UNCHANGED <<cursorRef, liveEvents>>
    /\ wire' = Tail(wire)
    /\ UNCHANGED <<job, conn, cursor, saved, breaks>>

\* The next message of the stream.  An "error" closes an EventSource; for the
\* fetch reader the stream just ends.
Receive ==
    /\ mode = "stream" /\ wire # <<>>
    /\ LET m == Head(wire)
       IN CASE m.kind = "event" -> /\ cursorRef' = m.id + 1
                                   /\ liveEvents' = Append(liveEvents, m.ev)
                                   /\ mode' = mode
            [] m.kind = "reset" -> /\ cursorRef' = m.base
                                   /\ liveEvents' = <<>> /\ mode' = mode
            [] m.kind = "job_done" -> mode' = "finished" /\ UNCHANGED <<cursorRef, liveEvents>>
            [] m.kind = "error" -> mode' = "poll" /\ UNCHANGED <<cursorRef, liveEvents>>
    /\ wire' = Tail(wire)
    /\ UNCHANGED <<job, conn, cursor, saved, breaks>>

\* The stream ended without job_done.
StreamEnded ==
    /\ mode = "stream" /\ wire = <<>> /\ conn = "closed"
    /\ mode' = "poll"
    /\ UNCHANGED <<job, net, cursorRef, liveEvents, saved, breaks>>

\* What a poll reports of the job: the in-memory one, else the row.
Reported == IF status # "absent" THEN status ELSE row

\* One turn of the polling loop.  Request, answer and its use are one step:
\* the next request waits for it, and nothing else moves cursorRef meanwhile.
Poll ==
    /\ mode = "poll"
    /\ IF status # "absent" /\ Take(cursorRef) > 0
       THEN /\ liveEvents' = IF cursorRef < offset THEN SliceFrom(cursorRef)
                             ELSE liveEvents \o SliceFrom(cursorRef)
            /\ cursorRef' = Clamp(cursorRef) + Take(cursorRef)
       ELSE UNCHANGED <<liveEvents, cursorRef>>
    /\ mode' = IF Reported \in {"done", "absent"} THEN "finished" ELSE "poll"
    /\ UNCHANGED <<job, net, saved, breaks>>

\* Mutant: the effect's cleanup forgets to close the stream.
WatchdogLeavesStream ==
    /\ mode \in {"stream", "poll"}
    /\ Reported \in {"done", "absent"}
    /\ mode' = "finished"
    /\ UNCHANGED <<job, net, cursorRef, liveEvents, saved, breaks>>

\* The watchdog asks for the status alone and stops everything at the end.
Watchdog ==
    /\ mode \in {"stream", "poll"}
    /\ Reported \in {"done", "absent"}
    /\ mode' = "finished"
    /\ conn' = "closed" /\ wire' = <<>>
    /\ UNCHANGED <<job, cursor, cursorRef, liveEvents, saved, breaks>>

SaveCursor ==
    /\ mode \in {"stream", "poll"}
    /\ saved # cursorRef
    /\ saved' = cursorRef
    /\ UNCHANGED <<job, net, mode, cursorRef, liveEvents, breaks>>

\* The page is reloaded: it starts from the saved cursor with an empty list,
\* if the job has not finished; otherwise the job is not picked up again.
Reload ==
    /\ mode \in {"stream", "poll"} /\ breaks < MaxBreaks
    /\ breaks' = breaks + 1
    /\ conn' = "closed" /\ wire' = <<>>
    /\ cursorRef' = saved /\ liveEvents' = <<>>
    /\ mode' = IF Reported \in {"done", "absent"} THEN "finished" ELSE "idle"
    /\ UNCHANGED <<job, cursor, saved>>

-----------------------------------------------------------------------------
Daemon == Finish \/ Persist \/ Resume
Server == StreamTurn \/ StreamFallback
WebUI  == OpenStream \/ Receive \/ StreamEnded \/ Poll

Next ==
    \/ Daemon \/ AppendEvent \/ Gc \/ Restart
    \/ Server \/ Drop
    \/ WebUI \/ Watchdog \/ SaveCursor \/ Reload

Spec == Init /\ [][Next]_vars

\* A run ends and is persisted, the engine resumes queued jobs, the stream's
\* thread and the page keep going.  The watchdog, the timer that saves the
\* cursor and everything else may never happen.
Fairness == WF_vars(Finish) /\ WF_vars(Persist) /\ WF_vars(Resume)
            /\ WF_vars(Server) /\ WF_vars(WebUI)
FairSpec == Spec /\ Fairness

-----------------------------------------------------------------------------
\* A cursor means the same event for as long as the job lives in memory: the
\* window holds the last events of this life, each under its own number, and
\* cutting it never leaves fewer than HardMax nor keeps more than SoftMax.
WindowFaithful ==
    /\ \A i \in 1..Len(events) : events[i] = [life |-> life, n |-> offset + i - 1]
    /\ status # "absent" => End = made
    /\ Len(events) <= SoftMax
    /\ offset > 0 => Len(events) >= HardMax

\* The WebUI shows the events of a life in order, none twice and none left
\* out, through slices, resets, dropped streams, polling and reloads.
ShownInOrder ==
    \A i \in 1..Len(liveEvents) - 1 :
        liveEvents[i].life = liveEvents[i + 1].life
          => liveEvents[i + 1].n = liveEvents[i].n + 1

\* The page stops waiting even if its watchdog never runs: whichever way the
\* stream, the daemon or the entry goes away, stream or polling see the end.
PageFinishes == <>(mode = "finished")
=============================================================================
