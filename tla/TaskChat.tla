-------------------------------- MODULE TaskChat --------------------------------
(***************************************************************************)
(* The task page of the browser on top of TaskLog: the stream client of    *)
(* sse.js with its cursor, and the reducer of the page with a water mark   *)
(* of its own.  Every answer is read at one time and applied at a later    *)
(* one; in between the stream, other answers and the server go on.  An     *)
(* effect whose dependencies change drops the answer it was waiting for.   *)
(* Left out: rendering, streamed deltas, the paging of messages, and a     *)
(* refusal (4xx) of the stream, after which the page has to be reloaded.   *)
(* The server's side of the stream is one queue here, the replay and then  *)
(* what is published; TaskStream has its steps.                            *)
(***************************************************************************)
EXTENDS TaskLog, SequencesExt

CONSTANTS
    None,
    PageQueueMax, \* _QUEUE_MAX of the page's subscription
    EventsPage,   \* limit of GET /events
    MaxAnswers,   \* bound: answers the server has given and the page has not yet applied
    MaxFaults     \* bound: breaks of the stream and requests given up (reconnects are repeated)

VARIABLES
    wire,         \* frames on their way through the open stream
    link,         \* what createTaskStream is doing
    cursor,       \* its lastSeq
    shown,        \* the state of taskChatReducer, and a history of it (see below)
    load,         \* answers of loadTaskBundle
    events,       \* answer of fetchEvents, before a reconnect
    page,         \* answer of fetchEvents, for the reducer's target
    refetched,    \* answer of GET messages for pendingRefetchAfter
    final,        \* answers of the refresh after a done
    op,           \* answer of POST messages, abort or complete
    faults        \* how many of them there were

ASSUME ChatAssumption ==
    /\ PageQueueMax \in Nat /\ MaxAnswers \in Nat /\ MaxFaults \in Nat
    /\ EventsPage \in Nat \ {0, 1}      \* a page of one row could show no frame at all
    /\ None \notin Nat /\ None # <<>>

answerVars == <<load, events, page, refetched, final, op>>
pageVars   == <<link, cursor, shown, answerVars, faults>>
chatVars   == <<logVars, wire, pageVars>>

SavedAfter(n) == {i \in n + 1 .. Len(log) : log[i] \in Saved}

Snapshot == [seq |-> Len(log), status |-> status]

Least(n, m) == IF n # None /\ n < m THEN n ELSE m

Fault == faults < MaxFaults /\ faults' = faults + 1

Ask == Cardinality({a \in {1, 2, 3, 4, 5} : <<events, page, refetched, final.status, op>>[a] # None})
          < MaxAnswers

Nothing == [task |-> None, messages |-> None]

--------------------------------------------------------------------------------
(* The reducer *)

\* applyFrameEvent; a message_saved without a sequence refetches from the start.
ApplyEvent(s, f) ==
    CASE f.kind \in Saved ->
           [s EXCEPT !.refetch = Least(@, IF f.seq = 0 THEN 0 ELSE f.seq - 1)]
      [] f.kind \in Statuses -> [s EXCEPT !.status = f.kind]
      [] f.kind \in {"done", "round_settled", "round_ended"} -> [s EXCEPT !.finalizing = TRUE]
      [] OTHER -> s

\* applySequencedFrame
ApplyFrame(s, f) ==
    IF f.seq = 0 THEN ApplyEvent(s, f)
    ELSE IF f.seq <= s.watermark THEN s
    ELSE [ApplyEvent(s, f) EXCEPT !.watermark = f.seq, !.told = @ \cup {f.seq}]

\* Mutant of EventsApplied: the page is not to be fetched any further.
BugTargetForgotten(s, fs, seq, newStatus) ==
    [FoldLeft(ApplyFrame, s, fs) EXCEPT !.status = IF newStatus = None THEN @ ELSE newStatus]

\* EVENTS_APPLIED; the page effect passes a target, and no status.
EventsApplied(s, fs, seq, newStatus) ==
    LET t == FoldLeft(ApplyFrame, s, fs)
        goal == IF seq > t.watermark THEN IF t.target # None /\ t.target > seq THEN t.target ELSE seq
                ELSE t.target
    IN [t EXCEPT !.status = IF newStatus = None THEN @ ELSE newStatus,
                 !.target = IF goal # None /\ t.watermark >= goal THEN None ELSE goal]

Rows(n) == [i \in 1 .. (IF Len(log) > n THEN Len(log) - n ELSE 0) |-> [seq |-> n + i, kind |-> log[n + i]]]

Framed(fs, f) == IF HasFrame(f.kind) THEN Append(fs, f) ELSE fs

\* What GET /events answers: a page of rows, those without a frame left out.
EventsAfter(n) ==
    FoldLeft(Framed, <<>>,
             SubSeq(Rows(n), 1, IF Len(Rows(n)) < EventsPage THEN Len(Rows(n)) ELSE EventsPage))

Refresh(n) == [from |-> n, status |-> None, messages |-> {}]

\* History of the reducer: told are the events it has applied, missed those its water
\* mark was moved over without, or that it no longer pages to; base is the length of
\* the log when the stream was opened.  A cause of misses is named where it occurs.
Pending(s) == IF s.target = None THEN {} ELSE s.watermark + 1 .. s.target

Missing(t, causes) ==
    [t EXCEPT !.missed = @ \cup ((causes \cap (shown.watermark + 1 .. t.watermark)) \ t.told)]

\* A new state of the reducer; effects whose dependencies changed start again.
Show(s) ==
    /\ shown' = s
    /\ refetched' = IF s.refetch = shown.refetch THEN refetched ELSE None
    /\ page' = IF s.target = shown.target /\ s.watermark = shown.watermark THEN page ELSE None
    /\ final' = IF s.finalizing = shown.finalizing THEN final
                ELSE Refresh(IF s.finalizing THEN s.watermark ELSE 0)

--------------------------------------------------------------------------------
(* The page *)

\* loadTaskBundle: the requests are answered each at its own time.
ReadLoad ==
    /\ link = "loading"
    /\ \/ load.task = None /\ load' = [load EXCEPT !.task = Snapshot]
       \/ load.messages = None /\ load' = [load EXCEPT !.messages = SavedAfter(0)]
    /\ UNCHANGED <<logVars, wire, link, cursor, shown, events, page, refetched, final, op, faults>>

Load ==
    /\ link = "loading" /\ load.task # None /\ load.messages # None
    /\ link' = "connecting" /\ cursor' = load.task.seq
    /\ LET told == {n \in 1 .. load.task.seq : log[n] \in Saved => n \in load.messages}
       IN Show([shown EXCEPT !.status = load.task.status, !.messages = load.messages,
                             !.watermark = load.task.seq,
                             !.told = told, !.missed = 1 .. load.task.seq \ told])
    /\ UNCHANGED <<logVars, wire, load, events, op, faults>>

Connect ==
    /\ link = "connecting"
    /\ link' = "open" /\ wire' = Rows(cursor)
    /\ Show([shown EXCEPT !.base = Len(log)])
    /\ UNCHANGED <<logVars, cursor, load, events, op, faults>>

ConnectFails ==
    /\ link = "connecting"
    /\ link' = "waiting"
    /\ UNCHANGED <<logVars, wire, cursor, shown, answerVars, faults>>

\* End of the stream, network error or watchdog.
LinkBreaks ==
    /\ link = "open"
    /\ link' = "waiting" /\ wire' = <<>>
    /\ Fault
    /\ UNCHANGED <<logVars, cursor, shown, answerVars>>

\* publish, to the subscription of this page if it has one.
PublishToPage(w) ==
    /\ Published(w)
    /\ LET room == IF Len(wire) < PageQueueMax THEN PageQueueMax - Len(wire) ELSE 0 IN
         wire' = IF link = "open"
                 THEN wire \o SubSeq(frames[w], 1, IF Len(frames[w]) < room THEN Len(frames[w]) ELSE room)
                 ELSE wire
    /\ UNCHANGED <<taskVars, pumpVars, pageVars>>

\* What a frame of the open stream may be ahead of: events of which nothing was
\* replayed, since they are younger than the connection, and whose own frames a full
\* queue dropped or another coroutine's overtook.
Overtaken == {n \in cursor + 1 .. Len(log) : n > shown.base}

\* The server yields what it has not sent yet; dispatchBlock moves the cursor before
\* it calls onFrame.  Missed: what was overtaken, and what the page still pages to.
Receive ==
    /\ link = "open" /\ wire # <<>>
    /\ wire' = Tail(wire)
    /\ LET f == Head(wire) IN
         IF HasFrame(f.kind) /\ (f.seq = 0 \/ f.seq > cursor)
         THEN /\ cursor' = IF f.seq > cursor THEN f.seq ELSE cursor
              /\ Show(Missing(ApplyFrame(shown, f), Overtaken \cup Pending(shown)))
         ELSE UNCHANGED <<cursor, shown, page, refetched, final>>
    /\ UNCHANGED <<logVars, link, load, events, op, faults>>

\* The backoff is over: reconcileAndReconnect.
Reconnect ==
    /\ link = "waiting"
    /\ link' = "reconciling" /\ events' = None
    /\ UNCHANGED <<logVars, wire, cursor, shown, load, page, refetched, final, op, faults>>

ReadEvents ==
    /\ link = "reconciling" /\ events = None /\ Ask
    /\ events' = [list |-> EventsAfter(cursor), seq |-> Len(log), status |-> status]
    /\ UNCHANGED <<logVars, wire, link, cursor, shown, load, page, refetched, final, op, faults>>

\* Missed: what an earlier reconciliation has left to be paged.
Reconciled ==
    /\ link = "reconciling" /\ events # None
    /\ link' = "connecting" /\ events' = None
    /\ IF events.seq > cursor
       THEN /\ cursor' = events.seq
            /\ Show(Missing(EventsApplied(shown, events.list, events.seq, events.status),
                            Pending(shown)))
       ELSE UNCHANGED <<cursor, shown, page, refetched, final>>
    /\ UNCHANGED <<logVars, wire, load, op, faults>>

ReconcileFails ==
    /\ link = "reconciling"
    /\ link' = "waiting" /\ events' = None
    /\ UNCHANGED <<logVars, wire, cursor, shown, load, page, refetched, final, op, faults>>

\* The effect that pages on to the target of the reconciliation.
Behind == shown.target # None /\ shown.watermark < shown.target

ReadPage ==
    /\ Behind /\ page = None /\ Ask
    /\ page' = EventsAfter(shown.watermark)
    /\ UNCHANGED <<logVars, wire, link, cursor, shown, load, events, refetched, final, op, faults>>

PageApplied ==
    /\ Behind /\ page # None /\ page # <<>>
    /\ Show(EventsApplied(shown, page, shown.target, None))
    /\ UNCHANGED <<logVars, wire, link, cursor, load, events, op, faults>>

\* RECONCILE_GIVE_UP: an empty page, or an error.  Missed: after an error, the rest.
GiveUp ==
    /\ Behind
    /\ \/ /\ page = <<>>
          /\ Show([shown EXCEPT !.target = None])
          /\ UNCHANGED faults
       \/ /\ Fault
          /\ Show([shown EXCEPT !.target = None, !.missed = @ \cup Pending(shown)])
    /\ UNCHANGED <<logVars, wire, link, cursor, load, events, op>>

\* The effect that fetches the messages announced without their text.
ReadRefetch ==
    /\ shown.refetch # None /\ refetched = None /\ Ask
    /\ refetched' = SavedAfter(shown.refetch)
    /\ UNCHANGED <<logVars, wire, link, cursor, shown, load, events, page, final, op, faults>>

MessagesMerged ==
    /\ shown.refetch # None /\ refetched # None
    /\ Show([shown EXCEPT !.messages = @ \cup refetched, !.refetch = None])
    /\ UNCHANGED <<logVars, wire, link, cursor, load, events, op, faults>>

RefetchFails ==
    /\ shown.refetch # None
    /\ Show([shown EXCEPT !.refetch = None])
    /\ Fault
    /\ UNCHANGED <<logVars, wire, link, cursor, load, events, op>>

\* The refresh after a done: snapshot, and the messages above the water mark it began
\* at, two requests that are answered together here.
ReadFinal ==
    /\ shown.finalizing /\ final.status = None /\ Ask
    /\ \/ final' = [final EXCEPT !.status = status, !.messages = SavedAfter(final.from)] /\ UNCHANGED faults
       \/ final' = [final EXCEPT !.status = "unknown", !.messages = SavedAfter(final.from)] /\ Fault
       \/ final' = [final EXCEPT !.status = status] /\ Fault
    /\ UNCHANGED <<logVars, wire, link, cursor, shown, load, events, page, refetched, op>>

RoundFinalized ==
    /\ shown.finalizing /\ final.status # None
    /\ Show([shown EXCEPT !.finalizing = FALSE,
                          !.status = IF final.status = "unknown" THEN @ ELSE final.status,
                          !.messages = @ \cup final.messages])
    /\ UNCHANGED <<logVars, wire, link, cursor, load, events, op, faults>>

\* The user sends from this page.
Send ==
    /\ link # "loading" /\ shown.status = "ready" /\ op = None /\ Ask
    /\ SendMessage /\ UNCHANGED wire
    /\ op' = [kind |-> "send", message |-> Len(log) + 1, seq |-> Len(log) + 3]
    /\ UNCHANGED <<link, cursor, shown, load, events, page, refetched, final, faults>>

\* abort or complete from this page, before the round runs or while it runs.
End ==
    /\ link # "loading" /\ shown.status \in {"ready", "queued", "running"} /\ op = None /\ Ask
    /\ EndUnstarted \/ RequestEnd
    /\ UNCHANGED wire
    /\ op' = [kind |-> "end", status |-> status']
    /\ UNCHANGED <<link, cursor, shown, load, events, page, refetched, final, faults>>

\* SEND_ACCEPTED: the status is set, however late the answer comes.  The answer tells
\* what its own events would; missed: whatever else the water mark moves over.
SendAccepted ==
    /\ op # None /\ op.kind = "send"
    /\ op' = None
    /\ Show(Missing([shown EXCEPT !.status = "queued",
                                  !.watermark = IF op.seq > @ THEN op.seq ELSE @,
                                  !.refetch = Least(@, op.message - 1),
                                  !.told = @ \cup (op.message .. op.seq)],
                    1 .. op.seq))
    /\ UNCHANGED <<logVars, wire, link, cursor, load, events, faults>>

TerminalAccepted ==
    /\ op # None /\ op.kind = "end"
    /\ op' = None
    /\ Show([shown EXCEPT !.status = op.status])
    /\ UNCHANGED <<logVars, wire, link, cursor, load, events, faults>>

AnswerLost ==
    /\ op # None
    /\ op' = None
    /\ UNCHANGED <<logVars, wire, link, cursor, shown, load, events, page, refetched, final, faults>>

--------------------------------------------------------------------------------
ChatInit ==
    /\ LogInit /\ wire = <<>>
    /\ link = "loading" /\ cursor = 0
    /\ shown = [status |-> status, watermark |-> 0, messages |-> {}, refetch |-> None,
                target |-> None, finalizing |-> FALSE, told |-> {}, missed |-> {}, base |-> 0]
    /\ load = Nothing /\ events = None /\ page = None /\ refetched = None
    /\ final = Refresh(0) /\ op = None /\ faults = 0

Server ==
    \/ LoopsWrite /\ UNCHANGED <<wire, pageVars>>
    \/ \E w \in Writers : PublishToPage(w)

Client ==
    \/ ReadLoad \/ Load \/ Connect \/ ConnectFails \/ LinkBreaks \/ Receive
    \/ Reconnect \/ ReadEvents \/ Reconciled \/ ReconcileFails
    \/ ReadPage \/ PageApplied \/ GiveUp
    \/ ReadRefetch \/ MessagesMerged \/ RefetchFails
    \/ ReadFinal \/ RoundFinalized
    \/ Send \/ End \/ SendAccepted \/ TerminalAccepted \/ AnswerLost

ChatNext == Server \/ Client

ChatSpec == ChatInit /\ [][ChatNext]_chatVars

--------------------------------------------------------------------------------
(* Properties *)

ChatTypeOK ==
    /\ LogTypeOK
    /\ wire \in Seq(Frame)
    /\ link \in {"loading", "connecting", "open", "waiting", "reconciling"}
    /\ link # "open" => wire = <<>>
    /\ cursor \in 0 .. Len(log) /\ shown.watermark \in 0 .. Len(log)
    /\ shown.messages \subseteq SavedAfter(0)

\* The two cursors: what the stream client will not ask for again (sse.js, lastSeq), the
\* reducer has applied, or still pages to (reconcileTarget), or has passed over for one
\* of the causes named above: it was overtaken by a later frame of the open stream or
\* by the answer to a send, a paging failed or was overtaken itself, or the bundle was
\* read before the message.  Nothing that a connect replays, a reconciliation answers or
\* a page of events brings is lost, and no target is forgotten.
CursorIsCovered ==
    \A n \in 1 .. cursor :
       HasFrame(log[n]) => n \in shown.told \cup shown.missed \cup Pending(shown)

--------------------------------------------------------------------------------
(* Documented, and not kept by the code *)

\* taskChatReducer.js: the end of a round converges by the refresh after its done.  When
\* the refresh is in and the task can be written to again, the page does not say that
\* it is running: no frame is going to tell it otherwise.
RefreshConverges ==
    [][shown.finalizing /\ ~ shown'.finalizing /\ status = "ready" /\ final.status # "unknown"
         => shown'.status # "running"]_chatVars

\* TaskChatPage.jsx on the paging of a reconciliation: it goes on from the water mark
\* until it has caught up with that of the snapshot.  While no request fails, what the
\* page still pages to stays so until the reducer has applied it.
PagingCatchesUp ==
    [][faults' = faults =>
         {n \in Pending(shown) : HasFrame(log[n])}
            \subseteq shown'.told \cup Pending(shown')]_chatVars

================================================================================
