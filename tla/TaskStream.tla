------------------------------- MODULE TaskStream -------------------------------
(***************************************************************************)
(* The registry of subscriptions and one run of _task_event_stream: it     *)
(* registers, replays the log and goes on with the frames published since. *)
(***************************************************************************)
EXTENDS TaskLog

CONSTANT QueueMax     \* _QUEUE_MAX of a subscription

ASSUME StreamAssumption == QueueMax \in Nat \ {0}

VARIABLES
    announced,    \* observer: the events a frame of their own was left for
    stage, after, upto, queue, out, lastSent,    \* the stream
    seen,         \* observer: the events it has yielded
    lost          \* observer: frames dropped, or passed over as out of order

streamVars == <<stage, after, upto, queue, out, lastSent, seen, lost>>
vars       == <<logVars, announced, streamVars>>

--------------------------------------------------------------------------------
(* The registry and one stream *)

Frames(fs) == {fs[i] : i \in DOMAIN fs}
SeqsOf(fs) == {fs[i].seq : i \in DOMAIN fs}

\* What the loops, the admin and the owner's requests write.
Write ==
    /\ LoopsWrite \/ SendMessage \/ EndUnstarted \/ RequestEnd
    /\ announced' = announced \cup ((UNION {SeqsOf(frames'[w]) : w \in Writers}) \ {0})
    /\ UNCHANGED streamVars

\* Mutant of Subscribed: the subscription is registered after the replay was read.
BugRegisterLate == stage = "live"

Subscribed == stage # "closed"

\* The water mark of register keeps old frames out; frames without sequence pass.  The
\* frames of a transaction ascend, so the old ones come first.
Old(fs)    == {i \in DOMAIN fs : fs[i].seq # 0 /\ fs[i].seq <= after}
Wanted(fs) == SubSeq(fs, Cardinality(Old(fs)) + 1, Len(fs))

\* publish: a full queue drops the frame.
Publish(w) ==
    /\ Published(w)
    /\ LET wanted == Wanted(frames[w])
           room   == QueueMax - Len(queue)
       IN IF Subscribed
          THEN /\ queue' = queue \o SubSeq(wanted, 1, IF Len(wanted) < room THEN Len(wanted) ELSE room)
               /\ lost' = lost \cup SeqsOf(SubSeq(wanted, room + 1, Len(wanted)))
          ELSE UNCHANGED <<queue, lost>>
    /\ UNCHANGED <<taskVars, pumpVars, announced, stage, after, upto, out, lastSent, seen>>

\* _task_event_stream begins: register comes before the replay.
Register(n) ==
    /\ stage = "closed"
    /\ stage' = "registered" /\ after' = n /\ lastSent' = n
    /\ upto' = n /\ queue' = <<>> /\ out' = <<>> /\ seen' = {} /\ lost' = {}
    /\ UNCHANGED <<logVars, announced>>

\* list_task_events: the log as it is at the time of the read.
ReadReplay ==
    /\ stage = "registered"
    /\ stage' = "read"
    /\ upto' = IF Len(log) > after THEN Len(log) ELSE after
    /\ UNCHANGED <<logVars, announced, after, queue, out, lastSent, seen, lost>>

Replay == [i \in 1 .. upto - after |-> [seq |-> after + i, kind |-> log[after + i]]]

\* _merge_stream_frames: the replay first, then what was buffered in the meantime.
Merge ==
    /\ stage = "read"
    /\ stage' = "live"
    /\ out' = Replay \o queue
    /\ queue' = <<>>
    /\ UNCHANGED <<logVars, announced, after, upto, lastSent, seen, lost>>

\* The endless loop takes the next frame of the subscription.
NextFrame ==
    /\ stage = "live" /\ out = <<>> /\ queue # <<>>
    /\ out' = <<Head(queue)>> /\ queue' = Tail(queue)
    /\ UNCHANGED <<logVars, announced, stage, after, upto, lastSent, seen, lost>>

\* A frame at or below the last one sent is not sent again.
Repeated(f) == f.seq # 0 /\ f.seq <= lastSent

\* A frame is passed over when nothing is to be said of it, or when a later one went out.
Yield ==
    /\ stage = "live" /\ out # <<>>
    /\ LET f == Head(out) IN
         IF f.seq # 0 /\ HasFrame(f.kind) /\ ~ Repeated(f)
         THEN lastSent' = f.seq /\ seen' = seen \cup {f.seq} /\ UNCHANGED lost
         ELSE /\ UNCHANGED <<lastSent, seen>>
              /\ lost' = IF Repeated(f) /\ f.seq \notin seen THEN lost \cup {f.seq} ELSE lost
    /\ out' = Tail(out)
    /\ UNCHANGED <<logVars, announced, stage, after, upto, queue>>

\* The connection ends, for whatever reason; unsubscribe drops the queue.
Close ==
    /\ stage # "closed"
    /\ stage' = "closed" /\ queue' = <<>> /\ out' = <<>>
    /\ after' = 0 /\ upto' = 0 /\ lastSent' = 0 /\ seen' = {} /\ lost' = {}
    /\ UNCHANGED <<logVars, announced>>

Init ==
    /\ LogInit
    /\ announced = {}
    /\ stage = "closed" /\ after = 0 /\ upto = 0 /\ queue = <<>> /\ out = <<>>
    /\ lastSent = 0 /\ seen = {} /\ lost = {}

\* A client asks from any sequence it may have seen.
Next ==
    \/ Write
    \/ \E w \in Writers : Publish(w)
    \/ \E n \in 0 .. Len(log) : Register(n)
    \/ ReadReplay \/ Merge \/ NextFrame \/ Yield \/ Close

Spec == Init /\ [][Next]_vars

--------------------------------------------------------------------------------
(* Properties *)

TypeOK ==
    /\ LogTypeOK
    /\ announced \subseteq 1 .. Len(log)
    /\ stage \in {"closed", "registered", "read", "live"}
    /\ after \in Nat /\ upto \in Nat /\ lastSent \in Nat
    /\ queue \in Seq(Frame) /\ out \in Seq(Frame) /\ Len(queue) <= QueueMax
    /\ seen \subseteq Nat /\ lost \subseteq Nat

Coming == SeqsOf(out) \cup SeqsOf(queue) \cup UNION {SeqsOf(frames[w]) : w \in Writers}

\* _merge_stream_frames: "neither a gap nor a repetition".  A live stream has yielded,
\* or is yet to yield, every event of its replay and every event announced above its
\* water mark, except for frames that a full queue dropped or a later one overtook.
NoGap ==
    stage = "live" =>
       /\ \A n \in after + 1 .. upto : HasFrame(log[n]) => n \in seen \cup SeqsOf(out)
       /\ \A n \in announced : n > after => n \in seen \cup lost \cup Coming

\* publish_runtime_frames: "a frame of a transaction that was rolled back is a
\* phantom".  Whatever is on its way is in the log, under the number the log gave it.
NoPhantom ==
    \A f \in (UNION {Frames(frames[w]) : w \in Writers}) \cup Frames(queue) \cup Frames(out) :
       f.seq # 0 => f.seq <= Len(log) /\ log[f.seq] = f.kind

================================================================================
