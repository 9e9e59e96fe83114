---------------------------- MODULE TaskStreamProofs ----------------------------
(***************************************************************************)
(* For every set of writers, log and queue: what a stream carries is what  *)
(* the log has, and a live stream has no gap.  IInv follows an announced   *)
(* event from the frame its transaction leaves, through the queue of the   *)
(* subscription or the replay that was read, to what was yielded or lost.  *)
(* That no part of the replay is passed over rests on its place: it comes  *)
(* in order, ahead of all that could overtake it (Ahead).                  *)
(* The second half is about the page of TaskChat on the same log: what its *)
(* two cursors pass over is shown or still to be fetched.  That the page   *)
(* may stop at an empty answer rests on the log: no two rows without a     *)
(* frame follow each other (Spaced), and a page has at least two rows.     *)
(***************************************************************************)
EXTENDS TaskStream, TaskChat, TLAPS, FiniteSetTheorems, SequenceTheorems, WellFoundedInduction

--------------------------------------------------------------------------------
(* The invariant *)

\* Frame f tells what the log has under its number; L is the log.
Logged(L, f) == f.seq # 0 => f.seq <= Len(L) /\ L[f.seq] = f.kind

Ascending(fs) ==
    \A i, j \in DOMAIN fs : i < j /\ fs[i].seq # 0 /\ fs[j].seq # 0 => fs[i].seq < fs[j].seq

\* What a transaction leaves to be published, wherever it is by now.
Honest ==
    /\ \A w \in Writers :
         /\ Ascending(frames[w])
         /\ \A i \in DOMAIN frames[w] : Logged(log, frames[w][i]) /\ HasFrame(frames[w][i].kind)
    /\ \A i \in DOMAIN queue : Logged(log, queue[i])
    /\ \A i \in DOMAIN out : Logged(log, out[i])

\* The marks of the stream lie within the log.
Marks ==
    /\ after <= upto /\ upto <= Len(log)
    /\ stage \in {"registered", "read"} => lastSent = after
    /\ stage # "live" => out = <<>>
    /\ \A n \in announced : n \in 1 .. Len(log) /\ HasFrame(log[n])

ToCome(n) == n \in seen \cup lost \cup Coming

\* What was announced above the water mark is in the replay that was read, or is to come.
Awaited == \A n \in announced : n > after =>
              /\ stage = "read" => n <= upto \/ ToCome(n)
              /\ stage = "live" => ToCome(n)

\* What is left of the replay comes in order, ahead of all that could overtake it.
Ahead(n) == \E i \in DOMAIN out : /\ out[i].seq = n /\ out[i].kind = log[n]
                                  /\ \A j \in 1 .. i - 1 : out[j].seq < n

Replayed ==
    stage = "live" =>
       \A n \in after + 1 .. upto : HasFrame(log[n]) => n \in seen \/ (lastSent < n /\ Ahead(n))

IInv == TypeOK /\ Honest /\ Marks /\ Awaited /\ Replayed

--------------------------------------------------------------------------------
(* What the writers do to the log *)

\* What a transaction leaves in fs is among its events, which follow those of the log L.
Told(L, written, fs) ==
    /\ Ascending(fs)
    /\ \A i \in DOMAIN fs :
         /\ HasFrame(fs[i].kind)
         /\ \/ fs[i].seq = 0
            \/ \E j \in 1 .. Len(written) : fs[i].seq = Len(L) + j /\ written[j] = fs[i].kind

\* The log becomes M: it is only added to.
Grows(M) == Len(log) <= Len(M) /\ \A i \in 1 .. Len(log) : M[i] = log[i]

\* Frames are left only by a writer that has published its last ones.
Leaves(M, fs) == \A w \in Writers :
    \/ fs[w] = frames[w]
    \/ /\ Ascending(fs[w])
       /\ frames[w] = <<>>
       /\ \A i \in DOMAIN fs[w] : Logged(M, fs[w][i]) /\ HasFrame(fs[w][i].kind)

Moved ==
    /\ log' \in Seq(Kinds) /\ Len(log') <= MaxEvents
    /\ frames' \in [Writers -> Seq(Frame)]
    /\ Grows(log') /\ Leaves(log', frames')

LogStep == LogTypeOK' /\ Moved

LEMMA FrameParts ==
  ASSUME NEW f \in Frame
  PROVE  f.seq \in Nat /\ f.kind \in Kinds \cup {"done"}
BY DEF Frame

LEMMA AppendLogs ==
  ASSUME LogTypeOK, NEW written \in Seq(Kinds), NEW fs \in Seq(Frame), NEW w \in Writers,
         Len(log) + Len(written) <= MaxEvents, log' = log \o written,
         frames[w] = <<>>, frames' = [frames EXCEPT ![w] = fs], Told(log, written, fs)
  PROVE  Moved
<1>1. log \in Seq(Kinds) /\ frames \in [Writers -> Seq(Frame)] BY DEF LogTypeOK
<1>2. PICK M : M = log' OBVIOUS
<1>3. /\ M \in Seq(Kinds) /\ Len(M) = Len(log) + Len(written)
      /\ \A i \in 1 .. Len(log) + Len(written) :
            M[i] = IF i <= Len(log) THEN log[i] ELSE written[i - Len(log)]
  BY <1>1, <1>2, ConcatProperties
<1>4. Len(log) \in Nat /\ Len(written) \in Nat BY <1>1, LenProperties
<1>5. Grows(M) BY <1>3, <1>4 DEF Grows
<1>6. ASSUME NEW i \in DOMAIN fs PROVE Logged(M, fs[i])
  <2>1. fs[i] \in Frame BY <1>6
  <2>2. CASE fs[i].seq = 0 BY <2>2 DEF Logged
  <2>3. ASSUME NEW j \in 1 .. Len(written), fs[i].seq = Len(log) + j, written[j] = fs[i].kind
        PROVE  Logged(M, fs[i])
    <3>1. Len(log) + j \in 1 .. Len(log) + Len(written) /\ ~ (Len(log) + j <= Len(log))
          /\ (Len(log) + j) - Len(log) = j
      BY <1>4
    <3> QED BY <1>3, <2>3, <3>1 DEF Logged
  <2> QED BY <2>2, <2>3 DEF Told
<1>7. frames' \in [Writers -> Seq(Frame)] BY <1>1
<1>8. \A v \in Writers : frames'[v] = IF v = w THEN fs ELSE frames[v] BY <1>1
<1>9. Leaves(M, frames') BY <1>6, <1>8 DEF Leaves, Told
<1> QED BY <1>2, <1>3, <1>5, <1>7, <1>9 DEF Moved

\* The transactions and the frames there are.
LEMMA NoneTold ==
  ASSUME NEW L, NEW written
  PROVE  <<>> \in Seq(Frame) /\ Told(L, written, <<>>)
BY DEF Told, Ascending

LEMMA TransientTold ==
  ASSUME NEW L, NEW written, NEW f \in Frame, f.seq = 0, HasFrame(f.kind)
  PROVE  <<f>> \in Seq(Frame) /\ Told(L, written, <<f>>)
BY DEF Told, Ascending

\* A transaction of w that commits events and leaves the frames fs.
LEMMA CommitLogs ==
  ASSUME LogTypeOK, NEW w \in Writers, NEW written \in Seq(Kinds), NEW fs \in Seq(Frame),
         Commit(w, written, fs), Told(log, written, fs)
  PROVE  Moved
BY AppendLogs DEF Commit

\* Frames without events.
LEMMA LeaveLogs ==
  ASSUME LogTypeOK, NEW w \in Writers, NEW f \in Frame, f.seq = 0, HasFrame(f.kind),
         log' = log, frames[w] = <<>>, frames' = [frames EXCEPT ![w] = <<f>>]
  PROVE  Moved
<1>1. <<>> \in Seq(Kinds) /\ Len(<<>>) = 0 OBVIOUS
<1>2. log \in Seq(Kinds) /\ Len(log) \in Nat /\ Len(log) <= MaxEvents BY DEF LogTypeOK
<1>3. log' = log \o <<>> BY <1>2, ConcatEmptySeq
<1>4. Len(log) + 0 <= MaxEvents BY <1>2
<1>5. <<f>> \in Seq(Frame) /\ Told(log, <<>>, <<f>>) BY TransientTold
<1> QED BY <1>1, <1>3, <1>4, <1>5, AppendLogs

LEMMA SameLogs ==
  ASSUME LogTypeOK, log' = log, frames' = frames
  PROVE  Moved
BY DEF Moved, LogTypeOK, Grows, Leaves

LEMMA WritersThere ==
  "request" \in Writers /\ "dispatcher" \in Writers /\ "executor" \in Writers
BY LogAssumption

\* A frame that announces the i-th event is the frame it should be.
LEMMA AnnounceFrame ==
  ASSUME LogTypeOK, NEW i \in Nat \ {0}, NEW e \in Kinds
  PROVE  /\ Announce(i, e) \in Frame
         /\ Announce(i, e).seq = Len(log) + i /\ Announce(i, e).kind = e
         /\ Announce(i, e).seq # 0
<1>1. Len(log) \in Nat BY LenProperties DEF LogTypeOK
<1> QED BY <1>1 DEF Announce, Frame

LEMMA DoneFrame == Done \in Frame /\ Done.seq = 0 /\ Done.kind = "done" /\ HasFrame(Done.kind)
BY DEF Done, Frame, HasFrame

LEMMA SendLogs == ASSUME LogTypeOK, SendMessage PROVE LogStep
<1>1. PICK a, b, c : a = Announce(1, "user") /\ b = Announce(2, "queued")
                     /\ c = Announce(3, "round_queued")
  OBVIOUS
<1>2. /\ a \in Frame /\ a.seq = Len(log) + 1 /\ a.kind = "user" /\ a.seq # 0
      /\ b \in Frame /\ b.seq = Len(log) + 2 /\ b.kind = "queued" /\ b.seq # 0
      /\ c \in Frame /\ c.seq = Len(log) + 3 /\ c.kind = "round_queued" /\ c.seq # 0
  <2>1. "user" \in Kinds /\ "queued" \in Kinds /\ "round_queued" \in Kinds
    BY DEF Kinds, Saved, Statuses, Rounds
  <2>2. 1 \in Nat \ {0} /\ 2 \in Nat \ {0} /\ 3 \in Nat \ {0} OBVIOUS
  <2>3. a \in Frame /\ a.seq = Len(log) + 1 /\ a.kind = "user" /\ a.seq # 0
    BY <1>1, <2>1, <2>2, AnnounceFrame
  <2>4. b \in Frame /\ b.seq = Len(log) + 2 /\ b.kind = "queued" /\ b.seq # 0
    BY <1>1, <2>1, <2>2, AnnounceFrame
  <2>5. c \in Frame /\ c.seq = Len(log) + 3 /\ c.kind = "round_queued" /\ c.seq # 0
    BY <1>1, <2>1, <2>2, AnnounceFrame
  <2> QED BY <2>3, <2>4, <2>5
<1>3. Len(log) \in Nat BY LenProperties DEF LogTypeOK
<1>4. PICK es : es = <<"user", "queued", "round_queued">> OBVIOUS
<1>5. es \in Seq(Kinds) /\ Len(es) = 3 /\ es[1] = "user" /\ es[2] = "queued" /\ es[3] = "round_queued"
  BY <1>4 DEF Kinds, Saved, Statuses, Rounds
<1>6. PICK fs : fs = <<a, b, c>> OBVIOUS
<1>7. fs \in Seq(Frame) /\ DOMAIN fs = 1 .. 3 /\ fs[1] = a /\ fs[2] = b /\ fs[3] = c
  BY <1>2, <1>6
<1>8. Ascending(fs) BY <1>2, <1>3, <1>7 DEF Ascending
<1>9. Told(log, es, fs)
  <2> SUFFICES ASSUME NEW i \in 1 .. 3
               PROVE  /\ HasFrame(fs[i].kind)
                      /\ \E j \in 1 .. Len(es) : fs[i].seq = Len(log) + j /\ es[j] = fs[i].kind
    BY <1>7, <1>8 DEF Told
  <2>1. i = 1 \/ i = 2 \/ i = 3 OBVIOUS
  <2>2. /\ HasFrame(fs[i].kind)
        /\ i \in 1 .. Len(es) /\ fs[i].seq = Len(log) + i /\ es[i] = fs[i].kind
    BY <1>2, <1>5, <1>7, <2>1 DEF HasFrame
  <2> QED BY <2>2
<1>10. Commit("request", es, fs) BY <1>1, <1>4, <1>6 DEF SendMessage
<1>11. Moved BY <1>5, <1>7, <1>9, <1>10, CommitLogs, WritersThere
<1> QED BY <1>11 DEF LogStep, LogTypeOK, Moved, SendMessage, pumpVars, Statuses

\* One event, with its frame or without.
LEMMA OneTold ==
  ASSUME LogTypeOK, NEW written \in Seq(Kinds), written # <<>>, NEW e \in Kinds,
         written[1] = e, HasFrame(e)
  PROVE  <<Announce(1, e)>> \in Seq(Frame) /\ Told(log, written, <<Announce(1, e)>>)
<1>1. PICK a : a = Announce(1, e) OBVIOUS
<1>2. a \in Frame /\ a.seq = Len(log) + 1 /\ a.kind = e BY <1>1, AnnounceFrame
<1>3. 1 \in 1 .. Len(written) BY EmptySeq
<1>4. Told(log, written, <<a>>) BY <1>2, <1>3 DEF Told, Ascending
<1> QED BY <1>1, <1>2, <1>4

LEMMA EndUnstartedLogs == ASSUME LogTypeOK, EndUnstarted PROVE LogStep
<1>1. PICK es : es = IF round = "pending" THEN <<"ended", "round_ended">> ELSE <<"ended">> OBVIOUS
<1>2. es \in Seq(Kinds)
  <2>1. <<"ended", "round_ended">> \in Seq(Kinds) BY DEF Kinds, Statuses, Rounds
  <2>2. <<"ended">> \in Seq(Kinds) BY DEF Kinds, Statuses
  <2> QED BY <1>1, <2>1, <2>2
<1>3. Commit("request", es, <<>>) BY <1>1 DEF EndUnstarted
<1>4. Moved BY <1>2, <1>3, CommitLogs, NoneTold, WritersThere
<1> QED BY <1>4 DEF LogStep, LogTypeOK, Moved, EndUnstarted, pumpVars, Statuses

LEMMA RequestEndLogs == ASSUME LogTypeOK, RequestEnd PROVE LogStep
<1>1. Moved BY SameLogs DEF RequestEnd
<1> QED BY <1>1 DEF LogStep, LogTypeOK, Moved, RequestEnd

LEMMA ClaimLogs == ASSUME LogTypeOK, ClaimRound PROVE LogStep
<1>1. PICK es : es = <<"running", "round_running">> OBVIOUS
<1>2. es \in Seq(Kinds) /\ es # <<>> /\ es[1] = "running" /\ "running" \in Kinds
      /\ HasFrame("running")
  BY <1>1 DEF Kinds, Statuses, Rounds, HasFrame
<1>3. Commit("dispatcher", es, <<Announce(1, "running")>>) BY <1>1 DEF ClaimRound
<1>4. Moved BY <1>2, <1>3, CommitLogs, OneTold, WritersThere
<1> QED BY <1>4 DEF LogStep, LogTypeOK, Moved, ClaimRound, pumpVars, Statuses

LEMMA RequeueLogs == ASSUME LogTypeOK, RequeueRound PROVE LogStep
<1>1. PICK b, c : b = Announce(1, "queued") /\ c = Announce(2, "round_queued") OBVIOUS
<1>2. /\ b \in Frame /\ b.seq = Len(log) + 1 /\ b.kind = "queued" /\ b.seq # 0
      /\ c \in Frame /\ c.seq = Len(log) + 2 /\ c.kind = "round_queued" /\ c.seq # 0
  <2>1. "queued" \in Kinds /\ "round_queued" \in Kinds BY DEF Kinds, Statuses, Rounds
  <2>2. 1 \in Nat \ {0} /\ 2 \in Nat \ {0} OBVIOUS
  <2>3. b \in Frame /\ b.seq = Len(log) + 1 /\ b.kind = "queued" /\ b.seq # 0
    BY <1>1, <2>1, <2>2, AnnounceFrame
  <2>4. c \in Frame /\ c.seq = Len(log) + 2 /\ c.kind = "round_queued" /\ c.seq # 0
    BY <1>1, <2>1, <2>2, AnnounceFrame
  <2> QED BY <2>3, <2>4
<1>3. Len(log) \in Nat BY LenProperties DEF LogTypeOK
<1>4. PICK es : es = <<"queued", "round_queued">> OBVIOUS
<1>5. es \in Seq(Kinds) /\ Len(es) = 2 /\ es[1] = "queued" /\ es[2] = "round_queued"
  BY <1>4 DEF Kinds, Saved, Statuses, Rounds
<1>6. PICK fs : fs = <<b, c>> OBVIOUS
<1>7. fs \in Seq(Frame) /\ DOMAIN fs = 1 .. 2 /\ fs[1] = b /\ fs[2] = c
  BY <1>2, <1>6
<1>8. Ascending(fs) BY <1>2, <1>3, <1>7 DEF Ascending
<1>9. Told(log, es, fs)
  <2> SUFFICES ASSUME NEW i \in 1 .. 2
               PROVE  /\ HasFrame(fs[i].kind)
                      /\ \E j \in 1 .. Len(es) : fs[i].seq = Len(log) + j /\ es[j] = fs[i].kind
    BY <1>7, <1>8 DEF Told
  <2>1. i = 1 \/ i = 2 OBVIOUS
  <2>2. /\ HasFrame(fs[i].kind)
        /\ i \in 1 .. Len(es) /\ fs[i].seq = Len(log) + i /\ es[i] = fs[i].kind
    BY <1>2, <1>5, <1>7, <2>1 DEF HasFrame
  <2> QED BY <2>2
<1>10. Commit("dispatcher", es, fs) BY <1>1, <1>4, <1>6 DEF RequeueRound
<1>11. Moved BY <1>5, <1>7, <1>9, <1>10, CommitLogs, WritersThere
<1> QED BY <1>11 DEF LogStep, LogTypeOK, Moved, RequeueRound, Statuses

LEMMA EndRoundLogs == ASSUME LogTypeOK, NEW w \in Writers, EndRound(w) PROVE LogStep
<1>1. PICK b : b = Announce(1, "ended") OBVIOUS
<1>2. b \in Frame /\ b.seq = Len(log) + 1 /\ b.kind = "ended" /\ b.seq # 0
  BY <1>1, AnnounceFrame DEF Kinds, Statuses
<1>3. PICK es : es = <<"ended", "round_ended">> OBVIOUS
<1>4. es \in Seq(Kinds) /\ Len(es) = 2 /\ es[1] = "ended" BY <1>3 DEF Kinds, Statuses, Rounds
<1>5. PICK fs : fs = <<b, Done>> OBVIOUS
<1>6. fs \in Seq(Frame) /\ DOMAIN fs = 1 .. 2 /\ fs[1] = b /\ fs[2] = Done
  BY <1>2, <1>5, DoneFrame
<1>7. Ascending(fs) BY <1>6, DoneFrame DEF Ascending
<1>8. Told(log, es, fs)
  <2> SUFFICES ASSUME NEW i \in 1 .. 2
               PROVE  /\ HasFrame(fs[i].kind)
                      /\ \/ fs[i].seq = 0
                         \/ \E j \in 1 .. Len(es) : fs[i].seq = Len(log) + j /\ es[j] = fs[i].kind
    BY <1>6, <1>7 DEF Told
  <2>1. i = 1 \/ i = 2 OBVIOUS
  <2>2. CASE i = 1 BY <1>2, <1>4, <1>6, <2>2 DEF HasFrame
  <2>3. CASE i = 2 BY <1>6, <2>3, DoneFrame
  <2> QED BY <2>1, <2>2, <2>3
<1>9. Commit(w, es, fs) BY <1>1, <1>3, <1>5 DEF EndRound
<1>10. Moved BY <1>4, <1>6, <1>8, <1>9, CommitLogs
<1> QED BY <1>10 DEF LogStep, LogTypeOK, Moved, EndRound, Statuses

LEMMA CancelLogs == ASSUME LogTypeOK, CancelRound PROVE LogStep
<1>1. <<"round_ended">> \in Seq(Kinds) BY DEF Kinds, Rounds
<1>2. <<Done>> \in Seq(Frame) /\ Told(log, <<"round_ended">>, <<Done>>)
  BY TransientTold, DoneFrame
<1>3. Commit("dispatcher", <<"round_ended">>, <<Done>>) BY DEF CancelRound
<1>4. Moved BY <1>1, <1>2, <1>3, CommitLogs, WritersThere
<1> QED BY <1>4 DEF LogStep, LogTypeOK, Moved, CancelRound, pumpVars

LEMMA ReconcileLogs == ASSUME LogTypeOK, Reconcile PROVE LogStep
<1>1. PICK es : es = <<"ended">> OBVIOUS
<1>2. es \in Seq(Kinds) /\ es # <<>> /\ es[1] = "ended" /\ "ended" \in Kinds /\ HasFrame("ended")
  BY <1>1 DEF Kinds, Statuses, HasFrame
<1>3. Commit("executor", es, <<Announce(1, "ended")>>) BY <1>1 DEF Reconcile
<1>4. Moved BY <1>2, <1>3, CommitLogs, OneTold, WritersThere
<1> QED BY <1>4 DEF LogStep, LogTypeOK, Moved, Reconcile, pumpVars, Statuses

LEMMA StartLogs == ASSUME LogTypeOK, StartPump PROVE LogStep
<1>1. Moved BY SameLogs DEF StartPump, taskVars
<1> QED BY <1>1 DEF LogStep, LogTypeOK, Moved, StartPump, taskVars

LEMMA ToolLogs == ASSUME LogTypeOK, PersistTool PROVE LogStep
<1>1. <<"tool">> \in Seq(Kinds) BY DEF Kinds, Saved
<1>2. Commit("executor", <<"tool">>, <<>>) BY DEF PersistTool
<1>3. Moved BY <1>1, <1>2, CommitLogs, NoneTold, WritersThere
<1> QED BY <1>3 DEF LogStep, LogTypeOK, Moved, PersistTool, pumpVars

LEMMA AssistantLogs == ASSUME LogTypeOK, PersistAssistant PROVE LogStep
<1>1. PICK es : es = <<"assistant">> OBVIOUS
<1>2. /\ es \in Seq(Kinds) /\ es # <<>> /\ es[1] = "assistant" /\ "assistant" \in Kinds
      /\ HasFrame("assistant")
  BY <1>1 DEF Kinds, Saved, HasFrame
<1>3. Commit("executor", es, <<Announce(1, "assistant")>>) BY <1>1 DEF PersistAssistant
<1>4. Moved BY <1>2, <1>3, CommitLogs, OneTold, WritersThere
<1> QED BY <1>4 DEF LogStep, LogTypeOK, Moved, PersistAssistant, pumpVars

LEMMA FailsLogs == ASSUME LogTypeOK, PersistFails PROVE LogStep
<1>1. PICK f : f = [seq |-> 0, kind |-> "assistant"] OBVIOUS
<1>2. f \in Frame /\ f.seq = 0 /\ HasFrame(f.kind) BY <1>1 DEF Frame, Kinds, Saved, HasFrame
<1>3. /\ log' = log /\ frames["executor"] = <<>>
      /\ frames' = [frames EXCEPT !["executor"] = <<f>>]
  BY <1>1 DEF PersistFails, taskVars
<1>4. Moved BY <1>2, <1>3, LeaveLogs, WritersThere
<1> QED BY <1>4 DEF LogStep, LogTypeOK, Moved, PersistFails, taskVars

LEMMA SettledLogs == ASSUME LogTypeOK, AgentSettled PROVE LogStep
<1>1. /\ log' = log /\ frames["executor"] = <<>>
      /\ frames' = [frames EXCEPT !["executor"] = <<Done>>]
  BY DEF AgentSettled, taskVars
<1>2. Moved BY <1>1, LeaveLogs, WritersThere, DoneFrame
<1> QED BY <1>2 DEF LogStep, LogTypeOK, Moved, AgentSettled, taskVars

LEMMA SettleLogs == ASSUME LogTypeOK, Settle PROVE LogStep
<1>1. PICK last \in {"ready", "ended"} :
        /\ Commit("executor",
                  (IF unsaved THEN <<"assistant">> ELSE <<>>) \o <<"round_settled", last>>, <<>>)
        /\ status' = last
  BY DEF Settle
<1>2. PICK first : first = IF unsaved THEN <<"assistant">> ELSE <<>> OBVIOUS
<1>3. first \in Seq(Kinds)
  <2>1. <<"assistant">> \in Seq(Kinds) /\ <<>> \in Seq(Kinds) BY DEF Kinds, Saved
  <2> QED BY <1>2, <2>1
<1>4. <<"round_settled", last>> \in Seq(Kinds) BY DEF Kinds, Statuses, Rounds
<1>5. PICK es : es = first \o <<"round_settled", last>> OBVIOUS
<1>6. es \in Seq(Kinds) BY <1>3, <1>4, <1>5, ConcatProperties
<1>7. Commit("executor", es, <<>>) BY <1>1, <1>2, <1>5
<1>8. Moved BY <1>6, <1>7, CommitLogs, NoneTold, WritersThere
<1> QED BY <1>1, <1>8 DEF LogStep, LogTypeOK, Moved, Settle, Statuses

LEMMA PumpEndsLogs == ASSUME LogTypeOK, PumpEnds PROVE LogStep
<1>1. Moved BY SameLogs DEF PumpEnds, taskVars
<1> QED BY <1>1 DEF LogStep, LogTypeOK, Moved, PumpEnds, taskVars

LEMMA WriteLogs ==
  ASSUME LogTypeOK, Write
  PROVE  LogStep
<1>1. CASE LoopsWrite
  BY <1>1, ClaimLogs, RequeueLogs, EndRoundLogs, CancelLogs, ReconcileLogs, StartLogs, ToolLogs,
     AssistantLogs, FailsLogs, SettledLogs, SettleLogs, PumpEndsLogs
  DEF LoopsWrite
<1> QED BY <1>1, SendLogs, EndUnstartedLogs, RequestEndLogs DEF Write

--------------------------------------------------------------------------------
(* A transaction writes *)

LEMMA Sizes ==
  ASSUME TypeOK
  PROVE  /\ Len(log) \in Nat /\ Len(queue) \in Nat /\ Len(out) \in Nat
         /\ DOMAIN queue = 1 .. Len(queue) /\ DOMAIN out = 1 .. Len(out)
         /\ \A w \in Writers : /\ frames[w] \in Seq(Frame) /\ Len(frames[w]) \in Nat
                               /\ DOMAIN frames[w] = 1 .. Len(frames[w])
                               /\ \A i \in DOMAIN frames[w] : frames[w][i] \in Frame
         /\ \A i \in DOMAIN queue : queue[i] \in Frame
         /\ \A i \in DOMAIN out : out[i] \in Frame
BY LenProperties DEF TypeOK, LogTypeOK

LEMMA Grown ==
  ASSUME TypeOK, NEW M, M \in Seq(Kinds), Grows(M), NEW f \in Frame, Logged(log, f)
  PROVE  Logged(M, f)
<1>1. Len(log) \in Nat /\ Len(M) \in Nat BY Sizes, LenProperties
<1>2. CASE f.seq # 0
  <2>1. f.seq \in 1 .. Len(log) BY <1>1, <1>2, FrameParts DEF Logged
  <2> QED BY <1>1, <2>1 DEF Grows, Logged
<1> QED BY <1>2 DEF Logged

LEMMA Announcing ==
  ASSUME Write, NEW n \in announced', n \notin announced
  PROVE  \E w \in Writers : n \in SeqsOf(frames'[w]) /\ n # 0
BY DEF Write

LEMMA WriteInvariant ==
  ASSUME IInv, Write
  PROVE  IInv'
<1>1. /\ LogTypeOK' /\ log' \in Seq(Kinds) /\ Grows(log') /\ Leaves(log', frames')
      /\ frames' \in [Writers -> Seq(Frame)]
  BY WriteLogs DEF IInv, TypeOK, LogStep, Moved
<1>2. UNCHANGED <<stage, after, upto, queue, out, lastSent, seen, lost>>
      /\ announced' = announced \cup ((UNION {SeqsOf(frames'[w]) : w \in Writers}) \ {0})
  BY DEF Write, streamVars
<1>3. TypeOK BY DEF IInv
<1>4. PICK M : M = log' OBVIOUS
<1>5. M \in Seq(Kinds) /\ Len(M) \in Nat /\ Len(log) \in Nat /\ Grows(M) /\ Leaves(M, frames')
  BY <1>1, <1>3, <1>4, Sizes, LenProperties
<1>6. ASSUME NEW w \in Writers
      PROVE  /\ Ascending(frames'[w])
             /\ \A i \in DOMAIN frames'[w] :
                   /\ frames'[w][i] \in Frame
                   /\ Logged(M, frames'[w][i]) /\ HasFrame(frames'[w][i].kind)
  <2>1. frames'[w] \in Seq(Frame) BY <1>1
  <2>2. \A i \in DOMAIN frames'[w] : frames'[w][i] \in Frame BY <2>1
  <2>3. CASE frames'[w] = frames[w] BY <1>3, <1>5, <2>2, <2>3, Grown DEF IInv, Honest
  <2> QED BY <1>5, <2>2, <2>3 DEF Leaves
<1>7. Honest'
  <2>1. \A i \in DOMAIN queue : Logged(M, queue[i]) BY <1>3, <1>5, Grown, Sizes DEF IInv, Honest
  <2>2. \A i \in DOMAIN out : Logged(M, out[i]) BY <1>3, <1>5, Grown, Sizes DEF IInv, Honest
  <2> QED BY <1>2, <1>4, <1>6, <2>1, <2>2 DEF Honest
<1>8. ASSUME NEW n \in announced'
      PROVE  /\ n \in 1 .. Len(M) /\ HasFrame(M[n])
             /\ n \in announced \/ \E w \in Writers : n \in SeqsOf(frames'[w])
  <2>1. CASE n \in announced
    <3>1. n \in 1 .. Len(log) /\ HasFrame(log[n]) BY <2>1 DEF IInv, Marks
    <3>2. M[n] = log[n] /\ Len(log) <= Len(M) BY <1>5, <3>1 DEF Grows
    <3> QED BY <1>5, <2>1, <3>1, <3>2
  <2>2. CASE n \notin announced
    <3>1. PICK w \in Writers : n \in SeqsOf(frames'[w]) /\ n # 0 BY <1>8, <2>2, Announcing
    <3>2. PICK i \in DOMAIN frames'[w] : frames'[w][i].seq = n BY <3>1 DEF SeqsOf
    <3>3. PICK f : f = frames'[w][i] OBVIOUS
    <3>4. f \in Frame /\ Logged(M, f) /\ HasFrame(f.kind) /\ f.seq = n
      BY <1>6, <3>2, <3>3
    <3>5. n \in 1 .. Len(M) BY <1>5, <3>1, <3>4, FrameParts DEF Logged
    <3> QED BY <3>1, <3>4, <3>5 DEF Logged
  <2> QED BY <2>1, <2>2
<1>9. Marks'
  <2>1. after \in Nat /\ upto \in Nat /\ after <= upto /\ upto <= Len(log)
    BY DEF IInv, Marks, TypeOK
  <2>2. Len(log) <= Len(M) BY <1>5 DEF Grows
  <2>3. upto <= Len(M) BY <1>5, <2>1, <2>2
  <2> QED BY <1>2, <1>4, <1>8, <2>3 DEF IInv, Marks
<1>10. TypeOK'
  <2>1. announced' \subseteq 1 .. Len(M) BY <1>8
  <2> QED BY <1>1, <1>2, <1>4, <2>1 DEF IInv, TypeOK
<1>11. SeqsOf(out') = SeqsOf(out) /\ SeqsOf(queue') = SeqsOf(queue) BY <1>2
<1>12. \A w \in Writers : \A n \in SeqsOf(frames[w]) : n \in SeqsOf(frames'[w])
  BY <1>5 DEF Leaves, SeqsOf
<1>13. ASSUME NEW n, ToCome(n) PROVE ToCome(n)'
  BY <1>2, <1>11, <1>12, <1>13 DEF ToCome, Coming
<1>14. ASSUME NEW n, NEW w \in Writers, n \in SeqsOf(frames'[w]) PROVE ToCome(n)'
  BY <1>14 DEF ToCome, Coming
<1>15. Awaited'
  <2> SUFFICES ASSUME NEW n \in announced', n > after'
               PROVE  /\ stage' = "read" => n <= upto' \/ ToCome(n)'
                      /\ stage' = "live" => ToCome(n)'
    BY DEF Awaited
  <2>1. CASE n \in announced BY <1>2, <1>13, <2>1 DEF IInv, Awaited
  <2> QED BY <1>8, <1>14, <2>1
<1>16. Replayed'
  <2> SUFFICES ASSUME stage = "live", NEW n \in after + 1 .. upto, HasFrame(M[n])
               PROVE  n \in seen \/ (lastSent < n /\ Ahead(n)')
    BY <1>2, <1>4 DEF Replayed
  <2>1. n \in 1 .. Len(log)
    <3>1. after \in Nat /\ upto \in Nat /\ upto <= Len(log) BY DEF IInv, Marks, TypeOK
    <3> QED BY <1>5, <3>1
  <2>2. M[n] = log[n] BY <1>5, <2>1 DEF Grows
  <2>3. n \in seen \/ (lastSent < n /\ Ahead(n)) BY <2>2 DEF IInv, Replayed
  <2> QED BY <1>2, <1>4, <2>2, <2>3 DEF Ahead
<1> QED BY <1>7, <1>9, <1>10, <1>15, <1>16 DEF IInv

--------------------------------------------------------------------------------
(* Frames are published *)

\* A sequence of n frames from the (k+1)-th on.
LEMMA Shift ==
  ASSUME NEW n \in Nat, NEW k \in Nat
  PROVE  /\ n - (k + 1) + 1 = n - k
         /\ \A i \in 1 .. n - k : (k + 1) + i - 1 = k + i
         /\ k <= n /\ ~ (k + 1 <= n) => n - k = 0
         /\ \A i \in 1 .. n : k < i => i - k \in 1 .. n - k /\ k + (i - k) = i
OBVIOUS

LEMMA IntervalSize ==
  ASSUME NEW n \in Nat
  PROVE  IsFiniteSet(1 .. n) /\ Cardinality(1 .. n) = n
<1>1. 1 \in Int /\ n \in Int OBVIOUS
<1>2. IsFiniteSet(1 .. n) /\ Cardinality(1 .. n) = (IF 1 > n THEN 0 ELSE n - 1 + 1)
  BY <1>1, FS_Interval
<1>3. (IF 1 > n THEN 0 ELSE n - 1 + 1) = n OBVIOUS
<1> QED BY <1>2, <1>3

\* What is left of frames that ascend when the old ones are passed over.
LEMMA WantedProperties ==
  ASSUME TypeOK, NEW fs \in Seq(Frame), Ascending(fs)
  PROVE  /\ Wanted(fs) \in Seq(Frame)
         /\ \A i \in DOMAIN Wanted(fs) : \E j \in DOMAIN fs : Wanted(fs)[i] = fs[j]
         /\ \A j \in DOMAIN fs : fs[j].seq > after =>
               \E i \in DOMAIN Wanted(fs) : Wanted(fs)[i] = fs[j]
<1>1. /\ Len(fs) \in Nat /\ DOMAIN fs = 1 .. Len(fs) /\ \A i \in 1 .. Len(fs) : fs[i] \in Frame
  BY LenProperties
<1>2. IsFiniteSet(1 .. Len(fs)) /\ Cardinality(1 .. Len(fs)) = Len(fs) BY <1>1, IntervalSize
<1>3. Old(fs) \subseteq 1 .. Len(fs) BY <1>1 DEF Old
<1>4. PICK k : k = Cardinality(Old(fs)) OBVIOUS
<1>5. k \in Nat /\ k <= Len(fs)
  BY <1>2, <1>3, <1>4, FS_Subset, FS_CardinalityType
<1>6. \A i \in (k + 1) .. Len(fs) : fs[i] \in Frame BY <1>1, <1>5
<1>7. PICK ws : ws = SubSeq(fs, k + 1, Len(fs)) OBVIOUS
<1>8. Wanted(fs) = ws BY <1>4, <1>7 DEF Wanted
<1>9. /\ ws \in Seq(Frame) /\ Len(ws) = Len(fs) - k
      /\ \A i \in 1 .. Len(fs) - k : ws[i] = fs[k + i]
  <2>1. k + 1 \in Int /\ Len(fs) \in Int BY <1>1, <1>5
  <2>2. /\ ws \in Seq(Frame)
        /\ Len(ws) = IF k + 1 <= Len(fs) THEN Len(fs) - (k + 1) + 1 ELSE 0
        /\ \A i \in 1 .. Len(fs) - (k + 1) + 1 : ws[i] = fs[(k + 1) + i - 1]
    BY <1>6, <1>7, <2>1, SubSeqProperties
  <2>3. /\ Len(fs) - (k + 1) + 1 = Len(fs) - k
        /\ \A i \in 1 .. Len(fs) - k : (k + 1) + i - 1 = k + i
        /\ ~ (k + 1 <= Len(fs)) => Len(fs) - k = 0
    BY <1>1, <1>5, Shift
  <2> QED BY <2>2, <2>3
<1>10. DOMAIN ws = 1 .. Len(fs) - k BY <1>9, LenProperties
<1>11. ASSUME NEW i \in DOMAIN ws PROVE \E j \in DOMAIN fs : ws[i] = fs[j]
  <2>1. i \in 1 .. Len(fs) - k BY <1>10
  <2>2. k + i \in 1 .. Len(fs) BY <1>1, <1>5, <2>1
  <2>3. k + i \in DOMAIN fs /\ ws[i] = fs[k + i] BY <1>1, <1>9, <2>1, <2>2
  <2> QED BY <2>3
<1>12. ASSUME NEW j \in DOMAIN fs, fs[j].seq > after PROVE \E i \in DOMAIN ws : ws[i] = fs[j]
  <2>1. after \in Nat BY DEF TypeOK
  <2>2. fs[j].seq \in Nat /\ fs[j].seq # 0 BY <1>1, <1>12, <2>1, FrameParts
  <2>3. Old(fs) \subseteq 1 .. (j - 1)
    <3> SUFFICES ASSUME NEW i \in Old(fs), ~ (i \in 1 .. (j - 1)) PROVE FALSE OBVIOUS
    <3>1. i \in DOMAIN fs /\ fs[i].seq # 0 /\ fs[i].seq <= after BY DEF Old
    <3>2. i = j \/ j < i BY <1>1, <3>1
    <3>3. fs[i].seq \in Nat BY <1>1, <3>1, FrameParts
    <3>4. CASE i = j BY <1>12, <2>1, <2>2, <3>1, <3>4
    <3>5. CASE j < i
      <4>1. fs[j].seq < fs[i].seq BY <2>2, <3>1, <3>5 DEF Ascending
      <4> QED BY <1>12, <2>1, <2>2, <3>1, <3>3, <4>1
    <3> QED BY <3>2, <3>4, <3>5
  <2>4. j \in 1 .. Len(fs) BY <1>1
  <2>5. j - 1 \in Nat /\ Cardinality(1 .. (j - 1)) = j - 1 /\ IsFiniteSet(1 .. (j - 1))
    BY <1>1, <2>4, IntervalSize
  <2>6. k <= j - 1 BY <1>4, <2>3, <2>5, FS_Subset
  <2>7. j - k \in 1 .. Len(fs) - k /\ k + (j - k) = j BY <1>1, <1>5, <2>4, <2>6
  <2> QED BY <1>9, <1>10, <2>7
<1> QED BY <1>8, <1>9, <1>11, <1>12

\* What is offered to the queue q is in it, or is dropped, and nothing else is.
Offered(q, ws, dropped, r) ==
    /\ r \in Seq(Frame) /\ Len(r) <= QueueMax
    /\ \A i \in DOMAIN r : (\E j \in DOMAIN q : r[i] = q[j]) \/ (\E j \in DOMAIN ws : r[i] = ws[j])
    /\ \A i \in DOMAIN q : \E j \in DOMAIN r : r[j] = q[i]
    /\ \A i \in DOMAIN ws : (\E j \in DOMAIN r : r[j] = ws[i]) \/ ws[i].seq \in SeqsOf(dropped)
    /\ SeqsOf(dropped) \subseteq Nat

LEMMA OfferProperties ==
  ASSUME NEW q \in Seq(Frame), Len(q) <= QueueMax, NEW ws \in Seq(Frame),
         NEW room, room = QueueMax - Len(q),
         NEW r, r = q \o SubSeq(ws, 1, IF Len(ws) < room THEN Len(ws) ELSE room)
  PROVE  Offered(q, ws, SubSeq(ws, room + 1, Len(ws)), r)
<1>1. /\ Len(q) \in Nat /\ DOMAIN q = 1 .. Len(q)
      /\ Len(ws) \in Nat /\ DOMAIN ws = 1 .. Len(ws) /\ \A i \in 1 .. Len(ws) : ws[i] \in Frame
  BY LenProperties
<1>2. room \in Nat BY <1>1, StreamAssumption
<1>3. PICK m : m = IF Len(ws) < room THEN Len(ws) ELSE room OBVIOUS
<1>4. m \in Nat /\ m <= Len(ws) /\ m <= room BY <1>1, <1>2, <1>3
<1>5. PICK a : a = SubSeq(ws, 1, m) OBVIOUS
<1>6. /\ a \in Seq(Frame) /\ Len(a) = m /\ \A i \in 1 .. m : a[i] = ws[i]
  <2>1. \A i \in 1 .. m : ws[i] \in Frame BY <1>1, <1>4
  <2>2. 1 \in Int /\ m \in Int BY <1>4
  <2>3. /\ a \in Seq(Frame) /\ Len(a) = (IF 1 <= m THEN m - 1 + 1 ELSE 0)
        /\ \A i \in 1 .. m - 1 + 1 : a[i] = ws[1 + i - 1]
    BY <1>5, <2>1, <2>2, SubSeqProperties
  <2> QED BY <1>4, <2>3
<1>7. PICK b : b = SubSeq(ws, room + 1, Len(ws)) OBVIOUS
<1>8. /\ b \in Seq(Frame) /\ Len(b) = (IF room + 1 <= Len(ws) THEN Len(ws) - room ELSE 0)
      /\ \A i \in 1 .. Len(ws) - room : b[i] = ws[room + i]
  <2>1. \A i \in (room + 1) .. Len(ws) : ws[i] \in Frame BY <1>1, <1>2
  <2>2. room + 1 \in Int /\ Len(ws) \in Int BY <1>1, <1>2
  <2>3. /\ b \in Seq(Frame)
        /\ Len(b) = (IF room + 1 <= Len(ws) THEN Len(ws) - (room + 1) + 1 ELSE 0)
        /\ \A i \in 1 .. Len(ws) - (room + 1) + 1 : b[i] = ws[(room + 1) + i - 1]
    BY <1>7, <2>1, <2>2, SubSeqProperties
  <2>4. /\ Len(ws) - (room + 1) + 1 = Len(ws) - room
        /\ \A i \in 1 .. Len(ws) - room : (room + 1) + i - 1 = room + i
    BY <1>1, <1>2
  <2> QED BY <2>3, <2>4
<1>9. r = q \o a BY <1>3, <1>5
<1>10. /\ r \in Seq(Frame) /\ Len(r) = Len(q) + m /\ DOMAIN r = 1 .. Len(q) + m
       /\ \A i \in 1 .. Len(q) + m : r[i] = IF i <= Len(q) THEN q[i] ELSE a[i - Len(q)]
  <2>1. /\ r \in Seq(Frame) /\ Len(r) = Len(q) + Len(a)
        /\ \A i \in 1 .. Len(q) + Len(a) : r[i] = IF i <= Len(q) THEN q[i] ELSE a[i - Len(q)]
    <3>1. a \in Seq(Frame) BY <1>6
    <3>2. /\ q \o a \in Seq(Frame) /\ Len(q \o a) = Len(q) + Len(a)
          /\ \A i \in 1 .. Len(q) + Len(a) :
                (q \o a)[i] = IF i <= Len(q) THEN q[i] ELSE a[i - Len(q)]
      BY <3>1, ConcatProperties
    <3> QED BY <1>9, <3>2
  <2>2. Len(a) = m BY <1>6
  <2>3. DOMAIN r = 1 .. Len(r) BY <2>1, LenProperties
  <2> QED BY <2>1, <2>2, <2>3
<1>11. Len(r) <= QueueMax BY <1>1, <1>2, <1>4, <1>10, StreamAssumption
<1>12. ASSUME NEW i \in DOMAIN r
       PROVE  (\E j \in DOMAIN q : r[i] = q[j]) \/ (\E j \in DOMAIN ws : r[i] = ws[j])
  <2>1. CASE i <= Len(q) BY <1>1, <1>10, <2>1
  <2>2. CASE ~ (i <= Len(q))
    <3>1. i - Len(q) \in 1 .. m /\ i - Len(q) \in 1 .. Len(ws) BY <1>1, <1>4, <1>10, <2>2
    <3>2. r[i] = ws[i - Len(q)] BY <1>6, <1>10, <2>2, <3>1
    <3> QED BY <1>1, <3>1, <3>2
  <2> QED BY <2>1, <2>2
<1>13. ASSUME NEW i \in DOMAIN q PROVE \E j \in DOMAIN r : r[j] = q[i]
  <2>1. i \in 1 .. Len(q) + m /\ i <= Len(q) BY <1>1, <1>4
  <2> QED BY <1>10, <2>1
<1>14. ASSUME NEW i \in DOMAIN ws
       PROVE  (\E j \in DOMAIN r : r[j] = ws[i]) \/ ws[i].seq \in SeqsOf(b)
  <2>1. CASE i <= m
    <3>1. Len(q) + i \in 1 .. Len(q) + m /\ ~ (Len(q) + i <= Len(q)) /\ (Len(q) + i) - Len(q) = i
          /\ i \in 1 .. m
      BY <1>1, <1>4, <2>1
    <3>2. r[Len(q) + i] = ws[i] BY <1>6, <1>10, <3>1
    <3> QED BY <1>10, <3>1, <3>2
  <2>2. CASE ~ (i <= m)
    <3>1. m = room BY <1>1, <1>2, <1>3, <2>2
    <3>2. i - room \in 1 .. Len(ws) - room /\ room + (i - room) = i
      <4>1. i \in 1 .. Len(ws) /\ i \in Nat /\ Len(ws) \in Nat BY <1>1
      <4>2. room < i BY <1>2, <2>2, <3>1, <4>1
      <4> QED BY <1>2, <4>1, <4>2, Shift
    <3>3. b[i - room] = ws[i] BY <1>8, <3>2
    <3>4. i - room \in DOMAIN b
      <4>1. Len(b) = Len(ws) - room BY <1>1, <1>2, <1>8, <2>2, <3>1
      <4> QED BY <1>8, <3>2, <4>1, LenProperties
    <3> QED BY <3>3, <3>4 DEF SeqsOf
  <2> QED BY <2>1, <2>2
<1>15. SeqsOf(b) \subseteq Nat BY <1>8, FrameParts DEF SeqsOf
<1> QED BY <1>7, <1>10, <1>11, <1>12, <1>13, <1>14, <1>15 DEF Offered

LEMMA PublishInvariant ==
  ASSUME IInv, NEW w \in Writers, Publish(w)
  PROVE  IInv'
<1>1. TypeOK /\ frames \in [Writers -> Seq(Frame)] BY DEF IInv, TypeOK, LogTypeOK
<1>2. /\ frames' = [frames EXCEPT ![w] = <<>>]
      /\ UNCHANGED <<log, status, round, pump, fence, unsaved>>
      /\ UNCHANGED <<announced, stage, after, upto, out, lastSent, seen>>
  BY DEF Publish, Published, taskVars, pumpVars
<1>3. /\ frames' \in [Writers -> Seq(Frame)]
      /\ \A v \in Writers : frames'[v] = IF v = w THEN <<>> ELSE frames[v]
  BY <1>1, <1>2
<1>4. PICK fs : fs = frames[w] OBVIOUS
<1>5. /\ fs \in Seq(Frame) /\ Ascending(fs)
      /\ \A j \in DOMAIN fs : Logged(log, fs[j])
  BY <1>1, <1>4 DEF IInv, Honest
<1>6. PICK ws : ws = Wanted(fs) OBVIOUS
<1>7. /\ ws \in Seq(Frame)
      /\ \A i \in DOMAIN ws : \E j \in DOMAIN fs : ws[i] = fs[j]
      /\ \A j \in DOMAIN fs : fs[j].seq > after => \E i \in DOMAIN ws : ws[i] = fs[j]
  BY <1>1, <1>5, <1>6, WantedProperties
<1>8. queue \in Seq(Frame) /\ Len(queue) <= QueueMax /\ lost \subseteq Nat BY <1>1 DEF TypeOK
<1>9. /\ queue' \in Seq(Frame) /\ Len(queue') <= QueueMax
      /\ lost' \subseteq Nat /\ lost \subseteq lost'
      /\ \A i \in DOMAIN queue' : Logged(log, queue'[i])
      /\ \A i \in DOMAIN queue : \E j \in DOMAIN queue' : queue'[j] = queue[i]
      /\ stage # "closed" =>
            \A i \in DOMAIN ws : (\E j \in DOMAIN queue' : queue'[j] = ws[i]) \/ ws[i].seq \in lost'
  <2>1. CASE stage = "closed"
    <3>1. queue' = queue /\ lost' = lost BY <2>1 DEF Publish, Subscribed
    <3> QED BY <1>8, <2>1, <3>1 DEF IInv, Honest
  <2>2. CASE stage # "closed"
    <3>1. PICK room : room = QueueMax - Len(queue) OBVIOUS
    <3>2. PICK dropped : dropped = SubSeq(ws, room + 1, Len(ws)) OBVIOUS
    <3>3. /\ queue' = queue \o SubSeq(ws, 1, IF Len(ws) < room THEN Len(ws) ELSE room)
          /\ lost' = lost \cup SeqsOf(dropped)
      BY <1>4, <1>6, <2>2, <3>1, <3>2 DEF Publish, Subscribed
    <3>4. PICK q : q = queue' OBVIOUS
    <3>5. q = queue \o SubSeq(ws, 1, IF Len(ws) < room THEN Len(ws) ELSE room) BY <3>3, <3>4
    <3>6. Offered(queue, ws, dropped, q) BY <1>7, <1>8, <3>1, <3>2, <3>5, OfferProperties
    <3>7. \A i \in DOMAIN q : Logged(log, q[i])
      BY <1>5, <1>7, <3>6 DEF IInv, Honest, Offered
    <3> QED BY <1>8, <3>3, <3>4, <3>6, <3>7 DEF Offered
  <2> QED BY <2>1, <2>2
<1>10. TypeOK' BY <1>2, <1>3, <1>9 DEF IInv, TypeOK, LogTypeOK
<1>11. Honest'
  <2>1. ASSUME NEW v \in Writers
        PROVE  /\ Ascending(frames'[v])
               /\ \A i \in DOMAIN frames'[v] :
                     Logged(log, frames'[v][i]) /\ HasFrame(frames'[v][i].kind)
    BY <1>3 DEF IInv, Honest, Ascending
  <2>2. \A i \in DOMAIN out : Logged(log, out[i]) BY DEF IInv, Honest
  <2> QED BY <1>2, <1>9, <2>1, <2>2 DEF Honest
<1>12. Marks' BY <1>2 DEF IInv, Marks
<1>13. ASSUME NEW n \in announced, n > after, stage # "closed", ToCome(n) PROVE ToCome(n)'
  <2>1. CASE n \in seen \cup lost \cup SeqsOf(out)
    BY <1>2, <1>9, <2>1 DEF ToCome, Coming
  <2>2. CASE n \in SeqsOf(queue)
    <3>1. n \in SeqsOf(queue') BY <1>9, <2>2 DEF SeqsOf
    <3> QED BY <3>1 DEF ToCome, Coming
  <2>3. ASSUME NEW v \in Writers, n \in SeqsOf(frames[v]) PROVE ToCome(n)'
    <3>1. CASE v # w
      <4>1. n \in SeqsOf(frames'[v]) BY <1>3, <2>3, <3>1
      <4> QED BY <4>1 DEF ToCome, Coming
    <3>2. CASE v = w
      <4>1. PICK j \in DOMAIN fs : fs[j].seq = n BY <1>4, <2>3, <3>2 DEF SeqsOf
      <4>2. PICK i \in DOMAIN ws : ws[i] = fs[j] BY <1>7, <1>13, <4>1
      <4>3. CASE n \in lost' BY <4>3 DEF ToCome
      <4>4. CASE \E k \in DOMAIN queue' : queue'[k] = ws[i]
        <5>1. n \in SeqsOf(queue') BY <4>1, <4>2, <4>4 DEF SeqsOf
        <5> QED BY <5>1 DEF ToCome, Coming
      <4> QED BY <1>9, <1>13, <4>1, <4>2, <4>3, <4>4
    <3> QED BY <3>1, <3>2
  <2> QED BY <1>13, <2>1, <2>2, <2>3 DEF ToCome, Coming
<1>14. Awaited'
  <2> SUFFICES ASSUME NEW n \in announced, n > after
               PROVE  /\ stage = "read" => n <= upto \/ ToCome(n)'
                      /\ stage = "live" => ToCome(n)'
    BY <1>2 DEF Awaited
  <2> QED BY <1>13 DEF IInv, Awaited
<1>15. Replayed' BY <1>2 DEF IInv, Replayed, Ahead
<1> QED BY <1>10, <1>11, <1>12, <1>14, <1>15 DEF IInv

--------------------------------------------------------------------------------
(* The stream *)

\* Nothing the writers see changes.
LEMMA SameWriters ==
  ASSUME UNCHANGED <<logVars, announced>>
  PROVE  UNCHANGED <<log, status, round, pump, fence, unsaved, frames, announced>>
BY DEF logVars, taskVars, pumpVars

LEMMA OpenInvariant ==
  ASSUME IInv, NEW n \in 0 .. Len(log), Register(n) \/ Close
  PROVE  IInv'
<1>1. UNCHANGED <<log, status, round, pump, fence, unsaved, frames, announced>>
  BY SameWriters DEF Register, Close
<1>2. TypeOK /\ Len(log) \in Nat BY Sizes DEF IInv
<1>3. PICK m \in 0 .. Len(log) : after' = m /\ upto' = m /\ lastSent' = m
  BY <1>2 DEF Register, Close
<1>4. /\ stage' \in {"registered", "closed"} /\ queue' = <<>> /\ out' = <<>>
      /\ seen' = {} /\ lost' = {}
  BY DEF Register, Close
<1>5. m \in Nat /\ m <= Len(log) BY <1>2
<1>6. TypeOK'
  <2>1. <<>> \in Seq(Frame) /\ Len(<<>>) <= QueueMax BY StreamAssumption
  <2> QED BY <1>1, <1>3, <1>4, <1>5, <2>1 DEF IInv, TypeOK, LogTypeOK
<1>7. Honest' BY <1>1, <1>4 DEF IInv, Honest
<1>8. Marks' BY <1>1, <1>3, <1>4, <1>5 DEF IInv, Marks
<1>9. Awaited' /\ Replayed' BY <1>4 DEF Awaited, Replayed
<1> QED BY <1>6, <1>7, <1>8, <1>9 DEF IInv

LEMMA ReadInvariant ==
  ASSUME IInv, ReadReplay
  PROVE  IInv'
<1>1. UNCHANGED <<log, status, round, pump, fence, unsaved, frames, announced>>
  BY SameWriters DEF ReadReplay
<1>2. TypeOK /\ Len(log) \in Nat BY Sizes DEF IInv
<1>3. /\ stage = "registered" /\ stage' = "read"
      /\ upto' = (IF Len(log) > after THEN Len(log) ELSE after)
      /\ UNCHANGED <<after, queue, out, lastSent, seen, lost>>
  BY DEF ReadReplay
<1>4. after \in Nat /\ after <= Len(log)
  <2>1. after \in Nat /\ upto \in Nat /\ after <= upto /\ upto <= Len(log)
    BY DEF IInv, TypeOK, Marks
  <2> QED BY <1>2, <2>1
<1>5. upto' = Len(log) BY <1>2, <1>3, <1>4
<1>6. TypeOK' BY <1>1, <1>2, <1>3, <1>5 DEF TypeOK, LogTypeOK
<1>7. Honest' BY <1>1, <1>3 DEF IInv, Honest
<1>8. Marks' BY <1>1, <1>2, <1>3, <1>4, <1>5 DEF IInv, Marks
<1>9. Awaited' BY <1>1, <1>2, <1>3, <1>5 DEF IInv, Marks, Awaited
<1>10. Replayed' BY <1>3 DEF Replayed
<1> QED BY <1>6, <1>7, <1>8, <1>9, <1>10 DEF IInv

LEMMA ReplayProperties ==
  ASSUME IInv
  PROVE  /\ Replay \in Seq(Frame) /\ Len(Replay) = upto - after
         /\ \A i \in 1 .. upto - after : /\ Replay[i].seq = after + i
                                         /\ Replay[i].kind = log[after + i]
                                         /\ after + i \in 1 .. Len(log)
<1>1. log \in Seq(Kinds) /\ Len(log) \in Nat BY Sizes DEF IInv, TypeOK, LogTypeOK
<1>2. after \in Nat /\ upto \in Nat /\ after <= upto /\ upto <= Len(log)
  BY DEF IInv, TypeOK, Marks
<1>3. upto - after \in Nat BY <1>2
<1>4. \A i \in 1 .. upto - after : after + i \in 1 .. Len(log) BY <1>1, <1>2
<1>5. \A i \in 1 .. upto - after : after + i \in Nat /\ log[after + i] \in Kinds
  BY <1>1, <1>2, <1>4, ElementOfSeq
<1>6. \A i \in 1 .. upto - after : [seq |-> after + i, kind |-> log[after + i]] \in Frame
  BY <1>5 DEF Frame
<1>7. /\ DOMAIN Replay = 1 .. upto - after
      /\ \A i \in 1 .. upto - after : /\ Replay[i] \in Frame
                                      /\ Replay[i].seq = after + i
                                      /\ Replay[i].kind = log[after + i]
  BY <1>6 DEF Replay
<1>8. Replay \in Seq(Frame) /\ Len(Replay) = upto - after
  BY <1>3, <1>6 DEF Replay
<1> QED BY <1>4, <1>7, <1>8

LEMMA MergeInvariant ==
  ASSUME IInv, Merge
  PROVE  IInv'
<1>1. UNCHANGED <<log, status, round, pump, fence, unsaved, frames, announced>>
  BY SameWriters DEF Merge
<1>2. TypeOK /\ Len(log) \in Nat /\ Len(queue) \in Nat /\ DOMAIN queue = 1 .. Len(queue)
      /\ queue \in Seq(Frame) /\ \A i \in DOMAIN queue : queue[i] \in Frame
  BY Sizes DEF IInv, TypeOK
<1>3. /\ stage = "read" /\ stage' = "live" /\ queue' = <<>>
      /\ UNCHANGED <<after, upto, lastSent, seen, lost>>
  BY DEF Merge
<1>4. after \in Nat /\ upto \in Nat /\ after <= upto /\ upto <= Len(log) /\ lastSent = after
  BY <1>3 DEF IInv, TypeOK, Marks
<1>5. PICK rs : rs = Replay OBVIOUS
<1>6. PICK m : m = upto - after OBVIOUS
<1>7. /\ m \in Nat /\ rs \in Seq(Frame) /\ Len(rs) = m
      /\ \A i \in 1 .. m : /\ rs[i].seq = after + i /\ rs[i].kind = log[after + i]
                           /\ after + i \in 1 .. Len(log)
  BY <1>4, <1>5, <1>6, ReplayProperties
<1>8. PICK o : o = out' OBVIOUS
<1>9. o = rs \o queue BY <1>5, <1>8 DEF Merge
<1>10. /\ o \in Seq(Frame) /\ DOMAIN o = 1 .. m + Len(queue)
       /\ \A i \in 1 .. m + Len(queue) : o[i] = IF i <= m THEN rs[i] ELSE queue[i - m]
  <2>1. /\ rs \o queue \in Seq(Frame) /\ Len(rs \o queue) = Len(rs) + Len(queue)
        /\ \A i \in 1 .. Len(rs) + Len(queue) :
              (rs \o queue)[i] = IF i <= Len(rs) THEN rs[i] ELSE queue[i - Len(rs)]
    BY <1>2, <1>7, ConcatProperties
  <2>2. DOMAIN o = 1 .. Len(o) BY <1>9, <2>1, LenProperties
  <2> QED BY <1>7, <1>9, <2>1, <2>2
<1>11. ASSUME NEW i \in DOMAIN o PROVE Logged(log, o[i])
  <2>1. i \in 1 .. m + Len(queue) BY <1>10
  <2>2. CASE i <= m
    <3>1. i \in 1 .. m /\ o[i] = rs[i] BY <1>7, <1>10, <2>1, <2>2
    <3> QED BY <1>2, <1>7, <3>1 DEF Logged
  <2>3. CASE ~ (i <= m)
    <3>1. i - m \in 1 .. Len(queue) /\ o[i] = queue[i - m] BY <1>2, <1>7, <1>10, <2>1, <2>3
    <3> QED BY <1>2, <3>1 DEF IInv, Honest
  <2> QED BY <2>2, <2>3
<1>12. TypeOK'
  <2>1. <<>> \in Seq(Frame) /\ Len(<<>>) <= QueueMax BY StreamAssumption
  <2> QED BY <1>1, <1>3, <1>8, <1>10, <2>1 DEF IInv, TypeOK, LogTypeOK
<1>13. Honest' BY <1>1, <1>3, <1>8, <1>11 DEF IInv, Honest
<1>14. Marks' BY <1>1, <1>3 DEF IInv, Marks
<1>15. ASSUME NEW n \in after + 1 .. upto
       PROVE  /\ lastSent < n /\ n - after \in DOMAIN o
              /\ o[n - after].seq = n /\ o[n - after].kind = log[n]
              /\ \A j \in 1 .. (n - after) - 1 : o[j].seq < n
  <2>1. n \in Nat /\ n - after \in 1 .. m /\ after + (n - after) = n BY <1>4, <1>6
  <2>2. n - after \in 1 .. m + Len(queue) /\ n - after <= m BY <1>2, <1>7, <2>1
  <2>3. o[n - after] = rs[n - after] BY <1>10, <2>2
  <2>4. lastSent < n BY <1>4
  <2>5. ASSUME NEW j \in 1 .. (n - after) - 1 PROVE o[j].seq < n
    <3>1. j \in 1 .. m /\ j \in 1 .. m + Len(queue) /\ j <= m /\ after + j < n
      BY <1>2, <1>4, <1>7, <2>1
    <3> QED BY <1>7, <1>10, <3>1
  <2> QED BY <1>7, <1>10, <2>1, <2>2, <2>3, <2>4, <2>5
<1>16. SeqsOf(queue) \subseteq SeqsOf(o)
  <2> SUFFICES ASSUME NEW i \in DOMAIN queue PROVE \E j \in DOMAIN o : o[j].seq = queue[i].seq
    BY DEF SeqsOf
  <2>1. /\ m + i \in 1 .. m + Len(queue) /\ ~ (m + i <= m) /\ (m + i) - m = i
    BY <1>2, <1>7
  <2> QED BY <1>10, <2>1
<1>17. Awaited'
  <2> SUFFICES ASSUME NEW n \in announced, n > after PROVE ToCome(n)'
    BY <1>1, <1>3 DEF Awaited
  <2>1. out = <<>> BY <1>3 DEF IInv, Marks
  <2>2. n \in Nat BY <1>2 DEF TypeOK
  <2>3. CASE n <= upto
    <3>1. n \in after + 1 .. upto BY <1>4, <2>2, <2>3
    <3>2. n \in SeqsOf(o) BY <1>15, <3>1 DEF SeqsOf
    <3> QED BY <1>8, <3>2 DEF ToCome, Coming
  <2>4. CASE ToCome(n)
    <3>1. n \notin SeqsOf(out) BY <2>1 DEF SeqsOf
    <3>2. \/ n \in seen \cup lost \/ n \in SeqsOf(queue)
          \/ n \in UNION {SeqsOf(frames[w]) : w \in Writers}
      BY <2>4, <3>1 DEF ToCome, Coming
    <3>3. CASE n \in seen \cup lost BY <1>3, <3>3 DEF ToCome
    <3>4. CASE n \in SeqsOf(queue)
      <4>1. n \in SeqsOf(o) BY <1>16, <3>4
      <4> QED BY <1>8, <4>1 DEF ToCome, Coming
    <3>5. CASE n \in UNION {SeqsOf(frames[w]) : w \in Writers}
      <4>1. frames' = frames BY <1>1
      <4> QED BY <3>5, <4>1 DEF ToCome, Coming
    <3> QED BY <3>2, <3>3, <3>4, <3>5
  <2> QED BY <1>3, <2>3, <2>4 DEF IInv, Awaited
<1>18. Replayed'
  <2> SUFFICES ASSUME NEW n \in after + 1 .. upto PROVE lastSent < n /\ Ahead(n)'
    BY <1>1, <1>3 DEF Replayed
  <2> QED BY <1>1, <1>8, <1>15 DEF Ahead
<1> QED BY <1>12, <1>13, <1>14, <1>17, <1>18 DEF IInv

\* Head and tail of a queue.
LEMMA Taken ==
  ASSUME NEW q \in Seq(Frame), q # <<>>
  PROVE  /\ Head(q) = q[1] /\ Head(q) \in Frame /\ 1 \in DOMAIN q
         /\ Tail(q) \in Seq(Frame) /\ Len(q) \in Nat /\ Len(Tail(q)) = Len(q) - 1
         /\ DOMAIN q = 1 .. Len(q) /\ DOMAIN Tail(q) = 1 .. Len(q) - 1
         /\ \A i \in DOMAIN Tail(q) : i + 1 \in DOMAIN q /\ Tail(q)[i] = q[i + 1]
         /\ \A n \in SeqsOf(q) : n = q[1].seq \/ n \in SeqsOf(Tail(q))
<1>1. /\ Len(q) \in Nat \ {0} /\ DOMAIN q = 1 .. Len(q) BY EmptySeq, LenProperties
<1>2. PICK t : t = Tail(q) OBVIOUS
<1>3. /\ Head(q) \in Frame /\ t \in Seq(Frame) /\ Len(t) = Len(q) - 1
      /\ \A i \in 1 .. Len(t) : t[i] = q[i + 1]
  BY <1>2, HeadTailProperties
<1>4. Head(q) = q[1] OBVIOUS
<1>5. DOMAIN t = 1 .. Len(q) - 1 BY <1>3, LenProperties
<1>6. \A i \in DOMAIN t : i + 1 \in DOMAIN q /\ t[i] = q[i + 1] BY <1>1, <1>3, <1>5
<1>7. ASSUME NEW n \in SeqsOf(q) PROVE n = q[1].seq \/ n \in SeqsOf(t)
  <2>1. PICK i \in DOMAIN q : q[i].seq = n BY <1>7 DEF SeqsOf
  <2>2. CASE i = 1 BY <2>1, <2>2
  <2>3. CASE i # 1
    <3>1. i - 1 \in DOMAIN t /\ (i - 1) + 1 = i BY <1>1, <1>5, <2>1, <2>3
    <3>2. t[i - 1] = q[i] BY <1>6, <3>1
    <3> QED BY <2>1, <3>1, <3>2 DEF SeqsOf
  <2> QED BY <2>2, <2>3
<1> QED BY <1>1, <1>2, <1>3, <1>4, <1>5, <1>6, <1>7

LEMMA FrameInvariant ==
  ASSUME IInv, NextFrame
  PROVE  IInv'
<1>1. UNCHANGED <<log, status, round, pump, fence, unsaved, frames, announced>>
  BY SameWriters DEF NextFrame
<1>2. /\ stage = "live" /\ out = <<>> /\ queue # <<>>
      /\ out' = <<Head(queue)>> /\ queue' = Tail(queue)
      /\ UNCHANGED <<stage, after, upto, lastSent, seen, lost>>
  BY DEF NextFrame
<1>3. queue \in Seq(Frame) /\ Len(queue) <= QueueMax BY DEF IInv, TypeOK
<1>4. PICK f, t : f = Head(queue) /\ t = Tail(queue) OBVIOUS
<1>5. /\ f = queue[1] /\ f \in Frame /\ 1 \in DOMAIN queue
      /\ t \in Seq(Frame) /\ Len(queue) \in Nat /\ Len(t) = Len(queue) - 1
      /\ \A i \in DOMAIN t : i + 1 \in DOMAIN queue /\ t[i] = queue[i + 1]
      /\ \A n \in SeqsOf(queue) : n = f.seq \/ n \in SeqsOf(t)
  BY <1>2, <1>3, <1>4, Taken
<1>6. /\ <<f>> \in Seq(Frame) /\ DOMAIN <<f>> = {1} /\ <<f>>[1] = f BY <1>5
<1>7. TypeOK'
  <2>1. Len(t) <= QueueMax BY <1>3, <1>5, StreamAssumption
  <2> QED BY <1>1, <1>2, <1>4, <1>5, <1>6, <2>1 DEF IInv, TypeOK, LogTypeOK
<1>8. Honest'
  <2>1. \A i \in DOMAIN t : Logged(log, t[i]) BY <1>5 DEF IInv, Honest
  <2>2. \A i \in DOMAIN <<f>> : Logged(log, <<f>>[i]) BY <1>5, <1>6 DEF IInv, Honest
  <2> QED BY <1>1, <1>2, <1>4, <2>1, <2>2 DEF IInv, Honest
<1>9. Marks' BY <1>1, <1>2 DEF IInv, Marks
<1>10. Awaited'
  <2> SUFFICES ASSUME NEW n \in announced, n > after, ToCome(n) PROVE ToCome(n)'
    BY <1>1, <1>2 DEF IInv, Awaited
  <2>1. n \notin SeqsOf(out) BY <1>2 DEF SeqsOf
  <2>2. CASE n \in seen \cup lost BY <1>2, <2>2 DEF ToCome
  <2>3. CASE n \in UNION {SeqsOf(frames[w]) : w \in Writers}
    <3>1. frames' = frames BY <1>1
    <3> QED BY <2>3, <3>1 DEF ToCome, Coming
  <2>4. CASE n \in SeqsOf(queue)
    <3>1. n \in SeqsOf(t) \/ n \in SeqsOf(<<f>>) BY <1>5, <1>6, <2>4 DEF SeqsOf
    <3>2. n \in SeqsOf(queue') \/ n \in SeqsOf(out') BY <1>2, <1>4, <3>1
    <3> QED BY <3>2 DEF ToCome, Coming
  <2> QED BY <2>1, <2>2, <2>3, <2>4 DEF ToCome, Coming
<1>11. Replayed'
  <2> SUFFICES ASSUME NEW n \in after + 1 .. upto, HasFrame(log[n]) PROVE n \in seen
    BY <1>1, <1>2 DEF Replayed
  <2>1. ~ Ahead(n) BY <1>2 DEF Ahead
  <2> QED BY <1>2, <2>1 DEF IInv, Replayed
<1> QED BY <1>7, <1>8, <1>9, <1>10, <1>11 DEF IInv

LEMMA YieldInvariant ==
  ASSUME IInv, Yield
  PROVE  IInv'
<1>1. UNCHANGED <<log, status, round, pump, fence, unsaved, frames, announced>>
  BY SameWriters DEF Yield
<1>2. /\ stage = "live" /\ out # <<>> /\ out' = Tail(out)
      /\ UNCHANGED <<stage, after, upto, queue>>
  BY DEF Yield
<1>3. out \in Seq(Frame) /\ lastSent \in Nat /\ after \in Nat /\ upto \in Nat
      /\ seen \subseteq Nat /\ lost \subseteq Nat
  BY DEF IInv, TypeOK
<1>4. PICK f, t : f = Head(out) /\ t = Tail(out) OBVIOUS
<1>5. /\ f = out[1] /\ f \in Frame /\ 1 \in DOMAIN out
      /\ t \in Seq(Frame) /\ DOMAIN out = 1 .. Len(out) /\ Len(out) \in Nat
      /\ DOMAIN t = 1 .. Len(out) - 1
      /\ \A i \in DOMAIN t : i + 1 \in DOMAIN out /\ t[i] = out[i + 1]
      /\ \A n \in SeqsOf(out) : n = f.seq \/ n \in SeqsOf(t)
  BY <1>2, <1>3, <1>4, Taken
<1>6. f.seq \in Nat BY <1>5, FrameParts
<1>7. \/ /\ f.seq # 0 /\ HasFrame(f.kind) /\ ~ Repeated(f)
         /\ lastSent' = f.seq /\ seen' = seen \cup {f.seq} /\ lost' = lost
      \/ /\ ~ (f.seq # 0 /\ HasFrame(f.kind) /\ ~ Repeated(f))
         /\ lastSent' = lastSent /\ seen' = seen
         /\ lost' = IF Repeated(f) /\ f.seq \notin seen THEN lost \cup {f.seq} ELSE lost
  BY <1>4 DEF Yield
<1>8. lastSent' \in Nat /\ seen' \subseteq Nat /\ lost' \subseteq Nat
  BY <1>3, <1>6, <1>7
<1>9. seen \subseteq seen' /\ lost \subseteq lost' BY <1>7
<1>10. TypeOK' BY <1>1, <1>2, <1>4, <1>5, <1>8 DEF IInv, TypeOK, LogTypeOK
<1>11. Honest'
  <2>1. \A i \in DOMAIN t : Logged(log, t[i]) BY <1>5 DEF IInv, Honest
  <2> QED BY <1>1, <1>2, <1>4, <2>1 DEF IInv, Honest
<1>12. Marks' BY <1>1, <1>2 DEF IInv, Marks
\* A frame that has its turn is sent, or was, or counts as lost.
<1>13. ASSUME f.seq # 0, HasFrame(f.kind) PROVE f.seq \in seen' \cup lost'
  BY <1>7, <1>9, <1>13
<1>14. Awaited'
  <2> SUFFICES ASSUME NEW n \in announced, n > after, ToCome(n) PROVE ToCome(n)'
    BY <1>1, <1>2 DEF IInv, Awaited
  <2>1. CASE n \in seen \cup lost BY <1>9, <2>1 DEF ToCome
  <2>2. CASE n \in UNION {SeqsOf(frames[w]) : w \in Writers}
    <3>1. frames' = frames BY <1>1
    <3> QED BY <2>2, <3>1 DEF ToCome, Coming
  <2>3. CASE n \in SeqsOf(queue)
    <3>1. queue' = queue BY <1>2
    <3> QED BY <2>3, <3>1 DEF ToCome, Coming
  <2>4. CASE n \in SeqsOf(t) BY <1>2, <1>4, <2>4 DEF ToCome, Coming
  <2>5. CASE n = f.seq
    <3>1. n \in 1 .. Len(log) /\ HasFrame(log[n]) BY DEF IInv, Marks
    <3>2. Logged(log, f) BY <1>5 DEF IInv, Honest
    <3>3. Len(log) \in Nat BY Sizes DEF IInv
    <3>4. f.seq # 0 /\ f.kind = log[n] BY <2>5, <3>1, <3>2, <3>3 DEF Logged
    <3>5. n \in seen' \cup lost' BY <1>13, <2>5, <3>1, <3>4
    <3> QED BY <3>5 DEF ToCome
  <2> QED BY <1>5, <2>1, <2>2, <2>3, <2>4, <2>5 DEF ToCome, Coming
<1>15. Replayed'
  <2> SUFFICES ASSUME NEW n \in after + 1 .. upto, HasFrame(log[n]), n \notin seen
               PROVE  n \in seen' \/ (lastSent' < n /\ Ahead(n)')
    BY <1>1, <1>2, <1>9 DEF Replayed
  <2>1. lastSent < n /\ Ahead(n) BY <1>2 DEF IInv, Replayed
  <2>2. PICK i \in DOMAIN out : /\ out[i].seq = n /\ out[i].kind = log[n]
                                /\ \A j \in 1 .. i - 1 : out[j].seq < n
    BY <2>1 DEF Ahead
  <2>3. n \in Nat /\ n # 0 BY <1>3
  <2>4. CASE i = 1
    <3>1. f.seq = n /\ HasFrame(f.kind) /\ ~ Repeated(f)
      BY <1>3, <1>5, <2>1, <2>2, <2>3, <2>4 DEF Repeated
    <3> QED BY <1>7, <2>3, <3>1
  <2>5. CASE i # 1
    <3>1. i \in 2 .. Len(out) /\ 1 \in 1 .. i - 1 BY <1>5, <2>5
    <3>2. f.seq < n BY <1>5, <2>2, <3>1
    <3>3. lastSent' < n BY <1>7, <2>1, <3>2
    <3>4. i - 1 \in DOMAIN t /\ (i - 1) + 1 = i BY <1>5, <3>1
    <3>5. t[i - 1] = out[i] BY <1>5, <3>4
    <3>6. ASSUME NEW j \in 1 .. (i - 1) - 1 PROVE t[j].seq < n
      <4>1. j \in DOMAIN t /\ j + 1 \in 1 .. i - 1 BY <1>5, <3>1
      <4> QED BY <1>5, <2>2, <4>1
    <3>7. \E k \in DOMAIN t : /\ t[k].seq = n /\ t[k].kind = log[n]
                              /\ \A j \in 1 .. k - 1 : t[j].seq < n
      BY <2>2, <3>4, <3>5, <3>6
    <3>8. Ahead(n)' BY <1>1, <1>2, <1>4, <3>7 DEF Ahead
    <3> QED BY <3>3, <3>8
  <2> QED BY <2>4, <2>5
<1> QED BY <1>10, <1>11, <1>12, <1>14, <1>15 DEF IInv

--------------------------------------------------------------------------------
(* The theorems *)

LEMMA InitInvariant == Init => IInv
<1> SUFFICES ASSUME Init PROVE IInv OBVIOUS
<1>1. /\ log = <<>> /\ unsaved = FALSE /\ frames = [w \in Writers |-> <<>>]
      /\ status \in Statuses /\ round \in {"none", "pending", "running", "cancelling"}
      /\ pump \in {"idle", "pumping", "settling"} /\ fence \in BOOLEAN
  BY DEF Init, LogInit, Statuses
<1>2. /\ announced = {} /\ stage = "closed" /\ after = 0 /\ upto = 0 /\ lastSent = 0
      /\ queue = <<>> /\ out = <<>> /\ seen = {} /\ lost = {}
  BY DEF Init
<1>3. /\ log \in Seq(Kinds) /\ Len(log) = 0 /\ Len(log) <= MaxEvents
      /\ <<>> \in Seq(Frame) /\ Len(<<>>) <= QueueMax
  BY <1>1, LogAssumption, StreamAssumption
<1>4. frames \in [Writers -> Seq(Frame)] BY <1>1, <1>3
<1>5. TypeOK BY <1>1, <1>2, <1>3, <1>4 DEF TypeOK, LogTypeOK
<1>6. Honest BY <1>1, <1>2 DEF Honest, Ascending
<1>7. Marks BY <1>2, <1>3 DEF Marks
<1>8. Awaited /\ Replayed BY <1>2 DEF Awaited, Replayed
<1> QED BY <1>5, <1>6, <1>7, <1>8 DEF IInv

LEMMA NextInvariant == IInv /\ [Next]_vars => IInv'
<1> SUFFICES ASSUME IInv, [Next]_vars PROVE IInv' OBVIOUS
<1>1. CASE UNCHANGED vars
  <2>1. UNCHANGED <<log, status, round, pump, fence, unsaved, frames, announced>>
    BY <1>1 DEF vars, logVars, taskVars, pumpVars
  <2>2. UNCHANGED <<stage, after, upto, queue, out, lastSent, seen, lost>>
    BY <1>1 DEF vars, streamVars
  <2>3. TypeOK' /\ Honest' /\ Marks'
    BY <2>1, <2>2 DEF IInv, TypeOK, LogTypeOK, Honest, Marks
  <2>4. Awaited' BY <2>1, <2>2 DEF IInv, Awaited, ToCome, Coming
  <2>5. Replayed' BY <2>1, <2>2 DEF IInv, Replayed, Ahead
  <2> QED BY <2>3, <2>4, <2>5 DEF IInv
<1>2. CASE Close
  <2>1. 0 \in 0 .. Len(log) BY Sizes DEF IInv
  <2> QED BY <1>2, <2>1, OpenInvariant
<1> QED BY <1>1, <1>2, WriteInvariant, PublishInvariant, OpenInvariant, ReadInvariant,
           MergeInvariant, FrameInvariant, YieldInvariant
        DEF Next

\* Whatever the writers commit and the stream does, the log stays within its bound, what was
\* announced is in it, and the queue of a subscription holds at most _QUEUE_MAX frames.
THEOREM TypeCorrect == Spec => []TypeOK
<1>1. IInv => TypeOK BY DEF IInv
<1> QED BY InitInvariant, NextInvariant, <1>1, PTL DEF Spec

\* publish_runtime_frames: for any number of writers, any log and any size of the queue, a
\* frame with a sequence that is still to be published or sent is what the log has there.
THEOREM NoFrameIsPhantom == Spec => []NoPhantom
<1>1. IInv => NoPhantom
  <2> SUFFICES ASSUME IInv,
                      NEW f \in (UNION {Frames(frames[w]) : w \in Writers}) \cup Frames(queue)
                                \cup Frames(out)
               PROVE  f.seq # 0 => f.seq <= Len(log) /\ log[f.seq] = f.kind
    BY DEF NoPhantom
  <2>1. Logged(log, f)
    <3>1. CASE f \in Frames(queue) BY <3>1 DEF Frames, IInv, Honest
    <3>2. CASE f \in Frames(out) BY <3>2 DEF Frames, IInv, Honest
    <3>3. ASSUME NEW w \in Writers, f \in Frames(frames[w]) PROVE Logged(log, f)
      BY <3>3 DEF Frames, IInv, Honest
    <3> QED BY <3>1, <3>2, <3>3
  <2> QED BY <2>1 DEF Logged
<1> QED BY InitInvariant, NextInvariant, <1>1, PTL DEF Spec

\* _merge_stream_frames: "neither a gap nor a repetition".  The subscription is registered
\* before the log is read, so whatever is committed or published in between, a live stream
\* has yielded or is yet to yield all of its replay and all that is announced after it.
THEOREM NoStreamHasGaps == Spec => []NoGap
<1>1. IInv => NoGap
  <2> SUFFICES ASSUME IInv, stage = "live" PROVE NoGap BY DEF NoGap
  <2>1. ASSUME NEW n \in after + 1 .. upto, HasFrame(log[n]) PROVE n \in seen \cup SeqsOf(out)
    <3>1. n \in seen \/ Ahead(n) BY <2>1 DEF IInv, Replayed
    <3>2. ASSUME NEW i \in DOMAIN out, out[i].seq = n PROVE n \in SeqsOf(out)
      BY <3>2 DEF SeqsOf
    <3> QED BY <3>1, <3>2 DEF Ahead
  <2>2. ASSUME NEW n \in announced, n > after PROVE n \in seen \cup lost \cup Coming
    BY <2>2 DEF IInv, Awaited, ToCome
  <2> QED BY <2>1, <2>2 DEF NoGap
<1> QED BY InitInvariant, NextInvariant, <1>1, PTL DEF Spec

--------------------------------------------------------------------------------
(* Folds of sequences *)

\* A set of numbers has a least one.
LEMMA SmallestNumber ==
  ASSUME NEW N, N \subseteq Nat, N # {}
  PROVE  \E m \in N : \A n \in N : m <= n
<1>1. PICK R : R = {p \in Nat \X Nat : p[1] < p[2]} OBVIOUS
<1>2. IsWellFoundedOn(R, Nat) BY <1>1, NatLessThanWellFounded DEF OpToRel
<1>3. PICK m \in N : \A n \in N : ~ <<n, m>> \in R BY <1>2, WFMin, Zenon
<1>4. ASSUME NEW n \in N PROVE m <= n
  <2>1. <<n, m>> \in Nat \X Nat /\ ~ <<n, m>> \in R BY <1>3
  <2>2. ~ n < m BY <2>1, <1>1
  <2> QED BY <2>2
<1> QED BY <1>4

\* Induction on the sets of places of a sequence of length n.
LEMMA PlacesInduction ==
  ASSUME NEW n \in Nat, NEW Good,
         \A T \in SUBSET (1 .. n) : (\A R \in SUBSET T : R # T => R \in Good) => T \in Good
  PROVE  \A T \in SUBSET (1 .. n) : T \in Good
<1> SUFFICES ASSUME NEW T0 \in SUBSET (1 .. n), T0 \notin Good PROVE FALSE OBVIOUS
<1>0. IsFiniteSet(1 .. n) BY IntervalSize
<1>1. \A T \in SUBSET (1 .. n) : IsFiniteSet(T) /\ Cardinality(T) \in Nat
  BY <1>0, FS_Subset, FS_CardinalityType
<1>2. PICK B : B = {T \in SUBSET (1 .. n) : T \notin Good} OBVIOUS
<1>3. PICK N : N = {Cardinality(T) : T \in B} OBVIOUS
<1>4. N \subseteq Nat /\ N # {} BY <1>1, <1>2, <1>3
<1>5. PICK m \in N : \A k \in N : m <= k BY <1>4, SmallestNumber
<1>6. PICK T \in B : m = Cardinality(T) BY <1>3, <1>5
<1>7. ASSUME NEW R \in SUBSET T, R # T PROVE R \in Good
  <2>1. Cardinality(R) <= Cardinality(T) /\ Cardinality(R) # Cardinality(T)
    BY <1>1, <1>2, <1>6, <1>7, FS_Subset
  <2>2. R \in SUBSET (1 .. n) BY <1>2, <1>6
  <2>3. Cardinality(R) \in Nat /\ Cardinality(T) \in Nat BY <2>2, <1>1, <1>2, <1>6
  <2>4. ~ Cardinality(T) <= Cardinality(R) BY <2>1, <2>3
  <2>5. R \notin B BY <2>4, <1>5, <1>6, <1>3
  <2> QED BY <2>2, <2>5, <1>2
<1>8. T \in Good BY <1>7, <1>2, <1>6
<1> QED BY <1>8, <1>2, <1>6

\* The place a fold from the left takes last.
LEMMA LastPlace ==
  ASSUME NEW n \in Nat, NEW s \in SUBSET (1 .. n), s # {}
  PROVE  Max(s) \in s /\ \A x \in s : x <= Max(s)
<1>1. PICK N : N = {n - x : x \in s} OBVIOUS
<1>2. N \subseteq Nat /\ N # {}
  <2>1. ASSUME NEW x \in s PROVE n - x \in Nat
    <3>1. x \in 1 .. n OBVIOUS
    <3> QED BY <3>1
  <2> QED BY <1>1, <2>1
<1>3. PICK m \in N : \A k \in N : m <= k BY <1>2, SmallestNumber
<1>4. PICK y \in s : m = n - y BY <1>1, <1>3
<1>5. ASSUME NEW x \in s PROVE y >= x
  <2>1. n - y <= n - x BY <1>1, <1>3, <1>4
  <2> QED BY <2>1
<1>6. \E x \in s : \A z \in s : x >= z BY <1>5
<1>7. Max(s) \in s /\ \A x \in s : Max(s) >= x BY <1>6 DEF Max
<1>8. s \subseteq Nat OBVIOUS
<1> QED BY <1>7, <1>8

\* The table g of what F makes of the places of fs, from b on, as the fold computes it.
FoldTable(g, F, b, fs, S) ==
    g = [s \in SUBSET S |-> IF s = {} THEN b ELSE F[<<fs[Max(s)], g[s \ {Max(s)}]>>]]

\* T holds places of a sequence of length n.
PlacesOf(n, T) == T \in SUBSET (1 .. n)

\* Two such tables agree.
LEMMA FoldTableUnique ==
  ASSUME NEW F, NEW b, NEW fs, NEW g, NEW h, NEW S, NEW S2,
         FoldTable(g, F, b, fs, S), FoldTable(h, F, b, fs, S2),
         NEW n \in Nat, NEW T, PlacesOf(n, T), T \subseteq S, T \subseteq S2
  PROVE  g[T] = h[T]
<1>0. T \in SUBSET (1 .. n) BY DEF PlacesOf
<1>1. PICK G : G = {r \in SUBSET (1 .. n) : r \subseteq T => g[r] = h[r]} OBVIOUS
<1>2. ASSUME NEW r \in SUBSET (1 .. n), \A q \in SUBSET r : q # r => q \in G PROVE r \in G
  <2> SUFFICES ASSUME r \subseteq T PROVE g[r] = h[r] BY <1>1
  <2>0. r \in SUBSET S /\ r \in SUBSET S2 OBVIOUS
  <2>1. CASE r = {}
    <3>1. g[r] = b /\ h[r] = b BY <2>0, <2>1 DEF FoldTable
    <3> QED BY <3>1
  <2>2. CASE r # {}
    <3>1. Max(r) \in r BY <2>2, LastPlace
    <3>2. r \ {Max(r)} \in G BY <3>1, <1>2
    <3>3. g[r] = F[<<fs[Max(r)], g[r \ {Max(r)}]>>] BY <2>0, <2>2 DEF FoldTable
    <3>4. h[r] = F[<<fs[Max(r)], h[r \ {Max(r)}]>>] BY <2>0, <2>2 DEF FoldTable
    <3>5. g[r \ {Max(r)}] = h[r \ {Max(r)}] BY <3>1, <3>2, <1>1
    <3> QED BY <3>3, <3>4, <3>5
  <2> QED BY <2>1, <2>2
<1>3. T \in G BY <1>0, <1>2, PlacesInduction, Zenon
<1> QED BY <1>3, <1>1

\* The table of a fold over the places S.
TableOf(F, b, fs, S) == CHOOSE g : FoldTable(g, F, b, fs, S)

\* The table by which the fold of a sequence is computed exists.
LEMMA FoldTableExists ==
  ASSUME NEW F, NEW b, NEW fs, NEW n \in Nat
  PROVE  \E g : FoldTable(g, F, b, fs, 1 .. n)
<1>1. PICK G : G = {T \in SUBSET (1 .. n) : \E g : FoldTable(g, F, b, fs, T)} OBVIOUS
<1>2. ASSUME NEW T \in SUBSET (1 .. n), \A R \in SUBSET T : R # T => R \in G PROVE T \in G
  <2>1. ASSUME NEW R \in SUBSET T, R # T PROVE FoldTable(TableOf(F, b, fs, R), F, b, fs, R)
    <3>1. \E g : FoldTable(g, F, b, fs, R) BY <1>1, <1>2, <2>1
    <3> QED BY <3>1, Zenon DEF TableOf
  <2>2. PICK g : g = [s \in SUBSET T |-> IF s = {} THEN b ELSE
                        F[<<fs[Max(s)], TableOf(F, b, fs, s \ {Max(s)})[s \ {Max(s)}]>>]]
    OBVIOUS
  <2>3. ASSUME NEW s \in SUBSET T, s # {}
        PROVE  g[s \ {Max(s)}] = TableOf(F, b, fs, s \ {Max(s)})[s \ {Max(s)}]
    <3>1. s \in SUBSET (1 .. n) /\ Max(s) \in s BY <2>3, LastPlace
    <3>2. PICK r : r = s \ {Max(s)} OBVIOUS
    <3>3. r \in SUBSET T /\ r # T /\ r \in SUBSET (1 .. n) BY <3>1, <3>2
    <3>4. FoldTable(TableOf(F, b, fs, r), F, b, fs, r) BY <2>1, <3>3
    <3>5. PICK h : h = TableOf(F, b, fs, r) OBVIOUS
    <3>6. CASE r = {}
      <4>1. g[r] = b BY <2>2, <3>3, <3>6
      <4>2. h[r] = b BY <3>4, <3>5, <3>6 DEF FoldTable
      <4> QED BY <4>1, <4>2, <3>2, <3>5
    <3>7. CASE r # {}
      <4>1. Max(r) \in r BY <3>3, <3>7, LastPlace
      <4>2. PICK q : q = r \ {Max(r)} OBVIOUS
      <4>3. q \in SUBSET T /\ q # T /\ q \subseteq r /\ q \in SUBSET (1 .. n)
        BY <3>3, <4>1, <4>2
      <4>4. FoldTable(TableOf(F, b, fs, q), F, b, fs, q) BY <2>1, <4>3
      <4>5. g[r] = F[<<fs[Max(r)], TableOf(F, b, fs, q)[q]>>] BY <2>2, <3>3, <3>7, <4>2
      <4>6. h[r] = F[<<fs[Max(r)], h[q]>>] BY <3>4, <3>5, <3>7, <4>2 DEF FoldTable
      <4>7. h[q] = TableOf(F, b, fs, q)[q]
        <5>1. PICK k : k = TableOf(F, b, fs, q) OBVIOUS
        <5>2. FoldTable(h, F, b, fs, r) /\ FoldTable(k, F, b, fs, q) BY <3>4, <3>5, <4>4, <5>1
        <5>3. q \subseteq q /\ q \subseteq r /\ PlacesOf(n, q) BY <4>3 DEF PlacesOf
        <5>4. h[q] = k[q] BY <5>2, <5>3, FoldTableUnique
        <5> QED BY <5>1, <5>4
      <4> QED BY <4>5, <4>6, <4>7, <3>2, <3>5
    <3> QED BY <3>6, <3>7
  <2>4. FoldTable(g, F, b, fs, T) BY <2>2, <2>3 DEF FoldTable
  <2> QED BY <1>1, <2>4
<1>3. (1 .. n) \in SUBSET (1 .. n) OBVIOUS
<1>4. (1 .. n) \in G BY <1>2, <1>3, PlacesInduction, Zenon
<1> QED BY <1>4, <1>1

\* Whatever each step of the fold keeps, W of the places taken so far, its entries have.
LEMMA FoldTableIn ==
  ASSUME NEW F, NEW b, NEW fs, NEW g, NEW n \in Nat, FoldTable(g, F, b, fs, 1 .. n),
         NEW W, b \in W[{}],
         \A s \in SUBSET (1 .. n) : s # {} =>
            \A v \in W[s \ {Max(s)}] : F[<<fs[Max(s)], v>>] \in W[s]
  PROVE  \A s \in SUBSET (1 .. n) : g[s] \in W[s]
<1>1. PICK G : G = {s \in SUBSET (1 .. n) : g[s] \in W[s]} OBVIOUS
<1>2. ASSUME NEW s \in SUBSET (1 .. n), \A q \in SUBSET s : q # s => q \in G PROVE s \in G
  <2>1. CASE s = {} BY <1>1, <2>1 DEF FoldTable
  <2>2. CASE s # {}
    <3>1. Max(s) \in s BY <2>2, LastPlace
    <3>2. s \ {Max(s)} \in G BY <3>1, <1>2
    <3>3. g[s] = F[<<fs[Max(s)], g[s \ {Max(s)}]>>] BY <2>2 DEF FoldTable
    <3>4. g[s \ {Max(s)}] \in W[s \ {Max(s)}] BY <3>2, <1>1
    <3>5. g[s] \in W[s] BY <2>2, <3>3, <3>4
    <3> QED BY <3>5, <1>1
  <2> QED BY <2>1, <2>2
<1>3. \A s \in SUBSET (1 .. n) : s \in G BY <1>2, PlacesInduction, Zenon
<1> QED BY <1>3, <1>1

\* The frames of a sequence are in the order of the log.
Ordered(fs) == \A i, k \in DOMAIN fs : i < k => fs[i].seq < fs[k].seq

\* What each frame applied to the reducer keeps, W of the places taken so far, all of them
\* together keep.
LEMMA ApplyFrames ==
  ASSUME NEW fs \in Seq(Frame), NEW V, NEW s, NEW W,
         W \in [SUBSET DOMAIN fs -> SUBSET V], s \in W[{}],
         \A q \in SUBSET DOMAIN fs : q # {} =>
            \A v \in W[q \ {Max(q)}] : ApplyFrame(v, fs[Max(q)]) \in W[q]
  PROVE  FoldLeft(ApplyFrame, s, fs) \in W[DOMAIN fs]
<1>1. PICK n : n = Len(fs) OBVIOUS
<1>2. n \in Nat /\ DOMAIN fs = 1 .. n /\ \A i \in 1 .. n : fs[i] \in Frame
  BY <1>1, LenProperties
<1>3. PICK F : F = [p \in Frame \X V |-> ApplyFrame(p[2], p[1])] OBVIOUS
<1>5. PICK k : FoldTable(k, F, s, fs, 1 .. n) BY <1>2, FoldTableExists
<1>6. \A q \in SUBSET (1 .. n) : q # {} =>
         /\ Max(q) \in 1 .. n /\ Max(q) \in q /\ q \ {Max(q)} \in SUBSET (1 .. n)
  BY <1>2, LastPlace
<1>7. \A q \in SUBSET (1 .. n) : k[q] \in W[q]
  <2>2. ASSUME NEW q \in SUBSET (1 .. n), q # {}, NEW v \in W[q \ {Max(q)}]
        PROVE  F[<<fs[Max(q)], v>>] \in W[q]
    <3>1. Max(q) \in 1 .. n /\ q \ {Max(q)} \in SUBSET (1 .. n) BY <1>6, <2>2
    <3>2. v \in V BY <1>2, <2>2, <3>1
    <3>3. F[<<fs[Max(q)], v>>] = ApplyFrame(v, fs[Max(q)]) BY <1>2, <1>3, <3>1, <3>2
    <3> QED BY <1>2, <2>2, <3>3
  <2> QED BY <1>2, <1>5, <2>2, FoldTableIn
<1>8. \E g : g = [q \in SUBSET DOMAIN fs |-> IF q = {} THEN s
                                             ELSE ApplyFrame(g[q \ {Max(q)}], fs[Max(q)])]
  <2>1. ASSUME NEW q \in SUBSET (1 .. n), q # {}
        PROVE  F[<<fs[Max(q)], k[q \ {Max(q)}]>>] = ApplyFrame(k[q \ {Max(q)}], fs[Max(q)])
    <3>1. Max(q) \in 1 .. n /\ q \ {Max(q)} \in SUBSET (1 .. n) BY <1>6, <2>1
    <3>2. k[q \ {Max(q)}] \in V BY <1>2, <1>7, <3>1
    <3> QED BY <1>2, <1>3, <3>1, <3>2
  <2>2. k = [q \in SUBSET (1 .. n) |-> IF q = {} THEN s
                                       ELSE ApplyFrame(k[q \ {Max(q)}], fs[Max(q)])]
    BY <1>5, <2>1 DEF FoldTable
  <2> QED BY <1>2, <2>2
<1>9. PICK h : h = CHOOSE g : g = [q \in SUBSET DOMAIN fs |-> IF q = {} THEN s
                                   ELSE ApplyFrame(g[q \ {Max(q)}], fs[Max(q)])]
  OBVIOUS
<1>10. h = [q \in SUBSET DOMAIN fs |-> IF q = {} THEN s
                                       ELSE ApplyFrame(h[q \ {Max(q)}], fs[Max(q)])]
  BY <1>8, <1>9, Zenon
<1>11. h[DOMAIN fs] = FoldLeft(ApplyFrame, s, fs)
  BY <1>9, Zenon DEF FoldLeft, MapThenFoldSet
<1>12. PICK G : G = {q \in SUBSET (1 .. n) : h[q] \in W[q]} OBVIOUS
<1>13. ASSUME NEW q \in SUBSET (1 .. n), \A r \in SUBSET q : r # q => r \in G PROVE q \in G
  <2>1. CASE q = {} BY <1>2, <1>10, <1>12, <2>1
  <2>2. CASE q # {}
    <3>1. Max(q) \in q /\ Max(q) \in 1 .. n BY <1>6, <2>2
    <3>2. h[q \ {Max(q)}] \in W[q \ {Max(q)}] BY <1>12, <1>13, <3>1
    <3>3. h[q] = ApplyFrame(h[q \ {Max(q)}], fs[Max(q)]) BY <1>2, <1>10, <2>2
    <3>4. h[q] \in W[q] BY <1>2, <2>2, <3>2, <3>3
    <3> QED BY <1>12, <3>4
  <2> QED BY <2>1, <2>2
<1>14. \A q \in SUBSET (1 .. n) : q \in G BY <1>2, <1>13, PlacesInduction, Zenon
<1>15. DOMAIN fs \in G BY <1>2, <1>14
<1> QED BY <1>11, <1>12, <1>15

\* v shows the frames that the places q of fs have.
ShownOf(fs, q, v) ==
    /\ v \in Seq(Frame)
    /\ \A i \in DOMAIN v : \E j \in q : v[i] = fs[j]
    /\ \A j \in q : HasFrame(fs[j].kind) => \E i \in DOMAIN v : v[i] = fs[j]
    /\ Ordered(v)

\* One more row, with a frame or without.
LEMMA FramedStep ==
  ASSUME NEW fs \in Seq(Frame), NEW q, NEW j \in DOMAIN fs, NEW v, ShownOf(fs, q, v),
         \A x \in q : fs[x].seq < fs[j].seq
  PROVE  ShownOf(fs, q \cup {j}, Framed(v, fs[j]))
<1>1. fs[j] \in Frame /\ v \in Seq(Frame) BY DEF ShownOf
<1>2. CASE HasFrame(fs[j].kind)
  <2>1. PICK u : u = Append(v, fs[j]) OBVIOUS
  <2>2. /\ u \in Seq(Frame) /\ Len(u) = Len(v) + 1 /\ u[Len(u)] = fs[j]
        /\ \A i \in 1 .. Len(v) : u[i] = v[i]
    BY <1>1, <2>1, AppendProperties
  <2>3. Len(v) \in Nat /\ DOMAIN v = 1 .. Len(v) /\ DOMAIN u = 1 .. Len(v) + 1
    BY <1>1, <2>2, LenProperties
  <2>4. \A i \in DOMAIN v : i \in DOMAIN u /\ u[i] = v[i] BY <2>2, <2>3
  <2>5. ASSUME NEW i \in DOMAIN u PROVE \E x \in q \cup {j} : u[i] = fs[x]
    <3>1. CASE i = Len(u) BY <2>2, <3>1
    <3>2. CASE i # Len(u)
      <4>1. i \in DOMAIN v /\ u[i] = v[i] BY <2>2, <2>3, <3>2
      <4> QED BY <4>1 DEF ShownOf
    <3> QED BY <3>1, <3>2
  <2>6. Framed(v, fs[j]) = u BY <1>2, <2>1 DEF Framed
  <2>7. ASSUME NEW x \in q \cup {j}, HasFrame(fs[x].kind) PROVE \E i \in DOMAIN u : u[i] = fs[x]
    <3>1. CASE x = j
      <4>1. Len(u) \in DOMAIN u BY <2>2, <2>3
      <4> QED BY <2>2, <3>1, <4>1
    <3>2. CASE x \in q
      <4>1. PICK i \in DOMAIN v : v[i] = fs[x] BY <2>7, <3>2 DEF ShownOf
      <4> QED BY <2>4, <4>1
    <3> QED BY <3>1, <3>2
  <2>8. ASSUME NEW i \in DOMAIN u, NEW k \in DOMAIN u, i < k PROVE u[i].seq < u[k].seq
    <3>1. i \in DOMAIN v /\ u[i] = v[i] BY <2>2, <2>3, <2>8
    <3>2. CASE k = Len(u)
      <4>1. PICK x \in q : v[i] = fs[x] BY <3>1 DEF ShownOf
      <4>2. fs[x].seq < fs[j].seq OBVIOUS
      <4> QED BY <2>2, <3>1, <3>2, <4>1, <4>2
    <3>3. CASE k # Len(u)
      <4>1. k \in DOMAIN v /\ u[k] = v[k] BY <2>2, <2>3, <3>3
      <4> QED BY <2>8, <3>1, <4>1 DEF ShownOf, Ordered
    <3> QED BY <3>2, <3>3
  <2> QED BY <2>2, <2>5, <2>6, <2>7, <2>8 DEF ShownOf, Ordered
<1>3. CASE ~ HasFrame(fs[j].kind)
  <2>1. Framed(v, fs[j]) = v BY <1>3 DEF Framed
  <2> QED BY <1>3, <2>1 DEF ShownOf
<1> QED BY <1>2, <1>3

\* The frames of a sequence of rows.
LEMMA FramesOfRows ==
  ASSUME NEW fs \in Seq(Frame), Ordered(fs)
  PROVE  ShownOf(fs, DOMAIN fs, FoldLeft(Framed, <<>>, fs))
<1>1. PICK n : n = Len(fs) OBVIOUS
<1>2. n \in Nat /\ DOMAIN fs = 1 .. n /\ \A i \in 1 .. n : fs[i] \in Frame
  BY <1>1, LenProperties
<1>3. PICK F : F = [p \in Frame \X Seq(Frame) |-> Framed(p[2], p[1])] OBVIOUS
<1>4. PICK W : W = [q \in SUBSET (1 .. n) |-> {v \in Seq(Frame) : ShownOf(fs, q, v)}] OBVIOUS
<1>5. PICK k : FoldTable(k, F, <<>>, fs, 1 .. n) BY <1>2, FoldTableExists
<1>6. \A q \in SUBSET (1 .. n) : q # {} => Max(q) \in 1 .. n /\ Max(q) \in q
  BY <1>2, LastPlace
<1>7. ShownOf(fs, {}, <<>>)
  <2>1. <<>> \in Seq(Frame) /\ DOMAIN <<>> = {} OBVIOUS
  <2> QED BY <2>1 DEF ShownOf, Ordered
<1>8. ASSUME NEW q \in SUBSET (1 .. n), q # {}, NEW v, ShownOf(fs, q \ {Max(q)}, v)
      PROVE  /\ v \in Seq(Frame) /\ ShownOf(fs, q, Framed(v, fs[Max(q)]))
             /\ Framed(v, fs[Max(q)]) \in Seq(Frame)
  <2>1. Max(q) \in DOMAIN fs /\ (q \ {Max(q)}) \cup {Max(q)} = q BY <1>2, <1>6, <1>8
  <2>4. \A x \in q \ {Max(q)} : fs[x].seq < fs[Max(q)].seq
    <3> SUFFICES ASSUME NEW x \in q \ {Max(q)} PROVE fs[x].seq < fs[Max(q)].seq OBVIOUS
    <3>1. x <= Max(q) /\ x \in 1 .. n /\ Max(q) \in 1 .. n BY <1>2, <1>6, <1>8, LastPlace
    <3>2. x < Max(q) BY <3>1
    <3> QED BY <1>2, <3>1, <3>2 DEF Ordered
  <2>2. ShownOf(fs, (q \ {Max(q)}) \cup {Max(q)}, Framed(v, fs[Max(q)]))
    BY <1>8, <2>1, <2>4, FramedStep
  <2>3. ShownOf(fs, q, Framed(v, fs[Max(q)])) BY <2>1, <2>2
  <2> QED BY <1>8, <2>3 DEF ShownOf
<1>9. \A q \in SUBSET (1 .. n) : ShownOf(fs, q, k[q])
  <2>1. <<>> \in W[{}] BY <1>4, <1>7 DEF ShownOf
  <2>2. ASSUME NEW q \in SUBSET (1 .. n), q # {}, NEW v \in W[q \ {Max(q)}]
        PROVE  F[<<fs[Max(q)], v>>] \in W[q]
    <3>1. ShownOf(fs, q \ {Max(q)}, v) BY <1>4
    <3>2. /\ v \in Seq(Frame) /\ ShownOf(fs, q, Framed(v, fs[Max(q)]))
          /\ Framed(v, fs[Max(q)]) \in Seq(Frame)
      BY <1>8, <2>2, <3>1
    <3>3. fs[Max(q)] \in Frame BY <1>2, <1>6, <2>2
    <3>4. F[<<fs[Max(q)], v>>] = Framed(v, fs[Max(q)]) BY <1>3, <3>2, <3>3
    <3> QED BY <1>4, <3>2, <3>4
  <2>3. \A q \in SUBSET (1 .. n) : k[q] \in W[q]
    BY <1>2, <1>5, <2>1, <2>2, FoldTableIn
  <2> QED BY <1>4, <2>3
<1>10. \E g : g = [q \in SUBSET DOMAIN fs |-> IF q = {} THEN <<>>
                                              ELSE Framed(g[q \ {Max(q)}], fs[Max(q)])]
  <2>1. ASSUME NEW q \in SUBSET (1 .. n), q # {}
        PROVE  F[<<fs[Max(q)], k[q \ {Max(q)}]>>] = Framed(k[q \ {Max(q)}], fs[Max(q)])
    <3>1. fs[Max(q)] \in Frame BY <1>2, <1>6, <2>1
    <3>2. k[q \ {Max(q)}] \in Seq(Frame) BY <1>9 DEF ShownOf
    <3> QED BY <1>3, <3>1, <3>2
  <2>2. k = [q \in SUBSET (1 .. n) |-> IF q = {} THEN <<>>
                                       ELSE Framed(k[q \ {Max(q)}], fs[Max(q)])]
    BY <1>5, <2>1 DEF FoldTable
  <2> QED BY <1>2, <2>2
<1>11. PICK h : h = CHOOSE g : g = [q \in SUBSET DOMAIN fs |-> IF q = {} THEN <<>>
                                    ELSE Framed(g[q \ {Max(q)}], fs[Max(q)])]
  OBVIOUS
<1>12. h = [q \in SUBSET DOMAIN fs |-> IF q = {} THEN <<>>
                                       ELSE Framed(h[q \ {Max(q)}], fs[Max(q)])]
  BY <1>10, <1>11, Zenon
<1>13. h[DOMAIN fs] = FoldLeft(Framed, <<>>, fs)
  BY <1>11, Zenon DEF FoldLeft, MapThenFoldSet
<1>14. PICK G : G = {q \in SUBSET (1 .. n) : ShownOf(fs, q, h[q])} OBVIOUS
<1>15. ASSUME NEW q \in SUBSET (1 .. n), \A r \in SUBSET q : r # q => r \in G PROVE q \in G
  <2>1. CASE q = {}
    <3>1. h[q] = <<>> BY <1>2, <1>12, <2>1
    <3> QED BY <1>7, <1>14, <2>1, <3>1
  <2>2. CASE q # {}
    <3>1. Max(q) \in q BY <1>6, <2>2
    <3>2. ShownOf(fs, q \ {Max(q)}, h[q \ {Max(q)}]) BY <1>14, <1>15, <3>1
    <3>3. h[q] = Framed(h[q \ {Max(q)}], fs[Max(q)]) BY <1>2, <1>12, <2>2
    <3>4. ShownOf(fs, q, h[q]) BY <1>8, <2>2, <3>2, <3>3
    <3> QED BY <1>14, <3>4
  <2> QED BY <2>1, <2>2
<1>16. \A q \in SUBSET (1 .. n) : q \in G BY <1>2, <1>15, PlacesInduction, Zenon
<1>17. DOMAIN fs \in G BY <1>2, <1>16
<1> QED BY <1>13, <1>14, <1>17

--------------------------------------------------------------------------------
(* The page: the invariant *)

\* A row without a frame does not follow another.
Spaced(L) == \A i \in 1 .. Len(L) - 1 : HasFrame(L[i]) \/ HasFrame(L[i + 1])

\* The states of the reducer, and the answers that may be waiting.
State == [status : Statuses, watermark : Nat, messages : SUBSET Nat,
          refetch : Nat \cup {None}, target : Nat \cup {None}, finalizing : BOOLEAN,
          told : SUBSET Nat, missed : SUBSET Nat, base : Nat]

LoadAnswers  == [task : {None} \cup [seq : Nat, status : Statuses],
                 messages : {None} \cup SUBSET Nat]
EventAnswers == [list : Seq(Frame), seq : Nat, status : Statuses]
FinalAnswers == [from : Nat, status : Statuses \cup {"unknown", None}, messages : SUBSET Nat]
SendAnswers  == [kind : {"send"}, message : Nat \ {0}, seq : Nat]
EndAnswers   == [kind : {"end"}, status : Statuses]

ChatTypes ==
    /\ LogTypeOK /\ wire \in Seq(Frame)
    /\ link \in {"loading", "connecting", "open", "waiting", "reconciling"}
    /\ cursor \in Nat /\ shown \in State /\ faults \in Nat
    /\ load \in LoadAnswers /\ events \in {None} \cup EventAnswers
    /\ page \in {None} \cup Seq(Frame) /\ refetched \in {None} \cup SUBSET Nat
    /\ final \in FinalAnswers /\ op \in {None} \cup SendAnswers \cup EndAnswers

\* The frames fs are of a log of length m at most.
UpTo(m, fs) == \A i \in DOMAIN fs : fs[i].seq <= m

\* What the page and the answers to it have seen is in the log.
Within ==
    /\ link # "open" => wire = <<>>
    /\ cursor <= Len(log) /\ shown.watermark <= Len(log)
    /\ shown.target # None => shown.target <= Len(log)
    /\ load.task # None => load.task.seq <= Len(log)
    /\ op # None /\ op.kind = "send" => op.seq <= Len(log)
    /\ UpTo(Len(log), wire) /\ \A w \in Writers : UpTo(Len(log), frames[w])
    /\ events # None => events.seq <= Len(log) /\ UpTo(Len(log), events.list)
    /\ page # None => UpTo(Len(log), page)

\* So are the messages it shows and those that are on their way to it.
Texts ==
    /\ shown.messages \subseteq SavedAfter(0) /\ final.messages \subseteq SavedAfter(0)
    /\ load.messages # None => load.messages \subseteq SavedAfter(0)
    /\ refetched # None => refetched \subseteq SavedAfter(0)

\* An empty page says that up to the target there is nothing to be shown.
NothingLeft == page = <<>> =>
    shown.target # None /\ \A n \in shown.watermark + 1 .. shown.target : ~ HasFrame(log[n])

PageInv == ChatTypes /\ Spaced(log) /\ Within /\ Texts /\ NothingLeft

\* What the page knows of the log: what it was told, what it has passed over, and what it
\* still pages to.
Known(s) == s.told \cup s.missed \cup Pending(s)

\* That is all that its water mark and a cursor at c have moved over.
KnownAt(s, c) ==
    \A n \in 1 .. Len(log) :
       (n <= s.watermark \/ n <= c) /\ HasFrame(log[n]) => n \in Known(s)

Covered == KnownAt(shown, cursor)

\* Of what there was when the stream was opened, all that is above the cursor is still on
\* its way, in the order of the log and before anything younger.
OnTheWay ==
    link = "open" =>
       /\ shown.base <= Len(log)
       /\ \A n \in cursor + 1 .. shown.base :
             HasFrame(log[n]) =>
                \E i \in DOMAIN wire : /\ wire[i].seq = n /\ wire[i].kind = log[n]
                                       /\ \A j \in 1 .. i - 1 : wire[j].seq < n

\* A page of the events of log L leaves out none from its place to its last one.
Exact(L, fs, from) ==
    /\ Ordered(fs)
    /\ \A i \in DOMAIN fs : \A n \in from + 1 .. fs[i].seq :
          HasFrame(L[n]) => \E k \in DOMAIN fs : fs[k].seq = n

\* The pages that wait begin where they are going to be applied.
Answered ==
    /\ events # None => link = "reconciling" /\ Exact(log, events.list, cursor)
    /\ page # None => Exact(log, page, shown.watermark)

Cover == Covered /\ OnTheWay /\ Answered

--------------------------------------------------------------------------------
(* The page: rows without a frame *)

LEMMA AppendSpaced ==
  ASSUME NEW L \in Seq(Kinds), NEW written \in Seq(Kinds), Spaced(L), Spaced(written),
         written # <<>> => HasFrame(written[1])
  PROVE  Spaced(L \o written)
<1>1. PICK M : M = L \o written OBVIOUS
<1>2. /\ Len(L) \in Nat /\ Len(written) \in Nat /\ Len(M) = Len(L) + Len(written)
      /\ \A i \in 1 .. Len(L) + Len(written) :
            M[i] = IF i <= Len(L) THEN L[i] ELSE written[i - Len(L)]
  BY <1>1, ConcatProperties, LenProperties
<1>3. ASSUME NEW i \in 1 .. Len(M) - 1 PROVE HasFrame(M[i]) \/ HasFrame(M[i + 1])
  <2>1. CASE i + 1 <= Len(L)
    <3>1. i \in 1 .. Len(L) - 1 /\ M[i] = L[i] /\ M[i + 1] = L[i + 1] BY <1>2, <2>1
    <3> QED BY <3>1 DEF Spaced
  <2>2. CASE i = Len(L)
    <3>1. M[i + 1] = written[1] /\ Len(written) # 0 BY <1>2, <2>2
    <3>2. written # <<>> BY <3>1, EmptySeq
    <3> QED BY <3>1, <3>2
  <2>3. CASE i > Len(L)
    <3>1. PICK j : j = i - Len(L) OBVIOUS
    <3>2. j \in 1 .. Len(written) - 1 /\ M[i] = written[j] /\ M[i + 1] = written[j + 1]
      BY <1>2, <2>3, <3>1
    <3> QED BY <3>2 DEF Spaced
  <2> QED BY <1>2, <2>1, <2>2, <2>3
<1> QED BY <1>1, <1>3 DEF Spaced

\* All that is written has a frame.
LEMMA FramedLog ==
  ASSUME LogTypeOK, Spaced(log), NEW written \in Seq(Kinds \ {"round_running"}),
         log' = log \o written
  PROVE  Spaced(log')
<1>1. /\ Len(written) \in Nat
      /\ \A i \in 1 .. Len(written) : written[i] \in Kinds /\ HasFrame(written[i])
  BY LenProperties DEF HasFrame
<1>2. written \in Seq(Kinds) OBVIOUS
<1>3. Spaced(written) BY <1>1 DEF Spaced
<1>4. written # <<>> => HasFrame(written[1])
  <2>1. written # <<>> => 1 \in 1 .. Len(written) BY <1>1, <1>2, EmptySeq
  <2> QED BY <1>1, <2>1
<1> QED BY <1>2, <1>3, <1>4, AppendSpaced DEF LogTypeOK

LEMMA FramedCommit ==
  ASSUME LogTypeOK, Spaced(log), NEW w, NEW written, NEW fs, Commit(w, written, fs),
         written \in Seq(Kinds \ {"round_running"})
  PROVE  Spaced(log')
BY FramedLog DEF Commit

LEMMA OneKind ==
  ASSUME NEW a \in Kinds \ {"round_running"}
  PROVE  <<a>> \in Seq(Kinds \ {"round_running"})
OBVIOUS

LEMMA TwoKinds ==
  ASSUME NEW a \in Kinds \ {"round_running"}, NEW b \in Kinds \ {"round_running"}
  PROVE  <<a, b>> \in Seq(Kinds \ {"round_running"})
OBVIOUS

LEMMA ThreeKinds ==
  ASSUME NEW a \in Kinds \ {"round_running"}, NEW b \in Kinds \ {"round_running"},
         NEW c \in Kinds \ {"round_running"}
  PROVE  <<a, b, c>> \in Seq(Kinds \ {"round_running"})
OBVIOUS

LEMMA FramedKinds ==
  {"user", "tool", "assistant", "ready", "queued", "running", "ended", "round_queued",
   "round_settled", "round_ended"} \subseteq Kinds \ {"round_running"}
BY DEF Kinds, Saved, Statuses, Rounds

LEMMA SendSpaced == ASSUME LogTypeOK, Spaced(log), SendMessage PROVE Spaced(log')
<1>1. <<"user", "queued", "round_queued">> \in Seq(Kinds \ {"round_running"})
  BY FramedKinds, ThreeKinds
<1> QED BY <1>1, FramedCommit DEF SendMessage

LEMMA EndUnstartedSpaced == ASSUME LogTypeOK, Spaced(log), EndUnstarted PROVE Spaced(log')
<1>1. /\ <<"ended", "round_ended">> \in Seq(Kinds \ {"round_running"})
      /\ <<"ended">> \in Seq(Kinds \ {"round_running"})
  BY FramedKinds, TwoKinds, OneKind
<1> QED BY <1>1, FramedCommit DEF EndUnstarted

LEMMA ClaimSpaced == ASSUME LogTypeOK, Spaced(log), ClaimRound PROVE Spaced(log')
<1>1. PICK es : es = <<"running", "round_running">> OBVIOUS
<1>2. /\ es \in Seq(Kinds) /\ Len(es) = 2 /\ es[1] = "running"
  BY <1>1 DEF Kinds, Statuses, Rounds
<1>3. HasFrame(es[1]) BY <1>2 DEF HasFrame
<1>4. Spaced(es)
  <2>1. \A i \in 1 .. Len(es) - 1 : i = 1 BY <1>2
  <2> QED BY <1>3, <2>1 DEF Spaced
<1>5. log' = log \o es BY <1>1 DEF ClaimRound, Commit
<1> QED BY <1>2, <1>3, <1>4, <1>5, AppendSpaced DEF LogTypeOK

LEMMA SettleSpaced == ASSUME LogTypeOK, Spaced(log), Settle PROVE Spaced(log')
<1>1. PICK last \in {"ready", "ended"} :
        Commit("executor",
               (IF unsaved THEN <<"assistant">> ELSE <<>>) \o <<"round_settled", last>>, <<>>)
  BY DEF Settle
<1>2. PICK first : first = IF unsaved THEN <<"assistant">> ELSE <<>> OBVIOUS
<1>3. first \in Seq(Kinds \ {"round_running"})
  <2>1. <<"assistant">> \in Seq(Kinds \ {"round_running"}) BY FramedKinds, OneKind
  <2>2. <<>> \in Seq(Kinds \ {"round_running"}) OBVIOUS
  <2> QED BY <1>2, <2>1, <2>2
<1>4. <<"round_settled", last>> \in Seq(Kinds \ {"round_running"})
  <2>1. last \in Kinds \ {"round_running"} /\ "round_settled" \in Kinds \ {"round_running"}
    BY FramedKinds
  <2> QED BY <2>1, TwoKinds
<1>5. PICK es : es = first \o <<"round_settled", last>> OBVIOUS
<1>6. es \in Seq(Kinds \ {"round_running"}) BY <1>3, <1>4, <1>5, ConcatProperties
<1>7. Commit("executor", es, <<>>) BY <1>1, <1>2, <1>5
<1> QED BY <1>6, <1>7, FramedCommit

LEMMA LoopsSpaced == ASSUME LogTypeOK, Spaced(log), LoopsWrite PROVE Spaced(log')
<1>1. /\ <<"queued", "round_queued">> \in Seq(Kinds \ {"round_running"})
      /\ <<"ended", "round_ended">> \in Seq(Kinds \ {"round_running"})
      /\ <<"round_ended">> \in Seq(Kinds \ {"round_running"})
      /\ <<"ended">> \in Seq(Kinds \ {"round_running"})
      /\ <<"tool">> \in Seq(Kinds \ {"round_running"})
      /\ <<"assistant">> \in Seq(Kinds \ {"round_running"})
  BY FramedKinds, OneKind, TwoKinds
<1>2. CASE RequeueRound BY <1>1, <1>2, FramedCommit DEF RequeueRound
<1>3. CASE CancelRound BY <1>1, <1>3, FramedCommit DEF CancelRound
<1>4. CASE Reconcile BY <1>1, <1>4, FramedCommit DEF Reconcile
<1>5. CASE \E w \in Writers : EndRound(w) BY <1>1, <1>5, FramedCommit DEF EndRound
<1>6. CASE PersistTool BY <1>1, <1>6, FramedCommit DEF PersistTool
<1>7. CASE PersistAssistant BY <1>1, <1>7, FramedCommit DEF PersistAssistant
<1>8. CASE log' = log BY <1>8
<1>9. StartPump \/ PersistFails \/ AgentSettled \/ PumpEnds => log' = log
  BY DEF StartPump, PersistFails, AgentSettled, PumpEnds, taskVars
<1> QED BY <1>2, <1>3, <1>4, <1>5, <1>6, <1>7, <1>8, <1>9, ClaimSpaced, SettleSpaced
        DEF LoopsWrite

--------------------------------------------------------------------------------
(* The page: the reducer and the answers *)

\* Two states of the reducer that differ in what is neither a mark nor a history.
SameMarks(s, t) ==
    /\ t \in State /\ t.target = s.target /\ t.messages = s.messages
    /\ t.watermark = s.watermark
    /\ t.told = s.told /\ t.missed = s.missed /\ t.base = s.base

LEMMA ApplyEventState ==
  ASSUME NEW s \in State, NEW f \in Frame
  PROVE  SameMarks(s, ApplyEvent(s, f))
<1>1. f.seq \in Nat BY DEF Frame
<1>2. PICK t : t = ApplyEvent(s, f) OBVIOUS
<1>3. CASE f.kind \in Saved
  <2>1. PICK m : m = Least(s.refetch, IF f.seq = 0 THEN 0 ELSE f.seq - 1) OBVIOUS
  <2>2. m \in Nat \cup {None} BY <1>1, <2>1 DEF Least, State
  <2>3. t = [s EXCEPT !.refetch = m]
    BY <1>2, <1>3, <2>1 DEF ApplyEvent, Saved, Statuses
  <2> QED BY <1>2, <2>2, <2>3 DEF State, SameMarks
<1>4. CASE f.kind \notin Saved /\ f.kind \in Statuses
  <2>1. t = [s EXCEPT !.status = f.kind]
    BY <1>2, <1>4 DEF ApplyEvent, Saved, Statuses
  <2> QED BY <1>2, <1>4, <2>1 DEF State, SameMarks
<1>5. CASE f.kind \notin Saved /\ f.kind \notin Statuses
  <2>1. t = [s EXCEPT !.finalizing = TRUE] \/ t = s BY <1>2, <1>5 DEF ApplyEvent
  <2> QED BY <1>2, <2>1 DEF State, SameMarks
<1> QED BY <1>3, <1>4, <1>5

\* One frame: above the water mark it is told and moves the mark, or nothing happens.
LEMMA ApplyFrameState ==
  ASSUME NEW s \in State, NEW f \in Frame
  PROVE  LET t == ApplyFrame(s, f) IN
         /\ t \in State /\ t.target = s.target /\ t.messages = s.messages
         /\ t.missed = s.missed /\ t.base = s.base
         /\ t.watermark = IF f.seq > s.watermark THEN f.seq ELSE s.watermark
         /\ t.told = IF f.seq > s.watermark THEN s.told \cup {f.seq} ELSE s.told
<1>1. f.seq \in Nat /\ s.watermark \in Nat BY DEF Frame, State
<1>2. PICK t : t = ApplyEvent(s, f) OBVIOUS
<1>3. SameMarks(s, t) BY <1>2, ApplyEventState
<1>4. CASE f.seq = 0
  <2>1. ApplyFrame(s, f) = t BY <1>2, <1>4 DEF ApplyFrame
  <2> QED BY <1>1, <1>3, <1>4, <2>1 DEF SameMarks
<1>5. CASE f.seq # 0 /\ f.seq <= s.watermark
  <2>1. ApplyFrame(s, f) = s BY <1>5 DEF ApplyFrame
  <2> QED BY <1>1, <1>5, <2>1
<1>6. CASE f.seq # 0 /\ ~ f.seq <= s.watermark
  <2>1. PICK u : u = [t EXCEPT !.watermark = f.seq, !.told = @ \cup {f.seq}] OBVIOUS
  <2>2. ApplyFrame(s, f) = u BY <1>2, <1>6, <2>1 DEF ApplyFrame
  <2>3. /\ u \in State /\ u.target = t.target /\ u.messages = t.messages
        /\ u.watermark = f.seq /\ u.told = t.told \cup {f.seq}
        /\ u.missed = t.missed /\ u.base = t.base
    BY <1>1, <1>3, <2>1 DEF State, SameMarks
  <2> QED BY <1>1, <1>3, <1>6, <2>2, <2>3 DEF SameMarks
<1> QED BY <1>4, <1>5, <1>6

\* A list of frames of a log of length m, of which the places q are applied: those above
\* the water mark are told, and one of them is the new mark.
Onward(m, s, fs, q, t) ==
    /\ t \in State /\ t.target = s.target /\ t.messages = s.messages
    /\ t.missed = s.missed /\ t.base = s.base /\ s.told \subseteq t.told
    /\ s.watermark <= t.watermark /\ t.watermark <= m
    /\ t.watermark = s.watermark \/ \E i \in q : t.watermark = fs[i].seq
    /\ \A i \in q : fs[i].seq > s.watermark => fs[i].seq \in t.told

LEMMA OnwardStep ==
  ASSUME NEW m \in Nat, NEW s \in State, NEW fs \in Seq(Frame), UpTo(m, fs),
         NEW q, q \subseteq DOMAIN fs, NEW x \in DOMAIN fs, NEW v, Onward(m, s, fs, q, v),
         \A i \in q : fs[i].seq < fs[x].seq
  PROVE  Onward(m, s, fs, q \cup {x}, ApplyFrame(v, fs[x]))
<1>1. PICK f : f = fs[x] OBVIOUS
<1>2. f \in Frame /\ f.seq <= m /\ f.seq \in Nat
  <2>1. f \in Frame BY <1>1
  <2> QED BY <1>1, <2>1 DEF UpTo, Frame
<1>3. v \in State /\ v.watermark \in Nat /\ s.watermark \in Nat BY DEF Onward, State
<1>4. PICK t : t = ApplyFrame(v, f) OBVIOUS
<1>5. /\ t \in State /\ t.target = v.target /\ t.messages = v.messages
      /\ t.missed = v.missed /\ t.base = v.base
      /\ t.watermark = IF f.seq > v.watermark THEN f.seq ELSE v.watermark
      /\ t.told = IF f.seq > v.watermark THEN v.told \cup {f.seq} ELSE v.told
  BY <1>2, <1>3, <1>4, ApplyFrameState
<1>6. f.seq > s.watermark => f.seq > v.watermark
  <2>1. CASE v.watermark = s.watermark BY <2>1
  <2>2. ASSUME NEW i \in q, v.watermark = fs[i].seq PROVE f.seq > v.watermark
    BY <1>1, <1>2, <1>3, <2>2
  <2> QED BY <2>1, <2>2 DEF Onward
<1>7. \A i \in q \cup {x} : fs[i].seq > s.watermark => fs[i].seq \in t.told
  BY <1>1, <1>5, <1>6 DEF Onward
<1>8. t.watermark = s.watermark \/ \E i \in q \cup {x} : t.watermark = fs[i].seq
  BY <1>1, <1>5 DEF Onward
<1>9. s.watermark <= t.watermark /\ t.watermark <= m BY <1>2, <1>3, <1>5 DEF Onward
<1> QED BY <1>1, <1>4, <1>5, <1>7, <1>8, <1>9 DEF Onward

LEMMA ApplyFramesState ==
  ASSUME NEW m \in Nat, NEW s \in State, NEW fs \in Seq(Frame), UpTo(m, fs), Ordered(fs),
         s.watermark <= m
  PROVE  Onward(m, s, fs, DOMAIN fs, FoldLeft(ApplyFrame, s, fs))
<1>1. PICK W : W = [q \in SUBSET DOMAIN fs |-> {t \in State : Onward(m, s, fs, q, t)}] OBVIOUS
<1>2. s \in W[{}] BY <1>1 DEF Onward, State
<1>3. Len(fs) \in Nat /\ DOMAIN fs = 1 .. Len(fs) BY LenProperties
<1>4. ASSUME NEW q \in SUBSET DOMAIN fs, q # {}, NEW v \in W[q \ {Max(q)}]
      PROVE  ApplyFrame(v, fs[Max(q)]) \in W[q]
  <2>1. PICK x : x = Max(q) OBVIOUS
  <2>2. x \in q /\ \A i \in q : i <= x BY <1>3, <1>4, <2>1, LastPlace
  <2>3. PICK r : r = q \ {x} OBVIOUS
  <2>4. r \subseteq DOMAIN fs /\ x \in DOMAIN fs /\ q = r \cup {x} BY <2>2, <2>3
  <2>5. Onward(m, s, fs, r, v) BY <1>1, <1>4, <2>1, <2>3, <2>4
  <2>6. ASSUME NEW i \in r PROVE fs[i].seq < fs[x].seq
    <3>1. i < x BY <1>3, <2>2, <2>3, <2>4
    <3> QED BY <2>4, <3>1 DEF Ordered
  <2>7. Onward(m, s, fs, r \cup {x}, ApplyFrame(v, fs[x])) BY <2>4, <2>5, <2>6, OnwardStep
  <2>8. ApplyFrame(v, fs[x]) \in State BY <2>7 DEF Onward
  <2> QED BY <1>1, <2>1, <2>4, <2>7, <2>8
<1>5. W \in [SUBSET DOMAIN fs -> SUBSET State] BY <1>1
<1>6. FoldLeft(ApplyFrame, s, fs) \in W[DOMAIN fs] BY <1>2, <1>4, <1>5, ApplyFrames
<1> QED BY <1>1, <1>6

\* What EVENTS_APPLIED makes of state s: what is not applied up to seq, and of an earlier
\* target, is to be fetched.
Applied(m, s, fs, seq, t) ==
    /\ t \in State /\ t.messages = s.messages
    /\ t.missed = s.missed /\ t.base = s.base /\ s.told \subseteq t.told
    /\ s.watermark <= t.watermark /\ t.watermark <= m
    /\ t.watermark = s.watermark \/ \E i \in DOMAIN fs : t.watermark = fs[i].seq
    /\ \A i \in DOMAIN fs : fs[i].seq > s.watermark => fs[i].seq \in t.told
    /\ t.target # None => t.target <= m
    /\ t.watermark < seq => t.target # None /\ seq <= t.target
    /\ s.target # None /\ t.watermark < s.target => t.target # None /\ s.target <= t.target

LEMMA EventsAppliedState ==
  ASSUME NEW m \in Nat, NEW s \in State, NEW fs \in Seq(Frame), UpTo(m, fs), Ordered(fs),
         s.watermark <= m, s.target # None => s.target <= m,
         NEW seq \in Nat, seq <= m, NEW st \in Statuses \cup {None}
  PROVE  Applied(m, s, fs, seq, EventsApplied(s, fs, seq, st))
<1>1. PICK t : t = FoldLeft(ApplyFrame, s, fs) OBVIOUS
<1>2. Onward(m, s, fs, DOMAIN fs, t) BY <1>1, ApplyFramesState
<1>3. /\ t \in State /\ t.target = s.target /\ t.watermark \in Nat /\ s.watermark \in Nat
      /\ t.target \in Nat \cup {None} /\ t.status \in Statuses
  BY <1>2 DEF Onward, State
<1>4. PICK goal : goal = IF seq > t.watermark
                         THEN IF t.target # None /\ t.target > seq THEN t.target ELSE seq
                         ELSE t.target
  OBVIOUS
<1>5. /\ goal \in Nat \cup {None}
      /\ goal # None => goal <= m
      /\ t.watermark < seq => goal # None /\ seq <= goal
      /\ t.target # None => goal # None /\ t.target <= goal
  BY <1>3, <1>4, ChatAssumption
<1>6. PICK st2 : st2 = IF st = None THEN t.status ELSE st OBVIOUS
<1>7. st2 \in Statuses BY <1>3, <1>6
<1>8. PICK g2 : g2 = IF goal # None /\ t.watermark >= goal THEN None ELSE goal OBVIOUS
<1>9. /\ g2 \in Nat \cup {None}
      /\ g2 # None => g2 <= m
      /\ t.watermark < seq => g2 # None /\ seq <= g2
      /\ t.target # None /\ t.watermark < t.target => g2 # None /\ t.target <= g2
  BY <1>3, <1>5, <1>8
<1>10. PICK u : u = [t EXCEPT !.status = st2, !.target = g2] OBVIOUS
<1>11. /\ u \in State /\ u.messages = t.messages /\ u.watermark = t.watermark /\ u.target = g2
       /\ u.told = t.told /\ u.missed = t.missed /\ u.base = t.base
  BY <1>3, <1>7, <1>9, <1>10 DEF State
<1>12. EventsApplied(s, fs, seq, st) = u
  BY <1>1, <1>4, <1>6, <1>8, <1>10 DEF EventsApplied
<1> QED BY <1>2, <1>3, <1>9, <1>11, <1>12 DEF Applied, Onward

\* The rows above a place, and the page of them with their frames.
LEMMA RowsProperties ==
  ASSUME LogTypeOK, NEW n \in Nat
  PROVE  /\ Rows(n) \in Seq(Frame) /\ UpTo(Len(log), Rows(n))
         /\ Len(Rows(n)) = IF Len(log) > n THEN Len(log) - n ELSE 0
         /\ \A i \in 1 .. Len(Rows(n)) : /\ n + i \in 1 .. Len(log)
                                         /\ Rows(n)[i].seq = n + i
                                         /\ Rows(n)[i].kind = log[n + i]
<1>1. /\ Len(log) \in Nat /\ \A i \in 1 .. Len(log) : log[i] \in Kinds
  BY LenProperties DEF LogTypeOK
<1>2. PICK m : m = IF Len(log) > n THEN Len(log) - n ELSE 0 OBVIOUS
<1>3. m \in Nat /\ \A i \in 1 .. m : n + i \in 1 .. Len(log) BY <1>1, <1>2
<1>4. PICK rs : rs = [i \in 1 .. m |-> [seq |-> n + i, kind |-> log[n + i]]] OBVIOUS
<1>5. Rows(n) = rs BY <1>2, <1>4 DEF Rows
<1>6. ASSUME NEW i \in 1 .. m PROVE [seq |-> n + i, kind |-> log[n + i]] \in Frame
  BY <1>1, <1>3 DEF Frame
<1>7. rs \in Seq(Frame) /\ Len(rs) = m /\ DOMAIN rs = 1 .. m
  <2>1. rs \in [1 .. m -> Frame] BY <1>4, <1>6
  <2> QED BY <1>3, <2>1, SeqDef
<1>8. \A i \in 1 .. m : rs[i].seq = n + i /\ rs[i].kind = log[n + i] BY <1>4
<1>9. UpTo(Len(log), rs)
  <2>1. \A i \in 1 .. m : n + i <= Len(log) BY <1>1, <1>3
  <2> QED BY <1>7, <1>8, <2>1 DEF UpTo
<1> QED BY <1>2, <1>3, <1>5, <1>7, <1>8, <1>9

LEMMA PageSize ==
  ASSUME NEW a \in Nat, NEW b \in Nat, b >= 2, NEW m, m = IF a < b THEN a ELSE b
  PROVE  m \in Nat /\ m <= a /\ (m = a \/ m >= 2) /\ \A j \in 1 .. m : j \in 1 .. a
OBVIOUS

\* With pages of two rows and more, an empty page is the last one.
LEMMA EventsAfterProperties ==
  ASSUME LogTypeOK, Spaced(log), NEW n \in Nat
  PROVE  /\ EventsAfter(n) \in Seq(Frame) /\ UpTo(Len(log), EventsAfter(n))
         /\ EventsAfter(n) = <<>> => \A k \in n + 1 .. Len(log) : ~ HasFrame(log[k])
         /\ Exact(log, EventsAfter(n), n)
<1>1. PICK rs : rs = Rows(n) OBVIOUS
<1>2. /\ rs \in Seq(Frame) /\ UpTo(Len(log), rs)
      /\ Len(rs) = IF Len(log) > n THEN Len(log) - n ELSE 0
      /\ \A i \in 1 .. Len(rs) : /\ n + i \in 1 .. Len(log)
                                 /\ rs[i].seq = n + i
                                 /\ rs[i].kind = log[n + i]
  BY <1>1, RowsProperties
<1>3. Len(log) \in Nat /\ Len(rs) \in Nat /\ DOMAIN rs = 1 .. Len(rs)
  BY <1>2, LenProperties DEF LogTypeOK
<1>4. PICK m : m = IF Len(rs) < EventsPage THEN Len(rs) ELSE EventsPage OBVIOUS
<1>5. /\ m \in Nat /\ m <= Len(rs) /\ (m = Len(rs) \/ m >= 2)
      /\ \A j \in 1 .. m : j \in 1 .. Len(rs)
  <2>1. EventsPage \in Nat /\ EventsPage >= 2 BY ChatAssumption
  <2> QED BY <1>3, <1>4, <2>1, PageSize
<1>6. PICK ps : ps = SubSeq(rs, 1, m) OBVIOUS
<1>7. ps \in Seq(Frame) /\ Len(ps) = m /\ \A i \in 1 .. m : ps[i] = rs[i]
  <2>1. \A i \in 1 .. m : rs[i] \in Frame BY <1>2, <1>3, <1>5
  <2>2. /\ ps \in Seq(Frame) /\ Len(ps) = IF 1 <= m THEN m - 1 + 1 ELSE 0
        /\ \A i \in 1 .. m - 1 + 1 : ps[i] = rs[1 + i - 1]
    BY <1>5, <1>6, <2>1, SubSeqProperties
  <2>3. m - 1 + 1 = m /\ (~ 1 <= m => m = 0) /\ \A i \in 1 .. m : 1 + i - 1 = i BY <1>5
  <2> QED BY <2>2, <2>3
<1>8. DOMAIN ps = 1 .. m BY <1>7, LenProperties
<1>9. PICK es : es = EventsAfter(n) OBVIOUS
<1>10. ShownOf(ps, 1 .. m, es)
  <2>1. es = FoldLeft(Framed, <<>>, ps) BY <1>1, <1>4, <1>6, <1>9 DEF EventsAfter
  <2>2. \A i \in 1 .. m : ps[i].seq = n + i BY <1>2, <1>5, <1>7
  <2>3. Ordered(ps)
    <3> SUFFICES ASSUME NEW i \in 1 .. m, NEW k \in 1 .. m, i < k PROVE ps[i].seq < ps[k].seq
      BY <1>8 DEF Ordered
    <3>1. ps[i].seq = n + i /\ ps[k].seq = n + k BY <2>2
    <3> QED BY <1>5, <3>1
  <2> QED BY <1>7, <1>8, <2>1, <2>3, FramesOfRows
<1>11. es \in Seq(Frame) BY <1>10 DEF ShownOf
<1>12. UpTo(Len(log), es)
  <2> SUFFICES ASSUME NEW i \in DOMAIN es PROVE es[i].seq <= Len(log) BY DEF UpTo
  <2>1. PICK j \in 1 .. m : es[i] = ps[j] BY <1>10 DEF ShownOf
  <2>2. j \in DOMAIN rs /\ es[i] = rs[j] BY <1>3, <1>5, <1>7, <2>1
  <2> QED BY <1>2, <2>2 DEF UpTo
<1>13. ASSUME es = <<>>, NEW k \in n + 1 .. Len(log) PROVE ~ HasFrame(log[k])
  <2>1. ASSUME NEW j \in 1 .. m PROVE ~ HasFrame(log[n + j])
    <3>1. ~ HasFrame(ps[j].kind)
      <4>1. DOMAIN es = {} BY <1>13
      <4> QED BY <1>10, <4>1 DEF ShownOf
    <3>2. j \in 1 .. Len(rs) BY <1>5
    <3>3. ps[j] = rs[j] BY <1>7
    <3> QED BY <1>2, <3>1, <3>2, <3>3
  <2>2. CASE m = Len(rs)
    <3>1. k - n \in 1 .. m /\ n + (k - n) = k BY <1>2, <1>3, <1>13, <2>2
    <3> QED BY <2>1, <3>1
  <2>3. CASE m >= 2
    <3>1. 1 \in 1 .. m /\ 2 \in 1 .. m BY <1>5, <2>3
    <3>2. ~ HasFrame(log[n + 1]) /\ ~ HasFrame(log[n + 2]) BY <2>1, <3>1
    <3>3. n + 1 \in 1 .. Len(log) - 1 /\ (n + 1) + 1 = n + 2
      BY <1>2, <1>3, <1>5, <2>3
    <3> QED BY <3>2, <3>3 DEF Spaced
  <2> QED BY <1>5, <2>2, <2>3
<1>14. ASSUME NEW i \in DOMAIN es, NEW k \in n + 1 .. es[i].seq, HasFrame(log[k])
       PROVE  \E x \in DOMAIN es : es[x].seq = k
  <2>1. PICK j \in 1 .. m : es[i] = ps[j] BY <1>10 DEF ShownOf
  <2>2. j \in 1 .. Len(rs) /\ ps[j] = rs[j] /\ rs[j].seq = n + j BY <1>2, <1>5, <1>7
  <2>3. k - n \in 1 .. m /\ n + (k - n) = k BY <1>5, <1>14, <2>1, <2>2
  <2>4. PICK p : p = k - n OBVIOUS
  <2>5. p \in 1 .. Len(rs) /\ ps[p] = rs[p] BY <1>5, <1>7, <2>3, <2>4
  <2>6. ps[p].seq = k /\ ps[p].kind = log[k] BY <1>2, <2>3, <2>4, <2>5
  <2>7. PICK x \in DOMAIN es : es[x] = ps[p] BY <1>10, <1>14, <2>3, <2>4, <2>6 DEF ShownOf
  <2> QED BY <2>6, <2>7
<1>15. Exact(log, es, n) BY <1>10, <1>14 DEF ShownOf, Exact
<1> QED BY <1>9, <1>11, <1>12, <1>13, <1>15

LEMMA SavedProperties ==
  ASSUME LogTypeOK, NEW n \in Nat
  PROVE  SavedAfter(n) \subseteq SavedAfter(0) /\ SavedAfter(n) \in SUBSET Nat
<1>1. Len(log) \in Nat BY LenProperties DEF LogTypeOK
<1> QED BY <1>1 DEF SavedAfter

\* A log that was only added to has the messages it had.
LEMMA SavedGrows ==
  ASSUME LogTypeOK, LogTypeOK', Grows(log')
  PROVE  SavedAfter(0) \subseteq SavedAfter(0)'
<1>1. PICK M : M = log' OBVIOUS
<1>2. Len(log) \in Nat /\ Len(M) \in Nat /\ Grows(M)
  BY <1>1, LenProperties DEF LogTypeOK
<1>3. ASSUME NEW i \in 1 .. Len(log) PROVE i \in 1 .. Len(M) /\ M[i] = log[i]
  BY <1>2 DEF Grows
<1> QED BY <1>1, <1>2, <1>3 DEF SavedAfter

--------------------------------------------------------------------------------
(* The page: every step keeps the invariant *)

LEMMA PageSizes ==
  ASSUME ChatTypes
  PROVE  /\ LogTypeOK /\ Len(log) \in Nat
         /\ Len(wire) \in Nat /\ DOMAIN wire = 1 .. Len(wire)
         /\ \A w \in Writers : /\ frames[w] \in Seq(Frame) /\ Len(frames[w]) \in Nat
                               /\ DOMAIN frames[w] = 1 .. Len(frames[w])
         /\ shown.watermark \in Nat /\ shown.target \in Nat \cup {None}
         /\ shown.refetch \in Nat \cup {None} /\ shown.status \in Statuses
BY LenProperties DEF ChatTypes, LogTypeOK, State

\* The reducer has a new state, of what is in the log.
LEMMA ShowInvariant ==
  ASSUME PageInv, UNCHANGED logVars, NEW s \in State, Show(s),
         s.watermark <= Len(log), s.target # None => s.target <= Len(log),
         s.messages \subseteq SavedAfter(0),
         wire' \in Seq(Frame), UpTo(Len(log), wire'), link' # "open" => wire' = <<>>,
         link' \in {"loading", "connecting", "open", "waiting", "reconciling"},
         cursor' \in Nat, cursor' <= Len(log), load' = load, events' = events \/ events' = None,
         op' = op \/ op' = None, faults' \in Nat
  PROVE  PageInv'
<1>1. /\ shown' = s
      /\ refetched' = refetched \/ refetched' = None
      /\ page' = IF s.target = shown.target /\ s.watermark = shown.watermark THEN page ELSE None
  BY DEF Show
<1>2. final' = final \/ \E n \in Nat : final' = Refresh(n)
  <2>1. s.watermark \in Nat /\ 0 \in Nat BY DEF State
  <2> QED BY <2>1 DEF Show
<1>3. /\ final' \in FinalAnswers /\ final'.messages \subseteq SavedAfter(0)
  <2>1. CASE final' = final BY <2>1 DEF PageInv, ChatTypes, Texts
  <2>2. ASSUME NEW n \in Nat, final' = Refresh(n)
        PROVE  final' \in FinalAnswers /\ final'.messages \subseteq SavedAfter(0)
    BY <2>2 DEF Refresh, FinalAnswers
  <2> QED BY <1>2, <2>1, <2>2
<1>4. /\ log' = log /\ status' = status /\ round' = round /\ pump' = pump /\ fence' = fence
      /\ unsaved' = unsaved /\ frames' = frames
  BY DEF logVars, taskVars, pumpVars
<1>5. SavedAfter(0)' = SavedAfter(0) BY <1>4 DEF SavedAfter
<1>6. ChatTypes' BY <1>1, <1>3, <1>4 DEF PageInv, ChatTypes, LogTypeOK
<1>7. Spaced(log)' BY <1>4 DEF PageInv, Spaced
<1>8. Within'
  <2>1. UpTo(Len(log), wire)' BY <1>4 DEF UpTo
  <2>2. \A w \in Writers : UpTo(Len(log), frames[w])' BY <1>4 DEF PageInv, Within, UpTo
  <2>3. events' # None => events'.seq <= Len(log) /\ UpTo(Len(log), events.list)'
    BY <1>4 DEF PageInv, Within, UpTo
  <2>4. page' # None => UpTo(Len(log), page)' BY <1>1, <1>4 DEF PageInv, Within, UpTo
  <2> QED BY <1>1, <1>4, <2>1, <2>2, <2>3, <2>4 DEF PageInv, Within
<1>9. Texts' BY <1>1, <1>3, <1>5 DEF PageInv, Texts
<1>10. NothingLeft'
  <2>1. None # <<>> BY ChatAssumption
  <2> QED BY <1>1, <1>4, <2>1 DEF PageInv, NothingLeft
<1> QED BY <1>6, <1>7, <1>8, <1>9, <1>10 DEF PageInv

\* The log is only added to, and the frames that wait are of it.
Added == LogTypeOK' /\ Grows(log') /\ \A w \in Writers : UpTo(Len(log'), frames'[w])

LEMMA StepAdds ==
  ASSUME PageInv, LogStep
  PROVE  Added
<1>1. PICK M : M = log' OBVIOUS
<1>2. /\ Len(M) \in Nat /\ Len(log) \in Nat /\ Grows(M) /\ Leaves(M, frames')
      /\ frames' \in [Writers -> Seq(Frame)] /\ LogTypeOK'
  <2>1. LogTypeOK /\ LogTypeOK' BY DEF PageInv, ChatTypes, LogStep
  <2>2. Len(log) \in Nat /\ Len(M) \in Nat BY <1>1, <2>1, LenProperties DEF LogTypeOK
  <2> QED BY <1>1, <2>1, <2>2 DEF LogStep, Moved
<1>3. Len(log) <= Len(M) BY <1>2 DEF Grows
<1>4. \A w \in Writers : UpTo(Len(M), frames'[w])
  <2> SUFFICES ASSUME NEW w \in Writers, NEW i \in DOMAIN frames'[w]
               PROVE  frames'[w][i].seq <= Len(M)
    BY DEF UpTo
  <2>1. frames'[w] \in Seq(Frame) BY <1>2
  <2>2. frames'[w][i] \in Frame BY <2>1
  <2>3. frames'[w][i].seq \in Nat BY <2>2 DEF Frame
  <2>4. CASE frames'[w] = frames[w]
    <3>1. frames[w][i].seq <= Len(log) BY <2>4 DEF PageInv, Within, UpTo
    <3> QED BY <1>2, <1>3, <2>3, <2>4, <3>1
  <2>5. CASE Logged(M, frames'[w][i])
    <3>1. frames'[w][i].seq = 0 => frames'[w][i].seq <= Len(M) BY <1>2
    <3> QED BY <2>5, <3>1 DEF Logged
  <2> QED BY <1>2, <2>4, <2>5 DEF Leaves
<1> QED BY <1>1, <1>2, <1>4 DEF Added

\* What a step does that leaves the reducer alone: what it brings to the page is of the log.
Brought ==
    /\ load' = load \/ load'.task = None \/ load'.task.seq <= Len(log)
    /\ op' = op \/ op' = None \/ op'.kind # "send" \/ op'.seq <= Len(log')
    /\ \/ events' = events \/ events' = None
       \/ events'.seq <= Len(log) /\ UpTo(Len(log), events'.list)
    /\ \/ page' = page
       \/ UpTo(Len(log), page') /\ NothingLeft'
    /\ link' # "open" => wire' = <<>>
    /\ UpTo(Len(log'), wire')

LEMMA KeepInvariant ==
  ASSUME PageInv, ChatTypes', Spaced(log'), Added, UNCHANGED <<cursor, shown>>, Brought, Texts'
  PROVE  PageInv'
<1>1. PICK M : M = log' OBVIOUS
<1>2. /\ Len(M) \in Nat /\ Len(log) \in Nat /\ Grows(M)
      /\ \A w \in Writers : UpTo(Len(M), frames'[w])
  <2>1. LogTypeOK /\ LogTypeOK' BY DEF PageInv, ChatTypes
  <2>2. Len(log) \in Nat /\ Len(M) \in Nat BY <1>1, <2>1, LenProperties DEF LogTypeOK
  <2> QED BY <1>1, <2>2 DEF Added
<1>3. Len(log) <= Len(M) BY <1>2 DEF Grows
<1>5. \A fs \in Seq(Frame) : UpTo(Len(log), fs) => UpTo(Len(M), fs)
  <2> SUFFICES ASSUME NEW fs \in Seq(Frame), UpTo(Len(log), fs), NEW i \in DOMAIN fs
               PROVE  fs[i].seq <= Len(M)
    BY DEF UpTo
  <2>1. fs[i] \in Frame OBVIOUS
  <2>2. fs[i].seq \in Nat /\ fs[i].seq <= Len(log) BY <2>1 DEF Frame, UpTo
  <2> QED BY <1>2, <1>3, <2>2
<1>6. cursor' <= Len(M) /\ shown'.watermark <= Len(M)
      /\ (shown'.target # None => shown'.target <= Len(M))
  BY <1>2, <1>3 DEF PageInv, ChatTypes, Within, State
<1>7. load'.task # None => load'.task.seq <= Len(M)
  <2>1. load'.task # None => load'.task.seq \in Nat BY DEF ChatTypes, LoadAnswers
  <2>2. load'.task # None => load'.task.seq <= Len(log) BY DEF PageInv, Within, Brought
  <2> QED BY <1>2, <1>3, <2>1, <2>2
<1>8. op' # None /\ op'.kind = "send" => op'.seq <= Len(M)
  <2> SUFFICES ASSUME op' # None, op'.kind = "send" PROVE op'.seq <= Len(M) OBVIOUS
  <2>1. op' \in SendAnswers BY DEF ChatTypes, EndAnswers
  <2>2. op'.seq \in Nat BY <2>1 DEF SendAnswers
  <2>3. CASE op' = op
    <3>1. op'.seq <= Len(log) BY <2>3 DEF PageInv, Within
    <3> QED BY <1>2, <1>3, <2>2, <3>1
  <2> QED BY <1>1, <2>3 DEF Brought
<1>9. events' # None => events'.seq <= Len(M) /\ UpTo(Len(M), events'.list)
  <2> SUFFICES ASSUME events' # None PROVE events'.seq <= Len(M) /\ UpTo(Len(M), events'.list)
    OBVIOUS
  <2>1. events'.seq \in Nat /\ events'.list \in Seq(Frame) BY DEF ChatTypes, EventAnswers
  <2>2. events'.seq <= Len(log) /\ UpTo(Len(log), events'.list)
    BY DEF PageInv, Within, Brought
  <2> QED BY <1>2, <1>3, <1>5, <2>1, <2>2
<1>10. page' # None => UpTo(Len(M), page')
  <2> SUFFICES ASSUME page' # None PROVE UpTo(Len(M), page') OBVIOUS
  <2>1. page' \in Seq(Frame) BY DEF ChatTypes
  <2>2. UpTo(Len(log), page') BY DEF PageInv, Within, Brought
  <2> QED BY <1>5, <2>1, <2>2
<1>11. Within' BY <1>1, <1>2, <1>6, <1>7, <1>8, <1>9, <1>10 DEF Within, Brought
<1>12. NothingLeft'
  <2>1. CASE page' = page
    <3> SUFFICES ASSUME page = <<>>
                 PROVE  /\ shown.target # None
                        /\ \A n \in shown.watermark + 1 .. shown.target : ~ HasFrame(M[n])
      BY <1>1, <2>1 DEF NothingLeft
    <3>1. shown.target # None BY DEF PageInv, NothingLeft
    <3>2. shown.target \in Nat /\ shown.watermark \in Nat /\ shown.target <= Len(log)
      BY <3>1, PageSizes DEF PageInv, Within
    <3>3. ASSUME NEW n \in shown.watermark + 1 .. shown.target PROVE ~ HasFrame(M[n])
      <4>1. n \in 1 .. Len(log) BY <1>2, <3>2
      <4>2. M[n] = log[n] BY <1>2, <4>1 DEF Grows
      <4>3. ~ HasFrame(log[n]) BY DEF PageInv, NothingLeft
      <4> QED BY <4>2, <4>3
    <3> QED BY <3>1, <3>3
  <2> QED BY <2>1 DEF Brought
<1> QED BY <1>11, <1>12 DEF PageInv

LEMMA KeptLogs ==
  ASSUME PageInv, UNCHANGED logVars
  PROVE  Added
<1>1. LogTypeOK BY DEF PageInv, ChatTypes
<1>2. log' = log /\ frames' = frames BY DEF logVars, taskVars
<1>3. Moved BY <1>1, <1>2, SameLogs
<1>4. LogStep BY <1>1, <1>3 DEF LogStep, LogTypeOK, logVars, taskVars, pumpVars
<1> QED BY <1>4, StepAdds

--------------------------------------------------------------------------------
(* The page: the steps *)

\* A step keeps the invariant, and the cover of the cursors.
ChatStep == Cover => PageInv' /\ Cover'

\* What a step does that leaves the reducer alone: frames that were on their way stay
\* there while the stream is open, and a page of events begins where it is to be applied.
CoverBrought ==
    /\ link' = "open" => /\ link = "open"
                         /\ \A i \in DOMAIN wire : i \in DOMAIN wire' /\ wire'[i] = wire[i]
    /\ events' # None => \/ events' = events /\ link' = link
                         \/ link' = "reconciling" /\ Exact(log, events'.list, cursor)
    /\ page' # None => page' = page \/ Exact(log, page', shown.watermark)

LEMMA ExactKept ==
  ASSUME LogTypeOK, NEW M, Grows(M), NEW fs \in Seq(Frame), UpTo(Len(log), fs),
         NEW from \in Nat, Exact(log, fs, from)
  PROVE  Exact(M, fs, from)
<1>1. Len(log) \in Nat BY LenProperties DEF LogTypeOK
<1>2. ASSUME NEW i \in DOMAIN fs, NEW n \in from + 1 .. fs[i].seq, HasFrame(M[n])
      PROVE  \E k \in DOMAIN fs : fs[k].seq = n
  <2>1. fs[i] \in Frame /\ fs[i].seq <= Len(log) BY LenProperties DEF UpTo
  <2>2. fs[i].seq \in Nat BY <2>1 DEF Frame
  <2>3. n \in 1 .. Len(log) BY <1>1, <2>1, <2>2
  <2>4. M[n] = log[n] BY <2>3 DEF Grows
  <2> QED BY <1>2, <2>4 DEF Exact
<1> QED BY <1>2 DEF Exact

LEMMA KeepCover ==
  ASSUME PageInv, PageInv', Added, UNCHANGED <<cursor, shown>>, Brought,
         CoverBrought, Cover
  PROVE  Cover'
<1>1. PICK M : M = log' OBVIOUS
<1>2. /\ Grows(M) /\ Len(M) \in Nat /\ Len(log) \in Nat /\ Len(log) <= Len(M)
      /\ \A n \in 1 .. Len(log) : M[n] = log[n]
  <2>1. LogTypeOK /\ LogTypeOK' BY DEF PageInv, ChatTypes
  <2>2. Len(log) \in Nat /\ Len(M) \in Nat BY <1>1, <2>1, LenProperties DEF LogTypeOK
  <2> QED BY <1>1, <2>2 DEF Added, Grows
<1>3. /\ cursor \in Nat /\ shown.watermark \in Nat /\ shown.base \in Nat
      /\ cursor <= Len(log) /\ shown.watermark <= Len(log) /\ LogTypeOK
  BY DEF PageInv, ChatTypes, Within, State
<1>4. Covered'
  <2> SUFFICES ASSUME NEW n \in 1 .. Len(M), n <= shown.watermark \/ n <= cursor, HasFrame(M[n])
               PROVE  n \in Known(shown)
    BY <1>1 DEF Covered, KnownAt, Known, Pending
  <2>1. n \in 1 .. Len(log) BY <1>2, <1>3
  <2>2. M[n] = log[n] BY <1>2, <2>1
  <2> QED BY <2>1, <2>2 DEF Cover, Covered, KnownAt
<1>5. OnTheWay'
  <2> SUFFICES ASSUME link' = "open"
               PROVE  /\ shown.base <= Len(M)
                      /\ \A n \in cursor + 1 .. shown.base :
                            HasFrame(M[n]) =>
                               \E i \in DOMAIN wire' :
                                  /\ wire'[i].seq = n /\ wire'[i].kind = M[n]
                                  /\ \A j \in 1 .. i - 1 : wire'[j].seq < n
    BY <1>1 DEF OnTheWay
  <2>1. link = "open" /\ \A i \in DOMAIN wire : i \in DOMAIN wire' /\ wire'[i] = wire[i]
    BY DEF CoverBrought
  <2>2. shown.base <= Len(log) BY <2>1 DEF Cover, OnTheWay
  <2>3. ASSUME NEW n \in cursor + 1 .. shown.base, HasFrame(M[n])
        PROVE  \E i \in DOMAIN wire' : /\ wire'[i].seq = n /\ wire'[i].kind = M[n]
                                        /\ \A j \in 1 .. i - 1 : wire'[j].seq < n
    <3>1. n \in 1 .. Len(log) BY <1>2, <1>3, <2>2
    <3>2. M[n] = log[n] BY <1>2, <3>1
    <3>3. PICK i \in DOMAIN wire : /\ wire[i].seq = n /\ wire[i].kind = log[n]
                                   /\ \A j \in 1 .. i - 1 : wire[j].seq < n
      BY <2>1, <2>3, <3>2 DEF Cover, OnTheWay
    <3>4. \A j \in 1 .. i - 1 : j \in DOMAIN wire
      <4>1. Len(wire) \in Nat /\ DOMAIN wire = 1 .. Len(wire) BY PageSizes DEF PageInv
      <4> QED BY <3>3, <4>1
    <3> QED BY <2>1, <3>2, <3>3, <3>4
  <2> QED BY <1>2, <1>3, <2>2, <2>3
<1>6. ASSUME NEW fs \in Seq(Frame), UpTo(Len(log), fs), NEW from \in Nat, Exact(log, fs, from)
      PROVE  Exact(M, fs, from)
  BY <1>2, <1>3, <1>6, ExactKept
<1>7. ASSUME events' # None PROVE link' = "reconciling" /\ Exact(M, events'.list, cursor)
  <2>1. link' = "reconciling" /\ Exact(log, events'.list, cursor)
    BY <1>7 DEF CoverBrought, Cover, Answered
  <2>2. events'.list \in Seq(Frame) BY <1>7 DEF PageInv, ChatTypes, EventAnswers
  <2>3. UpTo(Len(log), events'.list) BY <1>7 DEF PageInv, Within, Brought
  <2> QED BY <1>3, <1>6, <2>1, <2>2, <2>3
<1>8. ASSUME page' # None PROVE Exact(M, page', shown.watermark)
  <2>1. Exact(log, page', shown.watermark) BY <1>8 DEF CoverBrought, Cover, Answered
  <2>2. page' \in Seq(Frame) BY <1>8 DEF PageInv, ChatTypes
  <2>3. UpTo(Len(log), page') BY <1>8 DEF PageInv, Within, Brought
  <2> QED BY <1>3, <1>6, <2>1, <2>2, <2>3
<1>9. Answered' BY <1>1, <1>7, <1>8 DEF Answered
<1> QED BY <1>4, <1>5, <1>9 DEF Cover

\* Steps of the server.
LEMMA WriterPageStep ==
  ASSUME PageInv, Added, Spaced(log'),
         UNCHANGED <<wire, link, cursor, shown, load, events, page, refetched, final, faults>>,
         op' \in {None} \cup SendAnswers \cup EndAnswers,
         op' = op \/ op'.kind # "send" \/ op'.seq <= Len(log')
  PROVE  ChatStep
<1>1. UNCHANGED <<wire, link, cursor, shown, load, events, page, refetched, final, faults>>
  OBVIOUS
<1>2. LogTypeOK /\ LogTypeOK' BY DEF Added, PageInv, ChatTypes
<1>3. ChatTypes' BY <1>1, <1>2 DEF PageInv, ChatTypes
<1>4. SavedAfter(0) \subseteq SavedAfter(0)' BY <1>2, SavedGrows DEF Added
<1>5. Texts' BY <1>1, <1>4 DEF PageInv, Texts
<1>6. UpTo(Len(log'), wire')
  <2> SUFFICES ASSUME NEW i \in DOMAIN wire PROVE wire[i].seq <= Len(log') BY DEF UpTo
  <2>1. wire[i] \in Frame /\ wire[i].seq <= Len(log) BY DEF PageInv, ChatTypes, Within, UpTo
  <2>2. Len(log) \in Nat /\ Len(log') \in Nat /\ Len(log) <= Len(log') /\ wire[i].seq \in Nat
    BY <1>2, <2>1, LenProperties DEF Added, Grows, LogTypeOK, Frame
  <2> QED BY <2>1, <2>2
<1>7. link' # "open" => wire' = <<>> BY <1>1 DEF PageInv, Within
<1>8. Brought BY <1>1, <1>6, <1>7 DEF Brought
<1>9. PageInv' BY <1>1, <1>3, <1>5, <1>8, KeepInvariant
<1>10. CoverBrought BY <1>1 DEF CoverBrought
<1> QED BY <1>1, <1>8, <1>9, <1>10, KeepCover DEF ChatStep

LEMMA LoopsPageStep ==
  ASSUME PageInv, LoopsWrite, UNCHANGED <<wire, pageVars>>
  PROVE  ChatStep
<1>1. LogTypeOK /\ Spaced(log) BY DEF PageInv, ChatTypes
<1>2. LogStep
  BY <1>1, ClaimLogs, RequeueLogs, EndRoundLogs, CancelLogs, ReconcileLogs, StartLogs, ToolLogs,
     AssistantLogs, FailsLogs, SettledLogs, SettleLogs, PumpEndsLogs
  DEF LoopsWrite
<1>3. Spaced(log') BY <1>1, LoopsSpaced DEF Spaced
<1>4. UNCHANGED <<link, cursor, shown, load, events, page, refetched, final, op, faults>>
  BY DEF pageVars, answerVars
<1>5. op' \in {None} \cup SendAnswers \cup EndAnswers BY <1>4 DEF PageInv, ChatTypes
<1> QED BY <1>2, <1>3, <1>4, <1>5, StepAdds, WriterPageStep

LEMMA PublishPageStep ==
  ASSUME PageInv, NEW w \in Writers, PublishToPage(w)
  PROVE  ChatStep
<1>1. UNCHANGED <<link, cursor, shown, load, events, page, refetched, final, op, faults>>
      /\ UNCHANGED <<log, status, round, pump, fence, unsaved>>
  BY DEF PublishToPage, pageVars, answerVars, taskVars, pumpVars
<1>2. frames' = [frames EXCEPT ![w] = <<>>] BY DEF PublishToPage, Published
<1>3. LogTypeOK BY DEF PageInv, ChatTypes
<1>4. frames' \in [Writers -> Seq(Frame)]
  <2>1. frames \in [Writers -> Seq(Frame)] /\ <<>> \in Seq(Frame) BY <1>3 DEF LogTypeOK
  <2> QED BY <1>2, <2>1
<1>5. LogTypeOK' BY <1>1, <1>3, <1>4 DEF LogTypeOK
<1>6. frames[w] \in Seq(Frame) /\ Len(frames[w]) \in Nat /\ Len(wire) \in Nat
      /\ Len(log) \in Nat /\ wire \in Seq(Frame) /\ PageQueueMax \in Nat
  BY PageSizes, ChatAssumption DEF PageInv, ChatTypes
<1>7. PICK room : room = IF Len(wire) < PageQueueMax THEN PageQueueMax - Len(wire) ELSE 0 OBVIOUS
<1>8. PICK m : m = IF Len(frames[w]) < room THEN Len(frames[w]) ELSE room OBVIOUS
<1>9. m \in Nat /\ m <= Len(frames[w]) BY <1>6, <1>7, <1>8
<1>10. PICK sent : sent = SubSeq(frames[w], 1, m) OBVIOUS
<1>11. /\ sent \in Seq(Frame) /\ Len(sent) = m
       /\ \A i \in 1 .. m : sent[i] = frames[w][i] /\ i \in DOMAIN frames[w]
  <2>1. \A i \in 1 .. m : frames[w][i] \in Frame /\ i \in DOMAIN frames[w]
    <3> SUFFICES ASSUME NEW i \in 1 .. m PROVE frames[w][i] \in Frame /\ i \in DOMAIN frames[w]
      OBVIOUS
    <3>1. i \in 1 .. Len(frames[w]) BY <1>6, <1>9
    <3> QED BY <1>6, <3>1, ElementOfSeq, LenProperties
  <2>2. /\ sent \in Seq(Frame) /\ Len(sent) = IF 1 <= m THEN m - 1 + 1 ELSE 0
        /\ \A i \in 1 .. m - 1 + 1 : sent[i] = frames[w][1 + i - 1]
    BY <1>9, <1>10, <2>1, SubSeqProperties
  <2>3. m - 1 + 1 = m /\ (~ 1 <= m => m = 0) /\ \A i \in 1 .. m : 1 + i - 1 = i BY <1>9
  <2> QED BY <2>1, <2>2, <2>3
<1>12. wire' = IF link = "open" THEN wire \o sent ELSE wire
  BY <1>7, <1>8, <1>10 DEF PublishToPage
<1>13. UpTo(Len(log), wire) /\ UpTo(Len(log), frames[w]) BY DEF PageInv, Within
<1>14. /\ wire' \in Seq(Frame) /\ UpTo(Len(log), wire')
       /\ \A i \in DOMAIN wire : i \in DOMAIN wire' /\ wire'[i] = wire[i]
  <2>1. PICK both : both = wire \o sent OBVIOUS
  <2>2. /\ both \in Seq(Frame) /\ Len(both) = Len(wire) + m
        /\ \A i \in 1 .. Len(wire) + m :
              both[i] = IF i <= Len(wire) THEN wire[i] ELSE sent[i - Len(wire)]
    <3>1. sent \in Seq(Frame) /\ Len(sent) = m BY <1>11
    <3> QED BY <1>6, <2>1, <3>1, ConcatProperties
  <2>3. DOMAIN both = 1 .. Len(wire) + m /\ DOMAIN wire = 1 .. Len(wire)
    BY <1>6, <2>2, LenProperties
  <2>4. ASSUME NEW i \in DOMAIN both PROVE both[i].seq <= Len(log)
    <3>1. CASE i <= Len(wire)
      <4>1. i \in DOMAIN wire /\ both[i] = wire[i] BY <1>6, <1>9, <2>2, <2>3, <3>1
      <4> QED BY <1>13, <4>1 DEF UpTo
    <3>2. CASE ~ i <= Len(wire)
      <4>1. i - Len(wire) \in 1 .. m /\ both[i] = sent[i - Len(wire)]
        BY <1>6, <1>9, <2>2, <2>3, <3>2
      <4> QED BY <1>11, <1>13, <4>1 DEF UpTo
    <3> QED BY <3>1, <3>2
  <2>5. \A i \in DOMAIN wire : i \in DOMAIN both /\ both[i] = wire[i]
    BY <1>6, <1>9, <2>2, <2>3
  <2> QED BY <1>6, <1>12, <1>13, <2>1, <2>2, <2>4, <2>5 DEF UpTo
<1>15. ChatTypes' BY <1>1, <1>5, <1>14 DEF PageInv, ChatTypes
<1>16. Added
  <2>1. Grows(log') BY <1>1, <1>3 DEF Grows, LogTypeOK
  <2>2. ASSUME NEW v \in Writers PROVE UpTo(Len(log'), frames'[v])
    <3>1. UpTo(Len(log), frames[v]) BY DEF PageInv, Within
    <3>2. frames'[v] = frames[v] \/ frames'[v] = <<>> BY <1>2, <1>3 DEF LogTypeOK
    <3> QED BY <1>1, <3>1, <3>2 DEF UpTo
  <2> QED BY <1>5, <2>1, <2>2 DEF Added
<1>17. Spaced(log') /\ Texts'
  BY <1>1 DEF PageInv, Spaced, Texts, SavedAfter
<1>18. link' # "open" => wire' = <<>> BY <1>1, <1>12 DEF PageInv, Within
<1>19. UpTo(Len(log'), wire') BY <1>1, <1>14
<1>20. Brought BY <1>1, <1>18, <1>19 DEF Brought
<1>21. PageInv' BY <1>1, <1>15, <1>16, <1>17, <1>20, KeepInvariant
<1>22. CoverBrought BY <1>1, <1>14 DEF CoverBrought
<1> QED BY <1>1, <1>16, <1>20, <1>21, <1>22, KeepCover DEF ChatStep

\* Steps of the page that leave the reducer as it is.
LEMMA ClientKeeps ==
  ASSUME PageInv, UNCHANGED <<logVars, cursor, shown>>, ChatTypes', Brought, Texts',
         CoverBrought
  PROVE  ChatStep
<1>1. Added BY KeptLogs
<1>2. Spaced(log') BY DEF PageInv, logVars, taskVars
<1>3. PageInv' BY <1>1, <1>2, KeepInvariant
<1> QED BY <1>1, <1>3, KeepCover DEF ChatStep

LEMMA SameSaved ==
  ASSUME UNCHANGED logVars
  PROVE  /\ log' = log /\ SavedAfter(0)' = SavedAfter(0) /\ (LogTypeOK => LogTypeOK')
BY DEF logVars, taskVars, pumpVars, SavedAfter, LogTypeOK

LEMMA SnapshotType ==
  ASSUME LogTypeOK
  PROVE  /\ Snapshot \in [seq : Nat, status : Statuses] /\ Snapshot.seq = Len(log)
         /\ Len(log) \in Nat /\ status \in Statuses
<1>1. Len(log) \in Nat /\ status \in Statuses BY LenProperties DEF LogTypeOK
<1> QED BY <1>1 DEF Snapshot

LEMMA FaultType ==
  ASSUME ChatTypes, Fault
  PROVE  faults' \in Nat /\ faults' # faults
BY DEF ChatTypes, Fault

LEMMA ReadLoadStep ==
  ASSUME PageInv, ReadLoad
  PROVE  ChatStep
<1>1. /\ UNCHANGED <<logVars, cursor, shown>>
      /\ UNCHANGED <<wire, link, events, page, refetched, final, op, faults>>
  BY DEF ReadLoad
<1>2. /\ log' = log /\ SavedAfter(0)' = SavedAfter(0) /\ LogTypeOK /\ LogTypeOK'
  BY <1>1, SameSaved DEF PageInv, ChatTypes
<1>3. /\ Snapshot \in [seq : Nat, status : Statuses] /\ Snapshot.seq = Len(log)
      /\ Len(log) \in Nat
  BY <1>2, SnapshotType
<1>4. SavedAfter(0) \in SUBSET Nat BY <1>2, SavedProperties
<1>5. load \in LoadAnswers BY DEF PageInv, ChatTypes
<1>6. PICK snap, texts : snap = Snapshot /\ texts = SavedAfter(0) OBVIOUS
<1>7. \/ load' = [load EXCEPT !.task = snap]
      \/ load' = [load EXCEPT !.messages = texts]
  BY <1>6 DEF ReadLoad
<1>8. /\ load' \in LoadAnswers
      /\ load'.task = load.task \/ load'.task = snap
      /\ load'.messages = load.messages \/ load'.messages = texts
  BY <1>3, <1>4, <1>5, <1>6, <1>7 DEF LoadAnswers
<1>9. ChatTypes' BY <1>1, <1>2, <1>8 DEF PageInv, ChatTypes
<1>10. Brought
  <2>1. load'.task = None \/ load'.task.seq <= Len(log)
    BY <1>3, <1>6, <1>8 DEF PageInv, Within
  <2> QED BY <1>1, <1>2, <2>1 DEF Brought, PageInv, Within
<1>11. Texts' BY <1>1, <1>2, <1>6, <1>8 DEF PageInv, Texts
<1>12. CoverBrought BY <1>1 DEF CoverBrought
<1> QED BY <1>1, <1>9, <1>10, <1>11, <1>12, ClientKeeps

LEMMA LinkStep ==
  ASSUME PageInv, ConnectFails \/ LinkBreaks
  PROVE  ChatStep
<1>1. /\ UNCHANGED <<logVars, cursor, shown>>
      /\ UNCHANGED <<load, events, page, refetched, final, op>>
      /\ link \in {"connecting", "open"} /\ link' = "waiting" /\ wire' = <<>>
      /\ faults' \in Nat
  BY FaultType DEF PageInv, Within, ConnectFails, LinkBreaks, answerVars, ChatTypes
<1>2. /\ log' = log /\ SavedAfter(0)' = SavedAfter(0) /\ LogTypeOK /\ LogTypeOK'
  BY <1>1, SameSaved DEF PageInv, ChatTypes
<1>3. wire' \in Seq(Frame) /\ UpTo(Len(log), wire') BY <1>1 DEF UpTo
<1>4. ChatTypes' BY <1>1, <1>2, <1>3 DEF PageInv, ChatTypes
<1>5. Brought BY <1>1, <1>2, <1>3 DEF Brought
<1>6. Texts' BY <1>1, <1>2 DEF PageInv, Texts
<1>7. PageInv' BY <1>1, <1>2, <1>4, <1>5, <1>6, KeptLogs, KeepInvariant DEF PageInv
<1>8. ASSUME Cover PROVE Cover'
  <2>1. events = None BY <1>1, <1>8 DEF Cover, Answered
  <2>2. CoverBrought BY <1>1, <2>1 DEF CoverBrought
  <2> QED BY <1>1, <1>5, <1>7, <1>8, <2>2, KeptLogs, KeepCover
<1> QED BY <1>7, <1>8 DEF ChatStep

LEMMA ReconnectStep ==
  ASSUME PageInv, Reconnect \/ ReadEvents \/ ReconcileFails
  PROVE  ChatStep
<1>1. /\ UNCHANGED <<logVars, cursor, shown>>
      /\ UNCHANGED <<wire, load, page, refetched, final, op, faults>>
      /\ link' \in {"waiting", "reconciling"} /\ link # "open"
      /\ \/ events' = None
         \/ /\ link' = "reconciling"
            /\ events' = [list |-> EventsAfter(cursor), seq |-> Len(log), status |-> status]
  BY DEF Reconnect, ReadEvents, ReconcileFails
<1>2. /\ log' = log /\ SavedAfter(0)' = SavedAfter(0) /\ LogTypeOK /\ LogTypeOK' /\ Spaced(log)
  BY <1>1, SameSaved DEF PageInv, ChatTypes
<1>3. cursor \in Nat BY DEF PageInv, ChatTypes
<1>4. /\ EventsAfter(cursor) \in Seq(Frame) /\ UpTo(Len(log), EventsAfter(cursor))
      /\ Exact(log, EventsAfter(cursor), cursor)
  BY <1>2, <1>3, EventsAfterProperties
<1>5. Len(log) \in Nat /\ status \in Statuses BY <1>2, SnapshotType
<1>6. PICK a : a = [list |-> EventsAfter(cursor), seq |-> Len(log), status |-> status] OBVIOUS
<1>7. /\ a \in EventAnswers /\ a.seq <= Len(log) /\ UpTo(Len(log), a.list)
      /\ Exact(log, a.list, cursor)
  BY <1>4, <1>5, <1>6 DEF EventAnswers
<1>8. events' = None \/ (events' = a /\ link' = "reconciling") BY <1>1, <1>6
<1>9. wire = <<>> BY <1>1 DEF PageInv, Within
<1>10. ChatTypes' BY <1>1, <1>2, <1>7, <1>8 DEF PageInv, ChatTypes
<1>11. Brought
  <2>1. UpTo(Len(log), wire') BY <1>1 DEF PageInv, Within
  <2> QED BY <1>1, <1>2, <1>7, <1>8, <1>9, <2>1 DEF Brought
<1>12. Texts' BY <1>1, <1>2 DEF PageInv, Texts
<1>13. CoverBrought BY <1>1, <1>7, <1>8 DEF CoverBrought
<1> QED BY <1>1, <1>10, <1>11, <1>12, <1>13, ClientKeeps

LEMMA ReadPageStep ==
  ASSUME PageInv, ReadPage
  PROVE  ChatStep
<1>1. /\ UNCHANGED <<logVars, cursor, shown>>
      /\ UNCHANGED <<wire, link, load, events, refetched, final, op, faults>>
      /\ page' = EventsAfter(shown.watermark) /\ shown.target # None
  BY DEF ReadPage, Behind
<1>2. /\ log' = log /\ SavedAfter(0)' = SavedAfter(0) /\ LogTypeOK /\ LogTypeOK' /\ Spaced(log)
  BY <1>1, SameSaved DEF PageInv, ChatTypes
<1>3. /\ shown.watermark \in Nat /\ shown.target \in Nat /\ shown.target <= Len(log)
      /\ Len(log) \in Nat
  BY <1>1, PageSizes DEF PageInv, Within
<1>4. PICK n : n = shown.watermark OBVIOUS
<1>5. PICK es : es = EventsAfter(n) OBVIOUS
<1>6. /\ es \in Seq(Frame) /\ UpTo(Len(log), es)
      /\ es = <<>> => \A k \in n + 1 .. Len(log) : ~ HasFrame(log[k])
      /\ Exact(log, es, n)
  BY <1>2, <1>3, <1>4, <1>5, EventsAfterProperties
<1>7. page' = es BY <1>1, <1>4, <1>5
<1>8. ChatTypes' BY <1>1, <1>2, <1>6, <1>7 DEF PageInv, ChatTypes
<1>9. NothingLeft'
  <2> SUFFICES ASSUME es = <<>>, NEW k \in n + 1 .. shown.target PROVE ~ HasFrame(log[k])
    BY <1>1, <1>2, <1>4, <1>7 DEF NothingLeft
  <2>1. k \in n + 1 .. Len(log) BY <1>3, <1>4
  <2> QED BY <1>6, <2>1
<1>10. Brought
  <2>1. UpTo(Len(log), wire') /\ (link' # "open" => wire' = <<>>)
    BY <1>1 DEF PageInv, Within
  <2> QED BY <1>1, <1>2, <1>6, <1>7, <1>9, <2>1 DEF Brought
<1>11. Texts' BY <1>1, <1>2 DEF PageInv, Texts
<1>12. CoverBrought BY <1>1, <1>4, <1>6, <1>7 DEF CoverBrought
<1> QED BY <1>1, <1>8, <1>10, <1>11, <1>12, ClientKeeps

LEMMA ReadTextsStep ==
  ASSUME PageInv, ReadRefetch \/ ReadFinal
  PROVE  ChatStep
<1>1. /\ UNCHANGED <<logVars, cursor, shown>>
      /\ UNCHANGED <<wire, link, load, events, page, op>>
  BY DEF ReadRefetch, ReadFinal
<1>2. /\ log' = log /\ SavedAfter(0)' = SavedAfter(0) /\ LogTypeOK /\ LogTypeOK'
  BY <1>1, SameSaved DEF PageInv, ChatTypes
<1>3. /\ shown.refetch \in Nat \cup {None} /\ final \in FinalAnswers
      /\ final.messages \subseteq SavedAfter(0) /\ status \in Statuses
      /\ refetched \in {None} \cup SUBSET Nat
      /\ refetched # None => refetched \subseteq SavedAfter(0)
  BY <1>2, PageSizes, SnapshotType DEF PageInv, ChatTypes, Texts
<1>4. /\ refetched' \in {None} \cup SUBSET Nat
      /\ refetched' # None => refetched' \subseteq SavedAfter(0)
  <2>1. CASE ReadFinal BY <1>3, <2>1 DEF ReadFinal
  <2>2. CASE ReadRefetch
    <3>1. shown.refetch \in Nat /\ refetched' = SavedAfter(shown.refetch)
      BY <1>3, <2>2 DEF ReadRefetch
    <3> QED BY <1>2, <3>1, SavedProperties
  <2> QED BY <2>1, <2>2
<1>5. /\ final' \in FinalAnswers /\ final'.messages \subseteq SavedAfter(0)
      /\ faults' \in Nat
  <2>1. CASE ReadRefetch BY <1>3, <2>1 DEF ReadRefetch, PageInv, ChatTypes
  <2>2. CASE ReadFinal
    <3>1. PICK some : some = SavedAfter(final.from) OBVIOUS
    <3>2. some \in SUBSET Nat /\ some \subseteq SavedAfter(0)
      BY <1>2, <1>3, <3>1, SavedProperties DEF FinalAnswers
    <3>3. \/ final' = [final EXCEPT !.status = status, !.messages = some]
          \/ final' = [final EXCEPT !.status = "unknown", !.messages = some]
          \/ final' = [final EXCEPT !.status = status]
      BY <2>2, <3>1 DEF ReadFinal
    <3>4. /\ final' \in FinalAnswers
          /\ final'.messages = some \/ final'.messages = final.messages
      BY <1>3, <3>2, <3>3 DEF FinalAnswers
    <3>5. faults' \in Nat BY <2>2, FaultType DEF ReadFinal, PageInv, ChatTypes
    <3> QED BY <1>3, <3>2, <3>4, <3>5
  <2> QED BY <2>1, <2>2
<1>6. ChatTypes' BY <1>1, <1>2, <1>4, <1>5 DEF PageInv, ChatTypes
<1>7. Brought
  <2>1. UpTo(Len(log), wire') /\ (link' # "open" => wire' = <<>>)
    BY <1>1 DEF PageInv, Within
  <2> QED BY <1>1, <1>2, <2>1 DEF Brought
<1>8. Texts' BY <1>1, <1>2, <1>4, <1>5 DEF PageInv, Texts
<1>9. CoverBrought BY <1>1 DEF CoverBrought
<1> QED BY <1>1, <1>6, <1>7, <1>8, <1>9, ClientKeeps

LEMMA SendStep ==
  ASSUME PageInv, Send
  PROVE  ChatStep
<1>1. /\ UNCHANGED <<wire, link, cursor, shown, load, events, page, refetched, final, faults>>
      /\ SendMessage
      /\ op' = [kind |-> "send", message |-> Len(log) + 1, seq |-> Len(log) + 3]
  BY DEF Send
<1>2. LogTypeOK /\ Spaced(log) BY DEF PageInv, ChatTypes
<1>3. LogStep /\ Spaced(log') BY <1>1, <1>2, SendLogs, SendSpaced
<1>4. Added BY <1>3, StepAdds
<1>5. Len(log) \in Nat BY <1>2, SnapshotType
<1>6. op' \in SendAnswers /\ op'.seq = Len(log) + 3 BY <1>1, <1>5 DEF SendAnswers
<1>7. Len(log') = Len(log) + 3
  <2>1. PICK es : es = <<"user", "queued", "round_queued">> OBVIOUS
  <2>2. es \in Seq(Kinds) /\ Len(es) = 3
    BY <2>1 DEF Kinds, Saved, Statuses, Rounds
  <2>3. log' = log \o es BY <1>1, <2>1 DEF SendMessage, Commit
  <2>4. log \in Seq(Kinds) BY <1>2 DEF LogTypeOK
  <2>5. Len(log \o es) = Len(log) + Len(es) BY <2>2, <2>4, ConcatProperties
  <2> QED BY <2>2, <2>3, <2>5
<1> QED BY <1>1, <1>3, <1>4, <1>5, <1>6, <1>7, WriterPageStep

LEMMA EndStep ==
  ASSUME PageInv, End
  PROVE  ChatStep
<1>1. /\ UNCHANGED <<wire, link, cursor, shown, load, events, page, refetched, final, faults>>
      /\ EndUnstarted \/ RequestEnd
      /\ op' = [kind |-> "end", status |-> status']
  BY DEF End
<1>2. LogTypeOK /\ Spaced(log) BY DEF PageInv, ChatTypes
<1>3. LogStep BY <1>1, <1>2, EndUnstartedLogs, RequestEndLogs
<1>4. Spaced(log')
  <2>1. RequestEnd => log' = log BY DEF RequestEnd
  <2> QED BY <1>1, <1>2, <2>1, EndUnstartedSpaced
<1>5. Added BY <1>3, StepAdds
<1>6. status' \in Statuses BY <1>3 DEF LogStep, LogTypeOK
<1>7. op' \in EndAnswers /\ op'.kind # "send" BY <1>1, <1>6 DEF EndAnswers
<1> QED BY <1>1, <1>4, <1>5, <1>7, WriterPageStep

LEMMA AnswerLostStep ==
  ASSUME PageInv, AnswerLost
  PROVE  ChatStep
<1>1. /\ UNCHANGED <<logVars, cursor, shown>>
      /\ UNCHANGED <<wire, link, load, events, page, refetched, final, faults>> /\ op' = None
  BY DEF AnswerLost
<1>2. /\ log' = log /\ SavedAfter(0)' = SavedAfter(0) /\ LogTypeOK /\ LogTypeOK'
  BY <1>1, SameSaved DEF PageInv, ChatTypes
<1>3. ChatTypes' BY <1>1, <1>2 DEF PageInv, ChatTypes
<1>4. Brought
  <2>1. UpTo(Len(log), wire') /\ (link' # "open" => wire' = <<>>)
    BY <1>1 DEF PageInv, Within
  <2> QED BY <1>1, <1>2, <2>1 DEF Brought
<1>5. Texts' BY <1>1, <1>2 DEF PageInv, Texts
<1>6. CoverBrought BY <1>1 DEF CoverBrought
<1> QED BY <1>1, <1>3, <1>4, <1>5, <1>6, ClientKeeps

\* A new state of the reducer, while what the link and the log are stays.
LEMMA ShowSteps ==
  ASSUME PageInv, UNCHANGED <<logVars, wire, link, cursor, load>>, NEW s \in State, Show(s),
         s.watermark <= Len(log), s.target # None => s.target <= Len(log),
         s.messages \subseteq SavedAfter(0),
         events' = events \/ events' = None, op' = op \/ op' = None, faults' \in Nat
  PROVE  PageInv'
<1>1. UNCHANGED logVars /\ link' = link /\ wire' = wire /\ cursor' = cursor /\ load' = load
  OBVIOUS
<1>2. /\ wire' \in Seq(Frame) /\ UpTo(Len(log), wire') /\ (link' # "open" => wire' = <<>>)
      /\ link' \in {"loading", "connecting", "open", "waiting", "reconciling"}
      /\ cursor' \in Nat /\ cursor' <= Len(log)
  BY <1>1 DEF PageInv, ChatTypes, Within
<1> QED BY <1>1, <1>2, ShowInvariant

\* The state of the reducer that is shown is one of the log.
LEMMA ShownNow ==
  ASSUME PageInv
  PROVE  /\ shown \in State /\ shown.watermark \in Nat /\ shown.watermark <= Len(log)
         /\ shown.target \in Nat \cup {None}
         /\ shown.target # None => shown.target <= Len(log)
         /\ shown.messages \subseteq SavedAfter(0) /\ shown.refetch \in Nat \cup {None}
         /\ Len(log) \in Nat /\ cursor \in Nat /\ cursor <= Len(log)
         /\ faults \in Nat /\ LogTypeOK
BY PageSizes DEF PageInv, ChatTypes, Within, Texts

\* A new state of the reducer keeps the cover, if it still knows what the cursors have
\* moved over and the open stream still brings what they have not.
LEMMA ShowCover ==
  ASSUME PageInv, UNCHANGED logVars, NEW s \in State, Show(s), Cover,
         KnownAt(s, cursor'), OnTheWay',
         events' = None \/ (events' = events /\ link' = link /\ cursor' = cursor)
  PROVE  Cover'
<1>1. /\ shown' = s /\ log' = log
      /\ page' # None => page' = page /\ s.watermark = shown.watermark
  BY SameSaved DEF Show
<1>2. Covered' BY <1>1 DEF Covered, KnownAt, Known, Pending
<1>3. Answered' BY <1>1 DEF Cover, Answered
<1> QED BY <1>2, <1>3 DEF Cover

LEMMA WayKept ==
  ASSUME UNCHANGED <<logVars, wire, link, cursor>>, shown'.base = shown.base, OnTheWay
  PROVE  OnTheWay'
<1>1. log' = log BY SameSaved
<1> QED BY <1>1 DEF OnTheWay

\* What was known stays so, if what the page no longer pages to has become told or missed.
LEMMA StaysKnown ==
  ASSUME shown \in State, NEW s \in State, NEW n \in Nat, n \in Known(shown),
         shown.told \subseteq s.told, shown.missed \subseteq s.missed,
         n \in Pending(shown) /\ n <= s.watermark => n \in s.told \cup s.missed,
         shown.target # None /\ s.watermark < shown.target =>
            s.target # None /\ shown.target <= s.target
  PROVE  n \in Known(s)
<1>1. CASE n \in shown.told \cup shown.missed BY <1>1 DEF Known
<1>2. CASE n \in Pending(shown)
  <2>1. /\ shown.target \in Nat /\ shown.watermark \in Nat /\ s.watermark \in Nat
        /\ s.target \in Nat \cup {None} /\ shown.target # None
        /\ n \in shown.watermark + 1 .. shown.target
    BY <1>2 DEF Pending, State
  <2>2. CASE n <= s.watermark BY <1>2, <2>2 DEF Known
  <2>3. CASE ~ n <= s.watermark
    <3>1. s.target # None /\ shown.target <= s.target BY <2>1, <2>3
    <3>2. n \in s.watermark + 1 .. s.target BY <2>1, <2>3, <3>1
    <3> QED BY <3>1, <3>2 DEF Known, Pending
  <2> QED BY <2>2, <2>3
<1> QED BY <1>1, <1>2 DEF Known

LEMMA MissingState ==
  ASSUME shown \in State, NEW t \in State, NEW causes, NEW u, u = Missing(t, causes)
  PROVE  /\ u \in State /\ u.status = t.status /\ u.watermark = t.watermark
         /\ u.messages = t.messages /\ u.target = t.target /\ u.told = t.told
         /\ u.base = t.base /\ t.missed \subseteq u.missed
         /\ \A n \in shown.watermark + 1 .. t.watermark :
               n \in causes => n \in u.told \cup u.missed
<1>1. shown.watermark \in Nat /\ t.watermark \in Nat BY DEF State
<1>2. PICK m : m = (causes \cap (shown.watermark + 1 .. t.watermark)) \ t.told OBVIOUS
<1>3. m \in SUBSET Nat BY <1>1, <1>2
<1>4. u = [t EXCEPT !.missed = @ \cup m] BY <1>2 DEF Missing
<1>5. /\ u \in State /\ u.status = t.status /\ u.watermark = t.watermark
      /\ u.messages = t.messages /\ u.target = t.target /\ u.told = t.told
      /\ u.base = t.base /\ u.missed = t.missed \cup m
  BY <1>3, <1>4 DEF State
<1> QED BY <1>2, <1>5

\* A page without gaps brings all that the water mark moves over.
LEMMA AppliedTells ==
  ASSUME PageInv, NEW fs \in Seq(Frame), NEW from \in Nat, Exact(log, fs, from),
         NEW seq, NEW s, Applied(Len(log), shown, fs, seq, s),
         NEW n \in 1 .. Len(log), HasFrame(log[n]),
         from < n, shown.watermark < n, n <= s.watermark
  PROVE  n \in s.told
<1>1. s.watermark # shown.watermark BY ShownNow
<1>2. PICK i \in DOMAIN fs : s.watermark = fs[i].seq BY <1>1 DEF Applied
<1>3. fs[i].seq \in Nat
  <2>1. fs[i] \in Frame OBVIOUS
  <2> QED BY <2>1 DEF Frame
<1>4. n \in from + 1 .. fs[i].seq BY <1>2, <1>3, ShownNow
<1>5. PICK k \in DOMAIN fs : fs[k].seq = n BY <1>4 DEF Exact
<1> QED BY <1>5 DEF Applied

LEMMA LoadStep ==
  ASSUME PageInv, Load
  PROVE  ChatStep
<1>1. /\ UNCHANGED logVars /\ wire' = wire /\ load' = load /\ events' = events /\ op' = op
      /\ faults' = faults /\ link' = "connecting" /\ cursor' = load.task.seq
      /\ load.task # None /\ load.messages # None /\ link = "loading"
  BY DEF Load
<1>2. /\ load.task \in [seq : Nat, status : Statuses] /\ load.task.seq <= Len(log)
      /\ load.messages \in SUBSET Nat /\ load.messages \subseteq SavedAfter(0)
  BY <1>1 DEF PageInv, ChatTypes, Within, Texts, LoadAnswers
<1>3. PICK q : q = load.task.seq OBVIOUS
<1>4. q \in Nat /\ q <= Len(log) BY <1>2, <1>3
<1>5. PICK told : told = {n \in 1 .. q : log[n] \in Saved => n \in load.messages} OBVIOUS
<1>6. told \in SUBSET Nat /\ 1 .. q \ told \in SUBSET Nat BY <1>4, <1>5
<1>7. PICK s : s = [shown EXCEPT !.status = load.task.status, !.messages = load.messages,
                                 !.watermark = q, !.told = told, !.missed = 1 .. q \ told]
  OBVIOUS
<1>8. /\ s \in State /\ s.watermark = q /\ s.target = shown.target
      /\ s.messages = load.messages /\ s.told = told /\ s.missed = 1 .. q \ told
  BY <1>2, <1>4, <1>6, <1>7, ShownNow DEF State
<1>9. Show(s) BY <1>3, <1>5, <1>7 DEF Load
<1>10. wire' \in Seq(Frame) /\ UpTo(Len(log), wire') /\ wire' = <<>>
  BY <1>1 DEF PageInv, ChatTypes, Within
<1>11. PageInv'
  BY <1>1, <1>2, <1>3, <1>4, <1>8, <1>9, <1>10, ShownNow, ShowInvariant
<1>12. KnownAt(s, cursor')
  <2> SUFFICES ASSUME NEW n \in 1 .. Len(log), n <= q PROVE n \in Known(s)
    BY <1>1, <1>3, <1>8 DEF KnownAt
  <2>1. n \in 1 .. q BY <1>4, ShownNow
  <2> QED BY <1>8, <2>1 DEF Known
<1>13. OnTheWay' BY <1>1 DEF OnTheWay
<1>14. ASSUME Cover PROVE Cover'
  <2>1. events' = None BY <1>1, <1>14 DEF Cover, Answered
  <2> QED BY <1>1, <1>8, <1>9, <1>12, <1>13, <1>14, <2>1, ShowCover
<1> QED BY <1>11, <1>14 DEF ChatStep

\* The replay: all that there is above the cursor.
LEMMA ConnectStep ==
  ASSUME PageInv, Connect
  PROVE  ChatStep
<1>1. /\ UNCHANGED logVars /\ wire' = Rows(cursor) /\ load' = load /\ events' = events
      /\ op' = op /\ faults' = faults /\ link = "connecting" /\ link' = "open"
      /\ cursor' = cursor
  BY DEF Connect
<1>2. PICK s : s = [shown EXCEPT !.base = Len(log)] OBVIOUS
<1>3. Show(s) BY <1>2 DEF Connect
<1>4. /\ s \in State /\ s.watermark = shown.watermark /\ s.target = shown.target
      /\ s.messages = shown.messages /\ s.told = shown.told /\ s.missed = shown.missed
      /\ s.base = Len(log)
  BY <1>2, ShownNow DEF State
<1>5. PICK rs : rs = Rows(cursor) OBVIOUS
<1>6. /\ rs \in Seq(Frame) /\ UpTo(Len(log), rs)
      /\ Len(rs) = IF Len(log) > cursor THEN Len(log) - cursor ELSE 0
      /\ \A i \in 1 .. Len(rs) : rs[i].seq = cursor + i /\ rs[i].kind = log[cursor + i]
  BY <1>5, ShownNow, RowsProperties
<1>7. PageInv' BY <1>1, <1>3, <1>4, <1>5, <1>6, ShownNow, ShowInvariant
<1>8. shown' = s /\ log' = log BY <1>1, <1>3, SameSaved DEF Show
<1>9. OnTheWay'
  <2>1. ASSUME NEW n \in cursor + 1 .. Len(log)
        PROVE  \E i \in DOMAIN rs : /\ rs[i].seq = n /\ rs[i].kind = log[n]
                                    /\ \A j \in 1 .. i - 1 : rs[j].seq < n
    <3>1. PICK i : i = n - cursor OBVIOUS
    <3>2. i \in 1 .. Len(rs) /\ cursor + i = n BY <1>6, <3>1, ShownNow
    <3>3. DOMAIN rs = 1 .. Len(rs) BY <1>6, LenProperties
    <3>4. ASSUME NEW j \in 1 .. i - 1 PROVE rs[j].seq < n
      <4>1. j \in 1 .. Len(rs) /\ cursor + j < n BY <1>6, <3>2, ShownNow
      <4> QED BY <1>6, <4>1
    <3> QED BY <1>6, <3>2, <3>3, <3>4
  <2>2. Len(log) <= Len(log) BY ShownNow
  <2> QED BY <1>1, <1>4, <1>5, <1>8, <2>1, <2>2 DEF OnTheWay
<1>10. ASSUME Cover PROVE Cover'
  <2>1. events' = None BY <1>1, <1>10 DEF Cover, Answered
  <2>2. KnownAt(s, cursor') BY <1>1, <1>4, <1>10 DEF Cover, Covered, KnownAt, Known, Pending
  <2> QED BY <1>1, <1>3, <1>4, <1>9, <1>10, <2>1, <2>2, ShowCover
<1> QED BY <1>7, <1>10 DEF ChatStep

\* The frame at the head of the open stream: what is left behind it is still to come.
LEMMA HeadTaken ==
  ASSUME PageInv, OnTheWay, link = "open", wire # <<>>, UNCHANGED <<logVars, link>>,
         wire' = Tail(wire), cursor' \in Nat, cursor <= cursor', shown'.base = shown.base,
         \A n \in cursor' + 1 .. shown.base :
            HasFrame(log[n]) => ~ (wire[1].seq = n /\ wire[1].kind = log[n])
  PROVE  OnTheWay'
<1>1. log' = log BY SameSaved
<1>2. PICK t : t = Tail(wire) OBVIOUS
<1>3. /\ wire \in Seq(Frame) /\ Len(wire) \in Nat
      /\ DOMAIN wire = 1 .. Len(wire) /\ DOMAIN t = 1 .. Len(wire) - 1
      /\ \A i \in DOMAIN t : t[i] = wire[i + 1]
  BY <1>2, Taken DEF PageInv, ChatTypes
<1>4. cursor \in Nat /\ shown.base \in Nat BY ShownNow DEF State
<1>5. ASSUME NEW n \in cursor' + 1 .. shown.base, HasFrame(log[n])
      PROVE  \E i \in DOMAIN t : /\ t[i].seq = n /\ t[i].kind = log[n]
                                 /\ \A j \in 1 .. i - 1 : t[j].seq < n
  <2>1. n \in cursor + 1 .. shown.base BY <1>4
  <2>2. PICK k \in DOMAIN wire : /\ wire[k].seq = n /\ wire[k].kind = log[n]
                                 /\ \A j \in 1 .. k - 1 : wire[j].seq < n
    BY <1>5, <2>1 DEF OnTheWay
  <2>3. k # 1 BY <1>5, <2>2
  <2>4. PICK i : i = k - 1 OBVIOUS
  <2>5. i \in DOMAIN t /\ i + 1 = k BY <1>3, <2>2, <2>3, <2>4
  <2>6. ASSUME NEW j \in 1 .. i - 1 PROVE t[j].seq < n
    <3>1. j \in DOMAIN t /\ j + 1 \in 1 .. k - 1 BY <1>3, <2>2, <2>5
    <3> QED BY <1>3, <2>2, <3>1
  <2> QED BY <1>3, <2>2, <2>5, <2>6
<1>6. shown.base <= Len(log) BY DEF OnTheWay
<1> QED BY <1>1, <1>2, <1>5, <1>6 DEF OnTheWay

LEMMA ReceiveStep ==
  ASSUME PageInv, Receive
  PROVE  ChatStep
<1>1. /\ UNCHANGED logVars /\ load' = load /\ events' = events /\ op' = op /\ link' = link
      /\ faults' = faults /\ link = "open" /\ wire # <<>> /\ wire' = Tail(wire)
  BY DEF Receive
<1>2. PICK f, t : f = Head(wire) /\ t = Tail(wire) OBVIOUS
<1>3. wire \in Seq(Frame) /\ UpTo(Len(log), wire) BY DEF PageInv, ChatTypes, Within
<1>4. /\ f = wire[1] /\ f \in Frame /\ 1 \in DOMAIN wire /\ t \in Seq(Frame)
      /\ \A i \in DOMAIN t : i + 1 \in DOMAIN wire /\ t[i] = wire[i + 1]
  BY <1>1, <1>2, <1>3, Taken
<1>5. f.seq <= Len(log) /\ f.seq \in Nat /\ UpTo(Len(log), t)
  BY <1>3, <1>4 DEF UpTo, Frame
<1>6. /\ log' = log /\ SavedAfter(0)' = SavedAfter(0) /\ LogTypeOK /\ LogTypeOK'
  BY <1>1, SameSaved DEF PageInv, ChatTypes
<1>7. CASE ~ (HasFrame(f.kind) /\ (f.seq = 0 \/ f.seq > cursor))
  <2>1. UNCHANGED <<cursor, shown, page, refetched, final>> BY <1>2, <1>7 DEF Receive
  <2>2. ChatTypes' BY <1>1, <1>2, <1>4, <1>6, <2>1 DEF PageInv, ChatTypes
  <2>3. Brought BY <1>1, <1>2, <1>5, <1>6, <2>1 DEF Brought
  <2>4. Texts' BY <1>1, <1>6, <2>1 DEF PageInv, Texts
  <2>5. PageInv' BY <1>1, <1>6, <2>1, <2>2, <2>3, <2>4, KeptLogs, KeepInvariant DEF PageInv
  <2>6. ASSUME Cover PROVE Cover'
    <3>1. OnTheWay'
      <4>1. cursor' \in Nat /\ cursor <= cursor' BY <2>1, ShownNow
      <4>2. ASSUME NEW n \in cursor' + 1 .. shown.base, HasFrame(log[n])
            PROVE  ~ (wire[1].seq = n /\ wire[1].kind = log[n])
        <5> SUFFICES ASSUME f.seq = n, f.kind = log[n] PROVE FALSE BY <1>4
        <5>1. shown.base \in Nat /\ cursor \in Nat BY ShownNow DEF State
        <5> QED BY <1>7, <2>1, <4>2, <5>1
      <4> QED BY <1>1, <2>1, <2>6, <4>1, <4>2, HeadTaken DEF Cover
    <3>2. Covered' BY <1>6, <2>1, <2>6 DEF Cover, Covered, KnownAt, Known, Pending
    <3>3. Answered' BY <1>1, <1>6, <2>1, <2>6 DEF Cover, Answered
    <3> QED BY <3>1, <3>2, <3>3 DEF Cover
  <2> QED BY <2>5, <2>6 DEF ChatStep
<1>8. CASE HasFrame(f.kind) /\ (f.seq = 0 \/ f.seq > cursor)
  <2>1. PICK u : u = ApplyFrame(shown, f) OBVIOUS
  <2>2. PICK s : s = Missing(u, Overtaken \cup Pending(shown)) OBVIOUS
  <2>3. Show(s) /\ cursor' = IF f.seq > cursor THEN f.seq ELSE cursor
    BY <1>2, <1>8, <2>1, <2>2 DEF Receive
  <2>4. /\ u \in State /\ u.target = shown.target /\ u.messages = shown.messages
        /\ u.missed = shown.missed /\ u.base = shown.base
        /\ u.watermark = IF f.seq > shown.watermark THEN f.seq ELSE shown.watermark
        /\ u.told = IF f.seq > shown.watermark THEN shown.told \cup {f.seq} ELSE shown.told
    BY <1>4, <2>1, ShownNow, ApplyFrameState
  <2>5. /\ s \in State /\ s.target = shown.target /\ s.messages = shown.messages
        /\ s.watermark = u.watermark /\ s.told = u.told /\ s.base = shown.base
        /\ shown.missed \subseteq s.missed
        /\ \A n \in shown.watermark + 1 .. s.watermark :
              n \in Overtaken \cup Pending(shown) => n \in s.told \cup s.missed
    BY <2>2, <2>4, ShownNow, MissingState
  <2>6. s.watermark \in Nat /\ s.watermark <= Len(log) /\ shown.watermark <= s.watermark
        /\ cursor' \in Nat /\ cursor' <= Len(log) /\ cursor <= cursor'
    BY <1>5, <2>3, <2>4, <2>5, ShownNow
  <2>7. PageInv'
    BY <1>1, <1>2, <1>4, <1>5, <2>3, <2>5, <2>6, ShownNow, ShowInvariant
  <2>8. shown' = s BY <2>3 DEF Show
  <2>9. ASSUME Cover PROVE Cover'
    <3>1. OnTheWay'
      <4>1. ASSUME NEW n \in cursor' + 1 .. shown.base
            PROVE  ~ (wire[1].seq = n /\ wire[1].kind = log[n])
        <5>1. shown.base \in Nat BY ShownNow DEF State
        <5>2. f.seq < n BY <1>5, <1>8, <2>3, <2>6, <5>1, ShownNow
        <5> QED BY <1>4, <1>5, <5>1, <5>2
      <4> QED BY <1>1, <2>5, <2>6, <2>8, <2>9, <4>1, HeadTaken DEF Cover
    <3>2. ASSUME NEW n \in 1 .. Len(log), n <= s.watermark \/ n <= cursor', HasFrame(log[n])
          PROVE  n \in Known(s)
      <4>1. CASE n <= shown.watermark \/ n <= cursor
        <5>1. n \in Known(shown) BY <2>9, <3>2, <4>1 DEF Cover, Covered, KnownAt
        <5>2. n \in Pending(shown) /\ n <= s.watermark => n \in s.told \cup s.missed
          <6> SUFFICES ASSUME n \in Pending(shown), n <= s.watermark
                       PROVE  n \in s.told \cup s.missed
            OBVIOUS
          <6>1. shown.target \in Nat /\ n \in shown.watermark + 1 .. shown.target
            BY ShownNow DEF Pending
          <6>2. n \in shown.watermark + 1 .. s.watermark BY <2>6, <6>1, ShownNow
          <6> QED BY <2>5, <6>2
        <5>3. shown.target # None => shown.target <= shown.target BY ShownNow
        <5> QED BY <2>4, <2>5, <5>1, <5>2, <5>3, ShownNow, StaysKnown
      <4>2. CASE ~ (n <= shown.watermark \/ n <= cursor)
        <5>1. /\ f.seq > shown.watermark /\ f.seq > cursor /\ n <= f.seq
              /\ s.watermark = f.seq /\ s.told = shown.told \cup {f.seq}
          BY <1>5, <2>3, <2>4, <2>5, <3>2, <4>2, ShownNow
        <5>2. CASE n = f.seq BY <5>1, <5>2 DEF Known
        <5>3. CASE n # f.seq
          <6>0. shown.base \in Nat /\ n < f.seq BY <1>5, <5>1, <5>3, ShownNow DEF State
          <6>1. ASSUME n <= shown.base PROVE FALSE
            <7>1. n \in cursor + 1 .. shown.base BY <4>2, <6>0, <6>1, ShownNow
            <7>2. PICK i \in DOMAIN wire : /\ wire[i].seq = n
                                           /\ \A j \in 1 .. i - 1 : wire[j].seq < n
              BY <1>1, <2>9, <3>2, <7>1 DEF Cover, OnTheWay
            <7>3. Len(wire) \in Nat /\ DOMAIN wire = 1 .. Len(wire) BY <1>3, LenProperties
            <7>4. i # 1 BY <1>4, <6>0, <7>2
            <7>5. wire[1].seq < n BY <7>2, <7>3, <7>4
            <7> QED BY <1>4, <1>5, <6>0, <7>5
          <6>2. n \in Overtaken
            <7>1. n > shown.base BY <6>0, <6>1
            <7>2. n \in cursor + 1 .. Len(log) BY <4>2, ShownNow
            <7> QED BY <7>1, <7>2 DEF Overtaken
          <6>3. n \in shown.watermark + 1 .. s.watermark BY <4>2, <5>1, <6>0, <1>5, ShownNow
          <6> QED BY <2>5, <6>2, <6>3 DEF Known
        <5> QED BY <5>2, <5>3
      <4> QED BY <4>1, <4>2
    <3>3. KnownAt(s, cursor') BY <3>2 DEF KnownAt
    <3>4. events' = None BY <1>1, <2>9 DEF Cover, Answered
    <3> QED BY <1>1, <2>3, <2>5, <2>9, <3>1, <3>3, <3>4, ShowCover
  <2> QED BY <2>7, <2>9 DEF ChatStep
<1> QED BY <1>7, <1>8

\* What the reconciliation does not apply becomes the target; what was one is missed.
LEMMA ReconciledStep ==
  ASSUME PageInv, Reconciled
  PROVE  ChatStep
<1>1. /\ UNCHANGED logVars /\ wire' = wire /\ load' = load /\ op' = op /\ faults' = faults
      /\ link = "reconciling" /\ link' = "connecting" /\ events # None /\ events' = None
  BY DEF Reconciled
<1>2. /\ events.seq \in Nat /\ events.seq <= Len(log) /\ events.list \in Seq(Frame)
      /\ UpTo(Len(log), events.list) /\ events.status \in Statuses
  BY <1>1 DEF PageInv, ChatTypes, Within, EventAnswers
<1>3. wire' \in Seq(Frame) /\ UpTo(Len(log), wire') /\ wire' = <<>>
  BY <1>1 DEF PageInv, ChatTypes, Within
<1>4. /\ log' = log /\ SavedAfter(0)' = SavedAfter(0) /\ LogTypeOK /\ LogTypeOK'
  BY <1>1, SameSaved DEF PageInv, ChatTypes
<1>5. CASE ~ events.seq > cursor
  <2>1. UNCHANGED <<cursor, shown, page, refetched, final>> BY <1>5 DEF Reconciled
  <2>2. ChatTypes' BY <1>1, <1>3, <1>4, <2>1 DEF PageInv, ChatTypes
  <2>3. Brought BY <1>1, <1>3, <1>4, <2>1 DEF Brought
  <2>4. Texts' BY <1>1, <1>4, <2>1 DEF PageInv, Texts
  <2>5. CoverBrought BY <1>1, <2>1 DEF CoverBrought
  <2> QED BY <1>1, <2>1, <2>2, <2>3, <2>4, <2>5, ClientKeeps
<1>6. CASE events.seq > cursor
  <2>1. PICK u : u = EventsApplied(shown, events.list, events.seq, events.status) OBVIOUS
  <2>2. PICK s : s = Missing(u, Pending(shown)) OBVIOUS
  <2>3. Show(s) /\ cursor' = events.seq BY <1>6, <2>1, <2>2 DEF Reconciled
  <2> SUFFICES ASSUME Cover PROVE PageInv' /\ Cover' BY DEF ChatStep
  <2>4. Exact(log, events.list, cursor) BY <1>1 DEF Cover, Answered
  <2>5. Applied(Len(log), shown, events.list, events.seq, u)
    BY <1>2, <2>1, <2>4, ShownNow, EventsAppliedState DEF Exact
  <2>6. /\ u \in State /\ u.messages = shown.messages /\ u.base = shown.base
        /\ shown.told \subseteq u.told /\ u.missed = shown.missed
        /\ u.watermark \in Nat /\ u.watermark <= Len(log) /\ shown.watermark <= u.watermark
        /\ u.target # None => u.target <= Len(log)
        /\ u.target \in Nat \cup {None}
    BY <2>5 DEF Applied, State
  <2>7. /\ s \in State /\ s.target = u.target /\ s.messages = u.messages
        /\ s.watermark = u.watermark /\ s.told = u.told /\ s.base = u.base
        /\ u.missed \subseteq s.missed
        /\ \A n \in shown.watermark + 1 .. s.watermark :
              n \in Pending(shown) => n \in s.told \cup s.missed
    BY <2>2, <2>6, ShownNow, MissingState
  <2>8. PageInv'
    BY <1>1, <1>2, <1>3, <2>3, <2>6, <2>7, ShownNow, ShowInvariant
  <2>9. ASSUME NEW n \in 1 .. Len(log), n <= s.watermark \/ n <= events.seq, HasFrame(log[n])
        PROVE  n \in Known(s)
    <3>1. CASE n <= shown.watermark \/ n <= cursor
      <4>1. n \in Known(shown) BY <2>9, <3>1 DEF Cover, Covered, KnownAt
      <4>2. n \in Pending(shown) /\ n <= s.watermark => n \in s.told \cup s.missed
        <5> SUFFICES ASSUME n \in Pending(shown), n <= s.watermark
                     PROVE  n \in s.told \cup s.missed
          OBVIOUS
        <5>1. shown.target \in Nat /\ n \in shown.watermark + 1 .. shown.target
          BY ShownNow DEF Pending
        <5>2. n \in shown.watermark + 1 .. s.watermark BY <2>6, <2>7, <5>1, ShownNow
        <5> QED BY <2>7, <5>2
      <4>3. shown.target # None /\ s.watermark < shown.target =>
               s.target # None /\ shown.target <= s.target
        BY <2>5, <2>7 DEF Applied
      <4>4. shown.told \subseteq s.told /\ shown.missed \subseteq s.missed BY <2>6, <2>7
      <4> QED BY <2>7, <4>1, <4>2, <4>3, <4>4, ShownNow, StaysKnown
    <3>2. CASE ~ (n <= shown.watermark \/ n <= cursor)
      <4>1. cursor < n /\ shown.watermark < n BY <3>2, ShownNow
      <4>2. CASE n <= s.watermark
        <5>1. n <= u.watermark BY <2>7, <4>2
        <5>2. n \in u.told
          BY <1>2, <2>4, <2>5, <2>9, <4>1, <5>1, ShownNow, AppliedTells
        <5> QED BY <2>7, <5>2 DEF Known
      <4>3. CASE ~ n <= s.watermark
        <5>1. n <= events.seq /\ u.watermark < events.seq BY <1>2, <2>6, <2>7, <2>9, <4>3
        <5>2. u.target # None /\ events.seq <= u.target BY <2>5, <5>1 DEF Applied
        <5>3. n \in s.watermark + 1 .. s.target BY <1>2, <2>6, <2>7, <4>3, <5>1, <5>2
        <5> QED BY <2>7, <5>2, <5>3 DEF Known, Pending
      <4> QED BY <4>2, <4>3
    <3> QED BY <3>1, <3>2
  <2>10. KnownAt(s, cursor') BY <2>3, <2>9 DEF KnownAt
  <2>11. OnTheWay' BY <1>1 DEF OnTheWay
  <2> QED BY <1>1, <2>3, <2>7, <2>8, <2>10, <2>11, ShowCover
<1> QED BY <1>5, <1>6

\* A page moves the water mark, and the target goes only when it is reached.
LEMMA PageAppliedStep ==
  ASSUME PageInv, PageApplied
  PROVE  ChatStep
<1>1. /\ UNCHANGED <<logVars, wire, link, cursor, load>> /\ events' = events /\ op' = op
      /\ faults' = faults /\ shown.target # None /\ page # None
  BY DEF PageApplied, Behind
<1>2. page \in Seq(Frame) /\ UpTo(Len(log), page) /\ shown.target \in Nat
      /\ shown.target <= Len(log)
  BY <1>1, ShownNow DEF PageInv, ChatTypes, Within
<1>3. PICK s : s = EventsApplied(shown, page, shown.target, None) OBVIOUS
<1>4. Show(s) BY <1>3 DEF PageApplied
<1> SUFFICES ASSUME Cover PROVE PageInv' /\ Cover' BY DEF ChatStep
<1>5. Exact(log, page, shown.watermark) BY <1>1 DEF Cover, Answered
<1>6. Applied(Len(log), shown, page, shown.target, s)
  BY <1>2, <1>3, <1>5, ShownNow, EventsAppliedState DEF Exact
<1>7. /\ s \in State /\ s.watermark \in Nat /\ s.watermark <= Len(log)
      /\ s.target # None => s.target <= Len(log)
      /\ s.messages \subseteq SavedAfter(0) /\ shown.watermark <= s.watermark
      /\ shown.told \subseteq s.told /\ shown.missed = s.missed /\ s.base = shown.base
  BY <1>6, ShownNow DEF Applied, State
<1>8. PageInv' BY <1>1, <1>4, <1>7, ShownNow, ShowSteps
<1>9. ASSUME NEW n \in 1 .. Len(log), n <= s.watermark \/ n <= cursor, HasFrame(log[n])
      PROVE  n \in Known(s)
  <2>1. ASSUME shown.watermark < n, n <= s.watermark PROVE n \in s.told
    BY <1>2, <1>5, <1>6, <1>9, <2>1, ShownNow, AppliedTells
  <2>2. CASE n <= shown.watermark \/ n <= cursor
    <3>1. n \in Known(shown) BY <1>9, <2>2 DEF Cover, Covered, KnownAt
    <3>2. n \in Pending(shown) => shown.watermark < n BY <1>2, ShownNow DEF Pending
    <3>3. shown.target # None /\ s.watermark < shown.target =>
             s.target # None /\ shown.target <= s.target
      BY <1>6 DEF Applied
    <3> QED BY <1>7, <2>1, <3>1, <3>2, <3>3, ShownNow, StaysKnown
  <2>3. CASE ~ (n <= shown.watermark \/ n <= cursor)
    <3>1. shown.watermark < n /\ n <= s.watermark BY <1>7, <1>9, <2>3, ShownNow
    <3> QED BY <2>1, <3>1 DEF Known
  <2> QED BY <2>2, <2>3
<1>10. KnownAt(s, cursor') BY <1>1, <1>9 DEF KnownAt
<1>11. shown' = s BY <1>4 DEF Show
<1>12. OnTheWay' BY <1>1, <1>7, <1>11, WayKept DEF Cover
<1> QED BY <1>1, <1>4, <1>7, <1>8, <1>10, <1>12, ShowCover

\* The target goes: nothing up to it has a frame, or what has one is missed.
LEMMA GiveUpStep ==
  ASSUME PageInv, GiveUp
  PROVE  ChatStep
<1>1. UNCHANGED <<logVars, wire, link, cursor, load>> /\ events' = events /\ op' = op
  BY DEF GiveUp
<1>2. PICK m : /\ Show([shown EXCEPT !.target = None, !.missed = @ \cup m])
              /\ \/ page = <<>> /\ m = {} /\ faults' = faults
                 \/ Fault /\ m = Pending(shown)
  <2>1. CASE page = <<>> /\ faults' = faults /\ Show([shown EXCEPT !.target = None])
    <3>1. [shown EXCEPT !.target = None] = [shown EXCEPT !.target = None, !.missed = @ \cup {}]
      BY ShownNow DEF State
    <3> QED BY <2>1, <3>1
  <2>2. CASE Fault /\ Show([shown EXCEPT !.target = None, !.missed = @ \cup Pending(shown)])
    BY <2>2
  <2> QED BY <2>1, <2>2 DEF GiveUp
<1>3. Pending(shown) \in SUBSET Nat BY ShownNow DEF Pending
<1>4. PICK s : s = [shown EXCEPT !.target = None, !.missed = @ \cup m] OBVIOUS
<1>5. /\ s \in State /\ s.watermark = shown.watermark /\ s.target = None
      /\ s.messages = shown.messages /\ s.told = shown.told /\ s.base = shown.base
      /\ s.missed = shown.missed \cup m
  BY <1>2, <1>3, <1>4, ShownNow DEF State
<1>6. Show(s) BY <1>2, <1>4
<1>7. faults' \in Nat BY <1>2, FaultType, ShownNow DEF PageInv
<1>8. PageInv' BY <1>1, <1>5, <1>6, <1>7, ShownNow, ShowSteps
<1>9. ASSUME Cover PROVE KnownAt(s, cursor')
  <2> SUFFICES ASSUME NEW n \in 1 .. Len(log), n <= shown.watermark \/ n <= cursor,
                      HasFrame(log[n])
               PROVE  n \in s.told \cup s.missed
    BY <1>1, <1>5 DEF KnownAt, Known
  <2>1. n \in Known(shown) BY <1>9 DEF Cover, Covered, KnownAt
  <2>2. n \in Pending(shown) => m = Pending(shown)
    <3> SUFFICES ASSUME n \in Pending(shown), page = <<>> PROVE FALSE BY <1>2
    <3> QED BY DEF PageInv, NothingLeft, Pending
  <2> QED BY <1>5, <2>1, <2>2 DEF Known
<1>10. shown' = s BY <1>6 DEF Show
<1>11. Cover => OnTheWay' BY <1>1, <1>5, <1>10, WayKept DEF Cover
<1>12. Cover => Cover' BY <1>1, <1>5, <1>6, <1>9, <1>11, ShowCover
<1> QED BY <1>8, <1>12 DEF ChatStep

\* Answers that change neither mark.
LEMMA MarksStay ==
  ASSUME PageInv, UNCHANGED <<logVars, wire, link, cursor, load>>, NEW s \in State, Show(s),
         s.watermark = shown.watermark, s.target = shown.target,
         s.told = shown.told, s.missed = shown.missed, s.base = shown.base,
         s.messages \subseteq SavedAfter(0),
         events' = events, op' = op \/ op' = None, faults' \in Nat
  PROVE  ChatStep
<1>1. PageInv' BY ShownNow, ShowSteps
<1>2. shown' = s BY DEF Show
<1>3. Cover => KnownAt(s, cursor') BY DEF Cover, Covered, KnownAt, Known, Pending
<1>4. Cover => OnTheWay' BY <1>2, WayKept DEF Cover
<1>5. Cover => Cover' BY <1>3, <1>4, ShowCover
<1> QED BY <1>1, <1>5 DEF ChatStep

LEMMA MergedStep ==
  ASSUME PageInv, MessagesMerged \/ RefetchFails
  PROVE  ChatStep
<1>1. /\ UNCHANGED <<logVars, wire, link, cursor, load>> /\ events' = events /\ op' = op
      /\ faults' = faults \/ Fault
  BY DEF MessagesMerged, RefetchFails
<1>2. faults' \in Nat BY <1>1, FaultType, ShownNow DEF PageInv
<1>3. CASE MessagesMerged
  <2>1. PICK s : s = [shown EXCEPT !.messages = @ \cup refetched, !.refetch = None] OBVIOUS
  <2>2. refetched \in SUBSET Nat /\ refetched \subseteq SavedAfter(0)
    BY <1>3 DEF PageInv, ChatTypes, Texts, MessagesMerged
  <2>3. Show(s) BY <1>3, <2>1 DEF MessagesMerged
  <2>4. /\ s \in State /\ s.watermark = shown.watermark /\ s.target = shown.target
        /\ s.messages = shown.messages \cup refetched
        /\ s.told = shown.told /\ s.missed = shown.missed /\ s.base = shown.base
    BY <2>1, <2>2, ShownNow DEF State
  <2> QED BY <1>1, <1>2, <2>2, <2>3, <2>4, ShownNow, MarksStay
<1>4. CASE RefetchFails
  <2>1. PICK s : s = [shown EXCEPT !.refetch = None] OBVIOUS
  <2>2. Show(s) BY <1>4, <2>1 DEF RefetchFails
  <2>3. /\ s \in State /\ s.watermark = shown.watermark /\ s.target = shown.target
        /\ s.messages = shown.messages
        /\ s.told = shown.told /\ s.missed = shown.missed /\ s.base = shown.base
    BY <2>1, ShownNow DEF State
  <2> QED BY <1>1, <1>2, <2>2, <2>3, ShownNow, MarksStay
<1> QED BY <1>3, <1>4

LEMMA FinalizedStep ==
  ASSUME PageInv, RoundFinalized
  PROVE  ChatStep
<1>1. /\ UNCHANGED <<logVars, wire, link, cursor, load>> /\ events' = events /\ op' = op
      /\ faults' = faults /\ final.status # None
  BY DEF RoundFinalized
<1>2. /\ final.status \in Statuses \cup {"unknown"} /\ final.messages \in SUBSET Nat
      /\ final.messages \subseteq SavedAfter(0)
  BY <1>1 DEF PageInv, ChatTypes, Texts, FinalAnswers
<1>3. PICK st : st = IF final.status = "unknown" THEN shown.status ELSE final.status OBVIOUS
<1>4. st \in Statuses BY <1>2, <1>3, ShownNow DEF State
<1>5. PICK s : s = [shown EXCEPT !.finalizing = FALSE, !.status = st,
                                 !.messages = @ \cup final.messages]
  OBVIOUS
<1>6. Show(s) BY <1>3, <1>5 DEF RoundFinalized
<1>7. /\ s \in State /\ s.watermark = shown.watermark /\ s.target = shown.target
      /\ s.messages = shown.messages \cup final.messages
      /\ s.told = shown.told /\ s.missed = shown.missed /\ s.base = shown.base
  BY <1>2, <1>4, <1>5, ShownNow DEF State
<1> QED BY <1>1, <1>2, <1>6, <1>7, ShownNow, MarksStay

LEMMA TerminalStep ==
  ASSUME PageInv, TerminalAccepted
  PROVE  ChatStep
<1>1. /\ UNCHANGED <<logVars, wire, link, cursor, load>> /\ events' = events /\ op' = None
      /\ faults' = faults /\ op # None /\ op.kind = "end"
  BY DEF TerminalAccepted
<1>2. op.status \in Statuses
  BY <1>1 DEF PageInv, ChatTypes, SendAnswers, EndAnswers
<1>3. PICK s : s = [shown EXCEPT !.status = op.status] OBVIOUS
<1>4. Show(s) BY <1>3 DEF TerminalAccepted
<1>5. /\ s \in State /\ s.watermark = shown.watermark /\ s.target = shown.target
      /\ s.messages = shown.messages
      /\ s.told = shown.told /\ s.missed = shown.missed /\ s.base = shown.base
  BY <1>2, <1>3, ShownNow DEF State
<1> QED BY <1>1, <1>4, <1>5, ShownNow, MarksStay

LEMMA SendAcceptedStep ==
  ASSUME PageInv, SendAccepted
  PROVE  ChatStep
<1>1. /\ UNCHANGED <<logVars, wire, link, cursor, load>> /\ events' = events /\ op' = None
      /\ faults' = faults /\ op # None /\ op.kind = "send"
  BY DEF SendAccepted
<1>2. op.seq \in Nat /\ op.seq <= Len(log) /\ op.message \in Nat /\ op.message - 1 \in Nat
  BY <1>1 DEF PageInv, ChatTypes, Within, SendAnswers, EndAnswers
<1>3. PICK m : m = IF op.seq > shown.watermark THEN op.seq ELSE shown.watermark OBVIOUS
<1>4. m \in Nat /\ m <= Len(log) /\ shown.watermark <= m BY <1>2, <1>3, ShownNow
<1>5. PICK r : r = Least(shown.refetch, op.message - 1) OBVIOUS
<1>6. r \in Nat \cup {None} BY <1>2, <1>5, ShownNow DEF Least
<1>7. PICK own : own = op.message .. op.seq OBVIOUS
<1>8. own \in SUBSET Nat BY <1>2, <1>7
<1>9. PICK u : u = [shown EXCEPT !.status = "queued", !.watermark = m, !.refetch = r,
                                 !.told = @ \cup own]
  OBVIOUS
<1>10. /\ u \in State /\ u.watermark = m /\ u.target = shown.target
       /\ u.messages = shown.messages /\ u.told = shown.told \cup own
       /\ u.missed = shown.missed /\ u.base = shown.base
  BY <1>4, <1>6, <1>8, <1>9, ShownNow DEF State, Statuses
<1>11. PICK s : s = Missing(u, 1 .. op.seq) OBVIOUS
<1>12. /\ s \in State /\ s.watermark = m /\ s.target = shown.target
       /\ s.messages = shown.messages /\ s.told = u.told /\ s.base = shown.base
       /\ shown.missed \subseteq s.missed
       /\ \A n \in shown.watermark + 1 .. m :
             n \in 1 .. op.seq => n \in s.told \cup s.missed
  <2>1. /\ s \in State /\ s.watermark = u.watermark /\ s.target = u.target
        /\ s.messages = u.messages /\ s.told = u.told /\ s.base = u.base
        /\ u.missed \subseteq s.missed
        /\ \A n \in shown.watermark + 1 .. u.watermark :
              n \in 1 .. op.seq => n \in s.told \cup s.missed
    <3>1. PICK causes : causes = 1 .. op.seq OBVIOUS
    <3>2. shown \in State /\ s = Missing(u, causes) BY <1>11, <3>1, ShownNow
    <3>3. /\ s \in State /\ s.watermark = u.watermark /\ s.target = u.target
          /\ s.messages = u.messages /\ s.told = u.told /\ s.base = u.base
          /\ u.missed \subseteq s.missed
          /\ \A n \in shown.watermark + 1 .. u.watermark :
                n \in causes => n \in s.told \cup s.missed
      BY <1>10, <3>2, MissingState
    <3> QED BY <3>1, <3>3
  <2> QED BY <1>10, <2>1
<1>13. Show(s) BY <1>3, <1>5, <1>7, <1>9, <1>11 DEF SendAccepted
<1>14. PageInv' BY <1>1, <1>4, <1>12, <1>13, ShownNow, ShowSteps
<1>15. shown' = s BY <1>13 DEF Show
<1>16. \A n \in shown.watermark + 1 .. m : n \in s.told \cup s.missed
  <2> SUFFICES ASSUME NEW n \in shown.watermark + 1 .. m PROVE n \in 1 .. op.seq BY <1>12
  <2> QED BY <1>2, <1>3, ShownNow
<1>17. ASSUME Cover, NEW n \in 1 .. Len(log), n <= m \/ n <= cursor, HasFrame(log[n])
       PROVE  n \in Known(s)
  <2>1. CASE n <= shown.watermark \/ n <= cursor
    <3>1. n \in Known(shown) BY <1>17, <2>1 DEF Cover, Covered, KnownAt
    <3>2. n \in Pending(shown) /\ n <= s.watermark => n \in s.told \cup s.missed
      <4> SUFFICES ASSUME n \in Pending(shown), n <= m PROVE n \in shown.watermark + 1 .. m
        BY <1>12, <1>16
      <4>1. shown.target \in Nat /\ n \in shown.watermark + 1 .. shown.target
        BY ShownNow DEF Pending
      <4> QED BY <1>4, <4>1, ShownNow
    <3>3. shown.target # None => shown.target <= shown.target BY ShownNow
    <3>4. shown.told \subseteq s.told BY <1>10, <1>12
    <3> QED BY <1>12, <3>1, <3>2, <3>3, <3>4, ShownNow, StaysKnown
  <2>2. CASE ~ (n <= shown.watermark \/ n <= cursor)
    <3>1. n \in shown.watermark + 1 .. m BY <1>4, <1>17, <2>2, ShownNow
    <3> QED BY <1>16, <3>1 DEF Known
  <2> QED BY <2>1, <2>2
<1>18. Cover => KnownAt(s, cursor') BY <1>1, <1>12, <1>17 DEF KnownAt
<1>19. Cover => OnTheWay' BY <1>1, <1>12, <1>15, WayKept DEF Cover
<1>20. Cover => Cover' BY <1>1, <1>12, <1>13, <1>18, <1>19, ShowCover
<1> QED BY <1>14, <1>20 DEF ChatStep

--------------------------------------------------------------------------------
(* The page: the theorems *)

LEMMA ChatInitInvariant == ChatInit => PageInv /\ Cover
<1> SUFFICES ASSUME ChatInit PROVE PageInv /\ Cover OBVIOUS
<1>1. /\ log = <<>> /\ unsaved = FALSE /\ frames = [w \in Writers |-> <<>>]
      /\ status \in Statuses /\ round \in {"none", "pending", "running", "cancelling"}
      /\ pump \in {"idle", "pumping", "settling"} /\ fence \in BOOLEAN
  BY DEF ChatInit, LogInit, Statuses
<1>2. /\ wire = <<>> /\ link = "loading" /\ cursor = 0
      /\ shown = [status |-> status, watermark |-> 0, messages |-> {}, refetch |-> None,
                  target |-> None, finalizing |-> FALSE, told |-> {}, missed |-> {},
                  base |-> 0]
      /\ load = Nothing /\ events = None /\ page = None /\ refetched = None
      /\ final = Refresh(0) /\ op = None /\ faults = 0
  BY DEF ChatInit
<1>3. /\ log \in Seq(Kinds) /\ Len(log) = 0 /\ Len(log) <= MaxEvents
      /\ <<>> \in Seq(Frame)
  BY <1>1, LogAssumption
<1>4. frames \in [Writers -> Seq(Frame)] BY <1>1, <1>3
<1>5. LogTypeOK BY <1>1, <1>3, <1>4 DEF LogTypeOK
<1>6. /\ shown \in State /\ shown.watermark = 0 /\ shown.target = None /\ shown.messages = {}
  BY <1>1, <1>2 DEF State
<1>7. load \in LoadAnswers /\ load.task = None /\ load.messages = None
  BY <1>2 DEF Nothing, LoadAnswers
<1>8. final \in FinalAnswers /\ final.messages = {} BY <1>2 DEF Refresh, FinalAnswers
<1>9. ChatTypes BY <1>2, <1>3, <1>5, <1>6, <1>7, <1>8 DEF ChatTypes
<1>10. Spaced(log) BY <1>3 DEF Spaced
<1>11. Within
  <2>1. UpTo(Len(log), wire) BY <1>2 DEF UpTo
  <2>2. \A w \in Writers : UpTo(Len(log), frames[w]) BY <1>1 DEF UpTo
  <2> QED BY <1>2, <1>3, <1>6, <1>7, <2>1, <2>2 DEF Within
<1>12. Texts BY <1>2, <1>6, <1>7, <1>8 DEF Texts
<1>13. NothingLeft BY <1>2, ChatAssumption DEF NothingLeft
<1>14. Cover
  <2>1. Covered BY <1>3 DEF Covered, KnownAt
  <2> QED BY <1>2, <2>1 DEF Cover, OnTheWay, Answered
<1> QED BY <1>9, <1>10, <1>11, <1>12, <1>13, <1>14 DEF PageInv

LEMMA ChatNextStep == PageInv /\ [ChatNext]_chatVars => ChatStep
<1> SUFFICES ASSUME PageInv, [ChatNext]_chatVars PROVE ChatStep OBVIOUS
<1>1. CASE UNCHANGED chatVars
  <2>1. /\ UNCHANGED logVars
        /\ UNCHANGED <<wire, link, cursor, shown, load, events, page, refetched, final, op, faults>>
    BY <1>1 DEF chatVars, pageVars, answerVars
  <2>2. Added BY <2>1, KeptLogs
  <2>3. Spaced(log') BY <2>1, SameSaved DEF PageInv
  <2>4. op' \in {None} \cup SendAnswers \cup EndAnswers BY <2>1 DEF PageInv, ChatTypes
  <2> QED BY <2>1, <2>2, <2>3, <2>4, WriterPageStep
<1>2. CASE Server BY <1>2, LoopsPageStep, PublishPageStep DEF Server
<1>3. CASE Client
  BY <1>3, ReadLoadStep, LoadStep, ConnectStep, LinkStep, ReceiveStep, ReconnectStep, ReconciledStep,
     ReadPageStep, PageAppliedStep, GiveUpStep, ReadTextsStep, MergedStep, FinalizedStep,
     SendStep, EndStep, SendAcceptedStep, TerminalStep, AnswerLostStep
  DEF Client
<1> QED BY <1>1, <1>2, <1>3 DEF ChatNext

\* Whatever the server commits, and whenever the answers arrive, the page's two cursors stay
\* within the log and it shows no message that the log does not have.
THEOREM ChatTypeCorrect == ChatSpec => []ChatTypeOK
<1>1. PageInv => ChatTypeOK
  <2> SUFFICES ASSUME PageInv PROVE ChatTypeOK OBVIOUS
  <2>1. cursor \in 0 .. Len(log) /\ shown.watermark \in 0 .. Len(log) BY ShownNow
  <2> QED BY <2>1, ShownNow DEF PageInv, ChatTypes, Within, ChatTypeOK
<1>2. PageInv /\ Cover /\ [ChatNext]_chatVars => PageInv' /\ Cover' BY ChatNextStep DEF ChatStep
<1> QED BY ChatInitInvariant, <1>1, <1>2, PTL DEF ChatSpec

\* sse.js and taskChatReducer.js keep a cursor each.  For any log, any page of two rows or
\* more, and answers that come in any order: an event with a frame that the stream client
\* will not ask for again was applied by the reducer, lies before the target it still
\* pages to, or was passed over for a cause that TaskChat names (a later frame of the
\* stream, the answer to a send, a paging that failed or was overtaken, a message that the
\* bundle came too early for).  What a replay, a reconciliation or a page brings never is.
THEOREM NoEventIsSkipped == ChatSpec => []CursorIsCovered
<1>1. PageInv /\ Cover => CursorIsCovered
  <2> SUFFICES ASSUME PageInv, Cover, NEW n \in 1 .. cursor, HasFrame(log[n])
               PROVE  n \in shown.told \cup shown.missed \cup Pending(shown)
    BY DEF CursorIsCovered
  <2>1. n \in 1 .. Len(log) /\ n <= cursor BY ShownNow
  <2> QED BY <2>1 DEF Cover, Covered, KnownAt, Known
<1>2. PageInv /\ Cover /\ [ChatNext]_chatVars => PageInv' /\ Cover' BY ChatNextStep DEF ChatStep
<1> QED BY ChatInitInvariant, <1>1, <1>2, PTL DEF ChatSpec

================================================================================
