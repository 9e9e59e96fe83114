------------------------------- MODULE AgentPipe -------------------------------
(***************************************************************************)
(* The way of a line from the agent in its container to the round that     *)
(* waits for it: stdout, the transport that cuts the byte stream into      *)
(* lines, the reader of PiEngine that hands a frame to the round, and the  *)
(* bounded queue from which _pump_round takes.  A line is a sequence of    *)
(* units, the last of which carries the newline; chunks are any prefix of  *)
(* what has been written, as a pipe or the Docker stream delivers it.      *)
(***************************************************************************)
EXTENDS Naturals, Sequences

CONSTANTS
    Transports,       \* "api": DockerApiTransport; "cli": the two asyncio transports
    Limit,            \* MAX_LINE_BYTES, in units
    Sizes,            \* the line lengths tried, in units
    QueueMax          \* _ROUND_QUEUE_MAX

ASSUME PipeAssumption ==
    /\ Transports \subseteq {"api", "cli"}
    /\ Limit \in Nat \ {0} /\ Sizes \subseteq Nat \ {0} /\ 1 \in Sizes
    /\ QueueMax \in Nat \ {0}

VARIABLES
    transport,        \* the one this deployment is configured with
    pipe,             \* units written by the agent and not yet read
    buf,              \* the transport's buffer
    rd,               \* PiEngine._read_loop, inside readline or a callback
    queue,            \* the queue of _pump_round
    torn              \* history: was a line cut in two, and did its rest end the reader?

pipeVars == <<pipe, buf, rd, queue, torn>>

Kinds == {"ack", "delta", "tool", "answer", "settled"}
Units == [kind : Kinds, first : BOOLEAN, last : BOOLEAN]

\* "line", "drop" and "drain" are inside readline; "persist" and "put" inside on_frame.
Stages == {"line", "drop", "drain", "persist", "put", "ended"}
Reader == [stage : Stages, drained : Nat, kind : Kinds]

Line(kind, n) == [k \in 1 .. n |-> [kind |-> kind, first |-> k = 1, last |-> k = n]]

Intact         == [cut |-> FALSE, fatal |-> FALSE]
At(stage)      == [stage |-> stage, drained |-> 0, kind |-> "ack"]
With(stage, k) == [stage |-> stage, drained |-> 0, kind |-> k]

HasLine  == \E k \in DOMAIN buf : buf[k].last
LineEnd  == CHOOSE k \in DOMAIN buf : buf[k].last /\ \A j \in 1 .. k - 1 : ~ buf[j].last
AfterLine == SubSeq(buf, LineEnd + 1, Len(buf))

\* The reader awaits bytes: no complete line, and not over a threshold.
Hungry ==
    \/ rd.stage = "line" /\ ~ HasLine /\ Len(buf) <= Limit
    \/ rd.stage = "drop" /\ ~ HasLine /\ rd.drained <= 2 * Limit
    \/ rd.stage = "drain" /\ buf = <<>>

\* A chunk arrives.
Receive ==
    /\ Hungry
    /\ \E n \in 1 .. Len(pipe) :
          /\ buf' = buf \o SubSeq(pipe, 1, n)
          /\ pipe' = SubSeq(pipe, n + 1, Len(pipe))
          /\ rd' = IF rd.stage = "drop" THEN [rd EXCEPT !.drained = @ + n] ELSE rd
    /\ UNCHANGED <<queue, torn>>

--------------------------------------------------------------------------------
(* A line over the limit *)

\* _LineAssembler.readline: a whole oversized line is deleted.
SkipWhole ==
    /\ transport = "api" /\ rd.stage = "line" /\ HasLine /\ LineEnd > Limit
    /\ buf' = AfterLine
    /\ UNCHANGED <<pipe, rd, queue, torn>>

\* Its beginning fills the buffer: _drop_oversize_line takes over.
StartDrop ==
    /\ transport = "api" /\ rd.stage = "line" /\ ~ HasLine /\ Len(buf) > Limit
    /\ rd' = [At("drop") EXCEPT !.drained = Len(buf)]
    /\ UNCHANGED <<pipe, buf, queue, torn>>

\* Mutant of EndDrop: the buffer is emptied instead of cut after the newline.
BugDropsBuffer ==
    /\ rd.stage = "drop" /\ (HasLine \/ rd.drained > 2 * Limit)
    /\ buf' = <<>>
    /\ rd' = At("line")
    /\ torn' = [torn EXCEPT !.cut = @ \/ ~ HasLine]
    /\ UNCHANGED <<pipe, queue>>

\* It ends at the newline, or at twice the limit: what follows is then read as a line.
EndDrop ==
    /\ rd.stage = "drop"
    /\ \/ HasLine /\ buf' = AfterLine /\ UNCHANGED torn
       \/ /\ ~ HasLine /\ rd.drained > 2 * Limit
          /\ buf' = <<>> /\ torn' = [torn EXCEPT !.cut = TRUE]
    /\ rd' = At("line")
    /\ UNCHANGED <<pipe, queue>>

\* StreamReader.readline raises ValueError, having deleted the line or cleared its
\* buffer; _drain_oversize_line begins.
Overrun ==
    /\ transport = "cli" /\ rd.stage = "line"
    /\ \/ HasLine /\ LineEnd > Limit /\ buf' = AfterLine
       \/ ~ HasLine /\ Len(buf) > Limit /\ buf' = <<>>
    /\ rd' = At("drain")
    /\ UNCHANGED <<pipe, queue, torn>>

\* It reads chunks until one ends with a newline.
Drain ==
    /\ rd.stage = "drain" /\ buf # <<>>
    /\ LET n == IF Len(buf) < Limit THEN Len(buf) ELSE Limit
       IN  /\ buf' = SubSeq(buf, n + 1, Len(buf))
           /\ rd' = IF buf[n].last THEN At("line") ELSE rd
    /\ UNCHANGED <<pipe, queue, torn>>

--------------------------------------------------------------------------------
(* A line for the engine *)

Full == Len(queue) >= QueueMax

\* The rest of a line cut in two does not parse, if it can be decoded at all; a delta is
\* dropped when the queue is full; a response only resolves its future.
Skipped(u) == ~ u.first \/ u.kind = "ack" \/ (u.kind = "delta" /\ Full)

\* handle_line and on_frame: a fact is persisted before the next line is taken.
TakeLine ==
    /\ rd.stage = "line" /\ HasLine /\ LineEnd <= Limit
    /\ buf' = AfterLine
    /\ LET u == buf[1]
       IN  \/ Skipped(u) /\ UNCHANGED <<rd, queue>>
           \/ u.first /\ u.kind = "delta" /\ ~ Full
              /\ queue' = Append(queue, "delta") /\ UNCHANGED rd
           \/ u.first /\ u.kind \in {"tool", "answer"}
              /\ rd' = With("persist", u.kind) /\ UNCHANGED queue
           \/ u.first /\ u.kind = "settled"
              /\ rd' = With("put", "settled") /\ UNCHANGED queue
    /\ UNCHANGED <<pipe, torn>>

\* readline decodes strictly: a rest that begins inside a character of several bytes raises,
\* and _read_loop ends with everything behind it unread.
Undecodable ==
    /\ rd.stage = "line" /\ HasLine /\ LineEnd <= Limit /\ ~ buf[1].first
    /\ rd' = At("ended")
    /\ buf' = <<>> /\ pipe' = <<>>
    /\ torn' = [torn EXCEPT !.fatal = TRUE]
    /\ UNCHANGED queue

\* queue.put waits for room.
Put ==
    /\ rd.stage = "put" /\ ~ Full
    /\ queue' = Append(queue, rd.kind)
    /\ rd' = At("line")
    /\ UNCHANGED <<pipe, buf, torn>>

\* The stdout of a dead container is read to its end; an unfinished line is lost.
Eof ==
    /\ Hungry /\ pipe = <<>>
    /\ rd' = At("ended")
    /\ buf' = <<>>
    /\ UNCHANGED <<pipe, queue, torn>>

\* The prompt's response is the next line to be taken.
AckNext == rd.stage = "line" /\ HasLine /\ LineEnd <= Limit /\ buf[1].first /\ buf[1].kind = "ack"

Reading == Receive \/ SkipWhole \/ StartDrop \/ EndDrop \/ Overrun \/ Drain \/ TakeLine \/ Put

\* Everything the agent wrote has been read, and the reader waits for more.
Drained == pipe = <<>> /\ ~ HasLine /\ rd.stage \in {"line", "drop", "drain"} /\ Hungry

PipeTypeOK ==
    /\ transport \in Transports
    /\ pipe \in Seq(Units) /\ buf \in Seq(Units)
    /\ rd \in Reader
    /\ queue \in Seq(Kinds) /\ Len(queue) <= QueueMax
    /\ torn \in [cut : BOOLEAN, fatal : BOOLEAN]
================================================================================
