--------------------------- MODULE PlaybackStream ---------------------------
(***************************************************************************)
(* The flow control of a playback stream of the native protocol: the       *)
(* client library (pulse/stream.c) may send as many bytes as the server    *)
(* asked for, the server asks for what its queue misses.  Four queues lie   *)
(* between the application and the queue: the connection in both           *)
(* directions (`up', `down'), and the two message queues between the main   *)
(* thread of the server and the thread of the sink (`inq', `outq').         *)
(*                                                                         *)
(* The memblockq is the one of MemBlockQOps; its data is abstracted to the *)
(* positions written.  The sink is one that cannot rewind, as the iwab     *)
(* sink (iwab-sink.c sets max_rewind to 0), so a rewind request never      *)
(* gives data back to the queue.  Of the sink input there is what the      *)
(* stream can see: the state, and the bytes in its render queue that the   *)
(* sink has not taken yet (`rq': what the resampler returned beyond the    *)
(* request).  The notifications UNDERFLOW, OVERFLOW and STARTED carry no   *)
(* credit and are left out, with is_underrun, which only filters them.     *)
(***************************************************************************)
EXTENDS MemBlockQOps, Sequences, FiniteSets
LOCAL INSTANCE SequencesExt
LOCAL INSTANCE FiniteSetsExt

CONSTANTS MaxLength, TLength, PreBuf, MinReq,   \* the buffer attributes
          PopSizes,      \* how much the sink asks for at once
          MaxSilence,    \* bound: how far reading runs ahead of writing
          Uses           \* what streams are used for, see below

ASSUME AttrAssumption ==
    /\ MaxLength \in Nat \ {0} /\ TLength \in 1..MaxLength
    /\ PreBuf \in Nat /\ MinReq \in Nat /\ PopSizes \subseteq Nat \ {0}
    /\ \A u \in Uses :
         /\ u.lengths \subseteq Nat \ {0} \* bytes the application writes at once
         /\ IsFiniteSet(u.seeks)          \* pairs <<mode, offset>> it writes with
         /\ IsFiniteSet(u.commands)       \* the stream commands it uses
         /\ u.bytes \in Nat               \* bound: bytes it writes in all
         /\ u.calls \in Nat               \* bound: commands it sends in all
         /\ u.excess \in BOOLEAN          \* does it write more than asked for?
         /\ u.requests \subseteq Nat      \* values max_request of the sink changes to

VARIABLES use,       \* the use this stream is put to
          cl,        \* pa_stream: requested_bytes, and what the application did
          up, down,  \* the connection, to and from the server
          main,      \* main thread of the server
          inq, outq, \* messages to and from the thread of the sink
          missing,   \* playback_stream.missing, atomic
          inqueue,   \* playback_stream.seek_or_post_in_queue, atomic
          istate,    \* pa_sink_input.state, as the main thread sees it
          bq,        \* playback_stream.memblockq
          st,        \* what the thread of the sink keeps of the stream
          seen       \* history: rewrites to report, what a drain waits for, and
                     \* the credit of blocks that were lost

pbVars == <<use, cl, up, down, main, inq, outq, missing, inqueue, istate, bq, st, seen>>

Idle == [pc |-> "idle"]
Silence == [blk |-> 9, index |-> 0, length |-> 1]
Far == 1000                              \* above every index
Least(a, b) == IF a < b THEN a ELSE b

\* playback_stream_new: the queue, and the first request in the reply.
NewQueue ==
    pa_memblockq_new(0, MaxLength, TLength, 1, PreBuf, MinReq, 0, Silence)

PbInit ==
    /\ use \in Uses
    /\ bq = pa_memblockq_pop_missing(NewQueue)
    /\ cl = [requested |-> MissingToRequest(NewQueue), written |-> 0,
             commands |-> 0, draining |-> FALSE, corked |-> FALSE]
    /\ up = <<>> /\ down = <<>> /\ inq = <<>> /\ outq = <<>>
    /\ main = Idle
    /\ missing = 0 /\ inqueue = 0
    /\ istate = "RUNNING"
    /\ st = [state |-> "RUNNING", seek_windex |-> -1, drain_request |-> FALSE,
             rq |-> 0]
    /\ seen = [low |-> Far, need |-> Far, told |-> 0, upto |-> 0, lost |-> 0]

-----------------------------------------------------------------------------
(* The client.                                                             *)

\* What pa_stream_write_ext_free takes off requested_bytes for a block.
Accounted(d) == d.length + (IF d.seek = "RELATIVE" THEN d.offset ELSE 0)

pa_stream_write(l, seek) ==
    LET d == [kind |-> "data", length |-> l, seek |-> seek[1],
              offset |-> seek[2]] IN
    /\ cl.written + l <= use.bytes
    /\ use.excess \/ l <= cl.requested
    /\ up' = Append(up, d)
    /\ cl' = [cl EXCEPT !.requested = @ - Accounted(d), !.written = @ + l]
    /\ UNCHANGED <<down, main, inq, outq, missing, inqueue, istate, bq, st, seen>>

\* pa_stream_flush, _prebuf, _trigger, _cork, _drain.  One drain at a time,
\* as stream.h requires; a cork request that changes nothing is left out.
SendCommand(c) ==
    /\ cl.commands < use.calls
    /\ c = "drain" => ~cl.draining
    /\ c = "cork" => ~cl.corked
    /\ c = "uncork" => cl.corked
    /\ c = "prebuf" => PreBuf > 0
    /\ up' = Append(up, [kind |-> c])
    /\ cl' = [cl EXCEPT !.commands = @ + 1,
                        !.draining = @ \/ c = "drain",
                        !.corked = IF c \in {"cork", "uncork"} THEN c = "cork"
                                                                ELSE @]
    /\ UNCHANGED <<down, main, inq, outq, missing, inqueue, istate, bq, st, seen>>

\* pa_command_request; the acknowledgement of a drain.
ClientReceives ==
    /\ down # <<>>
    /\ down' = Tail(down)
    /\ cl' = IF Head(down).kind = "request"
             THEN [cl EXCEPT !.requested = @ + Head(down).bytes]
             ELSE [cl EXCEPT !.draining = FALSE]
    /\ UNCHANGED <<up, main, inq, outq, missing, inqueue, istate, bq, st, seen>>

-----------------------------------------------------------------------------
(* The main thread of the server.                                          *)

\* The message a block becomes.  Of a block that could not be mapped only the
\* length is known, which is then added to the offset of the seek.
BlockMessage(d, mapped) ==
    IF mapped THEN d
    ELSE [d EXCEPT !.offset = @ + d.length, !.length = 0]

\* pstream_memblock_callback, up to raising the counter.
pstream_memblock_callback ==
    /\ main.pc = "idle" /\ up # <<>> /\ Head(up).kind = "data"
    /\ inqueue' = inqueue + 1
    /\ \E mapped \in BOOLEAN : \E msg \in {BlockMessage(Head(up), mapped)} :
         /\ main' = [pc |-> "post", msg |-> msg]
         /\ seen' = [seen EXCEPT !.lost = @ + Accounted(Head(up)) - Accounted(msg)]
    /\ up' = Tail(up)
    /\ UNCHANGED <<cl, down, inq, outq, missing, istate, bq, st>>

\* ... and posting the message.
PostBlock ==
    /\ main.pc = "post"
    /\ inq' = Append(inq, main.msg)
    /\ main' = Idle
    /\ UNCHANGED <<cl, up, down, outq, missing, inqueue, istate, bq, st, seen>>

\* command_drain_playback_stream posts, the other commands send and wait.
ServerCommand ==
    LET c == Head(up).kind
        s == IF c = "cork" THEN "CORKED" ELSE "RUNNING"
    IN
    /\ main.pc = "idle" /\ up # <<>> /\ c # "data"
    /\ up' = Tail(up)
    /\ IF c \in {"cork", "uncork"} /\ s = istate
       THEN UNCHANGED <<inq, main>>            \* sink_input_set_state
       ELSE /\ inq' = Append(inq, Head(up))
            /\ main' = IF c = "drain" THEN Idle
                                      ELSE [pc |-> "wait", cmd |-> c]
    /\ UNCHANGED <<cl, down, outq, missing, inqueue, istate, bq, st, seen>>

\* The rest of command_cork_playback_stream and its fellows once the thread of
\* the sink has answered.
CommandDone ==
    /\ main.pc = "done"
    /\ main' = Idle
    /\ istate' = CASE main.cmd = "cork" -> "CORKED"
                   [] main.cmd = "uncork" -> "RUNNING"
                   [] OTHER -> istate
    /\ UNCHANGED <<cl, up, down, inq, outq, missing, inqueue, bq, st, seen>>

\* playback_stream_process_msg.  A request is sent in two steps: the counter
\* is read, then exchanged for 0 if it is still the same.
playback_stream_process_msg ==
    /\ main.pc = "idle" /\ outq # <<>>
    /\ outq' = Tail(outq)
    /\ IF Head(outq) = "REQUEST_DATA"
       THEN /\ main' = IF missing <= 0 THEN Idle
                       ELSE [pc |-> "exchange", bytes |-> missing]
            /\ UNCHANGED down
       ELSE /\ down' = Append(down, [kind |-> "drained"])
            /\ UNCHANGED main
    /\ UNCHANGED <<cl, up, inq, missing, inqueue, istate, bq, st, seen>>

Exchange ==
    /\ main.pc = "exchange"
    /\ IF missing = main.bytes
       THEN /\ missing' = 0
            /\ down' = Append(down, [kind |-> "request", bytes |-> main.bytes])
            /\ main' = Idle
       ELSE /\ main' = [main EXCEPT !.bytes = missing]
            /\ UNCHANGED <<missing, down>>
    /\ UNCHANGED <<cl, up, inq, outq, inqueue, istate, bq, st, seen>>

-----------------------------------------------------------------------------
(* The thread of the sink.                                                 *)

\* playback_stream_request_bytes adds m bytes to the request and posts a
\* message if no other is under way.
RequestMessage(m) ==
    IF m > 0 /\ missing <= 0 THEN <<"REQUEST_DATA">> ELSE <<>>

\* playback_stream_request_bytes with the queue at q.
playback_stream_request_bytes(q) ==
    LET m == MissingToRequest(q) IN
    /\ bq' = pa_memblockq_pop_missing(q)
    /\ missing' = missing + m
    /\ outq' = outq \o RequestMessage(m)

\* SINK_INPUT_MESSAGE_SEEK and _POST_DATA: the queue when the seek is done,
Sought(d) ==
    IF d.seek = "RELATIVE" /\ d.offset = 0 THEN bq
    ELSE pa_memblockq_seek(bq, d.offset, d.seek, d.seek = "RELATIVE")

\* Mutant: data that does not fit is dropped without moving the write index.
Bug_Pushed(q, l) ==
    IF l = 0 THEN q
    ELSE pa_memblockq_push(q, [blk |-> 0, index |-> q.write_index, length |-> l])

\* and when the data is in, or skipped because it does not fit.
Pushed(q, l) ==
    LET c == [blk |-> 0, index |-> q.write_index, length |-> l] IN
    CASE l = 0 -> q
      [] l > 0 /\ can_push(q, l) -> pa_memblockq_push(q, c)
      [] OTHER -> pa_memblockq_seek(q, l, "RELATIVE", TRUE)

\* The lowest index written since handle_seek was last called.
LowestIndex(windex) ==
    IF st.seek_windex # -1 THEN Least(windex, st.seek_windex) ELSE windex

\* While more blocks wait in the queue, handle_seek is left to the last one.
SeekOrPost(d) ==
    \E q \in {Sought(d)} : \E pushed \in {Pushed(q, d.length)} :
    LET windex == Least(bq.write_index, q.write_index)
        low == LowestIndex(windex)
        last == inqueue <= 1
        need == Least(seen.low, windex)
        kept == [seen EXCEPT !.upto = Least(@, q.write_index)]
    IN
    /\ inqueue' = inqueue - 1
    /\ st' = [st EXCEPT !.seek_windex = IF last THEN -1 ELSE low]
    /\ IF last
       THEN /\ playback_stream_request_bytes(pushed)
            /\ seen' = [kept EXCEPT !.low = Far, !.need = need, !.told = low]
       ELSE /\ bq' = pushed
            /\ seen' = [kept EXCEPT !.low = need]
            /\ UNCHANGED <<missing, outq>>
    /\ UNCHANGED main

\* What DRAIN, FLUSH, PREBUF_FORCE, TRIGGER and SET_STATE do to the queue.
CommandQueue(c) ==
    CASE c = "flush" -> pa_memblockq_flush_write(bq, FALSE)
      [] c = "prebuf" -> pa_memblockq_prebuf_force(bq)
      [] c \in {"trigger", "drain"} -> pa_memblockq_prebuf_disable(bq)
      [] OTHER -> IF st.drain_request THEN bq ELSE pa_memblockq_prebuf_force(bq)

\* A drain is acknowledged at once when there is nothing to read, whatever the
\* render queue holds.
DoDrain ==
    LET q == CommandQueue("drain")
        m == MissingToRequest(q)
        now == ~pa_memblockq_is_readable(q)
    IN
    /\ bq' = pa_memblockq_pop_missing(q)
    /\ missing' = missing + m
    /\ outq' = outq \o RequestMessage(m) \o (IF now THEN <<"DRAIN_ACK">> ELSE <<>>)
    /\ st' = [st EXCEPT !.drain_request = @ \/ ~now]
    /\ seen' = [seen EXCEPT !.upto = bq.write_index]
    /\ UNCHANGED <<main, inqueue>>

\* The other commands, for which the main thread waits.
DoCommand(c) ==
    /\ playback_stream_request_bytes(CommandQueue(c))
    /\ st' = [st EXCEPT !.state = CASE c = "cork" -> "CORKED"
                                    [] c = "uncork" -> "RUNNING"
                                    [] OTHER -> @]
    /\ main' = [main EXCEPT !.pc = "done"]
    /\ seen' = [seen EXCEPT !.upto = CASE c = "flush" -> Least(@, bq'.write_index)
                                       [] c = "prebuf" -> Least(@, bq.read_index)
                                       [] OTHER -> @]
    /\ UNCHANGED inqueue

sink_input_process_msg ==
    /\ inq # <<>>
    /\ inq' = Tail(inq)
    /\ CASE Head(inq).kind = "data" -> SeekOrPost(Head(inq))
         [] Head(inq).kind = "drain" -> DoDrain
         [] OTHER -> DoCommand(Head(inq).kind)
    /\ UNCHANGED <<cl, up, down, istate>>

\* handle_input_underrun requests before the queue is looked at again.
UnderrunQueue ==
    IF pa_memblockq_is_readable(bq) THEN bq ELSE pa_memblockq_pop_missing(bq)

\* handle_input_underrun: is a drain waited for, and everything played?
DrainDue ==
    st.drain_request /\ ~pa_memblockq_is_readable(bq) /\ st.rq = 0

\* The queue when l bytes have been taken from it and requested again.
Popped(q, l) ==
    IF l = 0 THEN q ELSE pa_memblockq_pop_missing(pa_memblockq_drop(q, l))

\* sink_input_pop_cb, called from pa_sink_input_peek for n bytes, and what the
\* sink takes of them; what the resampler delivers beyond that, or another
\* input keeps the mixer from taking, stays in the render queue.
sink_input_pop_cb(n) ==
    /\ st.rq = 0 /\ st.state = "RUNNING"
    /\ DrainDue \/ bq.read_index < bq.write_index + MaxSilence
    /\ \E q1 \in {UnderrunQueue} : \E c \in {pa_memblockq_peek(q1)} :
       \E q2 \in {Popped(update_prebuf(q1), Least(n, c.length))} :
       \E m \in {q2.requested - bq.requested} :
         /\ bq' = q2
         /\ missing' = missing + m
         /\ outq' = outq \o (IF DrainDue THEN <<"DRAIN_ACK">> ELSE <<>>)
                         \o RequestMessage(m)
         /\ \E left \in (IF c.blk = 0 THEN {0, 1} ELSE {0}) :
              st' = [st EXCEPT !.drain_request = @ /\ ~DrainDue, !.rq = left]
    /\ UNCHANGED <<cl, up, down, main, inq, inqueue, istate, seen>>

\* The sink takes what the render queue still holds.
TakeRest ==
    /\ st.rq > 0
    /\ st' = [st EXCEPT !.rq = 0]
    /\ UNCHANGED <<cl, up, down, main, inq, outq, missing, inqueue, istate, bq,
                   seen>>

\* sink_input_update_max_request_cb
sink_input_update_max_request_cb(nbytes) ==
    LET t == nbytes + 2 * bq.minreq IN
    /\ bq.tlength < t
    /\ bq' = pa_memblockq_set_tlength(bq, t)
    /\ bq' # bq
    /\ UNCHANGED <<cl, up, down, main, inq, outq, missing, inqueue, istate, st,
                   seen>>

-----------------------------------------------------------------------------
Write == \E l \in use.lengths, s \in use.seeks : pa_stream_write(l, s)
MainThread ==
    \/ pstream_memblock_callback
    \/ PostBlock
    \/ ServerCommand
    \/ CommandDone
    \/ playback_stream_process_msg
    \/ Exchange
Render == (\E n \in PopSizes : sink_input_pop_cb(n)) \/ TakeRest

PbNext ==
    /\ \/ Write
       \/ \E c \in use.commands : SendCommand(c)
       \/ ClientReceives
       \/ MainThread
       \/ sink_input_process_msg
       \/ Render
       \/ \E n \in use.requests : sink_input_update_max_request_cb(n)
    /\ UNCHANGED use

\* Both threads of the server and the client keep running, the sink keeps
\* asking for data and the application writes what it is asked for.
PbFairness ==
    /\ WF_pbVars(Write /\ UNCHANGED use)
    /\ WF_pbVars(ClientReceives /\ UNCHANGED use)
    /\ WF_pbVars(MainThread /\ UNCHANGED use)
    /\ WF_pbVars(sink_input_process_msg /\ UNCHANGED use)
    /\ WF_pbVars(Render /\ UNCHANGED use)

PbSpec == PbInit /\ [][PbNext]_pbVars /\ PbFairness

-----------------------------------------------------------------------------
(* Properties.                                                             *)

Kinds == {"data", "drain", "flush", "prebuf", "trigger", "cork", "uncork"}
Pending == IF main.pc = "post" THEN <<main.msg>> ELSE <<>>
Blocks(q) == SelectSeq(q, LAMBDA m : m.kind = "data")
Requests(q) == SelectSeq(q, LAMBDA m : m.kind = "request")

\* Everything has its type: the queues hold what their reader understands, and
\* a thread waits for an answer only while the other owes it one.
PbTypeOK ==
    /\ use \in Uses
    /\ cl.requested \in Int /\ cl.written \in 0..use.bytes
    /\ \A i \in DOMAIN up : up[i].kind \in Kinds
    /\ \A i \in DOMAIN inq : inq[i].kind \in Kinds
    /\ \A i \in DOMAIN down : down[i].kind \in {"request", "drained"}
    /\ \A i \in DOMAIN outq : outq[i] \in {"REQUEST_DATA", "DRAIN_ACK"}
    /\ main.pc \in {"idle", "post", "wait", "done", "exchange"}
    /\ main.pc = "wait" <=>
         \E i \in DOMAIN inq : inq[i].kind \notin {"data", "drain"}
    /\ missing \in Nat /\ inqueue \in Nat /\ st.rq \in 0..1
    /\ st.state \in {"RUNNING", "CORKED"}

\* The bytes a sequence of blocks carries, or a sequence of requests asks for.
BlockBytes(q) == FoldLeft(LAMBDA n, d : n + Accounted(d), 0, Blocks(q))
RequestBytes(q) == FoldLeft(LAMBDA n, r : n + r.bytes, 0, Requests(q))

\* Credit is neither lost nor made up: what the queue of the server waits for
\* is what the application may still write, plus the requests and the blocks
\* on their way, whatever seeks, flushes and overflows did in between
\* (stream.c applies "the same error" as the server).  The exception is a block
\* the server cannot map and that came with a seek other than a relative one:
\* its length becomes part of a seek that is not accounted for, so this much
\* credit is gone for good.
CreditConserved ==
    /\ bq.requested = cl.requested + missing + RequestBytes(down)
                      + BlockBytes(up \o Pending \o inq) + seen.lost
    /\ seen.lost > 0 => \E s \in use.seeks : s[1] # "RELATIVE"

\* A request is never forgotten and never doubled: while bytes are counted in
\* playback_stream.missing, exactly one message that makes the main thread
\* send them is in its queue or in its hands.
RequestPosted ==
    LET posted == Len(SelectSeq(outq, LAMBDA m : m = "REQUEST_DATA"))
                  + (IF main.pc = "exchange" THEN 1 ELSE 0)
    IN posted = IF missing > 0 THEN 1 ELSE 0

\* handle_seek, put off while more blocks are in the queue, is called in the
\* end: the counter is that of the blocks in the queue, and a position is only
\* remembered while one of them is still to come.
SeekNotForgotten ==
    /\ inqueue = Len(Blocks(Pending \o inq))
    /\ st.seek_windex # -1 => inqueue > 0

\* When handle_seek is called at last, it learns of the lowest position any of
\* the blocks since the call before has written to, so that everything the
\* sink already took can be asked for again.  Only a lowest position of -1 may
\* be missed: seek_windex is -1 when no position is remembered.
RewriteReported == seen.told <= seen.need \/ seen.need = -1

Acks(q) == Len(SelectSeq(q, LAMBDA m : m = "DRAIN_ACK"))

\* When a drain is acknowledged, everything that was in the queue when it came
\* has been taken out of it, except what the application itself has meanwhile
\* flushed, overwritten or put back behind the prebuffer.  If the drain had to
\* wait, all of it was played too; if it did not, because the queue was empty,
\* the render queue may still hold some that was not.
DrainedMeansPlayed ==
    [][ Acks(outq') > Acks(outq) =>
          /\ bq.read_index >= IF st.drain_request THEN seen.upto
                                                  ELSE bq.write_index
          /\ st.rq = 0 \/ ~st.drain_request ]_pbVars

\* A stream that keeps running acknowledges every drain.
DrainAnswered ==
    <>[](st.state = "RUNNING") => (cl.draining ~> ~cl.draining)

\* An application that writes when it is asked to is asked again and again: it
\* gets rid of all it has, whatever the prebuffer and the smallest request.
ApplicationServed ==
    <>[](st.state = "RUNNING") => <>(cl.written = use.bytes)
=============================================================================
