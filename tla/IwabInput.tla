----------------------------- MODULE IwabInput -----------------------------
(***************************************************************************)
(* module-iwab-input (modules/iwab/iwab-input.c): the receiving end.  All  *)
(* of it runs in the real-time thread of the sink it plays to: the poll    *)
(* callback that reads a frame and queues its audio, and the callbacks by  *)
(* which the sink pops audio, rewinds, and attaches or detaches the        *)
(* stream.  The audio queue is a memblockq, see MemBlockQOps; its unit is  *)
(* the audio frame, and the memblock of a packet is named by the packet's  *)
(* stream position.                                                        *)
(***************************************************************************)
EXTENDS IwabNet, MemBlockQOps

CONSTANTS QueueMax,      \* 10 * MAX_FRAME_SIZE, in audio frames
          QueuePrebuf,   \* 5 * MAX_FRAME_SIZE, tlength and prebuf
          SilenceLength, \* length of the sink input's silence chunk
          RewindMax      \* largest rewind of the sink

ASSUME InputAssumption ==
    /\ QueueMax \in Nat \ {0}
    /\ QueuePrebuf \in 1 .. QueueMax
    /\ SilenceLength \in Nat \ {0}
    /\ RewindMax \in Nat

VARIABLES seqnb,         \* sequence number of the packet queued last, or 0
          last_pb_ts,    \* presentation time of its end, or 0
          queue,         \* the memblockq
          sink_opened,   \* is the sink the stream plays to opened?
          attached,      \* u->rtpoll_item # NULL
          aborted,       \* pa_assert() failed
          heard          \* history of what was queued, see InputInit

inputVars == <<seqnb, last_pb_ts, queue, sink_opened, attached, aborted, heard>>

Silence == [blk |-> -2, index |-> 0, length |-> SilenceLength]

\* `heard' records what the C code does not: the stream position at the end
\* of the last packet accepted, by how many audio frames the queue has fallen
\* behind the stream since the first packet, how many packets were lost, and
\* whether the queue ever refused a push.
InputInit ==
    /\ seqnb = 0 /\ last_pb_ts = 0
    /\ queue = pa_memblockq_new(0, QueueMax, QueuePrebuf, 1, QueuePrebuf, 0, 0,
                                Silence)
    /\ sink_opened \in BOOLEAN
    /\ attached = FALSE
    /\ aborted = FALSE
    /\ heard = [pos |-> 0, drift |-> 0, lost |-> 0, overrun |-> FALSE]

-----------------------------------------------------------------------------
(***************************************************************************)
(* rtpoll_work_cb: one frame read from the socket.                         *)
(***************************************************************************)
\* Repeated and disordered packets are ignored, and leave no trace.
Accepts(f) ==
    /\ f.seq # seqnb
    /\ ~(seqnb # 0 /\ f.seq < seqnb)
    /\ ~(last_pb_ts # 0 /\ f.timestamp < last_pb_ts)

\* Mutant: off by one.
Bug_IsGap(f) == seqnb # 0 /\ f.seq # (seqnb + 2) % SeqMod

IsGap(f) == seqnb # 0 /\ f.seq # (seqnb + 1) % SeqMod

\* The first chunk of n frames of packet f.
Payload(f, n) == [blk |-> f.pos, index |-> 0, length |-> n]

\* A gap is filled with copies of the packet that ends it, the last one cut
\* to size.  A push that is refused is forgotten.
FillerLength(missing, f, i) ==
    AtMost(missing - (i - 1) * f.length, f.length)

FillGap(q, missing, f) ==
    LET n == (missing + f.length - 1) \div f.length
        fill[i \in 0 .. n] ==
            IF i = 0 THEN q
            ELSE pa_memblockq_push(fill[i - 1],
                                   Payload(f, FillerLength(missing, f, i)))
    IN fill[n]

\* pa_assert(timestamp > last_pb_ts) fails: the daemon aborts.
AssertFails(f) == IsGap(f) /\ ~(f.timestamp > last_pb_ts)

\* Mutant: the gap is measured to the end of the packet.
Bug_Missing(f) ==
    IF IsGap(f)
    THEN pa_usec_to_bytes(f.timestamp + pa_bytes_to_usec(f.length) - last_pb_ts)
    ELSE 0

Missing(f) == IF IsGap(f) THEN pa_usec_to_bytes(f.timestamp - last_pb_ts) ELSE 0

\* The history once packet f has been accepted and the queue has grown by n.
Hears(f, n) ==
    [pos |-> f.pos + f.length,
     drift |-> IF seqnb = 0 THEN f.length - n
               ELSE heard.drift + (f.pos + f.length - heard.pos) - n,
     lost |-> IF seqnb = 0 THEN 0 ELSE heard.lost + f.seq - seqnb - 1,
     overrun |-> heard.overrun \/ n < Missing(f) + f.length]

\* Mutant: only direct repetitions are recognised.
Bug_ReadAnyOrder(f) ==
    /\ attached /\ sink_opened /\ ~aborted
    /\ f.seq # seqnb
    /\ queue' = pa_memblockq_push(queue, Payload(f, f.length))
    /\ seqnb' = f.seq
    /\ last_pb_ts' = f.timestamp + pa_bytes_to_usec(f.length)
    /\ heard' = Hears(f, queue'.write_index - queue.write_index)
    /\ UNCHANGED <<sink_opened, attached, aborted>>

\* Mutant: the end of a packet is rounded up.
Bug_ReadRoundsUp(f) ==
    /\ attached /\ sink_opened /\ ~aborted
    /\ Accepts(f) /\ ~AssertFails(f)
    /\ queue' = pa_memblockq_push(FillGap(queue, Missing(f), f),
                                  Payload(f, f.length))
    /\ seqnb' = f.seq
    /\ last_pb_ts' = f.timestamp + pa_bytes_to_usec(f.length) + 1
    /\ heard' = Hears(f, queue'.write_index - queue.write_index)
    /\ UNCHANGED <<sink_opened, attached, aborted>>

ReadFrame(f) ==
    /\ attached /\ sink_opened /\ ~aborted
    /\ Accepts(f)
    /\ \/ /\ AssertFails(f)
          /\ aborted' = TRUE
          /\ UNCHANGED <<seqnb, last_pb_ts, queue, heard>>
       \/ /\ ~AssertFails(f)
          /\ queue' = pa_memblockq_push(FillGap(queue, Missing(f), f),
                                        Payload(f, f.length))
          /\ seqnb' = f.seq
          /\ last_pb_ts' = f.timestamp + pa_bytes_to_usec(f.length)
          /\ heard' = Hears(f, queue'.write_index - queue.write_index)
          /\ UNCHANGED aborted
    /\ UNCHANGED <<sink_opened, attached>>

-----------------------------------------------------------------------------
(***************************************************************************)
(* The callbacks of the sink input.                                        *)
(***************************************************************************)
\* An underrun returns -1, but has already switched the queue to prebuffering.
sink_input_pop_cb ==
    /\ attached /\ sink_opened /\ ~aborted
    /\ LET q == update_prebuf(queue)
           c == pa_memblockq_peek(queue)
       IN queue' = IF c.length = 0 THEN q ELSE pa_memblockq_drop(q, c.length)
    /\ UNCHANGED <<seqnb, last_pb_ts, sink_opened, attached, aborted, heard>>

\* The sink never rewinds further than what it has taken.
sink_input_process_rewind_cb(n) ==
    /\ attached /\ ~aborted
    /\ n <= queue.read_index
    /\ queue' = pa_memblockq_rewind(queue, n)
    /\ UNCHANGED <<seqnb, last_pb_ts, sink_opened, attached, aborted, heard>>

sink_input_attach ==
    /\ ~attached /\ ~aborted
    /\ attached' = TRUE
    /\ UNCHANGED <<seqnb, last_pb_ts, queue, sink_opened, aborted, heard>>

sink_input_detach ==
    /\ attached /\ ~aborted
    /\ attached' = FALSE
    /\ UNCHANGED <<seqnb, last_pb_ts, queue, sink_opened, aborted, heard>>

\* The sink the stream plays to is suspended or resumed.
SinkStateChange ==
    /\ ~aborted
    /\ sink_opened' = ~sink_opened
    /\ UNCHANGED <<seqnb, last_pb_ts, queue, attached, aborted, heard>>

InputNext ==
    \/ \E f \in air : ReadFrame(f)
    \/ sink_input_pop_cb
    \/ \E n \in 1 .. RewindMax : sink_input_process_rewind_cb(n)
    \/ sink_input_attach
    \/ sink_input_detach
    \/ SinkStateChange
=============================================================================
