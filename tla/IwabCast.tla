------------------------------ MODULE IwabCast ------------------------------
(***************************************************************************)
(* A broadcast: the abstract sender of IwabSource, the air, and one        *)
(* receiver.  What holds here holds for every sender that implements       *)
(* IwabSource, IwabSink among them.                                        *)
(***************************************************************************)
EXTENDS IwabSource, IwabInput

castVars == <<srcVars, inputVars>>

CastInit == SrcInit /\ InputInit

CastNext ==
    \/ SrcNext /\ UNCHANGED inputVars
    \/ InputNext /\ UNCHANGED srcVars

CastSpec == CastInit /\ [][CastNext]_castVars

-----------------------------------------------------------------------------
\* Every variable of the receiver has its type.
CastTypeOK ==
    /\ seqnb \in 0 .. SeqMod - 1
    /\ last_pb_ts \in Nat
    /\ sink_opened \in BOOLEAN /\ attached \in BOOLEAN /\ aborted \in BOOLEAN
    /\ alive \in BOOLEAN
    /\ now \in Nat /\ next_ts \in Nat /\ next_pos \in Nat
    /\ last \in Chunk /\ iw_h \in Header /\ air \subseteq Frame

\* The assertion in rtpoll_work_cb, "pa_assert(u->istream.iw_in->timestamp >
\* u->last_pb_ts)", never brings the receiving daemon down.
AssertionHolds == ~aborted

\* The audio in the queue is in stream order: an item further back never
\* belongs to an earlier packet, so a repetition or a late packet is never
\* played after what follows it.
QueueInOrder ==
    \A b, c \in queue.blocks :
        b.index < c.index => /\ End(b) <= c.index
                             /\ b.chunk.blk <= c.chunk.blk

\* A packet is queued at most once and never after a later one: the position
\* of the audio queued last only moves forward.
HeardAdvances ==
    [][heard'.pos # heard.pos /\ seqnb # 0 => heard'.pos > heard.pos]_castVars

\* A listener keeps up: the newest audio on the air is never taken for a
\* repetition or a disordered packet.
NewestIsAccepted ==
    \A f \in air : f.pos >= heard.pos /\ ~aborted => Accepts(f)

\* Filling gaps keeps the queue aligned with the stream: it never inserts more
\* than was lost, and unless the queue overran, truncation costs less than one
\* frame for a gap plus one clock unit for each lost packet.
DriftBounded ==
    /\ heard.drift >= 0
    /\ ~heard.overrun =>
          heard.drift * UsecPerSec <= heard.lost * (Rate + UsecPerSec)

\* The reader never overtakes the writer: an underrun switches back to
\* prebuffering instead of running ahead of the stream.
ReadBehindWrite == queue.read_index <= queue.write_index

\* However long the gap a packet makes the receiver fill, what it queues
\* leaves the queue within its maximum length.
QueueWithinMax ==
    [][queue'.write_index > queue.write_index
         => pa_memblockq_get_length(queue') <= queue.maxlength]_castVars

\* The poll callback keeps the types of its state and, whatever was lost,
\* repeated or heard late, never runs into its own assertion.
CallbackSound == CastTypeOK /\ AssertionHolds

\* Whatever the medium does to the packets, and whenever the sender was
\* suspended in between, the receiver plays each packet once, in the order
\* in which they were sent, and never runs ahead of the stream.
PlayedInOrder == [](QueueInOrder /\ ReadBehindWrite) /\ HeardAdvances
=============================================================================
