--------------------------- MODULE SinkInputRender ---------------------------
(***************************************************************************)
(* A stream's way through its sink input to a sink that can rewind: the     *)
(* render queue of pulsecore/sink-input.c between the implementor (a stream *)
(* of the native protocol) and the mixer of sink.c, and the rewinds that    *)
(* take back what the hardware has not played yet.  All of it runs in the   *)
(* thread of the sink, here the one of module-null-sink.c: a rewind asked   *)
(* for is processed before anything more is rendered.                       *)
(*                                                                         *)
(* The audio is a tape, byte k of which is the number k, or k + New once   *)
(* the client has overwritten it.  The render queue is a memblockq of      *)
(* MemBlockQOps whose chunks are pieces of the tape; `out' is all that was *)
(* rendered, Mute for a byte of silence, and its first `played' bytes were *)
(* heard.                                                                  *)
(***************************************************************************)
EXTENDS MemBlockQOps, Sequences, FiniteSets

CONSTANTS Block,          \* bytes of block_usec: max_rewind and max_request
          Scenes          \* what happens to streams, see below

ASSUME RenderAssumption ==
    /\ Block \in Nat \ {0}
    /\ \A s \in Scenes :
         /\ s.extra \in Nat               \* bytes the resampler may deliver too many
         /\ s.tape \in Nat                \* bound: bytes on the tape
         /\ s.length \in Nat              \* bound: bytes rendered
         /\ s.requests \in Nat            \* bound: messages that ask for a rewind
         /\ s.rewrites \subseteq Nat \ {0} \* how far back the client overwrites
         /\ s.arrivals \subseteq Nat \ {0} \* lengths in which data arrives; if
                                          \* none, it is there
         /\ s.pieces \in BOOLEAN          \* may less be handed out than asked for?
         /\ s.corks \in BOOLEAN           \* is the stream corked and uncorked?
         /\ s.others \in BOOLEAN          \* may others make the mixer take less?
         /\ s.rewinds \subseteq Nat       \* bytes another input has rewound by the
                                          \* same message

VARIABLES scene,   \* what happens to this stream
          q,       \* thread_info.render_memblockq
          ti,      \* the rest of pa_sink_input.thread_info
          sk,      \* rewind_requested and rewind_nbytes of the sink
          impl,    \* the implementor: next byte of the tape, bytes it has, those
                   \* it has dropped since and those the client has overwritten
          out, played,
          due,     \* bytes to render in this round of the thread's loop
          requests, \* messages that asked for a rewind so far
          hist     \* history: what this input asked the sink for, whether that may
                   \* cost audio, what was lost, what was not taken back

riVars == <<scene, q, ti, sk, impl, out, played, due, requests, hist>>

Mute == -1
New == 100
Never == New
All == -1                     \* (size_t) -1 and (uint64_t) -1
Lesser(a, b) == IF a < b THEN a ELSE b
Greater(a, b) == IF a > b THEN a ELSE b
SilenceChunk == [blk |-> 9, index |-> 0, length |-> 8]

\* Byte i (from 0) of a chunk; memblock 1 holds what was overwritten.
ByteOf(c, i) == CASE c.blk = 0 -> c.index + i
                  [] c.blk = 1 -> c.index + i + New
                  [] OTHER -> Mute
Bytes(c, l) == [i \in 1..l |-> ByteOf(c, i - 1)]

\* pa_sink_input_new, once put and before anything is played.
RiInit ==
    /\ scene \in Scenes
    /\ q = pa_memblockq_new(0, 64, 0, 1, 0, 1, Block, SilenceChunk)
    /\ ti = [state |-> "RUNNING", rewrite_nbytes |-> 0, rewrite_flush |-> FALSE,
             dont_rewind_render |-> FALSE, underrun_for |-> All,
             playing_for |-> 0]
    /\ sk = [requested |-> FALSE, nbytes |-> 0]
    /\ impl = [pos |-> 0, has |-> IF scene.arrivals = {} THEN scene.tape ELSE 0, low |-> 0, from |-> Never]
    /\ out = <<>> /\ played = 0 /\ due = 0 /\ requests = 0
    /\ hist = [asked |-> 0, risky |-> FALSE, lost |-> {}, kept |-> FALSE, limit |-> 0,
               fresh |-> 0, astray |-> FALSE]

\* What a render queue holds at position p.
At(queue, p) ==
    IF \E b \in queue.blocks : b.index <= p /\ p < End(b)
    THEN LET b == CHOOSE x \in queue.blocks : x.index <= p /\ p < End(x)
         IN ByteOf(b.chunk, p - b.index)
    ELSE Mute

Waiting == [i \in 1..pa_memblockq_get_length(q) |-> At(q, q.read_index + i - 1)]
Positions(bytes) == [i \in DOMAIN bytes |-> IF bytes[i] = Mute THEN Mute
                                            ELSE bytes[i] % New]

\* Is there audio that was rendered and not played yet?
Unheard ==
    LET rest == SubSeq(out, played + 1, Len(out)) \o Waiting
    IN \E i \in DOMAIN rest : rest[i] # Mute

-----------------------------------------------------------------------------
(* Asking for a rewind.                                                    *)

\* pa_sink_request_rewind
RequestSinkRewind(n) ==
    LET m == Lesser(n, Block) IN
    IF sk.requested /\ m <= sk.nbytes THEN sk
    ELSE [requested |-> TRUE, nbytes |-> m]

\* A rewrite does not go back beyond the last underrun.
Limited(t, n, rewrite) ==
    IF t.rewrite_nbytes # All /\ rewrite THEN Lesser(n, t.playing_for) ELSE n

\* pa_sink_input_request_rewind(i, nbytes, rewrite, flush, dont_rewind_render):
\* the state of the input, t before, and of the sink after it; nbytes = 0 asks
\* for the maximum.
pa_sink_input_request_rewind(t, nbytes, rewrite, flush, keep) ==
    LET lbq == IF rewrite THEN pa_memblockq_get_length(q) ELSE 0
        wish == IF t.rewrite_nbytes = All THEN All
                                          ELSE Greater(t.rewrite_nbytes, nbytes)
        n == Limited(t, IF wish = 0 THEN Block + lbq ELSE wish, rewrite)
    IN
    IF t.state = "CORKED" THEN [ti |-> t, sk |-> sk]
    ELSE [ti |-> [t EXCEPT !.rewrite_nbytes = IF rewrite THEN n ELSE All,
                           !.rewrite_flush = @ \/ flush,
                           !.dont_rewind_render = @ \/ keep],
          sk |-> IF n = All THEN sk
                 ELSE RequestSinkRewind(Greater(n - lbq, 0))]

\* What a message asks for, and another input because of it: a change of the
\* sink's volume and a message to a group of streams concern them all.
Asked(r, risky) ==
    /\ ti' = r.ti
    /\ hist' = [hist EXCEPT !.asked = r.sk.nbytes, !.risky = risky]
    /\ \/ sk' = r.sk
       \/ \E n \in scene.rewinds :
            sk' = IF r.sk.requested /\ Lesser(n, Block) <= r.sk.nbytes
                  THEN r.sk ELSE [requested |-> TRUE, nbytes |-> Lesser(n, Block)]

\* One message is handled in a round of the thread's loop, and the rewind it
\* asks for is processed before the next.
Handles ==
    /\ ~sk.requested /\ due = 0
    /\ UNCHANGED <<q, out, played, due>>

AnotherRequest ==
    /\ requests < scene.requests
    /\ requests' = requests + 1

\* PA_SINK_INPUT_MESSAGE_SET_SOFT_VOLUME, and _SET_SOFT_MUTE
SetSoftVolume ==
    /\ Handles /\ AnotherRequest
    /\ Asked(pa_sink_input_request_rewind(ti, 0, TRUE, FALSE, FALSE), FALSE)
    /\ UNCHANGED impl

\* handle_seek of the native protocol, when the client overwrites what the
\* implementor has handed out from n bytes back on.
Rewrite(n) ==
    /\ Handles /\ AnotherRequest
    /\ n <= impl.pos /\ impl.from = Never /\ ti.underrun_for = 0
    /\ Asked(pa_sink_input_request_rewind(ti, n, TRUE, FALSE, FALSE), FALSE)
    /\ impl' = [impl EXCEPT !.from = impl.pos - n]

\* Data arrives; handle_seek asks for a rewind when it ends an underrun.  Only
\* the next pop resets underrun_for, so that more data before it asks again, and
\* underrun_for counts silence the mixer has not taken.
Arrive(n) ==
    /\ Handles
    /\ impl.has + n <= scene.tape
    /\ impl' = [impl EXCEPT !.has = @ + n]
    /\ IF ti.underrun_for # 0
       THEN Asked(pa_sink_input_request_rewind(ti,
                     IF ti.underrun_for = All THEN 0 ELSE ti.underrun_for,
                     FALSE, TRUE, FALSE),
                  \/ impl.has # impl.pos \/ pa_memblockq_get_length(q) > 0
                  \/ ti.underrun_for = All /\ Unheard)
       ELSE UNCHANGED <<ti, sk, hist>>
    /\ UNCHANGED requests

\* pa_sink_input_set_state_within_thread: corked after asking for the rewind,
Cork ==
    LET r == pa_sink_input_request_rewind(ti, 0, TRUE, TRUE, FALSE) IN
    /\ scene.corks /\ ti.state = "RUNNING"
    /\ Handles /\ AnotherRequest
    /\ Asked([r EXCEPT !.ti.state = "CORKED"], FALSE)
    /\ UNCHANGED impl

\* uncorked before it.
Uncork ==
    LET t == [ti EXCEPT !.state = "RUNNING", !.underrun_for = All,
                        !.playing_for = 0]
    IN
    /\ ti.state = "CORKED"
    /\ Handles
    /\ Asked(pa_sink_input_request_rewind(t, 0, FALSE, TRUE, TRUE),
             Unheard)
    /\ UNCHANGED <<impl, requests>>

\* A message to another input asks for a rewind of n bytes.
OtherRewind(n) ==
    /\ Handles /\ AnotherRequest
    /\ sk' = RequestSinkRewind(n)
    /\ UNCHANGED <<ti, impl, hist>>

-----------------------------------------------------------------------------
(* Processing it.                                                          *)

\* pa_sink_input_process_rewind for nbytes rewound in the sink: how much the
\* implementor is asked to give again,
RewriteAmount(nbytes) ==
    IF nbytes = 0 THEN 0
    ELSE Lesser(ti.rewrite_nbytes, nbytes + pa_memblockq_get_length(q))

\* Mutant: the write pointer of the render queue is not moved back.
Bug_Rewritten(rewound, amount) == rewound

\* what becomes of the render queue when it is rewritten, already rewound,
Rewritten(rewound, amount) ==
    LET back == pa_memblockq_seek(rewound, -amount, "RELATIVE", TRUE) IN
    IF ti.rewrite_flush THEN pa_memblockq_silence(back) ELSE back

\* and in general.
RewoundQueue(nbytes) ==
    LET rewound == IF nbytes > 0 /\ ~ti.dont_rewind_render
                   THEN pa_memblockq_rewind(q, nbytes) ELSE q
    IN CASE ti.rewrite_nbytes = All -> pa_memblockq_flush_write(rewound, TRUE)
         [] ti.rewrite_nbytes > 0 /\ RewriteAmount(nbytes) > 0 ->
              Rewritten(rewound, RewriteAmount(nbytes))
         [] OTHER -> rewound

\* sink_input_process_rewind_cb of the native protocol
Implementor(nbytes) ==
    IF ti.rewrite_nbytes > 0 /\ ti.underrun_for = 0
    THEN impl.pos - RewriteAmount(nbytes) ELSE impl.pos

\* Is there something in the render queue that the implementor is to give again?
\* A rewind that does not flush leaves blocks behind the write index, and a peek
\* may take the read index there.
Unfilled(queue) ==
    \/ queue.write_index < queue.read_index
    \/ \E b \in queue.blocks : queue.write_index < End(b)

\* Does a rewind by nbytes empty the render queue?
Flushes(nbytes) ==
    ti.rewrite_flush /\ (ti.rewrite_nbytes = All \/ RewriteAmount(nbytes) > 0)

\* The positions on the tape that a rewind by nbytes throws away.  Of what is
\* taken back the render queue must still hold what lies in front of its write
\* index, and flushing empties it; the rest is for the implementor to give again,
\* unless it has dropped it.
Dropped(nbytes) ==
    LET taken == Positions(SubSeq(out, Len(out) - nbytes + 1, Len(out)) \o Waiting)
        amount == IF ti.rewrite_nbytes = All THEN 0 ELSE RewriteAmount(nbytes)
        from == q.read_index - nbytes
        level == q.write_index - amount - from
        gone(i) == Flushes(nbytes) \/ At(q, from + i - 1) = Mute
    IN ({taken[i] : i \in {j \in DOMAIN taken : j <= level /\ gone(j)}}
        \cup (Implementor(nbytes) + Greater(0, -level))..(impl.low - 1)) \ {Mute}

\* process_rewind of module-null-sink.c and pa_sink_process_rewind: no more is
\* rewound than is still to be played; when that was everything, the next thing
\* the thread does is to render.
ProcessRewind ==
    /\ sk.requested
    /\ \E nbytes \in {Lesser(sk.nbytes, Len(out) - played)} :
         /\ q' = RewoundQueue(nbytes)
         /\ impl' = [impl EXCEPT !.pos = Implementor(nbytes)]
         /\ out' = SubSeq(out, 1, Len(out) - nbytes)
         /\ due' = IF Len(out) - nbytes = played THEN Block ELSE 0
         /\ hist' = [hist EXCEPT !.asked = 0, !.risky = FALSE,
                       !.lost = @ \cup Dropped(nbytes),
                       !.limit = IF Flushes(nbytes) THEN Len(out') ELSE @,
                       !.fresh = Greater(0, @ - (impl.pos - impl'.pos)),
                       !.astray = \/ @ \/ impl.pos - impl'.pos > hist.fresh
                                  \/ ti.state = "CORKED" /\ Unfilled(q'),
                       !.kept = @ \/ nbytes > hist.asked
                                  \/ (nbytes = 0 /\ pa_memblockq_get_length(q) > 0)]
    /\ ti' = [ti EXCEPT !.rewrite_nbytes = 0, !.rewrite_flush = FALSE,
                        !.dont_rewind_render = FALSE]
    /\ sk' = [requested |-> FALSE, nbytes |-> 0]
    /\ UNCHANGED <<played, requests>>

-----------------------------------------------------------------------------
(* Rendering.                                                              *)

\* With an empty render queue pa_sink_input_peek pops at most l bytes at a time
\* until there is something at the read index, or nothing to pop: how many
\* bytes it may get in all.
Got(l) ==
    LET behind == q.read_index - q.write_index
        has == impl.has - impl.pos
    IN IF ti.state = "CORKED" THEN {0}
       ELSE IF has <= behind THEN {has}
       ELSE IF scene.pieces THEN (behind + 1)..Lesser(behind + l, has)
       ELSE {Lesser((behind \div l + 1) * l, has)}

Put(queue, c) == IF c.length = 0 THEN queue ELSE pa_memblockq_push(queue, c)

\* l bytes of the tape at the write index: silence for what the implementor has
\* dropped, then what is not yet overwritten, and what is.
Fill(l) ==
    LET gone == Lesser(l, Greater(0, impl.low - impl.pos))
        old == Lesser(l, Greater(gone, impl.from - impl.pos))
        q1 == Put(q, [SilenceChunk EXCEPT !.length = gone])
        q2 == Put(q1, [blk |-> 0, index |-> impl.pos + gone, length |-> old - gone])
    IN Put(q2, [blk |-> 1, index |-> impl.pos + old, length |-> l - old])

\* The render queue then, a block of silence further on if that was not enough.
Filled(l) ==
    LET q1 == Fill(l) IN
    IF pa_memblockq_is_readable(q1) THEN q1
    ELSE pa_memblockq_seek(q1, Block, "RELATIVE", TRUE)

PlayState(l) ==
    LET popped == IF l = 0 THEN ti
                  ELSE [ti EXCEPT !.underrun_for = 0, !.playing_for = @ + l]
    IN IF pa_memblockq_is_readable(Fill(l)) THEN popped
       ELSE [popped EXCEPT !.underrun_for = IF @ = All THEN All ELSE @ + Block,
                           !.playing_for = 0]

\* The implementor when l bytes have been taken from it: of what is more than
\* max_rewind back its queue keeps the rest of a block at most.
Taken(l) ==
    {[impl EXCEPT !.pos = @ + l, !.low = d] :
       d \in {impl.low, Greater(impl.low, impl.pos + l - Block)}}

\* fill_mix_info: how much of the chunk c is mixed, the least any input has.
Mixed(c) == IF scene.others THEN 1..Lesser(Block, c.length)
                           ELSE {Lesser(Block, c.length)}

\* pa_sink_render with inputs_drop
pa_sink_render(full, c, mixed) ==
    /\ out' = out \o Bytes(c, mixed)
    /\ q' = pa_memblockq_drop(full, mixed)

\* A chunk may reach beyond the write index of the queue: the positions on the
\* tape that are skipped because silence is taken for them.
Skipped(full, c, mixed) ==
    IF ByteOf(c, 0) # Mute THEN {}
    ELSE {impl'.pos + p - full.write_index :
            p \in Greater(full.read_index, full.write_index)
                   ..(full.read_index + mixed - 1)}

\* process_render of module-null-sink.c, entered when everything was played or
\* rewound: pa_sink_render peeks a block of every input and drops as much as
\* all of them have, and is called again until a block is eaten.
process_render ==
    /\ ~sk.requested
    /\ due > 0 \/ played = Len(out)
    /\ Len(out) < scene.length
    /\ \E extra \in 0..scene.extra : \E l \in Got(Block + extra) :
         \E full \in {IF pa_memblockq_is_readable(q) THEN q ELSE Filled(l)} :
         \E c \in {pa_memblockq_peek(full)} :
         \E mixed \in Mixed(c) :
            /\ pa_sink_render(full, c, mixed)
            /\ due' = Greater(0, (IF due = 0 THEN Block ELSE due) - mixed)
            /\ IF pa_memblockq_is_readable(q) THEN UNCHANGED <<ti, impl>>
               ELSE /\ ti' = PlayState(l)
                    /\ impl' \in Taken(l)
            /\ hist' = [hist EXCEPT !.limit = Greater(@, Len(out') - Block),
                           !.lost = @ \cup Skipped(full, c, mixed),
                           !.fresh = IF ti'.playing_for = 0 THEN 0
                                     ELSE @ + impl'.pos - impl.pos]
    /\ UNCHANGED <<sk, played, requests>>

\* A byte of the buffer is heard.
Play ==
    /\ due = 0 /\ played < Len(out)
    /\ played' = played + 1
    /\ UNCHANGED <<q, ti, sk, impl, out, due, requests, hist>>

RiNext ==
    /\ \/ SetSoftVolume
       \/ \E n \in scene.rewrites : Rewrite(n)
       \/ \E n \in scene.arrivals : Arrive(n)
       \/ Cork
       \/ Uncork
       \/ \E n \in scene.rewinds : OtherRewind(n)
       \/ ProcessRewind
       \/ process_render
       \/ Play
    /\ UNCHANGED scene

RiSpec == RiInit /\ [][RiNext]_riVars

-----------------------------------------------------------------------------
(* Properties.                                                             *)

Audible(bytes) == SelectSeq(Positions(bytes), LAMBDA b : b # Mute)

\* Everything has its type: only pieces of the tape that exist are rendered,
\* and a rewind is asked of the sink whenever the input waits for one.
RiTypeOK ==
    /\ scene \in Scenes
    /\ ti.rewrite_nbytes >= All /\ ti.underrun_for >= All
    /\ ti.playing_for \in Nat
    /\ impl.pos \in Int /\ impl.pos <= impl.has /\ impl.has \in 0..scene.tape
    /\ \A i \in 1..Len(out) : Positions(out)[i] \in {Mute} \cup 0..(scene.tape - 1)
    /\ played \in 0..Len(out) /\ due \in 0..Block
    /\ ti.rewrite_nbytes # 0 => sk.requested

\* However often the sink rewinds, no byte is heard twice or out of order, and
\* none is skipped but those a rewind has thrown away: what was rendered and what
\* the render queue still holds is, silence and these aside, the tape up to the
\* place the implementor is at, or will be when the write index of the render
\* queue is level with the read index again.  There are two exceptions:
\*  - a stream that is corked before the implementor has refilled what an earlier
\*    rewind took back, and whose own rewind does not clear that away: silence is
\*    then queued by moving the write index over it;
\*  - rewinds in a row that reach over an underrun: playing_for, which should
\*    keep them from it, is not reduced by a rewind, so that silence is rewritten
\*    with audio that was heard before.
EachByteOnce ==
    LET heard == Audible(out \o Waiting)
        bytes == {heard[i] : i \in DOMAIN heard}
        given == 0..(impl.pos + Greater(0, q.read_index - q.write_index) - 1)
    IN hist.astray \/
         /\ \A i, j \in DOMAIN heard : i < j => heard[i] < heard[j]
         /\ bytes \subseteq given
         /\ given \ bytes \subseteq hist.lost

\* Audio is thrown away only when
\*  - data arrives again in an underrun that data has ended before, or while
\*    silence of the underrun waits in the render queue (sink-input.c:948 resets
\*    underrun_for with the next pop only and :933 counts silence when it is
\*    queued, not when it is mixed),
\*  - the stream is uncorked, or gets data after that, while audio from before
\*    the pause is not played yet,
\*  - the sink went further back for another input than this one asked for, and
\*    this one's queue is flushed, or
\*  - rewinds in a row go back further than the last flush or further than
\*    max_rewind, beyond which neither the render queue nor the implementor keep
\*    what was played; the silence pa_memblockq_peek then hands out may also reach
\*    beyond the write index.
LossExplained ==
    [][ hist'.lost # hist.lost =>
          \/ hist.risky
          \/ ti.rewrite_flush /\ Len(out) - Len(out') > hist.asked
          \/ Len(out') < hist.limit
          \/ q'.write_index < q'.read_index
          \/ impl'.pos < impl.low ]_riVars

\* What the client has overwritten is not rendered any more, unless a rewind did
\* not rewrite all that the render queue held: because the sink had nothing left
\* to rewind (then sink-input.c:1110 rewrites nothing), or went further back for
\* another input (then pa_memblockq_peek hands out what is behind the write
\* index); or unless a corked stream has uncovered it.
NoStaleAudio ==
    [][ \A i \in (Len(out) + 1)..Len(out') :
          out'[i] < New => \/ out'[i] < impl.from
                           \/ hist.kept \/ hist'.astray ]_riVars

\* The end of an underrun, and of a cork, is heard as soon as possible: once
\* the rewind it asked for is done, no silence is left in the buffer that the
\* sink could have taken back, unless audio was thrown away with it.
UnderrunCut ==
    [][ ti.rewrite_nbytes = All /\ ti'.rewrite_nbytes = 0 =>
          \/ Len(out') = played
          \/ Len(out) - Len(out') = Block
          \/ out'[Len(out')] # Mute
          \/ hist'.lost # hist.lost ]_riVars

\* Through any rewinds the listener hears each byte at most once and in order,
\* misses none but for the reasons given, hears what was overwritten not at all
\* and underruns no longer than they lasted.
RenderingCorrect ==
    /\ [](RiTypeOK /\ EachByteOnce)
    /\ LossExplained /\ NoStaleAudio /\ UnderrunCut
=============================================================================
