---------------------------- MODULE MemBlockQOps ----------------------------
(***************************************************************************)
(* pulsecore/memblockq.c, one operator per function, on a queue given as a *)
(* record.  A memchunk is [blk, index, length]: a memblock, an offset into *)
(* it and a length.  The doubly linked list of the C code, sorted by index *)
(* and free of overlaps, is the set `blocks' of its items [index, chunk];  *)
(* the cursors current_read and current_write, which only cache a position *)
(* in the list, are computed where they are used.                          *)
(***************************************************************************)
EXTENDS Integers

Sets == INSTANCE FiniteSetsExt

NoBlock == -1                                     \* no memblock
NullChunk == [blk |-> NoBlock, index |-> 0, length |-> 0]

Item(at, c) == [index |-> at, chunk |-> c]
End(b) == b.index + b.chunk.length

pa_memblockq_get_length(q) ==
    IF q.write_index <= q.read_index THEN 0 ELSE q.write_index - q.read_index

-----------------------------------------------------------------------------
(* Attributes.                                                             *)

RoundUp(q, x) == ((x + q.base - 1) \div q.base) * q.base
RoundDown(q, x) == (x \div q.base) * q.base
AtMost(x, limit) == IF x > limit THEN limit ELSE x
AtLeast(x, limit) == IF x < limit THEN limit ELSE x

PrebufMax(q) == q.tlength + q.base - q.minreq

\* prebuf = -1 asks for the default
pa_memblockq_set_prebuf(q, prebuf) ==
    LET wanted == IF prebuf = -1 THEN PrebufMax(q) ELSE prebuf
        p == AtMost(RoundUp(q, wanted), PrebufMax(q))
    IN [q EXCEPT !.prebuf = p,
                 !.in_prebuf = @ /\ p > 0 /\ pa_memblockq_get_length(q) < p]

\* The last lines of set_tlength and set_minreq.
ClampPrebuf(q) ==
    IF q.prebuf > PrebufMax(q) THEN pa_memblockq_set_prebuf(q, PrebufMax(q))
                               ELSE q

pa_memblockq_set_minreq(q, minreq) ==
    ClampPrebuf([q EXCEPT !.minreq =
        AtLeast(AtMost(RoundDown(q, minreq), q.tlength), q.base)])

\* tlength = -1 or 0 asks for the maximum
pa_memblockq_set_tlength(q, tlength) ==
    LET t == AtMost(RoundUp(q, IF tlength <= 0 THEN q.maxlength ELSE tlength),
                    q.maxlength)
        q1 == [q EXCEPT !.tlength = t]
        q2 == IF q1.minreq > t THEN pa_memblockq_set_minreq(q1, t) ELSE q1
    IN [ClampPrebuf(q2) EXCEPT !.missing = @ + t - q.tlength]

\* Mutant: the target length is left above the new maximum.
Bug_set_maxlength(q, maxlength) ==
    [q EXCEPT !.maxlength = AtLeast(RoundUp(q, maxlength), q.base)]

pa_memblockq_set_maxlength(q, maxlength) ==
    LET m == AtLeast(RoundUp(q, maxlength), q.base)
        q1 == [q EXCEPT !.maxlength = m]
    IN IF q1.tlength > m THEN pa_memblockq_set_tlength(q1, m) ELSE q1

pa_memblockq_set_maxrewind(q, maxrewind) ==
    [q EXCEPT !.maxrewind = RoundDown(q, maxrewind)]

pa_memblockq_new(idx, maxlength, tlength, base, prebuf, minreq, maxrewind, silence) ==
    LET zero == [blocks |-> {}, read_index |-> idx, write_index |-> idx,
                 in_prebuf |-> TRUE, base |-> base, maxlength |-> 0,
                 tlength |-> 0, prebuf |-> 0, minreq |-> 0, maxrewind |-> 0,
                 missing |-> 0, requested |-> 0, silence |-> silence]
        q1 == pa_memblockq_set_maxlength(zero, maxlength)
        q2 == pa_memblockq_set_tlength(q1, tlength)
        q3 == pa_memblockq_set_minreq(q2, minreq)
        q4 == pa_memblockq_set_prebuf(q3, prebuf)
    IN pa_memblockq_set_maxrewind(q4, maxrewind)

-----------------------------------------------------------------------------
(* Writing.                                                                *)

TailEnd(q, empty) ==
    IF q.blocks = {} THEN empty ELSE Sets!Max({End(b) : b \in q.blocks})

\* Mutant: the new data itself is not counted.
Bug_can_push(q, l) ==
    q.write_index - q.read_index <= q.maxlength

\* The part of l that falls before the read index costs nothing.
can_push(q, l) ==
    LET behind == q.read_index - q.write_index
        rest == IF behind > 0 THEN l - behind ELSE l
    IN \/ rest <= 0
       \/ q.write_index + rest <= TailEnd(q, q.write_index)
       \/ q.write_index + rest - q.read_index <= q.maxlength

\* The end of item b from position `to' on, as the split of push saves it:
\* the index moves, the offset into the memblock does not.
SavedEnd(b, to) ==
    Item(to, [b.chunk EXCEPT !.length = @ - (to - b.index)])

\* Mutant: the length of the rest is not adjusted.
Bug_TrimmedEnd(b, to) ==
    Item(to, [b.chunk EXCEPT !.index = @ + (to - b.index)])

\* The end of item b when its beginning is overwritten.
TrimmedEnd(b, to) ==
    Item(to, [b.chunk EXCEPT !.index = @ + (to - b.index),
                             !.length = @ - (to - b.index)])

\* What is left of item b when [from, to) is overwritten.
Remains(b, from, to) ==
    IF End(b) <= from \/ to <= b.index THEN {b}
    ELSE IF from <= b.index /\ End(b) <= to THEN {}
    ELSE IF b.index <= from
    THEN {i \in {Item(b.index, [b.chunk EXCEPT !.length = from - b.index])} :
             i.chunk.length > 0}
         \cup (IF to < End(b) THEN {SavedEnd(b, to)} ELSE {})
    ELSE {TrimmedEnd(b, to)}

\* Can c, written at `at', be merged into item b?
Continues(b, at, c) ==
    /\ End(b) = at
    /\ b.chunk.blk = c.blk
    /\ b.chunk.index + b.chunk.length = c.index

\* The items once c has been written at the write index.
Written(q, c) ==
    LET rest == UNION {Remains(b, q.write_index, q.write_index + c.length) :
                          b \in q.blocks}
        before == {b \in rest : Continues(b, q.write_index, c)}
    IN IF before = {}
       THEN rest \cup {Item(q.write_index, c)}
       ELSE (rest \ before) \cup {Item(b.index,
               [b.chunk EXCEPT !.length = @ + c.length]) : b \in before}

write_index_changed(q, old, account) ==
    LET delta == q.write_index - old IN
    IF account THEN [q EXCEPT !.requested = @ - delta]
               ELSE [q EXCEPT !.missing = @ - delta]

\* The queue after pa_memblockq_push; unchanged when the push is refused.
pa_memblockq_push(q, c) ==
    IF ~can_push(q, c.length) THEN q
    ELSE write_index_changed(
            [q EXCEPT !.blocks = Written(q, c), !.write_index = @ + c.length],
            q.write_index, TRUE)

\* Mutant: maxrewind is ignored.
Bug_drop_backlog(q) == [q EXCEPT !.blocks = {b \in @ : End(b) > q.read_index}]

drop_backlog(q) ==
    [q EXCEPT !.blocks = {b \in @ : End(b) > q.read_index - q.maxrewind}]

pa_memblockq_seek(q, offset, mode, account) ==
    LET w == CASE mode = "RELATIVE" -> q.write_index + offset
               [] mode = "ABSOLUTE" -> offset
               [] mode = "RELATIVE_ON_READ" -> q.read_index + offset
               [] mode = "RELATIVE_END" -> TailEnd(q, q.read_index) + offset
    IN write_index_changed(drop_backlog([q EXCEPT !.write_index = w]),
                           q.write_index, account)

-----------------------------------------------------------------------------
(* Reading.                                                                *)

pa_memblockq_prebuf_active(q) ==
    IF q.in_prebuf THEN pa_memblockq_get_length(q) < q.prebuf
                   ELSE q.prebuf > 0 /\ q.read_index >= q.write_index

pa_memblockq_is_readable(q) ==
    ~pa_memblockq_prebuf_active(q) /\ pa_memblockq_get_length(q) > 0

\* update_prebuf stores what prebuf_active computes.
update_prebuf(q) == [q EXCEPT !.in_prebuf = pa_memblockq_prebuf_active(q)]

\* The items at or right of the read index, and the first of them.
Unread(q) == {b \in q.blocks : End(b) > q.read_index}
current_read(q) ==
    CHOOSE b \in Unread(q) : \A c \in Unread(q) : b.index <= c.index

\* The chunk pa_memblockq_peek returns when it does not have to prebuffer;
\* a length of 0 stands for the return value -1.
PeekChunk(q) ==
    IF Unread(q) # {} /\ current_read(q).index <= q.read_index
    THEN LET b == current_read(q)
             d == q.read_index - b.index
         IN [b.chunk EXCEPT !.index = @ + d, !.length = @ - d]
    ELSE LET gap == IF Unread(q) # {} THEN current_read(q).index - q.read_index
                                      ELSE pa_memblockq_get_length(q)
         IN IF q.silence = NullChunk THEN [NullChunk EXCEPT !.length = gap]
            ELSE [q.silence EXCEPT !.index = 0,
                     !.length = IF gap > 0 THEN AtMost(@, gap) ELSE @]

pa_memblockq_peek(q) ==
    IF pa_memblockq_prebuf_active(q) THEN NullChunk ELSE PeekChunk(q)

\* pa_memblockq_drop advances item by item and stops early where the prebuffer
\* becomes due: at the end of an item at or past the write index.
DropStops(q, l) ==
    {e \in {End(b) : b \in q.blocks} :
        /\ q.read_index < e /\ e < q.read_index + l
        /\ q.prebuf > 0 /\ e >= q.write_index}

FirstStop(q, l) == Sets!Min(DropStops(q, l))

read_index_changed(q, old) == [q EXCEPT !.missing = @ + q.read_index - old]

pa_memblockq_drop(q, l) ==
    LET q1 == IF l > 0 THEN update_prebuf(q) ELSE q
        q2 == IF l = 0 \/ q1.in_prebuf THEN q1
              ELSE IF DropStops(q1, l) = {} THEN [q1 EXCEPT !.read_index = @ + l]
              ELSE [q1 EXCEPT !.read_index = FirstStop(q1, l), !.in_prebuf = TRUE]
    IN read_index_changed(drop_backlog(q2), q.read_index)

pa_memblockq_rewind(q, l) ==
    read_index_changed([q EXCEPT !.read_index = @ - l], q.read_index)

-----------------------------------------------------------------------------
(* Flushing, prebuffering, requesting.                                     *)

pa_memblockq_silence(q) == [q EXCEPT !.blocks = {}]

pa_memblockq_prebuf_disable(q) == [q EXCEPT !.in_prebuf = FALSE]

pa_memblockq_prebuf_force(q) == [q EXCEPT !.in_prebuf = @ \/ q.prebuf > 0]

pa_memblockq_flush_write(q, account) ==
    LET q1 == [pa_memblockq_silence(q) EXCEPT !.write_index = q.read_index] IN
    write_index_changed(pa_memblockq_prebuf_force(q1), q.write_index, account)

pa_memblockq_flush_read(q) ==
    LET q1 == [pa_memblockq_silence(q) EXCEPT !.read_index = q.write_index] IN
    read_index_changed(pa_memblockq_prebuf_force(q1), q.read_index)

\* What pa_memblockq_pop_missing returns, and the queue after it.
MissingToRequest(q) ==
    IF \/ q.missing <= 0
       \/ q.missing < q.minreq /\ ~pa_memblockq_prebuf_active(q)
    THEN 0 ELSE q.missing

\* Mutant: what was asked for stays missing.
Bug_pop_missing(q) == [q EXCEPT !.requested = @ + MissingToRequest(q)]

pa_memblockq_pop_missing(q) ==
    LET l == MissingToRequest(q) IN
    [q EXCEPT !.requested = @ + l, !.missing = @ - l]
=============================================================================
