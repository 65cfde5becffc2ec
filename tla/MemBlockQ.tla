------------------------------ MODULE MemBlockQ ------------------------------
(***************************************************************************)
(* A memblockq on its own: any sequence of the calls pulsecore/memblockq.h *)
(* offers, with arguments its assertions allow.  MemBlockQOps says what    *)
(* each call does; here it is checked what the calls add up to.            *)
(***************************************************************************)
EXTENDS MemBlockQOps

CONSTANTS Base,          \* frame size: lengths and offsets are multiples of it
          BlockCount,    \* memblocks, named 1 .. BlockCount
          BlockLength,   \* their length
          MaxIndex,      \* bound: both indices stay within 0 .. MaxIndex
          MaxRequested,  \* bound: -MaxRequested <= requested <= MaxRequested
          Attributes,    \* arguments of pa_memblockq_new
          NewLengths     \* arguments of the setters; -1 is (size_t) -1

ASSUME QueueAssumption ==
    /\ Base \in Nat \ {0}
    /\ BlockCount \in Nat /\ BlockLength \in Nat
    /\ MaxIndex \in Nat /\ MaxRequested \in Nat
    /\ Attributes \subseteq [maxlength : Nat, tlength : Nat, prebuf : Nat,
                             minreq : Nat, maxrewind : Nat]
    /\ NewLengths \subseteq Nat \cup {-1}

VARIABLES q,         \* the queue
          written    \* history: the sample last pushed to each position that
                     \* the queue still holds

mbqVars == <<q, written>>

Positions == 0 .. MaxIndex - 1
Nothing == [blk |-> NoBlock, at |-> 0]

Aligned(n) == {x \in 0 .. n : x % Base = 0}

\* A chunk push accepts: inside its memblock, aligned and not empty.
Pushable(c) ==
    /\ c.length > 0 /\ c.length % Base = 0 /\ c.index % Base = 0
    /\ c.index + c.length <= BlockLength

Chunks == {c \in [blk : 1 .. BlockCount, index : 0 .. BlockLength,
                  length : 0 .. BlockLength] : Pushable(c)}

InBounds(r) ==
    /\ r.read_index \in 0 .. MaxIndex
    /\ r.write_index \in 0 .. MaxIndex
    /\ r.requested \in -MaxRequested .. MaxRequested

MbqInit ==
    /\ \E a \in Attributes :
          q = pa_memblockq_new(0, a.maxlength, a.tlength, Base, a.prebuf,
                               a.minreq, a.maxrewind, NullChunk)
    /\ written = [p \in Positions |-> Nothing]

Covers(b, p) == b.index <= p /\ p < End(b)
Holds(r, p) == \E b \in r.blocks : Covers(b, p)

\* A call that writes nothing makes the queue r.
Becomes(r) ==
    /\ InBounds(r) /\ q' = r
    /\ written' = [p \in Positions |->
                      IF Holds(r, p) THEN written[p] ELSE Nothing]

Push(c) ==
    LET r == pa_memblockq_push(q, c) IN
    /\ InBounds(r) /\ q' = r
    /\ written' = [p \in Positions |->
          CASE ~Holds(r, p) -> Nothing
            [] q.write_index <= p /\ p < r.write_index ->
                 [blk |-> c.blk, at |-> c.index + p - q.write_index]
            [] OTHER -> written[p]]

\* The calls that empty the queue.
Flush ==
    \/ \E account \in BOOLEAN : Becomes(pa_memblockq_flush_write(q, account))
    \/ Becomes(pa_memblockq_flush_read(q))
    \/ Becomes(pa_memblockq_silence(q))

\* Those and the calls that move an index.
Move ==
    \/ Flush
    \/ \E l \in Aligned(MaxIndex) : \/ Becomes(pa_memblockq_drop(q, l))
                                    \/ Becomes(pa_memblockq_rewind(q, l))
    \/ \E mode \in {"RELATIVE", "ABSOLUTE", "RELATIVE_ON_READ", "RELATIVE_END"},
          l \in Aligned(MaxIndex), account \in BOOLEAN :
          \/ Becomes(pa_memblockq_seek(q, l, mode, account))
          \/ Becomes(pa_memblockq_seek(q, -l, mode, account))

\* The calls about prebuffering and requests; peek is one, it updates in_prebuf.
Request ==
    \/ Becomes(pa_memblockq_pop_missing(q))
    \/ Becomes(update_prebuf(q))
    \/ Becomes(pa_memblockq_prebuf_disable(q))
    \/ Becomes(pa_memblockq_prebuf_force(q))

\* The setters.  pa_memblockq_set_maxlength, set_minreq and set_maxrewind do
\* not know (size_t) -1.
SetAttribute ==
    \/ \E l \in NewLengths : \/ Becomes(pa_memblockq_set_tlength(q, l))
                             \/ Becomes(pa_memblockq_set_prebuf(q, l))
    \/ \E l \in NewLengths \ {-1} : \/ Becomes(pa_memblockq_set_maxlength(q, l))
                                    \/ Becomes(pa_memblockq_set_minreq(q, l))
                                    \/ Becomes(pa_memblockq_set_maxrewind(q, l))

MbqNext ==
    \/ \E c \in Chunks : Push(c)
    \/ Move
    \/ Request
    \/ SetAttribute

MbqSpec == MbqInit /\ [][MbqNext]_mbqVars

-----------------------------------------------------------------------------
(* Properties.                                                             *)

\* "The following equation regarding the internal variables of a memblockq is
\* always true: length + missing + requested = tlength", with "length" the
\* write index minus the read index (memblockq-test.c).  It is what makes
\* pop_missing ask for the right amount after any sequence of calls.
Balanced == (q.write_index - q.read_index) + q.missing + q.requested = q.tlength

\* The rules of check_queue_invariants in memblockq-test.c about the
\* attributes: no order of setter calls leaves them inconsistent.
AttributesConsistent ==
    /\ \A x \in {q.maxlength, q.tlength, q.minreq, q.prebuf} : x % Base = 0
    /\ Base <= q.minreq /\ q.minreq <= q.tlength /\ q.tlength <= q.maxlength
    /\ 0 <= q.prebuf /\ q.prebuf <= PrebufMax(q)

\* The items never overlap, are never empty and stay inside their memblocks,
\* however pushes and seeks overwrite one another: what push's assertions on
\* the list say.
BlocksDisjoint ==
    \A b \in q.blocks :
        /\ Pushable(b.chunk)
        /\ \A c \in q.blocks \ {b} : End(b) <= c.index \/ End(c) <= b.index

\* Every position of the queue holds data of the memblock written there last.
RightMemblock ==
    \A b \in q.blocks, p \in Positions :
        Covers(b, p) => written[p].blk = b.chunk.blk

\* Data disappears only by a flush or once it is more than maxrewind behind
\* the read index: until then a rewind can still reach it.
KeepsRewindable ==
    [][\A p \in Positions :
          Holds(q, p) /\ ~Holds(q', p)
          => Flush \/ p < q'.read_index - q'.maxrewind]_mbqVars

\* Every position holds the very sample written there last: "We need to save
\* the end of this memchunk" (memblockq.c, where push splits an item).
ContentKept ==
    \A b \in q.blocks, p \in Positions :
        Covers(b, p) =>
            written[p] = [blk |-> b.chunk.blk,
                          at |-> b.chunk.index + p - b.index]

\* "length <= maxlength", the last rule of check_queue_invariants in
\* memblockq-test.c.
LengthWithinMax == pa_memblockq_get_length(q) <= q.maxlength

\* The list of items is sound after any calls: they are disjoint, and each is
\* where its memblock was pushed.
ItemsSound == BlocksDisjoint /\ RightMemblock
=============================================================================
