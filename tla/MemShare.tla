------------------------------ MODULE MemShare ------------------------------
(***************************************************************************)
(* How two processes share memory blocks: pulsecore/memblock.c (memexport, *)
(* memimport) with the SHMRELEASE frames of pstream.c and the release      *)
(* callback of protocol-native.c.  A client exports blocks of its pool to  *)
(* the server: an export slot keeps the block alive until the server says  *)
(* that it has dropped the imported block.  In the server the main thread  *)
(* and a real-time thread hold references, and the server may export the   *)
(* block further to another client.  The client may go away at any time.   *)
(***************************************************************************)
EXTENDS Integers, Sequences, FiniteSets, SequencesExt

CONSTANTS SlotsMax,    \* PA_MEMEXPORT_SLOTS_MAX
          ImportMax,   \* PA_MEMIMPORT_SLOTS_MAX
          Cells,       \* slots of the client's memory pool
          MaxSends     \* bound: blocks the client sends

ASSUME MemShareAssumption ==
    /\ SlotsMax \in Nat \ {0} /\ ImportMax \in Nat /\ MaxSends \in Nat
    /\ IsFiniteSet(Cells)

VARIABLES
    \* the client
    open,        \* whether the client is still there
    nsent,        \* blocks sent so far; a block is named by its number
    cell,        \* where each block lies
    content,     \* the block whose data each cell holds
    slots, free_slots, n_init,      \* pa_memexport
    \* between the two
    down,        \* block references on their way to the server
    up,          \* released ids on their way to the client
    \* the server
    import,      \* whether pa_memimport still exists
    blocks,      \* import->blocks: the block of each id, 0 if none
    n_blocks,    \* of the segment all imported blocks lie in
    type,        \* of each block in the server
    id,          \* per_type.imported.id
    hold,        \* who has a reference: "main", "io", "export"
    mapped,      \* the memory another client was told the block lies in
    rt,          \* the real-time thread in memblock_free
    outq,        \* releases the real-time thread has posted to the main thread
    crashed      \* an assertion failed or freed memory was used

msVars == <<open, nsent, cell, content, slots, free_slots, n_init, down, up,
            import, blocks, n_blocks, type, id, hold, mapped, rt, outq, crashed>>
clientVars == <<open, nsent, cell, content, slots, free_slots, n_init>>
serverVars == <<import, blocks, n_blocks, type, id, hold, mapped, rt, outq, crashed>>

Ids == 0..(SlotsMax - 1)
Numbers == 1..MaxSends
Inline == -1
Idle == [at |-> "idle", n |-> 0]

MsInit ==
    /\ open = TRUE /\ nsent = 0
    /\ cell = [n \in Numbers |-> CHOOSE c \in Cells : TRUE]
    /\ content = [c \in Cells |-> 0]
    /\ slots = [i \in Ids |-> 0] /\ free_slots = <<>> /\ n_init = 0
    /\ down = <<>> /\ up = <<>>
    /\ import = TRUE /\ blocks = [i \in Ids |-> 0] /\ n_blocks = 0
    /\ type = [n \in Numbers |-> "none"] /\ id = [n \in Numbers |-> Inline]
    /\ hold = [n \in Numbers |-> {}]
    /\ mapped = [n \in Numbers |-> "none"]
    /\ rt = Idle /\ outq = <<>> /\ crashed = FALSE

-----------------------------------------------------------------------------
(* The client                                                              *)

Exported(c) == \E i \in Ids : slots[i] # 0 /\ cell[slots[i]] = c

\* pa_memexport_put for block n: a slot that was used before, a new one, or
\* none, in which case prepare_next_write_item sends the data themselves.
pa_memexport_put(n) ==
    LET use(i) == /\ slots' = [slots EXCEPT ![i] = n]
                  /\ down' = Append(down, [n |-> n, id |-> i])
    IN \/ /\ free_slots # <<>>
          /\ use(Head(free_slots)) /\ free_slots' = Tail(free_slots)
          /\ UNCHANGED n_init
       \/ /\ free_slots = <<>> /\ n_init < SlotsMax
          /\ use(n_init) /\ n_init' = n_init + 1 /\ UNCHANGED free_slots
       \/ /\ free_slots = <<>> /\ n_init = SlotsMax
          /\ down' = Append(down, [n |-> n, id |-> Inline])
          /\ UNCHANGED <<slots, free_slots, n_init>>

\* The client fills a free slot of its pool, sends the block and drops its own
\* reference: from then on only the export slot keeps the memory.
Send(c) ==
    /\ ~crashed /\ open /\ nsent < MaxSends /\ ~Exported(c)
    /\ nsent' = nsent + 1
    /\ cell' = [cell EXCEPT ![nsent + 1] = c]
    /\ content' = [content EXCEPT ![c] = nsent + 1]
    /\ pa_memexport_put(nsent + 1)
    /\ UNCHANGED <<open, up, serverVars>>

\* An SHMRELEASE frame arrives: unknown ids and empty slots are ignored
pa_memexport_process_release ==
    /\ ~crashed /\ open /\ up # <<>>
    /\ up' = Tail(up)
    /\ LET i == Head(up) IN
       IF i < n_init /\ slots[i] # 0
       THEN /\ slots' = [slots EXCEPT ![i] = 0]
            /\ free_slots' = <<i>> \o free_slots
       ELSE UNCHANGED <<slots, free_slots>>
    /\ UNCHANGED <<open, nsent, cell, content, n_init, down, serverVars>>

\* The client disconnects or dies: pa_memexport_free releases every slot.
\* What it has sent stays in the socket.
Disconnect ==
    /\ ~crashed /\ open /\ open' = FALSE
    /\ slots' = [i \in Ids |-> 0]
    /\ UNCHANGED <<nsent, cell, content, free_slots, n_init, down, up, serverVars>>

-----------------------------------------------------------------------------
(* The server: importing                                                   *)

\* pa_memimport_get: the block that already has this id, or a new one unless
\* the table is full, when nothing is imported
pa_memimport_get(m) ==
    LET known == blocks[m.id]
        full == Cardinality({i \in Ids : blocks[i] # 0}) >= ImportMax
        new == IF known = 0 /\ ~full THEN {m.n} ELSE {}
        got == IF known # 0 THEN {known} ELSE new
    IN /\ hold' = [n \in Numbers |-> hold[n] \cup (IF n \in got THEN {"main"} ELSE {})]
       /\ type' = [n \in Numbers |-> IF n \in new THEN "imported" ELSE type[n]]
       /\ id' = [n \in Numbers |-> IF n \in new THEN m.id ELSE id[n]]
       /\ blocks' = IF new = {} THEN blocks ELSE [blocks EXCEPT ![m.id] = m.n]
       /\ n_blocks' = n_blocks + Cardinality(new)

\* A memblock frame is complete: the stream gets the block
Receive ==
    /\ ~crashed /\ import /\ down # <<>>
    /\ down' = Tail(down)
    /\ LET m == Head(down) IN
       \/ /\ m.id = Inline
          /\ type' = [type EXCEPT ![m.n] = "local"]
          /\ hold' = [hold EXCEPT ![m.n] = {"main"}]
          /\ UNCHANGED <<id, blocks, n_blocks>>
       \/ m.id # Inline /\ pa_memimport_get(m)
    /\ UNCHANGED <<clientVars, up, import, mapped, rt, outq, crashed>>

\* The real-time thread renders from the stream and keeps a reference
Render(n) ==
    /\ ~crashed /\ "main" \in hold[n] /\ "io" \notin hold[n] /\ rt = Idle
    /\ hold' = [hold EXCEPT ![n] = @ \cup {"io"}]
    /\ UNCHANGED <<clientVars, down, up, import, blocks, n_blocks, type, id,
                   mapped, rt, outq, crashed>>

\* pa_memexport_put in the server: another client records what this one plays
ExportFurther(n) ==
    /\ ~crashed /\ "main" \in hold[n] /\ "export" \notin hold[n] /\ mapped[n] = "none"
    /\ hold' = [hold EXCEPT ![n] = @ \cup {"export"}]
    /\ mapped' = [mapped EXCEPT ![n] = IF type[n] = "imported" THEN "client" ELSE "server"]
    /\ UNCHANGED <<clientVars, down, up, import, blocks, n_blocks, type, id,
                   rt, outq, crashed>>

-----------------------------------------------------------------------------
(* The server: dropping references                                         *)

\* memblock_free of an imported block, under the mutex of the import
Forget(n) ==
    /\ blocks' = [blocks EXCEPT ![id[n]] = 0]
    /\ n_blocks' = n_blocks - 1
    /\ type' = [type EXCEPT ![n] = "none"]

Bug_MainUnref(who, n) ==
    /\ ~crashed /\ who \in hold[n] /\ who # "io"
    /\ hold' = [hold EXCEPT ![n] = @ \ {who}]
    /\ mapped' = [mapped EXCEPT ![n] = IF who = "export" THEN "none" ELSE @]
    /\ up' = IF type[n] = "imported" THEN Append(up, id[n]) ELSE up
    /\ IF hold[n] = {who} /\ type[n] = "imported"
       THEN Forget(n)
       ELSE UNCHANGED <<blocks, n_blocks, type>>
    /\ UNCHANGED <<clientVars, down, import, id, rt, outq, crashed>>

\* The main thread drops the reference of the stream, or the other client
\* releases what was exported to it.  As the last one it frees the block, and
\* the release callback sends the release at once.
MainUnref(who, n) ==
    /\ ~crashed /\ who \in hold[n] /\ who # "io"
    /\ hold' = [hold EXCEPT ![n] = @ \ {who}]
    /\ mapped' = [mapped EXCEPT ![n] = IF who = "export" THEN "none" ELSE @]
    /\ IF hold[n] = {who} /\ type[n] = "imported"
       THEN Forget(n) /\ up' = Append(up, id[n])
       ELSE /\ type' = [type EXCEPT ![n] = IF hold[n] = {who} THEN "none" ELSE @]
            /\ UNCHANGED <<blocks, n_blocks, up>>
    /\ UNCHANGED <<clientVars, down, import, id, rt, outq, crashed>>

\* pa_memblock_unref in the real-time thread
RtUnref(n) ==
    /\ ~crashed /\ rt = Idle /\ "io" \in hold[n]
    /\ hold' = [hold EXCEPT ![n] = @ \ {"io"}]
    /\ rt' = IF hold[n] = {"io"} THEN [at |-> "free", n |-> n] ELSE Idle
    /\ UNCHANGED <<clientVars, down, up, import, blocks, n_blocks, type, id,
                   mapped, outq, crashed>>

\* memblock_free looks at the type of the block
RtSwitch ==
    /\ ~crashed /\ rt.at = "free"
    /\ IF type[rt.n] = "imported"
       THEN rt' = [rt EXCEPT !.at = "lock"] /\ UNCHANGED type
       ELSE rt' = Idle /\ type' = [type EXCEPT ![rt.n] = "none"]
    /\ UNCHANGED <<clientVars, down, up, import, blocks, n_blocks, id, hold,
                   mapped, outq, crashed>>

\* ... locks the import, and asserts that the block is in its table
RtForget ==
    /\ ~crashed /\ rt.at = "lock"
    /\ rt' = [rt EXCEPT !.at = "release"]
    /\ IF import /\ blocks[id[rt.n]] = rt.n
       THEN Forget(rt.n) /\ UNCHANGED crashed
       ELSE crashed' = TRUE /\ UNCHANGED <<blocks, n_blocks, type>>
    /\ UNCHANGED <<clientVars, down, up, import, id, hold, mapped, outq>>

\* ... and calls import->release_cb, which posts to the main thread
RtRelease ==
    /\ ~crashed /\ rt.at = "release"
    /\ rt' = Idle
    /\ IF import
       THEN outq' = Append(outq, id[rt.n]) /\ UNCHANGED crashed
       ELSE crashed' = TRUE /\ UNCHANGED outq
    /\ UNCHANGED <<clientVars, down, up, import, blocks, n_blocks, type, id,
                   hold, mapped>>

\* CONNECTION_MESSAGE_RELEASE: pa_pstream_send_release, unless the connection
\* is dead
SendRelease ==
    /\ ~crashed /\ outq # <<>>
    /\ outq' = Tail(outq)
    /\ up' = IF import THEN Append(up, Head(outq)) ELSE up
    /\ UNCHANGED <<clientVars, down, import, blocks, n_blocks, type, id, hold,
                   mapped, rt, crashed>>

\* pa_memimport_free, when the connection is unlinked: every block in the
\* table becomes a local copy (memblock_replace_import).  Only then are the
\* exports of the pool searched for blocks that still are of type IMPORTED and
\* belong to this import (memexport_revoke_blocks): there are none.
pa_memimport_free ==
    LET replaced == {blocks[i] : i \in Ids} \ {0}
        now == [n \in Numbers |-> IF n \in replaced THEN "local" ELSE type[n]]
        revoked == {n \in Numbers : "export" \in hold[n] /\ now[n] = "imported"}
    IN /\ ~crashed /\ import /\ ~open
       /\ import' = FALSE
       /\ blocks' = [i \in Ids |-> 0]
       /\ n_blocks' = n_blocks - Cardinality(replaced)
       /\ type' = now
       /\ hold' = [n \in Numbers |-> hold[n] \ (IF n \in revoked THEN {"export"} ELSE {})]
       /\ mapped' = [n \in Numbers |-> IF n \in revoked THEN "none" ELSE mapped[n]]
       /\ UNCHANGED <<clientVars, down, up, id, rt, outq, crashed>>

-----------------------------------------------------------------------------

Rt == RtSwitch \/ RtForget \/ RtRelease

Server ==
    \/ Receive \/ Rt \/ SendRelease \/ pa_memimport_free
    \/ \E n \in Numbers :
        \/ Render(n) \/ ExportFurther(n) \/ RtUnref(n)
        \/ \E who \in {"main", "export"} : MainUnref(who, n)

Client == (\E c \in Cells : Send(c)) \/ pa_memexport_process_release \/ Disconnect

MsNext == Client \/ Server

\* Main loops and the real-time thread run, what is sent arrives, and whoever
\* holds a reference drops it some time: streams are played and recorded.
MsSpec ==
    /\ MsInit /\ [][MsNext]_msVars
    /\ WF_msVars(pa_memexport_process_release)
    /\ WF_msVars(Receive) /\ WF_msVars(Rt)
    /\ WF_msVars(SendRelease)
    /\ \A n \in Numbers :
        /\ WF_msVars(RtUnref(n))
        /\ \A who \in {"main", "export"} : WF_msVars(MainUnref(who, n))

-----------------------------------------------------------------------------
(* Properties                                                              *)

MsTypeOK ==
    /\ open \in BOOLEAN /\ import \in BOOLEAN /\ crashed \in BOOLEAN
    /\ nsent \in 0..MaxSends
    /\ cell \in [Numbers -> Cells] /\ content \in [Cells -> 0..MaxSends]
    /\ slots \in [Ids -> 0..MaxSends] /\ n_init \in 0..SlotsMax
    /\ free_slots \in Seq(Ids) /\ IsInjective(free_slots)
    /\ blocks \in [Ids -> 0..MaxSends] /\ n_blocks \in Nat
    /\ type \in [Numbers -> {"none", "imported", "local"}]
    /\ hold \in [Numbers -> SUBSET {"main", "io", "export"}]
    /\ rt.at \in {"idle", "free", "lock", "release"}

\* While the client is there, the memory of a block that the server has
\* imported or is about to import still holds the block's data: the client
\* never reuses it too early.
DataStays ==
    open => \A n \in Numbers :
        type[n] = "imported" \/ (\E k \in DOMAIN down : down[k].n = n /\ down[k].id # Inline)
            => content[cell[n]] = n

\* Where the reference that a used export slot stands for can be: in a frame on
\* its way to the server, in the server's table, between the table and the
\* release in the real-time thread, or in a release on its way back.
Places(i, n) ==
    Cardinality({k \in DOMAIN down : down[k] = [n |-> n, id |-> i]})
    + (IF blocks[i] = n THEN 1 ELSE 0)
    + (IF rt.at = "release" /\ rt.n = n THEN 1 ELSE 0)
    + Cardinality({k \in DOMAIN outq : outq[k] = i})
    + Cardinality({k \in DOMAIN up : up[k] = i})

\* Every used slot is accounted for exactly once while the connection lives, so
\* that it is released once, and no release can hit a later use of its slot.
SlotAccounted ==
    open /\ import /\ ~crashed => \A i \in Ids : slots[i] # 0 => Places(i, slots[i]) = 1

\* The reference count of the mapped segment is the number of imported blocks:
\* the mapping goes away with the last of them, not earlier and not later.
SegmentCounts == n_blocks = Cardinality({i \in Ids : blocks[i] # 0})

\* A block that is freed is in the table of its import, as memblock_free asserts,
\* with one exception: when the connection ends while the real-time thread is
\* inside memblock_free, pa_memimport_free takes the table away from under it.
FreedWhileImported == crashed => ~import

\* Every block the client has sent is either still in the socket or was really
\* imported: the table is never full (PA_MEMIMPORT_SLOTS_MAX against
\* PA_MEMEXPORT_SLOTS_MAX), and no id is met twice.
NothingDropped ==
    [][\A n \in Numbers : (Receive /\ Head(down).n = n) => type'[n] # "none"]_msVars

\* An export slot is given back: the client does not run out of slots as long
\* as the server's users drop their references.
SlotReleased ==
    <>[](crashed \/ \A i \in Ids : slots[i] \notin Numbers)

\* What one process lends to another stays as it is until it is given back, and
\* is given back.
SharingCorrect ==
    /\ [](/\ MsTypeOK /\ DataStays /\ SlotAccounted /\ SegmentCounts
          /\ FreedWhileImported)
    /\ NothingDropped /\ SlotReleased
=============================================================================
