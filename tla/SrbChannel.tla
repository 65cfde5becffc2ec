----------------------------- MODULE SrbChannel -----------------------------
(***************************************************************************)
(* pulsecore/srbchannel.c: two processes talk through two ring buffers in  *)
(* shared memory.  Each side writes to one ring, reads from the other and  *)
(* sleeps on one semaphore, which the other side posts for two reasons:    *)
(* there is something to read, or there is room again in a ring that was   *)
(* full.  A pass is what do_pstream_read_write does with the channel: one  *)
(* pa_srbchannel_write, reads until the ring is empty, then writes of what *)
(* is left.  The semaphore is the one of module Semaphore.                 *)
(***************************************************************************)
EXTENDS Integers, Sequences, FiniteSetsExt

CONSTANTS Sides,       \* the two processes
          Capacity,    \* bytes in each ring
          MaxBytes     \* bound: bytes each side wants to send

ASSUME SrbAssumption ==
    Cardinality(Sides) = 2 /\ Capacity \in Nat \ {0} /\ MaxBytes \in Nat

VARIABLES memory, count,   \* of the ring each side writes: shared
          writeindex,      \* of the ring each side writes
          readindex,       \* of the ring each side reads
          sem,             \* sem_read of each side is signalled
          queued,          \* bytes each side has been asked to send
          written,         \* bytes each side has written to its ring
          got,             \* bytes each side has received
          deferred,        \* the defer event of the pstream is enabled
          inloop,          \* the pass is part of srbchannel_rwloop
          late,            \* the pass has done its reading
          pc,              \* where each side is
          l, n             \* bytes it still wants to write; towrite or toread

srbVars == <<memory, count, writeindex, readindex, sem, queued, written, got,
             deferred, inloop, late, pc, l, n>>

Other(s) == CHOOSE t \in Sides : t # s

\* pa_srbchannel_new; pa_srbchannel_set_callback enables a defer event on
\* each side, so that each begins with a pass of srbchannel_rwloop.
SrbInit ==
    /\ memory = [s \in Sides |-> [i \in 0..(Capacity - 1) |-> 0]]
    /\ count = [s \in Sides |-> 0]
    /\ writeindex = [s \in Sides |-> 0] /\ readindex = [s \in Sides |-> 0]
    /\ sem = [s \in Sides |-> FALSE]
    /\ queued = [s \in Sides |-> 0] /\ written = [s \in Sides |-> 0]
    /\ got = [s \in Sides |-> <<>>]
    /\ deferred = [s \in Sides |-> FALSE]
    /\ inloop = [s \in Sides |-> TRUE]
    /\ late = [s \in Sides |-> FALSE]
    /\ pc = [s \in Sides |-> "do_write"]
    /\ l = [s \in Sides |-> 0] /\ n = [s \in Sides |-> 0]

\* After a pass: the end of the loop, or back to the main loop
Rest(s) == IF inloop[s] THEN "before_poll" ELSE "poll"

Goto(s, at) == pc' = [pc EXCEPT ![s] = at]

-----------------------------------------------------------------------------
(* pa_srbchannel_write                                                     *)

\* do_write: one buffer of the queue, of any size, or nothing
DoWrite(s) ==
    LET pending == queued[s] - written[s]
    IN /\ pc[s] = "do_write"
       /\ IF pending = 0
          THEN /\ Goto(s, IF ~late[s] THEN "peek" ELSE Rest(s))
               /\ UNCHANGED l
          ELSE /\ \E k \in 1..pending : l' = [l EXCEPT ![s] = k]
               /\ Goto(s, "begin_write")
       /\ UNCHANGED <<memory, count, writeindex, readindex, sem, queued,
                      written, got, deferred, inloop, late, n>>

\* pa_ringbuffer_begin_write.  When the ring is full the loop ends, and the
\* other side is signalled anyway.
BeginWrite(s) ==
    LET room == Min({Capacity - writeindex[s], Capacity - count[s], l[s]})
    IN /\ pc[s] = "begin_write"
       /\ n' = [n EXCEPT ![s] = room]
       /\ Goto(s, IF room = 0 THEN "post" ELSE "end_write")
       /\ UNCHANGED <<memory, count, writeindex, readindex, sem, queued,
                      written, got, deferred, inloop, late, l>>

Bug_EndWrite(s) ==
    /\ pc[s] = "end_write"
    /\ memory' = [memory EXCEPT ![s] = [i \in 0..(Capacity - 1) |->
            IF i \in writeindex[s]..(writeindex[s] + n[s] - 1)
            THEN written[s] + 1 + i - writeindex[s] ELSE @[i]]]
    /\ count' = [count EXCEPT ![s] = @ + l[s]]
    /\ writeindex' = [writeindex EXCEPT ![s] = (@ + n[s]) % Capacity]
    /\ written' = [written EXCEPT ![s] = @ + n[s]]
    /\ l' = [l EXCEPT ![s] = @ - n[s]]
    /\ Goto(s, IF l'[s] > 0 THEN "begin_write" ELSE "post")
    /\ UNCHANGED <<readindex, sem, queued, got, deferred, inloop, late, n>>

\* memcpy and pa_ringbuffer_end_write, and round again while there is more
EndWrite(s) ==
    /\ pc[s] = "end_write"
    /\ memory' = [memory EXCEPT ![s] = [i \in 0..(Capacity - 1) |->
            IF i \in writeindex[s]..(writeindex[s] + n[s] - 1)
            THEN written[s] + 1 + i - writeindex[s] ELSE @[i]]]
    /\ count' = [count EXCEPT ![s] = @ + n[s]]
    /\ writeindex' = [writeindex EXCEPT ![s] = (@ + n[s]) % Capacity]
    /\ written' = [written EXCEPT ![s] = @ + n[s]]
    /\ l' = [l EXCEPT ![s] = @ - n[s]]
    /\ Goto(s, IF l'[s] > 0 THEN "begin_write" ELSE "post")
    /\ UNCHANGED <<readindex, sem, queued, got, deferred, inloop, late, n>>

\* pa_srbchannel_write signals and returns.  The loop at the end of a pass goes
\* on while the whole buffer was written.
WritePost(s) ==
    /\ pc[s] = "post"
    /\ sem' = [sem EXCEPT ![Other(s)] = TRUE]
    /\ Goto(s, IF ~late[s] THEN "peek" ELSE IF l[s] = 0 THEN "do_write" ELSE Rest(s))
    /\ UNCHANGED <<memory, count, writeindex, readindex, queued, written, got,
                   deferred, inloop, late, l, n>>

-----------------------------------------------------------------------------
(* pa_srbchannel_read, called until it returns nothing                     *)

\* pa_ringbuffer_peek: at most what lies before the end of the memory, and at
\* most what the frame being read still needs (any number of bytes).  When the
\* ring is empty the pass ends with writing what is left (the socket, on which
\* almost nothing is sent any more, is writable).
Peek(s) ==
    LET c == count[Other(s)]
        here == IF readindex[s] + c > Capacity THEN Capacity - readindex[s] ELSE c
    IN /\ pc[s] = "peek"
       /\ IF here = 0
          THEN /\ late' = [late EXCEPT ![s] = TRUE]
               /\ Goto(s, "do_write") /\ UNCHANGED n
          ELSE /\ \E k \in 1..here : n' = [n EXCEPT ![s] = k]
               /\ Goto(s, "drop") /\ UNCHANGED late
       /\ UNCHANGED <<memory, count, writeindex, readindex, sem, queued,
                      written, got, deferred, inloop, l>>

\* memcpy and pa_ringbuffer_drop, which says whether the ring was full
Drop(s) ==
    LET r == Other(s)
    IN /\ pc[s] = "drop"
       /\ got' = [got EXCEPT ![s] = @ \o
                    [k \in 1..n[s] |-> memory[r][readindex[s] + k - 1]]]
       /\ count' = [count EXCEPT ![r] = @ - n[s]]
       /\ readindex' = [readindex EXCEPT ![s] = (@ + n[s]) % Capacity]
       /\ Goto(s, IF count[r] >= Capacity THEN "room" ELSE "peek")
       /\ UNCHANGED <<memory, writeindex, sem, queued, written, deferred, inloop, late, l, n>>

RoomPost(s) ==
    /\ pc[s] = "room"
    /\ sem' = [sem EXCEPT ![Other(s)] = TRUE]
    /\ Goto(s, "peek")
    /\ UNCHANGED <<memory, count, writeindex, readindex, queued, written, got,
                   deferred, inloop, late, l, n>>

-----------------------------------------------------------------------------
(* srbchannel_rwloop and the main loop                                     *)

\* pa_fdsem_before_poll takes a signal, and the loop runs again, or lets the
\* main loop sleep
BeforePoll(s) ==
    /\ pc[s] = "before_poll"
    /\ sem' = [sem EXCEPT ![s] = FALSE]
    /\ Goto(s, IF sem[s] THEN "do_write" ELSE "poll")
    /\ late' = [late EXCEPT ![s] = FALSE]
    /\ UNCHANGED <<memory, count, writeindex, readindex, queued, written, got,
                   deferred, inloop, l, n>>

\* semread_cb: pa_fdsem_after_poll and srbchannel_rwloop
semread_cb(s) ==
    /\ pc[s] = "poll" /\ sem[s]
    /\ sem' = [sem EXCEPT ![s] = FALSE]
    /\ inloop' = [inloop EXCEPT ![s] = TRUE]
    /\ Goto(s, "do_write") /\ late' = [late EXCEPT ![s] = FALSE]
    /\ UNCHANGED <<memory, count, writeindex, readindex, queued, written, got,
                   deferred, l, n>>

\* The defer event of the pstream: a pass outside the loop.  The semaphore
\* stays armed for the poll that follows.
defer_callback(s) ==
    /\ pc[s] = "poll" /\ deferred[s]
    /\ deferred' = [deferred EXCEPT ![s] = FALSE]
    /\ inloop' = [inloop EXCEPT ![s] = FALSE]
    /\ Goto(s, "do_write") /\ late' = [late EXCEPT ![s] = FALSE]
    /\ UNCHANGED <<memory, count, writeindex, readindex, sem, queued, written,
                   got, l, n>>

\* Something is sent from a callback of the main loop
Submit(s) ==
    /\ pc[s] = "poll"
    /\ \E k \in 1..(MaxBytes - queued[s]) : queued' = [queued EXCEPT ![s] = @ + k]
    /\ deferred' = [deferred EXCEPT ![s] = TRUE]
    /\ UNCHANGED <<memory, count, writeindex, readindex, sem, written, got,
                   inloop, late, pc, l, n>>

Pass(s) ==
    \/ DoWrite(s) \/ BeginWrite(s) \/ EndWrite(s) \/ WritePost(s) \/ Peek(s) \/ Drop(s)
    \/ RoomPost(s) \/ BeforePoll(s) \/ semread_cb(s) \/ defer_callback(s)

SrbNext == \E s \in Sides : Pass(s) \/ Submit(s)

\* Both main loops run; nobody has to send anything.
SrbSpec == SrbInit /\ [][SrbNext]_srbVars /\ \A s \in Sides : WF_srbVars(Pass(s))

-----------------------------------------------------------------------------
(* Properties                                                              *)

SrbTypeOK ==
    /\ memory \in [Sides -> [0..(Capacity - 1) -> 0..MaxBytes]]
    /\ count \in [Sides -> 0..Capacity]
    /\ writeindex \in [Sides -> 0..(Capacity - 1)]
    /\ readindex \in [Sides -> 0..(Capacity - 1)]
    /\ \A s \in Sides : written[s] <= queued[s] /\ queued[s] <= MaxBytes

\* What a side receives is what the other has written, byte for byte, however
\* reads, writes and the wrap of the two indices interleave.
NothingGarbled ==
    \A s \in Sides : got[s] = [k \in 1..Len(got[s]) |-> k]

\* count is what separates the two sides: it is exactly the bytes that are
\* written and not read, so neither overruns the other.
CountSeparates ==
    \A s \in Sides : count[s] = written[s] - Len(got[Other(s)])

\* Both sides never sleep while there is work: a full ring is noticed by the
\* reader that empties it, and every write signals the reader.
AllArrives == <>[](\A s \in Sides : Len(got[Other(s)]) = queued[s])

\* The rings carry every byte once, in order, and nobody sleeps for good.
RingCorrect == [](SrbTypeOK /\ NothingGarbled /\ CountSeparates) /\ AllArrives
=============================================================================
