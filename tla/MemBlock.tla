------------------------------ MODULE MemBlock ------------------------------
(***************************************************************************)
(* pulsecore/memblock.c: reference counts and accesses of memory blocks    *)
(* that several threads share, and how the owner of a fixed block (memory  *)
(* of the sound card, or a buffer on the stack of a callback) takes the    *)
(* memory back while others still use the block: pa_memblock_unref_fixed   *)
(* copies the data, redirects the block to the copy and waits until nobody *)
(* uses the original any more.  Each atomic operation is a step.           *)
(***************************************************************************)
EXTENDS Integers, FiniteSets

CONSTANTS Blocks,       \* fixed blocks of one pool, each with an owner thread
          Users,        \* other threads
          Sharings,     \* who may have got references: functions from Blocks
                        \* to sets of users
          MaxAcquire    \* bound: how often a user accesses blocks

ASSUME MemBlockAssumption ==
    /\ IsFiniteSet(Blocks) /\ Blocks # {} /\ IsFiniteSet(Users) /\ MaxAcquire \in Nat
    /\ Sharings \subseteq [Blocks -> SUBSET Users]

VARIABLES refcnt, blocktype, mdata, n_acquired, please_signal,   \* pa_memblock
          semaphore,    \* the count of pool->semaphore
          opc,          \* where the owner of each block is
          upc,          \* where each user is with each block
          ptr,          \* the pointer a user got from pa_memblock_acquire
          done,         \* how often a user has accessed a block of the pool
          freed         \* how often each block has been freed

mbVars == <<refcnt, blocktype, mdata, n_acquired, please_signal, semaphore,
            opc, upc, ptr, done, freed>>

\* pa_memblock_new_fixed, and a reference handed to each user of the block
MbInit ==
    /\ \E holders \in Sharings :
        /\ refcnt = [b \in Blocks |-> 1 + Cardinality(holders[b])]
        /\ upc = [u \in Users |-> [b \in Blocks |-> IF u \in holders[b] THEN "hold"
                                                                      ELSE "gone"]]
    /\ blocktype = [b \in Blocks |-> "fixed"]
    /\ mdata = [b \in Blocks |-> "fixed"]
    /\ n_acquired = [b \in Blocks |-> 0]
    /\ please_signal = [b \in Blocks |-> 0]
    /\ semaphore = 0
    /\ opc = [b \in Blocks |-> "hold"]
    /\ ptr = [u \in Users |-> [b \in Blocks |-> "none"]]
    /\ done = [u \in Users |-> 0]
    /\ freed = [b \in Blocks |-> 0]

-----------------------------------------------------------------------------
(* What both the owner and the users do                                    *)

\* The last reference frees the block; memblock_free asserts that nobody
\* uses its data.
pa_memblock_unref(b) ==
    /\ refcnt' = [refcnt EXCEPT ![b] = @ - 1]
    /\ IF refcnt[b] > 1
       THEN UNCHANGED <<freed, blocktype>>
       ELSE /\ freed' = [freed EXCEPT ![b] = @ + 1]
            /\ blocktype' = [blocktype EXCEPT ![b] = "none"]

-----------------------------------------------------------------------------
(* A user of a block: pa_memblock_acquire, pa_memblock_release and         *)
(* pa_memblock_unref                                                       *)

\* A thread is in the middle of one call at a time.
SetUser(u, b, at) ==
    /\ \A a \in Blocks \ {b} : upc[u][a] \notin {"load", "signal"}
    /\ upc' = [upc EXCEPT ![u][b] = at]

AcquireCount(u, b) ==
    /\ upc[u][b] = "hold" /\ done[u] < MaxAcquire
    /\ n_acquired' = [n_acquired EXCEPT ![b] = @ + 1]
    /\ done' = [done EXCEPT ![u] = @ + 1]
    /\ SetUser(u, b, "load")
    /\ UNCHANGED <<refcnt, blocktype, mdata, please_signal, semaphore, opc, ptr, freed>>

AcquireLoad(u, b) ==
    /\ upc[u][b] = "load"
    /\ ptr' = [ptr EXCEPT ![u][b] = mdata[b]]
    /\ SetUser(u, b, "use")
    /\ UNCHANGED <<refcnt, blocktype, mdata, n_acquired, please_signal, semaphore,
                   opc, done, freed>>

\* The decrement of pa_memblock_release: only the last one goes on to look
\* for a waiting owner.
ReleaseCount(u, b) ==
    /\ upc[u][b] = "use"
    /\ n_acquired' = [n_acquired EXCEPT ![b] = @ - 1]
    /\ ptr' = [ptr EXCEPT ![u][b] = "none"]
    /\ SetUser(u, b, IF n_acquired[b] = 1 THEN "signal" ELSE "hold")
    /\ UNCHANGED <<refcnt, blocktype, mdata, please_signal, semaphore, opc, done, freed>>

ReleaseSignal(u, b) ==
    /\ upc[u][b] = "signal"
    /\ semaphore' = IF please_signal[b] > 0 THEN semaphore + 1 ELSE semaphore
    /\ SetUser(u, b, "hold")
    /\ UNCHANGED <<refcnt, blocktype, mdata, n_acquired, please_signal, opc, ptr,
                   done, freed>>

UserUnref(u, b) ==
    /\ upc[u][b] = "hold"
    /\ pa_memblock_unref(b)
    /\ SetUser(u, b, "gone")
    /\ UNCHANGED <<mdata, n_acquired, please_signal, semaphore, opc, ptr, done>>

-----------------------------------------------------------------------------
(* The owner: pa_memblock_unref_fixed                                      *)

SetOwner(b, at) == opc' = [opc EXCEPT ![b] = at]

UnrefFixed(b) ==
    /\ opc[b] = "hold"
    /\ SetOwner(b, IF refcnt[b] > 1 THEN "local" ELSE "unref")
    /\ UNCHANGED <<refcnt, blocktype, mdata, n_acquired, please_signal, semaphore,
                   upc, ptr, done, freed>>

\* memblock_make_local: the copy is made, in a free slot of the pool or with
\* malloc, and published before the wait
memblock_make_local(b) ==
    /\ opc[b] = "local"
    /\ mdata' = [mdata EXCEPT ![b] = "copy"]
    /\ \E t \in {"pool_external", "user"} : blocktype' = [blocktype EXCEPT ![b] = t]
    /\ SetOwner(b, "wait")
    /\ UNCHANGED <<refcnt, n_acquired, please_signal, semaphore,
                   upc, ptr, done, freed>>

\* memblock_wait returns at once when nobody uses the block
WaitCheck(b) ==
    /\ opc[b] = "wait"
    /\ SetOwner(b, IF n_acquired[b] > 0 THEN "ask" ELSE "unref")
    /\ UNCHANGED <<refcnt, blocktype, mdata, n_acquired, please_signal, semaphore,
                   upc, ptr, done, freed>>

WaitAsk(b) ==
    /\ opc[b] = "ask"
    /\ please_signal' = [please_signal EXCEPT ![b] = @ + 1]
    /\ SetOwner(b, "loop")
    /\ UNCHANGED <<refcnt, blocktype, mdata, n_acquired, semaphore, upc, ptr, done, freed>>

Bug_WaitLoop(b) ==
    /\ opc[b] = "loop"
    /\ SetOwner(b, IF semaphore > 0 THEN "end" ELSE "sleep")
    /\ UNCHANGED <<refcnt, blocktype, mdata, n_acquired, please_signal, semaphore,
                   upc, ptr, done, freed>>

WaitLoop(b) ==
    /\ opc[b] = "loop"
    /\ SetOwner(b, IF n_acquired[b] > 0 THEN "sleep" ELSE "end")
    /\ UNCHANGED <<refcnt, blocktype, mdata, n_acquired, please_signal, semaphore,
                   upc, ptr, done, freed>>

\* pa_semaphore_wait on the semaphore of the pool
WaitSleep(b) ==
    /\ opc[b] = "sleep" /\ semaphore > 0
    /\ semaphore' = semaphore - 1
    /\ SetOwner(b, "loop")
    /\ UNCHANGED <<refcnt, blocktype, mdata, n_acquired, please_signal, upc, ptr, done, freed>>

WaitEnd(b) ==
    /\ opc[b] = "end"
    /\ please_signal' = [please_signal EXCEPT ![b] = @ - 1]
    /\ SetOwner(b, "unref")
    /\ UNCHANGED <<refcnt, blocktype, mdata, n_acquired, semaphore, upc, ptr, done, freed>>

OwnerUnref(b) ==
    /\ opc[b] = "unref"
    /\ pa_memblock_unref(b)
    /\ SetOwner(b, "returned")
    /\ UNCHANGED <<mdata, n_acquired, please_signal, semaphore, upc, ptr, done>>

pa_memblock_unref_fixed(b) ==
    \/ UnrefFixed(b) \/ memblock_make_local(b) \/ WaitCheck(b) \/ WaitAsk(b)
    \/ WaitLoop(b) \/ WaitSleep(b) \/ WaitEnd(b) \/ OwnerUnref(b)

\* A user that is inside an access gets out of it
UserDuties(u, b) == AcquireLoad(u, b) \/ ReleaseCount(u, b) \/ ReleaseSignal(u, b)

MbNext ==
    \E b \in Blocks :
        \/ pa_memblock_unref_fixed(b)
        \/ \E u \in Users : \/ AcquireCount(u, b) \/ UserDuties(u, b)
                            \/ UserUnref(u, b)

\* Threads that have begun an operation are scheduled until they are through
\* with it; nobody has to begin one, except that an owner does call
\* pa_memblock_unref_fixed.
MbSpec ==
    /\ MbInit /\ [][MbNext]_mbVars
    /\ \A b \in Blocks :
        /\ WF_mbVars(pa_memblock_unref_fixed(b))
        /\ \A u \in Users : WF_mbVars(UserDuties(u, b))

-----------------------------------------------------------------------------
(* Properties                                                              *)

MbTypeOK ==
    /\ refcnt \in [Blocks -> 0..(1 + Cardinality(Users))]
    /\ blocktype \in [Blocks -> {"fixed", "pool_external", "user", "none"}]
    /\ mdata \in [Blocks -> {"fixed", "copy"}]
    /\ n_acquired \in [Blocks -> 0..Cardinality(Users)]
    /\ please_signal \in [Blocks -> {0, 1}]
    /\ semaphore \in Nat
    /\ opc \in [Blocks -> {"hold", "local", "wait", "ask", "loop", "sleep",
                           "end", "unref", "returned"}]
    /\ upc \in [Users -> [Blocks -> {"hold", "load", "use", "signal", "gone"}]]
    /\ ptr \in [Users -> [Blocks -> {"none", "fixed", "copy"}]]

\* Once pa_memblock_unref_fixed has returned, its caller reuses the memory: no
\* thread still holds a pointer into it, nor can one get it.
MemoryTakenBack ==
    \A b \in Blocks : opc[b] = "returned" =>
        /\ \A u \in Users : ptr[u][b] # "fixed"
        /\ refcnt[b] > 0 => mdata[b] = "copy"

\* A block is freed once, by whoever drops the last reference, and never while
\* somebody uses its data (the assertion of memblock_free).
FreedByTheLast ==
    \A b \in Blocks :
        /\ freed[b] = (IF refcnt[b] = 0 THEN 1 ELSE 0)
        /\ freed[b] = 1 => n_acquired[b] = 0

\* A block others still hold is not of type FIXED any more when its owner has
\* left: whoever frees it frees the copy (memblock_free looks at the type).
CopyIsOwned ==
    \A b \in Blocks : opc[b] = "returned" => blocktype[b] # "fixed"

\* The owner gets out of pa_memblock_unref_fixed: no signal of the last user
\* is lost.  The semaphore belongs to the pool, however, and does not say which
\* block was released: when two owners wait at once, one may take the signal
\* meant for the other, find its own block in use and sleep again.  What the
\* code promises is that an owner gets out if it never waits together with
\* another one, and that those who do are not all left asleep.
OneWaits == \A a, b \in Blocks : please_signal[a] > 0 /\ please_signal[b] > 0 => a = b
OwnerReturns ==
    /\ []OneWaits => <>[](\A b \in Blocks : opc[b] # "sleep")
    /\ <>[](\E b \in Blocks : opc[b] # "sleep")

\* A block is freed once, by the last to drop it, and fixed memory is out of
\* everybody's hands when its owner gets it back, which it does unless another
\* owner of the pool waits with it.
BlockCorrect ==
    [](MbTypeOK /\ MemoryTakenBack /\ FreedByTheLast /\ CopyIsOwned) /\ OwnerReturns
=============================================================================
