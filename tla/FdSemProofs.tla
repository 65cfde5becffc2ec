---------------------------- MODULE FdSemProofs ----------------------------
(***************************************************************************)
(* The owner of a pa_fdsem never sleeps through a post and never blocks in *)
(* flush() without somebody writing, for any number of posters and however *)
(* little one read() returns; and the three counters with the descriptor   *)
(* take only the steps of one semaphore.                                   *)
(*                                                                         *)
(* The argument rests on two books the code keeps.  waiting is 1 exactly   *)
(* from the announcement of the owner to its withdrawal, so a poster that  *)
(* finds the semaphore unsignalled while the owner sleeps cannot decide    *)
(* that nobody waits.  in_pipe is what is in the descriptor, what was read *)
(* but not yet subtracted, and one for each poster between its increment   *)
(* and its write.                                                          *)
(***************************************************************************)
EXTENDS FdSem, FiniteSetTheorems, TLAPS

\* Posters that have counted what they are about to write
Writing == {p \in Posters : ppc[p] = "write"}

\* in_pipe against the descriptor
PipeBalanced == in_pipe = efd + got + Cardinality(Writing)

\* r is in use only between a read() and its subtraction, and flush() reads
\* only while in_pipe is positive.
DrainBalanced ==
    /\ opc \notin {"drained", "woken"} => got = 0
    /\ opc = "drain" => in_pipe > 0

\* The owner sleeps in read() for pa_fdsem_wait only, in poll() for
\* before_poll only.
SleepsFor ==
    /\ opc \in {"sleeping", "woken"} => asked = "wait"
    /\ opc = "polling" => asked = "before_poll"
    /\ opc \in {"enter", "retake", "leave"} => asked \in {"wait", "before_poll"}
    /\ opc # "idle" => asked # "none"

FdInv == FdTypeOK /\ WaitingCounts /\ PipeBalanced /\ DrainBalanced /\ SleepsFor
         /\ NoLostPost

LEMMA WritingFinite ==
    IsFiniteSet(Writing) /\ Cardinality(Writing) \in Nat
BY FS_Subset, FS_CardinalityType, FdSemAssumption DEF Writing

LEMMA FdInitially == pa_fdsem_new => FdInv
<1> SUFFICES ASSUME pa_fdsem_new PROVE FdInv
  OBVIOUS
<1>1. Cardinality(Writing) = 0
  <2>1. Writing = {}
    BY DEF pa_fdsem_new, Writing
  <2> QED
    BY <2>1, FS_EmptySet
<1> QED
  BY <1>1 DEF pa_fdsem_new, FdInv, FdTypeOK, WaitingCounts, PipeBalanced, DrainBalanced,
              SleepsFor, NoLostPost

\* Posters.  A poster that has set the signal goes on to the descriptor as
\* long as the owner is announced.
LEMMA PosterStep ==
    ASSUME FdInv, NEW p \in Posters, pa_fdsem_post(p) PROVE FdInv'
<1> USE DEF FdInv
<1>1. CASE PostSignal(p) \/ PostCheck(p)
  <2>1. FdTypeOK'
    BY <1>1 DEF PostSignal, PostCheck, FdTypeOK, ownerVars
  <2>2. Writing' = Writing
    BY <1>1 DEF PostSignal, PostCheck, Writing, FdTypeOK
  <2>3. PipeBalanced' /\ DrainBalanced' /\ SleepsFor' /\ WaitingCounts'
    BY <1>1, <2>2 DEF PostSignal, PostCheck, PipeBalanced, DrainBalanced, SleepsFor,
                      WaitingCounts, ownerVars
  <2>4. NoLostPost'
    BY <1>1 DEF PostSignal, PostCheck, NoLostPost, WaitingCounts, FdTypeOK, ownerVars
  <2> QED
    BY <2>1, <2>3, <2>4
<1>2. CASE PostCount(p)
  <2>1. FdTypeOK'
    BY <1>2 DEF PostCount, FdTypeOK, ownerVars
  <2>2. p \notin Writing /\ Writing' = Writing \cup {p}
    BY <1>2 DEF PostCount, Writing, FdTypeOK
  <2>3. Cardinality(Writing') = Cardinality(Writing) + 1
    BY <2>2, WritingFinite, FS_AddElement
  <2>4. PipeBalanced'
    BY <1>2, <2>3, WritingFinite DEF PostCount, PipeBalanced, FdTypeOK, ownerVars
  <2>5. DrainBalanced' /\ SleepsFor' /\ WaitingCounts'
    BY <1>2 DEF PostCount, DrainBalanced, SleepsFor, WaitingCounts, FdTypeOK, ownerVars
  <2>6. NoLostPost'
    BY <1>2 DEF PostCount, NoLostPost, FdTypeOK, ownerVars
  <2> QED
    BY <2>1, <2>4, <2>5, <2>6
<1>3. CASE PostWrite(p)
  <2>1. FdTypeOK'
    BY <1>3 DEF PostWrite, FdTypeOK, ownerVars
  <2>2. p \in Writing /\ Writing' = Writing \ {p}
    BY <1>3 DEF PostWrite, Writing, FdTypeOK
  <2>3. Cardinality(Writing') = Cardinality(Writing) - 1
    BY <2>2, WritingFinite, FS_RemoveElement
  <2>4. PipeBalanced'
    BY <1>3, <2>3, WritingFinite DEF PostWrite, PipeBalanced, FdTypeOK, ownerVars
  <2>5. DrainBalanced' /\ SleepsFor' /\ WaitingCounts'
    BY <1>3 DEF PostWrite, DrainBalanced, SleepsFor, WaitingCounts, ownerVars
  <2>6. NoLostPost'
    BY <1>3 DEF PostWrite, NoLostPost, FdTypeOK, ownerVars
  <2> QED
    BY <2>1, <2>4, <2>5, <2>6
<1> QED
  BY <1>1, <1>2, <1>3 DEF pa_fdsem_post

\* A read() takes from the descriptor what it puts into r.
LEMMA ReadStep ==
    ASSUME FdInv, NEW at, NEW to,
           <<at, to>> \in {<<"drain", "drained">>, <<"sleeping", "woken">>},
           Read(at, to)
    PROVE FdInv'
<1> USE DEF FdInv
<1>1. FdTypeOK'
  BY FdSemAssumption DEF Read, FdTypeOK
<1>2. Writing' = Writing
  BY DEF Read, Writing
<1>3. got = 0
  BY DEF Read, DrainBalanced
<1>4. PipeBalanced'
  BY <1>2, <1>3, FdSemAssumption, WritingFinite DEF Read, PipeBalanced, FdTypeOK
<1>5. DrainBalanced' /\ SleepsFor' /\ WaitingCounts' /\ NoLostPost'
  BY DEF Read, DrainBalanced, SleepsFor, WaitingCounts, NoLostPost
<1> QED
  BY <1>1, <1>4, <1>5

\* Subtracting r from in_pipe closes the book again.
LEMMA SubtractStep ==
    ASSUME FdInv, FlushSubtract \/ WaitSubtract PROVE FdInv'
<1> USE DEF FdInv
<1>1. FdTypeOK'
  BY DEF FlushSubtract, WaitSubtract, FdTypeOK
<1>2. Writing' = Writing
  BY DEF FlushSubtract, WaitSubtract, Writing
<1>3. PipeBalanced'
  BY <1>2, WritingFinite DEF FlushSubtract, WaitSubtract, PipeBalanced, FdTypeOK
<1>4. DrainBalanced' /\ SleepsFor' /\ WaitingCounts' /\ NoLostPost'
  BY DEF FlushSubtract, WaitSubtract, DrainBalanced, SleepsFor, WaitingCounts,
         NoLostPost, FdTypeOK
<1> QED
  BY <1>1, <1>3, <1>4

\* The steps of the owner that leave the descriptor alone.
LEMMA OwnerStep ==
    ASSUME FdInv,
           \/ \E f \in {"wait", "try", "before_poll"} : Call(f)
           \/ PollEnds \/ flush \/ TryTake \/ EnterWaiters \/ TakeAgain \/ LeaveWaiters
    PROVE FdInv'
<1> USE DEF FdInv
<1>1. FdTypeOK'
  BY DEF Call, PollEnds, flush, TryTake, EnterWaiters, TakeAgain, LeaveWaiters, FdTypeOK
<1>2. Writing' = Writing /\ UNCHANGED <<in_pipe, efd, got>>
  BY DEF Call, PollEnds, flush, TryTake, EnterWaiters, TakeAgain, LeaveWaiters, Writing
<1>3. PipeBalanced'
  BY <1>2 DEF PipeBalanced
<1>4. DrainBalanced'
  BY <1>2 DEF Call, PollEnds, flush, TryTake, EnterWaiters, TakeAgain, LeaveWaiters,
              DrainBalanced, FdTypeOK
<1>5. SleepsFor'
  BY DEF Call, PollEnds, flush, TryTake, EnterWaiters, TakeAgain, LeaveWaiters,
         SleepsFor, FdTypeOK
<1>6. WaitingCounts'
  BY DEF Call, PollEnds, flush, TryTake, EnterWaiters, TakeAgain, LeaveWaiters,
         WaitingCounts, FdTypeOK
<1>7. NoLostPost'
  BY DEF Call, PollEnds, flush, TryTake, EnterWaiters, TakeAgain, LeaveWaiters,
         NoLostPost, FdTypeOK
<1> QED
  BY <1>1, <1>3, <1>4, <1>5, <1>6, <1>7

LEMMA FdInductive == FdInv /\ [FdNext]_fdVars => FdInv'
<1> SUFFICES ASSUME FdInv, [FdNext]_fdVars PROVE FdInv'
  OBVIOUS
<1>1. CASE Owner
  <2>1. CASE Read("drain", "drained") \/ Read("sleeping", "woken")
    BY <2>1, ReadStep
  <2>2. CASE ~ (Read("drain", "drained") \/ Read("sleeping", "woken"))
    BY <1>1, <2>2, SubtractStep, OwnerStep DEF Owner, OwnerDuties
  <2> QED
    BY <2>1, <2>2
<1>2. CASE \E p \in Posters : pa_fdsem_post(p)
  BY <1>2, PosterStep
<1>3. CASE UNCHANGED fdVars
  BY <1>3 DEF fdVars, FdInv, FdTypeOK, WaitingCounts, PipeBalanced, Writing,
              DrainBalanced, SleepsFor, NoLostPost
<1> QED
  BY <1>1, <1>2, <1>3 DEF FdNext

\* The inductive invariant of owner and posters.
THEOREM FdInvariance == FdSpec => []FdInv
BY FdInitially, FdInductive, PTL DEF FdSpec

\* Every variable keeps its type; what is read from the descriptor was there.
THEOREM FdTypes == FdSpec => []FdTypeOK
<1>1. FdInv => FdTypeOK
  BY DEF FdInv
<1> QED
  BY <1>1, FdInvariance, PTL

\* The owner of pa_fdsem_wait or of a poll() is never asleep with the
\* semaphore signalled and nobody about to wake it.
THEOREM PostsAreNotLost == FdSpec => []NoLostPost
<1>1. FdInv => NoLostPost
  BY DEF FdInv
<1> QED
  BY <1>1, FdInvariance, PTL

\* flush() never blocks in read() for good: a write is there or under way.
THEOREM FlushDoesNotHang == FdSpec => []FlushNeverHangs
<1>1. FdInv => FlushNeverHangs
  <2> SUFFICES ASSUME FdInv, opc = "drain", efd = 0 PROVE \E p \in Posters : ppc[p] = "write"
    BY DEF FlushNeverHangs, FdInv, FdTypeOK
  <2>1. Cardinality(Writing) > 0
    BY WritingFinite DEF FdInv, PipeBalanced, DrainBalanced
  <2>2. Writing # {}
    BY <2>1, FS_EmptySet
  <2> QED
    BY <2>2 DEF Writing
<1> QED
  BY <1>1, FdInvariance, PTL

\* The assertions on waiting hold: it is decremented from 1 only.
THEOREM WaitersCounted == FdSpec => []WaitingCounts
<1>1. FdInv => WaitingCounts
  BY DEF FdInv
<1> QED
  BY <1>1, FdInvariance, PTL

\* All of it: with any number of threads posting, the books of pa_fdsem are
\* right, and its owner neither sleeps through a post nor waits for a write
\* that is not coming.
THEOREM FdSemIsSafe == FdSpec => []FdSemSafe
BY FdTypes, PostsAreNotLost, FlushDoesNotHang, WaitersCounted, PTL DEF FdSemSafe

-----------------------------------------------------------------------------
(* Refinement, the safety part.                                            *)

\* The steps of one semaphore, without the promise that a sleeper is woken.
SafeSemaphore == Sem!SemInit /\ [][Sem!SemNext]_(Sem!semVars)

LEMMA StepRefines ==
    ASSUME FdInv, [FdNext]_fdVars PROVE [Sem!SemNext]_(Sem!semVars)
<1> USE DEF Sem!SemNext, Sem!semVars, Sem!Post, Sem!Take, Sem!Sleep, Sem!WaitReturns,
            Sem!PollReturns
<1>0. FdTypeOK /\ SleepsFor
  BY DEF FdInv
<1>1. CASE \E p \in Posters : pa_fdsem_post(p)
  BY <1>0, <1>1 DEF pa_fdsem_post, PostSignal, PostCheck, PostCount, PostWrite, ownerVars
<1>2. CASE Owner
  <2>1. CASE \E f \in {"wait", "try", "before_poll"} : Call(f)
    BY <2>1 DEF Call
  <2>2. CASE PollEnds
    BY <2>2 DEF PollEnds
  <2>3. CASE flush \/ FlushSubtract \/ Read("drain", "drained")
    BY <2>3 DEF flush, FlushSubtract, Read
  <2>4. CASE TryTake
    BY <1>0, <2>4 DEF TryTake, FdTypeOK
  <2>5. CASE EnterWaiters \/ LeaveWaiters
    BY <2>5 DEF EnterWaiters, LeaveWaiters
  <2>6. CASE TakeAgain
    BY <1>0, <2>6 DEF TakeAgain, FdTypeOK, SleepsFor
  <2>7. CASE Read("sleeping", "woken") \/ WaitSubtract
    BY <2>7 DEF Read, WaitSubtract
  <2> QED
    BY <1>2, <2>1, <2>2, <2>3, <2>4, <2>5, <2>6, <2>7 DEF Owner, OwnerDuties
<1>3. CASE UNCHANGED fdVars
  BY <1>3 DEF fdVars
<1> QED
  BY <1>1, <1>2, <1>3 DEF FdNext

\* The counters and the descriptor take only the steps of one binary
\* semaphore: a signal is taken once, by the owner, and never out of nothing.
THEOREM FdSemIsSemaphore == FdSpec => SafeSemaphore
<1>1. pa_fdsem_new => Sem!SemInit
  BY DEF pa_fdsem_new, Sem!SemInit
<1>2. FdInv /\ [FdNext]_fdVars => [Sem!SemNext]_(Sem!semVars)
  BY StepRefines
<1> QED
  BY <1>1, <1>2, FdInvariance, PTL DEF FdSpec, SafeSemaphore
=============================================================================
