------------------------------- MODULE FdSem -------------------------------
(***************************************************************************)
(* pulsecore/fdsem.c: a semaphore made of three atomic counters and an     *)
(* eventfd (or a pipe), so that posting and taking need a system call only *)
(* when the owner really sleeps.  Any number of threads post; one thread,  *)
(* the owner, takes, waits or sleeps in poll().  Each atomic operation and *)
(* each system call is a step of its own.                                  *)
(***************************************************************************)
EXTENDS Integers, FiniteSets

CONSTANTS Posters,    \* threads that post
          ReadMax     \* most that one read() returns: 10 for a pipe

ASSUME FdSemAssumption == IsFiniteSet(Posters) /\ ReadMax \in Nat \ {0}

VARIABLES signalled, waiting, in_pipe,   \* pa_fdsem_data
          efd,        \* what has been written to the descriptor and not read
          ppc,        \* where each poster is in pa_fdsem_post
          opc,        \* where the owner is
          asked,      \* the function the owner is in
          got         \* r: what read() returned and in_pipe still counts

ownerVars == <<opc, asked, got>>
fdVars == <<signalled, waiting, in_pipe, efd, ppc, opc, asked, got>>

pa_fdsem_new ==
    /\ signalled = 0 /\ waiting = 0 /\ in_pipe = 0 /\ efd = 0
    /\ ppc = [p \in Posters |-> "idle"]
    /\ opc = "idle" /\ asked = "none" /\ got = 0

-----------------------------------------------------------------------------
(* pa_fdsem_post                                                           *)

PostSignal(p) ==
    /\ ppc[p] = "idle"
    /\ signalled' = 1
    /\ ppc' = [ppc EXCEPT ![p] = IF signalled = 0 THEN "check" ELSE "idle"]
    /\ UNCHANGED <<waiting, in_pipe, efd, ownerVars>>

Bug_PostCheck(p) ==
    /\ ppc[p] = "check"
    /\ ppc' = [ppc EXCEPT ![p] = IF waiting > 1 THEN "inc" ELSE "idle"]
    /\ UNCHANGED <<signalled, waiting, in_pipe, efd, ownerVars>>

PostCheck(p) ==
    /\ ppc[p] = "check"
    /\ ppc' = [ppc EXCEPT ![p] = IF waiting > 0 THEN "inc" ELSE "idle"]
    /\ UNCHANGED <<signalled, waiting, in_pipe, efd, ownerVars>>

PostCount(p) ==
    /\ ppc[p] = "inc"
    /\ in_pipe' = in_pipe + 1
    /\ ppc' = [ppc EXCEPT ![p] = "write"]
    /\ UNCHANGED <<signalled, waiting, efd, ownerVars>>

PostWrite(p) ==
    /\ ppc[p] = "write"
    /\ efd' = efd + 1
    /\ ppc' = [ppc EXCEPT ![p] = "idle"]
    /\ UNCHANGED <<signalled, waiting, in_pipe, ownerVars>>

pa_fdsem_post(p) == PostSignal(p) \/ PostCheck(p) \/ PostCount(p) \/ PostWrite(p)

-----------------------------------------------------------------------------
(* The owner: wait, try, before_poll, poll(), after_poll.                  *)

\* The owner calls one of the functions; all of them begin with flush(),
\* except that after_poll first leaves the set of waiters.
Call(f) ==
    /\ opc = "idle"
    /\ asked' = f /\ opc' = "flush"
    /\ UNCHANGED <<signalled, waiting, in_pipe, efd, got, ppc>>

\* poll() ends: for the descriptor, a timeout or any other reason
PollEnds ==
    /\ opc = "polling"
    /\ asked' = "after_poll" /\ opc' = "flush"
    /\ waiting' = waiting - 1
    /\ UNCHANGED <<signalled, in_pipe, efd, got, ppc>>

flush ==
    /\ opc = "flush"
    /\ opc' = IF in_pipe <= 0 THEN "take" ELSE "drain"
    /\ UNCHANGED <<signalled, waiting, in_pipe, efd, got, asked, ppc>>

\* A blocking read: of the whole counter of an eventfd, of at most ReadMax
\* bytes of a pipe.
Read(at, to) ==
    /\ opc = at /\ efd > 0
    /\ got' = (IF efd < ReadMax THEN efd ELSE ReadMax)
    /\ efd' = efd - got'
    /\ opc' = to
    /\ UNCHANGED <<signalled, waiting, in_pipe, asked, ppc>>

FlushSubtract ==
    /\ opc = "drained"
    /\ in_pipe' = in_pipe - got /\ got' = 0
    /\ opc' = IF in_pipe > got THEN "drain" ELSE "take"
    /\ UNCHANGED <<signalled, waiting, efd, asked, ppc>>

\* The first cmpxchg of every function, after which try and after_poll
\* return.
TryTake ==
    /\ opc = "take"
    /\ signalled' = 0
    /\ opc' = IF signalled = 1 \/ asked \in {"try", "after_poll"}
              THEN "idle" ELSE "enter"
    /\ UNCHANGED <<waiting, in_pipe, efd, got, asked, ppc>>

EnterWaiters ==
    /\ opc = "enter"
    /\ waiting' = waiting + 1
    /\ opc' = "retake"
    /\ UNCHANGED <<signalled, in_pipe, efd, got, asked, ppc>>

Bug_TakeAgain ==
    /\ opc = "retake"
    /\ opc' = IF asked = "wait" THEN "sleeping" ELSE "polling"
    /\ UNCHANGED <<signalled, waiting, in_pipe, efd, got, asked, ppc>>

\* The second cmpxchg, with the owner announced as a waiter: only if it
\* fails too does the owner sleep.
TakeAgain ==
    /\ opc = "retake"
    /\ signalled' = 0
    /\ opc' = CASE signalled = 1 -> "leave"
                [] signalled = 0 /\ asked = "wait" -> "sleeping"
                [] OTHER -> "polling"
    /\ UNCHANGED <<waiting, in_pipe, efd, got, asked, ppc>>

WaitSubtract ==
    /\ opc = "woken"
    /\ in_pipe' = in_pipe - got /\ got' = 0
    /\ opc' = "retake"
    /\ UNCHANGED <<signalled, waiting, efd, asked, ppc>>

LeaveWaiters ==
    /\ opc = "leave"
    /\ waiting' = waiting - 1
    /\ opc' = "idle"
    /\ UNCHANGED <<signalled, in_pipe, efd, got, asked, ppc>>

\* What the owner does by itself once it has called a function
OwnerDuties ==
    \/ flush \/ Read("drain", "drained") \/ FlushSubtract
    \/ TryTake \/ EnterWaiters \/ TakeAgain
    \/ Read("sleeping", "woken") \/ WaitSubtract \/ LeaveWaiters
    \/ efd > 0 /\ PollEnds

Owner ==
    \/ \E f \in {"wait", "try", "before_poll"} : Call(f)
    \/ PollEnds
    \/ OwnerDuties

FdNext == Owner \/ \E p \in Posters : pa_fdsem_post(p)

\* Each thread that has begun a call is scheduled until it returns.  Nobody
\* has to call anything.
PosterDuties(p) == ppc[p] # "idle" /\ pa_fdsem_post(p)

FdSpec ==
    /\ pa_fdsem_new /\ [][FdNext]_fdVars
    /\ WF_fdVars(OwnerDuties)
    /\ \A p \in Posters : WF_fdVars(PosterDuties(p))

-----------------------------------------------------------------------------
(* Properties                                                              *)

FdTypeOK ==
    /\ signalled \in {0, 1} /\ waiting \in Int /\ in_pipe \in Int
    /\ efd \in Nat /\ got \in Nat
    /\ ppc \in [Posters -> {"idle", "check", "inc", "write"}]
    /\ opc \in {"idle", "flush", "drain", "drained", "take", "enter", "retake",
                "sleeping", "woken", "leave", "polling"}
    /\ asked \in {"none", "wait", "try", "before_poll", "after_poll"}

\* The owner never sleeps through a post: while it is blocked in read() or in
\* poll() and the semaphore is signalled, either the descriptor is readable or
\* a poster is on its way to make it so (fdsem.c: the order of the two cmpxchg
\* calls and of the accesses to waiting).
NoLostPost ==
    opc \in {"sleeping", "polling"} /\ signalled = 1
        => efd > 0 \/ \E p \in Posters : ppc[p] \in {"check", "inc", "write"}

\* flush() blocks in read() only for a write that is already under way: what
\* in_pipe counts is in the descriptor or about to be written.
FlushNeverHangs ==
    opc = "drain" => efd > 0 \/ \E p \in Posters : ppc[p] = "write"

\* pa_assert_se(pa_atomic_dec(&waiting) >= 1) never fails, and the owner
\* counts as a waiter exactly while it may be asleep.
WaitingCounts ==
    waiting = IF opc \in {"retake", "sleeping", "woken", "leave", "polling"}
              THEN 1 ELSE 0

\* The semaphore as its users see it: the owner waits from the moment it
\* announces itself in pa_fdsem_wait until it takes the signal, and polls from
\* the failed second cmpxchg of pa_fdsem_before_poll to the end of poll().
Sem == INSTANCE Semaphore WITH
    sem  <- signalled,
    mode <- CASE asked = "wait" /\ opc \in {"enter", "retake", "sleeping", "woken"}
                   -> "wait"
              [] opc = "polling" -> "poll"
              [] OTHER -> "run"

\* The counters and the descriptor together behave as one semaphore whose
\* sleeper is always woken (refinement, including fairness).
ImplementsSemaphore == Sem!SemSpec

\* The books of the semaphore are right, and nobody sleeps through a post or
\* blocks for one that is not coming.
FdSemSafe == FdTypeOK /\ NoLostPost /\ FlushNeverHangs /\ WaitingCounts
=============================================================================
