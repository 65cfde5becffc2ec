----------------------------- MODULE Semaphore -----------------------------
(***************************************************************************)
(* What pa_fdsem promises: a binary semaphore one thread sleeps on, either *)
(* in pa_fdsem_wait or in a poll() between pa_fdsem_before_poll and        *)
(* pa_fdsem_after_poll.  A post is never lost: a sleeper is woken as long  *)
(* as the semaphore is signalled.  FdSem implements this specification;    *)
(* AsyncMsgQ is built on it.                                               *)
(***************************************************************************)
EXTENDS Naturals

VARIABLES sem,      \* 1 when signalled
          mode      \* what the owner does: "run", "wait" or "poll"

semVars == <<sem, mode>>

SemInit == sem = 0 /\ mode = "run"

Post == sem' = 1 /\ UNCHANGED mode

Take == /\ mode = "run" /\ sem = 1
        /\ sem' = 0 /\ UNCHANGED mode

Sleep(m) == mode = "run" /\ mode' = m /\ UNCHANGED sem

WaitReturns == /\ mode = "wait" /\ sem = 1
               /\ sem' = 0 /\ mode' = "run"

\* poll() may also return for another file descriptor or a timeout
PollReturns == mode = "poll" /\ mode' = "run" /\ UNCHANGED sem

SemNext == \/ Post \/ Take
           \/ \E m \in {"wait", "poll"} : Sleep(m)
           \/ WaitReturns \/ PollReturns

SemSpec == /\ SemInit /\ [][SemNext]_semVars
           /\ WF_semVars(WaitReturns)
           /\ WF_semVars(sem = 1 /\ PollReturns)
=============================================================================
