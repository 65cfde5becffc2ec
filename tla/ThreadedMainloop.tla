-------------------------- MODULE ThreadedMainloop --------------------------
(***************************************************************************)
(* The threaded main loop, pulse/thread-mainloop.c: a worker thread runs   *)
(* the event loop with a lock held, which it lets go of only in poll(2);   *)
(* application threads take the lock to start operations, wait for their   *)
(* callbacks, and accept what a callback hands them.                       *)
(*                                                                         *)
(* The application threads follow thread-mainloop.h: a "basic" operation's *)
(* callback signals without waiting, a "data" operation's callback hands   *)
(* out a pointer into its own frame and waits until it is accepted, and a  *)
(* "once" operation runs its callback in the worker without the lock.  The *)
(* events and the poll of the loop are those of MainLoop, reduced to       *)
(* operations whose answer has come.                                       *)
(***************************************************************************)
EXTENDS Integers, FiniteSets

CONSTANTS Basic, Data, Once,  \* application threads, by what they do
          NoThread,               \* the lock is free; no callback
          Worker, Main,       \* the thread of the loop, the one that stops it
          MaxStarts,          \* bound: calls of pa_threaded_mainloop_start
          MaxSpurious         \* bound: spurious wake-ups

Apps == Basic \union Data \union Once

ASSUME ThreadedAssumption ==
  /\ MaxStarts \in Nat /\ MaxSpurious \in Nat
  /\ Basic \intersect Data = {} /\ Basic \intersect Once = {} /\ Data \intersect Once = {}

VARIABLES
  mutex,        \* who holds it (only pa_threaded_mainloop_lock nests it)
  wpc,          \* where the worker is
  cb,           \* the operation whose callback runs
  apc,          \* where each application thread is
  operation,    \* its operation
  result,       \* what its callback handed out: nothing yet, or a pointer
  n_waiting, n_waiting_for_accept,
  loop,         \* state of the real main loop: passive or quit
  wakeup, quit_asked,
  mpc,          \* where the main thread is
  starts, spurious

tmlVars == <<mutex, wpc, cb, apc, operation, result, n_waiting, n_waiting_for_accept,
          loop, wakeup, quit_asked, mpc, starts, spurious>>

TmlTypeOK ==
  /\ mutex \in Apps \union {NoThread, Worker, Main}
  /\ wpc \in {"off", "start", "prepare", "poll", "relock", "callback", "accept", "accepted",
              "unlocked", "once", "onced", "ended"}
  /\ cb \in Apps \union {NoThread}
  /\ apc \in [Apps -> {"idle", "check", "wait", "woken", "use", "unlock", "done"}]
  /\ operation \in [Apps -> {"none", "sent", "arrived", "done"}]
  /\ result \in [Apps -> {"null", "set"}]
  /\ n_waiting \in 0..Cardinality(Apps) /\ n_waiting_for_accept \in 0..Cardinality(Apps)
  /\ loop \in {"passive", "quit"} /\ wakeup \in BOOLEAN /\ quit_asked \in BOOLEAN
  /\ mpc \in {"running", "quit", "join", "stopped"}
  /\ starts \in 0..MaxStarts /\ spurious \in 0..MaxSpurious

TmlInit ==
  /\ mutex = NoThread /\ wpc = "off" /\ cb = NoThread
  /\ apc = [a \in Apps |-> "idle"] /\ operation = [a \in Apps |-> "none"]
  /\ result = [a \in Apps |-> "null"]
  /\ n_waiting = 0 /\ n_waiting_for_accept = 0
  /\ loop = "passive" /\ wakeup = FALSE /\ quit_asked = FALSE
  /\ mpc = "stopped" /\ starts = 0 /\ spurious = 0

-----------------------------------------------------------------------------
(* The worker.                                                              *)

\* thread: the lock is taken before the loop runs.
WorkerStarts ==
  /\ wpc = "start" /\ mutex = NoThread
  /\ mutex' = Worker /\ wpc' = "prepare"
  /\ UNCHANGED <<cb, apc, operation, result, n_waiting, n_waiting_for_accept, loop, wakeup, quit_asked, mpc, starts, spurious>>

\* The loop has come to quit: the worker lets go of the lock and ends.
WorkerEnds ==
  /\ loop' = "quit" /\ wpc' = "ended" /\ mutex' = NoThread

\* pa_mainloop_prepare, then poll_func up to poll(2).
WorkerPrepares ==
  /\ wpc = "prepare" /\ wakeup' = FALSE
  /\ IF quit_asked THEN WorkerEnds ELSE wpc' = "poll" /\ mutex' = NoThread /\ UNCHANGED loop
  /\ UNCHANGED <<cb, apc, operation, result, n_waiting, n_waiting_for_accept, quit_asked, mpc, starts, spurious>>

WorkerPolls ==
  /\ wpc = "poll" /\ (wakeup \/ \E a \in Apps : operation[a] = "arrived")
  /\ wpc' = "relock"
  /\ UNCHANGED <<mutex, cb, apc, operation, result, n_waiting, n_waiting_for_accept, loop, wakeup, quit_asked, mpc, starts, spurious>>

\* poll_func takes the lock again; the loop dispatches what has come.
WorkerDispatches ==
  /\ wpc = "relock" /\ mutex = NoThread
  /\ IF quit_asked THEN WorkerEnds /\ UNCHANGED cb
     ELSE /\ mutex' = Worker /\ UNCHANGED loop
          /\ \/ /\ \A a \in Apps : operation[a] # "arrived"
                /\ wpc' = "prepare" /\ UNCHANGED cb
             \/ \E a \in Apps : /\ operation[a] = "arrived"
                                /\ cb' = a /\ wpc' = IF a \in Once THEN "unlocked" ELSE "callback"
  /\ UNCHANGED <<apc, operation, result, n_waiting, n_waiting_for_accept, wakeup, quit_asked, mpc, starts, spurious>>

\* pa_cond_signal(m->cond, 1): all who wait have to take the lock again.
Broadcast == apc' = [a \in Apps |-> IF apc[a] = "wait" THEN "woken" ELSE apc[a]]

\* The callback of a basic operation: it signals and returns, and the
\* operation is done.
CallbackBasic ==
  /\ wpc = "callback" /\ cb \in Basic
  /\ Broadcast /\ operation' = [operation EXCEPT ![cb] = "done"]
  /\ cb' = NoThread /\ wpc' = "prepare"
  /\ UNCHANGED <<mutex, result, n_waiting, n_waiting_for_accept, loop, wakeup, quit_asked, mpc, starts, spurious>>

\* The callback of a data operation: pa_threaded_mainloop_signal(m, 1), up
\* to the wait for the acceptance.
CallbackData ==
  /\ wpc = "callback" /\ cb \in Data
  /\ result' = [result EXCEPT ![cb] = "set"]
  /\ Broadcast
  /\ n_waiting_for_accept' = n_waiting_for_accept + 1
  /\ mutex' = NoThread /\ wpc' = "accept"
  /\ UNCHANGED <<cb, operation, n_waiting, loop, wakeup, quit_asked, mpc, starts, spurious>>

\* The wait is not repeated: a spurious wake-up ends it.
Bug_Accepted ==
  /\ wpc = "accepted" /\ mutex = NoThread
  /\ mutex' = Worker /\ operation' = [operation EXCEPT ![cb] = "done"] /\ cb' = NoThread /\ wpc' = "prepare"
  /\ UNCHANGED <<apc, result, n_waiting, n_waiting_for_accept, loop, wakeup, quit_asked, mpc, starts, spurious>>

\* Woken in pa_threaded_mainloop_signal: wait again, or return.
Accepted ==
  /\ wpc = "accepted" /\ mutex = NoThread
  /\ IF n_waiting_for_accept > 0
     THEN wpc' = "accept" /\ UNCHANGED <<mutex, cb, operation>>
     ELSE mutex' = Worker /\ operation' = [operation EXCEPT ![cb] = "done"] /\ cb' = NoThread /\ wpc' = "prepare"
  /\ UNCHANGED <<apc, result, n_waiting, n_waiting_for_accept, loop, wakeup, quit_asked, mpc, starts, spurious>>

\* once_unlocked_cb lets go of the lock around its callback, which here takes
\* it to signal, as the callback of thread-mainloop-test.c does ...
OnceUnlocks ==
  /\ wpc = "unlocked" /\ mutex' = NoThread /\ wpc' = "once"
  /\ UNCHANGED <<cb, apc, operation, result, n_waiting, n_waiting_for_accept, loop, wakeup, quit_asked, mpc, starts, spurious>>

OnceSignals ==
  /\ wpc = "once" /\ mutex = NoThread   \* lock, signal and unlock
  /\ Broadcast /\ operation' = [operation EXCEPT ![cb] = "done"] /\ wpc' = "onced"
  /\ UNCHANGED <<mutex, cb, result, n_waiting, n_waiting_for_accept, loop, wakeup, quit_asked, mpc, starts, spurious>>

\* ... and takes it again when the callback has returned.
OnceReturns ==
  /\ wpc = "onced" /\ mutex = NoThread
  /\ mutex' = Worker /\ cb' = NoThread /\ wpc' = "prepare"
  /\ UNCHANGED <<apc, operation, result, n_waiting, n_waiting_for_accept, loop, wakeup, quit_asked, mpc, starts, spurious>>

-----------------------------------------------------------------------------
(* The application threads.                                                 *)

\* An operation is started with the lock held; a deferred event of the loop
\* needs no answer, but wakes it.
Begin(a) ==
  /\ apc[a] = "idle" /\ mutex = NoThread /\ mpc = "running"
  /\ mutex' = a /\ apc' = [apc EXCEPT ![a] = "check"]
  /\ operation' = [operation EXCEPT ![a] = IF a \in Once THEN "arrived" ELSE "sent"]
  /\ wakeup' = TRUE
  /\ UNCHANGED <<wpc, cb, result, n_waiting, n_waiting_for_accept, loop, quit_asked, mpc, starts, spurious>>

Satisfied(a) == IF a \in Data THEN result[a] = "set" ELSE operation[a] = "done"

\* The loop around pa_threaded_mainloop_wait; waiting lets go of the lock.
Check(a) ==
  /\ apc[a] = "check"
  /\ IF Satisfied(a)
     THEN /\ apc' = [apc EXCEPT ![a] = IF a \in Data THEN "use" ELSE "unlock"]
          /\ UNCHANGED <<mutex, n_waiting>>
     ELSE /\ apc' = [apc EXCEPT ![a] = "wait"]
          /\ mutex' = NoThread /\ n_waiting' = n_waiting + 1
  /\ UNCHANGED <<wpc, cb, operation, result, n_waiting_for_accept, loop, wakeup, quit_asked, mpc, starts, spurious>>

Wakes(a) ==
  /\ apc[a] = "woken" /\ mutex = NoThread
  /\ mutex' = a /\ apc' = [apc EXCEPT ![a] = "check"]
  /\ n_waiting' = n_waiting - 1
  /\ UNCHANGED <<wpc, cb, operation, result, n_waiting_for_accept, loop, wakeup, quit_asked, mpc, starts, spurious>>

\* pa_threaded_mainloop_accept, when the data has been used.
Accept(a) ==
  /\ apc[a] = "use"
  /\ n_waiting_for_accept' = n_waiting_for_accept - 1
  /\ wpc' = IF wpc = "accept" THEN "accepted" ELSE wpc
  /\ apc' = [apc EXCEPT ![a] = "unlock"]
  /\ UNCHANGED <<mutex, cb, operation, result, n_waiting, loop, wakeup, quit_asked, mpc, starts, spurious>>

Leave(a) ==
  /\ apc[a] = "unlock" /\ mutex' = NoThread /\ apc' = [apc EXCEPT ![a] = "done"]
  /\ UNCHANGED <<wpc, cb, operation, result, n_waiting, n_waiting_for_accept, loop, wakeup, quit_asked, mpc, starts, spurious>>

\* The answer to an operation arrives at the loop's socket.
AnswerArrives(a) ==
  /\ operation[a] = "sent" /\ operation' = [operation EXCEPT ![a] = "arrived"]
  /\ UNCHANGED <<mutex, wpc, cb, apc, result, n_waiting, n_waiting_for_accept, loop, wakeup, quit_asked, mpc, starts, spurious>>

\* A wait on a condition ends for no reason.
SpuriousWakeup ==
  /\ spurious < MaxSpurious /\ spurious' = spurious + 1
  /\ \/ /\ wpc = "accept" /\ wpc' = "accepted" /\ UNCHANGED apc
     \/ /\ \E a \in Apps : apc[a] = "wait" /\ apc' = [apc EXCEPT ![a] = "woken"]
        /\ UNCHANGED wpc
  /\ UNCHANGED <<mutex, cb, operation, result, n_waiting, n_waiting_for_accept, loop, wakeup, quit_asked, mpc, starts>>

-----------------------------------------------------------------------------
(* The main thread: it starts the loop and stops it when the others have    *)
(* done their work.                                                         *)

Start ==
  /\ mpc = "stopped" /\ starts < MaxStarts /\ starts' = starts + 1
  /\ wpc \in {"off", "ended"} /\ wpc' = "start" /\ mpc' = "running"
  /\ UNCHANGED <<mutex, cb, apc, operation, result, n_waiting, n_waiting_for_accept, loop, wakeup, quit_asked, spurious>>

StopLocks ==
  /\ mpc = "running" /\ mutex = NoThread /\ \A a \in Apps : apc[a] = "done"
  /\ mutex' = Main /\ mpc' = "quit"
  /\ UNCHANGED <<wpc, cb, apc, operation, result, n_waiting, n_waiting_for_accept, loop, wakeup, quit_asked, starts, spurious>>

StopQuits ==
  /\ mpc = "quit" /\ quit_asked' = TRUE /\ wakeup' = TRUE /\ mutex' = NoThread /\ mpc' = "join"
  /\ UNCHANGED <<wpc, cb, apc, operation, result, n_waiting, n_waiting_for_accept, loop, starts, spurious>>

StopJoins ==
  /\ mpc = "join" /\ wpc = "ended" /\ mpc' = "stopped"
  /\ UNCHANGED <<mutex, wpc, cb, apc, operation, result, n_waiting, n_waiting_for_accept, loop, wakeup, quit_asked, starts, spurious>>

WorkerNext == \/ WorkerStarts \/ WorkerPrepares \/ WorkerPolls \/ WorkerDispatches \/ CallbackBasic \/ CallbackData
              \/ Accepted \/ OnceUnlocks \/ OnceSignals \/ OnceReturns
AppNext(a) == Begin(a) \/ Check(a) \/ Wakes(a) \/ Accept(a) \/ Leave(a)
MainNext   == Start \/ StopLocks \/ StopQuits \/ StopJoins

TmlNext ==
  \/ WorkerStarts \/ WorkerPrepares \/ WorkerPolls \/ WorkerDispatches \/ CallbackBasic \/ CallbackData
  \/ Accepted \/ OnceUnlocks \/ OnceSignals \/ OnceReturns
  \/ \E a \in Apps : Begin(a) \/ Check(a) \/ Wakes(a) \/ Accept(a) \/ Leave(a) \/ AnswerArrives(a)
  \/ SpuriousWakeup
  \/ Start \/ StopLocks \/ StopQuits \/ StopJoins

\* Every thread that can take a step takes one, and every answer comes.
TmlSpec ==
  /\ TmlInit /\ [][TmlNext]_tmlVars
  /\ WF_tmlVars(WorkerNext) /\ WF_tmlVars(MainNext)
  /\ \A a \in Apps : WF_tmlVars(AppNext(a)) /\ WF_tmlVars(AnswerArrives(a))

-----------------------------------------------------------------------------
\* "The main function is then free to use the data in the callback until
\* pa_threaded_mainloop_accept() is called": the frame the pointer leads into
\* is still there, and the acceptance is expected (the assertion in
\* pa_threaded_mainloop_accept), whatever else wakes the worker.
DataStays ==
  \A a \in Apps : apc[a] = "use" => /\ cb = a /\ wpc \in {"accept", "accepted"}
                                    /\ n_waiting_for_accept > 0

\* The count of the waiting threads is that of the threads that are in
\* pa_threaded_mainloop_wait.
WaitingCounted == n_waiting = Cardinality({a \in Apps : apc[a] \in {"wait", "woken"}})

\* Callbacks and the threads that use the loop's objects exclude each other,
\* through waits, signals, polls and callbacks run without the lock.
OneAtATime ==
  /\ \A a \in Apps : apc[a] \in {"check", "use", "unlock"} <=> mutex = a
  /\ wpc \in {"prepare", "callback", "unlocked"} <=> mutex = Worker

\* No signal is lost: every operation that was begun is seen to be done by
\* the thread that waits for it.
OperationsComplete == <>[](\A a \in Apps : apc[a] \in {"idle", "done"})

\* pa_threaded_mainloop_stop returns.
StopReturns == <>[](mpc \notin {"quit", "join"})

\* The protocol of thread-mainloop.h: what a callback hands out is there until
\* it is accepted, waiting is accounted for, and nobody waits for good.
ThreadedLoopCorrect ==
    /\ [](TmlTypeOK /\ DataStays /\ WaitingCounted /\ OneAtATime)
    /\ OperationsComplete /\ StopReturns
=============================================================================
