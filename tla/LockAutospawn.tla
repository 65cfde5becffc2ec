--------------------------- MODULE LockAutospawn ---------------------------
(***************************************************************************)
(* pulsecore/lock-autospawn.c: the lock under which a daemon is started.   *)
(* Across processes it is a POSIX lock on a file that is removed when it   *)
(* is given up (pa_lock_lockfile, pa_unlock_lockfile of core-util.c);      *)
(* within a process a helper thread takes that lock, and the contexts of   *)
(* the process pass it on among themselves with a state variable and a     *)
(* pipe they wait on, in a blocking call or in their event loop.           *)
(*                                                                         *)
(* The sections under the two mutexes are atomic; the final unref keeps    *)
(* the mutex while it waits for the helper thread.  A process may crash at *)
(* any point and be started again.                                         *)
(***************************************************************************)
EXTENDS Integers, FiniteSets

CONSTANTS Procs,          \* processes
          Contexts,       \* users of the lock
          ProcessOf,      \* the process a context belongs to
          Blocking,       \* contexts that call pa_autospawn_lock_acquire(true)
          Nobody, NoFile,
          Files,          \* bound: files that can be created
          MaxCrashes,     \* bound: crashes
          LockFails       \* may the lock file be impossible to open or lock?

ASSUME AutospawnAssumption ==
    /\ IsFiniteSet(Contexts) /\ ProcessOf \in [Contexts -> Procs]
    /\ Blocking \subseteq Contexts
    /\ Nobody \notin Procs \cup Contexts /\ NoFile \notin Files
    /\ MaxCrashes \in Nat /\ LockFails \in BOOLEAN

VARIABLES link,     \* the file AUTOSPAWN_LOCK names
          holder,   \* the process that has the lock on a file
          made,     \* files created so far
          state, thread, lock_fd, pipe,   \* the static variables, of each process
          n_ref,    \* the contexts that have initialised the lock
          ref_mutex,    \* held in unref while it waits for the thread
          cpc,       \* where every context is
          crashes

fileVars == <<link, holder, made>>
procVars == <<state, thread, lock_fd, pipe, n_ref, ref_mutex>>
laVars == <<fileVars, procVars, cpc, crashes>>

Mine(p) == {c \in Contexts : ProcessOf[c] = p}

LaInit ==
    /\ link = NoFile /\ holder = [f \in Files |-> Nobody] /\ made = {}
    /\ state = [p \in Procs |-> "IDLE"]
    /\ thread = [p \in Procs |-> "none"]
    /\ lock_fd = [p \in Procs |-> NoFile]
    /\ pipe = [p \in Procs |-> 0]
    /\ n_ref = [p \in Procs |-> {}]
    /\ ref_mutex = [p \in Procs |-> Nobody]
    /\ cpc = [c \in Contexts |-> "start"]
    /\ crashes = 0

-----------------------------------------------------------------------------
(* The helper thread.                                                      *)

At(p, s) == thread[p] = s

\* pa_lock_lockfile: open, creating the file if there is none (a new one; all
\* new files are alike),
Open(p) ==
    /\ At(p, "open")
    /\ IF link # NoFile
       THEN /\ lock_fd' = [lock_fd EXCEPT ![p] = link]
            /\ UNCHANGED <<link, made>>
       ELSE LET f == CHOOSE g \in Files \ made : TRUE IN
              /\ Files \ made # {}
              /\ link' = f /\ made' = made \cup {f}
              /\ lock_fd' = [lock_fd EXCEPT ![p] = f]
    /\ thread' = [thread EXCEPT ![p] = "lock"]
    /\ UNCHANGED <<holder, state, pipe, n_ref, ref_mutex, cpc, crashes>>

\* wait for the lock,
Lock(p) ==
    /\ At(p, "lock") /\ holder[lock_fd[p]] = Nobody
    /\ holder' = [holder EXCEPT ![lock_fd[p]] = p]
    /\ thread' = [thread EXCEPT ![p] = "stat"]
    /\ UNCHANGED <<link, made, state, lock_fd, pipe, n_ref, ref_mutex, cpc, crashes>>

\* Mutant: the file is not looked at again once it is locked.
Bug_Stat(p) ==
    /\ At(p, "stat")
    /\ thread' = [thread EXCEPT ![p] = "locked"]
    /\ UNCHANGED <<fileVars, state, lock_fd, pipe, n_ref, ref_mutex, cpc, crashes>>

\* and start again if the file has been removed meanwhile.
Stat(p) ==
    /\ At(p, "stat")
    /\ IF link = lock_fd[p]
       THEN /\ thread' = [thread EXCEPT ![p] = "locked"]
            /\ UNCHANGED holder
       ELSE /\ thread' = [thread EXCEPT ![p] = "open"]
            /\ holder' = [holder EXCEPT ![lock_fd[p]] = Nobody]
    /\ UNCHANGED <<link, made, state, lock_fd, pipe, n_ref, ref_mutex, cpc, crashes>>

\* pa_lock_lockfile fails, before it has the lock.
Fail(p) ==
    /\ LockFails /\ thread[p] \in {"open", "lock"}
    /\ thread' = [thread EXCEPT ![p] = "ping"]
    /\ state' = [state EXCEPT ![p] = "FAILED"]
    /\ UNCHANGED <<fileVars, lock_fd, pipe, n_ref, ref_mutex, cpc, crashes>>

Owning(p) ==
    /\ At(p, "locked")
    /\ state' = [state EXCEPT ![p] = "OWNING"]
    /\ thread' = [thread EXCEPT ![p] = "ping"]
    /\ UNCHANGED <<fileVars, lock_fd, pipe, n_ref, ref_mutex, cpc, crashes>>

Ping(p) ==
    /\ At(p, "ping")
    /\ pipe' = [pipe EXCEPT ![p] = @ + 1]
    /\ thread' = [thread EXCEPT ![p] = "ended"]
    /\ UNCHANGED <<fileVars, state, lock_fd, n_ref, ref_mutex, cpc, crashes>>

-----------------------------------------------------------------------------
(* The contexts.                                                           *)

Go(c, s) == cpc' = [cpc EXCEPT ![c] = s]

pa_autospawn_lock_init(c) ==
    LET p == ProcessOf[c] IN
    /\ cpc[c] = "start" /\ ref_mutex[p] = Nobody
    /\ n_ref' = [n_ref EXCEPT ![p] = @ \cup {c}]
    /\ Go(c, "acquire")
    /\ UNCHANGED <<fileVars, state, thread, lock_fd, pipe, ref_mutex, crashes>>

\* pa_autospawn_lock_acquire, up to the wait for a ping in it or after it.
pa_autospawn_lock_acquire(c) ==
    LET p == ProcessOf[c] IN
    /\ cpc[c] = "acquire" /\ ref_mutex[p] = Nobody
    /\ pipe' = [pipe EXCEPT ![p] = 0]
    /\ \/ /\ state[p] = "OWNING"
          /\ state' = [state EXCEPT ![p] = "TAKEN"]
          /\ Go(c, "taken") /\ UNCHANGED thread
       \/ /\ state[p] = "FAILED"
          /\ Go(c, "failed") /\ UNCHANGED <<state, thread>>
       \/ /\ state[p] \in {"IDLE", "TAKEN"}
          /\ thread' = [thread EXCEPT ![p] =
                          IF state[p] = "IDLE" /\ @ = "none" THEN "open" ELSE @]
          /\ Go(c, "poll") /\ UNCHANGED state
    /\ UNCHANGED <<fileVars, lock_fd, n_ref, ref_mutex, crashes>>

\* poll() returns: in wait_for_ping, which then reads a byte, or in the event
\* loop of the context, which calls pa_autospawn_lock_acquire again.
PollPipe(c) ==
    /\ cpc[c] = "poll" /\ pipe[ProcessOf[c]] > 0
    /\ Go(c, IF c \in Blocking THEN "read" ELSE "acquire")
    /\ UNCHANGED <<fileVars, procVars, crashes>>

\* The byte may be gone by then.
ReadByte(c) ==
    LET p == ProcessOf[c] IN
    /\ cpc[c] = "read"
    /\ pipe' = [pipe EXCEPT ![p] = IF @ > 0 THEN @ - 1 ELSE 0]
    /\ Go(c, "acquire")
    /\ UNCHANGED <<fileVars, state, thread, lock_fd, n_ref, ref_mutex, crashes>>

pa_autospawn_lock_release(c) ==
    LET p == ProcessOf[c] IN
    /\ cpc[c] = "taken" /\ ref_mutex[p] = Nobody
    /\ state' = [state EXCEPT ![p] = "OWNING"]
    /\ pipe' = [pipe EXCEPT ![p] = @ + 1]
    /\ Go(c, "done")
    /\ UNCHANGED <<fileVars, thread, lock_fd, n_ref, ref_mutex, crashes>>

\* pa_autospawn_lock_done: the last context of the process keeps the mutex,
pa_autospawn_lock_done(c) ==
    LET p == ProcessOf[c] IN
    /\ cpc[c] \in {"done", "failed"} /\ ref_mutex[p] = Nobody
    /\ n_ref' = [n_ref EXCEPT ![p] = @ \ {c}]
    /\ IF n_ref[p] = {c}
       THEN ref_mutex' = [ref_mutex EXCEPT ![p] = c] /\ Go(c, "join")
       ELSE UNCHANGED ref_mutex /\ Go(c, "end")
    /\ UNCHANGED <<fileVars, state, thread, lock_fd, pipe, crashes>>

\* waits for the thread,
Join(c) ==
    LET p == ProcessOf[c] IN
    /\ cpc[c] = "join" /\ thread[p] \in {"none", "ended"}
    /\ thread' = [thread EXCEPT ![p] = "none"]
    /\ Go(c, IF state[p] = "OWNING" THEN "unlink" ELSE "reset")
    /\ UNCHANGED <<fileVars, state, lock_fd, pipe, n_ref, ref_mutex, crashes>>

\* removes the lock file,
UnlinkFile(c) ==
    /\ cpc[c] = "unlink"
    /\ link' = NoFile
    /\ Go(c, "unlock")
    /\ UNCHANGED <<holder, made, procVars, crashes>>

\* and only then unlocks it.
UnlockFile(c) ==
    LET p == ProcessOf[c] IN
    /\ cpc[c] = "unlock"
    /\ holder' = [holder EXCEPT ![lock_fd[p]] = Nobody]
    /\ Go(c, "reset")
    /\ UNCHANGED <<link, made, procVars, crashes>>

Reset(c) ==
    LET p == ProcessOf[c] IN
    /\ cpc[c] = "reset"
    /\ lock_fd' = [lock_fd EXCEPT ![p] = NoFile]
    /\ state' = [state EXCEPT ![p] = "IDLE"]
    /\ pipe' = [pipe EXCEPT ![p] = 0]
    /\ ref_mutex' = [ref_mutex EXCEPT ![p] = Nobody]
    /\ Go(c, "end")
    /\ UNCHANGED <<fileVars, thread, n_ref, crashes>>

\* The process dies, which releases its lock, and is started anew.
Crash(p) ==
    /\ crashes < MaxCrashes /\ crashes' = crashes + 1
    /\ holder' = [f \in Files |-> IF holder[f] = p THEN Nobody ELSE holder[f]]
    /\ state' = [state EXCEPT ![p] = "IDLE"]
    /\ thread' = [thread EXCEPT ![p] = "none"]
    /\ lock_fd' = [lock_fd EXCEPT ![p] = NoFile]
    /\ pipe' = [pipe EXCEPT ![p] = 0]
    /\ n_ref' = [n_ref EXCEPT ![p] = {}]
    /\ ref_mutex' = [ref_mutex EXCEPT ![p] = Nobody]
    /\ cpc' = [c \in Contexts |-> IF c \in Mine(p) THEN "start" ELSE cpc[c]]
    /\ UNCHANGED <<link, made>>

ThreadStep(p) == Open(p) \/ Lock(p) \/ Stat(p) \/ Owning(p) \/ Ping(p)
ContextStep(c) ==
    \/ pa_autospawn_lock_init(c) \/ pa_autospawn_lock_acquire(c) \/ PollPipe(c)
    \/ ReadByte(c) \/ pa_autospawn_lock_release(c) \/ pa_autospawn_lock_done(c)
    \/ Join(c) \/ UnlinkFile(c) \/ UnlockFile(c) \/ Reset(c)

LaNext ==
    \/ \E p \in Procs : ThreadStep(p) \/ Fail(p) \/ Crash(p)
    \/ \E c \in Contexts : ContextStep(c)

\* Threads go on; nobody keeps the lock for good.
LaSpec ==
    /\ LaInit /\ [][LaNext]_laVars
    /\ \A p \in Procs : WF_laVars(ThreadStep(p))
    /\ \A c \in Contexts : WF_laVars(ContextStep(c))

-----------------------------------------------------------------------------
(* Properties.                                                             *)

\* Everything has its type, and the assertions of the source hold: the state is
\* STATE_IDLE when the thread has its answer, STATE_TAKEN when the lock is given
\* back, and not STATE_TAKEN when the last context is done.
LaTypeOK ==
    /\ link \in Files \cup {NoFile} /\ made \subseteq Files
    /\ holder \in [Files -> Procs \cup {Nobody}]
    /\ pipe \in [Procs -> Nat]
    /\ \A p \in Procs :
         /\ thread[p] \in {"open", "lock", "stat", "locked"} => state[p] = "IDLE"
         /\ ref_mutex[p] # Nobody => state[p] # "TAKEN"
    /\ \A c \in Contexts : cpc[c] = "taken" => state[ProcessOf[c]] = "TAKEN"

\* Whatever crashes, at most one context of all processes has the lock.
OneStarter ==
    \A c, d \in Contexts : cpc[c] = "taken" /\ cpc[d] = "taken" => c = d

\* A process that considers itself the owner has the lock on the very file
\* others would open: a removed or replaced lock file is never relied upon.
LockIsReal ==
    \A p \in Procs : state[p] \in {"OWNING", "TAKEN"} /\ ref_mutex[p] = Nobody =>
        holder[lock_fd[p]] = p /\ link = lock_fd[p]

\* Everybody who asks for the lock gets it, waits for it in whatever way, and
\* through crashes of those who have it, unless the lock file cannot be locked
\* at all (then only one of the waiting contexts is told).
EveryoneAnswered ==
    <>[](\A c \in Contexts : \/ cpc[c] \notin {"acquire", "poll", "read"}
                             \/ state[ProcessOf[c]] = "FAILED")

\* One context of all processes starts a daemon, under a lock that is real, and
\* everybody else is told.
AutospawnCorrect == [](LaTypeOK /\ OneStarter /\ LockIsReal) /\ EveryoneAnswered
=============================================================================
