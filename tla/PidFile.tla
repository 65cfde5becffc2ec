------------------------------ MODULE PidFile ------------------------------
(***************************************************************************)
(* pulsecore/pid.c as daemon/main.c uses it: a daemon writes its process   *)
(* id into a file when it starts and removes the file when it ends, and    *)
(* `pulseaudio --kill' finds the daemon through it.  Everybody opens the   *)
(* file, locks it, and starts over if it was removed in between.           *)
(*                                                                         *)
(* A daemon may crash at any point, which leaves the file behind, and its  *)
(* process id may be given to another program, or to a new daemon.         *)
(***************************************************************************)
EXTENDS Naturals, FiniteSets

CONSTANTS Pids,         \* process ids
          Killer,       \* a process that calls pa_pid_file_kill
          Nobody, NoFile,
          Files,        \* bound: files that can be created
          MaxCrashes    \* bound: crashes

ASSUME PidAssumption ==
    /\ IsFiniteSet(Pids) /\ Killer \notin Pids /\ Nobody \notin Pids \cup {Killer}
    /\ NoFile \notin Files /\ MaxCrashes \in Nat

VARIABLES link,      \* the file the name refers to
          content,   \* what a file holds: a process id, Nobody if it is empty
          holder,    \* who has it locked
          made,      \* files created so far
          alive,     \* what runs under a process id: "no", "daemon", "other"
          pc,        \* where a daemon, or the killer, is
          use,       \* what it opens the file for
          fd,        \* the file it has open
          crashes,
          reused     \* daemons whose id was left in a file when they started,
                     \* until they write it themselves

pfVars == <<link, content, holder, made, alive, pc, use, fd, crashes, reused>>
fileVars == <<link, content, holder, made>>

PfInit ==
    /\ link = NoFile /\ made = {}
    /\ content = [f \in Files |-> Nobody]
    /\ holder = [f \in Files |-> Nobody]
    /\ alive = [p \in Pids |-> "no"]
    /\ pc = [p \in Pids \cup {Killer} |-> "none"]
    /\ use = [p \in Pids \cup {Killer} |-> "kill"]
    /\ fd = [p \in Pids \cup {Killer} |-> NoFile]
    /\ crashes = 0 /\ reused = {}

Go(p, s) == pc' = [pc EXCEPT ![p] = s]

-----------------------------------------------------------------------------
(* open_pid_file                                                           *)

Begin(p, u) ==
    /\ pc' = [pc EXCEPT ![p] = "open"]
    /\ use' = [use EXCEPT ![p] = u]

\* The lock is given up and the file closed at the end of each of them.
Close(p, next) ==
    /\ holder' = [holder EXCEPT ![fd[p]] = Nobody]
    /\ fd' = [fd EXCEPT ![p] = NoFile]
    /\ Go(p, next)

\* open: only pa_pid_file_create creates the file.
Open(p) ==
    /\ pc[p] = "open"
    /\ \/ /\ link # NoFile
          /\ fd' = [fd EXCEPT ![p] = link] /\ Go(p, "lock")
          /\ UNCHANGED <<link, made>>
       \/ /\ link = NoFile /\ use[p] = "create"
          /\ \E f \in Files \ made :
               /\ link' = f /\ made' = made \cup {f} /\ fd' = [fd EXCEPT ![p] = f]
          /\ Go(p, "lock")
       \/ /\ link = NoFile /\ use[p] # "create"
          /\ Go(p, "failed") /\ UNCHANGED <<link, made, fd>>
    /\ UNCHANGED <<content, holder, alive, crashes, reused, use>>

Lock(p) ==
    /\ pc[p] = "lock" /\ holder[fd[p]] = Nobody
    /\ holder' = [holder EXCEPT ![fd[p]] = p]
    /\ Go(p, "stat")
    /\ UNCHANGED <<link, content, made, alive, fd, crashes, reused, use>>

\* Mutant: the file is not looked at again once it is locked.
Bug_Stat(p) ==
    /\ pc[p] = "stat"
    /\ Go(p, "read")
    /\ UNCHANGED <<fileVars, alive, fd, crashes, reused, use>>

\* Does the file still exist?
Stat(p) ==
    /\ pc[p] = "stat"
    /\ IF link = fd[p]
       THEN Go(p, "read") /\ UNCHANGED <<holder, fd>>
       ELSE Close(p, "open")
    /\ UNCHANGED <<link, content, made, alive, crashes, reused, use>>

-----------------------------------------------------------------------------
(* pa_pid_file_create                                                      *)

\* A daemon is started.
Start(p) ==
    /\ pc[p] = "none" /\ alive[p] = "no"
    /\ alive' = [alive EXCEPT ![p] = "daemon"]
    /\ reused' = IF \E f \in Files : content[f] = p THEN reused \cup {p} ELSE reused \ {p}
    /\ Begin(p, "create")
    /\ UNCHANGED <<fileVars, fd, crashes>>

\* read_pid and kill(pid, 0): an id under which nothing runs is stale.
Read(p) ==
    LET pid == content[fd[p]] IN
    /\ pc[p] = "read" /\ use[p] = "create"
    /\ Go(p, IF pid # Nobody /\ alive[pid] # "no" THEN "name" ELSE "truncate")
    /\ UNCHANGED <<fileVars, alive, fd, crashes, reused, use>>

\* proc_name_ours looks the process up, a moment later: a daemon is left alone,
\* another program makes the id stale.  If the process has ended by now its name
\* cannot be read, and the start fails.
ReadName(p) ==
    LET pid == content[fd[p]] IN
    /\ pc[p] = "name"
    /\ \/ alive[pid] = "daemon" /\ Close(p, "refused") /\ UNCHANGED <<link, content, made>>
       \/ alive[pid] = "no" /\ Close(p, "failed") /\ UNCHANGED <<link, content, made>>
       \/ alive[pid] = "other" /\ Go(p, "truncate") /\ UNCHANGED <<fileVars, fd>>
    /\ UNCHANGED <<alive, crashes, reused, use>>

Truncate(p) ==
    /\ pc[p] = "truncate"
    /\ content' = [content EXCEPT ![fd[p]] = Nobody]
    /\ Go(p, "write")
    /\ UNCHANGED <<link, holder, made, alive, fd, crashes, reused, use>>

WritePid(p) ==
    /\ pc[p] = "write"
    /\ content' = [content EXCEPT ![fd[p]] = p]
    /\ reused' = reused \ {p}
    /\ Go(p, "close")
    /\ UNCHANGED <<link, holder, made, alive, fd, crashes, use>>

Created(p) ==
    /\ pc[p] = "close"
    /\ Close(p, "running")
    /\ UNCHANGED <<link, content, made, alive, crashes, reused, use>>

-----------------------------------------------------------------------------
(* pa_pid_file_remove, at the end of main, and the end of the process.     *)

Stop(p) ==
    /\ pc[p] = "running"
    /\ Begin(p, "remove")
    /\ UNCHANGED <<fileVars, alive, fd, crashes, reused>>

ReadOwn(p) ==
    /\ pc[p] = "read" /\ use[p] = "remove"
    /\ IF content[fd[p]] = p
       THEN Go(p, "truncateOwn") /\ UNCHANGED <<fileVars, fd>>
       ELSE Close(p, "failed") /\ UNCHANGED <<link, content, made>>
    /\ UNCHANGED <<alive, crashes, reused, use>>

TruncateOwn(p) ==
    /\ pc[p] = "truncateOwn"
    /\ content' = [content EXCEPT ![fd[p]] = Nobody]
    /\ Go(p, "unlink")
    /\ UNCHANGED <<link, holder, made, alive, fd, crashes, reused, use>>

Unlink(p) ==
    /\ pc[p] = "unlink"
    /\ link' = NoFile
    /\ Go(p, "unlock")
    /\ UNCHANGED <<content, holder, made, alive, fd, crashes, reused, use>>

Removed(p) ==
    /\ pc[p] = "unlock"
    /\ Close(p, "failed")
    /\ UNCHANGED <<link, content, made, alive, crashes, reused, use>>

\* The process ends, after pa_pid_file_remove or because it was refused.
Exit(p) ==
    /\ pc[p] \in {"failed", "refused"} /\ p # Killer
    /\ alive' = [alive EXCEPT ![p] = "no"]
    /\ Go(p, "none")
    /\ UNCHANGED <<fileVars, fd, crashes, reused, use>>

\* It crashes: its locks are gone, the file is not.
Crash(p) ==
    /\ alive[p] = "daemon" /\ crashes < MaxCrashes
    /\ crashes' = crashes + 1
    /\ holder' = [f \in Files |-> IF holder[f] = p THEN Nobody ELSE holder[f]]
    /\ alive' = [alive EXCEPT ![p] = "no"]
    /\ fd' = [fd EXCEPT ![p] = NoFile]
    /\ Go(p, "none")
    /\ UNCHANGED <<link, content, made, reused, use>>

\* Another program gets the id, and ends.
Other(p) ==
    /\ pc[p] = "none"
    /\ alive' = [alive EXCEPT ![p] = IF @ = "no" THEN "other" ELSE "no"]
    /\ UNCHANGED <<fileVars, pc, fd, crashes, reused, use>>

-----------------------------------------------------------------------------
(* pa_pid_file_kill                                                        *)

StartKill ==
    /\ pc[Killer] = "none"
    /\ Begin(Killer, "kill")
    /\ UNCHANGED <<fileVars, alive, fd, crashes, reused>>

\* A process that is not a daemon is not killed.
ReadKill ==
    LET pid == content[fd[Killer]] IN
    /\ pc[Killer] = "read" /\ use[Killer] = "kill"
    /\ IF pid = Nobody \/ (pid # Nobody /\ alive[pid] # "daemon")
       THEN Close(Killer, "failed") /\ UNCHANGED <<link, content, made>>
       ELSE Go(Killer, "signal") /\ UNCHANGED <<fileVars, fd>>
    /\ UNCHANGED <<alive, crashes, reused, use>>

\* A daemon that is hit stops in order.
Signal ==
    LET pid == content[fd[Killer]] IN
    /\ pc[Killer] = "signal"
    /\ holder' = [holder EXCEPT ![fd[Killer]] = Nobody]
    /\ fd' = [fd EXCEPT ![Killer] = NoFile]
    /\ pc' = [pc EXCEPT ![Killer] = "failed",
                        ![pid] = IF @ = "running" THEN "open" ELSE @]
    /\ use' = [use EXCEPT ![pid] = IF pc[pid] = "running" THEN "remove" ELSE @]
    /\ UNCHANGED <<link, content, made, alive, crashes, reused>>

EndKill ==
    /\ pc[Killer] = "failed"
    /\ Go(Killer, "none")
    /\ UNCHANGED <<fileVars, alive, fd, crashes, reused, use>>

PfNext ==
    \/ \E p \in Pids \cup {Killer} : Open(p) \/ Lock(p) \/ Stat(p)
    \/ \E p \in Pids :
         \/ Start(p) \/ Read(p) \/ ReadName(p)
         \/ Truncate(p) \/ WritePid(p) \/ Created(p)
         \/ Stop(p) \/ ReadOwn(p) \/ TruncateOwn(p) \/ Unlink(p) \/ Removed(p)
         \/ Exit(p) \/ Crash(p) \/ Other(p)
    \/ StartKill \/ ReadKill \/ Signal \/ EndKill

PfSpec == PfInit /\ [][PfNext]_pfVars

-----------------------------------------------------------------------------
(* Properties.                                                             *)

\* Everything has its type; a file is open where one is used.
PfTypeOK ==
    /\ link \in made \cup {NoFile} /\ made \subseteq Files
    /\ content \in [Files -> Pids \cup {Nobody}]
    /\ holder \in [Files -> Pids \cup {Killer, Nobody}]
    /\ alive \in [Pids -> {"no", "daemon", "other"}]
    /\ \A p \in Pids \cup {Killer} :
         fd[p] # NoFile <=> pc[p] \in {"lock", "stat", "read", "name", "truncate", "write",
                               "close", "truncateOwn", "unlink", "unlock", "signal"}

\* There is one daemon at a time, whatever crashed or was removed before.
OneDaemon == \A p, q \in Pids : pc[p] = "running" /\ pc[q] = "running" => p = q

\* Whoever looks finds the daemon: as long as one runs the file is there and
\* names it, and nobody removes the file of another.
FileNamesDaemon ==
    \A p \in Pids : pc[p] = "running" => link # NoFile /\ content[link] = p

\* A daemon that has written the file and has not begun to remove it.
Serving(q) ==
    \/ pc[q] = "running"
    \/ use[q] = "remove" /\ pc[q] \in {"open", "lock", "stat"}

\* A start is turned away, by "Daemon already running" or because the process
\* the file names cannot be looked up, for one of three reasons only: the daemon
\* that wrote the file is still there, and it is another one; or it has ended
\* since kill(pid, 0) found it, in which case pa_pid_file_create fails although
\* nobody runs; or the id in the file is that of a daemon which was given the id
\* of a crashed one and has not written it itself: perhaps its own.
TurnedAwayForCause ==
    [][ \A p \in Pids :
          LET q == content[link] IN
          /\ use[p] = "create" /\ pc[p] \notin {"refused", "failed"}
          /\ pc'[p] \in {"refused", "failed"}
          => \/ q \in reused
             \/ q \in Pids \ {p} /\ alive[q] = "daemon" /\ Serving(q)
             \/ q \in Pids \ {p} /\ pc'[p] = "failed" /\ alive[q] = "no" ]_pfVars

\* The PID file does its duty: one daemon, which the file names, and no start is
\* turned away but for a reason above.
PidFileCorrect == [](PfTypeOK /\ OneDaemon /\ FileNamesDaemon) /\ TurnedAwayForCause
=============================================================================
