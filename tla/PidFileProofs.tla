--------------------------- MODULE PidFileProofs ---------------------------
(***************************************************************************)
(* The PID file does its duty: the proof of PidFileCorrect for any number  *)
(* of process ids, of files and of crashes.                                *)
(*                                                                         *)
(* Whoever has passed the second look at the file (Stat) holds the lock of *)
(* the file the name refers to, so there is only one such process, and the *)
(* name does not change under it.  What it has read stays true until it    *)
(* writes; hence nobody runs while a new daemon writes its id, and nobody  *)
(* but its owner removes a file that names a daemon.  A daemon whose id is *)
(* in the file has written it there itself, unless the id was left over.   *)
(***************************************************************************)
EXTENDS PidFile, TLAPS

Processes == Pids \cup {Killer}

\* Where a process has the lock, and where it knows that the name still
\* refers to the file it has locked.
LockedAt == {"stat", "read", "name", "truncate", "write", "close", "truncateOwn",
             "unlink", "unlock", "signal"}
LookedAt == {"read", "name", "truncate", "write", "close", "truncateOwn", "unlink",
             "signal"}

Types ==
    /\ link \in made \cup {NoFile} /\ made \subseteq Files
    /\ content \in [Files -> Pids \cup {Nobody}]
    /\ holder \in [Files -> Processes \cup {Nobody}]
    /\ alive \in [Pids -> {"no", "daemon", "other"}]
    /\ pc \in [Processes -> LockedAt \cup {"none", "open", "lock", "running",
                                           "failed", "refused"}]
    /\ use \in [Processes -> {"create", "remove", "kill"}]
    /\ fd \in [Processes -> Files \cup {NoFile}]
    /\ \A p \in Processes : fd[p] # NoFile <=> pc[p] \in LockedAt \cup {"lock"}

\* A daemon that has begun is a daemon to the others.
Alive == \A p \in Pids : pc[p] # "none" => alive[p] = "daemon"

LockHeld == \A p \in Processes : pc[p] \in LockedAt => holder[fd[p]] = p

NameKept == \A p \in Processes : pc[p] \in LookedAt => fd[p] = link

\* What the file says while somebody works on it.
ContentKnown ==
    /\ \A p \in Pids : /\ pc[p] \in {"close", "truncateOwn"} => content[fd[p]] = p
                       /\ pc[p] = "unlink" => content[fd[p]] = Nobody
                       /\ pc[p] = "name" => content[fd[p]] \in Pids
    /\ pc[Killer] = "signal" => content[fd[Killer]] \in Pids

\* Nobody runs while another daemon is about to write its id.
NobodyRuns ==
    \A p, q \in Pids : pc[p] \in {"truncate", "write", "close"} => pc[q] # "running"

PfInv ==
    /\ Types /\ Alive /\ LockHeld /\ NameKept /\ ContentKnown /\ NobodyRuns
    /\ FileNamesDaemon

\* A daemon that has not written its id yet, and one that has and is named by
\* the file until it removes it.
Unwritten(p) ==
    \/ use[p] = "create" /\ pc[p] \in {"open", "lock", "stat", "read"}
    \/ pc[p] \in {"name", "truncate", "write"}
Written(p) ==
    \/ pc[p] \in {"close", "running", "truncateOwn"}
    \/ use[p] = "remove" /\ pc[p] \in {"open", "lock", "stat", "read"}

\* Only the file the name refers to holds an id.
OthersEmpty == \A f \in Files : f # link => content[f] = Nobody

UseKnown == \A p \in Pids : pc[p] \in {"truncateOwn", "unlink", "unlock"} => use[p] = "remove"

\* The id of a daemon is in a file because that daemon has written it, unless
\* it was there when the daemon started.
NotNamed == \A p \in Pids, f \in Files : Unwritten(p) /\ p \notin reused => content[f] # p
NamedWrote ==
    \A p \in Pids, f \in Files :
       content[f] = p /\ alive[p] = "daemon" /\ p \notin reused => Written(p)

CauseInv == OthersEmpty /\ UseKnown /\ NotNamed /\ NamedWrote

-----------------------------------------------------------------------------

LEMMA ConstantFacts ==
    /\ Killer \notin Pids /\ Nobody \notin Processes /\ NoFile \notin Files
    /\ Pids \subseteq Processes /\ Killer \in Processes
  BY PidAssumption DEF Processes

\* A process that has looked at the locked file has no competitor.
LEMMA OnlyOne ==
    ASSUME PfInv, NEW p \in Processes, NEW q \in Processes,
           pc[p] \in LockedAt, pc[q] \in LockedAt,
           fd[p] = fd[q] \/ (pc[p] \in LookedAt /\ pc[q] \in LookedAt)
    PROVE  p = q
  BY DEF PfInv, LockHeld, NameKept

\* A daemon that runs is the one the file names, so it is the only one, and
\* nobody is between reading a file that does not name a daemon and the end.
LEMMA RunnerFacts ==
    ASSUME PfInv, NEW q \in Pids, pc[q] = "running"
    PROVE  /\ link # NoFile /\ content[link] = q /\ alive[q] = "daemon"
           /\ \A p \in Pids : pc[p] \notin {"truncate", "write", "close",
                                            "truncateOwn", "unlink"}
  <1>1. link # NoFile /\ content[link] = q /\ alive[q] = "daemon"
    BY DEF PfInv, FileNamesDaemon, Alive
  <1>2. ASSUME NEW p \in Pids
        PROVE  pc[p] \notin {"truncate", "write", "close", "truncateOwn", "unlink"}
    <2>1. pc[p] \notin {"truncate", "write", "close"}
      BY DEF PfInv, NobodyRuns
    <2>2. pc[p] \in {"truncateOwn", "unlink"} => fd[p] = link
      BY ConstantFacts DEF PfInv, NameKept, LookedAt
    <2>3. pc[p] # "truncateOwn"
      <3>1. pc[p] = "truncateOwn" => p = q
        BY <1>1, <2>2 DEF PfInv, ContentKnown
      <3> QED
        BY <3>1
    <2>4. pc[p] # "unlink"
      BY <1>1, <2>2, ConstantFacts DEF PfInv, ContentKnown
    <2> QED
      BY <2>1, <2>3, <2>4
  <1> QED
    BY <1>1, <1>2

\* A step that only takes a process further, without touching a file.
LEMMA MoveInv ==
    ASSUME PfInv, NEW p \in Processes, NEW s,
           s \in {"none", "open", "read", "name", "truncate", "truncateOwn", "signal", "failed"},
           pc' = [pc EXCEPT ![p] = s],
           UNCHANGED <<link, content, holder, made, fd>>,
           use' \in [Processes -> {"create", "remove", "kill"}],
           alive' \in [Pids -> {"no", "daemon", "other"}],
           \A q \in Pids : q # p => alive'[q] = alive[q],
           p \in Pids /\ s # "none" => alive'[p] = "daemon",
           pc[p] \in LockedAt \cup {"lock"} <=> s \in LockedAt,
           s \in LockedAt => pc[p] \in LockedAt /\ fd[p] = link,
           p \in Pids /\ s = "truncate" => \A q \in Pids : pc[q] # "running",
           p \in Pids /\ s = "truncateOwn" => content[fd[p]] = p,
           p \in Pids /\ s = "name" => content[fd[p]] \in Pids,
           p = Killer /\ s = "signal" => content[fd[p]] \in Pids
    PROVE  PfInv'
  <1>1. Types /\ Alive /\ LockHeld /\ NameKept /\ ContentKnown /\ NobodyRuns
        /\ FileNamesDaemon
    BY DEF PfInv
  <1>2. pc'[p] = s /\ \A q \in Processes : q # p => pc'[q] = pc[q]
    BY <1>1 DEF Types
  <1>3. Types'
    <2>1. s \in LockedAt \cup {"none", "open", "lock", "running", "failed", "refused"}
          /\ s # "lock"
      BY DEF LockedAt
    <2>2. pc' \in [Processes -> LockedAt \cup {"none", "open", "lock", "running",
                                               "failed", "refused"}]
      BY <1>1, <2>1 DEF Types
    <2>3. \A q \in Processes : fd[q] # NoFile <=> pc'[q] \in LockedAt \cup {"lock"}
      BY <1>1, <1>2, <2>1 DEF Types
    <2> QED
      BY <1>1, <2>2, <2>3 DEF Types
  <1>4. Alive'
    BY <1>1, <1>2, ConstantFacts DEF Alive
  <1>5. LockHeld'
    BY <1>1, <1>2 DEF LockHeld
  <1>6. NameKept'
    <2>1. s \in LookedAt => s \in LockedAt
      BY DEF LookedAt, LockedAt
    <2> QED
      BY <1>1, <1>2, <2>1 DEF NameKept
  <1>7. ContentKnown'
    BY <1>1, <1>2, ConstantFacts DEF ContentKnown
  <1>8. NobodyRuns'
    BY <1>1, <1>2, ConstantFacts DEF NobodyRuns
  <1>9. FileNamesDaemon'
    BY <1>1, <1>2, ConstantFacts DEF FileNamesDaemon
  <1> QED
    BY <1>3, <1>4, <1>5, <1>6, <1>7, <1>8, <1>9 DEF PfInv

\* The lock is given up and the file closed.
LEMMA CloseInv ==
    ASSUME PfInv, NEW p \in Processes, NEW s \in {"open", "refused", "running", "failed"},
           pc[p] \in LockedAt, Close(p, s),
           UNCHANGED <<link, content, made, alive, use>>,
           s = "running" /\ p \in Pids => pc[p] = "close"
    PROVE  PfInv'
  <1>1. Types /\ Alive /\ LockHeld /\ NameKept /\ ContentKnown /\ NobodyRuns
        /\ FileNamesDaemon
    BY DEF PfInv
  <1>2. PICK f \in Files : fd[p] = f
    BY <1>1 DEF Types
  <1>3. /\ holder' = [holder EXCEPT ![f] = Nobody]
        /\ fd' = [fd EXCEPT ![p] = NoFile]
        /\ pc' = [pc EXCEPT ![p] = s]
    BY <1>2 DEF Close, Go
  <1>4. /\ pc'[p] = s /\ fd'[p] = NoFile
        /\ \A q \in Processes : q # p => pc'[q] = pc[q] /\ fd'[q] = fd[q]
        /\ \A g \in Files : g # f => holder'[g] = holder[g]
    BY <1>1, <1>3 DEF Types
  <1>5. \A q \in Processes : q # p /\ pc[q] \in LockedAt => fd[q] # f
    BY <1>2, OnlyOne
  <1>6. s \notin LockedAt /\ s # "lock" /\ s \notin LookedAt
    BY DEF LockedAt, LookedAt
  <1>7. Types'
    <2>1. pc' \in [Processes -> LockedAt \cup {"none", "open", "lock", "running",
                                               "failed", "refused"}]
      BY <1>1, <1>3 DEF Types
    <2>2. \A q \in Processes : fd'[q] # NoFile <=> pc'[q] \in LockedAt \cup {"lock"}
      BY <1>1, <1>4, <1>6 DEF Types
    <2> QED
      BY <1>1, <1>3, <2>1, <2>2 DEF Types
  <1>8. Alive'
    BY <1>1, <1>4, ConstantFacts DEF Alive, LockedAt
  <1>9. LockHeld'
    <2> SUFFICES ASSUME NEW q \in Processes, pc'[q] \in LockedAt
                 PROVE  holder'[fd'[q]] = q
      BY DEF LockHeld
    <2>1. q # p /\ pc[q] \in LockedAt /\ fd'[q] = fd[q]
      BY <1>4, <1>6
    <2>2. fd[q] \in Files /\ fd[q] # f
      BY <1>1, <1>5, <2>1 DEF Types
    <2> QED
      BY <1>1, <1>4, <2>1, <2>2 DEF LockHeld
  <1>10. NameKept'
    BY <1>1, <1>4, <1>6 DEF NameKept
  <1>11. ContentKnown'
    BY <1>1, <1>4, ConstantFacts DEF ContentKnown
  <1>12. NobodyRuns'
    <2> SUFFICES ASSUME NEW r \in Pids, NEW q \in Pids,
                        pc'[r] \in {"truncate", "write", "close"}, pc'[q] = "running"
                 PROVE  FALSE
      BY DEF NobodyRuns
    <2>1. r # p /\ pc[r] \in {"truncate", "write", "close"}
      BY <1>4, ConstantFacts
    <2>2. CASE q # p
      BY <1>1, <1>4, <2>1, <2>2, ConstantFacts DEF NobodyRuns
    <2>3. CASE q = p
      <3>1. pc[p] = "close"
        BY <1>4, <2>3
      <3>2. pc[p] \in LookedAt /\ pc[r] \in LookedAt /\ pc[r] \in LockedAt
        BY <2>1, <3>1 DEF LookedAt, LockedAt
      <3> QED
        BY <2>1, <3>2, OnlyOne, ConstantFacts
    <2> QED
      BY <2>2, <2>3
  <1>13. FileNamesDaemon'
    <2> SUFFICES ASSUME NEW q \in Pids, pc'[q] = "running"
                 PROVE  link # NoFile /\ content[link] = q
      BY DEF FileNamesDaemon
    <2>1. CASE q # p
      BY <1>1, <1>4, <2>1, ConstantFacts DEF FileNamesDaemon
    <2>2. CASE q = p
      <3>1. pc[p] = "close" /\ pc[p] \in LookedAt
        BY <1>4, <2>2 DEF LookedAt
      <3> QED
        BY <1>1, <1>2, <2>2, <3>1, ConstantFacts DEF NameKept, ContentKnown
    <2> QED
      BY <2>1, <2>2
  <1> QED
    BY <1>7, <1>8, <1>9, <1>10, <1>11, <1>12, <1>13 DEF PfInv

\* The locked file is written.
LEMMA WriteInv ==
    ASSUME PfInv, NEW p \in Pids, NEW s, NEW v,
           pc' = [pc EXCEPT ![p] = s],
           content' = [content EXCEPT ![fd[p]] = v],
           UNCHANGED <<link, holder, made, alive, fd, use>>,
           \/ pc[p] = "truncate" /\ s = "write" /\ v = Nobody
           \/ pc[p] = "write" /\ s = "close" /\ v = p
           \/ pc[p] = "truncateOwn" /\ s = "unlink" /\ v = Nobody
    PROVE  PfInv'
  <1>1. Types /\ Alive /\ LockHeld /\ NameKept /\ ContentKnown /\ NobodyRuns
        /\ FileNamesDaemon
    BY DEF PfInv
  <1>2. /\ pc[p] \in LookedAt /\ pc[p] \in LockedAt /\ s \in LookedAt /\ s \in LockedAt
        /\ p \in Processes
    BY ConstantFacts DEF LookedAt, LockedAt
  <1>3. fd[p] \in Files /\ fd[p] = link /\ holder[fd[p]] = p
    BY <1>1, <1>2 DEF Types, NameKept, LockHeld
  <1>4. /\ pc'[p] = s /\ \A q \in Processes : q # p => pc'[q] = pc[q]
        /\ content'[fd[p]] = v /\ \A f \in Files : f # fd[p] => content'[f] = content[f]
    BY <1>1, <1>2, <1>3 DEF Types
  <1>5. \A q \in Processes : q # p /\ pc[q] \in LockedAt => fd[q] # fd[p] /\ fd[q] \in Files
    BY <1>1, <1>2, OnlyOne DEF Types
  <1>6. \A q \in Pids : pc[q] # "running"
    BY RunnerFacts
  <1>7. \A q \in Pids : pc'[q] # "running"
    BY <1>4, <1>6, ConstantFacts
  <1>8. Types'
    <2>1. pc' \in [Processes -> LockedAt \cup {"none", "open", "lock", "running",
                                               "failed", "refused"}]
      BY <1>1, <1>2 DEF Types
    <2>2. content' \in [Files -> Pids \cup {Nobody}]
      BY <1>1, <1>3 DEF Types
    <2>3. \A q \in Processes : fd[q] # NoFile <=> pc'[q] \in LockedAt \cup {"lock"}
      BY <1>1, <1>2, <1>4 DEF Types
    <2> QED
      BY <1>1, <2>1, <2>2, <2>3 DEF Types
  <1>9. Alive'
    BY <1>1, <1>4, ConstantFacts DEF Alive
  <1>10. LockHeld' /\ NameKept'
    BY <1>1, <1>2, <1>4 DEF LockHeld, NameKept
  <1>11. ContentKnown'
    <2>1. \A q \in Processes : q # p /\ pc[q] \in LockedAt => content'[fd[q]] = content[fd[q]]
      BY <1>4, <1>5
    <2>2. ASSUME NEW q \in Pids
          PROVE  /\ pc'[q] \in {"close", "truncateOwn"} => content'[fd[q]] = q
                 /\ pc'[q] = "unlink" => content'[fd[q]] = Nobody
                 /\ pc'[q] = "name" => content'[fd[q]] \in Pids
      <3>1. CASE q = p
        BY <1>4, <3>1
      <3>2. CASE q # p
        BY <1>1, <1>4, <2>1, <3>2, ConstantFacts DEF ContentKnown, LockedAt
      <3> QED
        BY <3>1, <3>2
    <2>3. pc'[Killer] = "signal" => content'[fd[Killer]] \in Pids
      BY <1>1, <1>4, <2>1, ConstantFacts DEF ContentKnown, LockedAt
    <2> QED
      BY <2>2, <2>3 DEF ContentKnown
  <1>12. NobodyRuns' /\ FileNamesDaemon'
    BY <1>7 DEF NobodyRuns, FileNamesDaemon
  <1> QED
    BY <1>8, <1>9, <1>10, <1>11, <1>12 DEF PfInv

LEMMA OpenInv ==
    ASSUME PfInv, NEW p \in Processes, Open(p)
    PROVE  PfInv'
  <1>1. Types /\ Alive /\ LockHeld /\ NameKept /\ ContentKnown /\ NobodyRuns
        /\ FileNamesDaemon
    BY DEF PfInv
  <1>2. pc[p] = "open" /\ UNCHANGED <<content, holder, alive, use>>
    BY DEF Open
  <1>3. CASE UNCHANGED <<link, made, fd>> /\ Go(p, "failed")
    <2>1. pc' = [pc EXCEPT ![p] = "failed"] /\ UNCHANGED <<link, content, holder, made, fd>>
      BY <1>2, <1>3 DEF Go
    <2>2. p \in Pids => alive[p] = "daemon"
      BY <1>1, <1>2 DEF Alive
    <2>3. pc[p] \notin LockedAt \cup {"lock"} /\ "failed" \notin LockedAt
      BY <1>2 DEF LockedAt
    <2>4. /\ use' \in [Processes -> {"create", "remove", "kill"}]
          /\ alive' \in [Pids -> {"no", "daemon", "other"}]
      BY <1>1, <1>2 DEF Types
    <2> QED
      BY <1>2, <2>1, <2>2, <2>3, <2>4, MoveInv
  <1>4. ASSUME NEW f \in Files, fd' = [fd EXCEPT ![p] = f], Go(p, "lock"),
               link' = f, made' = made \cup {f}, link \in {f, NoFile}
        PROVE  PfInv'
    <2>1. pc' = [pc EXCEPT ![p] = "lock"]
      BY <1>4 DEF Go
    <2>2. /\ pc'[p] = "lock" /\ fd'[p] = f
          /\ \A q \in Processes : q # p => pc'[q] = pc[q] /\ fd'[q] = fd[q]
      BY <1>1, <1>4, <2>1 DEF Types
    <2>3. \A q \in Processes : pc[q] \in LookedAt => link = f
      BY <1>1, <1>4 DEF Types, NameKept, LookedAt, LockedAt
    <2>4. Types'
      <3>1. pc' \in [Processes -> LockedAt \cup {"none", "open", "lock", "running",
                                                 "failed", "refused"}]
        BY <1>1, <2>1 DEF Types
      <3>2. \A q \in Processes : fd'[q] # NoFile <=> pc'[q] \in LockedAt \cup {"lock"}
        BY <1>1, <2>2, ConstantFacts DEF Types
      <3> QED
        BY <1>1, <1>2, <1>4, <3>1, <3>2 DEF Types
    <2>5. Alive'
      BY <1>1, <1>2, <2>2, ConstantFacts DEF Alive
    <2>6. LockHeld'
      BY <1>1, <1>2, <2>2 DEF LockHeld, LockedAt
    <2>7. NameKept'
      BY <1>1, <1>4, <2>2, <2>3 DEF NameKept, LookedAt
    <2>8. ContentKnown'
      BY <1>1, <1>2, <2>2, ConstantFacts DEF ContentKnown
    <2>9. NobodyRuns'
      BY <1>1, <2>2, ConstantFacts DEF NobodyRuns
    <2>10. FileNamesDaemon'
      BY <1>1, <1>2, <1>4, <2>2, ConstantFacts DEF FileNamesDaemon
    <2> QED
      BY <2>4, <2>5, <2>6, <2>7, <2>8, <2>9, <2>10 DEF PfInv
  <1>5. CASE link # NoFile /\ fd' = [fd EXCEPT ![p] = link] /\ Go(p, "lock")
             /\ UNCHANGED <<link, made>>
    <2>1. PICK f \in Files : f = link /\ f \in made
      BY <1>1, <1>5 DEF Types
    <2>2. made' = made \cup {f} /\ link' = f /\ fd' = [fd EXCEPT ![p] = f]
      BY <1>5, <2>1
    <2> QED
      BY <1>4, <1>5, <2>1, <2>2
  <1>6. CASE /\ link = NoFile
             /\ \E f \in Files \ made :
                  link' = f /\ made' = made \cup {f} /\ fd' = [fd EXCEPT ![p] = f]
             /\ Go(p, "lock")
    BY <1>4, <1>6
  <1> QED
    BY <1>3, <1>5, <1>6 DEF Open

LEMMA LockInv ==
    ASSUME PfInv, NEW p \in Processes, Lock(p)
    PROVE  PfInv'
  <1>1. Types /\ Alive /\ LockHeld /\ NameKept /\ ContentKnown /\ NobodyRuns
        /\ FileNamesDaemon
    BY DEF PfInv
  <1>2. /\ pc[p] = "lock" /\ holder[fd[p]] = Nobody
        /\ holder' = [holder EXCEPT ![fd[p]] = p]
        /\ pc' = [pc EXCEPT ![p] = "stat"]
        /\ UNCHANGED <<link, content, made, alive, fd, use>>
    BY DEF Lock, Go
  <1>3. fd[p] \in Files
    BY <1>1, <1>2 DEF Types
  <1>4. /\ pc'[p] = "stat" /\ \A q \in Processes : q # p => pc'[q] = pc[q]
        /\ holder'[fd[p]] = p /\ \A f \in Files : f # fd[p] => holder'[f] = holder[f]
    BY <1>1, <1>2, <1>3 DEF Types
  <1>5. Types'
    <2>1. /\ pc' \in [Processes -> LockedAt \cup {"none", "open", "lock", "running",
                                                  "failed", "refused"}]
          /\ holder' \in [Files -> Processes \cup {Nobody}]
      BY <1>1, <1>2 DEF Types, LockedAt
    <2>2. \A q \in Processes : fd[q] # NoFile <=> pc'[q] \in LockedAt \cup {"lock"}
      BY <1>1, <1>2, <1>4 DEF Types, LockedAt
    <2> QED
      BY <1>1, <1>2, <2>1, <2>2 DEF Types
  <1>6. Alive'
    BY <1>1, <1>2, <1>4, ConstantFacts DEF Alive
  <1>7. LockHeld'
    <2> SUFFICES ASSUME NEW q \in Processes, pc'[q] \in LockedAt
                 PROVE  holder'[fd[q]] = q
      BY <1>2 DEF LockHeld
    <2>1. CASE q = p
      BY <1>4, <2>1
    <2>2. CASE q # p
      <3>1. pc[q] \in LockedAt /\ holder[fd[q]] = q
        BY <1>1, <1>4, <2>2 DEF LockHeld
      <3>2. fd[q] \in Files /\ fd[q] # fd[p]
        BY <1>1, <1>2, <3>1, ConstantFacts DEF Types
      <3> QED
        BY <1>4, <3>1, <3>2
    <2> QED
      BY <2>1, <2>2
  <1>8. NameKept'
    BY <1>1, <1>2, <1>4 DEF NameKept, LookedAt
  <1>9. ContentKnown' /\ NobodyRuns' /\ FileNamesDaemon'
    BY <1>1, <1>2, <1>4, ConstantFacts DEF ContentKnown, NobodyRuns, FileNamesDaemon
  <1> QED
    BY <1>5, <1>6, <1>7, <1>8, <1>9 DEF PfInv

LEMMA UnlinkInv ==
    ASSUME PfInv, NEW p \in Pids, Unlink(p)
    PROVE  PfInv'
  <1>1. Types /\ Alive /\ LockHeld /\ NameKept /\ ContentKnown /\ NobodyRuns
        /\ FileNamesDaemon
    BY DEF PfInv
  <1>2. /\ pc[p] = "unlink" /\ link' = NoFile
        /\ pc' = [pc EXCEPT ![p] = "unlock"]
        /\ UNCHANGED <<content, holder, made, alive, fd, use>>
    BY DEF Unlink, Go
  <1>3. pc'[p] = "unlock" /\ \A q \in Processes : q # p => pc'[q] = pc[q]
    BY <1>1, <1>2, ConstantFacts DEF Types
  <1>4. \A q \in Pids : pc[q] # "running"
    BY <1>2, RunnerFacts
  <1>5. \A q \in Processes : q # p => pc[q] \notin LookedAt
    <2> SUFFICES ASSUME NEW q \in Processes, pc[q] \in LookedAt PROVE q = p
      OBVIOUS
    <2>1. pc[q] \in LockedAt /\ pc[p] \in LockedAt /\ pc[p] \in LookedAt
      BY <1>2 DEF LockedAt, LookedAt
    <2> QED
      BY <2>1, OnlyOne, ConstantFacts
  <1>6. Types'
    <2>1. pc' \in [Processes -> LockedAt \cup {"none", "open", "lock", "running",
                                               "failed", "refused"}]
      BY <1>1, <1>2 DEF Types, LockedAt
    <2>2. \A q \in Processes : fd[q] # NoFile <=> pc'[q] \in LockedAt \cup {"lock"}
      BY <1>1, <1>2, <1>3 DEF Types, LockedAt
    <2> QED
      BY <1>1, <1>2, <2>1, <2>2 DEF Types
  <1>7. Alive'
    BY <1>1, <1>2, <1>3, ConstantFacts DEF Alive
  <1>8. LockHeld'
    BY <1>1, <1>2, <1>3 DEF LockHeld, LockedAt
  <1>9. NameKept'
    BY <1>3, <1>5 DEF NameKept, LookedAt
  <1>10. ContentKnown'
    BY <1>1, <1>2, <1>3, ConstantFacts DEF ContentKnown
  <1>11. NobodyRuns' /\ FileNamesDaemon'
    BY <1>3, <1>4, ConstantFacts DEF NobodyRuns, FileNamesDaemon
  <1> QED
    BY <1>6, <1>7, <1>8, <1>9, <1>10, <1>11 DEF PfInv

\* A crash gives up the locks of the process, and only those.
LEMMA CrashInv ==
    ASSUME PfInv, NEW p \in Pids, Crash(p)
    PROVE  PfInv'
  <1>1. Types /\ Alive /\ LockHeld /\ NameKept /\ ContentKnown /\ NobodyRuns
        /\ FileNamesDaemon
    BY DEF PfInv
  <1>2. /\ holder' = [f \in Files |-> IF holder[f] = p THEN Nobody ELSE holder[f]]
        /\ alive' = [alive EXCEPT ![p] = "no"]
        /\ fd' = [fd EXCEPT ![p] = NoFile]
        /\ pc' = [pc EXCEPT ![p] = "none"]
        /\ UNCHANGED <<link, content, made, use>>
    BY DEF Crash, Go
  <1>3. /\ pc'[p] = "none" /\ fd'[p] = NoFile
        /\ \A q \in Processes : q # p => pc'[q] = pc[q] /\ fd'[q] = fd[q]
        /\ \A q \in Pids : q # p => alive'[q] = alive[q]
        /\ \A f \in Files : holder[f] # p => holder'[f] = holder[f]
    BY <1>1, <1>2, ConstantFacts DEF Types
  <1>4. Types'
    <2>1. /\ pc' \in [Processes -> LockedAt \cup {"none", "open", "lock", "running",
                                                  "failed", "refused"}]
          /\ holder' \in [Files -> Processes \cup {Nobody}]
      BY <1>1, <1>2 DEF Types, LockedAt
    <2>2. \A q \in Processes : fd'[q] # NoFile <=> pc'[q] \in LockedAt \cup {"lock"}
      BY <1>1, <1>3 DEF Types, LockedAt
    <2> QED
      BY <1>1, <1>2, <2>1, <2>2 DEF Types
  <1>5. Alive'
    BY <1>1, <1>3, ConstantFacts DEF Alive
  <1>6. LockHeld'
    <2> SUFFICES ASSUME NEW q \in Processes, pc'[q] \in LockedAt
                 PROVE  holder'[fd'[q]] = q
      BY DEF LockHeld
    <2>1. q # p
      BY <1>3 DEF LockedAt
    <2>2. pc[q] \in LockedAt /\ fd'[q] = fd[q] /\ fd[q] \in Files /\ holder[fd[q]] = q
      BY <1>1, <1>3, <2>1 DEF LockHeld, Types
    <2> QED
      BY <1>3, <2>1, <2>2
  <1>7. NameKept'
    BY <1>1, <1>2, <1>3 DEF NameKept, LookedAt
  <1>8. ContentKnown'
    BY <1>1, <1>2, <1>3, ConstantFacts DEF ContentKnown
  <1>9. NobodyRuns' /\ FileNamesDaemon'
    BY <1>1, <1>2, <1>3, ConstantFacts DEF NobodyRuns, FileNamesDaemon
  <1> QED
    BY <1>4, <1>5, <1>6, <1>7, <1>8, <1>9 DEF PfInv

\* pa_pid_file_kill hits a daemon: it unlocks the file, and the daemon stops.
LEMMA SignalInv ==
    ASSUME PfInv, Signal
    PROVE  PfInv'
  <1>1. Types /\ Alive /\ LockHeld /\ NameKept /\ ContentKnown /\ NobodyRuns
        /\ FileNamesDaemon
    BY DEF PfInv
  <1>2. pc[Killer] = "signal" /\ pc[Killer] \in LockedAt /\ Killer \in Processes
    BY ConstantFacts DEF Signal, LockedAt
  <1>3. PICK d \in Pids : d = content[fd[Killer]]
    BY <1>1, <1>2 DEF ContentKnown
  <1>4. PICK f \in Files : f = fd[Killer]
    BY <1>1, <1>2 DEF Types
  <1>5. /\ holder' = [holder EXCEPT ![f] = Nobody]
        /\ fd' = [fd EXCEPT ![Killer] = NoFile]
        /\ pc' = [pc EXCEPT ![Killer] = "failed",
                            ![d] = IF @ = "running" THEN "open" ELSE @]
        /\ use' = [use EXCEPT ![d] = IF pc[d] = "running" THEN "remove" ELSE @]
        /\ UNCHANGED <<link, content, made, alive>>
    BY <1>3, <1>4 DEF Signal
  <1>6. d \in Processes /\ d # Killer
    BY ConstantFacts
  <1>7. /\ pc'[Killer] = "failed" /\ fd'[Killer] = NoFile
        /\ \A q \in Pids : /\ pc'[q] = pc[q] \/ (pc[q] = "running" /\ pc'[q] = "open")
                           /\ fd'[q] = fd[q]
        /\ \A g \in Files : g # f => holder'[g] = holder[g]
    BY <1>1, <1>5, <1>6, ConstantFacts DEF Types
  <1>8. \A q \in Pids : pc[q] \in LockedAt => fd[q] # f
    BY <1>2, <1>4, OnlyOne, ConstantFacts
  <1>9. "open" \notin LockedAt \cup {"lock"} /\ "failed" \notin LockedAt \cup {"lock"}
        /\ "running" \notin LockedAt \cup {"lock"} /\ LookedAt \subseteq LockedAt
    BY DEF LockedAt, LookedAt
  <1>10. \A q \in Processes : q = Killer \/ q \in Pids
    BY DEF Processes
  <1>11. Types'
    <2>1. /\ pc' \in [Processes -> LockedAt \cup {"none", "open", "lock", "running",
                                                  "failed", "refused"}]
          /\ holder' \in [Files -> Processes \cup {Nobody}]
          /\ use' \in [Processes -> {"create", "remove", "kill"}]
          /\ fd' \in [Processes -> Files \cup {NoFile}]
      BY <1>1, <1>5, <1>6 DEF Types
    <2>2. \A q \in Processes : fd'[q] # NoFile <=> pc'[q] \in LockedAt \cup {"lock"}
      BY <1>1, <1>7, <1>9, <1>10, ConstantFacts DEF Types
    <2> QED
      BY <1>1, <1>5, <2>1, <2>2 DEF Types
  <1>12. Alive'
    BY <1>1, <1>5, <1>7 DEF Alive
  <1>13. LockHeld'
    <2> SUFFICES ASSUME NEW q \in Processes, pc'[q] \in LockedAt
                 PROVE  holder'[fd'[q]] = q
      BY DEF LockHeld
    <2>1. q \in Pids /\ pc[q] \in LockedAt /\ fd'[q] = fd[q]
      BY <1>7, <1>9, <1>10
    <2>2. fd[q] \in Files /\ fd[q] # f /\ holder[fd[q]] = q
      BY <1>1, <1>8, <2>1, ConstantFacts DEF Types, LockHeld
    <2> QED
      BY <1>7, <2>1, <2>2
  <1>14. NameKept'
    BY <1>1, <1>5, <1>7, <1>9, <1>10 DEF NameKept
  <1>15. UNCHANGED <<link, content>>
    BY <1>5
  <1>16. ContentKnown'
    BY <1>1, <1>7, <1>15 DEF ContentKnown
  <1>17. NobodyRuns'
    BY <1>1, <1>7 DEF NobodyRuns
  <1>18. FileNamesDaemon'
    BY <1>1, <1>7, <1>15 DEF FileNamesDaemon
  <1> QED
    BY <1>11, <1>12, <1>13, <1>14, <1>16, <1>17, <1>18 DEF PfInv

-----------------------------------------------------------------------------
(* The actions one by one.                                                 *)

LEMMA StatInv ==
    ASSUME PfInv, NEW p \in Processes, Stat(p)
    PROVE  PfInv'
  <1>1. Types /\ Alive
    BY DEF PfInv
  <1>2. /\ pc[p] = "stat" /\ pc[p] \in LockedAt /\ "read" \in LockedAt
        /\ UNCHANGED <<link, content, made, alive, use>>
    BY DEF Stat, LockedAt
  <1>3. /\ use' \in [Processes -> {"create", "remove", "kill"}]
        /\ alive' \in [Pids -> {"no", "daemon", "other"}]
        /\ p \in Pids => alive'[p] = "daemon"
    BY <1>1, <1>2 DEF Types, Alive
  <1>4. CASE link = fd[p]
    <2>1. pc' = [pc EXCEPT ![p] = "read"] /\ UNCHANGED <<holder, fd>>
      BY <1>4 DEF Stat, Go
    <2> QED
      BY <1>2, <1>3, <1>4, <2>1, MoveInv
  <1>5. CASE link # fd[p]
    <2>1. Close(p, "open")
      BY <1>5 DEF Stat
    <2> QED
      BY <1>2, <2>1, CloseInv
  <1> QED
    BY <1>4, <1>5

\* A daemon reads the file, for pa_pid_file_create or pa_pid_file_remove.
LEMMA ReadInv ==
    ASSUME PfInv, NEW p \in Pids, Read(p) \/ ReadOwn(p)
    PROVE  PfInv'
  <1>1. Types /\ Alive /\ NameKept /\ FileNamesDaemon /\ p \in Processes
    BY ConstantFacts DEF PfInv
  <1>2. /\ pc[p] = "read" /\ pc[p] \in LockedAt /\ pc[p] \in LookedAt
        /\ "truncate" \in LockedAt /\ "truncateOwn" \in LockedAt
        /\ UNCHANGED <<alive, use>>
    BY DEF Read, ReadOwn, LockedAt, LookedAt
  <1>3. /\ use' \in [Processes -> {"create", "remove", "kill"}]
        /\ alive' \in [Pids -> {"no", "daemon", "other"}]
        /\ alive'[p] = "daemon" /\ fd[p] = link
    BY <1>1, <1>2 DEF Types, Alive, NameKept
  <1>4. CASE Read(p)
    <2>1. UNCHANGED <<link, content, holder, made, fd>>
      BY <1>4 DEF Read, fileVars
    <2>2. CASE content[fd[p]] # Nobody /\ alive[content[fd[p]]] # "no"
      <3>1. pc' = [pc EXCEPT ![p] = "name"] /\ "name" \in LockedAt
        BY <1>4, <2>2 DEF Read, Go, LockedAt
      <3>2. content[fd[p]] \in Pids
        BY <1>1, <1>2, <2>2 DEF Types
      <3> QED
        BY <1>1, <1>2, <1>3, <2>1, <3>1, <3>2, MoveInv, ConstantFacts
    <2>3. CASE ~(content[fd[p]] # Nobody /\ alive[content[fd[p]]] # "no")
      <3>1. pc' = [pc EXCEPT ![p] = "truncate"]
        BY <1>4, <2>3 DEF Read, Go
      <3>2. \A q \in Pids : pc[q] # "running"
        BY <1>3, <2>3, RunnerFacts, ConstantFacts
      <3> QED
        BY <1>1, <1>2, <1>3, <2>1, <3>1, <3>2, MoveInv, ConstantFacts
    <2> QED
      BY <2>2, <2>3
  <1>5. CASE ReadOwn(p)
    <2>1. CASE content[fd[p]] = p
      <3>1. pc' = [pc EXCEPT ![p] = "truncateOwn"]
            /\ UNCHANGED <<link, content, holder, made, fd>>
        BY <1>5, <2>1 DEF ReadOwn, Go, fileVars
      <3> QED
        BY <1>1, <1>2, <1>3, <2>1, <3>1, MoveInv, ConstantFacts
    <2>2. CASE content[fd[p]] # p
      <3>1. Close(p, "failed") /\ UNCHANGED <<link, content, made>>
        BY <1>5, <2>2 DEF ReadOwn
      <3> QED
        BY <1>1, <1>2, <3>1, CloseInv
    <2> QED
      BY <2>1, <2>2
  <1> QED
    BY <1>4, <1>5

\* A daemon looks up the process the file names.
LEMMA ReadNameInv ==
    ASSUME PfInv, NEW p \in Pids, ReadName(p)
    PROVE  PfInv'
  <1>1. Types /\ Alive /\ NameKept /\ p \in Processes
    BY ConstantFacts DEF PfInv
  <1>2. /\ pc[p] = "name" /\ pc[p] \in LockedAt /\ pc[p] \in LookedAt
        /\ "truncate" \in LockedAt /\ UNCHANGED <<alive, use>>
    BY DEF ReadName, LockedAt, LookedAt
  <1>3. /\ use' \in [Processes -> {"create", "remove", "kill"}]
        /\ alive' \in [Pids -> {"no", "daemon", "other"}]
        /\ alive'[p] = "daemon" /\ fd[p] = link
    BY <1>1, <1>2 DEF Types, Alive, NameKept
  <1>4. ASSUME NEW s \in {"refused", "failed"}, Close(p, s), UNCHANGED <<link, content, made>>
        PROVE  PfInv'
    BY <1>1, <1>2, <1>4, CloseInv
  <1>5. CASE /\ alive[content[fd[p]]] = "other" /\ Go(p, "truncate")
             /\ UNCHANGED <<fileVars, fd>>
    <2>1. pc' = [pc EXCEPT ![p] = "truncate"] /\ UNCHANGED <<link, content, holder, made, fd>>
      BY <1>5 DEF Go, fileVars
    <2>2. \A q \in Pids : pc[q] # "running"
      BY <1>3, <1>5, RunnerFacts
    <2> QED
      BY <1>1, <1>2, <1>3, <2>1, <2>2, MoveInv, ConstantFacts
  <1> QED
    BY <1>4, <1>5 DEF ReadName

\* A process begins, ends, or is asked to stop.
LEMMA BeginInv ==
    ASSUME PfInv, NEW p \in Pids, Start(p) \/ Stop(p) \/ Exit(p) \/ Other(p)
    PROVE  PfInv'
  <1>1. Types /\ Alive /\ p \in Processes
    BY ConstantFacts DEF PfInv
  <1>2. UNCHANGED <<link, content, holder, made, fd>>
    BY DEF Start, Stop, Exit, Other, fileVars
  <1>3. /\ "none" \notin LockedAt \cup {"lock"} /\ "running" \notin LockedAt \cup {"lock"}
        /\ "failed" \notin LockedAt \cup {"lock"} /\ "refused" \notin LockedAt \cup {"lock"}
        /\ "open" \notin LockedAt \cup {"lock"}
    BY DEF LockedAt
  <1>4. CASE Start(p)
    <2>1. /\ pc[p] = "none" /\ pc' = [pc EXCEPT ![p] = "open"]
          /\ use' = [use EXCEPT ![p] = "create"] /\ alive' = [alive EXCEPT ![p] = "daemon"]
      BY <1>4 DEF Start, Begin
    <2>2. /\ use' \in [Processes -> {"create", "remove", "kill"}]
          /\ alive' \in [Pids -> {"no", "daemon", "other"}]
          /\ alive'[p] = "daemon" /\ \A q \in Pids : q # p => alive'[q] = alive[q]
      BY <1>1, <2>1 DEF Types
    <2> QED
      BY <1>1, <1>2, <1>3, <2>1, <2>2, MoveInv
  <1>5. CASE Stop(p)
    <2>1. /\ pc[p] = "running" /\ pc' = [pc EXCEPT ![p] = "open"]
          /\ use' = [use EXCEPT ![p] = "remove"] /\ alive' = alive
      BY <1>5 DEF Stop, Begin
    <2>2. /\ use' \in [Processes -> {"create", "remove", "kill"}]
          /\ alive' \in [Pids -> {"no", "daemon", "other"}] /\ alive'[p] = "daemon"
      BY <1>1, <2>1 DEF Types, Alive
    <2> QED
      BY <1>1, <1>2, <1>3, <2>1, <2>2, MoveInv
  <1>6. CASE Exit(p)
    <2>1. /\ pc[p] \in {"failed", "refused"} /\ pc' = [pc EXCEPT ![p] = "none"]
          /\ use' = use /\ alive' = [alive EXCEPT ![p] = "no"]
      BY <1>6 DEF Exit, Go
    <2>2. /\ use' \in [Processes -> {"create", "remove", "kill"}]
          /\ alive' \in [Pids -> {"no", "daemon", "other"}]
          /\ \A q \in Pids : q # p => alive'[q] = alive[q]
      BY <1>1, <2>1 DEF Types
    <2> QED
      BY <1>1, <1>2, <1>3, <2>1, <2>2, MoveInv
  <1>7. CASE Other(p)
    <2>1. /\ pc[p] = "none" /\ pc' = pc /\ use' = use
          /\ alive' = [alive EXCEPT ![p] = IF @ = "no" THEN "other" ELSE "no"]
      BY <1>7 DEF Other
    <2>2. pc[p] = "none" /\ pc' = [pc EXCEPT ![p] = "none"]
      BY <1>1, <2>1 DEF Types
    <2>3. /\ use' \in [Processes -> {"create", "remove", "kill"}]
          /\ alive' \in [Pids -> {"no", "daemon", "other"}]
          /\ \A q \in Pids : q # p => alive'[q] = alive[q]
      BY <1>1, <2>1 DEF Types
    <2> QED
      BY <1>1, <1>2, <1>3, <2>2, <2>3, MoveInv
  <1> QED
    BY <1>4, <1>5, <1>6, <1>7

\* pa_pid_file_kill up to the signal.
LEMMA KillInv ==
    ASSUME PfInv, StartKill \/ ReadKill \/ EndKill
    PROVE  PfInv'
  <1>1. Types /\ NameKept /\ Killer \in Processes /\ Killer \notin Pids
    BY ConstantFacts DEF PfInv
  <1>2. UNCHANGED alive /\ alive' \in [Pids -> {"no", "daemon", "other"}]
    BY <1>1 DEF StartKill, ReadKill, EndKill, Types
  <1>3. CASE StartKill
    <2>1. /\ pc[Killer] = "none" /\ pc' = [pc EXCEPT ![Killer] = "open"]
          /\ use' = [use EXCEPT ![Killer] = "kill"]
          /\ UNCHANGED <<link, content, holder, made, fd>>
      BY <1>3 DEF StartKill, Begin, fileVars
    <2>2. use' \in [Processes -> {"create", "remove", "kill"}]
      BY <1>1, <2>1 DEF Types
    <2> QED
      BY <1>1, <1>2, <2>1, <2>2, MoveInv DEF LockedAt
  <1>4. CASE EndKill
    <2>1. /\ pc[Killer] = "failed" /\ pc' = [pc EXCEPT ![Killer] = "none"] /\ use' = use
          /\ UNCHANGED <<link, content, holder, made, fd>>
      BY <1>4 DEF EndKill, Go, fileVars
    <2>2. use' \in [Processes -> {"create", "remove", "kill"}]
      BY <1>1, <2>1 DEF Types
    <2> QED
      BY <1>1, <1>2, <2>1, <2>2, MoveInv DEF LockedAt
  <1>5. CASE ReadKill
    <2> DEFINE pid == content[fd[Killer]]
    <2>1. /\ pc[Killer] = "read" /\ pc[Killer] \in LockedAt /\ pc[Killer] \in LookedAt
          /\ "signal" \in LockedAt /\ use' = use
      BY <1>5 DEF ReadKill, LockedAt, LookedAt
    <2>2. /\ use' \in [Processes -> {"create", "remove", "kill"}]
          /\ fd[Killer] = link /\ fd[Killer] \in Files
          /\ pid \in Pids \cup {Nobody}
      BY <1>1, <2>1 DEF Types, NameKept
    <2>3. CASE pid = Nobody \/ (pid # Nobody /\ alive[pid] # "daemon")
      <3>1. Close(Killer, "failed") /\ UNCHANGED <<link, content, made>>
        BY <1>5, <2>3 DEF ReadKill
      <3> QED
        BY <1>1, <1>2, <2>1, <3>1, CloseInv
    <2>4. CASE ~(pid = Nobody \/ (pid # Nobody /\ alive[pid] # "daemon"))
      <3>1. /\ pc' = [pc EXCEPT ![Killer] = "signal"]
            /\ UNCHANGED <<link, content, holder, made, fd>>
        BY <1>5, <2>4 DEF ReadKill, Go, fileVars
      <3>2. content[fd[Killer]] \in Pids
        BY <2>2, <2>4
      <3> QED
        BY <1>1, <1>2, <2>1, <2>2, <3>1, <3>2, MoveInv
    <2> QED
      BY <2>3, <2>4
  <1> QED
    BY <1>3, <1>4, <1>5

LEMMA NextPf == PfInv /\ [PfNext]_pfVars => PfInv'
  <1> SUFFICES ASSUME PfInv, [PfNext]_pfVars PROVE PfInv'
    OBVIOUS
  <1>1. CASE UNCHANGED pfVars
    <2>1. UNCHANGED <<link, content, holder, made, alive, pc, use, fd>>
      BY <1>1 DEF pfVars
    <2> QED
      BY <2>1 DEF PfInv, Types, Alive, LockHeld, NameKept, ContentKnown, NobodyRuns,
                  FileNamesDaemon
  <1>2. ASSUME NEW p \in Pids, Truncate(p) \/ WritePid(p) \/ TruncateOwn(p)
        PROVE  PfInv'
    BY <1>2, WriteInv DEF Truncate, WritePid, TruncateOwn, Go
  <1>3. ASSUME NEW p \in Pids, Created(p) \/ Removed(p)
        PROVE  PfInv'
    BY <1>3, CloseInv, ConstantFacts DEF Created, Removed, LockedAt
  <1>4. ASSUME NEW p \in Processes, Open(p) \/ Lock(p) \/ Stat(p)
        PROVE  PfInv'
    BY <1>4, OpenInv, LockInv, StatInv
  <1>5. ASSUME NEW p \in Pids,
               \/ Start(p) \/ Read(p) \/ ReadName(p) \/ Stop(p) \/ ReadOwn(p) \/ Unlink(p)
               \/ Exit(p) \/ Crash(p) \/ Other(p)
        PROVE  PfInv'
    BY <1>5, BeginInv, ReadInv, ReadNameInv, UnlinkInv, CrashInv
  <1>6. CASE StartKill \/ ReadKill \/ Signal \/ EndKill
    BY <1>6, KillInv, SignalInv
  <1>7. CASE PfNext
    BY <1>2, <1>3, <1>4, <1>5, <1>6, <1>7 DEF PfNext, Processes
  <1> QED
    BY <1>1, <1>7

LEMMA InitPf == PfInit => PfInv
  <1> SUFFICES ASSUME PfInit PROVE PfInv
    OBVIOUS
  <1>1. \A p \in Processes : pc[p] = "none" /\ fd[p] = NoFile
    BY DEF PfInit, Processes
  <1>2. Types
    BY <1>1 DEF PfInit, Types, Processes, LockedAt
  <1>3. \A p \in Pids : pc[p] = "none"
    BY <1>1, ConstantFacts
  <1>4. Alive /\ NobodyRuns /\ FileNamesDaemon
    BY <1>3 DEF Alive, NobodyRuns, FileNamesDaemon
  <1>5. LockHeld /\ NameKept
    BY <1>1 DEF LockHeld, NameKept, LockedAt, LookedAt
  <1>6. ContentKnown
    BY <1>1, <1>3, ConstantFacts DEF ContentKnown
  <1> QED
    BY <1>2, <1>4, <1>5, <1>6 DEF PfInv

LEMMA InvOneDaemon == PfInv => PfTypeOK /\ OneDaemon /\ FileNamesDaemon
  <1> SUFFICES ASSUME PfInv PROVE PfTypeOK /\ OneDaemon /\ FileNamesDaemon
    OBVIOUS
  <1>1. PfTypeOK
    BY DEF PfInv, Types, PfTypeOK, Processes, LockedAt
  <1>2. FileNamesDaemon
    BY DEF PfInv
  <1>3. OneDaemon
    BY <1>2 DEF OneDaemon, FileNamesDaemon
  <1> QED
    BY <1>1, <1>2, <1>3

\* Whatever daemons are started, stopped, killed and crash, and even if the id
\* of a crashed one is given to a new daemon: at most one runs, and pid.c's
\* file is there and names it.
THEOREM OneDaemonAlways == PfSpec => [](PfTypeOK /\ OneDaemon /\ FileNamesDaemon)
  BY InitPf, NextPf, InvOneDaemon, PTL DEF PfSpec

-----------------------------------------------------------------------------
(* No start is turned away without cause.                                  *)

\* What a step does to a daemon p that does not take it: nothing, unless it is
\* the signal that stops p; and the id of p is written into no file.
LEMMA StepOfOthers ==
    ASSUME PfInv, PfNext, NEW p \in Pids
    PROVE  \/ \/ Open(p) \/ Lock(p) \/ Stat(p)
           \/ \/ Start(p) \/ Read(p) \/ ReadName(p) \/ Truncate(p) \/ WritePid(p)
              \/ Created(p) \/ Stop(p) \/ ReadOwn(p) \/ TruncateOwn(p) \/ Unlink(p)
              \/ Removed(p) \/ Exit(p) \/ Crash(p) \/ Other(p)
           \/ /\ \/ pc'[p] = pc[p] /\ use'[p] = use[p]
                 \/ pc[p] = "running" /\ pc'[p] = "open" /\ use'[p] = "remove"
              /\ alive'[p] = alive[p] /\ (p \in reused' <=> p \in reused)
              /\ \A f \in Files : content'[f] = p => content[f] = p
  <1> DEFINE Rest == /\ \/ pc'[p] = pc[p] /\ use'[p] = use[p]
                        \/ pc[p] = "running" /\ pc'[p] = "open" /\ use'[p] = "remove"
                     /\ alive'[p] = alive[p] /\ (p \in reused' <=> p \in reused)
                     /\ \A f \in Files : content'[f] = p => content[f] = p
  <1>1. Types /\ p \in Processes /\ p # Killer /\ p # Nobody
    BY ConstantFacts DEF PfInv
  <1>2. ASSUME NEW q \in Processes, q # p, Open(q) \/ Lock(q) \/ Stat(q) PROVE Rest
    <2>1. UNCHANGED <<content, alive, reused, use>>
      BY <1>2 DEF Open, Lock, Stat
    <2>2. pc'[p] = pc[p]
      BY <1>1, <1>2 DEF Open, Lock, Stat, Close, Go, Types
    <2> QED
      BY <2>1, <2>2
  <1>3. ASSUME NEW q \in Pids, q # p,
               \/ Read(q) \/ ReadName(q) \/ Created(q) \/ ReadOwn(q) \/ Unlink(q) \/ Removed(q)
        PROVE  Rest
    <2>1. UNCHANGED <<content, alive, reused, use>>
      BY <1>3 DEF Read, ReadName, Created, ReadOwn, Unlink, Removed, fileVars
    <2>2. pc'[p] = pc[p]
      BY <1>1, <1>3 DEF Read, ReadName, Created, ReadOwn, Unlink, Removed, Close, Go, Types
    <2> QED
      BY <2>1, <2>2
  <1>4. ASSUME NEW q \in Pids, q # p, Start(q) \/ Stop(q) \/ Exit(q) \/ Crash(q) \/ Other(q)
        PROVE  Rest
    <2>1. content' = content
      BY <1>4 DEF Start, Stop, Exit, Crash, Other, fileVars
    <2>2. pc'[p] = pc[p] /\ use'[p] = use[p] /\ alive'[p] = alive[p]
      BY <1>1, <1>4 DEF Start, Stop, Exit, Crash, Other, Begin, Go, Types
    <2>3. p \in reused' <=> p \in reused
      BY <1>4 DEF Start, Stop, Exit, Crash, Other
    <2> QED
      BY <2>1, <2>2, <2>3
  <1>5. ASSUME NEW q \in Pids, q # p, Truncate(q) \/ WritePid(q) \/ TruncateOwn(q)
        PROVE  Rest
    <2>1. UNCHANGED <<alive, use>> /\ (p \in reused' <=> p \in reused)
      BY <1>5 DEF Truncate, WritePid, TruncateOwn
    <2>2. pc'[p] = pc[p]
      BY <1>1, <1>5 DEF Truncate, WritePid, TruncateOwn, Go, Types
    <2>3. \A f \in Files : content'[f] \in {content[f], Nobody, q}
      BY <1>1, <1>5 DEF Truncate, WritePid, TruncateOwn, Types
    <2> QED
      BY <1>1, <1>5, <2>1, <2>2, <2>3
  <1>6. ASSUME StartKill \/ ReadKill \/ EndKill PROVE Rest
    <2>1. UNCHANGED <<content, alive, reused>>
      BY <1>6 DEF StartKill, ReadKill, EndKill, fileVars
    <2>2. pc'[p] = pc[p] /\ use'[p] = use[p]
      BY <1>1, <1>6 DEF StartKill, ReadKill, EndKill, Begin, Close, Go, Types
    <2> QED
      BY <2>1, <2>2
  <1>7. ASSUME Signal PROVE Rest
    <2>1. UNCHANGED <<content, alive, reused>>
      BY <1>7 DEF Signal
    <2>2. PICK d \in Pids : d = content[fd[Killer]]
      BY <1>7 DEF Signal, PfInv, ContentKnown
    <2>3. d \in Processes /\ d # Killer
      BY ConstantFacts
    <2>4. /\ pc' = [pc EXCEPT ![Killer] = "failed",
                              ![d] = IF @ = "running" THEN "open" ELSE @]
          /\ use' = [use EXCEPT ![d] = IF pc[d] = "running" THEN "remove" ELSE @]
      BY <1>7, <2>2 DEF Signal
    <2>5. \/ pc'[p] = pc[p] /\ use'[p] = use[p]
          \/ pc[p] = "running" /\ pc'[p] = "open" /\ use'[p] = "remove"
      BY <1>1, <2>3, <2>4 DEF Types
    <2> QED
      BY <2>1, <2>5
  <1> QED
    BY <1>2, <1>3, <1>4, <1>5, <1>6, <1>7 DEF PfNext, Processes

LEMMA NextOthersEmpty ==
    ASSUME PfInv, OthersEmpty, PfNext
    PROVE  OthersEmpty'
  <1>1. Types /\ NameKept /\ ContentKnown
    BY DEF PfInv
  <1>2. ASSUME NEW p \in Processes, Open(p) PROVE OthersEmpty'
    BY <1>1, <1>2, ConstantFacts DEF Open, OthersEmpty, Types
  <1>3. ASSUME NEW p \in Pids, Unlink(p) PROVE OthersEmpty'
    <2>1. fd[p] = link /\ content[fd[p]] = Nobody /\ content' = content
      BY <1>1, <1>3, ConstantFacts DEF Unlink, NameKept, ContentKnown, LookedAt
    <2> QED
      BY <2>1 DEF OthersEmpty
  <1>4. ASSUME NEW p \in Pids, Truncate(p) \/ WritePid(p) \/ TruncateOwn(p) PROVE OthersEmpty'
    <2>1. fd[p] = link /\ link' = link
      BY <1>1, <1>4, ConstantFacts DEF Truncate, WritePid, TruncateOwn, NameKept, LookedAt
    <2> QED
      BY <1>1, <1>4, <2>1 DEF Truncate, WritePid, TruncateOwn, OthersEmpty, Types
  <1>5. ASSUME link' = link, content' = content PROVE OthersEmpty'
    BY <1>5 DEF OthersEmpty
  <1>6. ASSUME NEW p \in Processes, Lock(p) \/ Stat(p) PROVE OthersEmpty'
    BY <1>5, <1>6 DEF Lock, Stat
  <1>7. ASSUME NEW p \in Pids,
               \/ Start(p) \/ Read(p) \/ ReadName(p) \/ Created(p) \/ Stop(p) \/ ReadOwn(p)
               \/ Removed(p) \/ Exit(p) \/ Crash(p) \/ Other(p)
        PROVE  OthersEmpty'
    BY <1>5, <1>7 DEF Start, Read, ReadName, Created, Stop, ReadOwn, Removed, Exit,
                      Crash, Other, fileVars
  <1>8. ASSUME StartKill \/ ReadKill \/ Signal \/ EndKill PROVE OthersEmpty'
    BY <1>5, <1>8 DEF StartKill, ReadKill, Signal, EndKill, fileVars
  <1> QED
    BY <1>2, <1>3, <1>4, <1>6, <1>7, <1>8 DEF PfNext, Processes

\* The steps of a daemon itself.
LEMMA OwnStep ==
    ASSUME PfInv, CauseInv, NEW p \in Pids,
           \/ Open(p) \/ Lock(p) \/ Stat(p)
           \/ Start(p) \/ Read(p) \/ ReadName(p) \/ Truncate(p) \/ WritePid(p)
           \/ Created(p) \/ Stop(p) \/ ReadOwn(p) \/ TruncateOwn(p) \/ Unlink(p)
           \/ Removed(p) \/ Exit(p) \/ Crash(p) \/ Other(p)
    PROVE  /\ pc'[p] \in {"truncateOwn", "unlink", "unlock"} => use'[p] = "remove"
           /\ \A f \in Files : Unwritten(p)' /\ p \notin reused' => content'[f] # p
           /\ \A f \in Files : content'[f] = p /\ alive'[p] = "daemon" /\ p \notin reused'
                              => Written(p)'
  <1>1. /\ Types /\ NameKept /\ p \in Processes /\ p # Killer /\ p # Nobody
        /\ OthersEmpty /\ UseKnown
        /\ \A f \in Files : Unwritten(p) /\ p \notin reused => content[f] # p
        /\ \A f \in Files : content[f] = p /\ alive[p] = "daemon" /\ p \notin reused
                           => Written(p)
    BY ConstantFacts DEF PfInv, CauseInv, NotNamed, NamedWrote
  <1> DEFINE Goal == /\ pc'[p] \in {"truncateOwn", "unlink", "unlock"} => use'[p] = "remove"
                     /\ \A f \in Files : Unwritten(p)' /\ p \notin reused' => content'[f] # p
                     /\ \A f \in Files : content'[f] = p /\ alive'[p] = "daemon"
                                        /\ p \notin reused' => Written(p)'
  <1>2. CASE Open(p)
    <2>1. UNCHANGED <<content, alive, reused, use>> /\ pc[p] = "open"
      BY <1>2 DEF Open
    <2>2. pc'[p] = "lock" \/ (link = NoFile /\ pc'[p] = "failed")
      BY <1>1, <1>2 DEF Open, Go, Types
    <2>3. link = NoFile => \A f \in Files : content[f] # p
      BY <1>1, ConstantFacts DEF OthersEmpty
    <2> QED
      BY <1>1, <2>1, <2>2, <2>3 DEF Unwritten, Written
  <1>3. CASE Lock(p) \/ Stat(p)
    <2>1. UNCHANGED <<content, alive, reused, use>>
      BY <1>3 DEF Lock, Stat
    <2>2. \/ pc[p] = "lock" /\ pc'[p] = "stat"
          \/ pc[p] = "stat" /\ pc'[p] \in {"read", "open"}
      BY <1>1, <1>3 DEF Lock, Stat, Close, Go, Types
    <2> QED
      BY <1>1, <2>1, <2>2 DEF Unwritten, Written
  <1>4. CASE Start(p)
    <2>1. /\ content' = content /\ pc'[p] = "open" /\ use'[p] = "create"
          /\ (p \in reused' <=> \E f \in Files : content[f] = p)
      BY <1>1, <1>4 DEF Start, Begin, Types, fileVars
    <2> QED
      BY <2>1
  <1>5. CASE Read(p) \/ ReadName(p)
    <2>1. UNCHANGED <<content, alive, reused, use>>
      BY <1>5 DEF Read, ReadName, fileVars
    <2>2. /\ Unwritten(p) /\ ~Written(p)
          /\ pc'[p] \in {"name", "truncate", "refused", "failed"}
      BY <1>1, <1>5 DEF Read, ReadName, Close, Go, Types, Unwritten, Written
    <2> QED
      BY <1>1, <2>1, <2>2
  <1>6. CASE Truncate(p)
    <2>1. /\ UNCHANGED <<alive, reused, use>> /\ pc'[p] = "write"
          /\ Unwritten(p) /\ ~Written(p)
      BY <1>1, <1>6 DEF Truncate, Go, Types, Unwritten, Written
    <2>2. \A f \in Files : content'[f] = p => content[f] = p
      BY <1>1, <1>6 DEF Truncate, Types
    <2> QED
      BY <1>1, <2>1, <2>2
  <1>7. CASE WritePid(p) \/ Created(p) \/ Stop(p)
    <2>1. pc'[p] \in {"close", "running"} \/ (pc'[p] = "open" /\ use'[p] = "remove")
      BY <1>1, <1>7 DEF WritePid, Created, Stop, Begin, Close, Go, Types
    <2> QED
      BY <2>1 DEF Unwritten, Written
  <1>8. CASE ReadOwn(p)
    <2>1. /\ UNCHANGED <<content, alive, reused, use>> /\ use[p] = "remove"
          /\ pc[p] = "read" /\ fd[p] = link
      BY <1>1, <1>8 DEF ReadOwn, NameKept, LookedAt, fileVars
    <2>2. pc'[p] = "truncateOwn" \/ (pc'[p] = "failed" /\ content[link] # p)
      BY <1>1, <1>8, <2>1 DEF ReadOwn, Close, Go, Types
    <2>3. content[link] # p => \A f \in Files : content[f] # p
      BY <1>1 DEF OthersEmpty
    <2> QED
      BY <2>1, <2>2, <2>3 DEF Unwritten, Written
  <1>9. CASE TruncateOwn(p)
    <2>1. use'[p] = use[p] /\ pc[p] = "truncateOwn" /\ pc'[p] = "unlink" /\ fd[p] = link
      BY <1>1, <1>9 DEF TruncateOwn, Go, NameKept, LookedAt, Types
    <2>2. \A f \in Files : content'[f] # p
      BY <1>1, <1>9, <2>1 DEF TruncateOwn, OthersEmpty, Types
    <2> QED
      BY <1>1, <2>1, <2>2 DEF UseKnown
  <1>10. CASE Unlink(p) \/ Removed(p)
    <2>1. /\ UNCHANGED <<content, alive, reused, use>> /\ pc[p] \in {"unlink", "unlock"}
          /\ pc'[p] \in {"unlock", "failed"}
      BY <1>1, <1>10 DEF Unlink, Removed, Close, Go, Types
    <2> QED
      BY <1>1, <2>1 DEF Unwritten, Written, UseKnown
  <1>11. CASE Exit(p) \/ Crash(p) \/ Other(p)
    <2>1. pc'[p] = "none" /\ alive'[p] # "daemon"
      BY <1>1, <1>11 DEF Exit, Crash, Other, Go, Types
    <2> QED
      BY <2>1 DEF Unwritten
  <1> QED
    BY <1>2, <1>3, <1>4, <1>5, <1>6, <1>7, <1>8, <1>9, <1>10, <1>11

LEMMA NextCause == PfInv /\ CauseInv /\ [PfNext]_pfVars => CauseInv'
  <1> SUFFICES ASSUME PfInv, CauseInv, [PfNext]_pfVars PROVE CauseInv'
    OBVIOUS
  <1>1. CASE UNCHANGED pfVars
    BY <1>1 DEF pfVars, CauseInv, OthersEmpty, UseKnown, NotNamed, NamedWrote, Unwritten,
                Written
  <1>2. CASE PfNext
    <2>1. OthersEmpty'
      BY <1>2, NextOthersEmpty DEF CauseInv
    <2>2. ASSUME NEW p \in Pids
          PROVE  /\ pc'[p] \in {"truncateOwn", "unlink", "unlock"} => use'[p] = "remove"
                 /\ \A f \in Files : Unwritten(p)' /\ p \notin reused' => content'[f] # p
                 /\ \A f \in Files : content'[f] = p /\ alive'[p] = "daemon"
                                    /\ p \notin reused' => Written(p)'
      <3>1. CASE /\ \/ pc'[p] = pc[p] /\ use'[p] = use[p]
                    \/ pc[p] = "running" /\ pc'[p] = "open" /\ use'[p] = "remove"
                 /\ alive'[p] = alive[p] /\ (p \in reused' <=> p \in reused)
                 /\ \A f \in Files : content'[f] = p => content[f] = p
        BY <3>1 DEF CauseInv, UseKnown, NotNamed, NamedWrote, Unwritten, Written
      <3> QED
        BY <1>2, <3>1, StepOfOthers, OwnStep
    <2> QED
      BY <2>1, <2>2 DEF CauseInv, UseKnown, NotNamed, NamedWrote
  <1> QED
    BY <1>1, <1>2

\* A start that is turned away was in pa_pid_file_create and had looked up the
\* process that the file names.
LEMMA TurnedAwayStep ==
    ASSUME PfInv, CauseInv, [PfNext]_pfVars, NEW p \in Pids,
           use[p] = "create", pc[p] \notin {"refused", "failed"},
           pc'[p] \in {"refused", "failed"}
    PROVE  LET q == content[link] IN
           \/ q \in reused
           \/ q \in Pids \ {p} /\ alive[q] = "daemon" /\ Serving(q)
           \/ q \in Pids \ {p} /\ pc'[p] = "failed" /\ alive[q] = "no"
  <1>1. /\ Types /\ NameKept /\ ContentKnown /\ UseKnown /\ NotNamed /\ NamedWrote
        /\ p \in Processes /\ p # Killer
    BY ConstantFacts DEF PfInv, CauseInv
  <1>2. PfNext
    BY DEF pfVars
  <1>3. ~(Open(p) \/ Lock(p) \/ Stat(p))
    BY <1>1 DEF Open, Lock, Stat, Close, Go, Types
  <1>4. ~(\/ Start(p) \/ Read(p) \/ Truncate(p) \/ WritePid(p) \/ Created(p)
          \/ Stop(p) \/ ReadOwn(p) \/ TruncateOwn(p) \/ Unlink(p)
          \/ Exit(p) \/ Crash(p) \/ Other(p))
    BY <1>1
       DEF Start, Read, Truncate, WritePid, Created, Stop, ReadOwn, TruncateOwn, Unlink,
           Exit, Crash, Other, Begin, Close, Go, Types
  <1>5. ~Removed(p)
    BY <1>1 DEF Removed, UseKnown
  <1>6. ReadName(p)
    BY <1>2, <1>3, <1>4, <1>5, StepOfOthers
  <1>7. /\ pc[p] = "name" /\ pc[p] \in LookedAt /\ pc[p] \in LockedAt /\ fd[p] = link
        /\ link \in Files
    BY <1>1, <1>6 DEF ReadName, NameKept, LookedAt, LockedAt, Types
  <1>8. PICK q \in Pids : q = content[link]
    BY <1>1, <1>7 DEF ContentKnown
  <1>9. alive[q] = "daemon" \/ (alive[q] = "no" /\ pc'[p] = "failed")
    BY <1>1, <1>6, <1>7, <1>8 DEF ReadName, Close, Go, Types
  <1>10. SUFFICES ASSUME q \notin reused
                  PROVE  /\ q # p
                         /\ alive[q] = "daemon" => Serving(q)
    BY <1>8, <1>9
  <1>11. q # p
    BY <1>1, <1>7, <1>8, <1>10 DEF NotNamed, Unwritten
  <1>12. ASSUME alive[q] = "daemon" PROVE Serving(q)
    <2>1. Written(q)
      BY <1>1, <1>7, <1>8, <1>10, <1>12 DEF NamedWrote
    <2>2. pc[q] \notin LookedAt
      <3>1. pc[q] \in LookedAt => pc[q] \in LockedAt
        BY DEF LookedAt, LockedAt
      <3> QED
        BY <1>1, <1>7, <1>11, <3>1, OnlyOne, ConstantFacts
    <2> QED
      BY <2>1, <2>2 DEF Written, Serving, LookedAt
  <1> QED
    BY <1>11, <1>12

\* The PID file does its duty, all of it, whoever crashes and whatever process
\* ids are given out again: pa_pid_file_create turns a start away only for one
\* of the reasons TurnedAwayForCause states.
THEOREM PidFileIsCorrect == PfSpec => PidFileCorrect
  <1>1. PfInit => CauseInv
    <2> SUFFICES ASSUME PfInit PROVE CauseInv
      OBVIOUS
    <2>1. \A p \in Pids : pc[p] = "none" /\ \A f \in Files : content[f] # p
      BY ConstantFacts DEF PfInit, Processes
    <2>2. OthersEmpty
      BY DEF PfInit, OthersEmpty
    <2> QED
      BY <2>1, <2>2 DEF CauseInv, UseKnown, NotNamed, NamedWrote, Unwritten
  <1>2. PfInv /\ CauseInv /\ [PfNext]_pfVars =>
           [\A p \in Pids :
              LET q == content[link] IN
              /\ use[p] = "create" /\ pc[p] \notin {"refused", "failed"}
              /\ pc'[p] \in {"refused", "failed"}
              => \/ q \in reused
                 \/ q \in Pids \ {p} /\ alive[q] = "daemon" /\ Serving(q)
                 \/ q \in Pids \ {p} /\ pc'[p] = "failed" /\ alive[q] = "no"]_pfVars
    BY TurnedAwayStep
  <1> QED
    BY <1>1, <1>2, InitPf, NextPf, NextCause, OneDaemonAlways, PTL
       DEF PfSpec, PidFileCorrect, TurnedAwayForCause
=============================================================================
