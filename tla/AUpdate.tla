------------------------------ MODULE AUpdate ------------------------------
(***************************************************************************)
(* pulsecore/aupdate.c: two copies of a data structure, one of which the   *)
(* readers look at while a writer changes the other and then swaps them.   *)
(* read_lock, an atomic integer, is modelled by its uppermost bit (which   *)
(* copy is read) and the counter below it.  A reader is a read section: a  *)
(* thread that nests them, or is interrupted by a signal handler that      *)
(* reads, is two of them.                                                  *)
(*                                                                         *)
(* The data is the number of the last update applied to a copy; the writer *)
(* uses the interface either way aupdate.h describes, updating both copies *)
(* or only the one that becomes visible.                                   *)
(***************************************************************************)
EXTENDS Naturals, FiniteSets

CONSTANTS Readers, Updaters,
          NoWriter,       \* nobody holds the write lock
          MaxReads,       \* bound: read sections entered
          MaxUpdates      \* bound: updates begun

ASSUME AUpdateAssumption ==
    /\ IsFiniteSet(Readers) /\ NoWriter \notin Updaters
    /\ MaxReads \in Nat /\ MaxUpdates \in Nat

VARIABLES which, count,   \* read_lock
          lock,           \* write_lock: its holder
          sem,            \* value of the semaphore
          swapped,
          copies,         \* the two copies of the data
          reads,          \* what every reader looks at, or 2 when it does not
          spc, upc,       \* where readers and writers are
          target,         \* the copy the writer that holds the lock may modify
          seen,           \* read_lock as the writer has loaded it
          reading, updates  \* read sections entered, updates begun

auVars == <<which, count, lock, sem, swapped, copies, reads, spc, upc, target,
          seen, reading, updates>>

NoCopy == 2

AuInit ==
    /\ which = 0 /\ count = 0
    /\ lock = NoWriter /\ sem = 0 /\ swapped = FALSE
    /\ copies = [c \in {0, 1} |-> 0]
    /\ reads = [r \in Readers |-> NoCopy]
    /\ spc = [r \in Readers |-> "idle"]
    /\ upc = [w \in Updaters |-> "idle"]
    /\ target = NoCopy /\ seen = [which |-> 0, count |-> 0]
    /\ reading = 0 /\ updates = 0

updaterVars == <<lock, swapped, copies, upc, target, seen, updates>>

-----------------------------------------------------------------------------
(* Readers.                                                                *)

pa_aupdate_read_begin(r) ==
    /\ spc[r] = "idle" /\ reading < MaxReads
    /\ count' = count + 1
    /\ reads' = [reads EXCEPT ![r] = which]
    /\ spc' = [spc EXCEPT ![r] = "read"]
    /\ reading' = reading + 1
    /\ UNCHANGED <<which, sem, updaterVars>>

\* pa_aupdate_read_end: the counter is lowered,
pa_aupdate_read_end(r) ==
    /\ spc[r] = "read"
    /\ count' = count - 1
    /\ reads' = [reads EXCEPT ![r] = NoCopy]
    /\ spc' = [spc EXCEPT ![r] = "post"]
    /\ UNCHANGED <<which, sem, reading, updaterVars>>

\* Mutant: a reader that leaves does not post the semaphore.
Bug_PostSemaphore(r) ==
    /\ spc[r] = "post"
    /\ spc' = [spc EXCEPT ![r] = "idle"]
    /\ UNCHANGED <<which, count, sem, reads, reading, updaterVars>>

\* and then the semaphore posted.
PostSemaphore(r) ==
    /\ spc[r] = "post"
    /\ sem' = sem + 1
    /\ spc' = [spc EXCEPT ![r] = "idle"]
    /\ UNCHANGED <<which, count, reads, reading, updaterVars>>

-----------------------------------------------------------------------------
(* Writers.                                                                *)

sectionVars == <<reads, spc, reading>>

pa_aupdate_write_begin(w) ==
    /\ upc[w] = "idle" /\ lock = NoWriter /\ updates < MaxUpdates
    /\ lock' = w
    /\ target' = 1 - which
    /\ swapped' = FALSE
    /\ upc' = [upc EXCEPT ![w] = "modify"]
    /\ updates' = updates + 1
    /\ UNCHANGED <<which, count, sem, copies, seen, sectionVars>>

\* The data structure is updated, and then pa_aupdate_write_swap called if the
\* other copy is to be updated too, pa_aupdate_write_end otherwise.
Modify(w) ==
    /\ upc[w] = "modify"
    /\ copies' = [copies EXCEPT ![target] = updates]
    /\ upc' \in {[upc EXCEPT ![w] = IF swapped THEN "end" ELSE next] :
                   next \in {"swap", "end"}}
    /\ UNCHANGED <<which, count, lock, sem, swapped, target, seen, updates,
                   sectionVars>>

\* pa_aupdate_write_swap, called by the caller ("swap") or at the end ("endswap"):
\* the counter is looked at,
Look(w) ==
    /\ upc[w] \in {"swap", "endswap"}
    /\ seen' = [which |-> which, count |-> count]
    /\ upc' = [upc EXCEPT ![w] = IF @ = "swap" THEN "try" ELSE "endtry"]
    /\ UNCHANGED <<which, count, lock, sem, swapped, copies, target, updates,
                   sectionVars>>

\* the writer waits for a reader to leave if there is one,
Wait(w) ==
    /\ upc[w] \in {"try", "endtry"} /\ seen.count > 0
    /\ sem > 0 /\ sem' = sem - 1
    /\ upc' = [upc EXCEPT ![w] = IF @ = "try" THEN "swap" ELSE "endswap"]
    /\ UNCHANGED <<which, count, lock, swapped, copies, target, seen, updates,
                   sectionVars>>

\* Mutant: the copies are swapped without looking again whether somebody reads.
Bug_Swap(w) ==
    /\ upc[w] \in {"try", "endtry"} /\ seen.count = 0
    /\ which' = 1 - which /\ target' = which /\ swapped' = TRUE
    /\ upc' = [upc EXCEPT ![w] = IF @ = "try" THEN "modify" ELSE "unlock"]
    /\ UNCHANGED <<count, lock, sem, copies, seen, updates, sectionVars>>

\* and the copies are swapped if still nobody reads.
Swap(w) ==
    /\ upc[w] \in {"try", "endtry"} /\ seen.count = 0
    /\ IF seen = [which |-> which, count |-> count]
       THEN /\ which' = 1 - which /\ target' = which /\ swapped' = TRUE
            /\ upc' = [upc EXCEPT ![w] = IF @ = "try" THEN "modify" ELSE "unlock"]
       ELSE /\ upc' = [upc EXCEPT ![w] = IF @ = "try" THEN "swap" ELSE "endswap"]
            /\ UNCHANGED <<which, target, swapped>>
    /\ UNCHANGED <<count, lock, sem, copies, seen, updates, sectionVars>>

\* pa_aupdate_write_end: swap if the caller has not,
End(w) ==
    /\ upc[w] = "end"
    /\ upc' = [upc EXCEPT ![w] = IF swapped THEN "unlock" ELSE "endswap"]
    /\ UNCHANGED <<which, count, lock, sem, swapped, copies, target, seen,
                   updates, sectionVars>>

\* and unlock.
WriteUnlock(w) ==
    /\ upc[w] = "unlock"
    /\ lock' = NoWriter /\ target' = NoCopy
    /\ upc' = [upc EXCEPT ![w] = "idle"]
    /\ UNCHANGED <<which, count, sem, swapped, copies, seen, updates, sectionVars>>

ReaderStep(r) ==
    pa_aupdate_read_begin(r) \/ pa_aupdate_read_end(r) \/ PostSemaphore(r)
WriterStep(w) ==
    \/ pa_aupdate_write_begin(w) \/ Modify(w) \/ Look(w) \/ Wait(w) \/ Swap(w)
    \/ End(w) \/ WriteUnlock(w)

AuNext == (\E r \in Readers : ReaderStep(r)) \/ (\E w \in Updaters : WriterStep(w))

\* A reader that has begun ends, and a writer that can take a step takes it.
SectionDuties(r) == pa_aupdate_read_end(r) \/ PostSemaphore(r)

UpdaterDuties(w) ==
    Modify(w) \/ Look(w) \/ Wait(w) \/ Swap(w) \/ End(w) \/ WriteUnlock(w)

AuSpec ==
    /\ AuInit /\ [][AuNext]_auVars
    /\ \A r \in Readers : WF_auVars(SectionDuties(r))
    /\ \A w \in Updaters : WF_auVars(UpdaterDuties(w))

-----------------------------------------------------------------------------
(* Properties.                                                             *)

\* Everything has its type.
AuTypeOK ==
    /\ which \in {0, 1} /\ count \in Nat /\ sem \in Nat
    /\ lock \in Updaters \cup {NoWriter} /\ swapped \in BOOLEAN
    /\ copies \in [{0, 1} -> Nat]
    /\ reads \in [Readers -> {0, 1, NoCopy}]
    /\ spc \in [Readers -> {"idle", "read", "post"}]
    /\ upc \in [Updaters -> {"idle", "modify", "swap", "try", "end", "endswap",
                            "endtry", "unlock"}]
    /\ target \in {0, 1, NoCopy}
    /\ seen \in [which : {0, 1}, count : Nat]
    /\ reading \in Nat /\ updates \in Nat

\* Nobody reads the copy that a writer may be changing at that moment.
NoTornRead ==
    \A r \in Readers : spc[r] = "read" => reads[r] # target

\* An update is visible to every read that begins after it has ended: the copy
\* readers are sent to is never behind by the time the write lock is free.
UpdateVisible == lock = NoWriter => copies[which] = updates

\* A writer is not held up for good: when the readers have left, the copies are
\* swapped and the update ends.  The post of a reader that left before the
\* writer waits is not lost.
UpdateEnds == \A w \in Updaters : (upc[w] # "idle") ~> (upc[w] = "idle")

\* pa_aupdate: readers see whole updates, and all of them.
AUpdateSafe == AuTypeOK /\ NoTornRead /\ UpdateVisible
=============================================================================
