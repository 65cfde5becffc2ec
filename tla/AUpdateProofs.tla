--------------------------- MODULE AUpdateProofs ---------------------------
(***************************************************************************)
(* Readers of a pa_aupdate never see a copy that is being written, and     *)
(* every update is visible once it has ended, for any number of readers    *)
(* and writers.                                                            *)
(*                                                                         *)
(* The argument: the write lock makes the writer unique, the counter is    *)
(* the number of open read sections, and so the successful cmpxchg of      *)
(* pa_aupdate_write_swap happens with nobody reading.  Hence every open    *)
(* section reads the copy the uppermost bit names, and the writer always   *)
(* has the other one.                                                      *)
(***************************************************************************)
EXTENDS AUpdate, FiniteSetTheorems, TLAPS

\* The open read sections
Open == {r \in Readers : spc[r] = "read"}

\* The write lock is held by whoever is between begin and end.
OneWriter == \A w \in Updaters : upc[w] # "idle" <=> lock = w

\* The counter half of read_lock
CounterExact == count = Cardinality(Open)

\* The other half: what the readers look at
ReadersOnWhich ==
    \A r \in Readers : reads[r] = IF spc[r] = "read" THEN which ELSE NoCopy

\* The writer has the copy the readers are not sent to.
TargetIsOther == target = IF lock = NoWriter THEN NoCopy ELSE 1 - which

\* Where the update that is under way has arrived
Progress ==
    /\ UpdateVisible
    /\ \A w \in Updaters :
         /\ upc[w] \in {"swap", "try", "endswap", "endtry"} => copies[target] = updates
         /\ upc[w] = "end" => copies[IF swapped THEN which ELSE target] = updates
         /\ upc[w] = "modify" /\ swapped => copies[which] = updates
         /\ upc[w] = "unlock" => copies[which] = updates

AuInv ==
    /\ AuTypeOK /\ OneWriter /\ CounterExact /\ ReadersOnWhich /\ TargetIsOther
    /\ Progress

LEMMA OpenFinite == IsFiniteSet(Open)
BY FS_Subset, AUpdateAssumption DEF Open

LEMMA AuInitially == AuInit => AuInv
<1> SUFFICES ASSUME AuInit PROVE AuInv
  OBVIOUS
<1>1. Open = {}
  BY DEF AuInit, Open
<1>2. CounterExact
  BY <1>1, FS_EmptySet DEF AuInit, CounterExact
<1>3. AuTypeOK
  BY DEF AuInit, AuTypeOK, NoCopy
<1>4. OneWriter /\ ReadersOnWhich /\ TargetIsOther /\ Progress
  BY AUpdateAssumption
  DEF AuInit, OneWriter, ReadersOnWhich, TargetIsOther, Progress, UpdateVisible
<1> QED
  BY <1>2, <1>3, <1>4 DEF AuInv

\* A read section begins: one more is counted, on the copy of that moment.
LEMMA BeginStep ==
    ASSUME AuInv, NEW r \in Readers, pa_aupdate_read_begin(r) PROVE AuInv'
<1> USE DEF AuInv
<1>1. r \notin Open /\ Open' = Open \cup {r}
  BY DEF Open, pa_aupdate_read_begin, AuTypeOK
<1>2. CounterExact'
  BY <1>1, OpenFinite, FS_AddElement DEF CounterExact, pa_aupdate_read_begin
<1>3. AuTypeOK'
  BY DEF AuTypeOK, pa_aupdate_read_begin, updaterVars
<1>4. ReadersOnWhich'
  BY DEF ReadersOnWhich, pa_aupdate_read_begin, AuTypeOK
<1>5. OneWriter' /\ TargetIsOther' /\ Progress'
  BY DEF OneWriter, TargetIsOther, Progress, UpdateVisible, pa_aupdate_read_begin,
         updaterVars
<1> QED
  BY <1>2, <1>3, <1>4, <1>5

\* A read section ends: one less is counted, and there was one.
LEMMA EndStep ==
    ASSUME AuInv, NEW r \in Readers, pa_aupdate_read_end(r) PROVE AuInv'
<1> USE DEF AuInv
<1>1. r \in Open /\ Open' = Open \ {r}
  BY DEF Open, pa_aupdate_read_end, AuTypeOK
<1>2. Cardinality(Open) \in Nat /\ Cardinality(Open) # 0
  BY <1>1, OpenFinite, FS_CardinalityType, FS_EmptySet
<1>3. CounterExact' /\ count' \in Nat
  BY <1>1, <1>2, OpenFinite, FS_RemoveElement DEF CounterExact, pa_aupdate_read_end
<1>4. AuTypeOK'
  BY <1>3 DEF AuTypeOK, pa_aupdate_read_end, updaterVars
<1>5. ReadersOnWhich'
  BY DEF ReadersOnWhich, pa_aupdate_read_end, AuTypeOK
<1>6. OneWriter' /\ TargetIsOther' /\ Progress'
  BY DEF OneWriter, TargetIsOther, Progress, UpdateVisible, pa_aupdate_read_end,
         updaterVars
<1> QED
  BY <1>3, <1>4, <1>5, <1>6

LEMMA PostStep ==
    ASSUME AuInv, NEW r \in Readers, PostSemaphore(r) PROVE AuInv'
<1> USE DEF AuInv
<1>1. Open' = Open
  BY DEF Open, PostSemaphore, AuTypeOK
<1>2. CounterExact'
  BY <1>1 DEF CounterExact, PostSemaphore
<1>3. AuTypeOK'
  BY DEF AuTypeOK, PostSemaphore, updaterVars
<1>4. ReadersOnWhich'
  BY DEF ReadersOnWhich, PostSemaphore, AuTypeOK
<1>5. OneWriter' /\ TargetIsOther' /\ Progress'
  BY DEF OneWriter, TargetIsOther, Progress, UpdateVisible, PostSemaphore, updaterVars
<1> QED
  BY <1>2, <1>3, <1>4, <1>5

\* What readers do is not touched by a step of a writer other than the swap.
LEMMA ReadersKept ==
    ASSUME AuInv, UNCHANGED <<which, count, sectionVars>>
    PROVE CounterExact' /\ ReadersOnWhich'
BY DEF AuInv, CounterExact, Open, ReadersOnWhich, sectionVars

\* The cmpxchg succeeds only while no section is open.
LEMMA NobodyReads ==
    ASSUME AuInv, count = 0 PROVE \A r \in Readers : spc[r] # "read"
<1>1. Open = {}
  BY OpenFinite, FS_EmptySet DEF AuInv, CounterExact
<1> QED
  BY <1>1 DEF Open

LEMMA SwapStep ==
    ASSUME AuInv, NEW w \in Updaters, Swap(w) PROVE AuInv'
<1> USE DEF AuInv
<1>1. lock = w /\ lock # NoWriter /\ target = 1 - which /\ copies[target] = updates
  BY AUpdateAssumption DEF Swap, OneWriter, TargetIsOther, Progress
<1>2. CASE seen = [which |-> which, count |-> count]
  <2>1. count = 0 /\ \A r \in Readers : spc[r] # "read"
    BY <1>2, NobodyReads DEF Swap, AuTypeOK
  <2>2. AuTypeOK'
    BY <1>2, <1>1 DEF Swap, AuTypeOK, sectionVars
  <2>3. CounterExact' /\ ReadersOnWhich'
    BY <2>1 DEF Swap, CounterExact, Open, ReadersOnWhich, sectionVars
  <2>4. OneWriter' /\ TargetIsOther'
    BY <1>1, <1>2 DEF Swap, OneWriter, TargetIsOther, AuTypeOK
  <2>5. Progress'
    BY <1>1, <1>2 DEF Swap, Progress, UpdateVisible, OneWriter, AuTypeOK
  <2> QED
    BY <2>2, <2>3, <2>4, <2>5
<1>3. CASE seen # [which |-> which, count |-> count]
  <2>1. AuTypeOK'
    BY <1>3 DEF Swap, AuTypeOK, sectionVars
  <2>2. CounterExact' /\ ReadersOnWhich'
    BY <1>3, ReadersKept DEF Swap
  <2>3. OneWriter' /\ TargetIsOther'
    BY <1>1, <1>3 DEF Swap, OneWriter, TargetIsOther, AuTypeOK
  <2>4. Progress'
    BY <1>1, <1>3 DEF Swap, Progress, UpdateVisible, OneWriter, AuTypeOK
  <2> QED
    BY <2>1, <2>2, <2>3, <2>4
<1> QED
  BY <1>2, <1>3

LEMMA WriterSteps ==
    ASSUME AuInv, NEW w \in Updaters, WriterStep(w) PROVE AuInv'
<1> USE DEF AuInv
<1>1. CASE pa_aupdate_write_begin(w)
  <2>a. target' \in {0, 1} /\ updates' \in Nat
    BY <1>1 DEF pa_aupdate_write_begin, AuTypeOK
  <2>1. AuTypeOK'
    BY <1>1, <2>a DEF pa_aupdate_write_begin, AuTypeOK, sectionVars
  <2>2. OneWriter' /\ TargetIsOther'
    BY <1>1, AUpdateAssumption
    DEF pa_aupdate_write_begin, OneWriter, TargetIsOther, AuTypeOK
  <2>3. Progress'
    BY <1>1, AUpdateAssumption
    DEF pa_aupdate_write_begin, Progress, UpdateVisible, OneWriter, AuTypeOK
  <2> QED
    BY <1>1, <2>1, <2>2, <2>3, ReadersKept DEF pa_aupdate_write_begin
<1>2. CASE Modify(w)
  <2>1. lock = w /\ lock # NoWriter /\ target = 1 - which
    BY <1>2, AUpdateAssumption DEF Modify, OneWriter, TargetIsOther
  <2>2. AuTypeOK'
    BY <1>2 DEF Modify, AuTypeOK, sectionVars
  <2>3. OneWriter' /\ TargetIsOther'
    BY <1>2, <2>1 DEF Modify, OneWriter, TargetIsOther, AuTypeOK
  <2>4. Progress'
    BY <1>2, <2>1 DEF Modify, Progress, UpdateVisible, OneWriter, AuTypeOK
  <2> QED
    BY <1>2, <2>2, <2>3, <2>4, ReadersKept DEF Modify
<1>3. CASE Look(w)
  <2>1. lock = w /\ lock # NoWriter
    BY <1>3, AUpdateAssumption DEF Look, OneWriter
  <2>2. AuTypeOK'
    BY <1>3 DEF Look, AuTypeOK, sectionVars
  <2>3. OneWriter' /\ TargetIsOther'
    BY <1>3, <2>1 DEF Look, OneWriter, TargetIsOther, AuTypeOK
  <2>4. Progress'
    BY <1>3, <2>1 DEF Look, Progress, UpdateVisible, OneWriter, AuTypeOK
  <2> QED
    BY <1>3, <2>2, <2>3, <2>4, ReadersKept DEF Look
<1>4. CASE Wait(w)
  <2>1. lock = w /\ lock # NoWriter
    BY <1>4, AUpdateAssumption DEF Wait, OneWriter
  <2>2. AuTypeOK'
    BY <1>4 DEF Wait, AuTypeOK, sectionVars
  <2>3. OneWriter' /\ TargetIsOther'
    BY <1>4, <2>1 DEF Wait, OneWriter, TargetIsOther, AuTypeOK
  <2>4. Progress'
    BY <1>4, <2>1 DEF Wait, Progress, UpdateVisible, OneWriter, AuTypeOK
  <2> QED
    BY <1>4, <2>2, <2>3, <2>4, ReadersKept DEF Wait
<1>5. CASE End(w)
  <2>1. lock = w /\ lock # NoWriter
    BY <1>5, AUpdateAssumption DEF End, OneWriter
  <2>2. AuTypeOK'
    BY <1>5 DEF End, AuTypeOK, sectionVars
  <2>3. OneWriter' /\ TargetIsOther'
    BY <1>5, <2>1 DEF End, OneWriter, TargetIsOther, AuTypeOK
  <2>4. Progress'
    BY <1>5, <2>1 DEF End, Progress, UpdateVisible, OneWriter, AuTypeOK
  <2> QED
    BY <1>5, <2>2, <2>3, <2>4, ReadersKept DEF End
<1>6. CASE WriteUnlock(w)
  <2>1. lock = w /\ lock # NoWriter /\ copies[which] = updates
    BY <1>6, AUpdateAssumption DEF WriteUnlock, OneWriter, Progress
  <2>2. AuTypeOK'
    BY <1>6 DEF WriteUnlock, AuTypeOK, sectionVars
  <2>3. OneWriter' /\ TargetIsOther'
    BY <1>6, <2>1, AUpdateAssumption
    DEF WriteUnlock, OneWriter, TargetIsOther, AuTypeOK
  <2>4. Progress'
    BY <1>6, <2>1 DEF WriteUnlock, Progress, UpdateVisible, OneWriter, AuTypeOK
  <2> QED
    BY <1>6, <2>2, <2>3, <2>4, ReadersKept DEF WriteUnlock
<1> QED
  BY <1>1, <1>2, <1>3, <1>4, <1>5, <1>6, SwapStep DEF WriterStep

LEMMA AuInductive == AuInv /\ [AuNext]_auVars => AuInv'
<1> SUFFICES ASSUME AuInv, [AuNext]_auVars PROVE AuInv'
  OBVIOUS
<1>1. ASSUME NEW r \in Readers, ReaderStep(r) PROVE AuInv'
  BY <1>1, BeginStep, EndStep, PostStep DEF ReaderStep
<1>2. ASSUME NEW w \in Updaters, WriterStep(w) PROVE AuInv'
  BY <1>2, WriterSteps
<1>3. CASE UNCHANGED auVars
  BY <1>3 DEF auVars, AuInv, AuTypeOK, OneWriter, CounterExact, Open, ReadersOnWhich,
              TargetIsOther, Progress, UpdateVisible
<1> QED
  BY <1>1, <1>2, <1>3 DEF AuNext

\* The inductive invariant of readers and writers.
THEOREM AuInvariance == AuSpec => []AuInv
BY AuInitially, AuInductive, PTL DEF AuSpec

\* Every variable keeps its type; in particular the counter never goes below
\* zero, which pa_aupdate_read_end asserts.
THEOREM AuTypes == AuSpec => []AuTypeOK
<1>1. AuInv => AuTypeOK
  BY DEF AuInv
<1> QED
  BY <1>1, AuInvariance, PTL

\* Nobody reads the copy a writer may be changing, however readers and the
\* cmpxchg of pa_aupdate_write_swap interleave.
THEOREM NeverTorn == AuSpec => []NoTornRead
<1>1. AuInv => NoTornRead
  BY DEF AuInv, AuTypeOK, ReadersOnWhich, TargetIsOther, NoTornRead, NoCopy
<1> QED
  BY <1>1, AuInvariance, PTL

\* Once pa_aupdate_write_end has unlocked, every new reader sees the update,
\* whichever of the two ways of updating the writer has chosen.
THEOREM UpdatesVisible == AuSpec => []UpdateVisible
<1>1. AuInv => UpdateVisible
  BY DEF AuInv, Progress
<1> QED
  BY <1>1, AuInvariance, PTL

\* All of it: any number of readers and writers of a pa_aupdate see whole
\* updates only, and every update that has ended.
THEOREM AUpdateIsSafe == AuSpec => []AUpdateSafe
BY AuTypes, NeverTorn, UpdatesVisible, PTL DEF AUpdateSafe
=============================================================================
