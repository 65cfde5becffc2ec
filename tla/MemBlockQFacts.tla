--------------------------- MODULE MemBlockQFacts ---------------------------
(***************************************************************************)
(* Facts the proofs about the memblockq and about the receiver of an iwab  *)
(* stream share.                                                           *)
(*                                                                         *)
(* Bounded sets of integers have a least and a greatest element.  The      *)
(* least-number principle stands in for induction in the proofs: the       *)
(* smallest counterexample to a claim about the naturals is taken, and     *)
(* refuted.                                                                *)
(*                                                                         *)
(* And for every call of MemBlockQOps: which fields of a queue it leaves   *)
(* alone and what it does to the list of items.                            *)
(***************************************************************************)
EXTENDS MemBlockQOps, TLAPS, NaturalsInduction, WellFoundedInduction

LessThan == {ss \in Nat \X Nat : ss[1] < ss[2]}

\* The order of the naturals is well founded.
LEMMA LessThanWellFounded == IsWellFoundedOn(LessThan, Nat)
  BY NatLessThanWellFounded, Zenon DEF OpToRel, LessThan

\* The least-number principle.
LEMMA LeastNatural ==
    ASSUME NEW T \in SUBSET Nat, T # {}
    PROVE  \E x \in T : \A y \in T : x <= y
  <1>1. PICK x \in T : \A y \in T : ~(<<y, x>> \in LessThan)
    BY LessThanWellFounded, WFMin
  <1>2. ASSUME NEW a \in Nat, NEW b \in Nat, a < b
        PROVE  <<a, b>> \in LessThan
    BY <1>2 DEF LessThan
  <1>3. \A y \in T : ~(y < x)
    BY <1>1, <1>2
  <1> QED
    BY <1>3

\* A set of integers that is bounded below has a least element.
LEMMA LeastInteger ==
    ASSUME NEW T \in SUBSET Int, T # {}, NEW m \in Int, \A x \in T : m <= x
    PROVE  \E x \in T : \A y \in T : x <= y
  <1> DEFINE U == {n \in Nat : m + n \in T}
  <1>1. \A x \in T : x - m \in U
    <2> TAKE x \in T
    <2>1. x - m \in Nat /\ m + (x - m) = x
      OBVIOUS
    <2> QED
      BY <2>1
  <1>2. U \in SUBSET Nat /\ U # {}
    BY <1>1
  <1> HIDE DEF U
  <1>3. PICK n \in U : \A k \in U : n <= k
    BY <1>2, LeastNatural
  <1>4. m + n \in T /\ n \in Nat
    BY DEF U
  <1>5. \A y \in T : m + n <= y
    BY <1>1, <1>3, <1>4
  <1> QED
    BY <1>4, <1>5

\* One that is bounded above has a greatest element.
LEMMA GreatestInteger ==
    ASSUME NEW T \in SUBSET Int, T # {}, NEW m \in Int, \A x \in T : x <= m
    PROVE  \E x \in T : \A y \in T : y <= x
  <1> DEFINE U == {n \in Nat : m - n \in T}
  <1>1. \A x \in T : m - x \in U
    <2> TAKE x \in T
    <2>1. m - x \in Nat /\ m - (m - x) = x
      OBVIOUS
    <2> QED
      BY <2>1
  <1>2. U \in SUBSET Nat /\ U # {}
    BY <1>1
  <1> HIDE DEF U
  <1>3. PICK n \in U : \A k \in U : n <= k
    BY <1>2, LeastNatural
  <1>4. m - n \in T /\ n \in Nat
    BY DEF U
  <1>5. \A y \in T : y <= m - n
    BY <1>1, <1>3, <1>4
  <1> QED
    BY <1>4, <1>5

-----------------------------------------------------------------------------
(* What each call does to the attributes and to the items.                 *)

\* A record with the fields of a queue, whatever its items are.
Shape(r) ==
    r = [blocks |-> r.blocks, read_index |-> r.read_index,
         write_index |-> r.write_index, in_prebuf |-> r.in_prebuf,
         base |-> r.base, maxlength |-> r.maxlength, tlength |-> r.tlength,
         prebuf |-> r.prebuf, minreq |-> r.minreq,
         maxrewind |-> r.maxrewind, missing |-> r.missing,
         requested |-> r.requested, silence |-> r.silence]

\* The attributes but maxrewind are the same.
SameAttributes(r, s) ==
    /\ s.maxlength = r.maxlength /\ s.tlength = r.tlength
    /\ s.minreq = r.minreq /\ s.prebuf = r.prebuf /\ s.base = r.base
    /\ s.silence = r.silence

\* The call drops nothing, or what a rewind can no longer reach.
Forgets(r, s) ==
    \/ s.blocks = r.blocks
    \/ s.blocks = {b \in r.blocks : End(b) > s.read_index - s.maxrewind}

\* A call that sets no attribute and writes nothing.
Passive(r, s) ==
    /\ Shape(s) /\ SameAttributes(r, s) /\ s.maxrewind = r.maxrewind
    /\ Forgets(r, s)

\* A call that empties the queue.
Empties(r, s) ==
    /\ Shape(s) /\ SameAttributes(r, s) /\ s.maxrewind = r.maxrewind
    /\ s.blocks = {}

\* A setter of an attribute other than maxrewind.
KeepsItems(r, s) ==
    /\ Shape(s) /\ s.maxrewind = r.maxrewind /\ s.blocks = r.blocks

KeepsList(r, s) ==
    /\ KeepsItems(r, s)
    /\ s.read_index = r.read_index /\ s.write_index = r.write_index

\* Assignments to one field, or to a field and in_prebuf.
LEMMA SetPassive ==
    ASSUME NEW r, Shape(r), NEW v, NEW b, NEW s,
           \/ s = r
           \/ s = [r EXCEPT !.in_prebuf = v]
           \/ s = [r EXCEPT !.missing = v]
           \/ s = [r EXCEPT !.requested = v]
           \/ s = [r EXCEPT !.requested = v, !.missing = b]
           \/ s = [r EXCEPT !.read_index = v]
           \/ s = [r EXCEPT !.read_index = v, !.in_prebuf = b]
           \/ s = [r EXCEPT !.write_index = v]
    PROVE  /\ Shape(s) /\ SameAttributes(r, s) /\ KeepsItems(r, s)
           /\ s.blocks = r.blocks
  BY DEF Shape, SameAttributes, KeepsItems

\* Moving an index: what write_index_changed and read_index_changed assign.
LEMMA ChangedPassive ==
    ASSUME NEW r, Shape(r), NEW old, NEW account, NEW s,
           \/ s = write_index_changed(r, old, account)
           \/ s = read_index_changed(r, old)
    PROVE  /\ Shape(s) /\ SameAttributes(r, s) /\ KeepsItems(r, s)
           /\ s.read_index = r.read_index /\ s.write_index = r.write_index
  <1>1. \/ s = [r EXCEPT !.requested = r.requested - (r.write_index - old)]
        \/ s = [r EXCEPT !.missing = r.missing - (r.write_index - old)]
        \/ s = [r EXCEPT !.missing = r.missing + r.read_index - old]
    BY DEF write_index_changed, read_index_changed
  <1>2. \E v : s = [r EXCEPT !.requested = v] \/ s = [r EXCEPT !.missing = v]
    BY <1>1
  <1>3. PICK v : s = [r EXCEPT !.requested = v] \/ s = [r EXCEPT !.missing = v]
    BY <1>2
  <1>4. s.read_index = r.read_index /\ s.write_index = r.write_index
    BY <1>3 DEF Shape
  <1> QED
    BY <1>3, <1>4, SetPassive

\* The effect of the assignments passes through two steps of a call.
LEMMA PassiveChain ==
    ASSUME NEW r, NEW s, NEW u, SameAttributes(r, s), SameAttributes(s, u)
    PROVE  SameAttributes(r, u)
  BY DEF SameAttributes

\* drop_backlog
LEMMA BacklogPassive ==
    ASSUME NEW r, Shape(r), NEW s, s = drop_backlog(r)
    PROVE  /\ Shape(s) /\ SameAttributes(r, s) /\ s.maxrewind = r.maxrewind
           /\ s.read_index = r.read_index /\ s.write_index = r.write_index
           /\ s.blocks = {b \in r.blocks : End(b) > s.read_index - s.maxrewind}
  <1> DEFINE keep == {b \in r.blocks : End(b) > r.read_index - r.maxrewind}
  <1>1. s = [r EXCEPT !.blocks = keep]
    BY DEF drop_backlog
  <1> HIDE DEF keep
  <1>2. /\ Shape(s) /\ SameAttributes(r, s) /\ s.maxrewind = r.maxrewind
        /\ s.read_index = r.read_index /\ s.write_index = r.write_index
        /\ s.blocks = keep
    BY <1>1 DEF Shape, SameAttributes
  <1> QED
    BY <1>2 DEF keep

\* pa_memblockq_drop and pa_memblockq_rewind
LEMMA DropPassive ==
    ASSUME NEW r, Shape(r), NEW l
    PROVE  Passive(r, pa_memblockq_drop(r, l))
  <1> DEFINE s1 == IF l > 0 THEN update_prebuf(r) ELSE r
             s2 == IF l = 0 \/ s1.in_prebuf THEN s1
                   ELSE IF DropStops(s1, l) = {}
                   THEN [s1 EXCEPT !.read_index = s1.read_index + l]
                   ELSE [s1 EXCEPT !.read_index = FirstStop(s1, l), !.in_prebuf = TRUE]
             s3 == drop_backlog(s2)
             s4 == read_index_changed(s3, r.read_index)
  <1>1. pa_memblockq_drop(r, l) = s4
    BY DEF pa_memblockq_drop
  <1>2. Shape(s1) /\ SameAttributes(r, s1) /\ KeepsItems(r, s1)
    BY SetPassive DEF update_prebuf
  <1> HIDE DEF s1
  <1>3. Shape(s2) /\ SameAttributes(s1, s2) /\ KeepsItems(s1, s2)
    <2>1. \/ s2 = s1
          \/ s2 = [s1 EXCEPT !.read_index = s1.read_index + l]
          \/ s2 = [s1 EXCEPT !.read_index = FirstStop(s1, l), !.in_prebuf = TRUE]
      OBVIOUS
    <2>2. \E v, b : \/ s2 = s1
                    \/ s2 = [s1 EXCEPT !.read_index = v]
                    \/ s2 = [s1 EXCEPT !.read_index = v, !.in_prebuf = b]
      BY <2>1
    <2> HIDE DEF s2
    <2> QED
      BY <1>2, <2>2, SetPassive
  <1> HIDE DEF s2
  <1>4. /\ Shape(s3) /\ SameAttributes(s2, s3) /\ s3.maxrewind = s2.maxrewind
        /\ s3.blocks = {b \in s2.blocks : End(b) > s3.read_index - s3.maxrewind}
    BY <1>3, BacklogPassive
  <1> HIDE DEF s3
  <1>5. /\ Shape(s4) /\ SameAttributes(s3, s4) /\ KeepsItems(s3, s4)
        /\ s4.read_index = s3.read_index
    BY <1>4, ChangedPassive
  <1> HIDE DEF s4
  <1>6. SameAttributes(r, s4)
    BY <1>2, <1>3, <1>4, <1>5, PassiveChain
  <1>7. s4.maxrewind = r.maxrewind
    BY <1>2, <1>3, <1>4, <1>5 DEF KeepsItems
  <1>8. s4.blocks = {b \in r.blocks : End(b) > s4.read_index - s4.maxrewind}
    BY <1>2, <1>3, <1>4, <1>5 DEF KeepsItems
  <1> QED
    BY <1>1, <1>5, <1>6, <1>7, <1>8 DEF Passive, Forgets

LEMMA RewindPassive ==
    ASSUME NEW r, Shape(r), NEW l
    PROVE  Passive(r, pa_memblockq_rewind(r, l))
  <1> DEFINE s1 == [r EXCEPT !.read_index = r.read_index - l]
             s2 == read_index_changed(s1, r.read_index)
  <1>1. pa_memblockq_rewind(r, l) = s2
    BY DEF pa_memblockq_rewind
  <1>2. Shape(s1) /\ SameAttributes(r, s1) /\ KeepsItems(r, s1)
    BY SetPassive
  <1> HIDE DEF s1
  <1>3. Shape(s2) /\ SameAttributes(s1, s2) /\ KeepsItems(s1, s2)
    BY <1>2, ChangedPassive
  <1> HIDE DEF s2
  <1> QED
    BY <1>1, <1>2, <1>3, PassiveChain DEF Passive, Forgets, KeepsItems

\* pa_memblockq_seek
LEMMA SeekPassive ==
    ASSUME NEW r, Shape(r), NEW offset, NEW mode, NEW account
    PROVE  Passive(r, pa_memblockq_seek(r, offset, mode, account))
  <1> DEFINE w == CASE mode = "RELATIVE" -> r.write_index + offset
                    [] mode = "ABSOLUTE" -> offset
                    [] mode = "RELATIVE_ON_READ" -> r.read_index + offset
                    [] mode = "RELATIVE_END" -> TailEnd(r, r.read_index) + offset
             s1 == [r EXCEPT !.write_index = w]
             s2 == drop_backlog(s1)
             s3 == write_index_changed(s2, r.write_index, account)
  <1>1. pa_memblockq_seek(r, offset, mode, account) = s3
    BY DEF pa_memblockq_seek
  <1> HIDE DEF w
  <1>2. Shape(s1) /\ SameAttributes(r, s1) /\ KeepsItems(r, s1)
    BY SetPassive
  <1> HIDE DEF s1
  <1>3. /\ Shape(s2) /\ SameAttributes(s1, s2) /\ s2.maxrewind = s1.maxrewind
        /\ s2.blocks = {b \in s1.blocks : End(b) > s2.read_index - s2.maxrewind}
    BY <1>2, BacklogPassive
  <1> HIDE DEF s2
  <1>4. /\ Shape(s3) /\ SameAttributes(s2, s3) /\ KeepsItems(s2, s3)
        /\ s3.read_index = s2.read_index
    BY <1>3, ChangedPassive
  <1> HIDE DEF s3
  <1>5. SameAttributes(r, s3)
    BY <1>2, <1>3, <1>4, PassiveChain
  <1>6. s3.maxrewind = r.maxrewind
    BY <1>2, <1>3, <1>4 DEF KeepsItems
  <1>7. s3.blocks = {b \in r.blocks : End(b) > s3.read_index - s3.maxrewind}
    BY <1>2, <1>3, <1>4 DEF KeepsItems
  <1> QED
    BY <1>1, <1>4, <1>5, <1>6, <1>7 DEF Passive, Forgets

\* pa_memblockq_silence and the two flushes.
LEMMA FlushEmpties ==
    ASSUME NEW r, Shape(r), NEW account
    PROVE  /\ Empties(r, pa_memblockq_silence(r))
           /\ Empties(r, pa_memblockq_flush_write(r, account))
           /\ Empties(r, pa_memblockq_flush_read(r))
  <1> DEFINE e == pa_memblockq_silence(r)
  <1>1. /\ Shape(e) /\ SameAttributes(r, e) /\ e.maxrewind = r.maxrewind
        /\ e.blocks = {}
    BY DEF pa_memblockq_silence, Shape, SameAttributes
  <1> HIDE DEF e
  <1>2. ASSUME NEW v, NEW s, NEW u, NEW x,
               s = [e EXCEPT !.write_index = v] \/ s = [e EXCEPT !.read_index = v],
               u = pa_memblockq_prebuf_force(s),
               \/ x = write_index_changed(u, r.write_index, account)
               \/ x = read_index_changed(u, r.read_index)
        PROVE  Empties(r, x)
    <2>1. Shape(s) /\ SameAttributes(e, s) /\ KeepsItems(e, s)
      BY <1>1, <1>2, SetPassive
    <2>2. Shape(u) /\ SameAttributes(s, u) /\ KeepsItems(s, u)
      BY <1>2, <2>1, SetPassive DEF pa_memblockq_prebuf_force
    <2>3. Shape(x) /\ SameAttributes(u, x) /\ KeepsItems(u, x)
      BY <1>2, <2>2, ChangedPassive
    <2>4. SameAttributes(r, x)
      BY <1>1, <2>1, <2>2, <2>3, PassiveChain
    <2> QED
      BY <1>1, <2>1, <2>2, <2>3, <2>4 DEF Empties, KeepsItems
  <1>3. Empties(r, pa_memblockq_flush_write(r, account))
    <2>1. pa_memblockq_flush_write(r, account) = write_index_changed(
             pa_memblockq_prebuf_force([e EXCEPT !.write_index = r.read_index]),
             r.write_index, account)
      BY DEF pa_memblockq_flush_write, e
    <2> QED
      BY <1>2, <2>1
  <1>4. Empties(r, pa_memblockq_flush_read(r))
    <2>1. pa_memblockq_flush_read(r) = read_index_changed(
             pa_memblockq_prebuf_force([e EXCEPT !.read_index = r.write_index]),
             r.read_index)
      BY DEF pa_memblockq_flush_read, e
    <2> QED
      BY <1>2, <2>1
  <1> QED
    BY <1>1, <1>3, <1>4 DEF Empties, e

\* The calls about prebuffering and requests.
LEMMA RequestPassive ==
    ASSUME NEW r, Shape(r)
    PROVE  /\ Passive(r, pa_memblockq_pop_missing(r))
           /\ Passive(r, update_prebuf(r))
           /\ Passive(r, pa_memblockq_prebuf_disable(r))
           /\ Passive(r, pa_memblockq_prebuf_force(r))
  <1>1. \A s : Shape(s) /\ SameAttributes(r, s) /\ KeepsItems(r, s)
               => Passive(r, s)
    BY DEF Passive, Forgets, KeepsItems
  <1>2. Passive(r, pa_memblockq_pop_missing(r))
    <2> DEFINE v == r.requested + MissingToRequest(r)
               b == r.missing - MissingToRequest(r)
               s == pa_memblockq_pop_missing(r)
    <2>1. s = [r EXCEPT !.requested = v, !.missing = b]
      BY DEF pa_memblockq_pop_missing
    <2> HIDE DEF v, b, s
    <2>2. Shape(s) /\ SameAttributes(r, s) /\ KeepsItems(r, s)
      BY <2>1 DEF Shape, SameAttributes, KeepsItems
    <2> QED
      BY <1>1, <2>2 DEF s
  <1>3. Passive(r, update_prebuf(r))
    BY <1>1, SetPassive DEF update_prebuf
  <1>4. Passive(r, pa_memblockq_prebuf_disable(r))
    BY <1>1, SetPassive DEF pa_memblockq_prebuf_disable
  <1>5. Passive(r, pa_memblockq_prebuf_force(r))
    BY <1>1, SetPassive DEF pa_memblockq_prebuf_force
  <1> QED
    BY <1>2, <1>3, <1>4, <1>5

\* The setters keep the items and the indices.
LEMMA SettersKeepList ==
    ASSUME NEW r, Shape(r), NEW x
    PROVE  /\ KeepsList(r, pa_memblockq_set_prebuf(r, x))
           /\ KeepsList(r, ClampPrebuf(r))
           /\ KeepsList(r, pa_memblockq_set_minreq(r, x))
           /\ KeepsList(r, pa_memblockq_set_tlength(r, x))
           /\ KeepsList(r, pa_memblockq_set_maxlength(r, x))
  <1>1. ASSUME NEW s, Shape(s), NEW y
        PROVE  KeepsList(s, pa_memblockq_set_prebuf(s, y))
    <2> DEFINE p == AtMost(RoundUp(s, IF y = -1 THEN PrebufMax(s) ELSE y),
                           PrebufMax(s))
               i == s.in_prebuf /\ p > 0 /\ pa_memblockq_get_length(s) < p
    <2>1. pa_memblockq_set_prebuf(s, y) = [s EXCEPT !.prebuf = p, !.in_prebuf = i]
      BY DEF pa_memblockq_set_prebuf
    <2> HIDE DEF p, i
    <2> QED
      BY <1>1, <2>1 DEF KeepsList, KeepsItems, Shape
  <1>2. ASSUME NEW s, Shape(s)
        PROVE  KeepsList(s, ClampPrebuf(s))
    BY <1>1, <1>2 DEF ClampPrebuf, KeepsList, KeepsItems
  <1>3. ASSUME NEW s, Shape(s), NEW y
        PROVE  KeepsList(s, pa_memblockq_set_minreq(s, y))
    <2> DEFINE m == AtLeast(AtMost(RoundDown(s, y), s.tlength), s.base)
               u == [s EXCEPT !.minreq = m]
    <2>1. pa_memblockq_set_minreq(s, y) = ClampPrebuf(u)
      BY DEF pa_memblockq_set_minreq
    <2> HIDE DEF m
    <2>2. KeepsList(s, u)
      BY <1>3 DEF KeepsList, KeepsItems, Shape
    <2> HIDE DEF u
    <2> QED
      BY <1>2, <2>1, <2>2 DEF KeepsList, KeepsItems
  <1>4. ASSUME NEW s, Shape(s), NEW y
        PROVE  KeepsList(s, pa_memblockq_set_tlength(s, y))
    <2> DEFINE t == AtMost(RoundUp(s, IF y <= 0 THEN s.maxlength ELSE y),
                           s.maxlength)
               u == [s EXCEPT !.tlength = t]
               v == IF u.minreq > t THEN pa_memblockq_set_minreq(u, t) ELSE u
               w == ClampPrebuf(v)
               m == w.missing + t - s.tlength
    <2>1. pa_memblockq_set_tlength(s, y) = [w EXCEPT !.missing = m]
      BY DEF pa_memblockq_set_tlength
    <2> HIDE DEF t, m
    <2>2. KeepsList(s, u)
      BY <1>4 DEF KeepsList, KeepsItems, Shape
    <2> HIDE DEF u
    <2>3. KeepsList(u, v)
      BY <1>3, <2>2 DEF KeepsList, KeepsItems
    <2> HIDE DEF v
    <2>4. KeepsList(v, w)
      BY <1>2, <2>3 DEF KeepsList, KeepsItems
    <2> HIDE DEF w
    <2>5. KeepsList(w, [w EXCEPT !.missing = m])
      BY <2>4 DEF KeepsList, KeepsItems, Shape
    <2> QED
      BY <2>1, <2>2, <2>3, <2>4, <2>5 DEF KeepsList, KeepsItems
  <1>5. KeepsList(r, pa_memblockq_set_maxlength(r, x))
    <2> DEFINE m == AtLeast(RoundUp(r, x), r.base)
               u == [r EXCEPT !.maxlength = m]
    <2>1. pa_memblockq_set_maxlength(r, x) =
            IF u.tlength > m THEN pa_memblockq_set_tlength(u, m) ELSE u
      BY DEF pa_memblockq_set_maxlength
    <2> HIDE DEF m
    <2>2. KeepsList(r, u)
      BY DEF KeepsList, KeepsItems, Shape
    <2> HIDE DEF u
    <2> QED
      BY <1>4, <2>1, <2>2 DEF KeepsList, KeepsItems
  <1> QED
    BY <1>1, <1>2, <1>3, <1>4, <1>5

\* pa_memblockq_push, accepted or refused.
LEMMA PushEffect ==
    ASSUME NEW r, Shape(r), NEW c, NEW s, s = pa_memblockq_push(r, c)
    PROVE  /\ Shape(s) /\ SameAttributes(r, s) /\ s.maxrewind = r.maxrewind
           /\ s.read_index = r.read_index
           /\ \/ s = r
              \/ /\ can_push(r, c.length)
                 /\ s.blocks = Written(r, c)
                 /\ s.write_index = r.write_index + c.length
  <1> DEFINE w == r.write_index + c.length
             b == Written(r, c)
             u == [r EXCEPT !.blocks = b, !.write_index = w]
  <1>1. s = IF ~can_push(r, c.length) THEN r
            ELSE write_index_changed(u, r.write_index, TRUE)
    BY DEF pa_memblockq_push
  <1> HIDE DEF w, b
  <1>2. /\ Shape(u) /\ SameAttributes(r, u) /\ u.maxrewind = r.maxrewind
        /\ u.read_index = r.read_index
        /\ u.blocks = b /\ u.write_index = w
    <2>1. Shape(u)
      <3>1. ASSUME NEW z, z = [r EXCEPT !.blocks = b, !.write_index = w]
            PROVE  Shape(z)
        BY <3>1 DEF Shape
      <3> QED
        BY <3>1
    <2>2. /\ u.maxlength = r.maxlength /\ u.tlength = r.tlength
          /\ u.minreq = r.minreq /\ u.prebuf = r.prebuf /\ u.base = r.base
          /\ u.maxrewind = r.maxrewind /\ u.read_index = r.read_index
          /\ u.silence = r.silence /\ u.blocks = b /\ u.write_index = w
      BY DEF Shape
    <2> QED
      BY <2>1, <2>2 DEF SameAttributes
  <1> HIDE DEF u
  <1>3. CASE s = r
    BY <1>3 DEF SameAttributes
  <1>4. CASE /\ can_push(r, c.length)
             /\ s = write_index_changed(u, r.write_index, TRUE)
    <2> DEFINE yes == TRUE
    <2>1. s = write_index_changed(u, r.write_index, yes)
      BY <1>4
    <2> HIDE DEF yes
    <2>2. /\ Shape(s) /\ SameAttributes(u, s) /\ KeepsItems(u, s)
          /\ s.read_index = u.read_index /\ s.write_index = u.write_index
      BY <1>2, <2>1, ChangedPassive
    <2>3. SameAttributes(r, s)
      BY <1>2, <2>2, PassiveChain
    <2> QED
      BY <1>2, <1>4, <2>2, <2>3 DEF KeepsItems, w, b
  <1> QED
    BY <1>1, <1>3, <1>4
=============================================================================
