--------------------------- MODULE MemBlockQProofs ---------------------------
(***************************************************************************)
(* After every sequence of calls, for every frame size, all attributes and *)
(* all data: the accounting of a memblockq balances, its attributes are    *)
(* consistent, its list of items is sound, and what a rewind may reach is  *)
(* still there.                                                            *)
(***************************************************************************)
EXTENDS MemBlockQ, MemBlockQFacts

IsQueue(r) ==
    /\ Shape(r)
    /\ r.base = Base
    /\ r.read_index \in Int /\ r.write_index \in Int
    /\ r.maxlength \in Int /\ r.tlength \in Int
    /\ r.prebuf \in Int /\ r.minreq \in Int
    /\ r.missing \in Int /\ r.requested \in Int

Balance(r) ==
    (r.write_index - r.read_index) + r.missing + r.requested - r.tlength

\* A call that leaves the balance as it was.
Keeps(r, s) == IsQueue(s) /\ Balance(s) = Balance(r)

-----------------------------------------------------------------------------
(* Rounding and clamping.                                                  *)

\* Rounding to a multiple of the base gives an integer.
LEMMA RoundTypes ==
    ASSUME NEW r, IsQueue(r), NEW x \in Int
    PROVE  RoundUp(r, x) \in Int /\ RoundDown(r, x) \in Int
  <1>1. Base \in Nat \ {0} /\ r.base = Base
    BY QueueAssumption DEF IsQueue
  <1>2. (x + Base - 1) \div Base \in Int /\ x \div Base \in Int
    BY <1>1
  <1> QED
    BY <1>1, <1>2 DEF RoundUp, RoundDown

\* So do the bounds on prebuf.
LEMMA PrebufMaxType ==
    ASSUME NEW r, IsQueue(r)
    PROVE  PrebufMax(r) \in Int
  BY QueueAssumption DEF PrebufMax, IsQueue

-----------------------------------------------------------------------------
(* Assignments to single fields.                                           *)

\* What the balance does not count.
LEMMA SetOther ==
    ASSUME NEW r, IsQueue(r), NEW v, NEW s,
           \/ s = [r EXCEPT !.blocks = v]
           \/ s = [r EXCEPT !.in_prebuf = v]
           \/ s = [r EXCEPT !.maxrewind = v]
    PROVE  /\ Keeps(r, s)
           /\ s.read_index = r.read_index /\ s.write_index = r.write_index
           /\ s.missing = r.missing /\ s.requested = r.requested
  <1>1. CASE s = [r EXCEPT !.blocks = v]
    <2>1. Shape(s)
      BY <1>1 DEF IsQueue, Shape
    <2>2. /\ s.read_index = r.read_index /\ s.write_index = r.write_index
          /\ s.maxlength = r.maxlength /\ s.tlength = r.tlength
          /\ s.prebuf = r.prebuf /\ s.minreq = r.minreq
          /\ s.missing = r.missing /\ s.requested = r.requested
          /\ s.base = r.base
      BY <1>1 DEF IsQueue, Shape
    <2> QED
      BY <2>1, <2>2 DEF IsQueue, Balance, Keeps
  <1>2. CASE s = [r EXCEPT !.in_prebuf = v]
    <2>1. Shape(s)
      BY <1>2 DEF IsQueue, Shape
    <2>2. /\ s.read_index = r.read_index /\ s.write_index = r.write_index
          /\ s.maxlength = r.maxlength /\ s.tlength = r.tlength
          /\ s.prebuf = r.prebuf /\ s.minreq = r.minreq
          /\ s.missing = r.missing /\ s.requested = r.requested
          /\ s.base = r.base
      BY <1>2 DEF IsQueue, Shape
    <2> QED
      BY <2>1, <2>2 DEF IsQueue, Balance, Keeps
  <1>3. CASE s = [r EXCEPT !.maxrewind = v]
    <2>1. Shape(s)
      BY <1>3 DEF IsQueue, Shape
    <2>2. /\ s.read_index = r.read_index /\ s.write_index = r.write_index
          /\ s.maxlength = r.maxlength /\ s.tlength = r.tlength
          /\ s.prebuf = r.prebuf /\ s.minreq = r.minreq
          /\ s.missing = r.missing /\ s.requested = r.requested
          /\ s.base = r.base
      BY <1>3 DEF IsQueue, Shape
    <2> QED
      BY <2>1, <2>2 DEF IsQueue, Balance, Keeps
  <1> QED
    BY <1>1, <1>2, <1>3

\* The read index, alone or with in_prebuf.
LEMMA SetRead ==
    ASSUME NEW r, IsQueue(r), NEW v \in Int, NEW b, NEW s,
           \/ s = [r EXCEPT !.read_index = v]
           \/ s = [r EXCEPT !.read_index = v, !.in_prebuf = b]
    PROVE  /\ IsQueue(s) /\ s.read_index = v
           /\ Balance(s) = Balance(r) - (v - r.read_index)
  <1>1. CASE s = [r EXCEPT !.read_index = v]
    <2>1. Shape(s)
      BY <1>1 DEF IsQueue, Shape
    <2>2. /\ s.read_index = v /\ s.write_index = r.write_index
          /\ s.maxlength = r.maxlength /\ s.tlength = r.tlength
          /\ s.prebuf = r.prebuf /\ s.minreq = r.minreq
          /\ s.missing = r.missing /\ s.requested = r.requested
          /\ s.base = r.base
      BY <1>1 DEF IsQueue, Shape
    <2> QED
      BY <2>1, <2>2 DEF IsQueue, Balance, Keeps
  <1>2. CASE s = [r EXCEPT !.read_index = v, !.in_prebuf = b]
    <2>1. Shape(s)
      BY <1>2 DEF IsQueue, Shape
    <2>2. /\ s.read_index = v /\ s.write_index = r.write_index
          /\ s.maxlength = r.maxlength /\ s.tlength = r.tlength
          /\ s.prebuf = r.prebuf /\ s.minreq = r.minreq
          /\ s.missing = r.missing /\ s.requested = r.requested
          /\ s.base = r.base
      BY <1>2 DEF IsQueue, Shape
    <2> QED
      BY <2>1, <2>2 DEF IsQueue, Balance, Keeps
  <1> QED
    BY <1>1, <1>2

\* The write index, alone or with the items.
LEMMA SetWrite ==
    ASSUME NEW r, IsQueue(r), NEW v \in Int, NEW b, NEW s,
           \/ s = [r EXCEPT !.write_index = v]
           \/ s = [r EXCEPT !.blocks = b, !.write_index = v]
    PROVE  /\ IsQueue(s) /\ s.write_index = v
           /\ Balance(s) = Balance(r) + (v - r.write_index)
  <1>1. CASE s = [r EXCEPT !.write_index = v]
    <2>1. Shape(s)
      BY <1>1 DEF IsQueue, Shape
    <2>2. /\ s.write_index = v /\ s.read_index = r.read_index
          /\ s.maxlength = r.maxlength /\ s.tlength = r.tlength
          /\ s.prebuf = r.prebuf /\ s.minreq = r.minreq
          /\ s.missing = r.missing /\ s.requested = r.requested
          /\ s.base = r.base
      BY <1>1 DEF IsQueue, Shape
    <2> QED
      BY <2>1, <2>2 DEF IsQueue, Balance, Keeps
  <1>2. CASE s = [r EXCEPT !.blocks = b, !.write_index = v]
    <2>1. Shape(s)
      BY <1>2 DEF IsQueue, Shape
    <2>2. /\ s.write_index = v /\ s.read_index = r.read_index
          /\ s.maxlength = r.maxlength /\ s.tlength = r.tlength
          /\ s.prebuf = r.prebuf /\ s.minreq = r.minreq
          /\ s.missing = r.missing /\ s.requested = r.requested
          /\ s.base = r.base
      BY <1>2 DEF IsQueue, Shape
    <2> QED
      BY <2>1, <2>2 DEF IsQueue, Balance, Keeps
  <1> QED
    BY <1>1, <1>2

\* The counter of what has not been asked for.
LEMMA SetMissing ==
    ASSUME NEW r, IsQueue(r), NEW m \in Int, NEW s,
           s = [r EXCEPT !.missing = m]
    PROVE  IsQueue(s) /\ Balance(s) = Balance(r) + (m - r.missing)
  <1>1. Shape(s)
    BY DEF IsQueue, Shape
  <1>2. /\ s.missing = m /\ s.read_index = r.read_index
        /\ s.write_index = r.write_index /\ s.maxlength = r.maxlength
        /\ s.tlength = r.tlength /\ s.prebuf = r.prebuf
        /\ s.minreq = r.minreq /\ s.requested = r.requested
        /\ s.base = r.base
    BY DEF IsQueue, Shape
  <1> QED
    BY <1>1, <1>2 DEF IsQueue, Balance, Keeps

\* The counter of what has been asked for.
LEMMA SetRequested ==
    ASSUME NEW r, IsQueue(r), NEW n \in Int, NEW s,
           s = [r EXCEPT !.requested = n]
    PROVE  IsQueue(s) /\ Balance(s) = Balance(r) + (n - r.requested)
  <1>1. Shape(s)
    BY DEF IsQueue, Shape
  <1>2. /\ s.requested = n /\ s.read_index = r.read_index
        /\ s.write_index = r.write_index /\ s.maxlength = r.maxlength
        /\ s.tlength = r.tlength /\ s.prebuf = r.prebuf
        /\ s.minreq = r.minreq /\ s.missing = r.missing
        /\ s.base = r.base
    BY DEF IsQueue, Shape
  <1> QED
    BY <1>1, <1>2 DEF IsQueue, Balance, Keeps

\* Both counters.
LEMMA SetCounters ==
    ASSUME NEW r, IsQueue(r), NEW m \in Int, NEW n \in Int, NEW s,
           s = [r EXCEPT !.requested = n, !.missing = m]
    PROVE  /\ IsQueue(s)
           /\ Balance(s) = Balance(r) + (m - r.missing) + (n - r.requested)
  <1>1. Shape(s)
    BY DEF IsQueue, Shape
  <1>2. /\ s.missing = m /\ s.requested = n
        /\ s.read_index = r.read_index /\ s.write_index = r.write_index
        /\ s.maxlength = r.maxlength /\ s.tlength = r.tlength
        /\ s.prebuf = r.prebuf /\ s.minreq = r.minreq
        /\ s.base = r.base
    BY DEF IsQueue, Shape
  <1> QED
    BY <1>1, <1>2 DEF IsQueue, Balance, Keeps

\* A limit on the queue, prebuf together with in_prebuf.
LEMMA SetLimit ==
    ASSUME NEW r, IsQueue(r), NEW v \in Int, NEW b, NEW s,
           \/ s = [r EXCEPT !.prebuf = v, !.in_prebuf = b]
           \/ s = [r EXCEPT !.minreq = v]
           \/ s = [r EXCEPT !.maxlength = v]
    PROVE  Keeps(r, s)
  <1>1. Shape(s)
    BY DEF IsQueue, Shape
  <1>2. /\ s.read_index = r.read_index /\ s.write_index = r.write_index
        /\ s.tlength = r.tlength /\ s.base = r.base
        /\ s.missing = r.missing /\ s.requested = r.requested
    BY DEF IsQueue, Shape
  <1>3. /\ s.prebuf \in {r.prebuf, v} /\ s.minreq \in {r.minreq, v}
        /\ s.maxlength \in {r.maxlength, v}
    BY DEF IsQueue, Shape
  <1> QED
    BY <1>1, <1>2, <1>3 DEF IsQueue, Balance, Keeps

\* The target length.
LEMMA SetTlength ==
    ASSUME NEW r, IsQueue(r), NEW v \in Int, NEW s,
           s = [r EXCEPT !.tlength = v]
    PROVE  IsQueue(s) /\ Balance(s) = Balance(r) + (r.tlength - v)
  <1>1. Shape(s)
    BY DEF IsQueue, Shape
  <1>2. /\ s.tlength = v /\ s.read_index = r.read_index
        /\ s.write_index = r.write_index /\ s.maxlength = r.maxlength
        /\ s.prebuf = r.prebuf /\ s.minreq = r.minreq
        /\ s.missing = r.missing /\ s.requested = r.requested
        /\ s.base = r.base
    BY DEF IsQueue, Shape
  <1> QED
    BY <1>1, <1>2 DEF IsQueue, Balance

\* The indices are integers.
LEMMA Indices ==
    ASSUME NEW r, IsQueue(r)
    PROVE  /\ r.read_index \in Int /\ r.write_index \in Int
           /\ r.missing \in Int /\ r.requested \in Int
           /\ r.tlength \in Int /\ Balance(r) \in Int
  BY DEF IsQueue, Balance

-----------------------------------------------------------------------------
(* One lemma per call.                                                     *)

\* pa_memblockq_set_prebuf
LEMMA PrebufKeeps ==
    ASSUME NEW r, IsQueue(r), NEW x \in Int
    PROVE  Keeps(r, pa_memblockq_set_prebuf(r, x))
  <1> DEFINE wanted == IF x = -1 THEN PrebufMax(r) ELSE x
             p == AtMost(RoundUp(r, wanted), PrebufMax(r))
  <1>1. p \in Int
    BY PrebufMaxType, RoundTypes DEF AtMost
  <1> HIDE DEF p
  <1>2. pa_memblockq_set_prebuf(r, x) =
          [r EXCEPT !.prebuf = p,
                    !.in_prebuf = r.in_prebuf /\ p > 0
                                  /\ pa_memblockq_get_length(r) < p]
    BY DEF pa_memblockq_set_prebuf, p
  <1> QED
    BY <1>1, <1>2, SetLimit

\* The clamping of prebuf after tlength or minreq changed.
LEMMA ClampKeeps ==
    ASSUME NEW r, IsQueue(r)
    PROVE  Keeps(r, ClampPrebuf(r))
  BY PrebufKeeps, PrebufMaxType DEF ClampPrebuf, Keeps

\* pa_memblockq_set_minreq
LEMMA MinreqKeeps ==
    ASSUME NEW r, IsQueue(r), NEW x \in Int
    PROVE  Keeps(r, pa_memblockq_set_minreq(r, x))
  <1> DEFINE m == AtLeast(AtMost(RoundDown(r, x), r.tlength), r.base)
             s == [r EXCEPT !.minreq = m]
  <1>1. m \in Int
    BY RoundTypes, QueueAssumption DEF AtLeast, AtMost, IsQueue
  <1> HIDE DEF m
  <1>2. IsQueue(s) /\ Balance(s) = Balance(r)
    BY <1>1, SetLimit DEF Keeps
  <1>3. pa_memblockq_set_minreq(r, x) = ClampPrebuf(s)
    BY DEF pa_memblockq_set_minreq, m
  <1> HIDE DEF s
  <1> QED
    BY <1>2, <1>3, ClampKeeps DEF Keeps

\* pa_memblockq_set_tlength: what the target gains is missing.
LEMMA TlengthKeeps ==
    ASSUME NEW r, IsQueue(r), NEW x \in Int
    PROVE  Keeps(r, pa_memblockq_set_tlength(r, x))
  <1> DEFINE t == AtMost(RoundUp(r, IF x <= 0 THEN r.maxlength ELSE x),
                         r.maxlength)
             s1 == [r EXCEPT !.tlength = t]
             s2 == IF s1.minreq > t THEN pa_memblockq_set_minreq(s1, t) ELSE s1
             s3 == ClampPrebuf(s2)
  <1>1. t \in Int
    BY RoundTypes DEF AtMost, IsQueue
  <1> HIDE DEF t
  <1>2. IsQueue(s1) /\ Balance(s1) = Balance(r) + (r.tlength - t)
    BY <1>1, SetTlength
  <1>3. pa_memblockq_set_tlength(r, x) =
          [s3 EXCEPT !.missing = s3.missing + t - r.tlength]
    BY DEF pa_memblockq_set_tlength, t
  <1> HIDE DEF s1
  <1>4. Keeps(s1, s2)
    BY <1>1, <1>2, MinreqKeeps DEF Keeps
  <1> HIDE DEF s2
  <1>5. Keeps(s2, s3)
    BY <1>4, ClampKeeps DEF Keeps
  <1> HIDE DEF s3
  <1>6. IsQueue(s3) /\ Balance(s3) = Balance(r) + (r.tlength - t)
    BY <1>2, <1>4, <1>5 DEF Keeps
  <1> DEFINE m == s3.missing + t - r.tlength
             s4 == [s3 EXCEPT !.missing = m]
  <1>7. m \in Int /\ m - s3.missing = t - r.tlength
    BY <1>1, <1>6, Indices
  <1> HIDE DEF m
  <1>8. IsQueue(s4) /\ Balance(s4) = Balance(s3) + (m - s3.missing)
    BY <1>6, <1>7, SetMissing
  <1>9. pa_memblockq_set_tlength(r, x) = s4
    BY <1>3 DEF m
  <1> HIDE DEF s4
  <1> QED
    BY <1>1, <1>6, <1>7, <1>8, <1>9, Indices DEF Keeps

\* pa_memblockq_set_maxlength
LEMMA MaxlengthKeeps ==
    ASSUME NEW r, IsQueue(r), NEW x \in Int
    PROVE  Keeps(r, pa_memblockq_set_maxlength(r, x))
  <1> DEFINE m == AtLeast(RoundUp(r, x), r.base)
             s == [r EXCEPT !.maxlength = m]
  <1>1. m \in Int
    BY RoundTypes, QueueAssumption DEF AtLeast, IsQueue
  <1> HIDE DEF m
  <1>2. IsQueue(s) /\ Balance(s) = Balance(r)
    BY <1>1, SetLimit DEF Keeps
  <1>3. pa_memblockq_set_maxlength(r, x) =
          IF s.tlength > m THEN pa_memblockq_set_tlength(s, m) ELSE s
    BY DEF pa_memblockq_set_maxlength, m
  <1> HIDE DEF s
  <1> QED
    BY <1>1, <1>2, <1>3, TlengthKeeps DEF Keeps

\* pa_memblockq_set_maxrewind and the calls about prebuffering.
LEMMA PrebufCallsKeep ==
    ASSUME NEW r, IsQueue(r), NEW x
    PROVE  /\ Keeps(r, pa_memblockq_set_maxrewind(r, x))
           /\ Keeps(r, update_prebuf(r))
           /\ Keeps(r, pa_memblockq_prebuf_disable(r))
           /\ Keeps(r, pa_memblockq_prebuf_force(r))
           /\ Keeps(r, drop_backlog(r))
           /\ Keeps(r, pa_memblockq_silence(r))
  <1>1. Keeps(r, pa_memblockq_set_maxrewind(r, x))
    BY SetOther DEF pa_memblockq_set_maxrewind
  <1>2. Keeps(r, update_prebuf(r))
    BY SetOther DEF update_prebuf
  <1>3. Keeps(r, pa_memblockq_prebuf_disable(r))
    BY SetOther DEF pa_memblockq_prebuf_disable
  <1>4. Keeps(r, pa_memblockq_prebuf_force(r))
    BY SetOther DEF pa_memblockq_prebuf_force
  <1>5. Keeps(r, drop_backlog(r))
    BY SetOther DEF drop_backlog
  <1>6. Keeps(r, pa_memblockq_silence(r))
    BY SetOther DEF pa_memblockq_silence
  <1> QED
    BY <1>1, <1>2, <1>3, <1>4, <1>5, <1>6

\* drop_backlog and prebuf_force leave both indices alone.
LEMMA IndicesStay ==
    ASSUME NEW r, IsQueue(r)
    PROVE  /\ drop_backlog(r).read_index = r.read_index
           /\ drop_backlog(r).write_index = r.write_index
           /\ pa_memblockq_prebuf_force(r).read_index = r.read_index
           /\ pa_memblockq_prebuf_force(r).write_index = r.write_index
  <1>1. /\ drop_backlog(r).read_index = r.read_index
        /\ drop_backlog(r).write_index = r.write_index
    BY SetOther DEF drop_backlog
  <1>2. /\ pa_memblockq_prebuf_force(r).read_index = r.read_index
        /\ pa_memblockq_prebuf_force(r).write_index = r.write_index
    BY SetOther DEF pa_memblockq_prebuf_force
  <1> QED
    BY <1>1, <1>2

\* pa_memblockq_pop_missing moves from missing to requested.
LEMMA PopMissingKeeps ==
    ASSUME NEW r, IsQueue(r)
    PROVE  Keeps(r, pa_memblockq_pop_missing(r))
  <1> DEFINE l == MissingToRequest(r)
  <1>1. l \in Int
    BY Indices DEF MissingToRequest
  <1>2. pa_memblockq_pop_missing(r) =
          [r EXCEPT !.requested = r.requested + l, !.missing = r.missing - l]
    BY DEF pa_memblockq_pop_missing, IsQueue
  <1> HIDE DEF l
  <1>3. r.requested + l \in Int /\ r.missing - l \in Int
    BY <1>1, Indices
  <1> DEFINE s == pa_memblockq_pop_missing(r)
  <1>4. /\ IsQueue(s)
        /\ Balance(s) = Balance(r) + ((r.missing - l) - r.missing)
                                  + ((r.requested + l) - r.requested)
    BY <1>2, <1>3, SetCounters
  <1> HIDE DEF s
  <1>5. Balance(s) = Balance(r)
    BY <1>1, <1>4, Indices
  <1> QED
    BY <1>4, <1>5 DEF Keeps, s

\* Moving the write index is paid for by requested or by missing.
LEMMA WriteKeeps ==
    ASSUME NEW r, IsQueue(r), NEW s, IsQueue(s),
           Balance(s) = Balance(r) + (s.write_index - r.write_index),
           NEW account
    PROVE  Keeps(r, write_index_changed(s, r.write_index, account))
  <1> DEFINE d == s.write_index - r.write_index
  <1>1. d \in Int /\ s.requested - d \in Int /\ s.missing - d \in Int
    BY Indices
  <1>2. write_index_changed(s, r.write_index, account) =
          IF account THEN [s EXCEPT !.requested = s.requested - d]
                     ELSE [s EXCEPT !.missing = s.missing - d]
    BY DEF write_index_changed
  <1> DEFINE a == [s EXCEPT !.requested = s.requested - d]
             b == [s EXCEPT !.missing = s.missing - d]
  <1>3. IsQueue(a) /\ Balance(a) = Balance(s) - d
    <2>1. /\ IsQueue(a)
          /\ Balance(a) = Balance(s) + ((s.requested - d) - s.requested)
      BY <1>1, SetRequested
    <2> QED
      BY <1>1, <2>1, Indices
  <1>4. IsQueue(b) /\ Balance(b) = Balance(s) - d
    <2>1. /\ IsQueue(b)
          /\ Balance(b) = Balance(s) + ((s.missing - d) - s.missing)
      BY <1>1, SetMissing
    <2> QED
      BY <1>1, <2>1, Indices
  <1> HIDE DEF a, b
  <1>5. write_index_changed(s, r.write_index, account) \in {a, b}
    BY <1>2 DEF a, b
  <1>6. Balance(s) - d = Balance(r)
    BY <1>1, Indices
  <1> QED
    BY <1>3, <1>4, <1>5, <1>6 DEF Keeps

\* Moving the read index is paid for by missing.
LEMMA ReadKeeps ==
    ASSUME NEW r, IsQueue(r), NEW s, IsQueue(s),
           Balance(s) = Balance(r) - (s.read_index - r.read_index)
    PROVE  Keeps(r, read_index_changed(s, r.read_index))
  <1> DEFINE m == s.missing + s.read_index - r.read_index
  <1>1. m \in Int
    BY Indices
  <1>2. read_index_changed(s, r.read_index) = [s EXCEPT !.missing = m]
    BY DEF read_index_changed
  <1> DEFINE a == [s EXCEPT !.missing = m]
  <1>3. m - s.missing = s.read_index - r.read_index
    BY Indices
  <1> HIDE DEF m
  <1>4. IsQueue(a) /\ Balance(a) = Balance(s) + (m - s.missing)
    BY <1>1, SetMissing
  <1>5. Balance(a) = Balance(r)
    BY <1>3, <1>4, Indices
  <1> QED
    BY <1>2, <1>4, <1>5 DEF Keeps

\* pa_memblockq_push, accepted or refused.
LEMMA PushKeeps ==
    ASSUME NEW r, IsQueue(r), NEW c, c.length \in Int
    PROVE  Keeps(r, pa_memblockq_push(r, c))
  <1> DEFINE w == r.write_index + c.length
             b == Written(r, c)
             s == [r EXCEPT !.blocks = b, !.write_index = w]
  <1>1. pa_memblockq_push(r, c) =
          IF ~can_push(r, c.length) THEN r
          ELSE write_index_changed(s, r.write_index, TRUE)
    BY DEF pa_memblockq_push
  <1>2. w \in Int
    BY Indices
  <1> HIDE DEF w, b
  <1>3. /\ IsQueue(s) /\ s.write_index = w
        /\ Balance(s) = Balance(r) + (w - r.write_index)
    BY <1>2, SetWrite
  <1> HIDE DEF s
  <1>4. Keeps(r, write_index_changed(s, r.write_index, TRUE))
    BY <1>3, WriteKeeps
  <1> QED
    BY <1>1, <1>4 DEF Keeps

\* pa_memblockq_seek, in every mode.
LEMMA SeekKeeps ==
    ASSUME NEW r, IsQueue(r), NEW offset, NEW mode, NEW account,
           pa_memblockq_seek(r, offset, mode, account).write_index \in Int
    PROVE  Keeps(r, pa_memblockq_seek(r, offset, mode, account))
  <1> DEFINE w == CASE mode = "RELATIVE" -> r.write_index + offset
                    [] mode = "ABSOLUTE" -> offset
                    [] mode = "RELATIVE_ON_READ" -> r.read_index + offset
                    [] mode = "RELATIVE_END" -> TailEnd(r, r.read_index) + offset
             s1 == [r EXCEPT !.write_index = w]
             s2 == drop_backlog(s1)
             s3 == write_index_changed(s2, r.write_index, account)
  <1>1. pa_memblockq_seek(r, offset, mode, account) = s3
    BY DEF pa_memblockq_seek
  <1> HIDE DEF w
  <1>2. s3.write_index = w
    BY DEF write_index_changed, drop_backlog, IsQueue, Shape
  <1>3. w \in Int
    BY <1>1, <1>2
  <1>4. /\ IsQueue(s1) /\ s1.write_index = w
        /\ Balance(s1) = Balance(r) + (w - r.write_index)
    BY <1>3, SetWrite
  <1> HIDE DEF s1
  <1>5. Keeps(s1, s2) /\ s2.write_index = w
    BY <1>4, PrebufCallsKeep, IndicesStay
  <1> HIDE DEF s2
  <1>6. Keeps(r, s3)
    BY <1>4, <1>5, WriteKeeps DEF Keeps
  <1> QED
    BY <1>1, <1>6

\* pa_memblockq_drop, which may stop early.
LEMMA DropKeeps ==
    ASSUME NEW r, IsQueue(r), NEW l,
           pa_memblockq_drop(r, l).read_index \in Int
    PROVE  Keeps(r, pa_memblockq_drop(r, l))
  <1> DEFINE s1 == IF l > 0 THEN update_prebuf(r) ELSE r
             stop == FirstStop(s1, l)
             s2 == IF l = 0 \/ s1.in_prebuf THEN s1
                   ELSE IF DropStops(s1, l) = {}
                   THEN [s1 EXCEPT !.read_index = s1.read_index + l]
                   ELSE [s1 EXCEPT !.read_index = stop, !.in_prebuf = TRUE]
             s3 == drop_backlog(s2)
  <1>1. pa_memblockq_drop(r, l) = read_index_changed(s3, r.read_index)
    BY DEF pa_memblockq_drop
  <1>2. Keeps(r, s1) /\ s1.read_index = r.read_index
    BY SetOther DEF Keeps, update_prebuf
  <1> HIDE DEF s1, stop
  <1>3. pa_memblockq_drop(r, l).read_index = s2.read_index
    BY <1>1, <1>2 DEF read_index_changed, drop_backlog, IsQueue, Shape, Keeps
  <1>4. /\ IsQueue(s2)
        /\ Balance(s2) = Balance(s1) - (s2.read_index - s1.read_index)
    <2>1. CASE s2 = s1
      <3> HIDE DEF s2
      <3> QED
        BY <1>2, <2>1, Indices DEF Keeps
    <2>2. CASE s2 = [s1 EXCEPT !.read_index = s1.read_index + l]
      <3> DEFINE v == s1.read_index + l
      <3>1. s2.read_index = v
        BY <1>2, <2>2 DEF Keeps, IsQueue, Shape
      <3>2. v \in Int
        BY <1>3, <3>1
      <3> HIDE DEF v
      <3>3. s2 = [s1 EXCEPT !.read_index = v]
        BY <2>2 DEF v
      <3> HIDE DEF s2
      <3> QED
        BY <1>2, <3>1, <3>2, <3>3, SetRead DEF Keeps
    <2>3. CASE s2 = [s1 EXCEPT !.read_index = stop, !.in_prebuf = TRUE]
      <3>1. s2.read_index = stop
        BY <1>2, <2>3 DEF Keeps, IsQueue, Shape
      <3>2. stop \in Int
        BY <1>3, <3>1
      <3> HIDE DEF s2
      <3>3. IsQueue(s1)
        BY <1>2 DEF Keeps
      <3>4. /\ IsQueue(s2)
            /\ Balance(s2) = Balance(s1) - (stop - s1.read_index)
        <4> DEFINE yes == TRUE
        <4>1. s2 = [s1 EXCEPT !.read_index = stop, !.in_prebuf = yes]
          BY <2>3
        <4> HIDE DEF yes
        <4> QED
          BY <3>2, <3>3, <4>1, SetRead
      <3> QED
        BY <3>1, <3>4
    <2> QED
      BY <2>1, <2>2, <2>3
  <1> HIDE DEF s2
  <1>5. Keeps(s2, s3) /\ s3.read_index = s2.read_index
    BY <1>4, PrebufCallsKeep, IndicesStay
  <1> HIDE DEF s3
  <1> QED
    BY <1>1, <1>2, <1>4, <1>5, ReadKeeps DEF Keeps

\* pa_memblockq_rewind
LEMMA RewindKeeps ==
    ASSUME NEW r, IsQueue(r), NEW l \in Int
    PROVE  Keeps(r, pa_memblockq_rewind(r, l))
  <1> DEFINE v == r.read_index - l
             s == [r EXCEPT !.read_index = v]
  <1>1. pa_memblockq_rewind(r, l) = read_index_changed(s, r.read_index)
    BY DEF pa_memblockq_rewind
  <1>2. v \in Int
    BY Indices
  <1> HIDE DEF v
  <1>3. /\ IsQueue(s) /\ s.read_index = v
        /\ Balance(s) = Balance(r) - (v - r.read_index)
    BY <1>2, SetRead
  <1> HIDE DEF s
  <1> QED
    BY <1>1, <1>3, ReadKeeps

\* pa_memblockq_flush_write and pa_memblockq_flush_read
LEMMA FlushKeeps ==
    ASSUME NEW r, IsQueue(r), NEW account
    PROVE  /\ Keeps(r, pa_memblockq_flush_write(r, account))
           /\ Keeps(r, pa_memblockq_flush_read(r))
  <1> DEFINE e == pa_memblockq_silence(r)
             sw == [e EXCEPT !.write_index = r.read_index]
             sr == [e EXCEPT !.read_index = r.write_index]
             fw == pa_memblockq_prebuf_force(sw)
             fr == pa_memblockq_prebuf_force(sr)
  <1>1. /\ pa_memblockq_flush_write(r, account) =
             write_index_changed(fw, r.write_index, account)
        /\ pa_memblockq_flush_read(r) = read_index_changed(fr, r.read_index)
    BY DEF pa_memblockq_flush_write, pa_memblockq_flush_read
  <1>2. /\ Keeps(r, e)
        /\ e.read_index = r.read_index /\ e.write_index = r.write_index
    BY SetOther DEF pa_memblockq_silence
  <1> HIDE DEF e
  <1>3. /\ IsQueue(sw) /\ sw.write_index = r.read_index
        /\ Balance(sw) = Balance(r) + (sw.write_index - r.write_index)
    <2>1. r.read_index \in Int /\ IsQueue(e)
      BY <1>2, Indices DEF Keeps
    <2>2. /\ IsQueue(sw) /\ sw.write_index = r.read_index
          /\ Balance(sw) = Balance(e) + (r.read_index - e.write_index)
      BY <2>1, SetWrite
    <2> QED
      BY <1>2, <2>2 DEF Keeps
  <1>4. /\ IsQueue(sr) /\ sr.read_index = r.write_index
        /\ Balance(sr) = Balance(r) - (sr.read_index - r.read_index)
    <2>1. r.write_index \in Int /\ IsQueue(e)
      BY <1>2, Indices DEF Keeps
    <2>2. /\ IsQueue(sr) /\ sr.read_index = r.write_index
          /\ Balance(sr) = Balance(e) - (r.write_index - e.read_index)
      BY <2>1, SetRead
    <2> QED
      BY <1>2, <2>2 DEF Keeps
  <1> HIDE DEF sw, sr
  <1>5. Keeps(sw, fw) /\ fw.write_index = sw.write_index
    BY <1>3, PrebufCallsKeep, IndicesStay
  <1>6. Keeps(sr, fr) /\ fr.read_index = sr.read_index
    BY <1>4, PrebufCallsKeep, IndicesStay
  <1> HIDE DEF fw, fr
  <1>7. Keeps(r, pa_memblockq_flush_write(r, account))
    BY <1>1, <1>3, <1>5, WriteKeeps DEF Keeps
  <1>8. Keeps(r, pa_memblockq_flush_read(r))
    BY <1>1, <1>4, <1>6, ReadKeeps DEF Keeps
  <1> QED
    BY <1>7, <1>8

\* pa_memblockq_new sets the attributes of a queue of length zero.
LEMMA NewKeeps ==
    ASSUME NEW maxlength \in Int, NEW tlength \in Int, NEW prebuf \in Int,
           NEW minreq \in Int, NEW maxrewind \in Int, NEW silence
    PROVE  LET n == pa_memblockq_new(0, maxlength, tlength, Base, prebuf,
                                     minreq, maxrewind, silence)
           IN IsQueue(n) /\ Balance(n) = 0
  <1> DEFINE zero == [blocks |-> {}, read_index |-> 0, write_index |-> 0,
                      in_prebuf |-> TRUE, base |-> Base, maxlength |-> 0,
                      tlength |-> 0, prebuf |-> 0, minreq |-> 0,
                      maxrewind |-> 0, missing |-> 0, requested |-> 0,
                      silence |-> silence]
             s1 == pa_memblockq_set_maxlength(zero, maxlength)
             s2 == pa_memblockq_set_tlength(s1, tlength)
             s3 == pa_memblockq_set_minreq(s2, minreq)
             s4 == pa_memblockq_set_prebuf(s3, prebuf)
             s5 == pa_memblockq_set_maxrewind(s4, maxrewind)
  <1>1. pa_memblockq_new(0, maxlength, tlength, Base, prebuf, minreq,
                         maxrewind, silence) = s5
    BY DEF pa_memblockq_new
  <1>2. IsQueue(zero) /\ Balance(zero) = 0
    BY QueueAssumption DEF IsQueue, Shape, Balance
  <1> HIDE DEF zero
  <1>3. Keeps(zero, s1)
    BY <1>2, MaxlengthKeeps
  <1> HIDE DEF s1
  <1>4. Keeps(s1, s2)
    BY <1>3, TlengthKeeps DEF Keeps
  <1> HIDE DEF s2
  <1>5. Keeps(s2, s3)
    BY <1>4, MinreqKeeps DEF Keeps
  <1> HIDE DEF s3
  <1>6. Keeps(s3, s4)
    BY <1>5, PrebufKeeps DEF Keeps
  <1> HIDE DEF s4
  <1>7. Keeps(s4, s5)
    BY <1>6, PrebufCallsKeep DEF Keeps
  <1> HIDE DEF s5
  <1> QED
    BY <1>1, <1>2, <1>3, <1>4, <1>5, <1>6, <1>7 DEF Keeps

-----------------------------------------------------------------------------
(* Every sequence of calls.                                                *)

\* The inductive invariant: a queue with integer fields whose books balance.
BalanceInv == IsQueue(q) /\ Balance(q) = 0

\* A new queue balances.
LEMMA BalanceInit == MbqInit => BalanceInv
  <1> SUFFICES ASSUME MbqInit PROVE BalanceInv
    OBVIOUS
  <1>1. PICK a \in Attributes :
           q = pa_memblockq_new(0, a.maxlength, a.tlength, Base, a.prebuf,
                                a.minreq, a.maxrewind, NullChunk)
    BY DEF MbqInit
  <1>2. /\ a.maxlength \in Int /\ a.tlength \in Int /\ a.prebuf \in Int
        /\ a.minreq \in Int /\ a.maxrewind \in Int
    BY QueueAssumption
  <1> QED
    BY <1>1, <1>2, NewKeeps DEF BalanceInv

\* Indices within the bounds of the model are integers.
LEMMA BoundedIndices ==
    ASSUME NEW r, InBounds(r)
    PROVE  r.read_index \in Int /\ r.write_index \in Int
  BY QueueAssumption DEF InBounds

\* The calls that move an index keep the books balanced.
LEMMA MoveKeeps == BalanceInv /\ Move => Keeps(q, q')
  <1> SUFFICES ASSUME BalanceInv, Move PROVE Keeps(q, q')
    OBVIOUS
  <1>0. IsQueue(q)
    BY DEF BalanceInv
  <1>1. ASSUME NEW l \in Aligned(MaxIndex), Becomes(pa_memblockq_drop(q, l))
        PROVE  Keeps(q, q')
    BY <1>0, <1>1, BoundedIndices, DropKeeps DEF Becomes
  <1>2. ASSUME NEW l \in Aligned(MaxIndex), Becomes(pa_memblockq_rewind(q, l))
        PROVE  Keeps(q, q')
    <2>1. l \in Int
      BY QueueAssumption DEF Aligned
    <2> QED
      BY <1>0, <1>2, <2>1, RewindKeeps DEF Becomes
  <1>3. ASSUME NEW offset, NEW mode, NEW account,
               Becomes(pa_memblockq_seek(q, offset, mode, account))
        PROVE  Keeps(q, q')
    BY <1>0, <1>3, BoundedIndices, SeekKeeps DEF Becomes
  <1>4. ASSUME NEW account, Becomes(pa_memblockq_flush_write(q, account))
        PROVE  Keeps(q, q')
    BY <1>0, <1>4, FlushKeeps DEF Becomes
  <1>5. CASE Becomes(pa_memblockq_flush_read(q))
    BY <1>0, <1>5, FlushKeeps DEF Becomes
  <1>6. CASE Becomes(pa_memblockq_silence(q))
    BY <1>0, <1>6, PrebufCallsKeep DEF Becomes
  <1> QED
    BY <1>1, <1>2, <1>3, <1>4, <1>5, <1>6 DEF Move, Flush

\* The calls about prebuffering and requests keep the books balanced.
LEMMA RequestKeeps == BalanceInv /\ Request => Keeps(q, q')
  <1> SUFFICES ASSUME BalanceInv, Request PROVE Keeps(q, q')
    OBVIOUS
  <1>0. IsQueue(q)
    BY DEF BalanceInv
  <1>1. CASE Becomes(pa_memblockq_pop_missing(q))
    BY <1>0, <1>1, PopMissingKeeps DEF Becomes
  <1>2. CASE Becomes(update_prebuf(q))
    BY <1>0, <1>2, PrebufCallsKeep DEF Becomes
  <1>3. CASE Becomes(pa_memblockq_prebuf_disable(q))
    BY <1>0, <1>3, PrebufCallsKeep DEF Becomes
  <1>4. CASE Becomes(pa_memblockq_prebuf_force(q))
    BY <1>0, <1>4, PrebufCallsKeep DEF Becomes
  <1> QED
    BY <1>1, <1>2, <1>3, <1>4 DEF Request

\* So do the setters.
LEMMA SetAttributeKeeps == BalanceInv /\ SetAttribute => Keeps(q, q')
  <1> SUFFICES ASSUME BalanceInv, SetAttribute PROVE Keeps(q, q')
    OBVIOUS
  <1>0. IsQueue(q)
    BY DEF BalanceInv
  <1>1. PICK l \in NewLengths : \/ Becomes(pa_memblockq_set_tlength(q, l))
                                \/ Becomes(pa_memblockq_set_prebuf(q, l))
                                \/ Becomes(pa_memblockq_set_maxlength(q, l))
                                \/ Becomes(pa_memblockq_set_minreq(q, l))
                                \/ Becomes(pa_memblockq_set_maxrewind(q, l))
    BY DEF SetAttribute
  <1>2. l \in Int
    BY QueueAssumption
  <1>3. CASE Becomes(pa_memblockq_set_tlength(q, l))
    BY <1>0, <1>2, <1>3, TlengthKeeps DEF Becomes
  <1>4. CASE Becomes(pa_memblockq_set_prebuf(q, l))
    BY <1>0, <1>2, <1>4, PrebufKeeps DEF Becomes
  <1>5. CASE Becomes(pa_memblockq_set_maxlength(q, l))
    BY <1>0, <1>2, <1>5, MaxlengthKeeps DEF Becomes
  <1>6. CASE Becomes(pa_memblockq_set_minreq(q, l))
    BY <1>0, <1>2, <1>6, MinreqKeeps DEF Becomes
  <1>7. CASE Becomes(pa_memblockq_set_maxrewind(q, l))
    BY <1>0, <1>7, PrebufCallsKeep DEF Becomes
  <1> QED
    BY <1>1, <1>3, <1>4, <1>5, <1>6, <1>7

\* No call disturbs the balance.
LEMMA BalanceStep == BalanceInv /\ [MbqNext]_mbqVars => BalanceInv'
  <1> SUFFICES ASSUME BalanceInv, [MbqNext]_mbqVars PROVE BalanceInv'
    OBVIOUS
  <1>1. ASSUME NEW c \in Chunks, Push(c) PROVE Keeps(q, q')
    <2>1. c.length \in Int
      BY QueueAssumption DEF Chunks
    <2>2. q' = pa_memblockq_push(q, c)
      BY <1>1 DEF Push
    <2> QED
      BY <2>1, <2>2, PushKeeps DEF BalanceInv
  <1>2. CASE UNCHANGED mbqVars
    BY <1>2 DEF BalanceInv, Keeps, mbqVars
  <1>3. MbqNext => Keeps(q, q')
    BY <1>1, MoveKeeps, RequestKeeps, SetAttributeKeeps DEF MbqNext
  <1>4. Keeps(q, q') => BalanceInv'
    BY DEF Keeps, BalanceInv
  <1> QED
    BY <1>2, <1>3, <1>4

\* memblockq-test.c: "The following equation regarding the internal variables
\* of a memblockq is always true: length + missing + requested = tlength".
\* It is, after every sequence of calls, whatever the frame size, the
\* attributes and the data.
THEOREM AccountingBalances == MbqSpec => []Balanced
  <1>1. BalanceInv => Balanced
    BY DEF BalanceInv, Balance, Balanced, IsQueue
  <1> QED
    BY <1>1, BalanceInit, BalanceStep, PTL DEF MbqSpec

-----------------------------------------------------------------------------
(* Multiples of the frame size.                                            *)

Multiple(x) == x \in Int /\ x % Base = 0

\* Division with remainder.
LEMMA DivMod ==
    ASSUME NEW x \in Int
    PROVE  /\ x \div Base \in Int /\ x % Base \in 0 .. Base - 1
           /\ x = Base * (x \div Base) + (x % Base)
  BY QueueAssumption

\* A product with the frame size is a multiple of it.
LEMMA ProductIsMultiple ==
    ASSUME NEW k \in Int
    PROVE  Multiple(k * Base)
  <1> DEFINE d == (k * Base) \div Base
             m == (k * Base) % Base
  <1>0. Base \in Nat \ {0}
    BY QueueAssumption
  <1>1. k * Base \in Int
    BY <1>0
  <1>2. d \in Int /\ m \in 0 .. Base - 1 /\ k * Base = Base * d + m
    BY <1>1, DivMod
  <1> HIDE DEF d, m
  <1>3. Base * (k - d) = m
    BY <1>0, <1>2
  <1>4. ~(k - d >= 1)
    <2>1. k - d >= 1 => Base * (k - d) >= Base
      BY <1>0, <1>2
    <2> QED
      BY <1>0, <1>2, <1>3, <2>1
  <1>5. ~(k - d <= -1)
    <2>1. k - d <= -1 => Base * (k - d) <= -Base
      BY <1>0, <1>2
    <2> QED
      BY <1>0, <1>2, <1>3, <2>1
  <1>6. k - d = 0
    BY <1>2, <1>4, <1>5
  <1>7. m = 0
    BY <1>0, <1>2, <1>3, <1>6
  <1> QED
    BY <1>1, <1>7 DEF m, Multiple

\* Sums and differences of multiples are multiples; so are 0 and Base.
LEMMA SumIsMultiple ==
    ASSUME NEW x, NEW y, Multiple(x), Multiple(y)
    PROVE  Multiple(x + y) /\ Multiple(x - y)
  <1>1. /\ x \in Int /\ x \div Base \in Int /\ x = (x \div Base) * Base
        /\ y \in Int /\ y \div Base \in Int /\ y = (y \div Base) * Base
    BY DivMod, QueueAssumption DEF Multiple
  <1>2. /\ x + y = (x \div Base + y \div Base) * Base
        /\ x - y = (x \div Base - y \div Base) * Base
    BY <1>1, QueueAssumption
  <1>3. x \div Base + y \div Base \in Int /\ x \div Base - y \div Base \in Int
    BY <1>1
  <1> QED
    BY <1>2, <1>3, ProductIsMultiple

LEMMA SmallMultiples == Multiple(0) /\ Multiple(Base)
  <1>1. 0 * Base = 0 /\ 1 * Base = Base
    BY QueueAssumption
  <1> QED
    BY <1>1, ProductIsMultiple

\* A positive multiple is at least Base.
LEMMA PositiveMultiple ==
    ASSUME NEW x, Multiple(x), x > 0
    PROVE  x >= Base
  BY DivMod, QueueAssumption DEF Multiple

\* Rounding up and down to a multiple.
LEMMA Rounding ==
    ASSUME NEW r, r.base = Base, NEW x \in Int
    PROVE  /\ Multiple(RoundUp(r, x)) /\ RoundUp(r, x) >= x
           /\ Multiple(RoundDown(r, x)) /\ RoundDown(r, x) <= x
           /\ x >= 0 => RoundDown(r, x) >= 0
  <1> DEFINE y == x + Base - 1
  <1>0. Base \in Nat \ {0}
    BY QueueAssumption
  <1>1. y \in Int
    BY <1>0
  <1>2. /\ y \div Base \in Int /\ y % Base \in 0 .. Base - 1
        /\ y = Base * (y \div Base) + (y % Base)
    BY <1>1, DivMod
  <1>3. /\ x \div Base \in Int /\ x % Base \in 0 .. Base - 1
        /\ x = Base * (x \div Base) + (x % Base)
    BY DivMod
  <1>4. RoundUp(r, x) = (y \div Base) * Base
    BY DEF RoundUp
  <1>5. RoundDown(r, x) = (x \div Base) * Base
    BY DEF RoundDown
  <1>6. (y \div Base) * Base = y - (y % Base)
    BY <1>0, <1>2
  <1>7. (x \div Base) * Base = x - (x % Base)
    BY <1>0, <1>3
  <1>8. (x \div Base) * Base >= 0 \/ x < 0
    <2>1. x \div Base < 0 => Base * (x \div Base) <= -Base
      BY <1>0, <1>3
    <2>2. x \div Base >= 0 => Base * (x \div Base) >= 0
      BY <1>0, <1>3
    <2> QED
      BY <1>0, <1>3, <1>7, <2>1, <2>2
  <1>9. Multiple(RoundUp(r, x)) /\ Multiple(RoundDown(r, x))
    BY <1>2, <1>3, <1>4, <1>5, ProductIsMultiple
  <1>10. RoundUp(r, x) >= x /\ RoundDown(r, x) <= x
    <2> HIDE DEF y
    <2>1. y = x + Base - 1
      BY DEF y
    <2> QED
      BY <1>0, <1>2, <1>3, <1>4, <1>5, <1>6, <1>7, <2>1
  <1> QED
    BY <1>5, <1>8, <1>9, <1>10

-----------------------------------------------------------------------------
(* Attributes: what AttributesConsistent says of a queue r.                *)

PrebufOK(r) == Multiple(r.prebuf) /\ 0 <= r.prebuf /\ r.prebuf <= PrebufMax(r)

AttributesOK(r) ==
    /\ Multiple(r.maxlength) /\ Multiple(r.tlength) /\ Multiple(r.minreq)
    /\ Base <= r.minreq /\ r.minreq <= r.tlength /\ r.tlength <= r.maxlength
    /\ PrebufOK(r)

\* pa_memblockq_set_prebuf finds a multiple below the bound.
LEMMA PrebufAttributes ==
    ASSUME NEW r, IsQueue(r), Multiple(r.tlength), Multiple(r.minreq),
           0 <= PrebufMax(r), NEW x \in Int, x >= -1,
           NEW s, s = pa_memblockq_set_prebuf(r, x)
    PROVE  /\ s.maxlength = r.maxlength /\ s.tlength = r.tlength
           /\ s.minreq = r.minreq /\ s.base = r.base /\ PrebufOK(s)
  <1> DEFINE wanted == IF x = -1 THEN PrebufMax(r) ELSE x
             p == AtMost(RoundUp(r, wanted), PrebufMax(r))
  <1>1. s = [r EXCEPT !.prebuf = p,
                      !.in_prebuf = r.in_prebuf /\ p > 0
                                    /\ pa_memblockq_get_length(r) < p]
    BY DEF pa_memblockq_set_prebuf
  <1>2. wanted \in Int /\ 0 <= wanted
    BY PrebufMaxType
  <1>3. Multiple(PrebufMax(r))
    <2>1. r.base = Base
      BY DEF IsQueue
    <2>2. Multiple(r.tlength + Base)
      BY SmallMultiples, SumIsMultiple
    <2>3. Multiple((r.tlength + Base) - r.minreq)
      BY <2>2, SumIsMultiple
    <2>4. PrebufMax(r) = (r.tlength + Base) - r.minreq
      BY <2>1, QueueAssumption DEF PrebufMax, Multiple
    <2> QED
      BY <2>3, <2>4
  <1> HIDE DEF wanted
  <1>4. Multiple(RoundUp(r, wanted)) /\ RoundUp(r, wanted) >= wanted
    BY <1>2, Rounding DEF IsQueue
  <1>5. Multiple(p) /\ 0 <= p /\ p <= PrebufMax(r)
    BY <1>2, <1>3, <1>4 DEF AtMost, Multiple
  <1> HIDE DEF p
  <1>6. /\ s.prebuf = p /\ s.maxlength = r.maxlength /\ s.base = r.base
        /\ s.tlength = r.tlength /\ s.minreq = r.minreq
    BY <1>1 DEF IsQueue, Shape
  <1>7. PrebufMax(s) = PrebufMax(r)
    BY <1>6 DEF PrebufMax
  <1> QED
    BY <1>5, <1>6, <1>7 DEF PrebufOK

\* So do the last lines of set_tlength and set_minreq.
LEMMA ClampAttributes ==
    ASSUME NEW r, IsQueue(r), Multiple(r.tlength), Multiple(r.minreq),
           0 <= PrebufMax(r), Multiple(r.prebuf), 0 <= r.prebuf,
           NEW s, s = ClampPrebuf(r)
    PROVE  /\ s.maxlength = r.maxlength /\ s.tlength = r.tlength
           /\ s.minreq = r.minreq /\ s.base = r.base /\ PrebufOK(s)
  <1>1. CASE r.prebuf > PrebufMax(r)
    <2>1. s = pa_memblockq_set_prebuf(r, PrebufMax(r))
      BY <1>1 DEF ClampPrebuf
    <2>2. PrebufMax(r) \in Int /\ PrebufMax(r) >= -1
      BY PrebufMaxType
    <2> QED
      BY <2>1, <2>2, PrebufAttributes
  <1>2. CASE ~(r.prebuf > PrebufMax(r))
    BY <1>2, PrebufMaxType DEF ClampPrebuf, PrebufOK, Multiple
  <1> QED
    BY <1>1, <1>2

\* pa_memblockq_set_minreq
LEMMA MinreqAttributes ==
    ASSUME NEW r, IsQueue(r), Multiple(r.tlength), Base <= r.tlength,
           Multiple(r.prebuf), 0 <= r.prebuf, NEW x \in Int,
           NEW s, s = pa_memblockq_set_minreq(r, x)
    PROVE  /\ s.maxlength = r.maxlength /\ s.tlength = r.tlength
           /\ Multiple(s.minreq) /\ Base <= s.minreq /\ s.minreq <= s.tlength
           /\ PrebufOK(s)
  <1> DEFINE m == AtLeast(AtMost(RoundDown(r, x), r.tlength), r.base)
             u == [r EXCEPT !.minreq = m]
  <1>0. r.base = Base /\ Base \in Nat
    BY QueueAssumption DEF IsQueue
  <1>1. s = ClampPrebuf(u)
    BY DEF pa_memblockq_set_minreq
  <1>2. Multiple(RoundDown(r, x))
    BY <1>0, Rounding
  <1>3. Multiple(m) /\ Base <= m /\ m <= r.tlength
    BY <1>0, <1>2, SmallMultiples DEF AtLeast, AtMost, Multiple
  <1> HIDE DEF m
  <1>4. /\ u.minreq = m /\ u.maxlength = r.maxlength /\ u.tlength = r.tlength
        /\ u.prebuf = r.prebuf /\ u.base = r.base
    BY DEF IsQueue, Shape
  <1>5. IsQueue(u)
    BY <1>3, SetLimit DEF Keeps, Multiple
  <1> HIDE DEF u
  <1>6. 0 <= PrebufMax(u)
    BY <1>0, <1>3, <1>4 DEF PrebufMax, Multiple
  <1> QED
    BY <1>1, <1>3, <1>4, <1>5, <1>6, ClampAttributes

\* pa_memblockq_set_tlength, on any queue whose maxlength has been set.
LEMMA TlengthAttributes ==
    ASSUME NEW r, IsQueue(r), Multiple(r.maxlength), Base <= r.maxlength,
           Multiple(r.minreq), 0 <= r.minreq,
           Multiple(r.prebuf), 0 <= r.prebuf, NEW x \in Int,
           NEW s, s = pa_memblockq_set_tlength(r, x)
    PROVE  /\ s.maxlength = r.maxlength
           /\ Multiple(s.tlength) /\ Base <= s.tlength
           /\ s.tlength <= s.maxlength
           /\ Multiple(s.minreq) /\ 0 <= s.minreq /\ s.minreq <= s.tlength
           /\ Base <= r.minreq => Base <= s.minreq
           /\ PrebufOK(s)
  <1> DEFINE y == IF x <= 0 THEN r.maxlength ELSE x
             t == AtMost(RoundUp(r, y), r.maxlength)
             u == [r EXCEPT !.tlength = t]
             v == IF u.minreq > t THEN pa_memblockq_set_minreq(u, t) ELSE u
             w == ClampPrebuf(v)
  <1>0. r.base = Base /\ Base \in Nat \ {0}
    BY QueueAssumption DEF IsQueue
  <1>1. s = [w EXCEPT !.missing = w.missing + t - r.tlength]
    BY DEF pa_memblockq_set_tlength
  <1>2. y \in Int /\ 0 < y
    BY <1>0 DEF Multiple
  <1> HIDE DEF y
  <1>3. Multiple(RoundUp(r, y)) /\ RoundUp(r, y) >= y
    BY <1>0, <1>2, Rounding
  <1>4. RoundUp(r, y) >= Base
    BY <1>2, <1>3, PositiveMultiple DEF Multiple
  <1>5. Multiple(t) /\ Base <= t /\ t <= r.maxlength
    BY <1>0, <1>3, <1>4 DEF AtMost, Multiple
  <1> HIDE DEF t
  <1>6. IsQueue(u)
    BY <1>5, SetTlength DEF Multiple
  <1>7. /\ u.tlength = t /\ u.maxlength = r.maxlength /\ u.minreq = r.minreq
        /\ u.prebuf = r.prebuf /\ u.base = r.base
    BY DEF IsQueue, Shape
  <1> HIDE DEF u
  <1>8. /\ v.maxlength = r.maxlength /\ v.tlength = t
        /\ Multiple(v.minreq) /\ 0 <= v.minreq /\ v.minreq <= t
        /\ Base <= r.minreq => Base <= v.minreq
        /\ Multiple(v.prebuf) /\ 0 <= v.prebuf /\ IsQueue(v)
    <2>1. CASE u.minreq > t
      <3>1. v = pa_memblockq_set_minreq(u, t) /\ t \in Int
        BY <1>5, <2>1 DEF Multiple
      <3> HIDE DEF v
      <3>2. IsQueue(v)
        BY <1>6, <3>1, MinreqKeeps DEF Keeps
      <3>3. /\ v.maxlength = u.maxlength /\ v.tlength = u.tlength
            /\ Multiple(v.minreq) /\ Base <= v.minreq /\ v.minreq <= v.tlength
            /\ PrebufOK(v)
        BY <1>5, <1>6, <1>7, <3>1, MinreqAttributes
      <3> QED
        BY <1>0, <1>7, <3>2, <3>3 DEF PrebufOK, Multiple
    <2>2. CASE ~(u.minreq > t)
      BY <1>5, <1>6, <1>7, <2>2 DEF Multiple
    <2> QED
      BY <2>1, <2>2
  <1> HIDE DEF v
  <1>9. 0 <= PrebufMax(v)
    BY <1>0, <1>5, <1>8 DEF PrebufMax, Multiple, IsQueue
  <1>10. /\ w.maxlength = v.maxlength /\ w.tlength = v.tlength
         /\ w.minreq = v.minreq /\ w.base = v.base /\ PrebufOK(w)
    BY <1>5, <1>8, <1>9, ClampAttributes
  <1>11. IsQueue(w)
    BY <1>8, ClampKeeps DEF Keeps
  <1> HIDE DEF w
  <1>12. /\ s.maxlength = w.maxlength /\ s.tlength = w.tlength
         /\ s.minreq = w.minreq /\ s.base = w.base /\ s.prebuf = w.prebuf
    BY <1>1, <1>11 DEF IsQueue, Shape
  <1>13. PrebufOK(s)
    BY <1>10, <1>12 DEF PrebufOK, PrebufMax
  <1> QED
    BY <1>5, <1>8, <1>10, <1>12, <1>13

\* pa_memblockq_set_maxlength, of a queue that is consistent and of one none of
\* whose other attributes has been set.
LEMMA MaxlengthAttributes ==
    ASSUME NEW r, IsQueue(r), NEW x \in Int,
           NEW s, s = pa_memblockq_set_maxlength(r, x)
    PROVE  /\ AttributesOK(r) => AttributesOK(s)
           /\ r.tlength = 0 =>
                /\ Multiple(s.maxlength) /\ Base <= s.maxlength
                /\ s.minreq = r.minreq /\ s.prebuf = r.prebuf
  <1> DEFINE m == AtLeast(RoundUp(r, x), r.base)
             u == [r EXCEPT !.maxlength = m]
  <1>0. r.base = Base /\ Base \in Nat \ {0}
    BY QueueAssumption DEF IsQueue
  <1>1. s = IF u.tlength > m THEN pa_memblockq_set_tlength(u, m) ELSE u
    BY DEF pa_memblockq_set_maxlength
  <1>2. Multiple(RoundUp(r, x))
    BY <1>0, Rounding
  <1>3. Multiple(m) /\ Base <= m /\ m \in Int
    BY <1>0, <1>2, SmallMultiples DEF AtLeast, Multiple
  <1> HIDE DEF m
  <1>4. /\ u.maxlength = m /\ u.tlength = r.tlength /\ u.minreq = r.minreq
        /\ u.prebuf = r.prebuf /\ u.base = r.base
    BY DEF IsQueue, Shape
  <1>5. IsQueue(u)
    BY <1>3, SetLimit DEF Keeps
  <1> HIDE DEF u
  <1>6. ASSUME r.tlength = 0
        PROVE  /\ Multiple(s.maxlength) /\ Base <= s.maxlength
               /\ s.minreq = r.minreq /\ s.prebuf = r.prebuf
    <2>1. ~(u.tlength > m)
      BY <1>0, <1>3, <1>4, <1>6
    <2> QED
      BY <1>1, <1>3, <1>4, <2>1
  <1>7. ASSUME AttributesOK(r) PROVE AttributesOK(s)
    <2>1. CASE u.tlength > m
      <3>1. s = pa_memblockq_set_tlength(u, m)
        BY <1>1, <2>1
      <3>2. /\ Multiple(u.minreq) /\ 0 <= u.minreq /\ Base <= u.minreq
            /\ Multiple(u.prebuf) /\ 0 <= u.prebuf
        BY <1>0, <1>4, <1>7 DEF AttributesOK, PrebufOK, Multiple
      <3> QED
        BY <1>3, <1>4, <1>5, <3>1, <3>2, TlengthAttributes DEF AttributesOK
    <2>2. CASE ~(u.tlength > m)
      <3>1. s = u
        BY <1>1, <2>2
      <3>2. PrebufMax(u) = PrebufMax(r)
        BY <1>4 DEF PrebufMax
      <3>3. u.tlength <= m
        BY <1>3, <1>4, <1>7, <2>2 DEF AttributesOK, Multiple
      <3> QED
        BY <1>3, <1>4, <1>7, <3>1, <3>2, <3>3 DEF AttributesOK, PrebufOK
    <2> QED
      BY <2>1, <2>2
  <1> QED
    BY <1>6, <1>7

\* The calls that set no attribute.
LEMMA SameIsOK ==
    ASSUME NEW r, NEW s, SameAttributes(r, s), AttributesOK(r)
    PROVE  AttributesOK(s)
  <1>1. PrebufMax(s) = PrebufMax(r)
    BY DEF SameAttributes, PrebufMax
  <1> QED
    BY <1>1 DEF SameAttributes, AttributesOK, PrebufOK

-----------------------------------------------------------------------------
\* pa_memblockq_set_maxrewind
LEMMA MaxrewindEffect ==
    ASSUME NEW r, IsQueue(r), NEW x \in Int,
           NEW s, s = pa_memblockq_set_maxrewind(r, x)
    PROVE  SameAttributes(r, s) /\ s.blocks = r.blocks /\ s.maxrewind \in Int
  <1> DEFINE v == RoundDown(r, x)
  <1>1. s = [r EXCEPT !.maxrewind = v]
    BY DEF pa_memblockq_set_maxrewind
  <1>2. v \in Int
    BY RoundTypes
  <1> HIDE DEF v
  <1> QED
    BY <1>1, <1>2 DEF IsQueue, Shape, SameAttributes

\* pa_memblockq_new
LEMMA NewEffect ==
    ASSUME NEW maxlength \in Int, NEW tlength \in Nat, NEW prebuf \in Nat,
           NEW minreq \in Int, NEW maxrewind \in Int, NEW silence, NEW n,
           n = pa_memblockq_new(0, maxlength, tlength, Base, prebuf,
                                minreq, maxrewind, silence)
    PROVE  AttributesOK(n) /\ n.blocks = {} /\ n.maxrewind \in Int
  <1> DEFINE zero == [blocks |-> {}, read_index |-> 0, write_index |-> 0,
                      in_prebuf |-> TRUE, base |-> Base, maxlength |-> 0,
                      tlength |-> 0, prebuf |-> 0, minreq |-> 0,
                      maxrewind |-> 0, missing |-> 0, requested |-> 0,
                      silence |-> silence]
             s1 == pa_memblockq_set_maxlength(zero, maxlength)
             s2 == pa_memblockq_set_tlength(s1, tlength)
             s3 == pa_memblockq_set_minreq(s2, minreq)
             s4 == pa_memblockq_set_prebuf(s3, prebuf)
  <1>0. Base \in Nat \ {0}
    BY QueueAssumption
  <1>1. n = pa_memblockq_set_maxrewind(s4, maxrewind)
    BY DEF pa_memblockq_new
  <1>2. IsQueue(zero)
    BY QueueAssumption DEF IsQueue, Shape
  <1>3. /\ zero.tlength = 0 /\ zero.minreq = 0 /\ zero.prebuf = 0
        /\ zero.blocks = {}
    OBVIOUS
  <1> HIDE DEF zero
  <1>4. /\ IsQueue(s1) /\ Multiple(s1.maxlength) /\ Base <= s1.maxlength
        /\ s1.minreq = 0 /\ s1.prebuf = 0 /\ s1.blocks = {}
    <2>1. IsQueue(s1)
      BY <1>2, MaxlengthKeeps DEF Keeps
    <2>2. KeepsItems(zero, s1)
      BY <1>2, SettersKeepList DEF IsQueue, KeepsList
    <2>3. /\ Multiple(s1.maxlength) /\ Base <= s1.maxlength
          /\ s1.minreq = 0 /\ s1.prebuf = 0
      BY <1>2, <1>3, MaxlengthAttributes
    <2> QED
      BY <1>3, <2>1, <2>2, <2>3 DEF KeepsItems
  <1> HIDE DEF s1
  <1>5. /\ IsQueue(s2) /\ Multiple(s2.tlength) /\ Base <= s2.tlength
        /\ s2.maxlength = s1.maxlength /\ s2.tlength <= s2.maxlength
        /\ PrebufOK(s2) /\ s2.blocks = {}
    <2>1. Multiple(s1.minreq) /\ 0 <= s1.minreq
      BY <1>4, SmallMultiples
    <2>2. Multiple(s1.prebuf) /\ 0 <= s1.prebuf
      BY <1>4, SmallMultiples
    <2>3. /\ Multiple(s2.tlength) /\ Base <= s2.tlength /\ PrebufOK(s2)
          /\ s2.maxlength = s1.maxlength /\ s2.tlength <= s2.maxlength
      BY <1>4, <2>1, <2>2, TlengthAttributes
    <2>4. IsQueue(s2) /\ s2.blocks = {}
      <3>1. IsQueue(s2)
        BY <1>4, TlengthKeeps DEF Keeps
      <3>2. KeepsItems(s1, s2)
        BY <1>4, SettersKeepList DEF IsQueue, KeepsList
      <3> QED
        BY <1>4, <3>1, <3>2 DEF KeepsItems
    <2> QED
      BY <2>3, <2>4
  <1> HIDE DEF s2
  <1>6. /\ IsQueue(s3) /\ AttributesOK(s3) /\ s3.blocks = {}
    <2>1. /\ s3.maxlength = s2.maxlength /\ s3.tlength = s2.tlength
          /\ Multiple(s3.minreq) /\ Base <= s3.minreq
          /\ s3.minreq <= s3.tlength /\ PrebufOK(s3)
      BY <1>5, MinreqAttributes DEF PrebufOK
    <2>2. IsQueue(s3) /\ s3.blocks = {}
      <3>1. IsQueue(s3)
        BY <1>5, MinreqKeeps DEF Keeps
      <3>2. KeepsItems(s2, s3)
        BY <1>5, SettersKeepList DEF IsQueue, KeepsList
      <3> QED
        BY <1>5, <3>1, <3>2 DEF KeepsItems
    <2> QED
      BY <1>4, <1>5, <2>1, <2>2 DEF AttributesOK
  <1> HIDE DEF s3
  <1>7. IsQueue(s4) /\ AttributesOK(s4) /\ s4.blocks = {}
    <2>1. 0 <= PrebufMax(s3)
      BY <1>0, <1>6 DEF AttributesOK, Multiple, PrebufMax, IsQueue
    <2>2. /\ s4.maxlength = s3.maxlength /\ s4.tlength = s3.tlength
          /\ s4.minreq = s3.minreq /\ PrebufOK(s4)
      BY <1>6, <2>1, PrebufAttributes DEF AttributesOK
    <2>3. IsQueue(s4) /\ s4.blocks = {}
      <3>1. IsQueue(s4)
        BY <1>6, PrebufKeeps DEF Keeps
      <3>2. KeepsItems(s3, s4)
        BY <1>6, SettersKeepList DEF IsQueue, KeepsList
      <3> QED
        BY <1>6, <3>1, <3>2 DEF KeepsItems
    <2> QED
      BY <1>6, <2>2, <2>3 DEF AttributesOK
  <1> HIDE DEF s4
  <1> QED
    BY <1>1, <1>7, MaxrewindEffect, SameIsOK

\* Every call but push is passive or a setter.
LEMMA CallEffects ==
    ASSUME IsQueue(q), q.maxrewind \in Int, Move \/ Request \/ SetAttribute
    PROVE  /\ AttributesOK(q) => AttributesOK(q')
           /\ q'.maxrewind \in Int
           /\ Forgets(q, q') \/ (Flush /\ q'.blocks = {})
  <1>0. Shape(q)
    BY DEF IsQueue
  <1>1. ASSUME Passive(q, q')
        PROVE  /\ AttributesOK(q) => AttributesOK(q')
               /\ q'.maxrewind \in Int /\ Forgets(q, q')
    BY <1>1, SameIsOK DEF Passive
  <1>2. CASE Move
    <2>1. CASE Flush
      <3>1. Empties(q, q')
        BY <1>0, <2>1, FlushEmpties DEF Flush, Becomes
      <3> QED
        BY <2>1, <3>1, SameIsOK DEF Empties
    <2>2. CASE ~Flush
      <3>1. Passive(q, q')
        BY <1>0, <1>2, <2>2, DropPassive, RewindPassive, SeekPassive
           DEF Move, Becomes
      <3> QED
        BY <1>1, <3>1
    <2> QED
      BY <2>1, <2>2
  <1>3. CASE Request
    <2>1. Passive(q, q')
      BY <1>0, <1>3, RequestPassive DEF Request, Becomes
    <2> QED
      BY <1>1, <2>1
  <1>4. CASE SetAttribute
    <2>1. KeepsItems(q, q') => q'.maxrewind \in Int /\ Forgets(q, q')
      BY DEF KeepsItems, Forgets
    <2>2. ASSUME NEW l \in NewLengths, Becomes(pa_memblockq_set_tlength(q, l))
          PROVE  /\ AttributesOK(q) => AttributesOK(q')
                 /\ q'.maxrewind \in Int /\ Forgets(q, q')
      <3>1. q' = pa_memblockq_set_tlength(q, l) /\ l \in Int
        BY <2>2, QueueAssumption DEF Becomes
      <3>2. AttributesOK(q) => AttributesOK(q')
        <4> SUFFICES ASSUME AttributesOK(q) PROVE AttributesOK(q')
          OBVIOUS
        <4>1. /\ Multiple(q.maxlength) /\ Base <= q.maxlength
              /\ Multiple(q.minreq) /\ 0 <= q.minreq /\ Base <= q.minreq
              /\ Multiple(q.prebuf) /\ 0 <= q.prebuf
          BY QueueAssumption DEF AttributesOK, PrebufOK, Multiple
        <4> QED
          BY <3>1, <4>1, TlengthAttributes DEF AttributesOK
      <3> QED
        BY <1>0, <2>1, <3>1, <3>2, SettersKeepList DEF KeepsList
    <2>3. ASSUME NEW l \in NewLengths, Becomes(pa_memblockq_set_prebuf(q, l))
          PROVE  /\ AttributesOK(q) => AttributesOK(q')
                 /\ q'.maxrewind \in Int /\ Forgets(q, q')
      <3>1. q' = pa_memblockq_set_prebuf(q, l) /\ l \in Int /\ l >= -1
        BY <2>3, QueueAssumption DEF Becomes
      <3>2. AttributesOK(q) => AttributesOK(q')
        <4> SUFFICES ASSUME AttributesOK(q) PROVE AttributesOK(q')
          OBVIOUS
        <4>1. 0 <= PrebufMax(q)
          BY QueueAssumption DEF AttributesOK, Multiple, PrebufMax, IsQueue
        <4>2. /\ q'.maxlength = q.maxlength /\ q'.tlength = q.tlength
              /\ q'.minreq = q.minreq /\ PrebufOK(q')
          BY <3>1, <4>1, PrebufAttributes DEF AttributesOK
        <4> QED
          BY <4>2 DEF AttributesOK
      <3> QED
        BY <1>0, <2>1, <3>1, <3>2, SettersKeepList DEF KeepsList
    <2>4. ASSUME NEW l \in NewLengths \ {-1},
                 Becomes(pa_memblockq_set_maxlength(q, l))
          PROVE  /\ AttributesOK(q) => AttributesOK(q')
                 /\ q'.maxrewind \in Int /\ Forgets(q, q')
      <3>1. q' = pa_memblockq_set_maxlength(q, l) /\ l \in Int
        BY <2>4, QueueAssumption DEF Becomes
      <3> QED
        BY <1>0, <2>1, <3>1, MaxlengthAttributes, SettersKeepList DEF KeepsList
    <2>5. ASSUME NEW l \in NewLengths \ {-1},
                 Becomes(pa_memblockq_set_minreq(q, l))
          PROVE  /\ AttributesOK(q) => AttributesOK(q')
                 /\ q'.maxrewind \in Int /\ Forgets(q, q')
      <3>1. q' = pa_memblockq_set_minreq(q, l) /\ l \in Int
        BY <2>5, QueueAssumption DEF Becomes
      <3>2. AttributesOK(q) => AttributesOK(q')
        <4> SUFFICES ASSUME AttributesOK(q) PROVE AttributesOK(q')
          OBVIOUS
        <4>1. /\ Multiple(q.tlength) /\ Base <= q.tlength
              /\ Multiple(q.prebuf) /\ 0 <= q.prebuf
          BY QueueAssumption DEF AttributesOK, PrebufOK, Multiple
        <4> QED
          BY <3>1, <4>1, MinreqAttributes DEF AttributesOK
      <3> QED
        BY <1>0, <2>1, <3>1, <3>2, SettersKeepList DEF KeepsList
    <2>6. ASSUME NEW l \in NewLengths \ {-1},
                 Becomes(pa_memblockq_set_maxrewind(q, l))
          PROVE  /\ AttributesOK(q) => AttributesOK(q')
                 /\ q'.maxrewind \in Int /\ Forgets(q, q')
      <3>1. q' = pa_memblockq_set_maxrewind(q, l) /\ l \in Int
        BY <2>6, QueueAssumption DEF Becomes
      <3> QED
        BY <3>1, MaxrewindEffect, SameIsOK DEF Forgets
    <2> QED
      BY <1>4, <2>2, <2>3, <2>4, <2>5, <2>6 DEF SetAttribute
  <1> QED
    BY <1>2, <1>3, <1>4

\* memblockq-test.c, check_queue_invariants: "base <= minreq <= tlength <=
\* maxlength", "prebuf <= tlength + base - minreq", and all of them multiples
\* of the frame size.  The setters keep this in every order of calls, whatever
\* lengths they are given.
THEOREM AttributesStayConsistent == MbqSpec => []AttributesConsistent
  <1> DEFINE AttrInv == BalanceInv /\ q.maxrewind \in Int /\ AttributesOK(q)
  <1>1. MbqInit => AttrInv
    <2> SUFFICES ASSUME MbqInit PROVE q.maxrewind \in Int /\ AttributesOK(q)
      BY BalanceInit
    <2>1. PICK a \in Attributes :
             q = pa_memblockq_new(0, a.maxlength, a.tlength, Base, a.prebuf,
                                  a.minreq, a.maxrewind, NullChunk)
      BY DEF MbqInit
    <2>2. /\ a.maxlength \in Int /\ a.tlength \in Nat /\ a.prebuf \in Nat
          /\ a.minreq \in Int /\ a.maxrewind \in Int
      BY QueueAssumption
    <2> QED
      BY <2>1, <2>2, NewEffect
  <1>2. AttrInv /\ [MbqNext]_mbqVars => AttrInv'
    <2> SUFFICES ASSUME AttrInv, [MbqNext]_mbqVars PROVE AttrInv'
      OBVIOUS
    <2>0. IsQueue(q) /\ Shape(q)
      BY DEF BalanceInv, IsQueue
    <2>1. BalanceInv'
      BY BalanceStep
    <2>2. CASE UNCHANGED mbqVars
      BY <2>1, <2>2 DEF mbqVars
    <2>3. ASSUME NEW c \in Chunks, Push(c)
          PROVE  q'.maxrewind \in Int /\ AttributesOK(q')
      BY <2>0, <2>3, PushEffect, SameIsOK DEF Push
    <2>4. Move \/ Request \/ SetAttribute
          => q'.maxrewind \in Int /\ AttributesOK(q')
      BY <2>0, CallEffects
    <2> QED
      BY <2>1, <2>2, <2>3, <2>4 DEF MbqNext
  <1>3. AttrInv => AttributesConsistent
    BY DEF AttributesOK, PrebufOK, Multiple, AttributesConsistent
  <1> QED
    BY <1>1, <1>2, <1>3, PTL DEF MbqSpec

-----------------------------------------------------------------------------
(* The items.                                                              *)

\* An item of the list: a record that starts on a frame and holds a chunk push
\* would accept.
IsChunk(c) ==
    /\ c = [blk |-> c.blk, index |-> c.index, length |-> c.length]
    /\ c.index \in Int /\ c.length \in Int /\ Pushable(c)

IsItem(b) ==
    /\ b = [index |-> b.index, chunk |-> b.chunk]
    /\ Multiple(b.index) /\ IsChunk(b.chunk)

Apart(b, c) == End(b) <= c.index \/ End(c) <= b.index

\* The numbers of an item.
LEMMA ItemTypes ==
    ASSUME NEW b, IsItem(b)
    PROVE  /\ b.index \in Int /\ b.chunk.length \in Int /\ b.chunk.index \in Int
           /\ End(b) \in Int /\ End(b) = b.index + b.chunk.length
           /\ b.chunk.length > 0
           /\ Multiple(b.index) /\ Multiple(b.chunk.index)
           /\ Multiple(b.chunk.length) /\ Multiple(End(b))
           /\ b.chunk.index + b.chunk.length <= BlockLength
  <1>1. /\ b.index \in Int /\ b.chunk.length \in Int /\ b.chunk.index \in Int
        /\ b.chunk.length > 0
        /\ Multiple(b.index) /\ Multiple(b.chunk.index)
        /\ Multiple(b.chunk.length)
        /\ b.chunk.index + b.chunk.length <= BlockLength
    BY DEF IsItem, IsChunk, Pushable, Multiple
  <1>2. Multiple(b.index + b.chunk.length)
    BY <1>1, SumIsMultiple
  <1> QED
    BY <1>1, <1>2 DEF End

\* A chunk with given numbers is one push accepts.
LEMMA MakeChunk ==
    ASSUME NEW k, NEW i, NEW n, Multiple(i), Multiple(n), n > 0,
           i + n <= BlockLength
    PROVE  IsChunk([blk |-> k, index |-> i, length |-> n])
  BY DEF IsChunk, Pushable, Multiple

\* An item put together from a position and a chunk.
LEMMA MakeItem ==
    ASSUME NEW i, Multiple(i), NEW c, IsChunk(c), NEW x, x = Item(i, c)
    PROVE  /\ IsItem(x) /\ x.index = i /\ x.chunk = c
           /\ End(x) = i + c.length
  BY DEF Item, IsItem, End

\* The three ways push shortens an item: its beginning stays, or its end, with
\* the offset into the memblock moved along or, as the split leaves it, not.
LEMMA Pieces ==
    ASSUME NEW b, IsItem(b), NEW p, Multiple(p), b.index < p, p < End(b)
    PROVE  LET head == Item(b.index, [b.chunk EXCEPT !.length = p - b.index])
               saved == SavedEnd(b, p)
               trimmed == TrimmedEnd(b, p)
           IN /\ \A x \in {head, saved, trimmed} :
                    IsItem(x) /\ x.chunk.blk = b.chunk.blk
              /\ head.index = b.index /\ End(head) = p
              /\ saved.index = p /\ End(saved) = End(b)
              /\ trimmed.index = p /\ End(trimmed) = End(b)
  <1> DEFINE k == b.chunk.blk
             i == b.chunk.index
             n == b.chunk.length
             d == p - b.index
             ch == [blk |-> k, index |-> i, length |-> d]
             cs == [blk |-> k, index |-> i, length |-> n - d]
             ct == [blk |-> k, index |-> i + d, length |-> n - d]
  <1>1. /\ b.index \in Int /\ n \in Int /\ i \in Int /\ p \in Int
        /\ End(b) = b.index + n /\ Multiple(b.index) /\ Multiple(i)
        /\ Multiple(n) /\ i + n <= BlockLength
    BY ItemTypes DEF Multiple
  <1>2. b.chunk = [blk |-> k, index |-> i, length |-> n]
    BY DEF IsItem, IsChunk
  <1>3. /\ [b.chunk EXCEPT !.length = p - b.index] = ch
        /\ [b.chunk EXCEPT !.length = b.chunk.length - (p - b.index)] = cs
        /\ [b.chunk EXCEPT !.index = b.chunk.index + (p - b.index),
                           !.length = b.chunk.length - (p - b.index)] = ct
    <2> HIDE DEF k, i, n, d
    <2>1. ASSUME NEW z, z = [b.chunk EXCEPT !.length = d] PROVE z = ch
      BY <1>2, <2>1
    <2>2. ASSUME NEW z, z = [b.chunk EXCEPT !.length = n - d] PROVE z = cs
      BY <1>2, <2>2
    <2>3. ASSUME NEW z, z = [b.chunk EXCEPT !.index = i + d, !.length = n - d]
          PROVE  z = ct
      <3> DEFINE u == i + d
                 v == n - d
      <3>1. ct = [blk |-> k, index |-> u, length |-> v]
        OBVIOUS
      <3>2. z = [b.chunk EXCEPT !.index = u, !.length = v]
        BY <2>3
      <3> HIDE DEF u, v, ct
      <3>3. PICK c : c = b.chunk
        OBVIOUS
      <3>4. c = [blk |-> k, index |-> i, length |-> n]
        BY <1>2, <3>3
      <3>5. z = [c EXCEPT !.index = u, !.length = v]
        BY <3>2, <3>3
      <3>6. z = [blk |-> k, index |-> u, length |-> v]
        BY <3>4, <3>5
      <3> QED
        BY <3>1, <3>6
    <2> HIDE DEF ch, cs, ct
    <2>4. /\ [b.chunk EXCEPT !.length = d] = ch
          /\ [b.chunk EXCEPT !.length = n - d] = cs
          /\ [b.chunk EXCEPT !.index = i + d, !.length = n - d] = ct
      BY <2>1, <2>2, <2>3
    <2> QED
      BY <2>4 DEF d, n, i
  <1>4. Multiple(d) /\ d \in Int /\ 0 < d /\ d < n
    BY <1>1, SumIsMultiple
  <1> HIDE DEF d, k, i, n
  <1>5. Multiple(n - d) /\ Multiple(i + d)
    BY <1>1, <1>4, SumIsMultiple
  <1>6. BlockLength \in Int
    BY QueueAssumption
  <1>7. i + d <= BlockLength /\ i + (n - d) <= BlockLength
        /\ (i + d) + (n - d) <= BlockLength /\ n - d > 0
    BY <1>1, <1>4, <1>6
  <1>8. IsChunk(ch) /\ IsChunk(cs) /\ IsChunk(ct)
    BY <1>1, <1>4, <1>5, <1>7, MakeChunk
  <1>9. ch.length = d /\ cs.length = n - d /\ ct.length = n - d
        /\ ch.blk = k /\ cs.blk = k /\ ct.blk = k
    OBVIOUS
  <1> HIDE DEF ch, cs, ct
  <1>10. b.index + d = p /\ p + (n - d) = End(b)
    BY <1>1 DEF d
  <1>11. /\ Item(b.index, [b.chunk EXCEPT !.length = p - b.index])
              = Item(b.index, ch)
         /\ SavedEnd(b, p) = Item(p, cs)
         /\ TrimmedEnd(b, p) = Item(p, ct)
    BY <1>3 DEF SavedEnd, TrimmedEnd
  <1>12. /\ IsItem(Item(b.index, ch)) /\ Item(b.index, ch).index = b.index
         /\ Item(b.index, ch).chunk = ch /\ End(Item(b.index, ch)) = p
    BY <1>1, <1>8, <1>9, <1>10, MakeItem
  <1>13. /\ IsItem(Item(p, cs)) /\ Item(p, cs).index = p
         /\ Item(p, cs).chunk = cs /\ End(Item(p, cs)) = End(b)
    BY <1>8, <1>9, <1>10, MakeItem
  <1>14. /\ IsItem(Item(p, ct)) /\ Item(p, ct).index = p
         /\ Item(p, ct).chunk = ct /\ End(Item(p, ct)) = End(b)
    BY <1>8, <1>9, <1>10, MakeItem
  <1> QED
    BY <1>9, <1>11, <1>12, <1>13, <1>14 DEF k

\* What is left of an item where [from, to) is overwritten: parts of the item,
\* outside the overwritten range.
LEMMA RemainsParts ==
    ASSUME NEW b, IsItem(b), NEW from, NEW to, Multiple(from), Multiple(to),
           from < to, NEW x \in Remains(b, from, to)
    PROVE  /\ IsItem(x) /\ x.chunk.blk = b.chunk.blk
           /\ b.index <= x.index /\ End(x) <= End(b)
           /\ End(x) <= from \/ to <= x.index
  <1> DEFINE head == Item(b.index, [b.chunk EXCEPT !.length = from - b.index])
  <1>1. /\ b.index \in Int /\ End(b) \in Int /\ from \in Int /\ to \in Int
        /\ b.index < End(b)
    BY ItemTypes DEF Multiple
  <1>2. CASE End(b) <= from \/ to <= b.index
    <2>1. x = b
      BY <1>2 DEF Remains
    <2> QED
      BY <1>1, <1>2, <2>1
  <1>3. CASE ~(End(b) <= from \/ to <= b.index)
    <2>1. CASE from <= b.index /\ End(b) <= to
      BY <1>3, <2>1 DEF Remains
    <2>2. CASE ~(from <= b.index /\ End(b) <= to) /\ b.index <= from
      <3>1. \/ x = head /\ head.chunk.length > 0
            \/ to < End(b) /\ x = SavedEnd(b, to)
        BY <1>3, <2>2 DEF Remains
      <3>2. CASE x = head /\ head.chunk.length > 0
        <4>1. b.index # from
          <5>1. head.chunk.length = from - b.index
            BY DEF head, Item, IsItem, IsChunk
          <5> HIDE DEF head
          <5> QED
            BY <1>1, <3>2, <5>1
        <4>2. b.index < from /\ from < End(b)
          BY <1>1, <1>3, <2>2, <4>1
        <4>3. /\ IsItem(head) /\ head.chunk.blk = b.chunk.blk
              /\ head.index = b.index /\ End(head) = from
          BY <4>2, Pieces
        <4> HIDE DEF head
        <4> QED
          BY <1>1, <3>2, <4>2, <4>3
      <3>3. CASE to < End(b) /\ x = SavedEnd(b, to)
        <4>1. b.index < to
          BY <1>1, <2>2
        <4>2. /\ IsItem(x) /\ x.chunk.blk = b.chunk.blk
              /\ x.index = to /\ End(x) = End(b)
          BY <3>3, <4>1, Pieces
        <4> QED
          BY <1>1, <4>1, <4>2
      <3> QED
        BY <3>1, <3>2, <3>3
    <2>3. CASE ~(from <= b.index /\ End(b) <= to) /\ ~(b.index <= from)
      <3>1. x = TrimmedEnd(b, to)
        BY <1>3, <2>3 DEF Remains
      <3>2. b.index < to /\ to < End(b)
        BY <1>1, <1>3, <2>3
      <3>3. /\ IsItem(x) /\ x.chunk.blk = b.chunk.blk
            /\ x.index = to /\ End(x) = End(b)
        BY <3>1, <3>2, Pieces
      <3> QED
        BY <1>1, <3>2, <3>3
    <2> QED
      BY <2>1, <2>2, <2>3
  <1> QED
    BY <1>2, <1>3

\* Two different parts of an item lie apart: one before the overwritten range,
\* one after it.
LEMMA RemainsApart ==
    ASSUME NEW b, IsItem(b), NEW from, NEW to, Multiple(from), Multiple(to),
           from < to,
           NEW x \in Remains(b, from, to), NEW y \in Remains(b, from, to), x # y
    PROVE  Apart(x, y)
  <1> DEFINE head == Item(b.index, [b.chunk EXCEPT !.length = from - b.index])
  <1>1. /\ b.index \in Int /\ End(b) \in Int /\ from \in Int /\ to \in Int
        /\ b.index < End(b)
    BY ItemTypes DEF Multiple
  <1>2. ~(End(b) <= from \/ to <= b.index)
    BY DEF Remains
  <1>3. ~(from <= b.index /\ End(b) <= to) /\ b.index <= from
    BY <1>2 DEF Remains
  <1>4. ASSUME NEW z \in Remains(b, from, to)
        PROVE  \/ z = head /\ head.chunk.length > 0
               \/ to < End(b) /\ z = SavedEnd(b, to)
    BY <1>2, <1>3, <1>4 DEF Remains
  <1>5. /\ head \in {x, y} /\ head.chunk.length > 0
        /\ SavedEnd(b, to) \in {x, y} /\ to < End(b)
    <2> HIDE DEF head
    <2> QED
      BY <1>4
  <1>6. b.index # from
    <2>1. head.chunk.length = from - b.index
      BY DEF head, Item, IsItem, IsChunk
    <2> HIDE DEF head
    <2> QED
      BY <1>1, <1>5, <2>1
  <1>7. b.index < from /\ from < End(b) /\ b.index < to
    BY <1>1, <1>2, <1>3, <1>6
  <1>8. End(head) = from
    BY <1>7, Pieces
  <1>9. SavedEnd(b, to).index = to
    BY <1>5, <1>7, Pieces
  <1> HIDE DEF head
  <1>10. \/ x = head /\ y = SavedEnd(b, to)
         \/ y = head /\ x = SavedEnd(b, to)
    BY <1>4
  <1> QED
    BY <1>1, <1>8, <1>9, <1>10 DEF Apart

\* Nothing outside the overwritten range is lost.
LEMMA RemainsCover ==
    ASSUME NEW b, IsItem(b), NEW from, NEW to, Multiple(from), Multiple(to),
           from < to, NEW p \in Int, Covers(b, p), ~(from <= p /\ p < to)
    PROVE  \E x \in Remains(b, from, to) : Covers(x, p)
  <1> DEFINE head == Item(b.index, [b.chunk EXCEPT !.length = from - b.index])
  <1>1. /\ b.index \in Int /\ End(b) \in Int /\ from \in Int /\ to \in Int
        /\ b.index < End(b)
    BY ItemTypes DEF Multiple
  <1>2. b.index <= p /\ p < End(b)
    BY DEF Covers
  <1>3. CASE End(b) <= from \/ to <= b.index
    BY <1>3 DEF Remains
  <1>4. CASE ~(End(b) <= from \/ to <= b.index)
    <2>1. ~(from <= b.index /\ End(b) <= to)
      BY <1>1, <1>2
    <2>2. CASE b.index <= from
      <3>1. CASE p < from
        <4>1. b.index < from /\ from < End(b)
          BY <1>1, <1>2, <1>4, <3>1
        <4>2. /\ IsItem(head) /\ head.index = b.index /\ End(head) = from
          BY <4>1, Pieces
        <4>3. head.chunk.length > 0
          BY <4>2, ItemTypes
        <4>4. head \in Remains(b, from, to)
          BY <1>4, <2>1, <2>2, <4>3 DEF Remains
        <4> HIDE DEF head
        <4>5. Covers(head, p)
          BY <1>2, <3>1, <4>2 DEF Covers
        <4> QED
          BY <4>4, <4>5
      <3>2. CASE to <= p
        <4>1. b.index < to /\ to < End(b)
          BY <1>1, <1>2, <2>2, <3>2
        <4>2. SavedEnd(b, to).index = to /\ End(SavedEnd(b, to)) = End(b)
          BY <4>1, Pieces
        <4>3. SavedEnd(b, to) \in Remains(b, from, to)
          BY <1>4, <2>1, <2>2, <4>1 DEF Remains
        <4>4. Covers(SavedEnd(b, to), p)
          BY <1>2, <3>2, <4>2 DEF Covers
        <4> QED
          BY <4>3, <4>4
      <3> QED
        BY <1>1, <3>1, <3>2
    <2>3. CASE ~(b.index <= from)
      <3>1. b.index < to /\ to < End(b) /\ to <= p
        BY <1>1, <1>2, <1>4, <2>3
      <3>2. TrimmedEnd(b, to).index = to /\ End(TrimmedEnd(b, to)) = End(b)
        BY <3>1, Pieces
      <3>3. TrimmedEnd(b, to) \in Remains(b, from, to)
        BY <1>4, <2>1, <2>3 DEF Remains
      <3>4. Covers(TrimmedEnd(b, to), p)
        BY <1>2, <3>1, <3>2 DEF Covers
      <3> QED
        BY <3>3, <3>4
    <2> QED
      BY <2>2, <2>3
  <1> QED
    BY <1>3, <1>4

\* A list of items without overlaps, whose last one ends by MaxIndex.
IsList(B) ==
    /\ \A b \in B : IsItem(b) /\ End(b) <= MaxIndex
    /\ \A b \in B, c \in B : b # c => Apart(b, c)

\* What the list looks like from outside: the memblock at each position.
From(x, B, p) ==
    \E b \in B : Covers(b, p) /\ b.chunk.blk = x.chunk.blk

Cut(B, from, to) == UNION {Remains(b, from, to) : b \in B}

\* Push cuts the written range out of the list ...
LEMMA CutList ==
    ASSUME NEW B, IsList(B), NEW from, NEW to, Multiple(from), Multiple(to),
           from < to, NEW R, R = Cut(B, from, to)
    PROVE  /\ IsList(R)
           /\ \A x \in R : End(x) <= from \/ to <= x.index
           /\ \A x \in R, p \in Int : Covers(x, p) => From(x, B, p)
           /\ \A p \in Int : /\ ~(from <= p /\ p < to)
                             /\ \E b \in B : Covers(b, p)
                             => \E x \in R : Covers(x, p)
  <1>0. MaxIndex \in Int /\ from \in Int /\ to \in Int
    BY QueueAssumption DEF Multiple
  <1>1. ASSUME NEW x \in R
        PROVE  \E b \in B : x \in Remains(b, from, to)
    BY <1>1 DEF Cut
  <1>2. ASSUME NEW b \in B, NEW x \in Remains(b, from, to)
        PROVE  /\ x \in R /\ IsItem(b) /\ IsItem(x)
               /\ b.index \in Int /\ End(b) \in Int
               /\ x.index \in Int /\ End(x) \in Int
               /\ x.chunk.blk = b.chunk.blk
               /\ b.index <= x.index /\ End(x) <= End(b)
               /\ End(x) <= from \/ to <= x.index
               /\ End(b) <= MaxIndex
    <2>1. IsItem(b) /\ End(b) <= MaxIndex
      BY DEF IsList
    <2>2. /\ IsItem(x) /\ x.chunk.blk = b.chunk.blk
          /\ b.index <= x.index /\ End(x) <= End(b)
          /\ End(x) <= from \/ to <= x.index
      BY <2>1, RemainsParts
    <2>3. x \in R
      BY DEF Cut
    <2> QED
      BY <2>1, <2>2, <2>3, ItemTypes
  <1>3. ASSUME NEW x \in R PROVE IsItem(x) /\ End(x) <= MaxIndex
    BY <1>0, <1>1, <1>2
  <1>4. ASSUME NEW x \in R, NEW y \in R, x # y PROVE Apart(x, y)
    <2>1. PICK b \in B : x \in Remains(b, from, to)
      BY <1>1
    <2>2. PICK c \in B : y \in Remains(c, from, to)
      BY <1>1
    <2>3. CASE b = c
      BY <1>2, <1>4, <2>1, <2>2, <2>3, RemainsApart
    <2>4. CASE b # c
      <3>1. Apart(b, c)
        BY <2>4 DEF IsList
      <3> QED
        BY <1>2, <2>1, <2>2, <3>1 DEF Apart
    <2> QED
      BY <2>3, <2>4
  <1>5. IsList(R)
    BY <1>3, <1>4 DEF IsList
  <1>6. \A x \in R : End(x) <= from \/ to <= x.index
    BY <1>1, <1>2
  <1>7. ASSUME NEW x \in R, NEW p \in Int, Covers(x, p) PROVE From(x, B, p)
    <2>1. PICK b \in B : x \in Remains(b, from, to)
      BY <1>1
    <2>2. Covers(b, p)
      BY <1>2, <1>7, <2>1 DEF Covers
    <2> QED
      BY <1>2, <2>1, <2>2 DEF From
  <1>8. ASSUME NEW p \in Int, ~(from <= p /\ p < to), NEW b \in B, Covers(b, p)
        PROVE  \E x \in R : Covers(x, p)
    <2>1. IsItem(b)
      BY DEF IsList
    <2>2. PICK x \in Remains(b, from, to) : Covers(x, p)
      BY <1>8, <2>1, RemainsCover
    <2> QED
      BY <1>2, <2>2
  <1> QED
    BY <1>5, <1>6, <1>7, <1>8

\* ... and puts the new item there, or lets the item before it grow.
LEMMA WrittenList ==
    ASSUME NEW r, Multiple(r.write_index), IsList(r.blocks),
           NEW c, IsChunk(c), r.write_index + c.length <= MaxIndex,
           NEW W, W = Written(r, c)
    PROVE  /\ IsList(W)
           /\ \A x \in W, p \in Int : Covers(x, p) =>
                IF r.write_index <= p /\ p < r.write_index + c.length
                THEN x.chunk.blk = c.blk ELSE From(x, r.blocks, p)
           /\ \A p \in Int : (\E b \in r.blocks : Covers(b, p))
                             => \E x \in W : Covers(x, p)
  <1> DEFINE w == r.write_index
             e == w + c.length
             R == UNION {Remains(b, w, e) : b \in r.blocks}
             before == {b \in R : Continues(b, w, c)}
             Grown(b) == Item(b.index,
                            [b.chunk EXCEPT !.length = b.chunk.length + c.length])
             n == Item(w, c)
  <1>0. /\ MaxIndex \in Int /\ BlockLength \in Int /\ w \in Int
        /\ c.length \in Int /\ c.length > 0 /\ Multiple(w)
        /\ Multiple(c.length) /\ c.index \in Int
        /\ c.index + c.length <= BlockLength
    BY QueueAssumption DEF Multiple, IsChunk, Pushable
  <1>1. Multiple(e) /\ e \in Int /\ w < e
    BY <1>0, SumIsMultiple
  <1>2. W = IF before = {} THEN R \cup {n}
            ELSE (R \ before) \cup {Grown(b) : b \in before}
    BY DEF Written
  <1>3. /\ IsList(R)
        /\ \A x \in R : End(x) <= w \/ e <= x.index
        /\ \A x \in R, p \in Int : Covers(x, p) => From(x, r.blocks, p)
        /\ \A p \in Int : /\ ~(w <= p /\ p < e)
                          /\ \E b \in r.blocks : Covers(b, p)
                          => \E x \in R : Covers(x, p)
    <2> HIDE DEF e, w
    <2>1. R = Cut(r.blocks, w, e)
      BY DEF Cut
    <2> HIDE DEF R
    <2> QED
      BY <1>0, <1>1, <2>1, CutList
  <1>4. IsItem(n) /\ n.index = w /\ End(n) = e /\ n.chunk.blk = c.blk
    BY <1>0, MakeItem
  <1>5. ASSUME NEW b \in before
        PROVE  /\ b \in R /\ IsItem(b) /\ End(b) = w /\ b.index \in Int
               /\ b.index < w /\ b.chunk.blk = c.blk
               /\ IsItem(Grown(b)) /\ Grown(b).index = b.index
               /\ End(Grown(b)) = e /\ Grown(b).chunk.blk = c.blk
    <2> DEFINE g == [blk |-> b.chunk.blk, index |-> b.chunk.index,
                     length |-> b.chunk.length + c.length]
    <2>1. /\ b \in R /\ End(b) = w /\ b.chunk.blk = c.blk
          /\ b.chunk.index + b.chunk.length = c.index
      BY <1>5 DEF Continues
    <2> HIDE DEF R, w, before
    <2>2. IsItem(b)
      BY <1>3, <2>1 DEF IsList
    <2>3. /\ b.index \in Int /\ b.chunk.length \in Int /\ b.chunk.index \in Int
          /\ b.chunk.length > 0 /\ b.index < w
          /\ End(b) = b.index + b.chunk.length
          /\ Multiple(b.index) /\ Multiple(b.chunk.index)
          /\ Multiple(b.chunk.length)
      BY <2>1, <2>2, ItemTypes
    <2>4. Multiple(b.chunk.length + c.length)
      BY <1>0, <2>3, SumIsMultiple
    <2>5. /\ b.chunk.index + (b.chunk.length + c.length) <= BlockLength
          /\ b.chunk.length + c.length > 0
      BY <1>0, <2>1, <2>3
    <2>6. IsChunk(g)
      BY <2>3, <2>4, <2>5, MakeChunk
    <2>7. Grown(b) = Item(b.index, g)
      <3> DEFINE k == b.chunk.blk
                 i == b.chunk.index
                 l == b.chunk.length
                 v == b.chunk.length + c.length
      <3>1. b.chunk = [blk |-> k, index |-> i, length |-> l]
        BY <2>2 DEF IsItem, IsChunk
      <3> HIDE DEF k, i, l, v
      <3>2. ASSUME NEW z, z = [b.chunk EXCEPT !.length = v]
            PROVE  z = [blk |-> k, index |-> i, length |-> v]
        BY <3>1, <3>2
      <3>3. [b.chunk EXCEPT !.length = v] = [blk |-> k, index |-> i, length |-> v]
        BY <3>2
      <3> QED
        BY <3>3 DEF k, i, v
    <2>8. /\ g.length = b.chunk.length + c.length /\ g.blk = c.blk
      BY <2>1
    <2> HIDE DEF g
    <2>9. /\ IsItem(Grown(b)) /\ Grown(b).index = b.index
          /\ Grown(b).chunk = g
          /\ End(Grown(b)) = b.index + g.length
      <3> HIDE DEF Grown
      <3> QED
        BY <2>3, <2>6, <2>7, MakeItem
    <2>10. b.index + g.length = e
      BY <1>0, <2>1, <2>3, <2>8
    <2> HIDE DEF Grown
    <2> QED
      BY <2>1, <2>2, <2>3, <2>8, <2>9, <2>10
  <1> HIDE DEF R, e, w, n, Grown, before
  <1>6. ASSUME NEW x \in R
        PROVE  /\ IsItem(x) /\ End(x) <= MaxIndex /\ x.index \in Int
               /\ End(x) \in Int /\ x.index < End(x)
               /\ End(x) <= w \/ e <= x.index
    <2>1. IsItem(x) /\ End(x) <= MaxIndex
      BY <1>3 DEF IsList
    <2> QED
      BY <1>3, <2>1, ItemTypes
  <1>7. ASSUME NEW b \in before, NEW x \in R, x # b PROVE Apart(x, b)
    <2>1. b \in R
      BY <1>5
    <2> QED
      BY <1>3, <1>7, <2>1 DEF IsList
  <1>8. \A b \in before, x \in before : x = b
    <2> SUFFICES ASSUME NEW b \in before, NEW x \in before, x # b PROVE FALSE
      OBVIOUS
    <2>1. x \in R
      BY <1>5
    <2>2. Apart(x, b)
      BY <1>7, <2>1
    <2> QED
      BY <1>0, <1>5, <2>2 DEF Apart
  \* The new item: n, or the one before it, grown.
  <1>9. PICK m :
          /\ W = (R \ before) \cup {m}
          /\ IsItem(m) /\ m.chunk.blk = c.blk /\ End(m) = e
          /\ m.index \in Int /\ m.index <= w
          /\ \A x \in R \ before : Apart(x, m)
          /\ \A p \in Int : p < w /\ Covers(m, p) =>
                \E b \in before : Covers(b, p) /\ b.chunk.blk = c.blk
          /\ \A b \in before, p \in Int : Covers(b, p) => Covers(m, p)
    <2>1. CASE before = {}
      <3>1. W = (R \ before) \cup {n}
        BY <1>2, <2>1
      <3>2. \A x \in R \ before : Apart(x, n)
        BY <1>4, <1>6 DEF Apart
      <3>3. \A p \in Int : p < w => ~Covers(n, p)
        BY <1>0, <1>4 DEF Covers
      <3> QED
        BY <1>0, <1>4, <2>1, <3>1, <3>2, <3>3
    <2>2. CASE before # {}
      <3>1. PICK b \in before : TRUE
        BY <2>2
      <3>2. before = {b}
        BY <1>8, <3>1
      <3>3. {Grown(y) : y \in before} = {Grown(b)}
        BY <3>2
      <3>4. W = (R \ before) \cup {Grown(b)}
        BY <1>2, <2>2, <3>3
      <3>5. \A x \in R \ before : Apart(x, Grown(b))
        <4> TAKE x \in R \ before
        <4>1. x \in R /\ x # b
          BY <3>1
        <4>2. Apart(x, b)
          BY <1>7, <3>1, <4>1
        <4>3. /\ End(b) = w /\ Grown(b).index = b.index /\ End(Grown(b)) = e
              /\ b.index \in Int
          BY <1>5, <3>1
        <4> QED
          BY <1>0, <1>1, <1>6, <4>1, <4>2, <4>3 DEF Apart
      <3>6. /\ IsItem(Grown(b)) /\ Grown(b).chunk.blk = c.blk
            /\ End(Grown(b)) = e /\ Grown(b).index = b.index
            /\ b.index \in Int /\ b.index < w /\ End(b) = w
            /\ b.chunk.blk = c.blk
        BY <1>5, <3>1
      <3>7. \A p \in Int : p < w /\ Covers(Grown(b), p) => Covers(b, p)
        BY <3>6 DEF Covers
      <3>8. \A p \in Int : Covers(b, p) => Covers(Grown(b), p)
        BY <1>0, <1>1, <3>6 DEF Covers
      <3> QED
        BY <1>0, <3>2, <3>4, <3>5, <3>6, <3>7, <3>8
    <2> QED
      BY <2>1, <2>2
  <1>10. IsList(W)
    <2>1. End(m) <= MaxIndex
      BY <1>9 DEF e, w
    <2>2. \A x \in W : IsItem(x) /\ End(x) <= MaxIndex
      BY <1>6, <1>9, <2>1
    <2>3. \A x \in W, y \in W : x # y => Apart(x, y)
      BY <1>3, <1>9 DEF IsList, Apart
    <2> QED
      BY <2>2, <2>3 DEF IsList
  <1>11. ASSUME NEW x \in W, NEW p \in Int, Covers(x, p)
         PROVE  IF w <= p /\ p < e
                THEN x.chunk.blk = c.blk ELSE From(x, r.blocks, p)
    <2>1. CASE x = m
      <3>1. CASE w <= p /\ p < e
        BY <1>9, <2>1, <3>1
      <3>2. CASE ~(w <= p /\ p < e)
        <4>1. p < e
          BY <1>9, <1>11, <2>1 DEF Covers
        <4>2. p < w
          BY <1>0, <3>2, <4>1
        <4>3. PICK b \in before : Covers(b, p) /\ b.chunk.blk = c.blk
          BY <1>9, <1>11, <2>1, <4>2
        <4>4. From(b, r.blocks, p)
          BY <1>3, <1>5, <4>3
        <4> QED
          BY <1>9, <2>1, <3>2, <4>3, <4>4 DEF From
      <3> QED
        BY <3>1, <3>2
    <2>2. CASE x \in R
      <3>1. ~(w <= p /\ p < e)
        BY <1>0, <1>1, <1>6, <1>11, <2>2 DEF Covers
      <3> QED
        BY <1>3, <1>11, <2>2, <3>1
    <2> QED
      BY <1>9, <2>1, <2>2
  <1>12. ASSUME NEW p \in Int, \E b \in r.blocks : Covers(b, p)
         PROVE  \E x \in W : Covers(x, p)
    <2>1. CASE w <= p /\ p < e
      <3>1. Covers(m, p)
        BY <1>0, <1>9, <2>1 DEF Covers
      <3> QED
        BY <1>9, <3>1
    <2>2. CASE ~(w <= p /\ p < e)
      <3>1. PICK x \in R : Covers(x, p)
        BY <1>3, <1>12, <2>2
      <3> QED
        BY <1>9, <3>1
    <2> QED
      BY <2>1, <2>2
  <1> QED
    BY <1>10, <1>11, <1>12 DEF w, e

-----------------------------------------------------------------------------
(* The indices stay on frames.                                             *)

OnFrames(r) == Multiple(r.read_index) /\ Multiple(r.write_index)

\* The end of the last item, and the stop of drop, are ends of items.
LEMMA TailOnFrame ==
    ASSUME NEW r, IsList(r.blocks), NEW x, Multiple(x)
    PROVE  Multiple(TailEnd(r, x))
  <1> DEFINE E == {End(b) : b \in r.blocks}
  <1>1. \A b \in r.blocks : /\ End(b) \in Int /\ Multiple(End(b))
                            /\ End(b) <= MaxIndex
    BY ItemTypes DEF IsList
  <1>2. CASE r.blocks = {}
    BY <1>2 DEF TailEnd
  <1>3. CASE r.blocks # {}
    <2>1. /\ E \in SUBSET Int /\ E # {} /\ \A y \in E : y <= MaxIndex
          /\ \A y \in E : Multiple(y)
      BY <1>1, <1>3
    <2>2. TailEnd(r, x) = Sets!Max(E)
      BY <1>3 DEF TailEnd
    <2> HIDE DEF E
    <2>3. PICK m \in E : \A y \in E : y <= m
      <3>1. MaxIndex \in Int
        BY QueueAssumption
      <3> QED
        BY <2>1, <3>1, GreatestInteger
    <2>4. \E y \in E : \A z \in E : y >= z
      BY <2>1, <2>3
    <2>5. Sets!Max(E) \in E
      BY <2>4 DEF Sets!Max
    <2> QED
      BY <2>1, <2>2, <2>5
  <1> QED
    BY <1>2, <1>3

LEMMA StopOnFrame ==
    ASSUME NEW r, r.read_index \in Int, IsList(r.blocks), NEW l,
           DropStops(r, l) # {}
    PROVE  Multiple(FirstStop(r, l)) /\ FirstStop(r, l) \in DropStops(r, l)
  <1> DEFINE D == DropStops(r, l)
  <1>1. \A b \in r.blocks : End(b) \in Int /\ Multiple(End(b))
    BY ItemTypes DEF IsList
  <1>2. /\ D \in SUBSET Int /\ D # {} /\ \A y \in D : r.read_index <= y
        /\ \A y \in D : Multiple(y)
    BY <1>1 DEF DropStops
  <1>3. FirstStop(r, l) = Sets!Min(D)
    BY DEF FirstStop
  <1> HIDE DEF D
  <1>4. PICK m \in D : \A y \in D : m <= y
    BY <1>2, LeastInteger
  <1>5. Sets!Min(D) \in D
    BY <1>4 DEF Sets!Min
  <1> QED
    BY <1>2, <1>3, <1>5 DEF D

\* pa_memblockq_drop
LEMMA DropIndices ==
    ASSUME NEW r, IsQueue(r), OnFrames(r), IsList(r.blocks),
           NEW l, Multiple(l), NEW s, s = pa_memblockq_drop(r, l)
    PROVE  OnFrames(s) /\ s.write_index = r.write_index
  <1> DEFINE s1 == IF l > 0 THEN update_prebuf(r) ELSE r
             s2 == IF l = 0 \/ s1.in_prebuf THEN s1
                   ELSE IF DropStops(s1, l) = {}
                   THEN [s1 EXCEPT !.read_index = s1.read_index + l]
                   ELSE [s1 EXCEPT !.read_index = FirstStop(s1, l),
                                   !.in_prebuf = TRUE]
             s3 == drop_backlog(s2)
  <1>1. s = read_index_changed(s3, r.read_index)
    BY DEF pa_memblockq_drop
  <1>2. /\ Shape(s1) /\ s1.read_index = r.read_index
        /\ s1.write_index = r.write_index /\ s1.blocks = r.blocks
    BY DEF update_prebuf, IsQueue, Shape
  <1> HIDE DEF s1
  <1>3. /\ Shape(s2) /\ s2.write_index = s1.write_index
        /\ \/ s2.read_index = s1.read_index
           \/ s2.read_index = s1.read_index + l
           \/ DropStops(s1, l) # {} /\ s2.read_index = FirstStop(s1, l)
    <2> DEFINE v == s1.read_index + l
               stop == FirstStop(s1, l)
    <2>1. \/ s2 = s1
          \/ s2 = [s1 EXCEPT !.read_index = v]
          \/ /\ DropStops(s1, l) # {}
             /\ s2 = [s1 EXCEPT !.read_index = stop, !.in_prebuf = TRUE]
      OBVIOUS
    <2> HIDE DEF s2, v, stop
    <2>2. CASE s2 = s1
      BY <1>2, <2>2
    <2>3. CASE s2 = [s1 EXCEPT !.read_index = v]
      BY <1>2, <2>3 DEF Shape, v
    <2>4. CASE /\ DropStops(s1, l) # {}
               /\ s2 = [s1 EXCEPT !.read_index = stop, !.in_prebuf = TRUE]
      <3>1. s2.read_index = stop /\ s2.write_index = s1.write_index
        BY <1>2, <2>4 DEF Shape
      <3>2. Shape(s2)
        BY <1>2, <2>4, SetPassive
      <3> QED
        BY <2>4, <3>1, <3>2 DEF stop
    <2> QED
      BY <2>1, <2>2, <2>3, <2>4
  <1> HIDE DEF s2
  <1>4. /\ Shape(s3) /\ s3.read_index = s2.read_index
        /\ s3.write_index = s2.write_index
    BY <1>3, BacklogPassive
  <1> HIDE DEF s3
  <1>5. s.read_index = s3.read_index /\ s.write_index = s3.write_index
    BY <1>1, <1>4, ChangedPassive
  <1>6. Multiple(s1.read_index) /\ Multiple(s1.read_index + l)
    BY <1>2, SumIsMultiple DEF OnFrames
  <1>7. DropStops(s1, l) # {} => Multiple(FirstStop(s1, l))
    BY <1>2, StopOnFrame DEF OnFrames, Multiple
  <1>8. Multiple(s2.read_index)
    BY <1>3, <1>6, <1>7
  <1> QED
    BY <1>2, <1>3, <1>4, <1>5, <1>8 DEF OnFrames

\* pa_memblockq_seek
LEMMA SeekIndices ==
    ASSUME NEW r, IsQueue(r), OnFrames(r), IsList(r.blocks),
           NEW l, Multiple(l), NEW account,
           NEW mode \in {"RELATIVE", "ABSOLUTE", "RELATIVE_ON_READ",
                         "RELATIVE_END"},
           NEW s, s = pa_memblockq_seek(r, l, mode, account)
    PROVE  OnFrames(s)
  <1> DEFINE w == CASE mode = "RELATIVE" -> r.write_index + l
                    [] mode = "ABSOLUTE" -> l
                    [] mode = "RELATIVE_ON_READ" -> r.read_index + l
                    [] mode = "RELATIVE_END" -> TailEnd(r, r.read_index) + l
             s1 == [r EXCEPT !.write_index = w]
             s2 == drop_backlog(s1)
  <1>1. s = write_index_changed(s2, r.write_index, account)
    BY DEF pa_memblockq_seek
  <1>2. Multiple(w)
    <2>1. /\ Multiple(r.write_index + l) /\ Multiple(r.read_index + l)
          /\ Multiple(TailEnd(r, r.read_index) + l)
      BY SumIsMultiple, TailOnFrame DEF OnFrames
    <2> QED
      BY <2>1
  <1> HIDE DEF w
  <1>3. Shape(s1) /\ s1.write_index = w /\ s1.read_index = r.read_index
    BY DEF IsQueue, Shape
  <1> HIDE DEF s1
  <1>4. /\ Shape(s2) /\ s2.write_index = s1.write_index
        /\ s2.read_index = s1.read_index
    BY <1>3, BacklogPassive
  <1> HIDE DEF s2
  <1>5. s.read_index = s2.read_index /\ s.write_index = s2.write_index
    BY <1>1, <1>4, ChangedPassive
  <1> QED
    BY <1>2, <1>3, <1>4, <1>5 DEF OnFrames

\* The other calls that move an index.
LEMMA OtherIndices ==
    ASSUME NEW r, IsQueue(r), OnFrames(r), NEW l, Multiple(l), NEW account
    PROVE  /\ OnFrames(pa_memblockq_rewind(r, l))
           /\ OnFrames(pa_memblockq_flush_write(r, account))
           /\ OnFrames(pa_memblockq_flush_read(r))
           /\ OnFrames(pa_memblockq_silence(r))
  <1>1. OnFrames(pa_memblockq_rewind(r, l))
    <2> DEFINE v == r.read_index - l
               s1 == [r EXCEPT !.read_index = v]
               s2 == read_index_changed(s1, r.read_index)
    <2>1. pa_memblockq_rewind(r, l) = s2
      BY DEF pa_memblockq_rewind
    <2>2. Multiple(v)
      BY SumIsMultiple DEF OnFrames
    <2> HIDE DEF v
    <2>3. Shape(s1) /\ s1.read_index = v /\ s1.write_index = r.write_index
      BY DEF IsQueue, Shape
    <2> HIDE DEF s1
    <2>4. s2.read_index = s1.read_index /\ s2.write_index = s1.write_index
      BY <2>3, ChangedPassive
    <2> HIDE DEF s2
    <2> QED
      BY <2>1, <2>2, <2>3, <2>4 DEF OnFrames
  <1> DEFINE e == pa_memblockq_silence(r)
  <1>2. /\ Shape(e) /\ e.read_index = r.read_index
        /\ e.write_index = r.write_index
    BY DEF pa_memblockq_silence, IsQueue, Shape
  <1> HIDE DEF e
  <1>3. ASSUME NEW s, Shape(s), OnFrames(s), NEW x,
               \/ x = write_index_changed(pa_memblockq_prebuf_force(s),
                                          r.write_index, account)
               \/ x = read_index_changed(pa_memblockq_prebuf_force(s),
                                         r.read_index)
        PROVE  OnFrames(x)
    <2> DEFINE u == pa_memblockq_prebuf_force(s)
    <2>1. /\ Shape(u) /\ u.read_index = s.read_index
          /\ u.write_index = s.write_index
      BY <1>3 DEF pa_memblockq_prebuf_force, Shape
    <2> HIDE DEF u
    <2>2. \/ x = write_index_changed(u, r.write_index, account)
          \/ x = read_index_changed(u, r.read_index)
      BY <1>3 DEF u
    <2>3. x.read_index = u.read_index /\ x.write_index = u.write_index
      BY <2>1, <2>2, ChangedPassive
    <2> QED
      BY <1>3, <2>1, <2>3 DEF OnFrames
  <1>4. OnFrames(pa_memblockq_flush_write(r, account))
    <2> DEFINE s == [e EXCEPT !.write_index = r.read_index]
    <2>1. pa_memblockq_flush_write(r, account) = write_index_changed(
             pa_memblockq_prebuf_force(s), r.write_index, account)
      BY DEF pa_memblockq_flush_write, e
    <2>2. Shape(s) /\ OnFrames(s)
      BY <1>2 DEF Shape, OnFrames
    <2> HIDE DEF s
    <2> QED
      BY <1>3, <2>1, <2>2
  <1>5. OnFrames(pa_memblockq_flush_read(r))
    <2> DEFINE s == [e EXCEPT !.read_index = r.write_index]
    <2>1. pa_memblockq_flush_read(r) = read_index_changed(
             pa_memblockq_prebuf_force(s), r.read_index)
      BY DEF pa_memblockq_flush_read, e
    <2>2. Shape(s) /\ OnFrames(s)
      BY <1>2 DEF Shape, OnFrames
    <2> HIDE DEF s
    <2> QED
      BY <1>3, <2>1, <2>2
  <1>6. OnFrames(e)
    BY <1>2 DEF OnFrames
  <1> QED
    BY <1>1, <1>4, <1>5, <1>6 DEF e

\* Requests and prebuffering move no index.
LEMMA RequestIndices ==
    ASSUME NEW r, Shape(r), NEW s,
           \/ s = pa_memblockq_pop_missing(r) \/ s = update_prebuf(r)
           \/ s = pa_memblockq_prebuf_disable(r)
           \/ s = pa_memblockq_prebuf_force(r)
    PROVE  s.read_index = r.read_index /\ s.write_index = r.write_index
  BY DEF Shape, pa_memblockq_pop_missing, update_prebuf,
         pa_memblockq_prebuf_disable, pa_memblockq_prebuf_force

\* A setter moves no index.
LEMMA SetterIndices ==
    ASSUME IsQueue(q), SetAttribute
    PROVE  q'.read_index = q.read_index /\ q'.write_index = q.write_index
  <1>0. Shape(q)
    BY DEF IsQueue
  <1>1. ASSUME NEW l, NEW s, s = pa_memblockq_set_maxrewind(q, l)
        PROVE  s.read_index = q.read_index /\ s.write_index = q.write_index
    BY <1>0, <1>1 DEF pa_memblockq_set_maxrewind, Shape
  <1> QED
    BY <1>0, <1>1, SettersKeepList DEF SetAttribute, Becomes, KeepsList

\* Offsets that are multiples of the frame size, in both directions.
LEMMA AlignedMultiple ==
    ASSUME NEW l \in Aligned(MaxIndex)
    PROVE  Multiple(l) /\ Multiple(-l)
  <1>1. Multiple(l) /\ l \in Int
    BY QueueAssumption DEF Aligned, Multiple
  <1>2. Multiple(0 - l)
    BY <1>1, SmallMultiples, SumIsMultiple
  <1>3. 0 - l = -l
    BY <1>1
  <1> QED
    BY <1>1, <1>2, <1>3

\* So no call but push takes an index off a frame.
LEMMA CallIndices ==
    ASSUME IsQueue(q), OnFrames(q), IsList(q.blocks),
           Move \/ Request \/ SetAttribute
    PROVE  OnFrames(q')
  <1>1. CASE Move
    <2>1. ASSUME NEW l \in Aligned(MaxIndex), Becomes(pa_memblockq_drop(q, l))
          PROVE  OnFrames(q')
      BY <2>1, AlignedMultiple, DropIndices DEF Becomes
    <2>2. ASSUME NEW l \in Aligned(MaxIndex), Becomes(pa_memblockq_rewind(q, l))
          PROVE  OnFrames(q')
      BY <2>2, AlignedMultiple, OtherIndices DEF Becomes
    <2>3. ASSUME NEW mode \in {"RELATIVE", "ABSOLUTE", "RELATIVE_ON_READ",
                               "RELATIVE_END"},
                 NEW l \in Aligned(MaxIndex), NEW account \in BOOLEAN,
                 \/ Becomes(pa_memblockq_seek(q, l, mode, account))
                 \/ Becomes(pa_memblockq_seek(q, -l, mode, account))
          PROVE  OnFrames(q')
      <3>1. Multiple(l) /\ Multiple(-l)
        BY AlignedMultiple
      <3>2. PICK k : Multiple(k) /\ q' = pa_memblockq_seek(q, k, mode, account)
        BY <2>3, <3>1 DEF Becomes
      <3> QED
        BY <3>2, SeekIndices
    <2>4. ASSUME NEW account \in BOOLEAN,
                 Becomes(pa_memblockq_flush_write(q, account))
          PROVE  OnFrames(q')
      BY <2>4, SmallMultiples, OtherIndices DEF Becomes
    <2>5. CASE Becomes(pa_memblockq_flush_read(q))
      BY <2>5, SmallMultiples, OtherIndices DEF Becomes
    <2>6. CASE Becomes(pa_memblockq_silence(q))
      BY <2>6, SmallMultiples, OtherIndices DEF Becomes
    <2> QED
      BY <1>1, <2>1, <2>2, <2>3, <2>4, <2>5, <2>6 DEF Move, Flush
  <1>2. CASE Request
    <2>1. q'.read_index = q.read_index /\ q'.write_index = q.write_index
      BY <1>2, RequestIndices DEF Request, Becomes, IsQueue
    <2> QED
      BY <2>1 DEF OnFrames
  <1>3. CASE SetAttribute
    BY <1>3, SetterIndices DEF OnFrames
  <1> QED
    BY <1>1, <1>2, <1>3

-----------------------------------------------------------------------------
(* The list is sound, and what a rewind can reach stays in it.             *)

\* The inductive invariant: frames, a list without overlaps, and the history
\* agreeing with it on the memblock of every position.
ItemsInv ==
    /\ BalanceInv /\ q.maxrewind \in Int
    /\ OnFrames(q) /\ IsList(q.blocks)
    /\ RightMemblock

\* A chunk that may be pushed is one as the items hold them.
LEMMA ChunkIsChunk ==
    ASSUME NEW c \in Chunks
    PROVE  IsChunk(c) /\ Multiple(c.length)
  <1>1. c \in [blk : 1 .. BlockCount, index : 0 .. BlockLength,
               length : 0 .. BlockLength] /\ Pushable(c)
    BY DEF Chunks
  <1>2. c = [blk |-> c.blk, index |-> c.index, length |-> c.length]
    BY <1>1
  <1>3. c.index \in Int /\ c.length \in Int
    BY <1>1, QueueAssumption
  <1> QED
    BY <1>1, <1>2, <1>3 DEF IsChunk, Pushable, Multiple

\* A new queue is empty.
LEMMA ItemsInit == MbqInit => ItemsInv
  <1> SUFFICES ASSUME MbqInit PROVE ItemsInv
    OBVIOUS
  <1>1. PICK a \in Attributes :
           q = pa_memblockq_new(0, a.maxlength, a.tlength, Base, a.prebuf,
                                a.minreq, a.maxrewind, NullChunk)
    BY DEF MbqInit
  <1>2. /\ a.maxlength \in Int /\ a.tlength \in Nat /\ a.prebuf \in Nat
        /\ a.minreq \in Int /\ a.maxrewind \in Int
    BY QueueAssumption
  <1>3. q.blocks = {} /\ q.maxrewind \in Int
    BY <1>1, <1>2, NewEffect
  <1>4. OnFrames(q)
    <2> DEFINE zero == [blocks |-> {}, read_index |-> 0, write_index |-> 0,
                        in_prebuf |-> TRUE, base |-> Base, maxlength |-> 0,
                        tlength |-> 0, prebuf |-> 0, minreq |-> 0,
                        maxrewind |-> 0, missing |-> 0, requested |-> 0,
                        silence |-> NullChunk]
               s1 == pa_memblockq_set_maxlength(zero, a.maxlength)
               s2 == pa_memblockq_set_tlength(s1, a.tlength)
               s3 == pa_memblockq_set_minreq(s2, a.minreq)
               s4 == pa_memblockq_set_prebuf(s3, a.prebuf)
    <2>1. q = pa_memblockq_set_maxrewind(s4, a.maxrewind)
      BY <1>1 DEF pa_memblockq_new
    <2>2. Shape(zero) /\ zero.read_index = 0 /\ zero.write_index = 0
      BY DEF Shape
    <2> HIDE DEF zero
    <2>3. KeepsList(zero, s1)
      BY <2>2, SettersKeepList
    <2> HIDE DEF s1
    <2>4. KeepsList(s1, s2)
      BY <2>3, SettersKeepList DEF KeepsList, KeepsItems
    <2> HIDE DEF s2
    <2>5. KeepsList(s2, s3)
      BY <2>4, SettersKeepList DEF KeepsList, KeepsItems
    <2> HIDE DEF s3
    <2>6. KeepsList(s3, s4)
      BY <2>5, SettersKeepList DEF KeepsList, KeepsItems
    <2> HIDE DEF s4
    <2>7. Shape(s4) /\ s4.read_index = 0 /\ s4.write_index = 0
      BY <2>2, <2>3, <2>4, <2>5, <2>6 DEF KeepsList, KeepsItems
    <2>8. q.read_index = 0 /\ q.write_index = 0
      BY <2>1, <2>7 DEF pa_memblockq_set_maxrewind, Shape
    <2> QED
      BY <2>8, SmallMultiples DEF OnFrames
  <1>5. IsList(q.blocks) /\ RightMemblock
    BY <1>3 DEF IsList, RightMemblock
  <1> QED
    BY <1>3, <1>4, <1>5, BalanceInit DEF ItemsInv

\* A call that writes nothing leaves a part of the list.
LEMMA CallItems ==
    ASSUME ItemsInv, Move \/ Request \/ SetAttribute
    PROVE  ItemsInv'
  <1>1. IsQueue(q) /\ q.maxrewind \in Int
    BY DEF ItemsInv, BalanceInv
  <1>2. BalanceInv'
    BY BalanceStep DEF ItemsInv, MbqNext
  <1>3. /\ q'.maxrewind \in Int
        /\ Forgets(q, q') \/ q'.blocks = {}
    BY <1>1, CallEffects
  <1>4. OnFrames(q')
    BY <1>1, CallIndices DEF ItemsInv
  <1>5. q'.blocks \subseteq q.blocks
    BY <1>3 DEF Forgets
  <1>6. IsList(q'.blocks)
    BY <1>5 DEF ItemsInv, IsList
  <1>7. \E r : Becomes(r)
    BY DEF Move, Flush, Request, SetAttribute
  <1>8. written' = [p \in Positions |->
                       IF Holds(q', p) THEN written[p] ELSE Nothing]
    BY <1>7 DEF Becomes
  <1>9. RightMemblock'
    <2> SUFFICES ASSUME NEW b \in q'.blocks, NEW p \in Positions, Covers(b, p)
                 PROVE  written'[p].blk = b.chunk.blk
      BY DEF RightMemblock, Positions, Covers, End
    <2>1. Holds(q', p)
      BY DEF Holds
    <2>2. written'[p] = written[p]
      BY <1>8, <2>1
    <2> QED
      BY <1>5, <2>2 DEF ItemsInv, RightMemblock
  <1> QED
    BY <1>2, <1>3, <1>4, <1>6, <1>9 DEF ItemsInv, OnFrames, IsList

\* Push: the history and the list take the same memblock.
LEMMA PushItems ==
    ASSUME ItemsInv, NEW c \in Chunks, Push(c)
    PROVE  /\ ItemsInv'
           /\ \A p \in Positions : Holds(q, p) => Holds(q', p)
  <1> DEFINE w == q.write_index
  <1>0. /\ IsQueue(q) /\ Shape(q) /\ q.maxrewind \in Int /\ w \in Int
        /\ IsList(q.blocks) /\ Multiple(w)
    BY DEF ItemsInv, BalanceInv, IsQueue, OnFrames
  <1>1. IsChunk(c) /\ Multiple(c.length) /\ c.length \in Int /\ c.length > 0
    BY ChunkIsChunk DEF IsChunk, Pushable
  <1>2. BalanceInv'
    BY BalanceStep DEF ItemsInv, MbqNext
  <1>3. /\ q' = pa_memblockq_push(q, c) /\ InBounds(q')
        /\ written' = [p \in Positions |->
              CASE ~Holds(q', p) -> Nothing
                [] w <= p /\ p < q'.write_index ->
                     [blk |-> c.blk, at |-> c.index + p - w]
                [] OTHER -> written[p]]
    BY DEF Push
  <1>4. /\ q'.maxrewind = q.maxrewind /\ q'.read_index = q.read_index
        /\ \/ q' = q
           \/ /\ q'.blocks = Written(q, c)
              /\ q'.write_index = w + c.length
    BY <1>0, <1>3, PushEffect
  <1>5. Positions \subseteq Int
    BY QueueAssumption DEF Positions
  <1>6. ASSUME NEW p \in Positions, Holds(q', p),
               ~(w <= p /\ p < q'.write_index)
        PROVE  written'[p] = written[p]
    BY <1>3, <1>6
  <1>7. CASE q' = q
    <2>1. RightMemblock'
      <3> SUFFICES ASSUME NEW b \in q'.blocks, NEW p \in Positions, Covers(b, p)
                   PROVE  written'[p].blk = b.chunk.blk
        BY DEF RightMemblock, Positions, Covers, End
      <3>1. Holds(q', p)
        BY DEF Holds
      <3>2. ~(w <= p /\ p < q'.write_index)
        BY <1>0, <1>5, <1>7
      <3>3. written'[p] = written[p]
        BY <1>6, <3>1, <3>2
      <3> QED
        BY <1>7, <3>3 DEF ItemsInv, RightMemblock
    <2> QED
      BY <1>2, <1>7, <2>1 DEF ItemsInv, OnFrames, IsList
  <1>8. CASE q'.blocks = Written(q, c) /\ q'.write_index = w + c.length
    <2>1. w + c.length <= MaxIndex
      BY <1>3, <1>8, QueueAssumption DEF InBounds
    <2>2. /\ IsList(q'.blocks)
          /\ \A x \in q'.blocks, p \in Int : Covers(x, p) =>
                IF w <= p /\ p < w + c.length
                THEN x.chunk.blk = c.blk ELSE From(x, q.blocks, p)
          /\ \A p \in Int : (\E b \in q.blocks : Covers(b, p))
                            => \E x \in q'.blocks : Covers(x, p)
      BY <1>0, <1>1, <1>8, <2>1, WrittenList
    <2>3. OnFrames(q')
      BY <1>0, <1>1, <1>4, <1>8, SumIsMultiple DEF OnFrames, ItemsInv
    <2>4. RightMemblock'
      <3> SUFFICES ASSUME NEW x \in q'.blocks, NEW p \in Positions, Covers(x, p)
                   PROVE  written'[p].blk = x.chunk.blk
        BY DEF RightMemblock, Positions, Covers, End
      <3>1. Holds(q', p)
        BY DEF Holds
      <3>2. CASE w <= p /\ p < w + c.length
        <4>1. written'[p] = [blk |-> c.blk, at |-> c.index + p - w]
          BY <1>3, <1>8, <3>1, <3>2
        <4>2. x.chunk.blk = c.blk
          BY <1>5, <2>2, <3>2
        <4> QED
          BY <4>1, <4>2
      <3>3. CASE ~(w <= p /\ p < w + c.length)
        <4>1. written'[p] = written[p]
          BY <1>6, <1>8, <3>1, <3>3
        <4>2. From(x, q.blocks, p)
          BY <1>5, <2>2, <3>3
        <4> QED
          BY <4>1, <4>2 DEF From, ItemsInv, RightMemblock
      <3> QED
        BY <3>2, <3>3
    <2>5. \A p \in Positions : Holds(q, p) => Holds(q', p)
      BY <1>5, <2>2 DEF Holds
    <2> QED
      BY <1>0, <1>2, <1>4, <2>2, <2>3, <2>4, <2>5
         DEF ItemsInv, OnFrames, IsList
  <1> QED
    BY <1>4, <1>7, <1>8

\* Every step.
LEMMA ItemsStep == ItemsInv /\ [MbqNext]_mbqVars => ItemsInv'
  <1> SUFFICES ASSUME ItemsInv, [MbqNext]_mbqVars PROVE ItemsInv'
    OBVIOUS
  <1>1. CASE UNCHANGED mbqVars
    BY <1>1 DEF mbqVars, ItemsInv, BalanceInv, OnFrames, IsList, RightMemblock
  <1> QED
    BY <1>1, CallItems, PushItems DEF MbqNext

\* The assertions of pa_memblockq_push and drop_block on the list hold after
\* every sequence of pushes, seeks, drops, rewinds and flushes: its items never
\* overlap, none is empty, each stays inside its memblock, and each position
\* of the queue belongs to the memblock that was pushed there last.
THEOREM ListStaysSound == MbqSpec => []ItemsSound
  <1>1. ItemsInv => ItemsSound
    <2> SUFFICES ASSUME ItemsInv PROVE BlocksDisjoint
      BY DEF ItemsInv, ItemsSound
    <2>1. \A b \in q.blocks : Pushable(b.chunk)
      BY DEF ItemsInv, IsList, IsItem, IsChunk
    <2>2. \A b \in q.blocks, c \in q.blocks :
             b # c => End(b) <= c.index \/ End(c) <= b.index
      BY DEF ItemsInv, IsList, Apart
    <2> QED
      BY <2>1, <2>2 DEF BlocksDisjoint
  <1> QED
    BY <1>1, ItemsInit, ItemsStep, PTL DEF MbqSpec

\* What pa_memblockq_rewind relies on: outside of a flush, data leaves the
\* queue only when drop_backlog finds it more than maxrewind behind the read
\* index.  Neither an overwriting push nor a seek nor a setter loses any.
THEOREM RewindFindsData == MbqSpec => KeepsRewindable
  <1> DEFINE Kept == \A p \in Positions :
                Holds(q, p) /\ ~Holds(q', p)
                => Flush \/ p < q'.read_index - q'.maxrewind
  <1>1. ItemsInv /\ [MbqNext]_mbqVars => [Kept]_mbqVars
    <2> SUFFICES ASSUME ItemsInv, MbqNext PROVE Kept
      OBVIOUS
    <2>1. ASSUME NEW c \in Chunks, Push(c) PROVE Kept
      BY <2>1, PushItems
    <2>2. ASSUME Move \/ Request \/ SetAttribute PROVE Kept
      <3>1. IsQueue(q) /\ q.maxrewind \in Int
        BY DEF ItemsInv, BalanceInv
      <3>2. /\ q'.maxrewind \in Int
            /\ Forgets(q, q') \/ Flush
        BY <2>2, <3>1, CallEffects
      <3>3. q'.read_index \in Int
        BY <2>2, CallItems DEF ItemsInv, BalanceInv, IsQueue
      <3> SUFFICES ASSUME NEW p \in Positions, Holds(q, p), ~Holds(q', p),
                          ~Flush
                   PROVE  p < q'.read_index - q'.maxrewind
        OBVIOUS
      <3>4. PICK b \in q.blocks : Covers(b, p)
        BY DEF Holds
      <3>5. b \notin q'.blocks
        BY <3>4 DEF Holds
      <3>6. ~(End(b) > q'.read_index - q'.maxrewind)
        BY <3>2, <3>5 DEF Forgets
      <3>7. End(b) \in Int /\ p \in Int
        BY ItemTypes, QueueAssumption DEF ItemsInv, IsList, Positions
      <3> QED
        BY <3>2, <3>3, <3>4, <3>6, <3>7 DEF Covers
    <2> QED
      BY <2>1, <2>2 DEF MbqNext
  <1>2. MbqSpec => [][Kept]_mbqVars
    BY <1>1, ItemsInit, ItemsStep, PTL DEF MbqSpec
  <1> QED
    BY <1>2 DEF KeepsRewindable
=============================================================================
