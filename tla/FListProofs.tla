---------------------------- MODULE FListProofs ----------------------------
(***************************************************************************)
(* The pool of pointers is never corrupted: the proof of FreeListCorrect,  *)
(* for any number of threads, any table and any pointers.                  *)
(*                                                                         *)
(* The two stacks are described by the set of heads linked into each:      *)
(* OnStack(h, nx, S) says that the list which starts at h and continues    *)
(* along the links nx goes through the heads S, each element once, and     *)
(* ends.  Popping, pushing, and writing the link of an element that is not *)
(* on the list have an effect on S that is easy to state; what the         *)
(* recursive definition Below computes is then read off S once.            *)
(*                                                                         *)
(* A pop is right because of the tags: a thread that finds the head it     *)
(* loaded still (or again) in place may rely on the link it has read.      *)
(* That needs every tag drawn to be new to the threads that are between    *)
(* their load and their cmpxchg, which is what FreshTags says.             *)
(***************************************************************************)
EXTENDS FList, TLAPS, FiniteSetTheorems, NaturalsInduction, WellFoundedInduction

Lists == {"stored", "empty"}
Index == 0 .. TableSize - 1
Entry == [index : Index, tag : Nat]

-----------------------------------------------------------------------------
(* Linked lists.                                                           *)

\* The k-th head of the list e of length n.
At(e, n, k) == IF k <= n THEN e[k] ELSE Nil

Chain(h, nx, e, n) ==
    /\ n \in Nat
    /\ e \in [1 .. n -> Entry]
    /\ h = At(e, n, 1)
    /\ \A k \in 1 .. n : nx[e[k].index] = At(e, n, k + 1)
    /\ \A j, k \in 1 .. n : e[j].index = e[k].index => j = k

OnStack(h, nx, S) ==
    \E n, e : Chain(h, nx, e, n) /\ S = {e[k] : k \in 1 .. n}

LEMMA EntryFacts ==
    /\ TableSize \in Nat \ {0} /\ TagMod \in Nat \ {0}
    /\ \A x \in Entry : x.index \in Index /\ x.index \in Nat /\ x.tag \in Nat /\ x # Nil
    /\ Nil.index = -1 /\ Nil.tag = 0
    /\ Nil \notin Entry
  BY FListAssumption DEF Entry, Index, Nil

\* A list is empty or starts with one of its heads.
LEMMA StackHead ==
    ASSUME NEW h, NEW nx, NEW S, OnStack(h, nx, S)
    PROVE  /\ S \in SUBSET Entry
           /\ h = Nil => S = {}
           /\ h # Nil => h \in S
           /\ \A x, y \in S : x.index = y.index => x = y
           /\ \A x \in S : nx[x.index] \in S \cup {Nil}
  <1>1. PICK n, e : Chain(h, nx, e, n) /\ S = {e[k] : k \in 1 .. n}
    BY DEF OnStack
  <1>2. n \in Nat /\ e \in [1 .. n -> Entry]
    BY <1>1 DEF Chain
  <1>3. S \in SUBSET Entry
    BY <1>1, <1>2
  <1>4. h = Nil => S = {}
    BY <1>1, <1>2, EntryFacts DEF Chain, At
  <1>5. h # Nil => h \in S
    BY <1>1, <1>2 DEF Chain, At
  <1>6. \A x, y \in S : x.index = y.index => x = y
    BY <1>1, <1>2 DEF Chain
  <1>7. \A x \in S : nx[x.index] \in S \cup {Nil}
    <2> TAKE x \in S
    <2>1. PICK k \in 1 .. n : x = e[k]
      BY <1>1
    <2>2. nx[x.index] = At(e, n, k + 1)
      BY <1>1, <2>1 DEF Chain
    <2>3. CASE k + 1 <= n
      <3>1. k + 1 \in 1 .. n
        BY <1>2, <2>3
      <3> QED
        BY <1>1, <2>2, <2>3, <3>1 DEF At
    <2>4. CASE ~(k + 1 <= n)
      BY <2>2, <2>4 DEF At
    <2> QED
      BY <2>3, <2>4
  <1> QED
    BY <1>3, <1>4, <1>5, <1>6, <1>7

\* stack_pop: the list goes on behind its head.
LEMMA StackPop ==
    ASSUME NEW h, NEW nx, NEW S, OnStack(h, nx, S), h # Nil
    PROVE  OnStack(nx[h.index], nx, S \ {h})
  <1>1. PICK n, e : Chain(h, nx, e, n) /\ S = {e[k] : k \in 1 .. n}
    BY DEF OnStack
  <1>2. n \in Nat /\ n >= 1 /\ e \in [1 .. n -> Entry] /\ h = e[1]
    BY <1>1 DEF Chain, At
  <1> DEFINE m == n - 1
             f == [k \in 1 .. m |-> e[k + 1]]
  <1>3. m \in Nat /\ f \in [1 .. m -> Entry]
    BY <1>2
  <1>4. nx[h.index] = At(f, m, 1)
    <2>1. 1 \in 1 .. n /\ nx[h.index] = At(e, n, 2)
      BY <1>1, <1>2 DEF Chain
    <2> QED
      BY <1>2, <2>1 DEF At
  <1>5. \A k \in 1 .. m : nx[f[k].index] = At(f, m, k + 1)
    <2> TAKE k \in 1 .. m
    <2>1. k + 1 \in 1 .. n /\ f[k] = e[k + 1]
      BY <1>2
    <2>2. nx[e[k + 1].index] = At(e, n, k + 2)
      BY <1>1, <1>2, <2>1 DEF Chain
    <2>3. At(e, n, k + 2) = At(f, m, k + 1)
      BY <1>2 DEF At
    <2> QED
      BY <2>1, <2>2, <2>3
  <1>6. \A j, k \in 1 .. m : f[j].index = f[k].index => j = k
    <2> TAKE j, k \in 1 .. m
    <2>1. j + 1 \in 1 .. n /\ k + 1 \in 1 .. n
      BY <1>2
    <2>2. f[j] = e[j + 1] /\ f[k] = e[k + 1]
      OBVIOUS
    <2>3. e[j + 1].index = e[k + 1].index => j + 1 = k + 1
      BY <1>1, <2>1 DEF Chain
    <2> QED
      BY <1>2, <2>2, <2>3
  <1>7. S \ {h} = {f[k] : k \in 1 .. m}
    <2>1. \A k \in 1 .. m : f[k] \in S \ {h}
      <3> TAKE k \in 1 .. m
      <3>1. k + 1 \in 1 .. n /\ 1 \in 1 .. n /\ k + 1 # 1 /\ f[k] = e[k + 1]
        BY <1>2
      <3>2. e[k + 1].index # e[1].index
        BY <1>1, <3>1 DEF Chain
      <3> QED
        BY <1>1, <1>2, <3>1, <3>2
    <2>2. \A x \in S \ {h} : x \in {f[k] : k \in 1 .. m}
      <3> TAKE x \in S \ {h}
      <3>1. PICK j \in 1 .. n : x = e[j]
        BY <1>1
      <3>2. j # 1
        BY <1>2, <3>1
      <3>3. j - 1 \in 1 .. m /\ f[j - 1] = e[j]
        BY <1>2, <3>2
      <3> QED
        BY <3>1, <3>3
    <2> QED
      BY <2>1, <2>2
  <1> HIDE DEF m, f
  <1>8. Chain(nx[h.index], nx, f, m)
    BY <1>3, <1>4, <1>5, <1>6 DEF Chain
  <1> QED
    BY <1>7, <1>8 DEF OnStack

\* stack_push: an element whose link is the head becomes the new head.
LEMMA StackPush ==
    ASSUME NEW h, NEW nx, NEW S, OnStack(h, nx, S), NEW x \in Entry,
           nx[x.index] = h, \A y \in S : y.index # x.index
    PROVE  OnStack(x, nx, S \cup {x})
  <1>1. PICK n, e : Chain(h, nx, e, n) /\ S = {e[k] : k \in 1 .. n}
    BY DEF OnStack
  <1>2. n \in Nat /\ e \in [1 .. n -> Entry] /\ h = At(e, n, 1)
    BY <1>1 DEF Chain
  <1> DEFINE m == n + 1
             f == [k \in 1 .. m |-> IF k = 1 THEN x ELSE e[k - 1]]
  <1>3. m \in Nat /\ f \in [1 .. m -> Entry] /\ 1 \in 1 .. m /\ f[1] = x
    BY <1>2
  <1>4. \A k \in 1 .. m : nx[f[k].index] = At(f, m, k + 1)
    <2> TAKE k \in 1 .. m
    <2>1. CASE k = 1
      <3>1. At(f, m, 2) = At(e, n, 1)
        BY <1>2 DEF At
      <3> QED
        BY <1>2, <1>3, <2>1, <3>1
    <2>2. CASE k # 1
      <3>1. k - 1 \in 1 .. n /\ f[k] = e[k - 1]
        BY <1>2, <2>2
      <3>2. nx[e[k - 1].index] = At(e, n, (k - 1) + 1)
        BY <1>1, <3>1 DEF Chain
      <3>3. At(e, n, (k - 1) + 1) = At(f, m, k + 1)
        BY <1>2, <2>2 DEF At
      <3> QED
        BY <3>1, <3>2, <3>3
    <2> QED
      BY <2>1, <2>2
  <1>5. \A j, k \in 1 .. m : f[j].index = f[k].index => j = k
    <2>1. \A k \in 1 .. m : k # 1 => k - 1 \in 1 .. n /\ f[k] = e[k - 1] /\ e[k - 1] \in S
      BY <1>1, <1>2
    <2>2. \A k \in 1 .. m : k # 1 => f[k].index # x.index
      BY <2>1
    <2>3. \A j, k \in 1 .. n : e[j].index = e[k].index => j = k
      BY <1>1 DEF Chain
    <2> SUFFICES ASSUME NEW j \in 1 .. m, NEW k \in 1 .. m, f[j].index = f[k].index
                 PROVE  j = k
      OBVIOUS
    <2> HIDE DEF f
    <2>4. CASE j = 1 \/ k = 1
      BY <1>3, <2>2, <2>4
    <2>5. CASE j # 1 /\ k # 1
      <3>1. j - 1 = k - 1
        BY <2>1, <2>3, <2>5
      <3> QED
        BY <1>2, <3>1
    <2> QED
      BY <2>4, <2>5
  <1>6. S \cup {x} = {f[k] : k \in 1 .. m}
    <2>1. \A k \in 1 .. m : f[k] \in S \cup {x}
      <3> TAKE k \in 1 .. m
      <3>1. k # 1 => k - 1 \in 1 .. n /\ f[k] = e[k - 1]
        BY <1>2
      <3> QED
        BY <1>1, <1>3, <3>1
    <2>2. \A y \in S : y \in {f[k] : k \in 1 .. m}
      <3> TAKE y \in S
      <3>1. PICK j \in 1 .. n : y = e[j]
        BY <1>1
      <3>2. j + 1 \in 1 .. m /\ f[j + 1] = e[j]
        BY <1>2
      <3> QED
        BY <3>1, <3>2
    <2>3. x \in {f[k] : k \in 1 .. m}
      BY <1>3
    <2> QED
      BY <2>1, <2>2, <2>3
  <1>7. x = At(f, m, 1)
    BY <1>2, <1>3 DEF At
  <1> HIDE DEF m, f
  <1>8. Chain(x, nx, f, m)
    BY <1>3, <1>4, <1>5, <1>7 DEF Chain
  <1> QED
    BY <1>6, <1>8 DEF OnStack

\* A list only depends on the links of its own elements.
LEMMA StackFrame ==
    ASSUME NEW h, NEW nx, NEW ny, NEW S, OnStack(h, nx, S),
           \A x \in S : ny[x.index] = nx[x.index]
    PROVE  OnStack(h, ny, S)
  <1>1. PICK n, e : Chain(h, nx, e, n) /\ S = {e[k] : k \in 1 .. n}
    BY DEF OnStack
  <1>2. \A k \in 1 .. n : ny[e[k].index] = nx[e[k].index]
    BY <1>1
  <1>3. Chain(h, ny, e, n)
    BY <1>1, <1>2 DEF Chain
  <1> QED
    BY <1>1, <1>3 DEF OnStack

-----------------------------------------------------------------------------
(* What Below computes.                                                    *)

LessThan == {ss \in Nat \X Nat : ss[1] < ss[2]}

LEMMA LessThanWellFounded == IsWellFoundedOn(LessThan, Nat)
  BY NatLessThanWellFounded, Zenon DEF OpToRel, LessThan

\* The least-number principle, which stands in for induction.
LEMMA LeastNatural ==
    ASSUME NEW T \in SUBSET Nat, T # {}
    PROVE  \E x \in T : \A y \in T : x <= y
  <1>1. PICK x \in T : \A y \in T : ~(<<y, x>> \in LessThan)
    BY LessThanWellFounded, WFMin
  <1>2. ASSUME NEW a \in Nat, NEW b \in Nat, a < b
        PROVE  <<a, b>> \in LessThan
    BY <1>2 DEF LessThan
  <1>3. \A y \in T : ~(y < x)
    BY <1>1, <1>2
  <1> QED
    BY <1>3

\* A list that visits every element at most once fits into the table.
LEMMA ChainLength ==
    ASSUME NEW h, NEW nx, NEW e, NEW n, Chain(h, nx, e, n)
    PROVE  n <= TableSize
  <1>1. n \in Nat /\ e \in [1 .. n -> Entry] /\ TableSize \in Nat \ {0}
    BY EntryFacts DEF Chain
  <1> SUFFICES ASSUME n > TableSize PROVE FALSE
    BY <1>1
  <1> DEFINE f == [k \in 1 .. n |-> e[k].index]
  <1>2. f \in [1 .. n -> Index]
    BY <1>1, EntryFacts
  <1>3. IsFiniteSet(1 .. n) /\ Cardinality(1 .. n) = n
    BY <1>1, FS_Interval
  <1>4. IsFiniteSet(Index) /\ Cardinality(Index) = TableSize
    <2>1. 0 \in Int /\ TableSize - 1 \in Int /\ ~(0 > TableSize - 1)
      BY <1>1
    <2>2. /\ IsFiniteSet(0 .. TableSize - 1)
          /\ Cardinality(0 .. TableSize - 1) = TableSize - 1 - 0 + 1
      BY <2>1, FS_Interval
    <2> QED
      BY <1>1, <2>2 DEF Index
  <1> HIDE DEF f
  <1>5. PICK j, k \in 1 .. n : j # k /\ f[j] = f[k]
    BY <1>1, <1>2, <1>3, <1>4, FS_PigeonHole
  <1>6. e[j].index = e[k].index
    BY <1>5 DEF f
  <1> QED
    BY <1>5, <1>6 DEF Chain

\* The functions that satisfy the recursive equation of Below.
IsWalk(b, h, nx) ==
    b = [k \in 0 .. TableSize |-> IF k = 0 THEN h
                                  ELSE IF b[k - 1] = Nil THEN Nil
                                  ELSE nx[b[k - 1].index]]

Walk(h, nx) == CHOOSE b : IsWalk(b, h, nx)

\* The heads linked into a stack.
Visited(h, nx) == {Walk(h, nx)[k] : k \in 0 .. TableSize - 1} \ {Nil}
Linked(l) == Visited(head[l], next)

\* Below is such a walk, in every state and in the next one.
LEMMA BelowIsWalk ==
    ASSUME NEW l
    PROVE  /\ Below(l) = Walk(head[l], next)
           /\ Below(l)' = Walk(head'[l], next')
  BY DEF Below, Walk, IsWalk

\* There is one, and it visits the list from its head to its end.
LEMMA WalkExists ==
    ASSUME NEW h, NEW nx, NEW e, NEW n, Chain(h, nx, e, n)
    PROVE  \E b : IsWalk(b, h, nx)
  <1>1. n \in Nat /\ e \in [1 .. n -> Entry] /\ h = At(e, n, 1)
    BY DEF Chain
  <1> DEFINE b == [k \in 0 .. TableSize |-> At(e, n, k + 1)]
             c == [k \in 0 .. TableSize |-> IF k = 0 THEN h
                                            ELSE IF b[k - 1] = Nil THEN Nil
                                            ELSE nx[b[k - 1].index]]
  <1>2. ASSUME NEW k \in 0 .. TableSize
        PROVE  b[k] = c[k]
    <2>1. CASE k = 0
      BY <1>1, <2>1
    <2>2. CASE k # 0
      <3>1. k \in Nat /\ k >= 1 /\ k - 1 \in 0 .. TableSize
        BY <2>2, EntryFacts
      <3>2. b[k - 1] = At(e, n, k)
        BY <3>1
      <3>3. c[k] = IF b[k - 1] = Nil THEN Nil ELSE nx[b[k - 1].index]
        BY <2>2
      <3>4. b[k] = At(e, n, k + 1)
        OBVIOUS
      <3> HIDE DEF b, c
      <3>5. CASE k <= n
        <4>1. k \in 1 .. n /\ At(e, n, k) = e[k] /\ e[k] # Nil
          BY <1>1, <3>1, <3>5, EntryFacts DEF At
        <4>2. nx[e[k].index] = At(e, n, k + 1)
          BY <4>1 DEF Chain
        <4> QED
          BY <3>2, <3>3, <3>4, <4>1, <4>2
      <3>6. CASE ~(k <= n)
        <4>1. At(e, n, k) = Nil /\ At(e, n, k + 1) = Nil
          BY <1>1, <3>1, <3>6 DEF At
        <4> QED
          BY <3>2, <3>3, <3>4, <4>1
      <3> QED
        BY <3>5, <3>6
    <2> QED
      BY <2>1, <2>2
  <1>3. b = c
    <2>1. /\ DOMAIN b = 0 .. TableSize /\ DOMAIN c = 0 .. TableSize
          /\ b = [k \in DOMAIN b |-> b[k]] /\ c = [k \in DOMAIN c |-> c[k]]
      OBVIOUS
    <2> HIDE DEF b, c
    <2> QED
      BY <1>2, <2>1
  <1>4. IsWalk(b, h, nx) <=> b = c
    BY DEF IsWalk
  <1> HIDE DEF b, c
  <1> QED
    BY <1>3, <1>4

LEMMA WalkVisits ==
    ASSUME NEW h, NEW nx, NEW e, NEW n, Chain(h, nx, e, n),
           NEW b, IsWalk(b, h, nx)
    PROVE  \A k \in 0 .. TableSize : b[k] = At(e, n, k + 1)
  <1>1. n \in Nat /\ e \in [1 .. n -> Entry] /\ h = At(e, n, 1)
    BY DEF Chain
  <1> DEFINE T == {k \in 0 .. TableSize : b[k] # At(e, n, k + 1)}
  <1> SUFFICES ASSUME T # {} PROVE FALSE
    OBVIOUS
  <1>2. T \in SUBSET Nat
    BY EntryFacts
  <1>3. PICK k \in T : \A y \in T : k <= y
    <2> HIDE DEF T
    <2> QED
      BY <1>2, LeastNatural
  <1>4. k \in 0 .. TableSize /\ b[k] # At(e, n, k + 1)
    OBVIOUS
  <1>5. b[k] = IF k = 0 THEN h ELSE IF b[k - 1] = Nil THEN Nil ELSE nx[b[k - 1].index]
    BY <1>4 DEF IsWalk
  <1>6. k # 0
    BY <1>1, <1>4, <1>5
  <1>7. k \in Nat /\ k >= 1 /\ k - 1 \in 0 .. TableSize
    BY <1>4, <1>6, EntryFacts
  <1>8. b[k - 1] = At(e, n, k)
    <2>1. k - 1 \notin T
      BY <1>3, <1>7
    <2>2. (k - 1) + 1 = k
      BY <1>7
    <2> QED
      BY <1>7, <2>1, <2>2
  <1>9. CASE k <= n
    <2>1. k \in 1 .. n /\ At(e, n, k) = e[k] /\ e[k] # Nil
      BY <1>1, <1>7, <1>9, EntryFacts DEF At
    <2>2. nx[e[k].index] = At(e, n, k + 1)
      BY <2>1 DEF Chain
    <2> QED
      BY <1>4, <1>5, <1>6, <1>8, <2>1, <2>2
  <1>10. CASE ~(k <= n)
    <2>1. At(e, n, k) = Nil /\ At(e, n, k + 1) = Nil
      BY <1>1, <1>7, <1>10 DEF At
    <2> QED
      BY <1>4, <1>5, <1>6, <1>8, <2>1
  <1> QED
    BY <1>9, <1>10

\* What a walk along a stack finds: its heads, and its end.
LEMMA StackBelow ==
    ASSUME NEW h, NEW nx, NEW S, OnStack(h, nx, S)
    PROVE  /\ Visited(h, nx) = S
           /\ {Walk(h, nx)[k].index : k \in 0 .. TableSize - 1} \ {-1} = {x.index : x \in S}
           /\ Walk(h, nx)[TableSize] = Nil
  <1>1. PICK n, e : Chain(h, nx, e, n) /\ S = {e[k] : k \in 1 .. n}
    BY DEF OnStack
  <1>2. n \in Nat /\ e \in [1 .. n -> Entry]
    BY <1>1 DEF Chain
  <1>3. n <= TableSize
    BY <1>1, ChainLength
  <1> DEFINE w == Walk(h, nx)
             indexes == {w[k].index : k \in 0 .. TableSize - 1} \ {-1}
  <1>4. IsWalk(w, h, nx)
    <2>1. \E b : IsWalk(b, h, nx)
      BY <1>1, WalkExists
    <2> QED
      BY <2>1 DEF Walk
  <1> HIDE DEF w
  <1>5. \A k \in 0 .. TableSize : w[k] = At(e, n, k + 1)
    BY <1>1, <1>4, WalkVisits
  <1>6. w[TableSize] = Nil
    <2>1. TableSize \in 0 .. TableSize /\ ~(TableSize + 1 <= n)
      BY <1>2, <1>3, EntryFacts
    <2> QED
      BY <1>5, <2>1 DEF At
  <1>7. \A k \in 0 .. TableSize - 1 : w[k] = Nil \/ w[k] \in S
    <2> TAKE k \in 0 .. TableSize - 1
    <2>1. k \in 0 .. TableSize /\ w[k] = At(e, n, k + 1)
      BY <1>5, EntryFacts
    <2>2. CASE k + 1 <= n
      <3>1. k + 1 \in 1 .. n /\ w[k] = e[k + 1]
        BY <1>2, <2>1, <2>2 DEF At
      <3> QED
        BY <1>1, <3>1
    <2>3. CASE ~(k + 1 <= n)
      BY <2>1, <2>3 DEF At
    <2> QED
      BY <2>2, <2>3
  <1>8. \A x \in S : \E k \in 0 .. TableSize - 1 : w[k] = x
    <2> TAKE x \in S
    <2>1. PICK j \in 1 .. n : x = e[j]
      BY <1>1
    <2>2. j - 1 \in 0 .. TableSize - 1 /\ j - 1 \in 0 .. TableSize /\ (j - 1) + 1 = j
      BY <1>2, <1>3, EntryFacts
    <2>3. w[j - 1] = e[j]
      BY <1>2, <1>5, <2>2 DEF At
    <2> QED
      BY <2>1, <2>2, <2>3
  <1>9. S \in SUBSET Entry
    BY StackHead
  <1>10. \A x \in S : x # Nil /\ x.index # -1
    BY <1>9, EntryFacts
  <1>11. Visited(h, nx) = S
    BY <1>7, <1>8, <1>10 DEF Visited, w
  <1>12. indexes = {x.index : x \in S}
    <2>1. \A x \in S : x.index \in indexes
      BY <1>8, <1>10
    <2>2. \A i \in indexes : i \in {x.index : x \in S}
      BY <1>7, EntryFacts
    <2> QED
      BY <2>1, <2>2
  <1> QED
    BY <1>6, <1>11, <1>12 DEF w

-----------------------------------------------------------------------------
(* The inductive invariant.                                                *)

FlTypeOK ==
    /\ head \in [Lists -> Entry \cup {Nil}]
    /\ next \in [Index -> Entry \cup {Nil}]
    /\ ptr \in [Index -> Pointers \cup {NoPtr}]
    /\ current_tag \in Nat \ {0}
    /\ tpc \in [Threads -> {"idle", "load", "next", "swap", "popped", "link", "insert"}]
    /\ doing \in [Threads -> {"none", "push", "pop"}]
    /\ list \in [Threads -> Lists]
    /\ top \in [Threads -> Entry \cup {Nil}]
    /\ after \in [Threads -> Entry \cup {Nil}]
    /\ elem \in [Threads -> Index \cup {-1}]
    /\ held \in [Threads -> SUBSET Pointers]

\* Both stacks are lists that end.
Stacks == \A l \in Lists : OnStack(head[l], next, Linked(l))

\* What a thread's place in the code says about its local variables.
Locals ==
    \A t \in Threads :
        /\ (elem[t] = -1) <=> tpc[t] \in {"idle", "load", "next", "swap"}
        /\ tpc[t] \in {"next", "swap"} => top[t] \in Entry
        /\ tpc[t] \in {"link", "insert"} => top[t] \in Entry /\ top[t].index = elem[t]
        /\ tpc[t] = "insert" => next[elem[t]] = after[t]
        /\ tpc[t] # "idle" =>
              /\ doing[t] \in {"push", "pop"}
              /\ list[t] = IF (doing[t] = "push") <=> (tpc[t] \in {"link", "insert"})
                           THEN "stored" ELSE "empty"

\* Every element is in exactly one place.
Apart ==
    /\ \A x \in Linked("stored"), y \in Linked("empty") : x.index # y.index
    /\ \A t \in Threads, l \in Lists : \A x \in Linked(l) : x.index # elem[t]
    /\ \A t, u \in Threads : t # u /\ elem[t] # -1 => elem[t] # elem[u]
    /\ \A i \in Index : \/ \E t \in Threads : elem[t] = i
                        \/ \E l \in Lists : \E x \in Linked(l) : x.index = i

\* As long as the head a thread has loaded is linked somewhere, the link the
\* thread has read is the right one; and no element is about to be pushed
\* with a head that some thread has loaded.
LinksKnown ==
    /\ \A t \in Threads, l \in Lists :
          tpc[t] = "swap" /\ top[t] \in Linked(l) => after[t] = next[top[t].index]
    /\ \A t, u \in Threads :
          tpc[t] \in {"next", "swap"} /\ tpc[u] \in {"link", "insert"} => top[t] # top[u]

\* The elements that hold a pointer: those on the stored stack, and those on
\* their way to it or from it.
Carrying(t) ==
    IF doing[t] = "push" THEN tpc[t] \in {"link", "insert"} ELSE tpc[t] = "popped"
Filled(i) ==
    \/ \E x \in Linked("stored") : x.index = i
    \/ \E t \in Threads : elem[t] = i /\ Carrying(t)

\* Every pointer is in one of them or in the hands of one thread.
PointersPlaced ==
    /\ \A i \in Index : Filled(i) =>
          ptr[i] \in Pointers /\ \A t \in Threads : ptr[i] \notin held[t]
    /\ \A i, j \in Index : Filled(i) /\ Filled(j) /\ ptr[i] = ptr[j] => i = j
    /\ \A t, u \in Threads : t # u => held[t] \cap held[u] = {}
    /\ \A p \in Pointers : \/ \E t \in Threads : p \in held[t]
                           \/ \E i \in Index : Filled(i) /\ ptr[i] = p

FlInv == FlTypeOK /\ Stacks /\ Locals /\ Apart /\ LinksKnown /\ PointersPlaced

\* No thread that is between its load and its cmpxchg holds the head that an
\* element about to be pushed is given: same element and same tag.
FreshTags ==
    \A t, u \in Threads :
        /\ tpc[t] = "popped" /\ tpc'[t] = "link"
        /\ tpc[u] \in {"next", "swap"}
        => top'[t] # top[u]

-----------------------------------------------------------------------------
(* The invariant implies the property.                                     *)

LEMMA LinkedFacts ==
    ASSUME Stacks, NEW l \in Lists
    PROVE  /\ Linked(l) \in SUBSET Entry
           /\ Elements(l) = {x.index : x \in Linked(l)}
           /\ Below(l)[TableSize] = Nil
           /\ head[l] = Nil => Linked(l) = {}
           /\ head[l] # Nil => head[l] \in Linked(l)
           /\ \A x, y \in Linked(l) : x.index = y.index => x = y
  <1>1. OnStack(head[l], next, Linked(l))
    BY DEF Stacks
  <1>2. Below(l) = Walk(head[l], next)
    BY BelowIsWalk
  <1>3. Elements(l) = {x.index : x \in Linked(l)}
    BY <1>1, <1>2, StackBelow DEF Elements
  <1> QED
    BY <1>1, <1>2, <1>3, StackHead, StackBelow

LEMMA InvIntact == FlInv => TableIntact
  <1> SUFFICES ASSUME FlInv PROVE TableIntact
    OBVIOUS
  <1>1. FlTypeOK /\ Stacks /\ Apart
    BY DEF FlInv
  <1>2. \A l \in Lists : /\ Linked(l) \in SUBSET Entry
                         /\ Elements(l) = {x.index : x \in Linked(l)}
                         /\ Below(l)[TableSize] = Nil
    BY <1>1, LinkedFacts
  <1>3. "stored" \in Lists /\ "empty" \in Lists
    BY DEF Lists
  <1>4. \A l \in {"stored", "empty"} : Below(l)[TableSize] = Nil
    BY <1>2 DEF Lists
  <1>5. Elements("stored") \cap Elements("empty") = {}
    BY <1>1, <1>2, <1>3 DEF Apart
  <1>6. \A t, u \in Threads : t # u /\ elem[t] # -1 => elem[t] # elem[u]
    BY <1>1 DEF Apart
  <1>7. ASSUME NEW i \in 0 .. TableSize - 1
        PROVE  (\E t \in Threads : elem[t] = i)
                   <=> i \notin Elements("stored") \cup Elements("empty")
    <2>1. i \in Index
      BY DEF Index
    <2>2. i \in Elements("stored") \cup Elements("empty")
            <=> \E l \in Lists : \E x \in Linked(l) : x.index = i
      BY <1>2, <1>3 DEF Lists
    <2> QED
      BY <1>1, <2>1, <2>2 DEF Apart
  <1> QED
    BY <1>4, <1>5, <1>6, <1>7 DEF TableIntact

LEMMA InvKept == FlInv => PointersKept
  <1> SUFFICES ASSUME FlInv, NEW p \in Pointers
               PROVE  LET holders == {t \in Threads : p \in held[t]}
                          places  == {i \in 0 .. TableSize - 1 :
                          /\ ptr[i] = p
                          /\ \/ i \in Elements("stored")
                             \/ \E t \in Threads :
                                  /\ elem[t] = i
                                  /\ IF doing[t] = "push" THEN tpc[t] \in {"link", "insert"}
                                     ELSE tpc[t] = "popped"}
                      IN  Cardinality(holders) + Cardinality(places) = 1
    BY DEF PointersKept
  <1> DEFINE holders == {t \in Threads : p \in held[t]}
             places == {i \in 0 .. TableSize - 1 :
                          /\ ptr[i] = p
                          /\ \/ i \in Elements("stored")
                             \/ \E t \in Threads :
                                  /\ elem[t] = i
                                  /\ IF doing[t] = "push" THEN tpc[t] \in {"link", "insert"}
                                     ELSE tpc[t] = "popped"}
             filled == {i \in Index : ptr[i] = p /\ Filled(i)}
  <1>1. FlTypeOK /\ Stacks /\ PointersPlaced
    BY DEF FlInv
  <1>2. Elements("stored") = {x.index : x \in Linked("stored")}
    BY <1>1, LinkedFacts DEF Lists
  <1>3. \A i \in Index : i \in Elements("stored") <=> \E x \in Linked("stored") : x.index = i
    BY <1>2
  <1>4. places = filled
    BY <1>3 DEF Index, Filled, Carrying
  <1>5. \/ (\E t \in Threads : holders = {t}) /\ filled = {}
        \/ holders = {} /\ (\E i \in Index : filled = {i})
    <2>1. CASE \E t \in Threads : p \in held[t]
      <3>1. PICK t \in Threads : p \in held[t]
        BY <2>1
      <3>2. holders = {t}
        BY <1>1, <3>1 DEF PointersPlaced
      <3>3. filled = {}
        BY <1>1, <3>1 DEF PointersPlaced
      <3> QED
        BY <3>2, <3>3
    <2>2. CASE ~ \E t \in Threads : p \in held[t]
      <3>1. PICK i \in Index : Filled(i) /\ ptr[i] = p
        BY <1>1, <2>2 DEF PointersPlaced
      <3>2. holders = {}
        BY <2>2
      <3>3. filled = {i}
        BY <1>1, <3>1 DEF PointersPlaced
      <3> QED
        BY <3>2, <3>3
    <2> QED
      BY <2>1, <2>2
  <1> HIDE DEF holders, filled, places
  <1>6. Cardinality(holders) + Cardinality(filled) = 1
    <2>1. Cardinality({}) = 0 /\ \A x : Cardinality({x}) = 1
      BY FS_EmptySet, FS_Singleton
    <2>2. CASE (\E t \in Threads : holders = {t}) /\ filled = {}
      <3>1. Cardinality(holders) = 1 /\ Cardinality(filled) = 0
        BY <2>1, <2>2
      <3> QED
        BY <3>1
    <2>3. CASE holders = {} /\ (\E i \in Index : filled = {i})
      <3>1. Cardinality(holders) = 0 /\ Cardinality(filled) = 1
        BY <2>1, <2>3
      <3> QED
        BY <3>1
    <2> QED
      BY <1>5, <2>2, <2>3
  <1> QED
    BY <1>4, <1>6 DEF holders, places

-----------------------------------------------------------------------------
(* The initial table.                                                      *)

LEMMA InitStacks == pa_flist_new =>
    /\ Linked("stored") = {}
    /\ Linked("empty") = {[index |-> i, tag |-> i % TagMod] : i \in Index}
    /\ Stacks
  <1> SUFFICES ASSUME pa_flist_new
               PROVE  /\ Linked("stored") = {}
                      /\ Linked("empty") = {[index |-> i, tag |-> i % TagMod] : i \in Index}
                      /\ Stacks
    OBVIOUS
  <1> DEFINE none == [k \in 1 .. 0 |-> Nil]
             X(i) == [index |-> i, tag |-> i % TagMod]
             n == TableSize
             e == [k \in 1 .. n |-> X(n - k)]
  <1>1. n \in Nat \ {0} /\ TagMod \in Nat \ {0}
    BY EntryFacts
  <1>2. \A i \in Index : X(i) \in Entry /\ X(i).index = i
    BY <1>1 DEF Index, Entry
  <1>3. OnStack(head["stored"], next, {})
    <2>1. head["stored"] = Nil
      BY DEF pa_flist_new
    <2>2. Chain(head["stored"], next, none, 0)
      BY <2>1 DEF Chain, At
    <2>3. {} = {none[k] : k \in 1 .. 0}
      OBVIOUS
    <2> QED
      BY <2>2, <2>3 DEF OnStack
  <1>4. /\ head["empty"] = X(n - 1)
        /\ next = [i \in Index |-> IF i = 0 THEN Nil ELSE X(i - 1)]
    BY DEF pa_flist_new, Index
  <1> HIDE DEF X
  <1>5. \A k \in 1 .. n : n - k \in Index /\ e[k] = X(n - k)
    BY <1>1 DEF Index
  <1>6. e \in [1 .. n -> Entry]
    <2>1. \A k \in 1 .. n : X(n - k) \in Entry
      BY <1>2, <1>5
    <2> QED
      BY <2>1
  <1>7. \A k \in 1 .. n : next[e[k].index] = At(e, n, k + 1)
    <2> TAKE k \in 1 .. n
    <2>1. e[k].index = n - k
      BY <1>2, <1>5
    <2>2. next[n - k] = IF n - k = 0 THEN Nil ELSE X(n - k - 1)
      BY <1>4, <1>5
    <2>3. CASE n - k = 0
      BY <1>1, <2>1, <2>2, <2>3 DEF At
    <2>4. CASE n - k # 0
      <3>1. k + 1 \in 1 .. n /\ n - (k + 1) = n - k - 1 /\ k + 1 <= n
        BY <1>1, <2>4
      <3>2. e[k + 1] = X(n - k - 1)
        BY <1>5, <3>1
      <3> QED
        BY <2>1, <2>2, <2>4, <3>1, <3>2 DEF At
    <2> QED
      BY <2>3, <2>4
  <1>8. \A j, k \in 1 .. n : e[j].index = e[k].index => j = k
    <2> TAKE j, k \in 1 .. n
    <2>1. e[j].index = n - j /\ e[k].index = n - k
      BY <1>2, <1>5
    <2> QED
      BY <1>1, <2>1
  <1>9. head["empty"] = At(e, n, 1)
    <2>1. 1 \in 1 .. n /\ 1 <= n
      BY <1>1
    <2> QED
      BY <1>4, <1>5, <2>1 DEF At
  <1>10. {X(i) : i \in Index} = {e[k] : k \in 1 .. n}
    <2>1. \A i \in Index : n - i \in 1 .. n /\ n - (n - i) = i
      BY <1>1 DEF Index
    <2>2. \A i \in Index : X(i) = e[n - i]
      BY <1>5, <2>1
    <2> HIDE DEF e
    <2>3. \A i \in Index : X(i) \in {e[k] : k \in 1 .. n}
      BY <2>1, <2>2
    <2>4. \A k \in 1 .. n : e[k] \in {X(i) : i \in Index}
      BY <1>5
    <2> QED
      BY <2>3, <2>4
  <1> HIDE DEF e
  <1>11. Chain(head["empty"], next, e, n)
    BY <1>1, <1>6, <1>7, <1>8, <1>9 DEF Chain
  <1>12. OnStack(head["empty"], next, {X(i) : i \in Index})
    BY <1>10, <1>11 DEF OnStack
  <1>13. Linked("stored") = {} /\ Linked("empty") = {X(i) : i \in Index}
    BY <1>3, <1>12, StackBelow DEF Linked
  <1>14. Stacks
    <2> SUFFICES ASSUME NEW l \in Lists PROVE OnStack(head[l], next, Linked(l))
      BY DEF Stacks
    <2> QED
      BY <1>3, <1>12, <1>13 DEF Lists
  <1> QED
    BY <1>13, <1>14 DEF X

LEMMA InitFl == pa_flist_new => FlInv
  <1> SUFFICES ASSUME pa_flist_new PROVE FlInv
    OBVIOUS
  <1> DEFINE X(i) == [index |-> i, tag |-> i % TagMod]
  <1>1. /\ Linked("stored") = {} /\ Stacks
        /\ Linked("empty") = {X(i) : i \in Index}
    BY InitStacks
  <1>2. TableSize \in Nat \ {0} /\ TagMod \in Nat \ {0}
    BY EntryFacts
  <1>3. \A i \in Index : X(i) \in Entry /\ X(i).index = i
    BY <1>2 DEF Index, Entry
  <1>4. /\ head = [stored |-> Nil, empty |-> X(TableSize - 1)]
        /\ next = [i \in Index |-> IF i = 0 THEN Nil ELSE X(i - 1)]
    BY DEF pa_flist_new, Index
  <1> HIDE DEF X
  <1>5. FlTypeOK
    <2>1. TableSize - 1 \in Index /\ \A i \in Index : i # 0 => i - 1 \in Index
      BY <1>2 DEF Index
    <2>2. head \in [Lists -> Entry \cup {Nil}]
      BY <1>3, <1>4, <2>1 DEF Lists
    <2>3. next \in [Index -> Entry \cup {Nil}]
      BY <1>3, <1>4, <2>1
    <2>4. /\ ptr \in [Index -> Pointers \cup {NoPtr}]
          /\ current_tag \in Nat \ {0}
      BY <1>2 DEF pa_flist_new, Index
    <2>5. /\ tpc \in [Threads -> {"idle", "load", "next", "swap", "popped", "link", "insert"}]
          /\ doing \in [Threads -> {"none", "push", "pop"}]
          /\ list \in [Threads -> Lists]
          /\ top \in [Threads -> Entry \cup {Nil}]
          /\ after \in [Threads -> Entry \cup {Nil}]
          /\ elem \in [Threads -> Index \cup {-1}]
          /\ held \in [Threads -> SUBSET Pointers]
      BY DEF pa_flist_new, Lists
    <2> QED
      BY <2>2, <2>3, <2>4, <2>5 DEF FlTypeOK
  <1>6. \A t \in Threads : elem[t] = -1 /\ tpc[t] = "idle"
    BY DEF pa_flist_new
  <1>7. Locals
    BY <1>6 DEF Locals
  <1>8. Apart
    <2>1. \A l \in Lists : \A x \in Linked(l) : \E i \in Index : x = X(i)
      BY <1>1 DEF Lists
    <2>2. \A i \in Index : i # -1
      BY <1>2 DEF Index
    <2>3. \A t \in Threads, l \in Lists : \A x \in Linked(l) : x.index # elem[t]
      BY <1>3, <1>6, <2>1, <2>2
    <2>4. \A i \in Index : \E l \in Lists : \E x \in Linked(l) : x.index = i
      BY <1>1, <1>3 DEF Lists
    <2> QED
      BY <1>1, <1>6, <2>3, <2>4 DEF Apart
  <1>9. LinksKnown
    BY <1>6 DEF LinksKnown
  <1>10. PointersPlaced
    <2>1. \A i \in Index : ~Filled(i)
      BY <1>1, <1>6 DEF Filled, Carrying
    <2>2. /\ \A p \in Pointers : \E t \in Threads : p \in held[t]
          /\ \A t, u \in Threads : t # u => held[t] \cap held[u] = {}
      BY DEF pa_flist_new
    <2> QED
      BY <2>1, <2>2 DEF PointersPlaced
  <1> QED
    BY <1>1, <1>5, <1>7, <1>8, <1>9, <1>10 DEF FlInv

-----------------------------------------------------------------------------
(* Steps.                                                                  *)

\* A step that leaves the heads and the links of linked elements alone leaves
\* the stacks as they are.
LEMMA StacksSame ==
    ASSUME Stacks, \A l \in Lists : head'[l] = head[l],
           \A l \in Lists : \A x \in Linked(l) : next'[x.index] = next[x.index]
    PROVE  Stacks' /\ \A l \in Lists : Linked(l)' = Linked(l)
  <1>1. ASSUME NEW l \in Lists
        PROVE  OnStack(head'[l], next', Linked(l)) /\ Linked(l)' = Linked(l)
    <2>1. OnStack(head[l], next, Linked(l))
      BY DEF Stacks
    <2>2. OnStack(head[l], next', Linked(l))
      BY <2>1, StackFrame
    <2>3. OnStack(head'[l], next', Linked(l))
      BY <2>2
    <2> QED
      BY <2>3, StackBelow DEF Linked
  <1> QED
    BY <1>1 DEF Stacks

\* The pointers are where they were when no pointer has moved and the same
\* elements hold one.
LEMMA PlacedSame ==
    ASSUME PointersPlaced, ptr' = ptr, held' = held,
           \A i \in Index : Filled(i)' <=> Filled(i)
    PROVE  PointersPlaced'
  BY DEF PointersPlaced

\* Beginning an operation, and the two loads of stack_pop.
LEMMA LoadInv ==
    ASSUME FlInv, NEW t \in Threads,
           (\E o \in {"push", "pop"} : Begin(t, o)) \/ PopHead(t) \/ PopNext(t)
    PROVE  FlInv'
  <1>1. FlTypeOK /\ Stacks /\ Locals /\ Apart /\ LinksKnown /\ PointersPlaced
    BY DEF FlInv
  <1>2. UNCHANGED <<head, next, ptr, current_tag, elem, held>>
    BY DEF Begin, PopHead, PopNext, tableVars
  <1>3. Stacks' /\ \A l \in Lists : Linked(l)' = Linked(l)
    BY <1>1, <1>2, StacksSame
  <1>4. "stored" \in Lists /\ "empty" \in Lists
    BY DEF Lists
  <1>5. Apart'
    BY <1>1, <1>2, <1>3, <1>4 DEF Apart
  <1>6. tpc[t] \in {"idle", "load", "next"} /\ tpc'[t] \in {"idle", "load", "next", "swap"}
    BY <1>1 DEF Begin, PopHead, PopNext, Set, FlTypeOK
  <1>7. \A u \in Threads : u # t =>
          /\ tpc'[u] = tpc[u] /\ doing'[u] = doing[u] /\ list'[u] = list[u]
          /\ top'[u] = top[u] /\ after'[u] = after[u]
    BY <1>1 DEF Begin, PopHead, PopNext, Set, FlTypeOK
  <1>8. PointersPlaced'
    <2>1. \A u \in Threads : Carrying(u)' <=> Carrying(u)
      BY <1>6, <1>7 DEF Carrying
    <2>2. \A i \in Index : Filled(i)' <=> Filled(i)
      BY <1>2, <1>3, <1>4, <2>1 DEF Filled
    <2> QED
      BY <1>1, <1>2, <2>2, PlacedSame
  <1>9. ASSUME NEW o \in {"push", "pop"}, Begin(t, o)
        PROVE  FlTypeOK' /\ Locals' /\ LinksKnown'
    <2>1. FlTypeOK'
      BY <1>1, <1>9 DEF Begin, Set, FlTypeOK, tableVars, Lists
    <2>2. Locals'
      BY <1>1, <1>2, <1>7, <1>9 DEF Begin, Set, FlTypeOK, Locals
    <2>3. LinksKnown'
      BY <1>1, <1>2, <1>3, <1>7, <1>9 DEF Begin, Set, FlTypeOK, LinksKnown
    <2> QED
      BY <2>1, <2>2, <2>3
  <1>10. ASSUME PopHead(t)
         PROVE  FlTypeOK' /\ Locals' /\ LinksKnown'
    <2>1. list[t] \in Lists /\ head[list[t]] \in Entry \cup {Nil} /\ tpc[t] = "load"
      BY <1>1, <1>10 DEF FlTypeOK, PopHead
    <2>2. FlTypeOK'
      BY <1>1, <1>10, <2>1 DEF PopHead, Set, FlTypeOK, tableVars
    <2>3. Locals'
      BY <1>1, <1>2, <1>7, <1>10, <2>1 DEF PopHead, Set, FlTypeOK, Locals
    <2>4. tpc'[t] = "next" => top'[t] \in Linked(list[t])
      BY <1>1, <1>10, <2>1, LinkedFacts DEF PopHead, Set, FlTypeOK
    <2>5. tpc'[t] \in {"idle", "next"}
      BY <1>1, <1>10 DEF PopHead, Set, FlTypeOK
    <2>6. ASSUME NEW u \in Threads, tpc[u] \in {"link", "insert"}, tpc'[t] = "next"
          PROVE  top'[t] # top[u]
      BY <1>1, <2>1, <2>4, <2>6 DEF Locals, Apart
    <2>7. LinksKnown'
      BY <1>1, <1>2, <1>3, <1>7, <2>5, <2>6 DEF LinksKnown
    <2> QED
      BY <2>2, <2>3, <2>7
  <1>11. ASSUME PopNext(t)
         PROVE  FlTypeOK' /\ Locals' /\ LinksKnown'
    <2>1. tpc[t] = "next" /\ top[t] \in Entry /\ top[t].index \in Index
      BY <1>1, <1>11, EntryFacts DEF PopNext, Locals
    <2>2. next[top[t].index] \in Entry \cup {Nil}
      BY <1>1, <2>1 DEF FlTypeOK
    <2>3. FlTypeOK'
      BY <1>1, <1>11, <2>2 DEF PopNext, Set, FlTypeOK, tableVars
    <2>4. tpc'[t] = "swap" /\ top' = top /\ after'[t] = next[top[t].index]
          /\ doing' = doing /\ list' = list
      BY <1>1, <1>11 DEF PopNext, Set, FlTypeOK
    <2>5. Locals'
      BY <1>1, <1>2, <1>7, <2>1, <2>4 DEF Locals
    <2>6. LinksKnown'
      BY <1>1, <1>2, <1>3, <1>7, <2>1, <2>4 DEF LinksKnown
    <2> QED
      BY <2>3, <2>5, <2>6
  <1> QED
    BY <1>3, <1>5, <1>8, <1>9, <1>10, <1>11 DEF FlInv

\* The cmpxchg of stack_pop: the link it installs is the right one.
LEMMA PopSwapInv ==
    ASSUME FlInv, NEW t \in Threads, PopSwap(t)
    PROVE  FlInv'
  <1>1. FlTypeOK /\ Stacks /\ Locals /\ Apart /\ LinksKnown /\ PointersPlaced
    BY DEF FlInv
  <1>2. UNCHANGED <<next, ptr, current_tag, doing, list, top, after, held>>
    BY DEF PopSwap
  <1>3. tpc[t] = "swap" /\ top[t] \in Entry /\ list[t] \in Lists /\ elem[t] = -1
    BY <1>1 DEF PopSwap, FlTypeOK, Locals
  <1>4. "stored" \in Lists /\ "empty" \in Lists
    BY DEF Lists
  <1>5. CASE head[list[t]] # top[t]
    <2>1. UNCHANGED <<head, elem>> /\ tpc' = [tpc EXCEPT ![t] = "load"]
      BY <1>5 DEF PopSwap, Set
    <2>2. tpc'[t] = "load" /\ \A u \in Threads : u # t => tpc'[u] = tpc[u]
      BY <1>1, <2>1 DEF FlTypeOK
    <2>3. Stacks' /\ \A l \in Lists : Linked(l)' = Linked(l)
      BY <1>1, <1>2, <2>1, StacksSame
    <2>4. FlTypeOK'
      BY <1>1, <1>2, <2>1 DEF FlTypeOK
    <2>5. Locals'
      BY <1>1, <1>2, <1>3, <2>1, <2>2 DEF Locals
    <2>6. Apart'
      BY <1>1, <1>2, <1>4, <2>1, <2>3 DEF Apart
    <2>7. LinksKnown'
      BY <1>1, <1>2, <2>2, <2>3 DEF LinksKnown
    <2>8. PointersPlaced'
      <3>1. \A u \in Threads : Carrying(u)' <=> Carrying(u)
        BY <1>2, <1>3, <2>2 DEF Carrying
      <3>2. \A i \in Index : Filled(i)' <=> Filled(i)
        BY <1>4, <2>1, <2>3, <3>1 DEF Filled
      <3> QED
        BY <1>1, <1>2, <3>2, PlacedSame
    <2> QED
      BY <2>3, <2>4, <2>5, <2>6, <2>7, <2>8 DEF FlInv
  <1>6. CASE head[list[t]] = top[t]
    <2>0. PICK l \in Lists, x \in Entry : l = list[t] /\ x = top[t]
      BY <1>3
    <2>1. /\ head' = [head EXCEPT ![l] = after[t]]
          /\ elem' = [elem EXCEPT ![t] = x.index]
          /\ tpc' = [tpc EXCEPT ![t] = "popped"]
      BY <1>6, <2>0 DEF PopSwap, Set
    <2>2. l \in Lists /\ x \in Entry /\ x.index \in Index /\ x # Nil /\ x.index # -1
      BY EntryFacts
    <2>3. /\ x \in Linked(l) /\ Linked(l) \in SUBSET Entry
          /\ \A y \in Linked(l) : y.index = x.index => y = x
      BY <1>1, <1>6, <2>0, <2>2, LinkedFacts
    <2>4. after[t] = next[x.index]
      BY <1>1, <1>3, <2>0, <2>3 DEF LinksKnown
    <2>5. /\ head'[l] = next[x.index] /\ \A m \in Lists : m # l => head'[m] = head[m]
          /\ elem'[t] = x.index /\ \A u \in Threads : u # t => elem'[u] = elem[u]
          /\ tpc'[t] = "popped" /\ \A u \in Threads : u # t => tpc'[u] = tpc[u]
      BY <1>1, <2>1, <2>2, <2>4 DEF FlTypeOK
    <2>6. OnStack(head'[l], next', Linked(l) \ {x})
      <3>1. OnStack(head[l], next, Linked(l)) /\ head[l] = x /\ head[l] # Nil
        BY <1>1, <1>6, <2>0, <2>2 DEF Stacks
      <3>2. OnStack(next[x.index], next, Linked(l) \ {x})
        BY <3>1, StackPop
      <3> QED
        BY <1>2, <2>5, <3>2
    <2>7. Linked(l)' = Linked(l) \ {x}
      BY <2>6, StackBelow DEF Linked
    <2>8. \A m \in Lists : m # l => Linked(m)' = Linked(m)
      BY <1>2, <2>5 DEF Linked
    <2>9. Stacks'
      <3> SUFFICES ASSUME NEW m \in Lists PROVE OnStack(head'[m], next', Linked(m)')
        BY DEF Stacks
      <3>1. CASE m = l
        BY <2>6, <2>7, <3>1
      <3>2. CASE m # l
        <4>1. OnStack(head[m], next, Linked(m))
          BY <1>1 DEF Stacks
        <4> QED
          BY <1>2, <2>5, <2>8, <3>2, <4>1
      <3> QED
        BY <3>1, <3>2
    <2>10. FlTypeOK'
      <3>1. after[t] \in Entry \cup {Nil}
        BY <1>1 DEF FlTypeOK
      <3> QED
        BY <1>1, <1>2, <2>1, <2>2, <3>1 DEF FlTypeOK
    <2>11. Locals'
      BY <1>1, <1>2, <1>3, <2>0, <2>2, <2>5 DEF Locals
    <2>12. \A m \in Lists : /\ Linked(m)' \subseteq Linked(m)
                            /\ \A y \in Linked(m)' : y.index # x.index
                            /\ \A y \in Linked(m) : y \in Linked(m)' \/ y = x
      <3> TAKE m \in Lists
      <3>1. CASE m = l
        BY <2>3, <2>7, <3>1
      <3>2. CASE m # l
        <4>1. Linked(m)' = Linked(m)
          BY <2>8, <3>2
        <4>2. \A y \in Linked(m) : y.index # x.index
          BY <1>1, <2>2, <2>3, <3>2 DEF Apart, Lists
        <4> QED
          BY <4>1, <4>2
      <3> QED
        BY <3>1, <3>2
    <2>13. Apart'
      <3>1. \A y \in Linked("stored")', z \in Linked("empty")' : y.index # z.index
        BY <1>1, <1>4, <2>12 DEF Apart
      <3>2. \A u \in Threads, m \in Lists : \A y \in Linked(m)' : y.index # elem'[u]
        BY <1>1, <2>5, <2>12 DEF Apart
      <3>3. \A u \in Threads : elem[u] # x.index
        BY <1>1, <2>2, <2>3 DEF Apart
      <3>4. \A u, v \in Threads : u # v /\ elem'[u] # -1 => elem'[u] # elem'[v]
        BY <1>1, <2>2, <2>5, <3>3 DEF Apart
      <3>5. ASSUME NEW i \in Index
            PROVE  \/ \E u \in Threads : elem'[u] = i
                   \/ \E m \in Lists : \E y \in Linked(m)' : y.index = i
        <4>1. CASE \E u \in Threads : elem[u] = i
          <5>1. PICK u \in Threads : elem[u] = i
            BY <4>1
          <5>2. u # t
            BY <1>3, <5>1, EntryFacts DEF Index
          <5> QED
            BY <2>5, <5>1, <5>2
        <4>2. CASE \E m \in Lists : \E y \in Linked(m) : y.index = i
          BY <2>5, <2>12, <4>2
        <4> QED
          BY <1>1, <4>1, <4>2 DEF Apart
      <3> QED
        BY <3>1, <3>2, <3>4, <3>5 DEF Apart
    <2>14. LinksKnown'
      BY <1>1, <1>2, <2>5, <2>12 DEF LinksKnown
    <2>15. PointersPlaced'
      <3>1. \A u \in Threads : u # t => (Carrying(u)' <=> Carrying(u))
        BY <1>2, <2>5 DEF Carrying
      <3>2. ~Carrying(t)
        BY <1>3 DEF Carrying
      <3>3. Carrying(t)' <=> l = "stored"
        BY <1>1, <1>2, <1>3, <2>0, <2>5 DEF Carrying, Locals
      <3>4. ASSUME NEW i \in Index
            PROVE  Filled(i)' <=> Filled(i)
        <4>1. CASE i = x.index
          <5>1. \A u \in Threads : elem[u] # i
            BY <1>1, <2>2, <2>3, <4>1 DEF Apart
          <5>2. Filled(i) <=> l = "stored"
            <6>1. CASE l = "stored"
              BY <2>3, <4>1, <6>1 DEF Filled
            <6>2. CASE l # "stored"
              BY <1>1, <2>2, <2>3, <4>1, <5>1, <6>2 DEF Filled, Apart, Lists
            <6> QED
              BY <6>1, <6>2
          <5>3. ~ \E y \in Linked("stored")' : y.index = i
            BY <1>4, <2>12, <4>1
          <5>4. \A u \in Threads : u # t => elem'[u] # i
            BY <2>5, <5>1
          <5>5. Filled(i)' <=> Carrying(t)'
            BY <2>5, <4>1, <5>3, <5>4 DEF Filled
          <5> QED
            BY <3>3, <5>2, <5>5
        <4>2. CASE i # x.index
          <5>1. (\E y \in Linked("stored")' : y.index = i)
                  <=> \E y \in Linked("stored") : y.index = i
            BY <1>4, <2>12, <4>2
          <5>2. \A u \in Threads :
                   (elem'[u] = i /\ Carrying(u)') <=> (elem[u] = i /\ Carrying(u))
            BY <2>5, <3>1, <3>2, <4>2
          <5> QED
            BY <5>1, <5>2 DEF Filled
        <4> QED
          BY <4>1, <4>2
      <3> QED
        BY <1>1, <1>2, <3>4, PlacedSame
    <2> QED
      BY <2>9, <2>10, <2>11, <2>13, <2>14, <2>15 DEF FlInv
  <1> QED
    BY <1>5, <1>6

\* The pointer changes hands and the element gets a new tag.
LEMMA ExchangeInv ==
    ASSUME FlInv, NEW t \in Threads, Exchange(t), FreshTags
    PROVE  FlInv'
  <1>1. FlTypeOK /\ Stacks /\ Locals /\ Apart /\ LinksKnown /\ PointersPlaced
    BY DEF FlInv
  <1>2. UNCHANGED <<head, next, doing, after, elem>>
    BY DEF Exchange
  <1>3. "stored" \in Lists /\ "empty" \in Lists
    BY DEF Lists
  <1>4. PICK i \in Index : elem[t] = i
    BY <1>1 DEF Exchange, FlTypeOK, Locals
  <1>5. tpc[t] = "popped" /\ doing[t] \in {"push", "pop"}
    BY DEF Exchange
  <1> DEFINE new == [index |-> i, tag |-> current_tag % TagMod]
  <1>6. new \in Entry /\ new.index = i
    BY <1>1, EntryFacts DEF FlTypeOK, Entry
  <1>7. /\ top' = [top EXCEPT ![t] = new]
        /\ tpc' = [tpc EXCEPT ![t] = "link"]
        /\ list' = [list EXCEPT ![t] = IF doing[t] = "push" THEN "stored" ELSE "empty"]
        /\ current_tag' = current_tag + 1
    BY <1>4 DEF Exchange, Set
  <1> HIDE DEF new
  <1>8. /\ top'[t] = new /\ tpc'[t] = "link"
        /\ list'[t] = IF doing[t] = "push" THEN "stored" ELSE "empty"
        /\ \A u \in Threads : u # t =>
              tpc'[u] = tpc[u] /\ top'[u] = top[u] /\ list'[u] = list[u]
    BY <1>1, <1>7 DEF FlTypeOK
  <1>9. Stacks' /\ \A l \in Lists : Linked(l)' = Linked(l)
    BY <1>1, <1>2, StacksSame
  <1>10. Apart'
    BY <1>1, <1>2, <1>3, <1>9 DEF Apart
  <1>11. Locals'
    BY <1>1, <1>2, <1>4, <1>5, <1>6, <1>8 DEF Locals
  <1>12. LinksKnown'
    <2>1. \A u \in Threads : tpc[u] \in {"next", "swap"} => top'[t] # top[u]
      BY <1>5, <1>8 DEF FreshTags
    <2> QED
      BY <1>1, <1>2, <1>8, <1>9, <2>1 DEF LinksKnown
  <1>13. \A u \in Threads : u # t => (Carrying(u)' <=> Carrying(u))
    BY <1>2, <1>8 DEF Carrying
  <1>14. \A u \in Threads : u # t => elem[u] # i
    BY <1>1, <1>4, EntryFacts DEF Apart, Index
  <1>15. ~ \E x \in Linked("stored") : x.index = i
    BY <1>1, <1>3, <1>4 DEF Apart
  <1>16. \A j \in Index : j # i => (Filled(j)' <=> Filled(j))
    BY <1>2, <1>3, <1>4, <1>9, <1>13 DEF Filled
  <1>17. (Filled(i) <=> Carrying(t)) /\ (Filled(i)' <=> Carrying(t)')
    BY <1>2, <1>3, <1>4, <1>9, <1>14, <1>15 DEF Filled
  <1>18. CASE doing[t] = "push"
    <2>1. PICK p \in held[t] : /\ ptr' = [ptr EXCEPT ![i] = p]
                               /\ held' = [held EXCEPT ![t] = held[t] \ {p}]
      BY <1>4, <1>18 DEF Exchange, Set
    <2>2. p \in Pointers
      BY <1>1 DEF FlTypeOK
    <2>3. FlTypeOK'
      BY <1>1, <1>2, <1>3, <1>6, <1>7, <2>1, <2>2 DEF FlTypeOK
    <2>4. ~Filled(i) /\ Filled(i)'
      BY <1>2, <1>5, <1>8, <1>17, <1>18 DEF Carrying
    <2>5. /\ ptr'[i] = p /\ \A j \in Index : j # i => ptr'[j] = ptr[j]
          /\ held'[t] = held[t] \ {p} /\ \A u \in Threads : u # t => held'[u] = held[u]
      BY <1>1, <2>1 DEF FlTypeOK
    <2>6. \A u \in Threads : u # t => p \notin held[u]
      BY <1>1 DEF PointersPlaced
    <2>7. \A j \in Index : Filled(j) => ptr[j] # p
      BY <1>1 DEF PointersPlaced
    <2>8. PointersPlaced'
      <3>1. \A j \in Index : Filled(j)' =>
               ptr'[j] \in Pointers /\ \A u \in Threads : ptr'[j] \notin held'[u]
        BY <1>1, <1>16, <2>2, <2>5, <2>6 DEF PointersPlaced
      <3>2. \A j, k \in Index : Filled(j)' /\ Filled(k)' /\ ptr'[j] = ptr'[k] => j = k
        BY <1>1, <1>16, <2>5, <2>7 DEF PointersPlaced
      <3>3. \A u, v \in Threads : u # v => held'[u] \cap held'[v] = {}
        BY <1>1, <2>5 DEF PointersPlaced
      <3>4. ASSUME NEW q \in Pointers
            PROVE  \/ \E u \in Threads : q \in held'[u]
                   \/ \E j \in Index : Filled(j)' /\ ptr'[j] = q
        <4>1. CASE q = p
          BY <2>4, <2>5, <4>1
        <4>2. CASE q # p /\ \E u \in Threads : q \in held[u]
          BY <2>5, <4>2
        <4>3. CASE \E j \in Index : Filled(j) /\ ptr[j] = q
          BY <1>16, <2>4, <2>5, <4>3
        <4> QED
          BY <1>1, <4>1, <4>2, <4>3 DEF PointersPlaced
      <3> QED
        BY <3>1, <3>2, <3>3, <3>4 DEF PointersPlaced
    <2> QED
      BY <1>9, <1>10, <1>11, <1>12, <2>3, <2>8 DEF FlInv
  <1>19. CASE doing[t] = "pop"
    <2>1. PICK p : p = ptr[i]
      OBVIOUS
    <2>2. ptr' = ptr /\ held' = [held EXCEPT ![t] = held[t] \cup {p}]
      BY <1>4, <1>19, <2>1 DEF Exchange, Set
    <2>3. Filled(i) /\ ~Filled(i)'
      BY <1>2, <1>5, <1>8, <1>17, <1>19 DEF Carrying
    <2>4. p \in Pointers /\ \A u \in Threads : p \notin held[u]
      BY <1>1, <2>1, <2>3 DEF PointersPlaced
    <2>5. FlTypeOK'
      BY <1>1, <1>2, <1>3, <1>6, <1>7, <2>2, <2>4 DEF FlTypeOK
    <2>6. held'[t] = held[t] \cup {p} /\ \A u \in Threads : u # t => held'[u] = held[u]
      BY <1>1, <2>2 DEF FlTypeOK
    <2>7. \A j \in Index : j # i /\ Filled(j) => ptr[j] # p
      BY <1>1, <2>1, <2>3 DEF PointersPlaced
    <2>8. PointersPlaced'
      <3>1. \A j \in Index : Filled(j)' =>
               ptr'[j] \in Pointers /\ \A u \in Threads : ptr'[j] \notin held'[u]
        BY <1>1, <1>16, <2>2, <2>3, <2>6, <2>7 DEF PointersPlaced
      <3>2. \A j, k \in Index : Filled(j)' /\ Filled(k)' /\ ptr'[j] = ptr'[k] => j = k
        BY <1>1, <1>16, <2>2, <2>3 DEF PointersPlaced
      <3>3. \A u, v \in Threads : u # v => held'[u] \cap held'[v] = {}
        BY <1>1, <2>4, <2>6 DEF PointersPlaced
      <3>4. ASSUME NEW q \in Pointers
            PROVE  \/ \E u \in Threads : q \in held'[u]
                   \/ \E j \in Index : Filled(j)' /\ ptr'[j] = q
        <4>1. CASE q = p
          BY <2>6, <4>1
        <4>2. CASE \E u \in Threads : q \in held[u]
          BY <2>6, <4>2
        <4>3. CASE q # p /\ \E j \in Index : Filled(j) /\ ptr[j] = q
          BY <1>16, <2>1, <2>2, <4>3
        <4> QED
          BY <1>1, <4>1, <4>2, <4>3 DEF PointersPlaced
      <3> QED
        BY <3>1, <3>2, <3>3, <3>4 DEF PointersPlaced
    <2> QED
      BY <1>9, <1>10, <1>11, <1>12, <2>5, <2>8 DEF FlInv
  <1> QED
    BY <1>5, <1>18, <1>19

\* The load and the store of stack_push: only the link of an element in the
\* thread's hands is written.
LEMMA PushLinkInv ==
    ASSUME FlInv, NEW t \in Threads, PushLink(t)
    PROVE  FlInv'
  <1>1. FlTypeOK /\ Stacks /\ Locals /\ Apart /\ LinksKnown /\ PointersPlaced
    BY DEF FlInv
  <1>2. UNCHANGED <<head, ptr, current_tag, doing, list, top, elem, held>>
    BY DEF PushLink
  <1>3. "stored" \in Lists /\ "empty" \in Lists
    BY DEF Lists
  <1>4. tpc[t] = "link"
    BY DEF PushLink
  <1>5. PICK i \in Index : elem[t] = i
    BY <1>1, <1>4 DEF FlTypeOK, Locals
  <1>6. PICK h \in Entry \cup {Nil} : h = head[list[t]]
    BY <1>1 DEF FlTypeOK
  <1>7. /\ after' = [after EXCEPT ![t] = h]
        /\ next' = [next EXCEPT ![i] = h]
        /\ tpc' = [tpc EXCEPT ![t] = "insert"]
    BY <1>5, <1>6 DEF PushLink, Set
  <1>8. /\ after'[t] = h /\ tpc'[t] = "insert" /\ next'[i] = h
        /\ \A u \in Threads : u # t => after'[u] = after[u] /\ tpc'[u] = tpc[u]
        /\ \A j \in Index : j # i => next'[j] = next[j]
    BY <1>1, <1>7 DEF FlTypeOK
  <1>9. ASSUME NEW l \in Lists, NEW x \in Linked(l)
        PROVE  x.index \in Index /\ x.index # i /\ next'[x.index] = next[x.index]
    <2>1. x \in Entry
      BY <1>1, LinkedFacts
    <2>2. x.index \in Index /\ x.index # i
      BY <1>1, <1>5, <2>1, EntryFacts DEF Apart
    <2> QED
      BY <1>8, <2>2
  <1>10. Stacks' /\ \A l \in Lists : Linked(l)' = Linked(l)
    BY <1>1, <1>2, <1>9, StacksSame
  <1>11. FlTypeOK'
    BY <1>1, <1>2, <1>7 DEF FlTypeOK
  <1>12. Locals'
    <2>1. \A u \in Threads : u # t /\ tpc[u] = "insert" => elem[u] \in Index /\ elem[u] # i
      BY <1>1, <1>5, EntryFacts DEF Locals, FlTypeOK, Apart, Index
    <2> QED
      BY <1>1, <1>2, <1>4, <1>5, <1>8, <2>1 DEF Locals
  <1>13. Apart'
    BY <1>1, <1>2, <1>3, <1>10 DEF Apart
  <1>14. LinksKnown'
    <2>1. \A u \in Threads, l \in Lists :
             tpc'[u] = "swap" /\ top'[u] \in Linked(l)' => after'[u] = next'[top'[u].index]
      BY <1>1, <1>2, <1>8, <1>9, <1>10 DEF LinksKnown
    <2>2. \A u, v \in Threads :
             tpc'[u] \in {"next", "swap"} /\ tpc'[v] \in {"link", "insert"}
                 => top'[u] # top'[v]
      BY <1>1, <1>2, <1>4, <1>8 DEF LinksKnown
    <2> QED
      BY <2>1, <2>2 DEF LinksKnown
  <1>15. PointersPlaced'
    <2>1. \A u \in Threads : Carrying(u)' <=> Carrying(u)
      BY <1>2, <1>4, <1>8 DEF Carrying
    <2>2. \A j \in Index : Filled(j)' <=> Filled(j)
      BY <1>2, <1>3, <1>10, <2>1 DEF Filled
    <2> QED
      BY <1>1, <1>2, <2>2, PlacedSame
  <1> QED
    BY <1>10, <1>11, <1>12, <1>13, <1>14, <1>15 DEF FlInv

\* The cmpxchg of stack_push: the element becomes the head if its link is the
\* present head, even when that has been popped and pushed back meanwhile.
LEMMA PushSwapInv ==
    ASSUME FlInv, NEW t \in Threads, PushSwap(t)
    PROVE  FlInv'
  <1>1. FlTypeOK /\ Stacks /\ Locals /\ Apart /\ LinksKnown /\ PointersPlaced
    BY DEF FlInv
  <1>2. UNCHANGED <<next, ptr, current_tag, doing, list, top, after, held>>
    BY DEF PushSwap
  <1>3. "stored" \in Lists /\ "empty" \in Lists
    BY DEF Lists
  <1>4. tpc[t] = "insert"
    BY DEF PushSwap
  <1>5. CASE head[list[t]] # after[t]
    <2>1. UNCHANGED <<head, elem>> /\ tpc' = [tpc EXCEPT ![t] = "link"]
      BY <1>5 DEF PushSwap, Set
    <2>2. tpc'[t] = "link" /\ \A u \in Threads : u # t => tpc'[u] = tpc[u]
      BY <1>1, <2>1 DEF FlTypeOK
    <2>3. Stacks' /\ \A l \in Lists : Linked(l)' = Linked(l)
      BY <1>1, <1>2, <2>1, StacksSame
    <2>4. FlTypeOK'
      BY <1>1, <1>2, <2>1 DEF FlTypeOK
    <2>5. Locals'
      BY <1>1, <1>2, <1>4, <2>1, <2>2 DEF Locals
    <2>6. Apart'
      BY <1>1, <1>2, <1>3, <2>1, <2>3 DEF Apart
    <2>7. LinksKnown'
      BY <1>1, <1>2, <1>4, <2>2, <2>3 DEF LinksKnown
    <2>8. PointersPlaced'
      <3>1. \A u \in Threads : Carrying(u)' <=> Carrying(u)
        BY <1>2, <1>4, <2>2 DEF Carrying
      <3>2. \A i \in Index : Filled(i)' <=> Filled(i)
        BY <1>3, <2>1, <2>3, <3>1 DEF Filled
      <3> QED
        BY <1>1, <1>2, <3>2, PlacedSame
    <2> QED
      BY <2>3, <2>4, <2>5, <2>6, <2>7, <2>8 DEF FlInv
  <1>6. CASE head[list[t]] = after[t]
    <2>0. PICK l \in Lists, x \in Entry : l = list[t] /\ x = top[t]
      BY <1>1, <1>4 DEF FlTypeOK, Locals
    <2>1. /\ head' = [head EXCEPT ![l] = x]
          /\ elem' = [elem EXCEPT ![t] = -1]
          /\ tpc' = [tpc EXCEPT ![t] = "idle"]
      BY <1>6, <2>0 DEF PushSwap, Set
    <2>2. /\ x.index \in Index /\ x # Nil /\ x.index # -1 /\ elem[t] = x.index
          /\ next[x.index] = head[l]
      BY <1>1, <1>4, <1>6, <2>0, EntryFacts DEF Locals
    <2>3. /\ head'[l] = x /\ \A m \in Lists : m # l => head'[m] = head[m]
          /\ elem'[t] = -1 /\ \A u \in Threads : u # t => elem'[u] = elem[u]
          /\ tpc'[t] = "idle" /\ \A u \in Threads : u # t => tpc'[u] = tpc[u]
      BY <1>1, <2>1 DEF FlTypeOK
    <2>4. \A m \in Lists : \A y \in Linked(m) : y.index # x.index
      BY <1>1, <2>2 DEF Apart
    <2>5. OnStack(head'[l], next', Linked(l) \cup {x})
      <3>1. OnStack(head[l], next, Linked(l))
        BY <1>1 DEF Stacks
      <3>2. OnStack(x, next, Linked(l) \cup {x})
        BY <2>2, <2>4, <3>1, StackPush
      <3> QED
        BY <1>2, <2>3, <3>2
    <2>6. Linked(l)' = Linked(l) \cup {x}
      BY <2>5, StackBelow DEF Linked
    <2>7. \A m \in Lists : m # l => Linked(m)' = Linked(m)
      BY <1>2, <2>3 DEF Linked
    <2>8. Stacks'
      <3> SUFFICES ASSUME NEW m \in Lists PROVE OnStack(head'[m], next', Linked(m)')
        BY DEF Stacks
      <3>1. CASE m = l
        BY <2>5, <2>6, <3>1
      <3>2. CASE m # l
        <4>1. OnStack(head[m], next, Linked(m))
          BY <1>1 DEF Stacks
        <4> QED
          BY <1>2, <2>3, <2>7, <3>2, <4>1
      <3> QED
        BY <3>1, <3>2
    <2>9. FlTypeOK'
      BY <1>1, <1>2, <2>1 DEF FlTypeOK
    <2>10. Locals'
      BY <1>1, <1>2, <2>3 DEF Locals
    <2>11. \A m \in Lists : \A y : y \in Linked(m)' <=> y \in Linked(m) \/ (m = l /\ y = x)
      BY <2>6, <2>7
    <2>12. Apart'
      <3>1. \A y \in Linked("stored")', z \in Linked("empty")' : y.index # z.index
        BY <1>1, <1>3, <2>4, <2>11 DEF Apart
      <3>2. \A u \in Threads : u # t => elem[u] # x.index
        BY <1>1, <2>2 DEF Apart
      <3>3. \A m \in Lists : \A y \in Linked(m) : y.index # -1
        BY <1>1, LinkedFacts, EntryFacts DEF Index
      <3>4. \A u \in Threads, m \in Lists : \A y \in Linked(m)' : y.index # elem'[u]
        BY <1>1, <2>2, <2>3, <2>11, <3>2, <3>3 DEF Apart
      <3>5. \A u, v \in Threads : u # v /\ elem'[u] # -1 => elem'[u] # elem'[v]
        BY <1>1, <2>3 DEF Apart
      <3>6. ASSUME NEW i \in Index
            PROVE  \/ \E u \in Threads : elem'[u] = i
                   \/ \E m \in Lists : \E y \in Linked(m)' : y.index = i
        <4>1. CASE i = x.index
          BY <2>11, <4>1
        <4>2. CASE i # x.index /\ \E u \in Threads : elem[u] = i
          BY <2>2, <2>3, <4>2
        <4>3. CASE \E m \in Lists : \E y \in Linked(m) : y.index = i
          BY <2>11, <4>3
        <4> QED
          BY <1>1, <4>1, <4>2, <4>3 DEF Apart
      <3> QED
        BY <3>1, <3>4, <3>5, <3>6 DEF Apart
    <2>13. LinksKnown'
      <3>1. \A u \in Threads : tpc[u] = "swap" => top[u] # x
        BY <1>1, <1>4, <2>0 DEF LinksKnown
      <3> QED
        BY <1>1, <1>2, <2>3, <2>11, <3>1 DEF LinksKnown
    <2>14. PointersPlaced'
      <3>1. \A u \in Threads : u # t => (Carrying(u)' <=> Carrying(u))
        BY <1>2, <2>3 DEF Carrying
      <3>2. Carrying(t) <=> l = "stored"
        BY <1>1, <1>4, <2>0 DEF Carrying, Locals
      <3>3. \A u \in Threads : u # t => elem[u] # x.index
        BY <1>1, <2>2 DEF Apart
      <3>4. ASSUME NEW i \in Index
            PROVE  Filled(i)' <=> Filled(i)
        <4>1. CASE i = x.index
          <5>1. Filled(i) <=> Carrying(t)
            BY <1>3, <2>2, <2>4, <3>3, <4>1 DEF Filled
          <5>2. \A u \in Threads : elem'[u] # i
            BY <2>2, <2>3, <3>3, <4>1
          <5>3. (\E y \in Linked("stored")' : y.index = i) <=> l = "stored"
            BY <1>3, <2>4, <2>11, <4>1
          <5>4. Filled(i)' <=> l = "stored"
            BY <5>2, <5>3 DEF Filled
          <5> QED
            BY <3>2, <5>1, <5>4
        <4>2. CASE i # x.index
          <5>1. (\E y \in Linked("stored")' : y.index = i)
                  <=> \E y \in Linked("stored") : y.index = i
            BY <1>3, <2>11, <4>2
          <5>2. i # -1
            BY EntryFacts DEF Index
          <5>3. \A u \in Threads :
                   (elem'[u] = i /\ Carrying(u)') <=> (elem[u] = i /\ Carrying(u))
            BY <2>2, <2>3, <3>1, <4>2, <5>2
          <5> QED
            BY <5>1, <5>3 DEF Filled
        <4> QED
          BY <4>1, <4>2
      <3> QED
        BY <1>1, <1>2, <3>4, PlacedSame
    <2> QED
      BY <2>8, <2>9, <2>10, <2>12, <2>13, <2>14 DEF FlInv
  <1> QED
    BY <1>5, <1>6

LEMMA NextFl == FlInv /\ [FlNext]_flVars /\ [FreshTags]_flVars => FlInv'
  <1> SUFFICES ASSUME FlInv, [FlNext]_flVars, [FreshTags]_flVars
               PROVE  FlInv'
    OBVIOUS
  <1>1. CASE UNCHANGED flVars
    <2>1. FlTypeOK /\ Stacks /\ Locals /\ Apart /\ LinksKnown /\ PointersPlaced
      BY DEF FlInv
    <2>2. /\ UNCHANGED <<head, next, ptr, current_tag>>
          /\ UNCHANGED <<tpc, doing, list, top, after, elem, held>>
      BY <1>1 DEF flVars, tableVars, localVars
    <2>3. Stacks' /\ \A l \in Lists : Linked(l)' = Linked(l)
      BY <2>1, <2>2, StacksSame
    <2>4. FlTypeOK' /\ Locals'
      BY <2>1, <2>2 DEF FlTypeOK, Locals
    <2>5. Apart' /\ LinksKnown'
      BY <2>1, <2>2, <2>3 DEF Apart, LinksKnown, Lists
    <2>6. \A i \in Index : Filled(i)' <=> Filled(i)
      BY <2>2, <2>3 DEF Filled, Carrying, Lists
    <2>7. PointersPlaced'
      BY <2>1, <2>2, <2>6, PlacedSame
    <2> QED
      BY <2>3, <2>4, <2>5, <2>7 DEF FlInv
  <1>2. ASSUME FlNext, FreshTags
        PROVE  FlInv'
    <2>1. PICK t \in Threads : Step(t)
      BY <1>2 DEF FlNext
    <2> QED
      BY <1>2, <2>1, LoadInv, PopSwapInv, ExchangeInv, PushLinkInv, PushSwapInv DEF Step
  <1> QED
    BY <1>1, <1>2

-----------------------------------------------------------------------------
\* The pool keeps its elements and its pointers, whatever pushes and pops of
\* pa_flist_push and pa_flist_pop interleave and however often the tags wrap,
\* as long as no thread stays between the load and the cmpxchg of stack_pop
\* for so many pushes that its element comes back with the same tag.
THEOREM PoolStaysCorrect ==
    FlSpec /\ [][FreshTags]_flVars => []FreeListCorrect
  <1>1. FlInv => FreeListCorrect
    BY InvIntact, InvKept DEF FreeListCorrect
  <1> QED
    BY <1>1, InitFl, NextFl, PTL DEF FlSpec

\* Every tag that is in use has been drawn.
TagsDrawn ==
    /\ \A l \in Lists : head[l].tag < current_tag
    /\ \A i \in Index : next[i].tag < current_tag
    /\ \A t \in Threads : top[t].tag < current_tag /\ after[t].tag < current_tag

LEMMA InitTags == pa_flist_new => (current_tag <= TagMod => TagsDrawn)
  <1> SUFFICES ASSUME pa_flist_new, current_tag <= TagMod PROVE TagsDrawn
    OBVIOUS
  <1>1. TableSize \in Nat \ {0} /\ TagMod \in Nat \ {0} /\ current_tag = TableSize
    BY EntryFacts DEF pa_flist_new
  <1>2. \A i \in Index : i % TagMod = i /\ i < TableSize
    BY <1>1 DEF Index
  <1>3. TableSize - 1 \in Index /\ \A i \in Index : i # 0 => i - 1 \in Index
    BY <1>1 DEF Index
  <1>4. Nil.tag < current_tag
    BY <1>1 DEF Nil
  <1>5. head["stored"] = Nil /\ head["empty"].tag = (TableSize - 1) % TagMod
    BY DEF pa_flist_new
  <1>6. \A i \in Index :
           /\ i = 0 => next[i] = Nil
           /\ i # 0 => next[i] = [index |-> i - 1, tag |-> (i - 1) % TagMod]
    BY DEF pa_flist_new, Index
  <1>7. \A i \in Index : next[i].tag < current_tag
    <2> TAKE i \in Index
    <2>1. CASE i = 0
      BY <1>4, <1>6, <2>1
    <2>2. CASE i # 0
      <3>1. next[i] = [index |-> i - 1, tag |-> (i - 1) % TagMod]
        BY <1>6, <2>2
      <3> QED
        BY <1>1, <1>2, <1>3, <2>2, <3>1
    <2> QED
      BY <2>1, <2>2
  <1>8. \A l \in Lists : head[l].tag < current_tag
    BY <1>1, <1>2, <1>3, <1>4, <1>5 DEF Lists
  <1>9. \A t \in Threads : top[t] = Nil /\ after[t] = Nil
    BY DEF pa_flist_new
  <1> QED
    BY <1>4, <1>7, <1>8, <1>9 DEF TagsDrawn

\* While the counter has not passed the number of tags, a tag that is drawn is
\* larger than all that are in use.
LEMMA NextTags ==
    ASSUME FlInv, TagsDrawn, [FlNext]_flVars, current_tag' <= TagMod
    PROVE  TagsDrawn' /\ [FreshTags]_flVars
  <1>1. FlTypeOK /\ Locals /\ TagMod \in Nat \ {0}
    BY EntryFacts DEF FlInv
  <1>2. CASE UNCHANGED flVars
    <2>1. UNCHANGED <<head, next, current_tag>> /\ UNCHANGED <<top, after>>
      BY <1>2 DEF flVars, tableVars, localVars
    <2> QED
      BY <1>2, <2>1 DEF TagsDrawn
  <1>3. CASE FlNext
    <2>1. PICK t \in Threads : Step(t)
      BY <1>3 DEF FlNext
    <2>2. CASE \E o \in {"push", "pop"} : Begin(t, o)
      <3>1. UNCHANGED <<head, next, current_tag>> /\ UNCHANGED <<top, after>>
        BY <2>2 DEF Begin, tableVars
      <3>2. tpc'[t] = "load" /\ \A u \in Threads : u # t => tpc'[u] = tpc[u]
        BY <1>1, <2>2 DEF Begin, Set, FlTypeOK
      <3> QED
        BY <3>1, <3>2 DEF TagsDrawn, FreshTags
    <2>3. CASE PopHead(t)
      <3>1. /\ UNCHANGED <<head, next, current_tag, after>>
            /\ top'[t] = head[list[t]] /\ list[t] \in Lists
            /\ \A u \in Threads : u # t => top'[u] = top[u]
        BY <1>1, <2>3 DEF PopHead, Set, FlTypeOK, tableVars
      <3>2. tpc'[t] # "link" /\ \A u \in Threads : u # t => tpc'[u] = tpc[u]
        BY <1>1, <2>3 DEF PopHead, Set, FlTypeOK
      <3>3. TagsDrawn'
        BY <3>1 DEF TagsDrawn
      <3> QED
        BY <3>2, <3>3 DEF FreshTags
    <2>4. CASE PopNext(t)
      <3>1. top[t].index \in Index
        BY <1>1, <2>4, EntryFacts DEF PopNext, Locals
      <3>2. /\ UNCHANGED <<head, next, current_tag, top>>
            /\ after'[t] = next[top[t].index]
            /\ \A u \in Threads : u # t => after'[u] = after[u]
        BY <1>1, <2>4 DEF PopNext, Set, FlTypeOK, tableVars
      <3>3. tpc'[t] = "swap" /\ \A u \in Threads : u # t => tpc'[u] = tpc[u]
        BY <1>1, <2>4 DEF PopNext, Set, FlTypeOK
      <3>4. TagsDrawn'
        BY <3>1, <3>2 DEF TagsDrawn
      <3> QED
        BY <3>3, <3>4 DEF FreshTags
    <2>5. CASE PopSwap(t) \/ PushSwap(t)
      <3>1. /\ UNCHANGED <<next, current_tag, top, after>>
            /\ \A l \in Lists : head'[l] \in {head[l], after[t], top[t]}
        BY <1>1, <2>5 DEF PopSwap, PushSwap, Set, FlTypeOK
      <3>2. TagsDrawn'
        BY <3>1 DEF TagsDrawn
      <3>3. tpc[t] # "popped" /\ \A u \in Threads : u # t => tpc'[u] = tpc[u]
        BY <1>1, <2>5 DEF PopSwap, PushSwap, Set, FlTypeOK
      <3> QED
        BY <3>2, <3>3 DEF FreshTags
    <2>6. CASE PushLink(t)
      <3>1. elem[t] \in Index /\ list[t] \in Lists
        BY <1>1, <2>6 DEF PushLink, FlTypeOK, Locals
      <3>2. /\ UNCHANGED <<head, current_tag, top>>
            /\ \A i \in Index : next'[i] \in {next[i], head[list[t]]}
            /\ \A u \in Threads : after'[u] \in {after[u], head[list[t]]}
        BY <1>1, <2>6, <3>1 DEF PushLink, Set, FlTypeOK
      <3>3. TagsDrawn'
        BY <3>1, <3>2 DEF TagsDrawn
      <3>4. tpc'[t] = "insert" /\ tpc[t] = "link"
            /\ \A u \in Threads : u # t => tpc'[u] = tpc[u]
        BY <1>1, <2>6 DEF PushLink, Set, FlTypeOK
      <3> QED
        BY <3>3, <3>4 DEF FreshTags
    <2>7. CASE Exchange(t)
      <3>1. /\ UNCHANGED <<head, next, after>>
            /\ current_tag' = current_tag + 1
            /\ top'[t] = [index |-> elem[t], tag |-> current_tag % TagMod]
            /\ \A u \in Threads : u # t => top'[u] = top[u]
        BY <1>1, <2>7 DEF Exchange, Set, FlTypeOK
      <3>2. current_tag \in Nat /\ current_tag % TagMod = current_tag
        BY <1>1, <3>1 DEF FlTypeOK
      <3>3. top'[t].tag = current_tag
        BY <3>1, <3>2
      <3>4. /\ \A l \in Lists : head[l].tag \in Int
            /\ \A i \in Index : next[i].tag \in Int
            /\ \A u \in Threads : top[u].tag \in Int /\ after[u].tag \in Int
        BY <1>1, EntryFacts DEF FlTypeOK
      <3>5. TagsDrawn'
        BY <3>1, <3>2, <3>3, <3>4 DEF TagsDrawn
      <3>6. \A u \in Threads : u # t => tpc'[u] = tpc[u]
        BY <1>1, <2>7 DEF Exchange, Set, FlTypeOK
      <3>7. \A u \in Threads : top'[t] # top[u]
        BY <3>2, <3>3, <3>4 DEF TagsDrawn
      <3> QED
        BY <3>5, <3>6, <3>7 DEF FreshTags
    <2> QED
      BY <2>1, <2>2, <2>3, <2>4, <2>5, <2>6, <2>7 DEF Step
  <1> QED
    BY <1>2, <1>3

\* In particular nothing can go wrong before the counter of the tags has gone
\* through all of them: current_tag of pa_flist counts the pushes.
THEOREM PoolCorrectUntilWrap ==
    FlSpec /\ [](current_tag <= TagMod) => []FreeListCorrect
  <1>1. pa_flist_new /\ current_tag <= TagMod => FlInv /\ TagsDrawn
    BY InitFl, InitTags
  <1>2. /\ FlInv /\ TagsDrawn /\ [FlNext]_flVars /\ (current_tag <= TagMod)'
        => FlInv' /\ TagsDrawn'
    BY NextFl, NextTags
  <1>3. FlInv => FreeListCorrect
    BY InvIntact, InvKept DEF FreeListCorrect
  <1> QED
    BY <1>1, <1>2, <1>3, PTL DEF FlSpec
=============================================================================
