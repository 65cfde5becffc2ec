------------------------------- MODULE FList -------------------------------
(***************************************************************************)
(* pulsecore/flist.c: a pool of pointers kept in a fixed table whose       *)
(* elements are linked into two lock-free stacks, the stored and the empty *)
(* ones.  The head of a stack is the index of an element together with a   *)
(* tag that every push takes from a counter, so that a head which has been *)
(* popped and pushed back meanwhile is not mistaken for the old one.       *)
(***************************************************************************)
EXTENDS Integers, FiniteSets

CONSTANTS Threads,
          TableSize,       \* elements of the table
          TagMod,     \* number of different tags: 2^31 / TableSize, rounded
          MaxTag,     \* bound on the pushes onto either stack
          Pointers    \* what is stored

ASSUME FListAssumption ==
    /\ TableSize \in Nat \ {0} /\ TagMod \in Nat \ {0} /\ MaxTag \in Nat
    /\ IsFiniteSet(Threads)

Nil == [index |-> -1, tag |-> 0]
NoPtr == "none"

VARIABLES head,         \* head of the "stored" and of the "empty" stack
          next, ptr,    \* the table
          current_tag,
          tpc,          \* where each thread is
          doing,        \* "push" or "pop" of the pool
          list,         \* the stack it works on
          top,          \* the head it has read, or the new head
          after,        \* the next field it has read
          elem,         \* the element it has taken out of a stack, or -1
          held          \* pointers in the hands of each thread

tableVars == <<head, next, ptr, current_tag>>
localVars == <<tpc, doing, list, top, after, elem, held>>
flVars == <<tableVars, localVars>>

\* The empty table: stack_push has put element 0 first
pa_flist_new ==
    /\ head = [stored |-> Nil, empty |-> [index |-> TableSize - 1, tag |-> (TableSize - 1) % TagMod]]
    /\ next = [i \in 0 .. TableSize - 1 |->
                 IF i = 0 THEN Nil ELSE [index |-> i - 1, tag |-> (i - 1) % TagMod]]
    /\ ptr = [i \in 0 .. TableSize - 1 |-> NoPtr]
    /\ current_tag = TableSize
    /\ tpc = [t \in Threads |-> "idle"]
    /\ doing = [t \in Threads |-> "none"]
    /\ list = [t \in Threads |-> "empty"]
    /\ top = [t \in Threads |-> Nil]
    /\ after = [t \in Threads |-> Nil]
    /\ elem = [t \in Threads |-> -1]
    /\ held \in [Threads -> SUBSET Pointers]
    /\ \A p \in Pointers : \E t \in Threads : p \in held[t]
    /\ \A t, u \in Threads : t # u => held[t] \cap held[u] = {}

Set(f, t, v) == f' = [f EXCEPT ![t] = v]

-----------------------------------------------------------------------------
(* Both operations of the pool pop an element from one stack and push it   *)
(* onto the other.                                                         *)

Begin(t, o) ==
    /\ tpc[t] = "idle"
    /\ o = "push" => held[t] # {}
    /\ current_tag < MaxTag
    /\ Set(doing, t, o)
    /\ Set(list, t, IF o = "push" THEN "empty" ELSE "stored")
    /\ Set(tpc, t, "load")
    /\ UNCHANGED <<tableVars, top, after, elem, held>>

PopHead(t) ==
    /\ tpc[t] = "load"
    /\ Set(top, t, head[list[t]])
    /\ Set(tpc, t, IF head[list[t]] = Nil THEN "idle" ELSE "next")
    /\ UNCHANGED <<tableVars, doing, list, after, elem, held>>

PopNext(t) ==
    /\ tpc[t] = "next"
    /\ Set(after, t, next[top[t].index])
    /\ Set(tpc, t, "swap")
    /\ UNCHANGED <<tableVars, doing, list, top, elem, held>>

Bug_PopSwap(t) ==
    /\ tpc[t] = "swap"
    /\ IF head[list[t]].index = top[t].index
       THEN /\ Set(head, list[t], after[t])
            /\ Set(elem, t, top[t].index)
            /\ Set(tpc, t, "popped")
       ELSE Set(tpc, t, "load") /\ UNCHANGED <<head, elem>>
    /\ UNCHANGED <<next, ptr, current_tag, doing, list, top, after, held>>

PopSwap(t) ==
    /\ tpc[t] = "swap"
    /\ IF head[list[t]] = top[t]
       THEN /\ Set(head, list[t], after[t])
            /\ Set(elem, t, top[t].index)
            /\ Set(tpc, t, "popped")
       ELSE Set(tpc, t, "load") /\ UNCHANGED <<head, elem>>
    /\ UNCHANGED <<next, ptr, current_tag, doing, list, top, after, held>>

\* pa_flist_push stores its pointer in the element, pa_flist_pop takes the
\* one that is there; stack_push then draws a tag.
Exchange(t) ==
    /\ tpc[t] = "popped"
    /\ \/ /\ doing[t] = "push"
          /\ \E p \in held[t] : /\ Set(ptr, elem[t], p)
                                /\ Set(held, t, held[t] \ {p})
          /\ Set(list, t, "stored")
       \/ /\ doing[t] = "pop"
          /\ Set(held, t, held[t] \cup {ptr[elem[t]]})
          /\ Set(list, t, "empty") /\ UNCHANGED ptr
    /\ current_tag' = current_tag + 1
    /\ Set(top, t, [index |-> elem[t], tag |-> current_tag % TagMod])
    /\ Set(tpc, t, "link")
    /\ UNCHANGED <<head, next, doing, after, elem>>

PushLink(t) ==
    /\ tpc[t] = "link"
    /\ Set(after, t, head[list[t]])
    /\ Set(next, elem[t], head[list[t]])
    /\ Set(tpc, t, "insert")
    /\ UNCHANGED <<head, ptr, current_tag, doing, list, top, elem, held>>

PushSwap(t) ==
    /\ tpc[t] = "insert"
    /\ IF head[list[t]] = after[t]
       THEN /\ Set(head, list[t], top[t])
            /\ Set(elem, t, -1)
            /\ Set(tpc, t, "idle")
       ELSE Set(tpc, t, "link") /\ UNCHANGED <<head, elem>>
    /\ UNCHANGED <<next, ptr, current_tag, doing, list, top, after, held>>

Step(t) ==
    \/ \E o \in {"push", "pop"} : Begin(t, o)
    \/ PopHead(t) \/ PopNext(t) \/ PopSwap(t)
    \/ Exchange(t) \/ PushLink(t) \/ PushSwap(t)

FlNext == \E t \in Threads : Step(t)

FlSpec == pa_flist_new /\ [][FlNext]_flVars

-----------------------------------------------------------------------------
(* Properties                                                              *)

\* The element k steps below the head of a stack
Below(l) == LET b[k \in 0 .. TableSize] == IF k = 0 THEN head[l]
                                      ELSE IF b[k - 1] = Nil THEN Nil
                                      ELSE next[b[k - 1].index]
            IN  b
Elements(l) == {Below(l)[k].index : k \in 0 .. TableSize - 1} \ {-1}

\* Every element is in exactly one of three places, on the stored stack, on
\* the empty stack or in the hands of one thread, and both stacks end: the
\* table is not corrupted by a head that was popped and pushed back between
\* the load and the cmpxchg of another thread (the ABA problem the tags of
\* flist.c are for).
TableIntact ==
    /\ \A l \in {"stored", "empty"} : Below(l)[TableSize] = Nil
    /\ Elements("stored") \cap Elements("empty") = {}
    /\ \A t, u \in Threads : t # u /\ elem[t] # -1 => elem[t] # elem[u]
    /\ \A i \in 0 .. TableSize - 1 :
          (\E t \in Threads : elem[t] = i)
              <=> i \notin Elements("stored") \cup Elements("empty")

\* A pointer is never handed out twice and never lost: it is held by one
\* thread, or it is in one stored element (or in one on its way to or from
\* the stored stack).
PointersKept ==
    \A p \in Pointers :
        LET holders == {t \in Threads : p \in held[t]}
            places  == {i \in 0 .. TableSize - 1 :
                          /\ ptr[i] = p
                          /\ \/ i \in Elements("stored")
                             \/ \E t \in Threads :
                                  /\ elem[t] = i
                                  /\ IF doing[t] = "push" THEN tpc[t] \in {"link", "insert"}
                                     ELSE tpc[t] = "popped"}
        IN  Cardinality(holders) + Cardinality(places) = 1

\* pa_flist: elements and the pointers in them are neither lost nor handed out
\* twice, whatever pushes and pops interleave.
FreeListCorrect == TableIntact /\ PointersKept
=============================================================================
