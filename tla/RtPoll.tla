------------------------------- MODULE RtPoll -------------------------------
(***************************************************************************)
(* pulsecore/rtpoll.c: the loop every real-time thread sleeps in.  Items   *)
(* sorted by priority offer callbacks for work to do, for before and for   *)
(* after poll(), and own a run of entries of the pollfd array.  Messages   *)
(* handled by a work callback create and free items while the loop walks   *)
(* the list, so a freed item is only marked dead until the run ends.       *)
(*                                                                         *)
(* The items are those of a sink's thread that plays iwab streams: the     *)
(* reader of the thread's message queue, the writer of the one to the main *)
(* thread, the reader of a queue from another real-time thread (as         *)
(* module-loopback.c adds one), a device that is only polled, and one item *)
(* per iwab stream (iwab-input.c), attached and detached by messages.      *)
(*                                                                         *)
(* The loop's own data is one record `p', and each function of rtpoll.c    *)
(* that changes it is an operator from record to record.  The two arrays   *)
(* the code swaps are one sequence here, since every rebuild moves all     *)
(* items to the new one.                                                   *)
(***************************************************************************)
EXTENDS Integers, Sequences, FiniteSets
LOCAL INSTANCE SequencesExt

CONSTANTS Streams,     \* iwab streams
          Reader, Writer, Side, Device,
          MaxPosts,    \* bound on the messages posted to the thread
          MaxFrames    \* bound on the frames a socket holds

Standing == {Reader, Writer, Side, Device}

ASSUME RtPollAssumption ==
    /\ IsFiniteSet(Streams) /\ Standing \cap Streams = {}
    /\ Cardinality(Standing) = 4
    /\ MaxPosts \in Nat /\ MaxFrames \in Nat \ {0}

Items == Standing \cup Streams

EARLY == -100
LATE  == 100
NEVER == 1000

Priority(i) == CASE i = Reader -> EARLY [] i = Device -> NEVER [] OTHER -> LATE
NFds(i)     == IF i = Device THEN 2 ELSE 1

\* The n-th descriptor of an item
Fd(i, n) == <<i, n>>
FdZero == <<"fd 0", 0>>
Fds(i) == {Fd(i, n) : n \in 1 .. NFds(i)}

before_cb(i) == i \in {Reader, Side, Writer}
after_cb(i)  == i \in {Reader, Side, Writer}

VARIABLES p,          \* struct pa_rtpoll with its items
          at,         \* where pa_rtpoll_run is
          cur,        \* the item it has come to, or "end"
          ret,        \* r: what it will return
          inq,        \* messages for the thread
          sideq,      \* number of messages from the other thread
          posts,      \* how many have been posted
          wanted,     \* streams the main thread has attached
          opened,     \* the sink is opened: iwab reads, and the timer runs
          frames,     \* frames in the socket of each stream
          broken,     \* streams whose socket reports an error
          prepared,   \* items between their before and after callbacks
          seen        \* what poll() last said of each descriptor

threadVars == <<p, at, cur, ret, prepared, seen>>
worldVars == <<posts, wanted, broken>>
rtVars == <<threadVars, worldVars, inq, sideq, opened, frames>>

-----------------------------------------------------------------------------
(* The list and the array.                                                 *)

NoEntry == [fd |-> FdZero, revents |-> {}]
Position(l, i) == CHOOSE k \in 1 .. Len(l) : l[k] = i

\* rtpoll_rebuild: the entries of the items, in the order of the list
rtpoll_rebuild(q) ==
    LET entries(i) == IF q.slot[i] = 0 THEN [n \in 1 .. NFds(i) |-> NoEntry]
                      ELSE SubSeq(q.pollfd, q.slot[i], q.slot[i] + NFds(i) - 1)
        start(i) == FoldLeft(LAMBDA s, j : s + NFds(j), 1,
                             SubSeq(q.items, 1, Position(q.items, i) - 1))
    IN  [q EXCEPT
          !.rebuild_needed = FALSE,
          !.pollfd = FlattenSeq([k \in 1 .. Len(q.items) |-> entries(q.items[k])]),
          !.slot = [i \in Items |-> IF Contains(q.items, i) THEN start(i) ELSE 0]]

\* pa_rtpoll_item_new puts an item before those of its own priority
pa_rtpoll_item_new(q, i) ==
    LET before == SelectSeq(q.items, LAMBDA j : Priority(j) < Priority(i))
        behind == SelectSeq(q.items, LAMBDA j : Priority(j) >= Priority(i))
    IN  [q EXCEPT !.items = before \o <<i>> \o behind,
                  !.slot[i] = 0,
                  !.used = @ + NFds(i),
                  !.rebuild_needed = TRUE]

Bug_rtpoll_item_destroy(q, i) ==
    [q EXCEPT !.items = SelectSeq(@, LAMBDA j : j # i),
              !.slot[i] = 0,
              !.used = @ - NFds(i),
              !.dead = @ \ {i}]

rtpoll_item_destroy(q, i) ==
    [q EXCEPT !.items = SelectSeq(@, LAMBDA j : j # i),
              !.slot[i] = 0,
              !.used = @ - NFds(i),
              !.dead = @ \ {i},
              !.rebuild_needed = TRUE]

pa_rtpoll_item_free(q, i) ==
    IF q.running THEN [q EXCEPT !.dead = @ \cup {i}, !.scan_for_dead = TRUE]
    ELSE rtpoll_item_destroy(q, i)

\* pa_rtpoll_item_get_pollfd rebuilds first when it has to
WithPollfd(q) == IF q.rebuild_needed THEN rtpoll_rebuild(q) ELSE q

\* A new item with its descriptors entered
Register(q, i) ==
    LET r == WithPollfd(pa_rtpoll_item_new(q, i))
    IN  [r EXCEPT !.pollfd = [k \in DOMAIN @ |->
            IF k \in r.slot[i] .. r.slot[i] + NFds(i) - 1
            THEN [fd |-> Fd(i, k - r.slot[i] + 1), revents |-> {}] ELSE @[k]]]

pa_rtpoll_new ==
    [items |-> <<>>, slot |-> [i \in Items |-> 0], pollfd |-> <<>>, used |-> 0,
     dead |-> {}, scan_for_dead |-> FALSE, rebuild_needed |-> FALSE,
     running |-> FALSE, quit |-> FALSE]

\* pa_thread_mq_init and the device have registered their items
RtInit ==
    /\ p = FoldLeft(Register, pa_rtpoll_new, <<Reader, Writer, Device, Side>>)
    /\ at = "out" /\ cur = "end" /\ ret = 0
    /\ inq = <<>> /\ sideq = 0 /\ posts = 0 /\ wanted = {}
    /\ opened = FALSE
    /\ frames = [s \in Streams |-> 0] /\ broken = {}
    /\ prepared = {} /\ seen = [f \in UNION {Fds(i) : i \in Items} |-> {}]

-----------------------------------------------------------------------------
(* pa_rtpoll_run                                                           *)

\* Only the items before those of priority NEVER are walked
FirstOf(q) == IF Priority(Head(q.items)) < NEVER THEN Head(q.items) ELSE "end"
NextOf(q, i) == LET k == Position(q.items, i) IN
                IF k < Len(q.items) /\ Priority(q.items[k + 1]) < NEVER
                THEN q.items[k + 1] ELSE "end"
PrevOf(q, i) == LET k == Position(q.items, i) IN
                IF k > 1 THEN q.items[k - 1] ELSE "end"

Run == /\ at = "out"
       /\ p' = [p EXCEPT !.running = TRUE]
       /\ at' = "work" /\ cur' = FirstOf(p) /\ ret' = 0
       /\ UNCHANGED <<prepared, seen, worldVars, inq, sideq, opened, frames>>

\* A queue whose reader has something to do
Pending(i) == \/ i = Reader /\ inq # <<>>
              \/ i = Side /\ sideq > 0

\* What a message makes of the loop: sink_input_attach, sink_input_detach or a
\* change of the sink's state.
Handle(q, m) ==
    CASE m.type = "attach" -> Register(q, m.stream)
      [] m.type = "detach" -> pa_rtpoll_item_free(q, m.stream)
      [] OTHER -> q

Dispatch(m) ==
    /\ opened' = IF m.type = "state" THEN ~ opened ELSE opened
    /\ seen' = IF m.type = "attach" THEN [seen EXCEPT ![Fd(m.stream, 1)] = {}]
               ELSE seen

\* Each message ends the run, so that the walk over the list never goes on
\* after the list has changed; the one that says so ends the loop.
asyncmsgq_read_work ==
    /\ Pending(cur)
    /\ \/ /\ cur = Reader
          /\ p' = IF Head(inq).type = "shutdown" THEN [p EXCEPT !.quit = TRUE]
                  ELSE Handle(p, Head(inq))
          /\ Dispatch(Head(inq))
          /\ inq' = Tail(inq) /\ UNCHANGED sideq
       \/ /\ cur = Side
          /\ sideq' = sideq - 1
          /\ UNCHANGED <<p, opened, seen, inq>>
    /\ at' = "finish" /\ cur' = "end" /\ ret' = 0
    /\ UNCHANGED <<prepared, worldVars, frames>>

\* rtpoll_work_cb of iwab-input.c, as far as the loop sees it: an error ends
\* the thread, and only an opened sink reads its frame.
rtpoll_work_cb ==
    LET q == WithPollfd(p)
        k == q.slot[cur]
        revents == q.pollfd[k].revents
        reads == "in" \in revents /\ "err" \notin revents
    IN
    /\ cur \in Streams /\ cur \notin p.dead
    /\ p' = IF reads THEN [q EXCEPT !.pollfd[k].revents = {}] ELSE q
    /\ seen' = IF reads THEN [seen EXCEPT ![Fd(cur, 1)] = {}] ELSE seen
    /\ \/ /\ "err" \in revents
          /\ ret' = -1 /\ at' = "finish" /\ cur' = "end"
          /\ UNCHANGED frames
       \/ /\ reads /\ opened /\ frames[cur] > 0
          /\ frames' = [frames EXCEPT ![cur] = @ - 1]
          /\ \/ at' = "finish" /\ cur' = "end"            \* queued
             \/ at' = at /\ cur' = NextOf(q, cur)         \* ignored
          /\ UNCHANGED ret
       \/ /\ "err" \notin revents /\ ~ (reads /\ opened /\ frames[cur] > 0)
          /\ cur' = NextOf(q, cur)
          /\ UNCHANGED <<frames, ret, at>>
    /\ UNCHANGED <<prepared, worldVars, inq, sideq, opened>>

Work ==
    /\ at = "work"
    /\ \/ asyncmsgq_read_work
       \/ rtpoll_work_cb
       \/ /\ \/ cur \notin {"end"} \cup Streams /\ ~ Pending(cur)
             \/ cur \in p.dead
          /\ cur' = NextOf(p, cur)
          /\ UNCHANGED <<p, at, ret, prepared, seen, worldVars, inq, sideq, opened, frames>>
       \/ /\ cur = "end"
          /\ at' = "before" /\ cur' = FirstOf(p)
          /\ UNCHANGED <<p, ret, prepared, seen, worldVars, inq, sideq, opened, frames>>

\* A reader with messages waiting does not let the thread sleep: the items
\* before it are told so.
Before ==
    /\ at = "before"
    /\ \/ /\ cur = "end"
          /\ p' = WithPollfd(p)
          /\ at' = "poll" /\ UNCHANGED <<cur, prepared>>
       \/ /\ Pending(cur)
          /\ at' = "rewind" /\ cur' = PrevOf(p, cur)
          /\ UNCHANGED <<p, prepared>>
       \/ /\ cur # "end" /\ ~ Pending(cur)
          /\ prepared' = IF before_cb(cur) /\ cur \notin p.dead
                         THEN prepared \cup {cur} ELSE prepared
          /\ cur' = NextOf(p, cur)
          /\ UNCHANGED <<p, at>>
    /\ UNCHANGED <<ret, seen, worldVars, inq, sideq, opened, frames>>

Leave(i) == prepared' = IF after_cb(i) /\ i \notin p.dead THEN prepared \ {i} ELSE prepared

Rewind ==
    /\ at = "rewind"
    /\ IF cur = "end" THEN at' = "finish" /\ UNCHANGED <<cur, prepared>>
       ELSE Leave(cur) /\ cur' = PrevOf(p, cur) /\ UNCHANGED at
    /\ UNCHANGED <<p, ret, seen, worldVars, inq, sideq, opened, frames>>

Ready(f) ==
    {e \in {"in", "err"} :
       \/ e = "in" /\ \E i \in {Reader, Side} : f = Fd(i, 1) /\ Pending(i)
       \/ \E s \in Streams : f = Fd(s, 1) /\ IF e = "in" THEN frames[s] > 0
                                             ELSE s \in broken}

\* poll() looks at the first n_pollfd_used entries.  It returns when one of
\* them is ready, when the timer of an opened sink elapses, or in error.
Poll ==
    /\ at = "poll"
    /\ at' = "after" /\ cur' = FirstOf(p)
    /\ \/ LET polled == [k \in 1 .. p.used |-> Ready(p.pollfd[k].fd)] IN
          /\ opened \/ \E k \in 1 .. p.used : polled[k] # {}
          /\ p' = [p EXCEPT !.pollfd = [k \in DOMAIN @ |->
                      IF k <= p.used THEN [@[k] EXCEPT !.revents = polled[k]]
                      ELSE @[k]]]
          /\ seen' = [f \in DOMAIN seen |->
                        IF \E i \in ToSet(p.items) : f \in Fds(i)
                        THEN Ready(f) ELSE seen[f]]
          /\ ret' = 1
       \/ /\ p' = [p EXCEPT !.pollfd = [k \in DOMAIN @ |->
                      [@[k] EXCEPT !.revents = {}]]]
          /\ seen' = [f \in DOMAIN seen |-> {}]
          /\ ret' \in {0, -1}        \* interrupted, or a real error
    /\ UNCHANGED <<prepared, worldVars, inq, sideq, opened, frames>>

After ==
    /\ at = "after"
    /\ IF cur = "end" THEN at' = "finish" /\ UNCHANGED <<cur, prepared>>
       ELSE Leave(cur) /\ cur' = NextOf(p, cur) /\ UNCHANGED at
    /\ UNCHANGED <<p, ret, seen, worldVars, inq, sideq, opened, frames>>

\* The dead are buried, and the thread goes on, fails or ends.
Finish ==
    LET q == FoldLeft(LAMBDA r, i : IF i \in p.dead THEN rtpoll_item_destroy(r, i) ELSE r,
                      [p EXCEPT !.running = FALSE, !.scan_for_dead = FALSE], p.items)
    IN
    /\ at = "finish"
    /\ p' = IF p.scan_for_dead THEN q ELSE [p EXCEPT !.running = FALSE]
    /\ at' = CASE ret < 0 -> "failed" [] ret >= 0 /\ p.quit -> "ended" [] OTHER -> "out"
    /\ UNCHANGED <<cur, ret, prepared, seen, worldVars, inq, sideq, opened, frames>>

\* A thread whose loop failed goes on handling messages until it is told to
\* end (pa_asyncmsgq_wait_for in thread_func).
WaitForShutdown ==
    /\ at = "failed" /\ inq # <<>>
    /\ p' = Handle(p, Head(inq))
    /\ Dispatch(Head(inq)) /\ inq' = Tail(inq)
    /\ at' = IF Head(inq).type = "shutdown" THEN "ended" ELSE at
    /\ UNCHANGED <<cur, ret, prepared, worldVars, sideq, frames>>

Thread == Run \/ Work \/ Before \/ Rewind \/ Poll \/ After \/ Finish \/ WaitForShutdown

-----------------------------------------------------------------------------
(* The main thread and the network.                                        *)

PostMsg(m) ==
    /\ posts < MaxPosts /\ posts' = posts + 1
    /\ inq' = Append(inq, m)
    /\ UNCHANGED <<threadVars, broken, sideq, opened, frames>>

\* The last message is the one that ends the thread, sent when its sink has
\* no streams left.
Post ==
    \/ \E s \in Streams \ wanted : wanted' = wanted \cup {s}
                                   /\ PostMsg([type |-> "attach", stream |-> s])
    \/ \E s \in wanted : wanted' = wanted \ {s}
                         /\ PostMsg([type |-> "detach", stream |-> s])
    \/ UNCHANGED wanted /\ PostMsg([type |-> "state"])
    \/ wanted = {} /\ posts = MaxPosts - 1
       /\ UNCHANGED wanted /\ PostMsg([type |-> "shutdown"])

Receive(s) ==
    /\ frames[s] < MaxFrames
    /\ frames' = [frames EXCEPT ![s] = @ + 1]
    /\ UNCHANGED <<threadVars, worldVars, inq, sideq, opened>>

Break(s) ==
    /\ s \notin broken
    /\ broken' = broken \cup {s}
    /\ UNCHANGED <<threadVars, posts, wanted, inq, sideq, opened, frames>>

\* The other thread posts; it stops before this one ends.
SidePost ==
    /\ at \notin {"failed", "ended"}
    /\ posts < MaxPosts /\ posts' = posts + 1
    /\ sideq' = sideq + 1
    /\ UNCHANGED <<threadVars, wanted, broken, inq, opened, frames>>

RtNext == \/ Thread
          \/ Post \/ SidePost
          \/ \E s \in Streams : Receive(s) \/ Break(s)

\* The thread is scheduled, and poll() is not interrupted for ever: it
\* returns the descriptors that are ready again and again.
PollSucceeds == Poll /\ ret' = 1

RtSpec ==
    /\ RtInit /\ [][RtNext]_rtVars
    /\ WF_rtVars(Thread)
    /\ SF_rtVars(PollSucceeds)

-----------------------------------------------------------------------------
(* Properties                                                              *)

RtTypeOK ==
    /\ ToSet(p.items) \subseteq Items /\ p.used \in Nat
    /\ p.dead \subseteq ToSet(p.items)
    /\ at \in {"out", "work", "before", "rewind", "poll", "after", "finish",
               "failed", "ended"}
    /\ cur \in Items \cup {"end"} /\ prepared \subseteq Items
    /\ wanted \subseteq Streams

\* When the thread enters poll(), the entries it hands over are exactly the
\* descriptors of the items in the list, in order, and none of a stream that
\* has been detached: its socket may be closed by now.  This is the assertion
\* of rtpoll_rebuild and the reason for rebuild_needed and scan_for_dead.
PollSetExact ==
    at = "poll" =>
        /\ p.dead = {}
        /\ p.used = Len(p.pollfd)
        /\ [k \in 1 .. p.used |-> p.pollfd[k].fd]
             = FlattenSeq([k \in 1 .. Len(p.items) |->
                             [n \in 1 .. NFds(p.items[k]) |-> Fd(p.items[k], n)]])

\* Each item that has entries finds its own descriptors in them, with what the
\* last poll() said and its callback has not yet consumed, however many items
\* were added and freed since (rtpoll_rebuild copies them into the new array).
EntriesKept ==
    \A i \in ToSet(p.items) : p.slot[i] # 0 =>
        \A n \in 1 .. NFds(i) :
            p.pollfd[p.slot[i] + n - 1] = [fd |-> Fd(i, n), revents |-> seen[Fd(i, n)]]

\* The before and after callbacks of an item come in pairs, also when another
\* item keeps the thread from sleeping: nobody is left counted as a waiter
\* while the thread runs, and everybody is while it sleeps.
HooksPaired ==
    /\ at \in {"out", "work", "finish", "failed", "ended"} => prepared = {}
    /\ at = "poll" => prepared = {i \in ToSet(p.items) : before_cb(i)}

\* Whatever the main thread posts is handled, as long as the thread lives.
MessagesHandled == []<>(inq = <<>> \/ at = "ended")

\* The socket of a stream is not left readable while its sink is opened: it
\* is read again and again until it is empty, the stream is detached, the sink
\* is suspended or the loop fails.  This needs the message queues to run dry
\* (there are MaxPosts messages): a queue that always has a message keeps the
\* loop from poll(), and sockets are then never looked at.
FramesRead ==
    \A s \in Streams :
        []<>(\/ frames[s] = 0
             \/ s \notin wanted
             \/ ~ opened
             \/ at \in {"failed", "ended"}
             \/ at = "work" /\ cur = s /\ seen[Fd(s, 1)] # {})

\* pa_rtpoll_run keeps items and poll array together through items that come
\* and go, and every item gets its turn.
PollLoopCorrect ==
    /\ [](RtTypeOK /\ PollSetExact /\ EntriesKept /\ HooksPaired)
    /\ MessagesHandled /\ FramesRead
=============================================================================
