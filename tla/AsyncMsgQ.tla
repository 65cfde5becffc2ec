----------------------------- MODULE AsyncMsgQ -----------------------------
(***************************************************************************)
(* pulsecore/asyncq.c and asyncmsgq.c: a ring of cells that one reader and *)
(* one writer use without a lock, a local queue of the writer for what the *)
(* ring has no room for, and on top of it the mutex that lets several      *)
(* threads write and the semaphore a synchronous sender waits on.          *)
(*                                                                         *)
(* The reader runs the loop of a real-time thread (rtpoll.c) or of the     *)
(* main loop (thread-mq.c): get and handle messages until there are none,  *)
(* then read_before_poll, poll(), read_after_poll.  A writer that is in    *)
(* use.pollers also looks after the local queue: in every iteration of its *)
(* loop if it is a real-time thread, and only when the file descriptor     *)
(* becomes readable if it is a main loop (use.mainloop), as                *)
(* pa_thread_mq_init arranges it.                                          *)
(*                                                                         *)
(* read_fdsem and write_fdsem are the semaphores of module Semaphore,      *)
(* which FdSem implements.                                                 *)
(***************************************************************************)
EXTENDS Naturals, Sequences, SequencesExt

CONSTANTS Writers,   \* threads that post and send
          Uses,      \* who of them writes, and who looks after the queue
          Size,      \* cells of the ring
          MaxMsgs,   \* bound: messages per writer
          NULL

ASSUME QueueSizeAssumption ==
    /\ Uses \subseteq [quota : [Writers -> 0 .. MaxMsgs], pollers : SUBSET Writers,
                       mainloop : BOOLEAN]
    /\ Size \in Nat \ {0}
    /\ MaxMsgs \in Nat

Message == [from : Writers, nr : 1 .. MaxMsgs, sync : BOOLEAN]

VARIABLES use,        \* the one of Uses at hand: messages each writer may submit,
                      \* those that flush the local queue, in a main loop or not
          cells, read_idx, write_idx,  \* struct pa_asyncq
          localq,                      \* oldest first: last_localq is its head
          read_fdsem, write_fdsem,
          waiting_for_post,
          mutex,
          wpc,        \* where each writer is
          call,       \* the function it is in: "post", "send" or "poll"
          item,       \* the entry push() is about to store
          idx,        \* the cell push() has chosen
          sent,       \* messages each writer has submitted
          replied,    \* the semaphore of its pa_asyncmsgq_send
          rpc,        \* where the reader is
          current,    \* the message the reader handles
          handled     \* history: messages given to the reader

ringVars == <<cells, read_idx, write_idx, localq, waiting_for_post>>
semVars == <<read_fdsem, write_fdsem>>
writerVars == <<mutex, wpc, call, item, idx, sent>>
readerVars == <<rpc, current, handled>>
qVars == <<use, ringVars, semVars, writerVars, replied, readerVars>>

reduce(n) == n % Size

QInit ==
    /\ use \in Uses
    /\ cells = [i \in 0 .. Size - 1 |-> NULL]
    /\ read_idx = 0 /\ write_idx = 0
    /\ localq = <<>> /\ waiting_for_post = FALSE
    /\ read_fdsem = 0 /\ write_fdsem = 0
    /\ mutex = NULL
    \* pa_thread_mq_init calls write_before_poll once
    /\ wpc = [w \in Writers |->
                IF use.mainloop /\ w \in use.pollers THEN "flush" ELSE "idle"]
    /\ call = [w \in Writers |-> "poll"]
    /\ item = [w \in Writers |-> NULL]
    /\ idx = [w \in Writers |-> 0]
    /\ sent = [w \in Writers |-> 0]
    /\ replied = [w \in Writers |-> 0]
    /\ rpc = "get" /\ current = NULL /\ handled = <<>>

-----------------------------------------------------------------------------
(* A writer.  Submitted(w) is the message of its current call.             *)

Submitted(w) == [from |-> w, nr |-> sent[w], sync |-> call[w] = "send"]

Goto(w, at) == wpc' = [wpc EXCEPT ![w] = at]

\* pa_asyncmsgq_post and pa_asyncmsgq_send begin
Submit(w, f) ==
    /\ wpc[w] = "idle"
    \* a real-time thread asleep in poll() submits nothing
    /\ ~(w \in use.pollers /\ waiting_for_post /\ ~use.mainloop)
    /\ sent[w] < use.quota[w]
    /\ sent' = [sent EXCEPT ![w] = @ + 1]
    /\ call' = [call EXCEPT ![w] = f]
    /\ Goto(w, "lock")
    /\ UNCHANGED <<ringVars, semVars, mutex, item, idx, replied, readerVars>>

Bug_Lock(w) ==
    /\ wpc[w] = "lock"
    /\ Goto(w, "flush")
    /\ UNCHANGED <<ringVars, semVars, mutex, call, item, idx, sent, replied,
                   readerVars>>

Lock(w) ==
    /\ wpc[w] = "lock" /\ mutex = NULL
    /\ mutex' = w
    /\ Goto(w, "flush")
    /\ UNCHANGED <<ringVars, semVars, call, item, idx, sent, replied, readerVars>>

\* pa_asyncq_write_before_poll begins.  It takes no mutex.
BeforePoll(w) ==
    /\ w \in use.pollers /\ wpc[w] = "idle" /\ ~waiting_for_post
    /\ ~use.mainloop
    /\ call' = [call EXCEPT ![w] = "poll"]
    /\ Goto(w, "flush")
    /\ UNCHANGED <<ringVars, semVars, mutex, item, idx, sent, replied, readerVars>>

\* flush_postq takes the oldest local entry; when there is none, a post or
\* send goes on with its own message.
FlushLocal(w) ==
    /\ wpc[w] = "flush" /\ localq # <<>>
    /\ item' = [item EXCEPT ![w] = Head(localq)]
    /\ idx' = [idx EXCEPT ![w] = reduce(write_idx)]
    /\ Goto(w, "store")
    /\ UNCHANGED <<ringVars, semVars, mutex, call, sent, replied, readerVars>>

NothingLocal(w) ==
    /\ wpc[w] = "flush" /\ localq = <<>>
    /\ IF call[w] = "poll"
       THEN Goto(w, "idle") /\ UNCHANGED <<item, idx>>
       ELSE /\ item' = [item EXCEPT ![w] = Submitted(w)]
            /\ idx' = [idx EXCEPT ![w] = reduce(write_idx)]
            /\ Goto(w, "store")
    /\ UNCHANGED <<ringVars, semVars, mutex, call, sent, replied, readerVars>>

\* push: the cmpxchg of the cell
Store(w) ==
    /\ wpc[w] = "store" /\ cells[idx[w]] = NULL
    /\ cells' = [cells EXCEPT ![idx[w]] = item[w]]
    /\ Goto(w, "publish")
    /\ UNCHANGED <<read_idx, write_idx, localq, waiting_for_post, semVars, mutex,
                   call, item, idx, sent, replied, readerVars>>

\* The ring is full: send waits, post queues locally, before_poll announces
\* that it waits for room.
QueueLocally(w) ==
    /\ wpc[w] = "store" /\ cells[idx[w]] # NULL /\ call[w] = "post"
    /\ localq' = Append(localq, Submitted(w))
    /\ Goto(w, "unlock")
    /\ UNCHANGED <<cells, read_idx, write_idx, waiting_for_post, semVars, mutex,
                   call, item, idx, sent, replied, readerVars>>

WaitForRoom(w) ==
    /\ wpc[w] = "store" /\ cells[idx[w]] # NULL /\ call[w] = "send"
    /\ read_fdsem = 1 /\ read_fdsem' = 0
    /\ UNCHANGED <<ringVars, write_fdsem, writerVars, replied, readerVars>>

PollForRoom(w) ==
    /\ wpc[w] = "store" /\ cells[idx[w]] # NULL /\ call[w] = "poll"
    /\ read_fdsem' = 0
    /\ IF read_fdsem = 1
       THEN Goto(w, "flush") /\ UNCHANGED waiting_for_post
       ELSE Goto(w, "idle") /\ waiting_for_post' = TRUE
    /\ UNCHANGED <<cells, read_idx, write_idx, localq, write_fdsem, mutex, call,
                   item, idx, sent, replied, readerVars>>

\* The rest of push: write_idx++ and the post that wakes the reader
Publish(w) ==
    /\ wpc[w] = "publish"
    /\ write_idx' = reduce(write_idx + 1)
    /\ write_fdsem' = 1
    /\ Goto(w, IF localq # <<>> /\ item[w] = Head(localq) THEN "unlink" ELSE "unlock")
    /\ UNCHANGED <<cells, read_idx, localq, waiting_for_post, read_fdsem,
                   mutex, call, item, idx, sent, replied, readerVars>>

\* flush_postq removes the entry it has pushed
Unlink(w) ==
    /\ wpc[w] = "unlink"
    /\ localq' = IF localq # <<>> /\ Head(localq) = item[w]
                 THEN Tail(localq) ELSE localq
    /\ Goto(w, "flush")
    /\ UNCHANGED <<cells, read_idx, write_idx, waiting_for_post, semVars, mutex,
                   call, item, idx, sent, replied, readerVars>>

Unlock(w) ==
    /\ wpc[w] = "unlock"
    /\ mutex' = NULL
    /\ Goto(w, IF call[w] = "send" THEN "wait" ELSE "idle")
    /\ UNCHANGED <<ringVars, semVars, call, item, idx, sent, replied, readerVars>>

\* pa_semaphore_wait: pa_asyncmsgq_send returns
SendReturns(w) ==
    /\ wpc[w] = "wait" /\ replied[w] > 0
    /\ replied' = [replied EXCEPT ![w] = @ - 1]
    /\ Goto(w, "idle")
    /\ UNCHANGED <<ringVars, semVars, mutex, call, item, idx, sent, readerVars>>

\* pa_asyncq_write_after_poll at the end of the poll() of an rtpoll loop, or in
\* the callback of a main loop, which then calls write_before_poll again
AfterPoll(w) ==
    /\ w \in use.pollers /\ wpc[w] = "idle" /\ waiting_for_post
    /\ read_fdsem' = 0 /\ waiting_for_post' = FALSE
    /\ IF use.mainloop
       THEN Goto(w, "flush") /\ call' = [call EXCEPT ![w] = "poll"]
       ELSE UNCHANGED <<wpc, call>>
    /\ UNCHANGED <<cells, read_idx, write_idx, localq, write_fdsem, mutex, item,
                   idx, sent, replied, readerVars>>

\* What a writer does without being asked
WriterDuties(w) ==
    \/ Lock(w) \/ BeforePoll(w) \/ FlushLocal(w) \/ NothingLocal(w) \/ Store(w)
    \/ QueueLocally(w) \/ WaitForRoom(w) \/ PollForRoom(w) \/ Publish(w)
    \/ Unlink(w) \/ Unlock(w) \/ SendReturns(w)
    \/ read_fdsem = 1 /\ AfterPoll(w)

\* poll() may also end for another reason
Writer(w) ==
    \/ WriterDuties(w)
    \/ ~use.mainloop /\ AfterPoll(w)
    \/ \E f \in {"post", "send"} : Submit(w, f)

-----------------------------------------------------------------------------
(* The reader.                                                             *)

Rgoto(at) == rpc' = at

\* pa_asyncq_pop without waiting: load the cell
PopLoad ==
    /\ rpc = "get"
    /\ Rgoto(IF cells[reduce(read_idx)] = NULL THEN "before" ELSE "clear")
    /\ UNCHANGED <<ringVars, semVars, writerVars, replied, current, handled>>

\* ... take the entry out of the cell
PopClear ==
    /\ rpc = "clear"
    /\ current' = cells[reduce(read_idx)]
    /\ handled' = Append(handled, current')
    /\ cells' = [cells EXCEPT ![reduce(read_idx)] = NULL]
    /\ Rgoto("advance")
    /\ UNCHANGED <<read_idx, write_idx, localq, waiting_for_post, semVars,
                   writerVars, replied>>

\* ... read_idx++ and the post that tells the writer there is room
PopAdvance ==
    /\ rpc = "advance"
    /\ read_idx' = reduce(read_idx + 1)
    /\ read_fdsem' = 1
    /\ Rgoto("done")
    /\ UNCHANGED <<cells, write_idx, localq, waiting_for_post, write_fdsem,
                   writerVars, replied, current, handled>>

\* The message has been dispatched; pa_asyncmsgq_done wakes its sender
Done ==
    /\ rpc = "done"
    /\ replied' = IF current.sync
                  THEN [replied EXCEPT ![current.from] = @ + 1] ELSE replied
    /\ current' = NULL
    /\ Rgoto("get")
    /\ UNCHANGED <<ringVars, semVars, writerVars, handled>>

\* pa_asyncq_pop that may wait (pa_asyncmsgq_wait_for)
PopWait ==
    /\ rpc = "wait"
    /\ write_fdsem = 1 /\ write_fdsem' = 0
    /\ Rgoto(IF cells[reduce(read_idx)] = NULL THEN "wait" ELSE "clear")
    /\ UNCHANGED <<ringVars, read_fdsem, writerVars, replied, current, handled>>

WaitFor ==
    /\ rpc = "get" /\ cells[reduce(read_idx)] = NULL
    /\ Rgoto("wait")
    /\ UNCHANGED <<ringVars, semVars, writerVars, replied, current, handled>>

\* pa_asyncq_read_before_poll
ReadBeforePoll ==
    /\ rpc = "before"
    /\ Rgoto(IF cells[reduce(read_idx)] # NULL THEN "get" ELSE "sleep")
    /\ UNCHANGED <<ringVars, semVars, writerVars, replied, current, handled>>

EnterPoll ==
    /\ rpc = "sleep"
    /\ write_fdsem' = 0
    /\ Rgoto(IF write_fdsem = 1 THEN "before" ELSE "poll")
    /\ UNCHANGED <<ringVars, read_fdsem, writerVars, replied, current, handled>>

\* poll() returns, and read_after_poll
ReadAfterPoll ==
    /\ rpc = "poll"
    /\ write_fdsem' = 0
    /\ Rgoto("get")
    /\ UNCHANGED <<ringVars, read_fdsem, writerVars, replied, current, handled>>

ReaderDuties ==
    \/ PopLoad \/ PopClear \/ PopAdvance \/ Done \/ PopWait \/ WaitFor
    \/ ReadBeforePoll \/ EnterPoll
    \/ write_fdsem = 1 /\ ReadAfterPoll

Reader == ReaderDuties \/ ReadAfterPoll

QNext ==
    /\ Reader \/ \E w \in Writers : Writer(w)
    /\ UNCHANGED use

\* The reader's loop and every call that has begun are scheduled, a sleeper
\* that was posted to wakes up, and real-time pollers keep looping.
QSpec ==
    /\ QInit /\ [][QNext]_qVars
    /\ WF_qVars(ReaderDuties /\ UNCHANGED use)
    /\ \A w \in Writers : WF_qVars(WriterDuties(w) /\ UNCHANGED use)

-----------------------------------------------------------------------------
(* Properties                                                              *)

QTypeOK ==
    /\ cells \in [0 .. Size - 1 -> Message \cup {NULL}]
    /\ read_idx \in 0 .. Size - 1 /\ write_idx \in 0 .. Size - 1
    /\ localq \in Seq(Message) /\ waiting_for_post \in BOOLEAN
    /\ {read_fdsem, write_fdsem} \subseteq {0, 1}
    /\ mutex \in Writers \cup {NULL}
    /\ \A w \in Writers : replied[w] \in 0 .. 1
    /\ current \in Message \cup {NULL}

\* The cells from the one the reader reads next on
Ring ==
    LET first == IF rpc = "advance" THEN read_idx + 1 ELSE read_idx
        NotNull(c) == c # NULL
    IN  SelectSeq([k \in 1 .. Size |-> cells[reduce(first + k - 1)]], NotNull)

\* The local entries that are not already in the ring as well
Waiting ==
    IF \E w \in Writers : /\ wpc[w] \in {"publish", "unlink"}
                          /\ localq # <<>> /\ item[w] = Head(localq)
    THEN Tail(localq) ELSE localq

Channel == INSTANCE MsgChannel WITH queue <- Ring \o Waiting

\* Ring and local queue together are one first-in-first-out queue: nothing is
\* lost, duplicated or overtaken, whatever the two sides are in the middle of
\* (asyncq.c push, flush_postq and pop).
ImplementsChannel == Channel!ChSpec

\* pa_asyncmsgq_send cannot return before its message has been handled: the
\* semaphore is posted only for the message its owner waits for.
ReplyMatches ==
    \A w \in Writers : replied[w] > 0 =>
        /\ wpc[w] \in {"publish", "unlock", "wait"} /\ call[w] = "send"
        /\ \E i \in DOMAIN handled : handled[i] = Submitted(w)

\* Every message a real-time thread submitted is handled in the end: no wake-up
\* is lost on either side, and what was queued locally is pushed later, as
\* pa_asyncq_post says.  (A main loop's local queue waits for its next post or
\* the next wake-up, and that of a thread that does not poll for its next post.)
SubmittedIsHandled ==
    \A w \in Writers :
        w \in use.pollers /\ ~use.mainloop =>
            <>[](\A k \in 1 .. sent[w] :
                    \E i \in DOMAIN handled : handled[i].from = w /\ handled[i].nr = k)

\* pa_asyncmsgq as its users know it: first in, first out and each message
\* once, the answer of a synchronous send is the one to that send, and what was
\* posted is handled.
MessageQueueCorrect ==
    [](QTypeOK /\ ReplyMatches) /\ ImplementsChannel /\ SubmittedIsHandled
=============================================================================
