---------------------------- MODULE ClientContext ----------------------------
(***************************************************************************)
(* Operations of a client connection: pulse/context.c, pulse/operation.c   *)
(* and the dispatcher of replies, pulsecore/pdispatch.c.                   *)
(*                                                                         *)
(* A command goes out through the packet stream and leaves a registered    *)
(* reply behind; its operation is done when the reply, an error or a       *)
(* timeout has been dispatched, or is cancelled before.  A drain is done   *)
(* when nothing is queued and no reply is outstanding.  The application    *)
(* calls the library from its own code and from the callbacks.             *)
(*                                                                         *)
(* Each member of Cmds is a command and its operation, StreamCmds those    *)
(* that belong to a stream, Drains are operations of pa_context_drain, and *)
(* Stream, when there is one, is a stream that is being disconnected: its  *)
(* outstanding reply has the stream itself as userdata, no operation.      *)
(***************************************************************************)
EXTENDS Integers, Sequences, FiniteSets

CONSTANTS Cmds, StreamCmds, Drains, Streams, NoOperation,
          Applications   \* bound: which of them an application has a use for,
                         \* as sets of commands, drains and streams

ASSUME ContextAssumption ==
  /\ StreamCmds \subseteq Cmds /\ Cmds \intersect Drains = {}
  /\ Streams \intersect (Cmds \union Drains) = {}
  /\ Applications \subseteq SUBSET (Cmds \union Drains \union Streams)

Ops  == Cmds \union Drains
Tags == Cmds \union Streams

VARIABLES
  ctx,       \* state of the context
  op,        \* the operations
  held,      \* those the application has a reference to
  queue,     \* commands the packet stream has yet to write
  atServer,  \* commands that were written and not answered
  replies,   \* the registered replies, by the tag of their command
  timed,     \* the commands whose time to be answered is up
  pdDrain,   \* drain_userdata of the dispatcher
  psDrain,   \* ... and of the packet stream
  stream,    \* the streams: gone, ready or being disconnected
  current,   \* the operation whose callback runs
  called,    \* how often the callback of an operation was called
  stranded,  \* drains that lost the event they waited for: another drain took
             \* their callbacks, or stream_unlink dropped the last reply
  abort      \* an assertion has failed

cxVars == <<ctx, op, held, queue, atServer, replies, timed, pdDrain, psDrain, stream,
            current, called, stranded, abort>>

CxTypeOK ==
  /\ ctx \in {"ready", "failed", "terminated"}
  /\ op \in [Ops -> [st : {"none", "running", "done", "cancelled"}, cb : BOOLEAN,
                     link : BOOLEAN, ref : 0..4]]
  /\ held \subseteq Ops /\ queue \in Seq(Tags) /\ atServer \subseteq Tags
  /\ replies \subseteq Tags /\ timed \subseteq Tags
  /\ pdDrain \in Drains \union {NoOperation} /\ psDrain \in Drains \union {NoOperation}
  /\ stream \in [Streams -> {"ready", "closing", "gone"}]
  /\ current \in Ops \union {NoOperation} /\ called \in [Ops -> 0..2]
  /\ stranded \subseteq Drains /\ abort \in BOOLEAN

\* What an application has no use for is as good as done.
CxInit ==
  /\ ctx = "ready"
  /\ \E app \in Applications :
       /\ op = [o \in Ops |-> [st |-> IF o \in app THEN "none" ELSE "done",
                               cb |-> FALSE, link |-> FALSE, ref |-> 0]]
       /\ stream = [s \in Streams |-> IF s \in app THEN "ready" ELSE "gone"]
  /\ held = {} /\ queue = <<>> /\ atServer = {} /\ replies = {} /\ timed = {}
  /\ pdDrain = NoOperation /\ psDrain = NoOperation
  /\ current = NoOperation /\ called = [o \in Ops |-> 0]
  /\ stranded = {} /\ abort = FALSE

-----------------------------------------------------------------------------
(* Operations.                                                              *)

\* pa_operation_new: a reference for the caller, one for the context, and
\* one more for whom it is handed to.
NewOp == [st |-> "running", cb |-> TRUE, link |-> TRUE, ref |-> 3]

\* operation_set_state to done or cancelled, for those of S that run.
End(f, S, st) ==
  [o \in Ops |-> IF o \in S /\ f[o].st = "running"
                 THEN [st |-> st, cb |-> FALSE, link |-> FALSE, ref |-> f[o].ref - 1]
                 ELSE f[o]]

Unref(f, S) == [o \in Ops |-> IF o \in S THEN [f[o] EXCEPT !.ref = @ - 1] ELSE f[o]]

-----------------------------------------------------------------------------
(* The context.                                                             *)

\* context_unlink: the streams end, all operations are cancelled, the
\* dispatcher and the packet stream go.  The dispatcher lives on until
\* run_action lets go of it, with its drain callback; without one it is freed
\* with the replies that are still registered, and so are their references.
Unlink(st) ==
  /\ ctx' = st
  /\ stream' = [s \in Streams |-> "gone"]
  /\ queue' = <<>> /\ psDrain' = NoOperation
  /\ LET left == replies \ Streams IN
       IF current \in Cmds
       THEN /\ op' = End(op, Ops, "cancelled")
            /\ replies' = left /\ UNCHANGED pdDrain
       ELSE /\ op' = Unref(End(op, Ops, "cancelled"), left)
            /\ replies' = {} /\ pdDrain' = NoOperation

\* What the drain still waits for, after set_dispatch_callbacks(o); r and q
\* are the registered replies and the queue.
Waits(o, r, q) ==
  /\ pdDrain' = IF r # {} THEN o ELSE NoOperation
  /\ psDrain' = IF q # <<>> THEN o ELSE NoOperation

Idle  == ~abort /\ current = NoOperation
Calls == ~abort                      \* the application may call the library

\* Any command with a reply: pa_context_send_simple_command and its like.
Send(o) ==
  /\ Calls /\ ctx = "ready" /\ op[o].st = "none"
  /\ op' = [op EXCEPT ![o] = NewOp] /\ held' = held \union {o}
  /\ queue' = Append(queue, o) /\ replies' = replies \union {o}
  /\ UNCHANGED <<ctx, atServer, timed, pdDrain, psDrain, stream, current, called, abort, stranded>>

pa_context_drain(o) ==
  /\ Calls /\ ctx = "ready" /\ op[o].st = "none"
  /\ queue # <<>> \/ replies # {}
  /\ op' = [op EXCEPT ![o] = NewOp] /\ held' = held \union {o}
  /\ Waits(o, replies, queue)
  /\ stranded' = stranded \union ({pdDrain, psDrain} \ {NoOperation})
  /\ UNCHANGED <<ctx, queue, atServer, replies, timed, stream, current, called, abort>>

pa_operation_cancel(o) ==
  /\ Calls /\ o \in held /\ op[o].st = "running"
  /\ op' = End(op, {o}, "cancelled")
  /\ UNCHANGED <<ctx, held, queue, atServer, replies, timed, pdDrain, psDrain, stream, current, called, abort, stranded>>

pa_operation_unref(o) ==
  /\ Calls /\ o \in held /\ held' = held \ {o}
  /\ op' = Unref(op, {o})
  /\ UNCHANGED <<ctx, queue, atServer, replies, timed, pdDrain, psDrain, stream, current, called, abort, stranded>>

pa_stream_disconnect(s) ==
  /\ Calls /\ ctx = "ready" /\ stream[s] = "ready"
  /\ stream' = [stream EXCEPT ![s] = "closing"]
  /\ queue' = Append(queue, s) /\ replies' = replies \union {s}
  /\ UNCHANGED <<ctx, op, held, atServer, timed, pdDrain, psDrain, current, called, abort, stranded>>

pa_context_disconnect ==
  /\ Calls /\ ctx = "ready"
  /\ Unlink("terminated")
  /\ UNCHANGED <<held, atServer, timed, current, called, abort, stranded>>

-----------------------------------------------------------------------------
(* The loop's thread.                                                       *)

\* The packet stream has written a command; with nothing left to write it
\* calls its drain callback.
Written ==
  /\ Idle /\ queue # <<>>
  /\ queue' = Tail(queue) /\ atServer' = atServer \union {Head(queue)}
  /\ IF Tail(queue) = <<>> /\ psDrain # NoOperation
     THEN IF ~op[psDrain].link
          THEN abort' = TRUE /\ UNCHANGED <<op, pdDrain, psDrain, current, called>>
          ELSE /\ Waits(psDrain, replies, <<>>) /\ UNCHANGED abort
               /\ IF replies = {} THEN current' = psDrain /\ called' = [called EXCEPT ![psDrain] = @ + 1]
                  ELSE UNCHANGED <<current, called>>
               /\ UNCHANGED op
     ELSE UNCHANGED <<op, pdDrain, psDrain, current, called, abort>>
  /\ UNCHANGED <<ctx, held, replies, timed, stream, stranded>>

\* A cancelled operation's callback is called as well.
Bug_Dispatched(o) ==
  /\ replies' = replies \ {o} /\ current' = o
  /\ called' = [called EXCEPT ![o] = @ + 1]
  /\ UNCHANGED <<ctx, op, held, queue, pdDrain, psDrain, stream, abort>>

\* A reply or the timeout of a command is dispatched: the reply is no longer
\* registered, and its callback runs.  It calls the application unless the
\* operation was cancelled.
Dispatched(o) ==
  /\ replies' = replies \ {o} /\ current' = o
  /\ called' = [called EXCEPT ![o] = IF op[o].link /\ op[o].cb THEN @ + 1 ELSE @]
  /\ UNCHANGED <<ctx, op, held, queue, pdDrain, psDrain, stream, abort>>

\* pa_pdispatch_run for a reply.  One that comes after its timeout, or after
\* the connection has ended, finds nothing registered.
Reply(t) ==
  /\ Idle /\ t \in atServer /\ atServer' = atServer \ {t} /\ t \in Cmds
  /\ IF t \in replies /\ ctx = "ready" THEN Dispatched(t)
     ELSE UNCHANGED <<ctx, op, held, queue, replies, pdDrain, psDrain, stream, current, called, abort>>
  /\ UNCHANGED timed
  /\ UNCHANGED stranded

\* timeout_callback
Timeout(t) ==
  /\ Idle /\ t \in replies /\ t \in Cmds /\ ctx = "ready"
  /\ timed' = timed \union {t}
  /\ Dispatched(t) /\ UNCHANGED atServer
  /\ UNCHANGED stranded

\* A reply that cannot be parsed, or an error without a code: the callback
\* of the command fails the context and is not called.
BadReply(t) ==
  /\ Idle /\ t \in atServer /\ t \in replies /\ t \in Cmds /\ ctx = "ready"
  /\ op[t].link
  /\ atServer' = atServer \ {t}
  /\ ctx' = "failed" /\ stream' = [s \in Streams |-> "gone"]
  /\ queue' = <<>> /\ psDrain' = NoOperation
  /\ op' = End(op, Ops, "cancelled") /\ replies' = replies \ ({t} \union Streams)
  /\ current' = t
  /\ UNCHANGED <<held, timed, pdDrain, called, abort, stranded>>

\* The rest of run_action when the context is gone: the dispatcher, and what
\* is still registered, are freed.
Release(f) ==
  /\ op' = Unref(f, replies) /\ replies' = {} /\ pdDrain' = NoOperation

\* The callback of a command returns: its operation is done, its reference
\* goes, and run_action calls the drain callback if no reply is outstanding.
Returns ==
  /\ ~abort /\ current \in Cmds
  /\ LET f == Unref(End(op, {current}, "done"), {current}) IN
     IF pdDrain # NoOperation /\ replies = {}
     THEN IF ~f[pdDrain].link
          THEN abort' = TRUE /\ UNCHANGED <<op, current, called, pdDrain, psDrain, replies>>
          ELSE /\ Waits(pdDrain, {}, queue) /\ op' = f
               /\ IF queue = <<>> THEN current' = pdDrain /\ called' = [called EXCEPT ![pdDrain] = @ + 1]
                  ELSE current' = NoOperation /\ UNCHANGED called
               /\ UNCHANGED <<abort, replies>>
     ELSE /\ current' = NoOperation
          /\ IF ctx # "ready" THEN Release(f) /\ UNCHANGED psDrain
             ELSE op' = f /\ UNCHANGED <<replies, pdDrain, psDrain>>
          /\ UNCHANGED <<called, abort>>
  /\ UNCHANGED <<ctx, held, queue, atServer, timed, stream, stranded>>

\* The callback of a drain returns.
DrainReturns ==
  /\ ~abort /\ current \in Drains
  /\ op' = Unref(End(op, {current}, "done"), {current})
  /\ current' = NoOperation
  /\ UNCHANGED <<ctx, held, queue, atServer, replies, timed, pdDrain, psDrain, stream, called, abort, stranded>>

\* The reply to the disconnection of a stream, or its timeout: the stream
\* ends, and run_action goes on as for any other reply.
StreamEnds(s) ==
  /\ stream' = [stream EXCEPT ![s] = "gone"]
  /\ op' = End(op, StreamCmds, "cancelled")
  /\ replies' = replies \ {s}
  /\ IF pdDrain # NoOperation /\ replies' = {}
     THEN IF ~op[pdDrain].link THEN abort' = TRUE /\ UNCHANGED <<pdDrain, psDrain, current, called>>
          ELSE /\ Waits(pdDrain, {}, queue) /\ UNCHANGED abort
               /\ IF queue = <<>> THEN current' = pdDrain /\ called' = [called EXCEPT ![pdDrain] = @ + 1]
                  ELSE UNCHANGED <<current, called>>
     ELSE UNCHANGED <<pdDrain, psDrain, current, called, abort>>

StreamReply(s) ==
  /\ Idle /\ s \in atServer /\ atServer' = atServer \ {s}
  /\ IF s \in replies /\ ctx = "ready" THEN StreamEnds(s)
     ELSE UNCHANGED <<op, replies, pdDrain, psDrain, stream, current, called, abort>>
  /\ UNCHANGED <<ctx, held, queue, timed, stranded>>

StreamTimeout(s) ==
  /\ Idle /\ s \in replies /\ ctx = "ready" /\ timed' = timed \union {s}
  /\ StreamEnds(s)
  /\ UNCHANGED <<ctx, held, queue, atServer, stranded>>

\* The server kills a stream: stream_unlink cancels its operations and drops
\* its outstanding replies.
StreamKilled(s) ==
  /\ Idle /\ ctx = "ready" /\ stream[s] # "gone"
  /\ stream' = [stream EXCEPT ![s] = "gone"]
  /\ op' = End(op, StreamCmds, "cancelled")
  /\ replies' = replies \ {s}
  /\ stranded' = IF s \in replies /\ replies' = {}
                 THEN stranded \union ({pdDrain} \ {NoOperation}) ELSE stranded
  /\ UNCHANGED <<ctx, held, queue, atServer, timed, pdDrain, psDrain, current, called, abort>>

\* pstream_die_callback
ConnectionDies ==
  /\ Idle /\ ctx = "ready" /\ Unlink("failed")
  /\ UNCHANGED <<held, atServer, timed, current, called, abort, stranded>>

CxNext ==
  \/ \E o \in Cmds : Send(o) \/ Reply(o) \/ Timeout(o) \/ BadReply(o)
  \/ \E o \in Drains : pa_context_drain(o)
  \/ \E o \in Ops : pa_operation_cancel(o) \/ pa_operation_unref(o)
  \/ \E s \in Streams : pa_stream_disconnect(s) \/ StreamReply(s)
                         \/ StreamTimeout(s) \/ StreamKilled(s)
  \/ pa_context_disconnect
  \/ Written \/ Returns \/ DrainReturns
  \/ ConnectionDies

\* The loop's thread writes what is queued, callbacks return, and a reply
\* that has not come times out; nothing makes the server answer.
CxSpec ==
  /\ CxInit /\ [][CxNext]_cxVars
  /\ WF_cxVars(Written)
  /\ WF_cxVars((Returns \/ DrainReturns))
  /\ \A o \in Cmds : WF_cxVars(Timeout(o))
  /\ \A s \in Streams : WF_cxVars(StreamTimeout(s))

-----------------------------------------------------------------------------
\* No operation is freed while the dispatcher, the packet stream, the list of
\* the context or a running callback still leads to it, and none is kept when
\* nobody does (a reference is what each of them and the application hold).
\* A drain that the end of the context cancels keeps the reference that
\* set_dispatch_callbacks would have dropped.
RefsExact ==
  \A o \in Ops :
    LET has(b) == IF b THEN 1 ELSE 0
        known  == has(o \in held) + has(op[o].link) + has(o \in replies) + has(current = o)
    IN  IF o \in Cmds THEN op[o].ref = known
        ELSE /\ op[o].ref >= known
             /\ o \in {pdDrain, psDrain} => op[o].ref > known
             /\ op[o].st = "done" => op[o].ref = known

\* A callback is called at most once, and never after its operation has been
\* cancelled: "it will make sure that the callback associated with this
\* operation will not be called anymore" (operation.h).
CalledOnceUncancelled ==
  [][\A o \in Ops : called'[o] # called[o] => called[o] = 0 /\ op[o].st = "running"]_cxVars

\* The assertions of set_dispatch_callbacks, that the operation of a drain which
\* is called back still belongs to a context, fail in one case only: the drain
\* was cancelled while it waited, by pa_operation_cancel or because the
\* connection ended in the callback of the last outstanding reply or through
\* it.  A drain that is done is never called back.
DrainAssertions ==
  abort => \E o \in Drains : o \in {pdDrain, psDrain} /\ op[o].st = "cancelled"

\* Every command comes to an end, through its reply, its timeout, its
\* cancellation or the end of the connection.
CommandsEnd == <>[](abort \/ \A o \in Cmds : op[o].st # "running")

\* Every drain comes to an end too, whatever is sent, answered or timed out in
\* the meantime, except one that another drain has replaced, or whose last
\* outstanding reply was dropped with its stream: stream_unlink does not tell
\* the dispatcher's drain callback.
DrainsEnd == <>[](abort \/ \A o \in Drains \ stranded : op[o].st # "running")

\* An operation ends once, by its reply, its timeout or the end of the
\* connection, unless it was cancelled, and its references are all given back;
\* drains do so but for the cases DrainAssertions and DrainsEnd name.
OperationsCorrect ==
    /\ [](CxTypeOK /\ RefsExact /\ DrainAssertions)
    /\ CalledOnceUncancelled
    /\ CommandsEnd /\ DrainsEnd
=============================================================================
