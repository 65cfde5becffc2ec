----------------------------- MODULE MsgChannel -----------------------------
(***************************************************************************)
(* What a message queue between threads promises its users: messages come  *)
(* out in the order in which they were accepted, each exactly once.        *)
(* AsyncMsgQ implements this.                                              *)
(***************************************************************************)
EXTENDS Sequences

CONSTANT Message

VARIABLES queue,      \* accepted and not yet handed to the reader
          handled     \* what the reader was given, in order

chVars == <<queue, handled>>

ChInit == queue = <<>> /\ handled = <<>>

Put(m) == queue' = Append(queue, m) /\ UNCHANGED handled

Get == /\ queue # <<>>
       /\ handled' = Append(handled, Head(queue))
       /\ queue' = Tail(queue)

ChNext == Get \/ \E m \in Message : Put(m)

ChSpec == ChInit /\ [][ChNext]_chVars
=============================================================================
