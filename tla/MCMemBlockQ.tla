----------------------------- MODULE MCMemBlockQ -----------------------------
(* Two small queues: one for the data, one for the attributes.             *)
EXTENDS MemBlockQ

\* Attributes that stay as they are, with and without prebuffering and
\* rewinding.
DataAttributes ==
    {[maxlength |-> 3, tlength |-> 2, prebuf |-> p, minreq |-> 1,
      maxrewind |-> 1] : p \in {0, 2}}
NoLengths == {}

AttrAttributes ==
    {[maxlength |-> 6, tlength |-> t, prebuf |-> 3, minreq |-> 1,
      maxrewind |-> 0] : t \in {0, 5}}
SomeLengths == {-1, 0, 1, 3, 5, 6}
=============================================================================
