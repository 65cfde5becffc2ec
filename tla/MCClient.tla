------------------------------ MODULE MCClient ------------------------------
(***************************************************************************)
(* What a client is built on: the event loop, the thread that runs it, the *)
(* operations of a connection, and the lock under which the first client   *)
(* starts a daemon.  Each is explored with the others at rest, as `part`   *)
(* says.                                                                   *)
(*                                                                         *)
(* A file, two timers and a deferred event, changed from callbacks and     *)
(* from another thread; application threads of each sort; two commands     *)
(* with a drain or with a stream, and a stream with a command of its own   *)
(* and two drains, any of which may be cancelled; and two processes, one   *)
(* with a blocking and a polling context.                                  *)
(***************************************************************************)
EXTENDS MainLoop, ThreadedMainloop, ClientContext, LockAutospawn

CONSTANTS p1, p2, x1, x2, x3, c1, c2, dr1, dr2, s1

MCProcessOf == [c \in {x1, x2, x3} |-> IF c = x3 THEN p2 ELSE p1]

MCApplications == {{c1, c2, dr1}, {c1, c2, s1}, {c2, dr1, dr2, s1}}

VARIABLE part

mcVars == <<part, mlVars, tmlVars, cxVars, laVars>>

MCInit ==
    /\ part \in {"mainloop", "threaded", "context", "autospawn"}
    /\ MlInit /\ TmlInit /\ CxInit /\ LaInit
    \* those at rest need one initial state only
    /\ part = "context" \/ op[dr2].st = "none"

MCNext ==
    \/ part = "mainloop" /\ MlNext /\ UNCHANGED <<part, tmlVars, cxVars, laVars>>
    \/ part = "threaded" /\ TmlNext /\ UNCHANGED <<part, mlVars, cxVars, laVars>>
    \/ part = "context" /\ CxNext /\ UNCHANGED <<part, mlVars, tmlVars, laVars>>
    \/ part = "autospawn" /\ LaNext /\ UNCHANGED <<part, mlVars, tmlVars, cxVars>>

MCSpec ==
    /\ MCInit /\ [][MCNext]_mcVars
    /\ WF_mlVars(part = "mainloop" /\ Loop)
    /\ WF_tmlVars(part = "threaded" /\ WorkerNext)
    /\ WF_tmlVars(part = "threaded" /\ MainNext)
    /\ \A a \in Apps : /\ WF_tmlVars(part = "threaded" /\ AppNext(a))
                       /\ WF_tmlVars(part = "threaded" /\ AnswerArrives(a))
    /\ WF_cxVars(part = "context" /\ Written)
    /\ WF_cxVars(part = "context" /\ (Returns \/ DrainReturns))
    /\ \A o \in Cmds : WF_cxVars(part = "context" /\ Timeout(o))
    /\ \A s \in Streams : WF_cxVars(part = "context" /\ StreamTimeout(s))
    /\ \A p \in Procs : WF_laVars(part = "autospawn" /\ ThreadStep(p))
    /\ \A c \in Contexts : WF_laVars(part = "autospawn" /\ ContextStep(c))
=============================================================================
