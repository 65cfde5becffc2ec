----------------------------- MODULE MCQueues ------------------------------
(***************************************************************************)
(* The primitives the threads share: the semaphore, the message queue, the *)
(* pool of pointers and the two-copy structure.  They do not interact, so  *)
(* the behaviours of each are explored with the others at rest: `part` is  *)
(* the one that moves, and the state graph is the union of the four.       *)
(***************************************************************************)
EXTENDS FdSem, AsyncMsgQ, FList, AUpdate

CONSTANTS w1, w2

\* Two threads that only write, a real-time thread that also polls, and a
\* main loop.
MCUses ==
    {[quota |-> (w1 :> 2 @@ w2 :> 2), pollers |-> {}, mainloop |-> FALSE],
     [quota |-> (w1 :> 4 @@ w2 :> 0), pollers |-> {w1}, mainloop |-> FALSE],
     [quota |-> (w1 :> 4 @@ w2 :> 0), pollers |-> {w1}, mainloop |-> TRUE]}

VARIABLE part

mcVars == <<part, fdVars, qVars, flVars, auVars>>

MCInit ==
    /\ part \in {"fdsem", "asyncmsgq", "flist", "aupdate"}
    /\ pa_fdsem_new /\ QInit /\ pa_flist_new /\ AuInit
    \* those at rest need one initial state only
    /\ part = "asyncmsgq" \/ use = CHOOSE u \in MCUses : TRUE
    /\ part = "flist" \/ \E t \in Threads : held[t] = Pointers /\ t = CHOOSE u \in Threads : TRUE

MCNext ==
    \/ part = "fdsem" /\ FdNext /\ UNCHANGED <<part, qVars, flVars, auVars>>
    \/ part = "asyncmsgq" /\ QNext /\ UNCHANGED <<part, fdVars, flVars, auVars>>
    \/ part = "flist" /\ FlNext /\ UNCHANGED <<part, fdVars, qVars, auVars>>
    \/ part = "aupdate" /\ AuNext /\ UNCHANGED <<part, fdVars, qVars, flVars>>

MCSpec ==
    /\ MCInit /\ [][MCNext]_mcVars
    /\ WF_fdVars(part = "fdsem" /\ OwnerDuties)
    /\ \A p \in Posters : WF_fdVars(part = "fdsem" /\ PosterDuties(p))
    /\ WF_qVars(part = "asyncmsgq" /\ ReaderDuties /\ UNCHANGED use)
    /\ \A w \in Writers : WF_qVars(part = "asyncmsgq" /\ WriterDuties(w) /\ UNCHANGED use)
    /\ \A r \in Readers : WF_auVars(part = "aupdate" /\ SectionDuties(r))
    /\ \A w \in Updaters : WF_auVars(part = "aupdate" /\ UpdaterDuties(w))
=============================================================================
