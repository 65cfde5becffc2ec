---------------------------- MODULE IwabModules ----------------------------
(***************************************************************************)
(* pulsecore/module.c with the two iwab modules as what it loads: loading  *)
(* with every early return of pa__init, unloading by the user, by the      *)
(* message of a thread that failed, by the deferred request of a killed    *)
(* stream and at the end of the daemon.  All of it runs in the main        *)
(* thread, in calls that nest: unloading a sink kills or moves the streams *)
(* on it, a killed stream asks for its own module to be unloaded, and so   *)
(* on.  The daemon is therefore one record `c', and every function an      *)
(* operator from record to record.  Only the real-time threads of the      *)
(* sinks step in between.                                                  *)
(*                                                                         *)
(* The table of file descriptors is part of the state, because both        *)
(* modules close a descriptor in their cleanup.                            *)
(***************************************************************************)
EXTENDS Integers, Sequences, FiniteSets, SequencesExt

CONSTANTS MaxLoads,         \* bound on the attempts to load a module
          NFiles            \* size of the descriptor table

ASSUME ModulesAssumption == MaxLoads \in Nat /\ NFiles \in Nat \ {0, 1}

Insts == 1 .. MaxLoads
FdNumbers == 0 .. NFiles - 1
Free == -1
Daemon == 0

VARIABLES c,        \* the core with its modules, sinks and streams
          threads   \* the real-time thread of each sink

modVars == <<c, threads>>

\* Descriptor 0 is open in a daemon: it is /dev/null.
ModInit ==
    /\ c = [modules |-> <<>>, loads |-> 0, kind |-> [m \in Insts |-> "none"],
            pending |-> {}, deferred |-> FALSE, disallow |-> FALSE,
            sinks |-> {}, stream |-> [m \in Insts |-> 0], outq |-> {},
            files |-> [f \in FdNumbers |-> IF f = 0 THEN Daemon ELSE Free],
            fd |-> [m \in Insts |-> 0], leaked |-> {},
            state |-> "running", aborted |-> FALSE, stolen |-> FALSE,
            orphaned |-> FALSE]
    /\ threads = [m \in Insts |-> "none"]

\* The daemon goes on: it has not been aborted, and no stream has callbacks
\* into the freed memory of its module, after which anything may happen.
Running == c.state = "running" /\ ~ c.aborted /\ ~ c.orphaned

-----------------------------------------------------------------------------
(* Streams and sinks, as far as modules are concerned.                     *)

\* pa_module_unload_request(m, force): noted down for the next turn of the
\* main loop
UnloadRequest(d, m, force) ==
    IF d.disallow /\ ~ force THEN d
    ELSE [d EXCEPT !.pending = @ \cup {m}, !.deferred = TRUE]

\* sink_input_kill_cb of iwab-input
KillStream(d, m) == UnloadRequest([d EXCEPT !.stream[m] = 0], m, TRUE)

\* pa_sink_unlink: the streams are moved to the default sink, which is some
\* other one, or killed.
SinkUnlink(d, s) ==
    LET e == [d EXCEPT !.sinks = @ \ {s}]
        playing == {m \in Insts : d.stream[m] = s}
        default == CHOOSE t \in e.sinks : \A u \in e.sinks : t <= u
    IN  IF s \notin d.sinks THEN d
        ELSE IF e.sinks # {}
        THEN [e EXCEPT !.stream = [m \in Insts |-> IF m \in playing THEN default ELSE @[m]]]
        ELSE FoldLeft(KillStream, e, SetToSeq(playing))

-----------------------------------------------------------------------------
(* Descriptors                                                             *)

CloseFd(d, f, owner) ==
    [d EXCEPT !.files[f] = Free,
              !.aborted = @ \/ d.files[f] = Free,      \* close() fails, asserted
              !.stolen = @ \/ d.files[f] \notin {Free, owner}]

LowestFree(d) ==
    CHOOSE f \in FdNumbers :
        d.files[f] = Free /\ \A g \in FdNumbers : d.files[g] = Free => f <= g

iwab_open(d, m) ==
    LET f == LowestFree(d) IN [d EXCEPT !.files[f] = m, !.fd[m] = f]

\* It fails: before there is a socket, or after, and then the socket stays open
\* and its number is forgotten.
OpenFails(d, m) == {d, [d EXCEPT !.files[LowestFree(d)] = m, !.leaked = @ \cup {m}]}

-----------------------------------------------------------------------------
(* pa__done and module.c                                                   *)

\* iwab-sink's pa__done; the thread is ended by Join.  Flushing the queue of
\* the thread may dispatch a message to unload this module again, which finds
\* the module gone from the list.
SinkDone(d, m) == CloseFd([SinkUnlink(d, m) EXCEPT !.outq = @ \ {m}], d.fd[m], m)

\* iwab-input's pa__done frees the queue and closes the socket.  It does not
\* unlink the stream: one that still plays is left without its module.
InputDone(d, m) ==
    LET e == [d EXCEPT !.orphaned = @ \/ d.stream[m] # 0]
    IN  IF d.fd[m] # 0 THEN CloseFd(e, d.fd[m], m) ELSE e

Done(d, m) == IF d.kind[m] = "sink" THEN SinkDone(d, m) ELSE InputDone(d, m)

Bug_pa_module_free(d, m) == Done(d, m)

pa_module_free(d, m) ==
    LET e == Done(d, m) IN [e EXCEPT !.pending = @ \ {m}]

Without(s, m) == SelectSeq(s, LAMBDA i : i # m)

pa_module_unload(d, m, force) ==
    IF (d.disallow /\ ~ force) \/ ~ Contains(d.modules, m) THEN d
    ELSE pa_module_free([d EXCEPT !.modules = Without(@, m)], m)

\* In the reverse of the order of loading
pa_module_unload_all(d) ==
    LET e == FoldLeft(LAMBDA r, m : pa_module_unload(r, m, TRUE), d, Reverse(d.modules))
    IN  [e EXCEPT !.disallow = TRUE, !.deferred = FALSE]

\* Threads are joined by the pa__done of their sink.
Join(d) == [m \in Insts |-> IF threads[m] # "none" /\ ~ Contains(d.modules, m)
                            THEN "ended" ELSE threads[m]]

-----------------------------------------------------------------------------
(* pa_module_load                                                          *)

MayLoad == Running /\ c.loads < MaxLoads
           /\ \E f \in FdNumbers : c.files[f] = Free

\* The record for a new instance, entered into the list before its init runs
Entered(k) == [c EXCEPT !.loads = @ + 1, !.kind[c.loads + 1] = k,
                        !.modules = Append(@, c.loads + 1)]

\* pa_module_load's error path: pa__done is not called.
Failed(d) == [d EXCEPT !.modules = Without(@, c.loads + 1)]

\* Loading is refused
Refused == /\ MayLoad /\ c.disallow
           /\ c' = [c EXCEPT !.loads = @ + 1]
           /\ UNCHANGED threads

LoadSink ==
    LET m == c.loads + 1
        d == iwab_open(Entered("sink"), m)
    IN  /\ MayLoad /\ ~ c.disallow
        /\ c' = [d EXCEPT !.sinks = @ \cup {m}]
        /\ threads' = [threads EXCEPT ![m] = "running"]

\* The error path of iwab-sink calls pa__done with whatever has been set up.
\* There is no userdata before the arguments are parsed; istream is zero from
\* there on until iwab_open.
LoadSinkFails(why) ==
    LET m == c.loads + 1
        d == Entered("sink")
    IN  /\ MayLoad /\ ~ c.disallow
        /\ \/ why = "args" /\ c' = Failed(d)
           \/ why = "open" /\ \E e \in OpenFails(d, m) : c' = Failed(SinkDone(e, m))
           \/ why = "thread" /\ c' = Failed(SinkDone(iwab_open(d, m), m))
        /\ UNCHANGED threads

LoadInput(s) ==
    LET m == c.loads + 1
        d == iwab_open(Entered("input"), m)
    IN  /\ MayLoad /\ ~ c.disallow
        /\ c' = [d EXCEPT !.stream[m] = s]
        /\ UNCHANGED threads

\* The error path of iwab-input dereferences u although it may be NULL, and
\* reads istream.fd although it may never have been written: the memory is
\* not cleared, so its value is any descriptor number.  A stream that cannot be
\* made is noticed only if the memory for its address happens to be NULL.
LoadInputFails(why) ==
    LET m == c.loads + 1
        d == Entered("input")
    IN  /\ MayLoad /\ ~ c.disallow
        /\ \/ why = "args" /\ c' = Failed([d EXCEPT !.aborted = TRUE])
           \/ why = "open" /\ \E e \in OpenFails(d, m), f \in FdNumbers :
                 c' = Failed(IF f # 0 THEN CloseFd(e, f, m) ELSE e)
           \/ why = "nosink" /\ c.sinks = {}
              /\ c' = Failed(InputDone(iwab_open(d, m), m))
           \/ why = "new" /\ c.sinks # {}
              /\ \/ c' = Failed(InputDone(iwab_open(d, m), m))
                 \/ c' = [iwab_open(d, m) EXCEPT !.aborted = TRUE]
        /\ UNCHANGED threads

-----------------------------------------------------------------------------
(* Unloading                                                               *)

Playing(m) == c.stream[m] # 0
Loaded == ToSet(c.modules)

\* The user unloads a module, from a client or the command line.
UserUnload(m) ==
    /\ Running /\ m \in Loaded
    /\ c' = pa_module_unload(c, m, FALSE)
    /\ threads' = Join(c')

\* The user kills a stream.
UserKill(m) ==
    /\ Running /\ Playing(m)
    /\ c' = KillStream(c, m)
    /\ UNCHANGED threads

\* From now on modules can neither be loaded nor unloaded by the user.
Disallow ==
    /\ Running /\ ~ c.disallow
    /\ c' = [c EXCEPT !.disallow = TRUE]
    /\ UNCHANGED threads

defer_cb ==
    /\ Running /\ c.deferred
    /\ c' = FoldLeft(LAMBDA d, m : pa_module_unload(d, m, TRUE),
                     [c EXCEPT !.deferred = FALSE], SetToSeq(c.pending))
    /\ threads' = Join(c')

\* PA_CORE_MESSAGE_UNLOAD_MODULE from the thread of sink m
core_process_msg(m) ==
    /\ Running /\ m \in c.outq
    /\ c' = pa_module_unload([c EXCEPT !.outq = @ \ {m}], m, TRUE)
    /\ threads' = Join(c')

\* main() after the main loop: pa_module_unload_all, then core_free
Shutdown ==
    LET d == pa_module_unload_all(c) IN
    /\ Running
    /\ c' = [d EXCEPT !.state = "freed"]
    /\ threads' = Join(c')

\* thread_func fails: it asks for its module to be unloaded and goes on
\* handling messages.
ThreadFails(m) ==
    /\ threads[m] = "running" /\ Running
    /\ threads' = [threads EXCEPT ![m] = "failed"]
    /\ c' = [c EXCEPT !.outq = @ \cup {m}]

MainLoop == defer_cb \/ \E m \in Insts : core_process_msg(m)

ModNext ==
    \/ Refused \/ LoadSink
    \/ \E w \in {"args", "open", "thread"} : LoadSinkFails(w)
    \/ \E s \in c.sinks : LoadInput(s)
    \/ \E w \in {"args", "open", "nosink", "new"} : LoadInputFails(w)
    \/ \E m \in Insts : UserUnload(m) \/ UserKill(m) \/ ThreadFails(m)
    \/ Disallow \/ MainLoop \/ Shutdown

ModSpec == ModInit /\ [][ModNext]_modVars /\ WF_modVars(MainLoop)

-----------------------------------------------------------------------------
(* Properties                                                              *)

ModTypeOK ==
    /\ Loaded \subseteq Insts /\ c.pending \subseteq Insts /\ c.sinks \subseteq Insts
    /\ IsInjective(c.modules)
    /\ threads \in [Insts -> {"none", "running", "failed", "ended"}]

\* What follows holds as long as the daemon has not been aborted and no stream
\* is left without its module; OnlyKnownDamage says when that happens.
Undamaged == ~ c.aborted /\ ~ c.orphaned

\* A module that waits to be unloaded is loaded, and the main loop has been
\* told to come back for it.  A stale entry of modules_pending_unload would
\* make defer_cb unload freed memory, or loop for ever.
PendingAreLoaded ==
    Undamaged => c.pending \subseteq Loaded /\ (c.pending # {} => c.deferred)

\* A stream, a sink and a thread exist only for a module that is loaded,
\* whatever way it was unloaded or its init failed; so does a socket, unless
\* iwab_open failed and left it open, or somebody's descriptor was closed by
\* the error path of a load.
NothingLeftBehind ==
    Undamaged =>
        /\ \A m \in Insts : Playing(m) => m \in Loaded /\ c.stream[m] \in c.sinks
        /\ c.sinks \subseteq Loaded
        /\ \A m \in Insts : threads[m] \in {"running", "failed"} => m \in Loaded
        /\ c.stolen \/ \A f \in FdNumbers :
               c.files[f] \in Loaded \cup c.leaked \cup {Free, Daemon}

\* core_free: pa_assert that modules, sinks, sink inputs and
\* modules_pending_unload are empty.
CoreFreeAsserts ==
    c.state = "freed" /\ Undamaged =>
        /\ Loaded = {} /\ c.sinks = {} /\ c.pending = {}
        /\ \A m \in Insts : ~ Playing(m)

\* Two things do damage, and nothing else: a load that fails before its socket
\* is open, where the error path follows a NULL pointer or closes descriptor 0
\* or any other (and once that has happened, a later pa__done may close a
\* descriptor that is not open), or that uses a stream which was not
\* made; and unloading iwab-input, by the user or at the end of the daemon,
\* while its stream plays, which pa__done does not unlink.  A load that fails
\* otherwise returns an error and the daemon goes on; a killed stream, a failed
\* thread and a sink that goes do no harm to anybody.
OnlyKnownDamage ==
    [][ /\ ~ c.stolen /\ (c'.stolen \/ c'.aborted) =>
             \/ LoadSinkFails("open")
             \/ \E w \in {"args", "open", "new"} : LoadInputFails(w)
        /\ ~ c.orphaned /\ c'.orphaned =>
             /\ Shutdown \/ \E m \in Insts : UserUnload(m)
             /\ \E m \in Loaded : c.kind[m] = "input" /\ Playing(m) ]_modVars

\* A module whose real-time thread failed is unloaded, even when the user may
\* no longer unload modules.
FailedIsUnloaded ==
    <>[](~ Undamaged \/ \A m \in Insts : threads[m] # "failed")

\* The same for the module of a stream that was killed.
KilledIsUnloaded ==
    <>[](~ Undamaged \/ c.pending \cap Loaded = {})

\* Modules come and go without leaving anything behind, whoever unloads them
\* and wherever their init fails, but for the damage that OnlyKnownDamage
\* names and the socket of a failed iwab_open; one that has to go does.
ModulesCorrect ==
    /\ [](ModTypeOK /\ PendingAreLoaded /\ NothingLeftBehind /\ CoreFreeAsserts)
    /\ OnlyKnownDamage /\ FailedIsUnloaded /\ KilledIsUnloaded
=============================================================================
