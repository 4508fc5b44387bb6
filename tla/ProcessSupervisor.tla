------------------------- MODULE ProcessSupervisor -------------------------
(***************************************************************************)
(* The supervisor of the managed `dsh web` process: one start at a time,   *)
(* handles whose stop can be retried, and a disposal that must leave no    *)
(* process behind.                                                         *)
(*   apps/extension/src/backend/process-supervisor.ts                      *)
(*                                                                         *)
(* A call of start() is an element of Starters; the operation it begins,   *)
(* the child that operation spawns and the handle of that child carry its  *)
(* name.  Ports, output capture and error classification are left out.     *)
(* A definition named ...Bug is not part of the specification: it is a     *)
(* mistake that the definition after it could contain.                     *)
(***************************************************************************)
EXTENDS Naturals, FiniteSets

CONSTANTS
  Starters,   \* calls of start(runtime, signal)
  Disposers,  \* calls of dispose()
  None        \* undefined

ASSUME NoneAssumption == None \notin Starters

VARIABLES
  \* the fields of DshProcessSupervisor
  active,            \* the handle start() hands out again
  starting,          \* the call whose startOnce() is in flight
  failedStops,       \* handles whose stop is in progress or has failed
  failedStartup,     \* the child a failed start could not stop
  disposeRequested,
  disposal,          \* the disposeOnce() in progress
  \* one entry for each call of start()
  pc, on,            \* on: the handle it waits for, or the call it joined
  aborted,           \* the operation's startup controller
  \* one entry for each child and its handle
  child,             \* "none", "live" or "exited"
  handle,            \* start() made a handle of it
  stopping, stopped,
  \* one entry for each call of dispose()
  disposer

startVars == <<pc, on, aborted>>
handleVars == <<active, failedStops, stopping, stopped>>
vars == <<handleVars, starting, failedStartup, disposeRequested, disposal,
          startVars, child, handle, disposer>>

SpawnedPhases == {"ready", "initialize", "cleanup"}
StartPhases == {"retryStops", "awaitStop", "retryStartup", "arguments"} \cup SpawnedPhases
Answers == {"ok", "failed"}

NoDisposal == [phase |-> "none", waitsFor |-> None, todo |-> {},
               stop |-> None, failed |-> FALSE]

Init ==
  /\ active = None /\ starting = None /\ failedStops = {} /\ failedStartup = None
  /\ disposeRequested = FALSE /\ disposal = NoDisposal
  /\ pc = [c \in Starters |-> "new"] /\ on = [c \in Starters |-> None]
  /\ aborted = [c \in Starters |-> FALSE]
  /\ child = [c \in Starters |-> "none"] /\ handle = [c \in Starters |-> FALSE]
  /\ stopping = [c \in Starters |-> FALSE] /\ stopped = [c \in Starters |-> FALSE]
  /\ disposer = [d \in Disposers |-> "new"]

-----------------------------------------------------------------------------
(* handle.stop() *)

BeginStopBug(h) ==
  IF stopped[h] THEN UNCHANGED handleVars
  ELSE /\ active' = IF active = h THEN None ELSE active
       /\ stopped' = [stopped EXCEPT ![h] = TRUE]
       /\ stopping' = [stopping EXCEPT ![h] = TRUE]
       /\ UNCHANGED failedStops

\* A stop in progress is joined; one that succeeded is not repeated.  The
\* handle counts as a failed stop from the moment the stop begins.
BeginStop(h) ==
  IF stopping[h] \/ stopped[h]
  THEN UNCHANGED handleVars
  ELSE /\ stopped' = [stopped EXCEPT ![h] = TRUE]
       /\ active' = IF active = h THEN None ELSE active
       /\ failedStops' = failedStops \cup {h}
       /\ stopping' = [stopping EXCEPT ![h] = TRUE]

\* Anyone who holds a handle may stop it.
Stop(h) ==
  /\ handle[h] /\ ~stopped[h]
  /\ BeginStop(h)
  /\ UNCHANGED <<starting, failedStartup, disposeRequested, disposal,
                 startVars, child, handle, disposer>>

\* Settling a start: the calls that joined it get the same answer.
Answered(c, answer) ==
  [x \in Starters |->
     IF x = c \/ (pc[x] = "joined" /\ on[x] = c) THEN answer ELSE pc[x]]

\* stopChild() has seen the child exit, or has given up after its timers.
\* Whoever awaits this stop goes on: start() to the next handle, dispose() to
\* the next one on its list.
StopSettles(h) ==
  /\ stopping[h]
  /\ stopping' = [stopping EXCEPT ![h] = FALSE]
  /\ LET waiter == {c \in Starters : pc[c] = "awaitStop" /\ on[c] = h} IN
     \/ /\ child[h] = "exited"
        /\ failedStops' = failedStops \ {h}
        /\ pc' = [c \in Starters |-> IF c \in waiter THEN "retryStops" ELSE pc[c]]
        /\ disposal' = IF disposal.stop = h
                       THEN [disposal EXCEPT !.stop = None, !.todo = @ \ {h}]
                       ELSE disposal
        /\ UNCHANGED <<stopped, starting>>
     \/ /\ stopped' = [stopped EXCEPT ![h] = FALSE]
        /\ failedStops' = failedStops \cup {h}
        /\ pc' = IF starting \in waiter THEN Answered(starting, "failed") ELSE pc
        /\ starting' = IF starting \in waiter THEN None ELSE starting
        /\ disposal' = IF disposal.stop = h
                       THEN [disposal EXCEPT !.stop = None, !.todo = @ \ {h},
                                             !.failed = TRUE]
                       ELSE disposal
  /\ UNCHANGED <<active, failedStartup, disposeRequested, on, aborted, child,
                 handle, disposer>>

ChildExitsBug(c) ==
  /\ child[c] = "live"
  /\ child' = [child EXCEPT ![c] = "exited"]
  /\ UNCHANGED <<handleVars, starting, failedStartup, disposeRequested, disposal,
                 startVars, handle, disposer>>

\* A child exits, on its own or because it was told to.
ChildExits(c) ==
  /\ child[c] = "live"
  /\ child' = [child EXCEPT ![c] = "exited"]
  /\ active' = IF handle[c] /\ active = c THEN None ELSE active
  /\ failedStops' = IF handle[c] /\ ~stopping[c] THEN failedStops \ {c} ELSE failedStops
  /\ UNCHANGED <<starting, failedStartup, disposeRequested, disposal, startVars,
                 handle, stopping, stopped, disposer>>

-----------------------------------------------------------------------------
(* start() and startOnce() *)

StartUnchanged ==
  UNCHANGED <<failedStartup, disposeRequested, disposal, child, handle, disposer>>

\* Refused, answered from the active handle, joined, or begun.
Start(c) ==
  /\ pc[c] = "new"
  /\ \/ /\ disposeRequested
        /\ pc' = [pc EXCEPT ![c] = "failed"]
        /\ UNCHANGED <<on, starting>>
     \/ /\ ~disposeRequested /\ active # None
        /\ pc' = [pc EXCEPT ![c] = "ok"]
        /\ on' = [on EXCEPT ![c] = active]
        /\ UNCHANGED starting
     \/ /\ ~disposeRequested /\ active = None /\ starting # None
        /\ pc' = [pc EXCEPT ![c] = "joined"]
        /\ on' = [on EXCEPT ![c] = starting]
        /\ UNCHANGED starting
     \/ /\ ~disposeRequested /\ active = None /\ starting = None
        /\ IF aborted[c]
           THEN pc' = [pc EXCEPT ![c] = "failed"] /\ UNCHANGED starting
           ELSE pc' = [pc EXCEPT ![c] = "retryStops"] /\ starting' = c
        /\ UNCHANGED on
  /\ UNCHANGED <<handleVars, aborted>>
  /\ StartUnchanged

\* The caller's signal; the operation looks at it between its awaits.
Abort(c) ==
  /\ pc[c] \in {"new"} \cup StartPhases /\ ~aborted[c]
  /\ aborted' = [aborted EXCEPT ![c] = TRUE]
  /\ UNCHANGED <<handleVars, starting, pc, on>>
  /\ StartUnchanged

Goto(c, phase) == pc' = [pc EXCEPT ![c] = phase] /\ UNCHANGED starting

Fail(c) == pc' = Answered(c, "failed") /\ starting' = None

\* retryFailedStops(): each handle of the live set in turn.
RetryStop(c) ==
  /\ pc[c] = "retryStops"
  /\ \E h \in failedStops :
       /\ BeginStop(h)
       /\ on' = [on EXCEPT ![c] = h]
  /\ Goto(c, "awaitStop")
  /\ UNCHANGED aborted
  /\ StartUnchanged

StopsRetriedBug(c) ==
  /\ pc[c] = "retryStops"
  /\ IF disposeRequested THEN Fail(c) ELSE Goto(c, "retryStartup")
  /\ UNCHANGED <<handleVars, on, aborted>>
  /\ StartUnchanged

StopsRetried(c) ==
  /\ pc[c] = "retryStops" /\ failedStops = {}
  /\ IF disposeRequested THEN Fail(c) ELSE Goto(c, "retryStartup")
  /\ UNCHANGED <<handleVars, on, aborted>>
  /\ StartUnchanged

\* retryFailedStartupCleanup(), and the checks before the launch.
StartupRetried(c) ==
  /\ pc[c] = "retryStartup"
  /\ \/ /\ \A k \in Starters : k = failedStartup => child[k] = "exited"
        /\ failedStartup' = None
        /\ IF disposeRequested \/ aborted[c] THEN Fail(c) ELSE Goto(c, "arguments")
     \/ /\ failedStartup # None
        /\ UNCHANGED failedStartup
        /\ Fail(c)
  /\ UNCHANGED <<handleVars, on, aborted, disposeRequested, disposal, child,
                 handle, disposer>>

SpawnBug(c) ==
  /\ pc[c] = "arguments"
  /\ Goto(c, "ready")
  /\ child' = [child EXCEPT ![c] = "live"]
  /\ UNCHANGED <<handleVars, on, aborted, failedStartup, disposeRequested,
                 disposal, handle, disposer>>

\* The arguments are there; unless cancelled meanwhile, the child is spawned.
Spawn(c) ==
  /\ pc[c] = "arguments"
  /\ \/ Fail(c) /\ UNCHANGED child
     \/ /\ ~aborted[c]
        /\ Goto(c, "ready")
        /\ child' = [child EXCEPT ![c] = "live"]
  /\ UNCHANGED <<handleVars, on, aborted, failedStartup, disposeRequested,
                 disposal, handle, disposer>>

\* The endpoint line was read in time, or it was not.
Ready(c) ==
  /\ pc[c] = "ready"
  /\ \/ ~aborted[c] /\ Goto(c, "initialize")
     \/ Goto(c, "cleanup")
  /\ UNCHANGED <<handleVars, on, aborted>>
  /\ StartUnchanged

\* The endpoint is initialised and the handle made.  A child that has exited
\* meanwhile clears the active handle in the reaction registered last.
Initialized(c) ==
  /\ pc[c] = "initialize"
  /\ \/ /\ ~aborted[c] /\ ~disposeRequested
        /\ handle' = [handle EXCEPT ![c] = TRUE]
        /\ active' = IF child[c] = "exited" THEN None ELSE c
        /\ on' = [x \in Starters |->
                    IF x = c \/ (pc[x] = "joined" /\ on[x] = c) THEN c ELSE on[x]]
        /\ pc' = Answered(c, "ok")
        /\ starting' = None
     \/ Goto(c, "cleanup") /\ UNCHANGED <<handle, active, on>>
  /\ UNCHANGED <<failedStops, stopping, stopped, aborted, failedStartup,
                 disposeRequested, disposal, child, disposer>>

\* stopChild() for a child no handle was made of.
Cleanup(c) ==
  /\ pc[c] = "cleanup"
  /\ \/ child[c] = "exited" /\ UNCHANGED failedStartup
     \/ failedStartup' = c
  /\ Fail(c)
  /\ UNCHANGED <<handleVars, on, aborted, disposeRequested, disposal, child,
                 handle, disposer>>

StartStep(c) ==
  \/ RetryStop(c) \/ StopsRetried(c) \/ StartupRetried(c) \/ Spawn(c)
  \/ Ready(c) \/ Initialized(c) \/ Cleanup(c)

-----------------------------------------------------------------------------
(* dispose() and disposeOnce() *)

DisposalUnchanged ==
  UNCHANGED <<starting, pc, on, child, handle, disposeRequested>>

\* A disposal under way is joined; a later call starts a new one.
Dispose(d) ==
  /\ disposer[d] = "new"
  /\ disposer' = [disposer EXCEPT ![d] = "waiting"]
  /\ disposeRequested' = TRUE
  /\ IF disposal.phase # "none"
     THEN UNCHANGED <<disposal, aborted>>
     ELSE /\ disposal' = [NoDisposal EXCEPT !.phase = "awaitStart",
                                            !.waitsFor = starting]
          /\ aborted' = [c \in Starters |-> aborted[c] \/ c = starting]
  /\ UNCHANGED <<handleVars, failedStartup, starting, pc, on, child, handle>>

DisposeCollectBug ==
  /\ disposal.phase = "awaitStart"
  /\ disposal' = [disposal EXCEPT !.phase = "stopping",
                                  !.todo = failedStops \cup ({active} \ {None})]
  /\ UNCHANGED <<handleVars, failedStartup, aborted, disposer>>
  /\ DisposalUnchanged

DisposeCollectUndefinedBug ==
  /\ disposal.phase = "awaitStart"
  /\ \A c \in Starters : c = disposal.waitsFor => pc[c] \in Answers
  /\ disposal' = [disposal EXCEPT !.phase = "stopping", !.todo = failedStops \cup {active}]
  /\ UNCHANGED <<handleVars, failedStartup, aborted, disposer>>
  /\ DisposalUnchanged

\* The start in flight has settled; what has to be stopped is fixed now.
DisposeCollect ==
  /\ disposal.phase = "awaitStart"
  /\ \A c \in Starters : c = disposal.waitsFor => pc[c] \in Answers
  /\ disposal' = [disposal EXCEPT !.phase = "stopping",
                                  !.todo = failedStops \cup ({active} \ {None})]
  /\ UNCHANGED <<handleVars, failedStartup, aborted, disposer>>
  /\ DisposalUnchanged

DisposeStopBug(h) ==
  /\ disposal.phase = "stopping" /\ disposal.stop = None /\ h \in disposal.todo
  /\ BeginStop(h)
  /\ disposal' = [disposal EXCEPT !.stop = h]
  /\ UNCHANGED <<failedStartup, aborted, disposer>>
  /\ DisposalUnchanged

\* One handle after the other; a stop that succeeded meanwhile is not awaited.
DisposeStop(h) ==
  /\ disposal.phase = "stopping" /\ disposal.stop = None /\ h \in disposal.todo
  /\ BeginStop(h)
  /\ disposal' = IF stopped[h] /\ ~stopping[h]
                 THEN [disposal EXCEPT !.todo = @ \ {h}]
                 ELSE [disposal EXCEPT !.stop = h]
  /\ UNCHANGED <<failedStartup, aborted, disposer>>
  /\ DisposalUnchanged

\* The last child to stop is the one a failed start left, then all is said.
DisposeFinish ==
  /\ disposal.phase = "stopping" /\ disposal.todo = {}
  /\ \E failed \in BOOLEAN :
       /\ \/ /\ \A k \in Starters : k = failedStartup => child[k] = "exited"
             /\ failedStartup' = None
             /\ failed = disposal.failed
          \/ /\ failedStartup # None /\ UNCHANGED failedStartup
             /\ failed = TRUE
       /\ disposer' = [d \in Disposers |->
            IF disposer[d] = "waiting" THEN IF failed THEN "failed" ELSE "ok"
            ELSE disposer[d]]
  /\ disposal' = NoDisposal
  /\ UNCHANGED <<handleVars, aborted>>
  /\ DisposalUnchanged

DisposeStep ==
  \/ DisposeCollect
  \/ \E h \in Starters : DisposeStop(h)
  \/ DisposeFinish

-----------------------------------------------------------------------------
Next ==
  \/ \E c \in Starters : \/ Start(c) \/ Abort(c) \/ StartStep(c)
                         \/ ChildExits(c) \/ Stop(c) \/ StopSettles(c)
  \/ \E d \in Disposers : Dispose(d)
  \/ DisposeStep

Spec == Init /\ [][Next]_vars

\* Readiness, initialisation and the waits for an exit are bounded by timers; the
\* arguments callback and terminateTree() have none and are assumed to settle.
\* Nothing makes a child exit.
Fairness ==
  /\ \A c \in Starters : WF_vars(StartStep(c)) /\ WF_vars(StopSettles(c))
  /\ WF_vars(DisposeStep)

FairSpec == Spec /\ Fairness

-----------------------------------------------------------------------------
(* Properties. *)

TypeOK ==
  /\ active \in Starters \cup {None} /\ starting \in Starters \cup {None}
  /\ failedStops \subseteq Starters /\ failedStartup \in Starters \cup {None}
  /\ disposeRequested \in BOOLEAN
  /\ disposal \in [phase : {"none", "awaitStart", "stopping"},
                   waitsFor : Starters \cup {None}, todo : SUBSET Starters,
                   stop : Starters \cup {None}, failed : BOOLEAN]
  /\ pc \in [Starters -> {"new", "joined"} \cup StartPhases \cup Answers]
  /\ on \in [Starters -> Starters \cup {None}]
  /\ aborted \in [Starters -> BOOLEAN]
  /\ child \in [Starters -> {"none", "live", "exited"}]
  /\ handle \in [Starters -> BOOLEAN]
  /\ stopping \in [Starters -> BOOLEAN] /\ stopped \in [Starters -> BOOLEAN]
  /\ disposer \in [Disposers -> {"new", "waiting", "ok", "failed"}]

\* Every live child is one the supervisor can still reach to stop it: the
\* active one, one whose stop has not succeeded, the one a failed start left,
\* or the one a start is bringing up.
LiveChildOwned ==
  \A c \in Starters : child[c] = "live" =>
    \/ c = active \/ c \in failedStops \/ c = failedStartup
    \/ starting = c /\ pc[c] \in SpawnedPhases

\* There is never a second live managed process, whatever failed to stop.
OneLiveChild ==
  \A c, k \in Starters : child[c] = "live" /\ child[k] = "live" => c = k

\* start() does not hand out a process that is exiting or that somebody has
\* begun to stop.
ActiveIsUsable ==
  active # None => child[active] = "live" /\ ~stopped[active] /\ active \notin failedStops

\* When dispose() succeeds no child is alive.
DisposeStopsAll ==
  [][\A d \in Disposers : disposer[d] # "ok" /\ disposer'[d] = "ok" =>
       \A c \in Starters : child'[c] # "live"]_vars

\* Once disposal is requested nothing is spawned any more, also by a start
\* that was already under way.
NoSpawnAfterDispose ==
  [][disposeRequested => \A c \in Starters : child[c] = "none" => child'[c] = "none"]_vars

\* The process each call was answered with, and those that were handed out and live.
Handed == [c \in Starters |-> IF pc[c] = "ok" THEN on[c] ELSE None]
Running == {c \in Starters : handle[c] /\ child[c] = "live"}

\* The supervisor implements what its callers rely on: whatever is retried, aborted
\* or disposed of underneath, a fresh process is the only one that runs, and none is
\* handed out again once it was given up.
Process == INSTANCE ManagedProcess WITH Callers <- Starters, handed <- Handed, running <- Running
StartContract == Process!Spec

\* The state behind CallsSettle: whoever waits, waits for something that is under way.
\* A call that joined waits for the start in flight, a start or a disposal that stops a
\* handle for a stop in progress, and a disposal for a start that has not settled; a handle
\* on record has a stop in progress or one that can be begun again.
NobodyWaitsInVain ==
  /\ \A c \in Starters :
       /\ pc[c] = "joined" => starting # None /\ on[c] = starting
       /\ pc[c] \in StartPhases <=> starting = c
       /\ pc[c] = "awaitStop" => on[c] \in Starters /\ stopping[on[c]]
       /\ c \in failedStops /\ stopped[c] => stopping[c]
  /\ \A d \in Disposers : disposer[d] = "waiting" => disposal.phase # "none"
  /\ disposal.phase = "awaitStart" =>
       \A c \in Starters : c = disposal.waitsFor => pc[c] \in StartPhases \cup Answers
  /\ disposal.stop # None =>
       disposal.phase = "stopping" /\ disposal.stop \in disposal.todo /\ stopping[disposal.stop]

\* Every start() and dispose() is answered, whether or not children exit.
CallsSettle ==
  /\ \A c \in Starters : pc[c] # "new" ~> pc[c] \in Answers
  /\ \A d \in Disposers : disposer[d] = "waiting" ~> disposer[d] \in {"ok", "failed"}
=============================================================================
