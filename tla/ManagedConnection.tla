-------------------------- MODULE ManagedConnection --------------------------
(***************************************************************************)
(* The connection coordinator with the supervisor it runs on: what         *)
(* connection-assembly.ts puts together.                                   *)
(*   packages/application/src/connection/dsh-connection-coordinator.ts     *)
(*   apps/extension/src/backend/process-supervisor.ts                      *)
(*                                                                         *)
(* Connection reduces the supervisor to the process it hands out again and *)
(* the processes that run.  Here the coordinator calls start() and stop()  *)
(* of the supervisor itself, passes its signals on, and goes on when it is *)
(* answered.  The extension disposes of the supervisor as the last step of *)
(* its own disposal; what is modelled ends before.                         *)
(***************************************************************************)
EXTENDS Naturals, FiniteSets

CONSTANTS Callers, Closers, Requests, ModeOf, None  \* as in Connection

ASSUME NoneAssumption == None \notin Callers \cup Closers \cup Requests

VARIABLES
  \* the coordinator, as in Connection
  state, inFlight, backend, connectedRequest, orphaned, managed, generation,
  disconnectIntent, teardown, pc, req, intent, opGen, waits, proc, aborted, cut,
  closer, opened, prepared,
  \* the supervisor, as in ProcessSupervisor
  current,           \* its active handle
  starting, failedStops, failedStartup,
  startPc, startOn, startAborted,
  child, handle, stopping, stopped

\* The coordinator's call names the start() it makes, the child and the handle.  Nobody
\* disposes: the three variables of the disposal are constant (TLC primes no literal FALSE).
Supervisor == INSTANCE ProcessSupervisor WITH
  Starters <- Callers, Disposers <- {}, active <- current, pc <- startPc, on <- startOn,
  aborted <- startAborted, disposeRequested <- ~TRUE,
  disposal <- [phase |-> "none", waitsFor |-> None, todo |-> {}, stop |-> None,
               failed |-> FALSE],
  disposer <- [d \in {} |-> "new"]

\* The processes the coordinator has been given.
Taken == {p \in Callers : \E c \in Callers : proc[c] = p}

\* What Connection knows of the supervisor: of the processes that were taken, the one
\* that is active and those that live.
Active == IF current \in Taken THEN current ELSE None
Running == {p \in Taken : handle[p] /\ child[p] = "live"}

Coordinator == INSTANCE Connection WITH active <- Active, running <- Running

ASSUME ModeAssumption == ModeOf \in [Requests -> Coordinator!Modes]

coordinatorVars ==
  <<state, inFlight, backend, connectedRequest, orphaned, managed, generation,
    disconnectIntent, teardown, pc, req, intent, opGen, waits, proc, aborted, cut,
    closer, opened, prepared>>
supervisorVars ==
  <<current, starting, failedStops, failedStartup, startPc, startOn, startAborted,
    child, handle, stopping, stopped>>
vars == <<coordinatorVars, supervisorVars>>

Init == Supervisor!Init /\ Coordinator!Init

-----------------------------------------------------------------------------
(* Steps of the coordinator that do not concern the supervisor. *)

CallStep(c) ==
  /\ UNCHANGED supervisorVars
  /\ Coordinator!Connect(c) \/ Coordinator!Wake(c) \/ Coordinator!Resume(c)

OperationStep(c) ==
  /\ Coordinator!ReactionsRun
  /\ UNCHANGED supervisorVars
  /\ \/ Coordinator!Cancelled(c) /\ pc[c] # "start"
     \/ Coordinator!SearchDone(c) \/ Coordinator!VerifyDone(c)
     \/ (Coordinator!LocateDone(c) \/ Coordinator!RecheckDone(c)) /\ pc'[c] # "start"
     \/ Coordinator!IdentityDone(c) \/ Coordinator!AuthorizeDone(c)
     \/ Coordinator!ProbeDone(c) \/ Coordinator!ReleaseDone(c)
     \/ Coordinator!InitFailed(c) \/ Coordinator!InitDone(c)
     \/ Coordinator!InitStale(c) \/ Coordinator!CloseStaleDone(c)

TeardownStep ==
  /\ Coordinator!ReactionsRun
  /\ UNCHANGED supervisorVars
  /\ \/ Coordinator!CollectOwned
     \/ \E b \in Callers : Coordinator!CloseBackend(b)
     \/ Coordinator!FinishTeardown

-----------------------------------------------------------------------------
(* processSupervisor.start(runtime, signal) *)

CallStart(c) ==
  /\ Coordinator!ReactionsRun
  /\ Supervisor!Start(c)
  /\ Coordinator!LocateDone(c) \/ Coordinator!RecheckDone(c)
  /\ pc'[c] = "start"

\* The signal given to start() is the call's own combined with the operation's.
PassOn(call) ==
  IF \E c \in Callers : c = call /\ startPc[c] \in Supervisor!StartPhases /\ ~startAborted[c]
  THEN Supervisor!Abort(call)
  ELSE UNCHANGED supervisorVars

Abort(c) == PassOn(c) /\ Coordinator!Abort(c)

Disconnect(d) == PassOn(inFlight) /\ Coordinator!Disconnect(d)

\* The start has settled and the coordinator goes on.
StartAnswered(c) ==
  /\ Coordinator!ReactionsRun
  /\ UNCHANGED supervisorVars
  /\ \/ startPc[c] = "ok" /\ Coordinator!StartAnswered(c, startOn[c])
     \/ /\ startPc[c] = "failed" /\ pc[c] = "start"
        /\ Coordinator!Cancelled(c) \/ Coordinator!StartFailed(c)

\* It does so in promise reactions: no child exits before.
AnswerTaken ==
  \A c \in Callers : pc[c] = "start" => startPc[c] \notin Supervisor!Answers

-----------------------------------------------------------------------------
(* handle.stop() *)

CallStop(p) ==
  /\ Coordinator!AwaitsStop(p)
  /\ Supervisor!Stop(p)
  /\ UNCHANGED coordinatorVars

\* The stop in progress settles, or the process was stopped before: whoever of
\* the coordinator awaits it goes on.
StopReturns(p) ==
  /\ Coordinator!ReactionsRun
  /\ Coordinator!AwaitsStop(p)
  /\ \E succeeded \in BOOLEAN :
       /\ \/ Supervisor!StopSettles(p) /\ succeeded = stopped'[p]
          \/ stopped[p] /\ ~stopping[p] /\ succeeded /\ UNCHANGED supervisorVars
       /\ \/ \E c \in Callers : Coordinator!StopAnswered(c, succeeded)
          \/ Coordinator!ManagedStopped(succeeded)

-----------------------------------------------------------------------------
(* Steps of the supervisor and of the children by themselves. *)

SupervisorStep(c) ==
  /\ AnswerTaken
  /\ \/ Supervisor!StartStep(c)
     \/ Supervisor!StopSettles(c) /\ ~Coordinator!AwaitsStop(c)
  /\ UNCHANGED coordinatorVars

ChildExits(c) ==
  /\ AnswerTaken
  /\ Supervisor!ChildExits(c)
  /\ UNCHANGED coordinatorVars

Next ==
  \/ \E c \in Callers : \/ CallStep(c) \/ OperationStep(c) \/ CallStart(c) \/ StartAnswered(c)
                        \/ Abort(c) \/ CallStop(c) \/ StopReturns(c)
                        \/ SupervisorStep(c) \/ ChildExits(c)
  \/ \E d \in Closers : Disconnect(d)
  \/ TeardownStep

Spec == Init /\ [][Next]_vars

\* As in Connection and ProcessSupervisor.
Fairness ==
  /\ \A c \in Callers :
       /\ WF_vars(CallStep(c) /\ pc[c] # "new")
       /\ WF_vars(OperationStep(c) \/ CallStart(c) \/ StartAnswered(c))
       /\ WF_vars(CallStop(c)) /\ WF_vars(StopReturns(c))
       /\ WF_vars(SupervisorStep(c) /\ Supervisor!StartStep(c))
       /\ WF_vars(SupervisorStep(c) /\ Supervisor!StopSettles(c))
  /\ WF_vars(TeardownStep)

FairSpec == Spec /\ Fairness

-----------------------------------------------------------------------------
(* Properties. *)

\* The coordinator with the real supervisor behaves as Connection says.
RunsAsConnection == Coordinator!Spec

\* The supervisor behaves as ProcessSupervisor says, whatever the coordinator does.
RunsAsSupervisor == Supervisor!Spec

\* When disconnect() succeeds the coordinator holds nothing, and no managed process is left
\* alive but the one the next start() is answered with: a process whose stop has failed, of
\* whichever call, makes the disconnect fail.
DisconnectReleases ==
  /\ Coordinator!DisconnectReleases
  /\ [][\A d \in Closers : closer[d] # "ok" /\ closer'[d] = "ok" =>
          \A p \in Callers : handle'[p] /\ child'[p] = "live" => p = current']_vars

\* Every connect() and disconnect() is answered, also by way of the supervisor.
CallsSettle == Coordinator!CallsSettle

-----------------------------------------------------------------------------
(* The invariant that ties the two together. *)

\* A call that has not been given a process yet.
BeforeStart == {"new", "search", "locate", "recheck", "start"} \cup Coordinator!WaitPhases

\* The answer to a start that the coordinator has not taken yet: the active process
\* once more, or a fresh one that runs alone.
AnswerIsGood(c) ==
  \/ startOn[c] = current /\ current \in Taken
  \/ /\ startOn[c] = c /\ handle[c] /\ current \in {c, None}
     /\ child[c] = "live" => current = c
     /\ \A p \in Callers : handle[p] /\ child[p] = "live" => p = c

\* A start is under way for the one call that awaits it, so none joins another; every
\* process was given first to the call it is named for; what the coordinator manages
\* it was given, and every process that was made it was given or is about to be.
Agreement ==
  /\ \A c \in Callers :
       /\ startPc[c] # "joined"
       /\ startPc[c] \in Supervisor!StartPhases => pc[c] = "start"
       /\ pc[c] \in BeforeStart => proc[c] = None
       /\ proc[c] # None => proc[proc[c]] = proc[c] /\ handle[proc[c]]
       /\ pc[c] = "start" /\ startPc[c] = "ok" => AnswerIsGood(c)
  /\ managed # None => managed \in Taken
  /\ \A p \in Callers : handle[p] /\ p \notin Taken =>
       pc[p] = "start" /\ startPc[p] = "ok" /\ startOn[p] = p
=============================================================================
