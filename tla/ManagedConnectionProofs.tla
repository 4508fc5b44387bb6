---------------------- MODULE ManagedConnectionProofs ----------------------
(***************************************************************************)
(* The coordinator with the real supervisor behaves as Connection says,    *)
(* for every set of calls and requests: what ConnectionProofs and          *)
(* ProcessSupervisorProofs show of each holds of the two together.         *)
(*                                                                         *)
(* A step of the composition is a step of the coordinator, of the          *)
(* supervisor, or of both at once.  That it is one Connection has needs    *)
(* the invariants of both, and Agreement: what the coordinator believes of *)
(* its process is what the supervisor knows of it.                         *)
(***************************************************************************)
EXTENDS ManagedConnection, TLAPS

\* What is proved of the two parts.
ConnectionTheory == INSTANCE ConnectionProofs WITH active <- Active, running <- Running
SupervisorTheory == INSTANCE ProcessSupervisorProofs WITH
  Starters <- Callers, Disposers <- {}, active <- current, pc <- startPc, on <- startOn,
  aborted <- startAborted, disposeRequested <- ~TRUE,
  disposal <- [phase |-> "none", waitsFor |-> None, todo |-> {}, stop |-> None,
               failed |-> FALSE],
  disposer <- [d \in {} |-> "new"]

\* The invariant of the composition.
ManagedInv ==
  /\ ConnectionTheory!ConnectionInv
  /\ SupervisorTheory!SupervisorInv /\ SupervisorTheory!HandoutsSound
  /\ Agreement

\* Both instances of a module say the same.
LEMMA SameVars ==
  /\ Coordinator!vars = ConnectionTheory!vars /\ Coordinator!vars' = ConnectionTheory!vars'
  /\ Supervisor!vars = SupervisorTheory!vars /\ Supervisor!vars' = SupervisorTheory!vars'
  BY DEF Coordinator!vars, ConnectionTheory!vars, Coordinator!coordVars,
      ConnectionTheory!coordVars, Coordinator!countVars, ConnectionTheory!countVars,
      Coordinator!callVars, ConnectionTheory!callVars, Coordinator!worldVars,
      ConnectionTheory!worldVars,
      Supervisor!vars, SupervisorTheory!vars, Supervisor!handleVars,
      SupervisorTheory!handleVars, Supervisor!startVars, SupervisorTheory!startVars

\* They start alike.
LEMMA SameInit ==
  /\ Coordinator!Init => ConnectionTheory!Init
  /\ Supervisor!Init => SupervisorTheory!Init
  BY DEF Coordinator!Init, ConnectionTheory!Init, Coordinator!NoTeardown,
      ConnectionTheory!NoTeardown,
      Supervisor!Init, SupervisorTheory!Init, Supervisor!NoDisposal,
      SupervisorTheory!NoDisposal

\* The supervisor's steps are the same.
LEMMA SameSupervisor == Supervisor!Next => SupervisorTheory!Next
  BY DEF Supervisor!startVars, SupervisorTheory!startVars, Supervisor!handleVars,
      SupervisorTheory!handleVars, Supervisor!vars, SupervisorTheory!vars,
      Supervisor!SpawnedPhases, SupervisorTheory!SpawnedPhases, Supervisor!StartPhases,
      SupervisorTheory!StartPhases, Supervisor!Answers, SupervisorTheory!Answers,
      Supervisor!NoDisposal, SupervisorTheory!NoDisposal, Supervisor!BeginStop,
      SupervisorTheory!BeginStop, Supervisor!Stop, SupervisorTheory!Stop,
      Supervisor!Answered, SupervisorTheory!Answered, Supervisor!StopSettles,
      SupervisorTheory!StopSettles, Supervisor!ChildExits, SupervisorTheory!ChildExits,
      Supervisor!StartUnchanged, SupervisorTheory!StartUnchanged, Supervisor!Start,
      SupervisorTheory!Start, Supervisor!Abort, SupervisorTheory!Abort, Supervisor!Goto,
      SupervisorTheory!Goto, Supervisor!Fail, SupervisorTheory!Fail, Supervisor!RetryStop,
      SupervisorTheory!RetryStop, Supervisor!StopsRetried, SupervisorTheory!StopsRetried,
      Supervisor!StartupRetried, SupervisorTheory!StartupRetried, Supervisor!Spawn,
      SupervisorTheory!Spawn, Supervisor!Ready, SupervisorTheory!Ready,
      Supervisor!Initialized, SupervisorTheory!Initialized, Supervisor!Cleanup,
      SupervisorTheory!Cleanup, Supervisor!StartStep, SupervisorTheory!StartStep,
      Supervisor!DisposalUnchanged, SupervisorTheory!DisposalUnchanged, Supervisor!Dispose,
      SupervisorTheory!Dispose, Supervisor!DisposeCollect, SupervisorTheory!DisposeCollect,
      Supervisor!DisposeStop, SupervisorTheory!DisposeStop, Supervisor!DisposeFinish,
      SupervisorTheory!DisposeFinish, Supervisor!DisposeStep, SupervisorTheory!DisposeStep,
      Supervisor!Next, SupervisorTheory!Next

\* And so are the coordinator's.
LEMMA SameCoordinator == Coordinator!Next => ConnectionTheory!Next
  BY DEF Coordinator!coordVars, ConnectionTheory!coordVars, Coordinator!countVars,
      ConnectionTheory!countVars, Coordinator!callVars, ConnectionTheory!callVars,
      Coordinator!worldVars, ConnectionTheory!worldVars, Coordinator!vars,
      ConnectionTheory!vars, Coordinator!OpPhases, ConnectionTheory!OpPhases,
      Coordinator!StopPhases, ConnectionTheory!StopPhases, Coordinator!WaitPhases,
      ConnectionTheory!WaitPhases, Coordinator!Results, ConnectionTheory!Results,
      Coordinator!NoTeardown, ConnectionTheory!NoTeardown, Coordinator!Aborted,
      ConnectionTheory!Aborted, Coordinator!Superseded, ConnectionTheory!Superseded,
      Coordinator!Serves, ConnectionTheory!Serves, Coordinator!NeedsTeardown,
      ConnectionTheory!NeedsTeardown, Coordinator!NoResume, ConnectionTheory!NoResume,
      Coordinator!ReactionsRun, ConnectionTheory!ReactionsRun, Coordinator!Answer,
      ConnectionTheory!Answer, Coordinator!ClearInFlight, ConnectionTheory!ClearInFlight,
      Coordinator!Reject, ConnectionTheory!Reject, Coordinator!Cancel,
      ConnectionTheory!Cancel, Coordinator!Fail, ConnectionTheory!Fail, Coordinator!Goto,
      ConnectionTheory!Goto, Coordinator!OpUnchanged, ConnectionTheory!OpUnchanged,
      Coordinator!BeginTeardown, ConnectionTheory!BeginTeardown, Coordinator!StartOperation,
      ConnectionTheory!StartOperation, Coordinator!Proceed, ConnectionTheory!Proceed,
      Coordinator!Connect, ConnectionTheory!Connect, Coordinator!Wake,
      ConnectionTheory!Wake, Coordinator!Resume, ConnectionTheory!Resume, Coordinator!Abort,
      ConnectionTheory!Abort, Coordinator!Cancelled, ConnectionTheory!Cancelled,
      Coordinator!Attach, ConnectionTheory!Attach, Coordinator!SearchDone,
      ConnectionTheory!SearchDone, Coordinator!LocateDone, ConnectionTheory!LocateDone,
      Coordinator!RecheckDone, ConnectionTheory!RecheckDone, Coordinator!StartFailed,
      ConnectionTheory!StartFailed, Coordinator!StartAnswered,
      ConnectionTheory!StartAnswered, Coordinator!StartDone, ConnectionTheory!StartDone,
      Coordinator!VerifyDone, ConnectionTheory!VerifyDone, Coordinator!AwaitsStop,
      ConnectionTheory!AwaitsStop, Coordinator!StopBegins, ConnectionTheory!StopBegins,
      Coordinator!StopProcess, ConnectionTheory!StopProcess, Coordinator!StopAnswered,
      ConnectionTheory!StopAnswered, Coordinator!StopAfterFailure,
      ConnectionTheory!StopAfterFailure, Coordinator!IdentityDone,
      ConnectionTheory!IdentityDone, Coordinator!AuthorizeDone,
      ConnectionTheory!AuthorizeDone, Coordinator!ProbeDone, ConnectionTheory!ProbeDone,
      Coordinator!ReleaseDone, ConnectionTheory!ReleaseDone, Coordinator!InitFailed,
      ConnectionTheory!InitFailed, Coordinator!InitDone, ConnectionTheory!InitDone,
      Coordinator!InitStale, ConnectionTheory!InitStale, Coordinator!CloseStaleDone,
      ConnectionTheory!CloseStaleDone, Coordinator!OperationStep,
      ConnectionTheory!OperationStep, Coordinator!Disconnect, ConnectionTheory!Disconnect,
      Coordinator!CollectOwned, ConnectionTheory!CollectOwned, Coordinator!CloseBackend,
      ConnectionTheory!CloseBackend, Coordinator!ManagedStopped,
      ConnectionTheory!ManagedStopped, Coordinator!StopManaged,
      ConnectionTheory!StopManaged, Coordinator!FinishTeardown,
      ConnectionTheory!FinishTeardown, Coordinator!TeardownStep,
      ConnectionTheory!TeardownStep, Coordinator!ProcessExits,
      ConnectionTheory!ProcessExits, Coordinator!Next, ConnectionTheory!Next

\* The coordinator's invariant survives its steps.
LEMMA CoordinatorStays ==
  ASSUME ConnectionTheory!ConnectionInv, [Coordinator!Next]_(Coordinator!vars)
  PROVE  ConnectionTheory!ConnectionInv'
  <1>1. [ConnectionTheory!Next]_(ConnectionTheory!vars)
      BY SameCoordinator, SameVars
  <1> QED
      BY <1>1, NoneAssumption, ModeAssumption, ConnectionTheory!NextInv
      DEF Coordinator!Modes, ConnectionTheory!Modes

\* The supervisor's invariants survive its steps.
LEMMA SupervisorStays ==
  ASSUME SupervisorTheory!SupervisorInv, SupervisorTheory!HandoutsSound,
         [Supervisor!Next]_(Supervisor!vars)
  PROVE  SupervisorTheory!SupervisorInv' /\ SupervisorTheory!HandoutsSound'
  <1>1. [SupervisorTheory!Next]_(SupervisorTheory!vars)
      BY SameSupervisor, SameVars
  <1>2. SupervisorTheory!SupervisorInv'
      BY <1>1, NoneAssumption, SupervisorTheory!SupervisorNext
  <1>3. SupervisorTheory!HandoutsSound'
      BY <1>1, NoneAssumption, SupervisorTheory!StepMeetsContract
  <1> QED
      BY <1>2, <1>3

-----------------------------------------------------------------------------
(* What the invariants say of each part, in the composition's own words. *)

\* Of the supervisor.
LEMMA SupervisorSound ==
  ASSUME ManagedInv
  PROVE  /\ current \in Callers \cup {None} /\ starting \in Callers \cup {None}
         /\ startPc \in
              [Callers -> {"new", "joined"} \cup Supervisor!StartPhases \cup Supervisor!Answers]
         /\ startOn \in [Callers -> Callers \cup {None}]
         /\ child \in [Callers -> {"none", "live", "exited"}] /\ handle \in [Callers -> BOOLEAN]
         /\ stopping \in [Callers -> BOOLEAN] /\ stopped \in [Callers -> BOOLEAN]
         /\ \A c \in Callers :
              /\ startPc[c] \in Supervisor!StartPhases <=> starting = c
              /\ startPc[c] \in Supervisor!StartPhases => current = None
              /\ startPc[c] \in Supervisor!SpawnedPhases =>
                   child[c] # "none" /\ \A k \in Callers : child[k] = "live" => k = c
              /\ handle[c] => startPc[c] \in {"ok", "failed"} /\ child[c] # "none"
              /\ c = current \/ stopped[c] => handle[c]
              /\ c = current => c \notin failedStops /\ ~stopped[c] /\ child[c] = "live"
              /\ stopping[c] => stopped[c]
              /\ stopped[c] /\ ~stopping[c] => child[c] = "exited"
              /\ startPc[c] = "ok" => startOn[c] \in Callers /\ handle[startOn[c]]
         /\ \A c, k \in Callers : child[c] = "live" /\ child[k] = "live" => c = k
  <1> USE DEF ManagedInv, Supervisor!StartPhases, SupervisorTheory!StartPhases,
      Supervisor!SpawnedPhases, SupervisorTheory!SpawnedPhases,
      Supervisor!Answers, SupervisorTheory!Answers
  <1>1. /\ current \in Callers \cup {None} /\ starting \in Callers \cup {None}
        /\ startPc \in
             [Callers -> {"new", "joined"} \cup Supervisor!StartPhases \cup Supervisor!Answers]
        /\ startOn \in [Callers -> Callers \cup {None}]
        /\ child \in [Callers -> {"none", "live", "exited"}] /\ handle \in [Callers -> BOOLEAN]
        /\ stopping \in [Callers -> BOOLEAN] /\ stopped \in [Callers -> BOOLEAN]
      BY DEF SupervisorTheory!SupervisorInv, SupervisorTheory!TypeOK
  <1>2. \A c \in Callers :
          /\ startPc[c] \in Supervisor!StartPhases <=> starting = c
          /\ startPc[c] \in Supervisor!StartPhases => current = None
          /\ startPc[c] \in Supervisor!SpawnedPhases =>
               child[c] # "none" /\ \A k \in Callers : child[k] = "live" => k = c
      BY DEF SupervisorTheory!SupervisorInv, SupervisorTheory!StartsSound,
          SupervisorTheory!HandoutsSound
  <1>3. \A c \in Callers :
          /\ handle[c] => startPc[c] \in {"ok", "failed"} /\ child[c] # "none"
          /\ c = current \/ stopped[c] => handle[c]
          /\ stopping[c] => stopped[c]
          /\ stopped[c] /\ ~stopping[c] => child[c] = "exited"
          /\ startPc[c] = "ok" => startOn[c] \in Callers /\ handle[startOn[c]]
      BY DEF SupervisorTheory!SupervisorInv, SupervisorTheory!HandlesSound,
          SupervisorTheory!HandoutsSound
  <1>4. /\ \A c \in Callers :
             c = current => c \notin failedStops /\ ~stopped[c] /\ child[c] = "live"
        /\ \A c, k \in Callers : child[c] = "live" /\ child[k] = "live" => c = k
      BY NoneAssumption
      DEF SupervisorTheory!SupervisorInv, SupervisorTheory!ActiveIsUsable,
          SupervisorTheory!OneLiveChild
  <1> QED
      BY <1>1, <1>2, <1>3, <1>4

\* Of the coordinator.
LEMMA CoordinatorSound ==
  ASSUME ManagedInv
  PROVE  /\ pc = [c \in Callers |-> pc[c]] /\ proc \in [Callers -> Callers \cup {None}]
         /\ managed \in Callers \cup {None}
         /\ \A c, x \in Callers :
              pc[c] \in Coordinator!OpPhases /\ pc[x] \in Coordinator!OpPhases => x = c
         /\ \A c \in Callers : pc[c] \in Coordinator!StopPhases =>
              managed = proc[c] /\ managed # None /\ teardown.phase # "closing"
         /\ teardown.phase = "closing" =>
              /\ teardown.process \in {None, managed}
              /\ \A c \in Callers : pc[c] \notin Coordinator!OpPhases
  <1> USE DEF ManagedInv, ConnectionTheory!ConnectionInv, Coordinator!OpPhases,
      ConnectionTheory!OpPhases, Coordinator!StopPhases, ConnectionTheory!StopPhases
  <1>1. /\ pc = [c \in Callers |-> pc[c]] /\ proc \in [Callers -> Callers \cup {None}]
        /\ managed \in Callers \cup {None}
      BY DEF ConnectionTheory!TypeOK
  <1>2. \A c \in Callers : pc[c] \in Coordinator!OpPhases => inFlight = c
      BY DEF ConnectionTheory!OperationInv
  <1>3. \A c \in Callers : pc[c] \in Coordinator!StopPhases => managed = proc[c] /\ managed # None
      BY DEF ConnectionTheory!OperationInv
  <1>4. teardown.phase = "closing" => inFlight = None /\ teardown.process \in {None, managed}
      BY DEF ConnectionTheory!TeardownInv
  <1> QED
      BY <1>1, <1>2, <1>3, <1>4, NoneAssumption

-----------------------------------------------------------------------------
(* The supervisor: each step is one of its own, or leaves it alone. *)

\* Nothing of it changes.
LEMMA SupervisorRests ==
  ASSUME UNCHANGED supervisorVars
  PROVE  UNCHANGED Supervisor!vars
  BY DEF supervisorVars, Supervisor!vars, Supervisor!handleVars, Supervisor!startVars

\* Every step of the composition, as the supervisor sees it.
LEMMA SupervisorSteps ==
  ASSUME [Next]_vars
  PROVE  [Supervisor!Next]_(Supervisor!vars)
  <1>1. CASE UNCHANGED vars
    BY <1>1, SupervisorRests DEF vars
  <1>2. ASSUME NEW c \in Callers, CallStart(c) \/ CallStop(c) \/ SupervisorStep(c) \/ ChildExits(c)
        PROVE  Supervisor!Next
    BY <1>2 DEF CallStart, CallStop, SupervisorStep, ChildExits, Supervisor!Next
  <1>3. ASSUME NEW c \in Callers, CallStep(c) \/ OperationStep(c) \/ StartAnswered(c)
        PROVE  UNCHANGED Supervisor!vars
    BY <1>3, SupervisorRests DEF CallStep, OperationStep, StartAnswered
  <1>4. ASSUME NEW call, PassOn(call)
        PROVE  [Supervisor!Next]_(Supervisor!vars)
    BY <1>4, SupervisorRests DEF PassOn, Supervisor!Next
  <1>5. ASSUME NEW c \in Callers, StopReturns(c)
        PROVE  [Supervisor!Next]_(Supervisor!vars)
    BY <1>5, SupervisorRests DEF StopReturns, Supervisor!Next
  <1>6. CASE TeardownStep
    BY <1>6, SupervisorRests DEF TeardownStep
  <1> QED
    BY <1>1, <1>2, <1>3, <1>4, <1>5, <1>6 DEF Next, Abort, Disconnect

-----------------------------------------------------------------------------
(* What the steps of each part leave alone. *)

\* A step of the coordinator that takes no answer to a start and makes no start.
Aloof ==
  /\ pc' = [x \in Callers |-> pc'[x]]
  /\ \A x \in Callers :
       /\ pc'[x] \in BeforeStart => pc[x] \in BeforeStart
       /\ pc'[x] = "start" => pc[x] = "start"
       /\ pc[x] = "start" => pc'[x] = "start" \/ startPc[x] = "failed"
  /\ proc' = proc
  /\ managed' \in {managed, None}

\* A step of the supervisor that hands out no process and gives none up.
Quiet ==
  /\ \A x \in Callers :
       \/ startPc'[x] = startPc[x] /\ startOn'[x] = startOn[x]
       \/ /\ startPc[x] \in Supervisor!StartPhases
          /\ startPc'[x] \in Supervisor!StartPhases \cup {"failed"}
  /\ UNCHANGED <<current, handle>>
  /\ \A p \in Callers : handle[p] => child'[p] = child[p]

\* Such steps leave the two agreed.
LEMMA AloofAndQuiet ==
  ASSUME ManagedInv, Aloof, Quiet
  PROVE  Agreement'
  <1> USE DEF Supervisor!StartPhases, Supervisor!SpawnedPhases
  <1>1. Taken' = Taken
    BY DEF Aloof, Taken
  <1>2. \A c \in Callers :
          /\ startPc'[c] # "joined"
          /\ startPc'[c] \in Supervisor!StartPhases => pc'[c] = "start"
          /\ pc'[c] \in BeforeStart => proc'[c] = None
    BY DEF ManagedInv, Agreement, Aloof, Quiet
  <1>3. ASSUME NEW c \in Callers, proc'[c] # None
        PROVE  proc'[proc'[c]] = proc'[c] /\ handle'[proc'[c]]
    BY <1>3 DEF ManagedInv, Agreement, Aloof, Quiet
  <1>4. ASSUME NEW c \in Callers, pc'[c] = "start", startPc'[c] = "ok"
        PROVE  AnswerIsGood(c)'
    <2>1. pc[c] = "start" /\ startPc[c] = "ok" /\ startOn'[c] = startOn[c]
      BY <1>4 DEF Aloof, Quiet
    <2>2. AnswerIsGood(c)
      BY <2>1 DEF ManagedInv, Agreement
    <2> QED
      BY <2>1, <2>2, <1>1 DEF AnswerIsGood, Quiet
  <1>5. managed' # None => managed' \in Taken'
    BY <1>1 DEF ManagedInv, Agreement, Aloof
  <1>6. ASSUME NEW p \in Callers, handle'[p], p \notin Taken'
        PROVE  pc'[p] = "start" /\ startPc'[p] = "ok" /\ startOn'[p] = p
    BY <1>1, <1>6 DEF ManagedInv, Agreement, Aloof, Quiet
  <1> QED
    BY <1>2, <1>3, <1>4, <1>5, <1>6 DEF Agreement

\* The supervisor rests.
LEMMA RestsQuietly ==
  ASSUME UNCHANGED supervisorVars
  PROVE  Quiet
  BY DEF supervisorVars, Quiet

\* A signal is passed on.
LEMMA PassesOnQuietly ==
  ASSUME NEW call, PassOn(call)
  PROVE  Quiet
  BY RestsQuietly
  DEF PassOn, Quiet, Supervisor!Abort, Supervisor!handleVars, Supervisor!StartUnchanged

\* The coordinator rests.
LEMMA RestsAloof ==
  ASSUME ManagedInv, UNCHANGED coordinatorVars
  PROVE  Aloof
  BY CoordinatorSound DEF coordinatorVars, Aloof

\* The supervisor's own steps, but for the one that makes a handle.
LEMMA StartStepsAreQuiet ==
  ASSUME ManagedInv, NEW c \in Callers, Supervisor!StartStep(c), handle' = handle
  PROVE  Quiet
  <1> USE SupervisorSound, NoneAssumption
      DEF Supervisor!StartPhases, Supervisor!SpawnedPhases, Supervisor!StartUnchanged,
      Supervisor!handleVars, Quiet
  <1>0. \A x \in Callers : startPc[x] # "joined"
    BY DEF ManagedInv, Agreement
  <1>1. ASSUME Supervisor!Fail(c), startPc[c] \in Supervisor!StartPhases, startOn' = startOn
        PROVE  \A x \in Callers :
                 \/ startPc'[x] = startPc[x] /\ startOn'[x] = startOn[x]
                 \/ x = c /\ startPc'[x] = "failed"
    BY <1>0, <1>1 DEF Supervisor!Fail, Supervisor!Answered
  <1>2. CASE Supervisor!RetryStop(c)
    BY <1>2 DEF Supervisor!RetryStop, Supervisor!BeginStop, Supervisor!Goto
  <1>3. CASE Supervisor!StopsRetried(c)
    BY <1>1, <1>3 DEF Supervisor!StopsRetried, Supervisor!Goto
  <1>4. CASE Supervisor!StartupRetried(c)
    BY <1>1, <1>4 DEF Supervisor!StartupRetried, Supervisor!Goto
  <1>5. CASE Supervisor!Spawn(c)
    BY <1>1, <1>5 DEF Supervisor!Spawn, Supervisor!Goto
  <1>6. CASE Supervisor!Ready(c)
    BY <1>6 DEF Supervisor!Ready, Supervisor!Goto
  <1>7. CASE Supervisor!Initialized(c)
    BY <1>7 DEF Supervisor!Initialized, Supervisor!Goto
  <1>8. CASE Supervisor!Cleanup(c)
    BY <1>1, <1>8 DEF Supervisor!Cleanup
  <1> QED
    BY <1>2, <1>3, <1>4, <1>5, <1>6, <1>7, <1>8 DEF Supervisor!StartStep

\* And the end of a stop.
LEMMA StopsSettleQuietly ==
  ASSUME ManagedInv, NEW h \in Callers, Supervisor!StopSettles(h)
  PROVE  Quiet
  <1> USE SupervisorSound, NoneAssumption
      DEF Supervisor!StartPhases, Supervisor!SpawnedPhases
  <1>0. \A x \in Callers : startPc[x] # "joined"
    BY DEF ManagedInv, Agreement
  <1>1. ASSUME NEW x \in Callers
        PROVE  \/ startPc'[x] = startPc[x] /\ startOn'[x] = startOn[x]
               \/ /\ startPc[x] \in Supervisor!StartPhases
                  /\ startPc'[x] \in Supervisor!StartPhases \cup {"failed"}
    BY <1>0 DEF Supervisor!StopSettles, Supervisor!Answered
  <1> QED
    BY <1>1 DEF Supervisor!StopSettles, Quiet

\* An operation of the coordinator settles or goes on.
LEMMA SettlingIsAloof ==
  ASSUME ManagedInv, NEW c \in Callers, NEW result \in Coordinator!Results,
         Coordinator!Answer(c, result), pc[c] = "start" => startPc[c] = "failed",
         proc' = proc, managed' \in {managed, None}
  PROVE  Aloof
  <1>1. \A x \in Callers : pc'[x] = result \/ (pc'[x] = pc[x] /\ x # c)
    BY DEF Coordinator!Answer
  <1>2. \A x \in Callers : pc[x] = "start" => pc'[x] = "start" \/ startPc[x] = "failed"
    BY DEF Coordinator!Answer
  <1>3. result \notin BeforeStart
    BY DEF Coordinator!Results, BeforeStart, Coordinator!WaitPhases
  <1>4. pc' = [x \in Callers |-> pc'[x]]
    BY DEF Coordinator!Answer
  <1> QED
    BY <1>1, <1>2, <1>3, <1>4 DEF Aloof, BeforeStart

\* One call goes from a phase to another.
LEMMA MovingIsAloof ==
  ASSUME ManagedInv, NEW c \in Callers, NEW phase, pc' = [pc EXCEPT ![c] = phase],
         phase \in BeforeStart => pc[c] \in BeforeStart, phase # "start", pc[c] # "start",
         proc' = proc, managed' \in {managed, None}
  PROVE  Aloof
  BY CoordinatorSound DEF Aloof

\* The steps of an operation that do not concern the supervisor.
LEMMA OperationIsAloof ==
  ASSUME ManagedInv, NEW c \in Callers, OperationStep(c)
  PROVE  Aloof
  <1> USE DEF BeforeStart, Coordinator!WaitPhases, Coordinator!Results, Coordinator!Goto,
      Coordinator!Attach, Coordinator!Fail, Coordinator!Cancel, Coordinator!Reject
  <1>1. CASE Coordinator!Cancelled(c) /\ pc[c] # "start"
    BY <1>1, SettlingIsAloof DEF Coordinator!Cancelled
  <1>2. CASE Coordinator!SearchDone(c)
    BY <1>2, SettlingIsAloof, MovingIsAloof DEF Coordinator!SearchDone
  <1>3. CASE Coordinator!LocateDone(c) /\ pc'[c] # "start"
    BY <1>3, SettlingIsAloof, MovingIsAloof, CoordinatorSound DEF Coordinator!LocateDone
  <1>4. CASE Coordinator!RecheckDone(c) /\ pc'[c] # "start"
    BY <1>4, SettlingIsAloof, MovingIsAloof, CoordinatorSound DEF Coordinator!RecheckDone
  <1>5. CASE Coordinator!VerifyDone(c)
    BY <1>5, MovingIsAloof DEF Coordinator!VerifyDone
  <1>6. CASE Coordinator!IdentityDone(c) \/ Coordinator!AuthorizeDone(c) \/ Coordinator!ProbeDone(c)
    BY <1>6, MovingIsAloof
    DEF Coordinator!IdentityDone, Coordinator!AuthorizeDone, Coordinator!ProbeDone
  <1>7. CASE Coordinator!ReleaseDone(c)
    BY <1>7, SettlingIsAloof DEF Coordinator!ReleaseDone
  <1>8. CASE Coordinator!InitFailed(c) \/ Coordinator!InitDone(c)
    BY <1>8, SettlingIsAloof DEF Coordinator!InitFailed, Coordinator!InitDone
  <1>9. CASE Coordinator!InitStale(c)
    BY <1>9, MovingIsAloof DEF Coordinator!InitStale
  <1>10. CASE Coordinator!CloseStaleDone(c)
    BY <1>10, SettlingIsAloof DEF Coordinator!CloseStaleDone
  <1> QED
    BY <1>1, <1>2, <1>3, <1>4, <1>5, <1>6, <1>7, <1>8, <1>9, <1>10 DEF OperationStep

\* What a call does by itself.
LEMMA CallsAreAloof ==
  ASSUME ManagedInv, NEW c \in Callers, CallStep(c) \/ Coordinator!Abort(c)
  PROVE  Aloof
  <1> USE DEF BeforeStart, Coordinator!WaitPhases, Coordinator!Results, Coordinator!coordVars
  <1>1. ASSUME Coordinator!StartOperation(c), pc[c] \in {"new", "woken", "resume"}, proc' = proc
        PROVE  Aloof
    BY <1>1, MovingIsAloof DEF Coordinator!StartOperation
  <1>2. ASSUME Coordinator!Proceed(c), pc[c] \in {"new", "woken", "resume"}, proc' = proc
        PROVE  Aloof
    BY <1>1, <1>2, MovingIsAloof DEF Coordinator!Proceed
  <1>3. CASE Coordinator!Connect(c)
    BY <1>2, <1>3, MovingIsAloof DEF Coordinator!Connect
  <1>4. CASE Coordinator!Wake(c)
    BY <1>2, <1>4, MovingIsAloof DEF Coordinator!Wake
  <1>5. CASE Coordinator!Resume(c)
    BY <1>1, <1>5, MovingIsAloof DEF Coordinator!Resume
  <1>6. CASE Coordinator!Abort(c)
    BY <1>6, CoordinatorSound DEF Coordinator!Abort, Aloof
  <1> QED
    BY <1>3, <1>4, <1>5, <1>6 DEF CallStep

\* And the teardowns.
LEMMA TeardownIsAloof ==
  ASSUME ManagedInv,
         \/ TeardownStep
         \/ \E d \in Closers : Coordinator!Disconnect(d)
         \/ \E succeeded \in BOOLEAN : Coordinator!ManagedStopped(succeeded)
  PROVE  Aloof
  <1> USE CoordinatorSound DEF Coordinator!coordVars, Coordinator!callVars, Aloof
  <1>1. CASE Coordinator!FinishTeardown
    BY <1>1 DEF Coordinator!FinishTeardown, BeforeStart, Coordinator!WaitPhases
  <1>2. CASE Coordinator!CollectOwned
    BY <1>2 DEF Coordinator!CollectOwned
  <1>3. CASE \E b \in Callers : Coordinator!CloseBackend(b)
    BY <1>3 DEF Coordinator!CloseBackend
  <1>4. CASE \E d \in Closers : Coordinator!Disconnect(d)
    BY <1>4 DEF Coordinator!Disconnect
  <1>5. CASE \E succeeded \in BOOLEAN : Coordinator!ManagedStopped(succeeded)
    BY <1>5 DEF Coordinator!ManagedStopped
  <1> QED
    BY <1>1, <1>2, <1>3, <1>4, <1>5 DEF TeardownStep

\* The answer to a stop.
LEMMA StopAnswersAreAloof ==
  ASSUME ManagedInv, NEW c \in Callers, NEW succeeded \in BOOLEAN,
         Coordinator!StopAnswered(c, succeeded)
  PROVE  Aloof
  BY SettlingIsAloof
  DEF Coordinator!StopAnswered, Coordinator!StopPhases, Coordinator!Results,
      Coordinator!Fail, Coordinator!Reject

-----------------------------------------------------------------------------
(* The steps that both have a part in. *)

\* A start is made: by the only operation there is, so no start is under way.
LEMMA CallStartAgrees ==
  ASSUME ManagedInv, NEW c \in Callers, CallStart(c)
  PROVE  Agreement'
  <1> USE NoneAssumption, SupervisorSound, CoordinatorSound
      DEF Supervisor!StartPhases, Supervisor!SpawnedPhases, Supervisor!Answers
  <1>1. /\ pc[c] \in {"locate", "recheck"} /\ pc' = [pc EXCEPT ![c] = "start"]
        /\ UNCHANGED <<proc, managed>>
    BY DEF CallStart, Coordinator!LocateDone, Coordinator!RecheckDone, Coordinator!Goto,
        Coordinator!Fail, Coordinator!Reject, Coordinator!Answer, Coordinator!Attach
  <1>2. /\ UNCHANGED <<current, child, handle>>
        /\ startPc[c] = "new"
        /\ \A x \in Callers : x # c => startPc'[x] = startPc[x] /\ startOn'[x] = startOn[x]
    BY DEF CallStart, Supervisor!Start, Supervisor!handleVars, Supervisor!StartUnchanged
  <1>3. \A x \in Callers : pc[x] # "start"
    BY <1>1 DEF Coordinator!OpPhases
  <1>4. starting = None
    BY <1>3 DEF ManagedInv, Agreement
  <1>5. /\ \A p \in Callers : handle[p] => p \in Taken
        /\ current # None => current \in Taken
    BY <1>3 DEF ManagedInv, Agreement
  <1>6. Taken' = Taken
    BY <1>1 DEF Taken
  <1>7. \/ startPc'[c] = "ok" /\ startOn'[c] = current /\ current # None
        \/ startPc'[c] \in {"failed", "retryStops"}
    BY <1>4, <1>2 DEF CallStart, Supervisor!Start
  <1>8. \A x \in Callers :
          /\ startPc'[x] # "joined"
          /\ startPc'[x] \in Supervisor!StartPhases => pc'[x] = "start"
          /\ pc'[x] \in BeforeStart => proc'[x] = None
          /\ proc'[x] # None => proc'[proc'[x]] = proc'[x] /\ handle'[proc'[x]]
    BY <1>1, <1>2, <1>3, <1>7 DEF ManagedInv, Agreement, BeforeStart, Coordinator!WaitPhases
  <1>9. \A x \in Callers : pc'[x] = "start" /\ startPc'[x] = "ok" => AnswerIsGood(x)'
    BY <1>1, <1>2, <1>3, <1>5, <1>6, <1>7 DEF AnswerIsGood
  <1>10. /\ managed' # None => managed' \in Taken'
         /\ \A p \in Callers : handle'[p] => p \in Taken'
    BY <1>1, <1>2, <1>5, <1>6 DEF ManagedInv, Agreement
  <1> QED
    BY <1>8, <1>9, <1>10 DEF Agreement

\* What a start was answered with, in the words of both.
LEMMA AnswerTaking ==
  ASSUME ManagedInv, NEW c \in Callers, startPc[c] = "ok", UNCHANGED supervisorVars,
         Coordinator!StartAnswered(c, startOn[c])
  PROVE  /\ proc[c] = None /\ startOn[c] \in Callers
         /\ pc' = [pc EXCEPT ![c] = pc'[c]] /\ pc'[c] \in {"verify", "stopCancelled"}
         /\ proc' = [proc EXCEPT ![c] = startOn[c]] /\ managed' = startOn[c]
         /\ Taken' = Taken \cup {startOn[c]}
         /\ \/ startOn[c] = current /\ current \in Taken
            \/ /\ startOn[c] = c /\ c \notin Taken /\ handle[c] /\ current \in {c, None}
               /\ child[c] = "live" <=> current = c
               /\ \A p \in Callers : handle[p] /\ child[p] = "live" => p = c
         /\ \A x \in Callers : pc[x] = "start" => x = c
  <1> USE NoneAssumption, SupervisorSound, CoordinatorSound
  <1>1. /\ pc[c] = "start"
        /\ pc' = [pc EXCEPT ![c] = pc'[c]] /\ pc'[c] \in {"verify", "stopCancelled"}
        /\ proc' = [proc EXCEPT ![c] = startOn[c]] /\ managed' = startOn[c]
    BY DEF Coordinator!StartAnswered
  <1>2. proc[c] = None /\ startOn[c] \in Callers /\ AnswerIsGood(c)
    BY <1>1 DEF ManagedInv, Agreement, BeforeStart
  <1>3. Taken' = Taken \cup {startOn[c]}
    BY <1>1, <1>2 DEF Taken
  <1>4. c \notin Taken
    BY <1>2 DEF Taken, ManagedInv, Agreement
  <1>5. \A x \in Callers : pc[x] = "start" => x = c
    BY <1>1 DEF Coordinator!OpPhases
  <1> QED
    BY <1>1, <1>2, <1>3, <1>4, <1>5 DEF AnswerIsGood

\* The answer is taken: what was active or fresh is now the coordinator's.
LEMMA StartAnsweredAgrees ==
  ASSUME ManagedInv, NEW c \in Callers, StartAnswered(c)
  PROVE  Agreement'
  <1>1. CASE startPc[c] = "ok" /\ Coordinator!StartAnswered(c, startOn[c])
    <2> USE NoneAssumption, SupervisorSound, CoordinatorSound
        DEF Supervisor!StartPhases, Supervisor!SpawnedPhases
    <2>0. UNCHANGED supervisorVars
      BY DEF StartAnswered
    <2>1. UNCHANGED <<current, startPc, startOn, child, handle>>
      BY <2>0 DEF supervisorVars
    <2>2. \A x \in Callers : proc[x] = startOn[c] => proc[startOn[c]] = startOn[c]
      BY <1>1, <2>0, AnswerTaking DEF ManagedInv, Agreement
    <2>3. proc'[startOn[c]] = startOn[c]
      BY <1>1, <2>0, <2>2, AnswerTaking DEF Taken
    <2>4. ASSUME NEW x \in Callers, proc'[x] # None
          PROVE  proc'[proc'[x]] = proc'[x] /\ handle'[proc'[x]]
      <3>1. CASE x = c
        BY <1>1, <2>0, <2>1, <2>3, <3>1, AnswerTaking
      <3>2. CASE x # c
        <4>1. proc'[x] = proc[x] /\ proc[x] # None /\ proc[x] \in Callers
          BY <1>1, <2>0, <2>4, <3>2, AnswerTaking
        <4>2. proc[proc[x]] = proc[x] /\ handle[proc[x]]
          BY <4>1 DEF ManagedInv, Agreement
        <4>3. proc[x] # c
          BY <1>1, <2>0, <4>2, <4>1, AnswerTaking
        <4> QED
          BY <1>1, <2>0, <2>1, <4>1, <4>2, <4>3, AnswerTaking
      <3> QED
        BY <3>1, <3>2
    <2>5. \A x \in Callers :
            /\ startPc'[x] # "joined"
            /\ startPc'[x] \in Supervisor!StartPhases => pc'[x] = "start"
            /\ pc'[x] \in BeforeStart => proc'[x] = None
            /\ pc'[x] # "start"
      BY <1>1, <2>0, <2>1, AnswerTaking
      DEF ManagedInv, Agreement, BeforeStart, Coordinator!WaitPhases
    <2>6. managed' # None => managed' \in Taken'
      BY <1>1, <2>0, AnswerTaking
    <2>7. \A p \in Callers : handle'[p] => p \in Taken'
      BY <1>1, <2>0, <2>1, AnswerTaking DEF ManagedInv, Agreement
    <2> QED
      BY <2>4, <2>5, <2>6, <2>7 DEF Agreement
  <1>2. CASE startPc[c] = "failed" /\ (Coordinator!Cancelled(c) \/ Coordinator!StartFailed(c))
    <2>1. Aloof
      BY <1>2, SettlingIsAloof
      DEF Coordinator!Cancelled, Coordinator!StartFailed, Coordinator!Results,
          Coordinator!Cancel, Coordinator!Fail, Coordinator!Reject
    <2>2. Quiet
      BY RestsQuietly DEF StartAnswered
    <2> QED
      BY <2>1, <2>2, AloofAndQuiet
  <1> QED
    BY <1>1, <1>2 DEF StartAnswered

\* A process given up, when no answer is on its way.
LEMMA GivingUpAgrees ==
  ASSUME ManagedInv, UNCHANGED coordinatorVars, UNCHANGED <<startPc, startOn, handle>>,
         current' \in {current, None},
         \A c \in Callers : ~(pc[c] = "start" /\ startPc[c] = "ok")
  PROVE  Agreement'
  <1>1. Taken' = Taken /\ UNCHANGED <<pc, proc, managed>>
    BY DEF Taken, coordinatorVars
  <1>2. \A p \in Callers : handle'[p] => p \in Taken'
    BY <1>1 DEF ManagedInv, Agreement
  <1> QED
    BY <1>1, <1>2 DEF ManagedInv, Agreement

\* Who awaits a stop was given the process, and awaits no start.
LEMMA AwaitingStop ==
  ASSUME ManagedInv, NEW p \in Callers, Coordinator!AwaitsStop(p)
  PROVE  /\ p \in Taken
         /\ \A c \in Callers : pc[c] # "start"
         /\ \A c \in Callers : pc[c] \in Coordinator!StopPhases => proc[c] = p
         /\ teardown.phase = "closing" => teardown.process = p
  <1> USE NoneAssumption, CoordinatorSound
      DEF Coordinator!OpPhases, Coordinator!StopPhases, ManagedInv, Agreement
  <1>1. CASE \E c \in Callers : pc[c] \in Coordinator!StopPhases /\ proc[c] = p
    BY <1>1 DEF Taken
  <1>2. CASE teardown.phase = "closing" /\ teardown.process = p
    BY <1>2
  <1> QED
    BY <1>1, <1>2 DEF Coordinator!AwaitsStop

\* A stop begins.
LEMMA CallStopAgrees ==
  ASSUME ManagedInv, NEW p \in Callers, CallStop(p)
  PROVE  Agreement'
  <1>1. /\ UNCHANGED <<startPc, startOn, handle>>
        /\ current' \in {current, None}
    BY DEF CallStop, Supervisor!Stop, Supervisor!BeginStop, Supervisor!handleVars,
        Supervisor!startVars
  <1> QED
    BY <1>1, AwaitingStop, GivingUpAgrees DEF CallStop

\* A child exits.
LEMMA ChildExitsAgrees ==
  ASSUME ManagedInv, NEW c \in Callers, ChildExits(c)
  PROVE  Agreement'
  <1>1. /\ UNCHANGED <<startPc, startOn, handle>>
        /\ current' \in {current, None}
    BY DEF ChildExits, Supervisor!ChildExits, Supervisor!startVars
  <1> QED
    BY <1>1, GivingUpAgrees DEF ChildExits, AnswerTaken, Supervisor!Answers

\* A handle is made: the start is answered with a fresh process, which runs alone.
LEMMA InitializedAgrees ==
  ASSUME ManagedInv, NEW c \in Callers, Supervisor!Initialized(c), UNCHANGED coordinatorVars,
         handle' # handle
  PROVE  /\ Agreement'
         /\ c \notin Taken /\ current = None /\ current' \in {c, None}
         /\ handle' = [handle EXCEPT ![c] = TRUE] /\ child' = child
  <1> USE NoneAssumption, SupervisorSound, CoordinatorSound
      DEF Supervisor!StartPhases, Supervisor!SpawnedPhases
  <1>1. /\ handle' = [handle EXCEPT ![c] = TRUE] /\ child' = child
        /\ current' = IF child[c] = "exited" THEN None ELSE c
        /\ startPc[c] = "initialize" /\ startPc' = Supervisor!Answered(c, "ok")
        /\ startOn' = [x \in Callers |->
                         IF x = c \/ (startPc[x] = "joined" /\ startOn[x] = c)
                         THEN c ELSE startOn[x]]
    BY DEF Supervisor!Initialized
  <1>2. Taken' = Taken /\ UNCHANGED <<pc, proc, managed>>
    BY DEF Taken, coordinatorVars
  <1>3. \A x \in Callers : startPc[x] # "joined"
    BY DEF ManagedInv, Agreement
  <1>4. /\ startPc'[c] = "ok" /\ startOn'[c] = c
        /\ \A x \in Callers : x # c => startPc'[x] = startPc[x] /\ startOn'[x] = startOn[x]
    BY <1>1, <1>3 DEF Supervisor!Answered
  <1>5. pc[c] = "start" /\ \A x \in Callers : pc[x] = "start" => x = c
    BY <1>1 DEF ManagedInv, Agreement, Coordinator!OpPhases
  <1>6. c \notin Taken
    BY <1>1 DEF ManagedInv, Agreement, Taken
  <1>7. AnswerIsGood(c)'
    <2>1. child[c] # "none" /\ \A k \in Callers : child[k] = "live" => k = c
      BY <1>1
    <2> QED
      BY <2>1, <1>1, <1>4 DEF AnswerIsGood
  <1>8. \A x \in Callers :
          /\ startPc'[x] # "joined"
          /\ startPc'[x] \in Supervisor!StartPhases => pc'[x] = "start"
          /\ pc'[x] \in BeforeStart => proc'[x] = None
          /\ proc'[x] # None => proc'[proc'[x]] = proc'[x] /\ handle'[proc'[x]]
    BY <1>1, <1>2, <1>3, <1>4, <1>5 DEF ManagedInv, Agreement
  <1>9. \A x \in Callers : pc'[x] = "start" /\ startPc'[x] = "ok" => AnswerIsGood(x)'
    BY <1>2, <1>5, <1>7
  <1>10. current = None /\ current' \in {c, None}
    BY <1>1
  <1>11. managed' # None => managed' \in Taken'
    BY <1>2 DEF ManagedInv, Agreement
  <1>12. \A p \in Callers : handle'[p] /\ p \notin Taken' =>
           pc'[p] = "start" /\ startPc'[p] = "ok" /\ startOn'[p] = p
    <2>1. \A p \in Callers : handle[p] /\ p \notin Taken => p = c
      BY <1>5 DEF ManagedInv, Agreement
    <2> QED
      BY <1>1, <1>2, <1>4, <1>5, <2>1
  <1> QED
    BY <1>1, <1>6, <1>8, <1>9, <1>10, <1>11, <1>12 DEF Agreement

\* The supervisor's own steps.
LEMMA SupervisorStepAgrees ==
  ASSUME ManagedInv, NEW c \in Callers, SupervisorStep(c)
  PROVE  Agreement'
  <1>1. CASE Supervisor!StartStep(c) /\ handle' = handle
    BY <1>1, StartStepsAreQuiet, RestsAloof, AloofAndQuiet DEF SupervisorStep
  <1>2. CASE Supervisor!StartStep(c) /\ handle' # handle
    <2>1. Supervisor!Initialized(c)
      BY <1>2 DEF Supervisor!StartStep, Supervisor!RetryStop, Supervisor!StopsRetried,
          Supervisor!StartupRetried, Supervisor!Spawn, Supervisor!Ready, Supervisor!Cleanup,
          Supervisor!StartUnchanged
    <2> QED
      BY <1>2, <2>1, InitializedAgrees DEF SupervisorStep
  <1>3. CASE Supervisor!StopSettles(c)
    BY <1>3, StopsSettleQuietly, RestsAloof, AloofAndQuiet DEF SupervisorStep
  <1> QED
    BY <1>1, <1>2, <1>3 DEF SupervisorStep

\* A stop is answered: the supervisor settles it, the coordinator goes on.
LEMMA StopReturnsAgrees ==
  ASSUME ManagedInv, NEW p \in Callers, StopReturns(p)
  PROVE  Agreement'
  <1>1. Quiet
    BY StopsSettleQuietly, RestsQuietly DEF StopReturns
  <1>2. Aloof
    BY StopAnswersAreAloof, TeardownIsAloof DEF StopReturns
  <1> QED
    BY <1>1, <1>2, AloofAndQuiet

\* So the two agree after every step.
LEMMA AgreementStays ==
  ASSUME ManagedInv, [Next]_vars
  PROVE  Agreement'
  <1>1. ASSUME NEW c \in Callers, CallStep(c) \/ OperationStep(c)
        PROVE  Agreement'
    BY <1>1, CallsAreAloof, OperationIsAloof, RestsQuietly, AloofAndQuiet
    DEF CallStep, OperationStep
  <1>2. ASSUME NEW c \in Callers, CallStart(c) \/ StartAnswered(c) \/ CallStop(c) \/ StopReturns(c)
                                  \/ SupervisorStep(c) \/ ChildExits(c)
        PROVE  Agreement'
    BY <1>2, CallStartAgrees, StartAnsweredAgrees, CallStopAgrees, StopReturnsAgrees,
       SupervisorStepAgrees, ChildExitsAgrees
  <1>3. ASSUME NEW c \in Callers, Abort(c)
        PROVE  Agreement'
    BY <1>3, CallsAreAloof, PassesOnQuietly, AloofAndQuiet DEF Abort
  <1>4. ASSUME NEW d \in Closers, Disconnect(d)
        PROVE  Agreement'
    BY <1>4, TeardownIsAloof, PassesOnQuietly, AloofAndQuiet DEF Disconnect
  <1>5. CASE TeardownStep
    BY <1>5, TeardownIsAloof, RestsQuietly, AloofAndQuiet DEF TeardownStep
  <1>6. CASE UNCHANGED vars
    BY <1>6, RestsAloof, RestsQuietly, AloofAndQuiet DEF vars
  <1> QED
    BY <1>1, <1>2, <1>3, <1>4, <1>5, <1>6 DEF Next

-----------------------------------------------------------------------------
(* The coordinator: each step is one Connection has, or leaves it alone. *)

\* Its variables, with what it knows of the supervisor.
LEMMA CoordinatorRests ==
  ASSUME UNCHANGED coordinatorVars, Active' = Active, Running' = Running
  PROVE  UNCHANGED Coordinator!vars
  BY DEF coordinatorVars, Coordinator!vars, Coordinator!coordVars, Coordinator!countVars,
      Coordinator!callVars, Coordinator!worldVars

\* A quiet step of the supervisor shows nothing.
LEMMA QuietShowsNothing ==
  ASSUME ManagedInv, Quiet, Taken' = Taken
  PROVE  Active' = Active /\ Running' = Running
  BY DEF Quiet, Active, Running, Taken

\* The answer to a start is one Connection has: the active process once more, or a
\* fresh one that runs alone.
LEMMA AnswerIsOneOfConnection ==
  ASSUME ManagedInv, NEW c \in Callers, StartAnswered(c)
  PROVE  Coordinator!OperationStep(c)
  <1>0. Coordinator!ReactionsRun /\ UNCHANGED supervisorVars
    BY DEF StartAnswered
  <1>1. CASE startPc[c] = "ok" /\ Coordinator!StartAnswered(c, startOn[c])
    <2> USE NoneAssumption, SupervisorSound, CoordinatorSound
    <2>1. UNCHANGED <<current, child, handle>>
      BY <1>0 DEF supervisorVars
    <2>2. Taken \subseteq Callers /\ None \notin Taken /\ None \notin Taken'
      BY DEF Taken
    <2>3. CASE startOn[c] = current /\ current \in Taken
      <3>0. Taken' = Taken \cup {current}
        BY <1>0, <1>1, <2>3, AnswerTaking
      <3>1. Taken' = Taken
        BY <3>0, <2>3
      <3>2. Active = startOn[c] /\ Active # None /\ Active' = Active /\ Running' = Running
        BY <2>1, <2>2, <2>3, <3>1 DEF Active, Running
      <3>3. Coordinator!StartDone(c)
        BY <1>1, <3>2 DEF Coordinator!StartDone
      <3> QED
        BY <1>0, <3>3 DEF Coordinator!OperationStep
    <2>4. CASE /\ startOn[c] = c /\ c \notin Taken /\ handle[c] /\ current \in {c, None}
               /\ child[c] = "live" <=> current = c
               /\ \A p \in Callers : handle[p] /\ child[p] = "live" => p = c
      <3>1. Taken' = Taken \cup {c}
        BY <1>0, <1>1, <2>4, AnswerTaking
      <3>2. Active = None
        BY <2>2, <2>4 DEF Active
      <3>3. \/ Active' = c /\ Running' = {c}
            \/ Active' = None /\ Running' = {}
        <4>1. CASE child[c] = "live"
          <5>1. Active' = c
            BY <2>1, <2>4, <3>1, <4>1 DEF Active
          <5>2. Running' = {c}
            BY <2>1, <2>2, <2>4, <3>1, <4>1 DEF Running
          <5> QED
            BY <5>1, <5>2
        <4>2. CASE child[c] # "live"
          <5>1. Active' = None
            BY <2>1, <2>2, <2>4, <3>1, <4>2 DEF Active
          <5>2. Running' = {}
            BY <2>1, <2>2, <2>4, <3>1, <4>2 DEF Running
          <5> QED
            BY <5>1, <5>2
        <4> QED
          BY <4>1, <4>2
      <3>4. Coordinator!StartDone(c)
        BY <1>1, <2>4, <3>2, <3>3 DEF Coordinator!StartDone
      <3> QED
        BY <1>0, <3>4 DEF Coordinator!OperationStep
    <2> QED
      BY <1>0, <1>1, <2>3, <2>4, AnswerTaking
  <1>2. CASE startPc[c] = "failed" /\ (Coordinator!Cancelled(c) \/ Coordinator!StartFailed(c))
    BY <1>0, <1>2 DEF Coordinator!OperationStep
  <1> QED
    BY <1>1, <1>2 DEF StartAnswered

\* A stop that begins gives the active process up, or shows nothing.
LEMMA CallStopIsOneOfConnection ==
  ASSUME ManagedInv, NEW p \in Callers, CallStop(p)
  PROVE  Coordinator!StopBegins(p) \/ UNCHANGED Coordinator!vars
  <1> USE NoneAssumption, SupervisorSound
  <1>1. /\ UNCHANGED <<child, handle>> /\ UNCHANGED coordinatorVars
        /\ current' = IF current = p /\ ~(stopping[p] \/ stopped[p]) THEN None ELSE current
        /\ ~stopped[p] /\ Coordinator!AwaitsStop(p)
    BY DEF CallStop, Supervisor!Stop, Supervisor!BeginStop, Supervisor!handleVars
  <1>2. Taken' = Taken /\ Running' = Running
    BY <1>1 DEF coordinatorVars, Taken, Running
  <1>3. p \in Taken
    BY <1>1, AwaitingStop
  <1>4. CASE current = p
    <2>1. Active = p /\ Active' = None
      BY <1>1, <1>2, <1>3, <1>4 DEF Active
    <2> QED
      BY <1>1, <1>2, <2>1 DEF coordinatorVars, Coordinator!StopBegins,
          Coordinator!coordVars, Coordinator!countVars, Coordinator!callVars
  <1>5. CASE current # p
    BY <1>1, <1>2, <1>5, CoordinatorRests DEF Active
  <1> QED
    BY <1>4, <1>5

\* A stop that is answered succeeds when the process has exited.
LEMMA StopIsOneOfConnection ==
  ASSUME ManagedInv, NEW p \in Callers, StopReturns(p)
  PROVE  (\E c \in Callers : Coordinator!OperationStep(c)) \/ Coordinator!TeardownStep
  <1> USE NoneAssumption, SupervisorSound, CoordinatorSound
  <1>1. PICK succeeded \in BOOLEAN :
          /\ \/ Supervisor!StopSettles(p) /\ succeeded = stopped'[p]
             \/ stopped[p] /\ ~stopping[p] /\ succeeded /\ UNCHANGED supervisorVars
          /\ \/ \E c \in Callers : Coordinator!StopAnswered(c, succeeded)
             \/ Coordinator!ManagedStopped(succeeded)
    BY DEF StopReturns
  <1>2. Coordinator!ReactionsRun /\ Coordinator!AwaitsStop(p)
    BY DEF StopReturns
  <1>3. proc' = proc /\ Taken' = Taken
    BY <1>1 DEF Coordinator!StopAnswered, Coordinator!ManagedStopped, Coordinator!callVars, Taken
  <1>4. Active' = Active /\ Running' = Running
    BY <1>1, <1>3, StopsSettleQuietly, RestsQuietly, QuietShowsNothing
  <1>5. stopped[p] /\ (succeeded => child[p] = "exited")
    BY <1>1 DEF Supervisor!StopSettles
  <1>6. Coordinator!StopProcess(p, succeeded)
    <2>1. Active # p
      BY <1>5 DEF Active
    <2>2. succeeded => p \notin Running
      BY <1>5 DEF Running
    <2> QED
      BY <1>4, <2>1, <2>2 DEF Coordinator!StopProcess
  <1>7. ASSUME NEW c \in Callers, Coordinator!StopAnswered(c, succeeded)
        PROVE  Coordinator!OperationStep(c)
    <2>1. proc[c] = p
      BY <1>2, <1>7, AwaitingStop DEF Coordinator!StopAnswered
    <2>2. Coordinator!StopAfterFailure(c)
      BY <1>6, <1>7, <2>1 DEF Coordinator!StopAfterFailure
    <2> QED
      BY <1>2, <2>2 DEF Coordinator!OperationStep
  <1>8. CASE Coordinator!ManagedStopped(succeeded)
    <2>1. teardown.process = p
      BY <1>2, <1>8, AwaitingStop DEF Coordinator!ManagedStopped
    <2>2. Coordinator!StopManaged
      BY <1>6, <1>8, <2>1 DEF Coordinator!StopManaged
    <2> QED
      BY <1>2, <2>2 DEF Coordinator!TeardownStep
  <1> QED
    BY <1>1, <1>7, <1>8

\* The supervisor works underneath; what it makes is not known before it is handed out.
LEMMA SupervisorShowsNothing ==
  ASSUME ManagedInv, NEW c \in Callers, SupervisorStep(c)
  PROVE  UNCHANGED Coordinator!vars
  <1> USE NoneAssumption, SupervisorSound
  <1>1. Taken' = Taken /\ UNCHANGED coordinatorVars
    BY DEF SupervisorStep, coordinatorVars, Taken
  <1>2. CASE Supervisor!StartStep(c) /\ handle' = handle
    BY <1>1, <1>2, StartStepsAreQuiet, QuietShowsNothing, CoordinatorRests
  <1>3. CASE Supervisor!StartStep(c) /\ handle' # handle
    <2>1. Supervisor!Initialized(c)
      BY <1>3 DEF Supervisor!StartStep, Supervisor!RetryStop, Supervisor!StopsRetried,
          Supervisor!StartupRetried, Supervisor!Spawn, Supervisor!Ready, Supervisor!Cleanup,
          Supervisor!StartUnchanged
    <2>2. /\ c \notin Taken /\ current = None /\ current' \in {c, None}
          /\ handle' = [handle EXCEPT ![c] = TRUE] /\ child' = child
      BY <1>1, <1>3, <2>1, InitializedAgrees
    <2>3. Active' = Active
      BY <1>1, <2>2 DEF Active
    <2>4. Running' = Running
      BY <1>1, <2>2 DEF Running, Taken
    <2> QED
      BY <1>1, <2>3, <2>4, CoordinatorRests
  <1>4. CASE Supervisor!StopSettles(c)
    BY <1>1, <1>4, StopsSettleQuietly, QuietShowsNothing, CoordinatorRests
  <1> QED
    BY <1>2, <1>3, <1>4 DEF SupervisorStep

\* A child that exits is one Connection knows to run, or none it knows.
LEMMA ExitIsOneOfConnection ==
  ASSUME ManagedInv, NEW c \in Callers, ChildExits(c)
  PROVE  Coordinator!ProcessExits(c) \/ UNCHANGED Coordinator!vars
  <1> USE NoneAssumption, SupervisorSound
  <1>1. /\ Taken' = Taken /\ UNCHANGED coordinatorVars
        /\ child[c] = "live" /\ child' = [child EXCEPT ![c] = "exited"] /\ handle' = handle
        /\ current' = IF handle[c] /\ current = c THEN None ELSE current
    BY DEF ChildExits, Supervisor!ChildExits, coordinatorVars, Taken
  <1>2. CASE c \in Taken
    <2>1. handle[c]
      BY <1>2 DEF Taken, ManagedInv, Agreement
    <2>2. c \in Running /\ Running' = Running \ {c}
      BY <1>1, <1>2, <2>1 DEF Running, Taken
    <2>3. Active' = IF Active = c THEN None ELSE Active
      BY <1>1, <1>2, <2>1 DEF Active
    <2> QED
      BY <1>1, <2>2, <2>3 DEF coordinatorVars, Coordinator!ProcessExits,
          Coordinator!coordVars, Coordinator!countVars, Coordinator!callVars
  <1>3. CASE c \notin Taken
    <2>1. Running' = Running /\ Active' = Active
      BY <1>1, <1>3 DEF Running, Active, Taken
    <2> QED
      BY <1>1, <2>1, CoordinatorRests
  <1> QED
    BY <1>2, <1>3

\* Every step of the composition, as the coordinator sees it.
LEMMA CoordinatorSteps ==
  ASSUME ManagedInv, [Next]_vars
  PROVE  [Coordinator!Next]_(Coordinator!vars)
  <1>1. ASSUME NEW c \in Callers, CallStep(c) \/ Abort(c)
        PROVE  Coordinator!Next
    BY <1>1 DEF CallStep, Abort, Coordinator!Next
  <1>2. ASSUME NEW c \in Callers, OperationStep(c) \/ CallStart(c)
        PROVE  Coordinator!Next
    BY <1>2 DEF OperationStep, CallStart, Coordinator!OperationStep, Coordinator!Next
  <1>3. ASSUME NEW c \in Callers, StartAnswered(c) \/ StopReturns(c)
        PROVE  Coordinator!Next
    BY <1>3, AnswerIsOneOfConnection, StopIsOneOfConnection DEF Coordinator!Next
  <1>4. ASSUME NEW c \in Callers, CallStop(c) \/ SupervisorStep(c) \/ ChildExits(c)
        PROVE  [Coordinator!Next]_(Coordinator!vars)
    BY <1>4, CallStopIsOneOfConnection, SupervisorShowsNothing, ExitIsOneOfConnection
    DEF Coordinator!Next
  <1>5. ASSUME NEW d \in Closers, Disconnect(d)
        PROVE  Coordinator!Next
    BY <1>5 DEF Disconnect, Coordinator!Next
  <1>6. CASE TeardownStep
    BY <1>6 DEF TeardownStep, Coordinator!TeardownStep, Coordinator!Next
  <1>7. CASE UNCHANGED vars
    BY <1>7, RestsQuietly, QuietShowsNothing, CoordinatorRests DEF vars, coordinatorVars, Taken
  <1> QED
    BY <1>1, <1>2, <1>3, <1>4, <1>5, <1>6, <1>7 DEF Next

-----------------------------------------------------------------------------
(* The theorems. *)

\* They start agreed.
LEMMA ManagedInit ==
  ASSUME Init
  PROVE  ManagedInv
  <1>1. ConnectionTheory!ConnectionInv
    BY SameInit, NoneAssumption, ModeAssumption, ConnectionTheory!InitInv
    DEF Init, Coordinator!Modes, ConnectionTheory!Modes
  <1>2. SupervisorTheory!SupervisorInv
    BY SameInit, NoneAssumption, SupervisorTheory!SupervisorInit DEF Init
  <1>3. SupervisorTheory!HandoutsSound
    BY DEF Init, Supervisor!Init, SupervisorTheory!HandoutsSound, SupervisorTheory!SpawnedPhases
  <1>4. Agreement
    BY DEF Init, Supervisor!Init, Coordinator!Init, Agreement, Supervisor!StartPhases,
       Supervisor!SpawnedPhases
  <1> QED
    BY <1>1, <1>2, <1>3, <1>4 DEF ManagedInv

\* And stay so.
LEMMA ManagedNext ==
  ASSUME ManagedInv, [Next]_vars
  PROVE  ManagedInv'
  <1>1. ConnectionTheory!ConnectionInv'
    BY CoordinatorSteps, CoordinatorStays DEF ManagedInv
  <1>2. SupervisorTheory!SupervisorInv' /\ SupervisorTheory!HandoutsSound'
    BY SupervisorSteps, SupervisorStays DEF ManagedInv
  <1> QED
    BY <1>1, <1>2, AgreementStays DEF ManagedInv

\* What the coordinator believes of the process it manages, of the stops it awaits and of the
\* start it has called is always what the supervisor knows of them.
THEOREM PartsAgree == Spec => []ManagedInv
  <1>1. Init => ManagedInv
    BY ManagedInit
  <1>2. ManagedInv /\ [Next]_vars => ManagedInv'
    BY ManagedNext
  <1> QED
    BY <1>1, <1>2, PTL DEF Spec

\* With its only client the supervisor behaves as ProcessSupervisor says: what
\* ProcessSupervisorProofs shows of it holds here.
THEOREM SupervisorUnderConnection == Spec => RunsAsSupervisor
  <1>1. Init => Supervisor!Init
    BY DEF Init
  <1>2. [Next]_vars => [Supervisor!Next]_(Supervisor!vars)
    BY SupervisorSteps
  <1> QED
    BY <1>1, <1>2, PTL DEF Spec, RunsAsSupervisor, Supervisor!Spec

\* With the supervisor as it is, calls, aborts, late answers, retried stops and exits
\* included, the coordinator behaves as Connection says.
THEOREM ConnectionIsImplemented == Spec => RunsAsConnection
  <1>1. Init => Coordinator!Init
    BY DEF Init
  <1>2. ManagedInv /\ [Next]_vars => [Coordinator!Next]_(Coordinator!vars)
    BY CoordinatorSteps
  <1> QED
    BY <1>1, <1>2, PartsAgree, PTL DEF Spec, RunsAsConnection, Coordinator!Spec

\* After a successful disconnect() the coordinator holds nothing, and of the processes made
\* for any call the only one that may live is the one start() hands out again.
THEOREM DisconnectLeavesNoSurvivor == Spec => DisconnectReleases
  <1> DEFINE Released == \A d \in Closers : closer[d] # "ok" /\ closer'[d] = "ok" =>
                           /\ backend' = None /\ orphaned' = {} /\ managed' = None
                           /\ \A c \in Callers : pc'[c] \notin Coordinator!OpPhases
             NoSurvivor == \A d \in Closers : closer[d] # "ok" /\ closer'[d] = "ok" =>
                             \A p \in Callers : handle'[p] /\ child'[p] = "live" => p = current'
  <1>1. ManagedInv /\ [Next]_vars => [Released]_(Coordinator!vars)
    <2> SUFFICES ASSUME ManagedInv, [Next]_vars,
                        NEW d \in Closers, closer[d] # "ok", closer'[d] = "ok"
                 PROVE  /\ backend' = None /\ orphaned' = {} /\ managed' = None
                        /\ \A c \in Callers : pc'[c] \notin Coordinator!OpPhases
      OBVIOUS
    <2>1. ConnectionTheory!Next
      BY CoordinatorSteps, SameCoordinator DEF Coordinator!vars
    <2> QED
      BY <2>1, NoneAssumption, ModeAssumption, ConnectionTheory!SuccessIsComplete
      DEF ManagedInv, Coordinator!Modes, ConnectionTheory!Modes, Coordinator!OpPhases,
          ConnectionTheory!OpPhases
  <1>2. ManagedInv /\ [Next]_vars => [NoSurvivor]_vars
    <2> SUFFICES ASSUME ManagedInv, Next, NEW d \in Closers, closer[d] # "ok", closer'[d] = "ok",
                        NEW p \in Callers, handle'[p], child'[p] = "live"
                 PROVE  p = current'
      OBVIOUS
    <2>1. managed' = None /\ \A c \in Callers : pc'[c] \notin Coordinator!OpPhases
      BY <1>1 DEF Coordinator!vars
    <2>2. ManagedInv'
      BY ManagedNext
    <2>3. p \in Taken'
      BY <2>1, <2>2 DEF ManagedInv, Agreement, Coordinator!OpPhases
    <2>4. p \in Running'
      BY <2>3 DEF Running
    <2>5. p # Active' => managed' = p
      BY <2>2, <2>4 DEF ManagedInv, ConnectionTheory!ConnectionInv,
         ConnectionTheory!FailedStopIsRetained
    <2> QED
      BY <2>1, <2>3, <2>5, NoneAssumption DEF Active
  <1> QED
    BY <1>1, <1>2, PartsAgree, PTL DEF Spec, DisconnectReleases, Coordinator!DisconnectReleases
=============================================================================
