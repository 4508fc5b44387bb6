-------------------------- MODULE ConnectionProofs --------------------------
(***************************************************************************)
(* Proofs about the connection coordinator.  ConnectionInv is inductive;   *)
(* every safety property of Connection follows from it.                    *)
(***************************************************************************)
EXTENDS Connection, TLAPS

\* The initial state, before any call.
LEMMA InitInv == Init => ConnectionInv
  <1> SUFFICES ASSUME Init PROVE ConnectionInv
      OBVIOUS
  <1> USE DEF Init, NoTeardown
  <1>1. TypeOK
      BY NoneAssumption DEF TypeOK, StateKinds, TeardownPhases
  <1>2. OperationInv
      BY NoneAssumption DEF OperationInv, OpPhases, StopPhases
  <1>3. TeardownInv /\ SurvivorInv /\ ConnectedHasBackend /\ IdleHoldsNothing
      BY DEF TeardownInv, SurvivorInv, StopPhases, ConnectedHasBackend, IdleHoldsNothing
  <1>4. WaiterInv
      BY DEF WaiterInv
  <1>5. BackendsOwned /\ FailedStopIsRetained
      BY NoneAssumption DEF BackendsOwned, FailedStopIsRetained
  <1> QED
      BY <1>1, <1>2, <1>3, <1>4, <1>5 DEF ConnectionInv

\* An operation moves to another of its phases.
LEMMA GotoKeepsInv ==
  ASSUME ConnectionInv, ReactionsRun, OpUnchanged,
         NEW c \in Callers, pc[c] \in OpPhases,
         NEW phase \in OpPhases, NEW published \in StateKinds,
         published # "idle", published # "connected",
         Goto(c, phase, published),
         pc[c] \notin StopPhases,
         phase \in {"verify"} \cup StopPhases => pc[c] = "verify",
         UNCHANGED <<proc, running, active>>,
         prepared' \subseteq Requests,
         opened' = IF phase = "closeStale" THEN {c} ELSE {}
  PROVE  ConnectionInv'
  <1> USE DEF ConnectionInv
  <1>0. /\ inFlight = c /\ backend = None /\ orphaned = {}
        /\ c # None
        /\ \A x \in Callers : pc[x] \in OpPhases => x = c
        /\ pc' = [pc EXCEPT ![c] = phase] /\ state' = published
        /\ UNCHANGED <<inFlight, backend, connectedRequest, orphaned, managed>>
        /\ UNCHANGED <<countVars, teardown, req, intent, opGen, waits, aborted,
                       cut, closer>>
      BY NoneAssumption DEF OperationInv, StopPhases, Goto, OpUnchanged
  <1>1. TypeOK'
      BY <1>0 DEF TypeOK, countVars, OpPhases, StopPhases
  <1>2. OperationInv'
      <2>1. pc'[c] = phase /\ \A x \in Callers \ {c} : pc'[x] \notin OpPhases
          BY <1>0 DEF TypeOK
      <2>2. \A x \in Callers \ {c} : pc'[x] \notin {"verify"} \cup StopPhases
          BY <2>1 DEF OpPhases, StopPhases
      <2> QED
          BY <1>0, <2>1, <2>2 DEF OperationInv, countVars
  <1>3. TeardownInv'
      BY <1>0 DEF TeardownInv, TypeOK
  <1>4. WaiterInv'
      BY <1>0 DEF WaiterInv, countVars, TypeOK, OpPhases, StopPhases, ReactionsRun, NoResume
  <1>5. SurvivorInv' /\ ConnectedHasBackend' /\ IdleHoldsNothing'
      BY <1>0 DEF SurvivorInv, ConnectedHasBackend, IdleHoldsNothing, OperationInv
  <1>6. BackendsOwned'
      <2>1. \A x \in Callers : pc'[x] = "closeStale" <=> x = c /\ phase = "closeStale"
          BY <1>0 DEF TypeOK, OpPhases, StopPhases
      <2>2. backend' = None /\ orphaned' = {}
          BY <1>0
      <2>3. \A x \in Callers : x # None
          BY NoneAssumption
      <2> QED
          BY <2>1, <2>2, <2>3 DEF BackendsOwned
  <1>7. FailedStopIsRetained'
      BY <1>0 DEF FailedStopIsRetained
  <1> QED
      BY <1>1, <1>2, <1>3, <1>4, <1>5, <1>6, <1>7

\* An operation fails or is cancelled, and everyone who joined it with it.
LEMMA RejectKeepsInv ==
  ASSUME ConnectionInv, ReactionsRun, OpUnchanged,
         NEW c \in Callers, pc[c] \in OpPhases,
         NEW result \in {"cancelled", "failed"}, NEW published \in StateKinds,
         published # "idle", published # "connected",
         NEW held \in Callers \cup {None}, NEW stale \in SUBSET Callers,
         Reject(c, result, published, held, stale),
         proc' \in [Callers -> Callers \cup {None}],
         running' \in SUBSET Callers, active' \in Callers \cup {None},
         prepared' \subseteq Requests,
         opened' = stale,
         \A p \in running' : p # active' => held = p /\ published = "failed"
  PROVE  ConnectionInv'
  <1> USE DEF ConnectionInv
  <1>0. /\ inFlight = c /\ backend = None /\ c # None
        /\ \A x \in Callers : pc[x] \in OpPhases => x = c
        /\ pc' = [x \in Callers |->
             IF x = c \/ (pc[x] = "joined" /\ waits[x] = c) THEN result ELSE pc[x]]
        /\ state' \in {"idle", published}
        /\ state' = "idle" => held = None /\ stale = {}
        /\ inFlight' = None /\ managed' = held /\ orphaned' = stale
        /\ UNCHANGED <<backend, connectedRequest>>
        /\ UNCHANGED <<countVars, teardown, req, intent, opGen, waits, aborted,
                       cut, closer>>
      BY NoneAssumption
      DEF OperationInv, StopPhases, Reject, Answer, ClearInFlight, OpUnchanged
  <1>1. TypeOK'
      BY <1>0 DEF TypeOK, countVars, Results, StateKinds
  <1>2. \A x \in Callers : pc'[x] \notin OpPhases
      BY <1>0 DEF TypeOK, OpPhases, StopPhases
  <1>3. OperationInv'
      BY <1>0, <1>2, NoneAssumption DEF OperationInv, OpPhases, StopPhases
  <1>4. TeardownInv'
      BY <1>0, NoneAssumption DEF TeardownInv, TypeOK
  <1>5. WaiterInv'
      BY <1>0 DEF WaiterInv, countVars, TypeOK, ReactionsRun, NoResume
  <1>6. SurvivorInv' /\ ConnectedHasBackend' /\ IdleHoldsNothing'
      <2>1. ConnectedHasBackend' /\ IdleHoldsNothing'
          BY <1>0 DEF ConnectedHasBackend, IdleHoldsNothing
      <2>2. SurvivorInv'
          BY <1>0, NoneAssumption DEF SurvivorInv, StopPhases
      <2> QED
          BY <2>1, <2>2
  <1>7. BackendsOwned'
      BY <1>0, <1>2, NoneAssumption DEF BackendsOwned, OpPhases, StopPhases
  <1>8. FailedStopIsRetained'
      BY <1>0 DEF FailedStopIsRetained
  <1> QED
      BY <1>1, <1>3, <1>4, <1>5, <1>6, <1>7, <1>8

\* Where an operation in flight stands: nothing is open but what it is closing.
LEMMA OperationFacts ==
  ASSUME ConnectionInv, NEW c \in Callers, pc[c] \in OpPhases
  PROVE  /\ inFlight = c /\ backend = None /\ orphaned = {} /\ c # None
         /\ state \in StateKinds /\ state # "idle" /\ state # "connected"
         /\ opened = IF pc[c] = "closeStale" THEN {c} ELSE {}
         /\ pc[c] \notin StopPhases => running \subseteq {active}
         /\ pc[c] \in StopPhases =>
              managed = proc[c] /\ managed # None /\ running \subseteq {managed}
         /\ running \in SUBSET Callers /\ active \in Callers \cup {None}
         /\ managed \in Callers \cup {None} /\ orphaned \in SUBSET Callers
         /\ prepared \subseteq Requests /\ req[c] \in Requests
         /\ proc \in [Callers -> Callers \cup {None}]
         /\ teardown.phase \in {"none", "awaitOp"}
  <1> USE DEF ConnectionInv
  <1>1. /\ inFlight = c /\ backend = None /\ orphaned = {} /\ c # None
        /\ state # "idle"
        /\ pc[c] \notin StopPhases => running \subseteq {active}
        /\ pc[c] \in StopPhases =>
             managed = proc[c] /\ managed # None /\ running \subseteq {managed}
        /\ \A x \in Callers : pc[x] \in OpPhases => x = c
      BY NoneAssumption DEF OperationInv, StopPhases
  <1>2. state \in StateKinds /\ state # "connected"
      BY <1>1 DEF TypeOK, ConnectedHasBackend
  <1>3. opened = IF pc[c] = "closeStale" THEN {c} ELSE {}
      <2>1. \A x \in Callers : pc[x] = "closeStale" => x = c
          BY <1>1 DEF OpPhases, StopPhases
      <2>2. \A x \in Callers : x # None
          BY NoneAssumption
      <2> QED
          BY <1>1, <2>1, <2>2 DEF BackendsOwned
  <1>4. /\ running \in SUBSET Callers /\ active \in Callers \cup {None}
        /\ managed \in Callers \cup {None} /\ orphaned \in SUBSET Callers
        /\ prepared \subseteq Requests /\ req[c] \in Requests
        /\ proc \in [Callers -> Callers \cup {None}]
      BY <1>1 DEF TypeOK
  <1>5. teardown.phase \in {"none", "awaitOp"}
      BY <1>1 DEF TypeOK, TeardownInv
  <1> QED
      BY <1>1, <1>2, <1>3, <1>4, <1>5

\* Every step of an operation.
LEMMA OperationKeepsInv ==
  ASSUME ConnectionInv, NEW c \in Callers, OperationStep(c)
  PROVE  ConnectionInv'
  <1>0. ReactionsRun /\ ConnectionInv
      BY DEF OperationStep
  <1> DEFINE Op == pc[c] \in OpPhases
  <1> DEFINE Facts ==
        /\ inFlight = c /\ backend = None /\ orphaned = {} /\ c # None
        /\ state \in StateKinds /\ state # "idle" /\ state # "connected"
        /\ opened = IF pc[c] = "closeStale" THEN {c} ELSE {}
        /\ pc[c] \notin StopPhases => running \subseteq {active}
        /\ pc[c] \in StopPhases =>
             managed = proc[c] /\ managed # None /\ running \subseteq {managed}
        /\ running \in SUBSET Callers /\ active \in Callers \cup {None}
        /\ managed \in Callers \cup {None} /\ orphaned \in SUBSET Callers
        /\ prepared \subseteq Requests /\ req[c] \in Requests
        /\ proc \in [Callers -> Callers \cup {None}]
  <1>f. Op => Facts
      BY OperationFacts
  <1>kinds. {"discovering", "connecting", "locating-runtime", "runtime-missing",
             "starting", "port-conflict", "stopping", "failed"} \subseteq StateKinds
      BY DEF StateKinds
  <1> HIDE DEF Facts
  <1>1. CASE Cancelled(c)
      <2>0. /\ Op /\ Facts /\ OpUnchanged /\ UNCHANGED <<proc, worldVars>>
            /\ Reject(c, "cancelled", state, managed, orphaned)
            /\ opened' = orphaned /\ running \subseteq {active}
          BY <1>1, <1>f DEF Cancelled, Cancel, OpPhases, StopPhases, worldVars, Facts
      <2> QED
          BY <1>0, <2>0, RejectKeepsInv DEF worldVars, Facts
  <1>2. CASE SearchDone(c)
      <2>0. /\ Op /\ Facts /\ OpUnchanged /\ UNCHANGED <<proc, worldVars>>
            /\ pc[c] = "search" /\ running \subseteq {active} /\ opened = {}
          BY <1>2, <1>f DEF SearchDone, OpPhases, StopPhases, Facts
      <2>1. CASE Attach(c)
          BY <1>0, <2>0, <2>1, <1>kinds, GotoKeepsInv
          DEF Attach, OpPhases, StopPhases, worldVars, Facts
      <2>2. CASE Fail(c, "failed")
          BY <1>0, <2>0, <2>2, <1>kinds, RejectKeepsInv DEF Fail, worldVars, Facts
      <2>3. CASE Goto(c, "locate", "locating-runtime")
          BY <1>0, <2>0, <2>3, <1>kinds, GotoKeepsInv DEF OpPhases, StopPhases, worldVars, Facts
      <2> QED
          BY <1>2, <2>1, <2>2, <2>3 DEF SearchDone
  <1>3. CASE LocateDone(c)
      BY <1>0, <1>3, <1>f, <1>kinds, RejectKeepsInv, GotoKeepsInv
      DEF LocateDone, Fail, OpPhases, StopPhases, worldVars, Facts
  <1>4. CASE RecheckDone(c)
      BY <1>0, <1>4, <1>f, <1>kinds, RejectKeepsInv, GotoKeepsInv
      DEF RecheckDone, Attach, Fail, OpPhases, StopPhases, worldVars, Facts
  <1>5. CASE StartFailed(c)
      BY <1>0, <1>5, <1>f, <1>kinds, RejectKeepsInv
      DEF StartFailed, Fail, OpPhases, StopPhases, worldVars, Facts
  <1>7. CASE VerifyDone(c)
      BY <1>0, <1>7, <1>f, <1>kinds, GotoKeepsInv
      DEF VerifyDone, Attach, OpPhases, StopPhases, worldVars, Facts
  <1>9. CASE IdentityDone(c)
      BY <1>0, <1>9, <1>f, <1>kinds, GotoKeepsInv
      DEF IdentityDone, OpPhases, StopPhases, worldVars, Facts
  <1>10. CASE AuthorizeDone(c)
      BY <1>0, <1>10, <1>f, <1>kinds, GotoKeepsInv
      DEF AuthorizeDone, OpPhases, StopPhases, Facts
  <1>11. CASE ProbeDone(c)
      BY <1>0, <1>11, <1>f, <1>kinds, GotoKeepsInv
      DEF ProbeDone, Attach, OpPhases, StopPhases, worldVars, Facts
  <1>12. CASE ReleaseDone(c)
      BY <1>0, <1>12, <1>f, <1>kinds, RejectKeepsInv
      DEF ReleaseDone, Cancel, Fail, OpPhases, StopPhases, Facts
  <1>13. CASE InitFailed(c)
      BY <1>0, <1>13, <1>f, <1>kinds, RejectKeepsInv
      DEF InitFailed, Cancel, Fail, OpPhases, StopPhases, worldVars, Facts
  <1>15. CASE InitStale(c)
      BY <1>0, <1>15, <1>f, <1>kinds, GotoKeepsInv
      DEF InitStale, OpPhases, StopPhases, Facts
  <1>16. CASE CloseStaleDone(c)
      <2>0. /\ Op /\ Facts /\ OpUnchanged /\ opened = {c}
            /\ UNCHANGED <<proc, running, active, prepared>>
            /\ running \subseteq {active}
          BY <1>16, <1>f DEF CloseStaleDone, OpPhases, StopPhases, Facts
      <2>1. CASE opened' = opened \ {c} /\ Cancel(c, state, managed, orphaned)
          <3>1. opened' = orphaned
              BY <2>0, <2>1 DEF Facts
          <3> QED
              BY <1>0, <2>0, <2>1, <3>1, RejectKeepsInv DEF Cancel, Facts
      <2>2. CASE /\ UNCHANGED opened
                 /\ Reject(c, "failed",
                           IF opGen[c] = generation THEN "failed" ELSE state,
                           managed, orphaned \cup {c})
          <3> DEFINE published == IF opGen[c] = generation THEN "failed" ELSE state
          <3>1. opened' = orphaned \cup {c} /\ orphaned \cup {c} \in SUBSET Callers
              BY <2>0, <2>2 DEF Facts
          <3>2. published \in StateKinds /\ published # "idle" /\ published # "connected"
              BY <2>0, <1>kinds DEF Facts
          <3>3. Reject(c, "failed", published, managed, orphaned \cup {c})
              BY <2>2
          <3>4. \A p \in running' : p # active' => FALSE
              BY <2>0 DEF Facts
          <3> HIDE DEF published
          <3> QED
              BY <1>0, <2>0, <3>1, <3>2, <3>3, <3>4, RejectKeepsInv DEF Facts
      <2> QED
          BY <1>16, <2>1, <2>2 DEF CloseStaleDone
  <1>6. CASE StartDone(c)
      <2>0. Op /\ Facts /\ OpUnchanged /\ pc[c] = "start"
          BY <1>6, <1>f DEF StartDone, StartAnswered, OpPhases
      <2>p. PICK p \in Callers :
              /\ StartAnswered(c, p)
              /\ active' \in {p, None}
              /\ running' \subseteq {p} /\ running' \subseteq {active'}
          BY <1>6, <2>0 DEF StartDone, StartAnswered, StopPhases, Facts
      <2> DEFINE next == IF Aborted(c) THEN "stopCancelled" ELSE "verify"
      <2>1. /\ managed' = p /\ p # None
            /\ proc' = [proc EXCEPT ![c] = p] /\ pc' = [pc EXCEPT ![c] = next]
            /\ state' \in {state, "connecting"}
            /\ UNCHANGED <<inFlight, backend, connectedRequest, orphaned, opened, prepared>>
            /\ opened = {}
          BY <2>0, <2>p, NoneAssumption DEF StartAnswered, Facts
      <2>2. /\ next \in OpPhases /\ next # "closeStale" /\ next \in {"verify"} \cup StopPhases
            /\ next \notin {"new", "waitTeardown", "woken", "joined", "replacing", "resume"}
          BY DEF OpPhases, StopPhases
      <2>3. /\ \A x \in Callers \ {c} : pc[x] \notin OpPhases
            /\ \A x \in Callers \ {c} : pc[x] \notin {"verify"} \cup StopPhases
            /\ UNCHANGED <<countVars, teardown, req, intent, opGen, waits, aborted,
                           cut, closer>>
          BY <1>0, <2>0 DEF ConnectionInv, OperationInv, OpPhases, StopPhases, OpUnchanged
      <2> HIDE DEF next
      <2>4. TypeOK'
          BY <1>0, <1>kinds, <2>0, <2>p, <2>1, <2>2, <2>3
          DEF ConnectionInv, TypeOK, countVars, Facts
      <2>5. OperationInv'
          <3>1. /\ pc'[c] = next /\ proc'[c] = p
                /\ \A x \in Callers \ {c} : pc'[x] = pc[x]
              BY <1>0, <2>1 DEF ConnectionInv, TypeOK
          <3> QED
              BY <1>0, <2>0, <2>p, <2>1, <2>2, <2>3, <3>1
              DEF ConnectionInv, OperationInv, countVars, Facts
      <2>6. TeardownInv'
          BY <1>0, <2>0, <2>1, <2>3 DEF ConnectionInv, TeardownInv, Facts
      <2>7. WaiterInv'
          BY <1>0, <2>0, <2>1, <2>2, <2>3
          DEF ConnectionInv, WaiterInv, countVars, TypeOK, ReactionsRun, NoResume, Facts
      <2>8. SurvivorInv' /\ ConnectedHasBackend' /\ IdleHoldsNothing' /\ FailedStopIsRetained'
          BY <2>0, <2>p, <2>1
          DEF SurvivorInv, ConnectedHasBackend, IdleHoldsNothing, FailedStopIsRetained, Facts
      <2>9. BackendsOwned'
          <3>1. \A x \in Callers : pc'[x] # "closeStale" /\ x # None
              BY <1>0, <2>1, <2>2, <2>3, NoneAssumption
              DEF ConnectionInv, TypeOK, OpPhases
          <3> QED
              BY <2>0, <2>1, <3>1 DEF BackendsOwned, Facts
      <2> QED
          BY <2>4, <2>5, <2>6, <2>7, <2>8, <2>9 DEF ConnectionInv
  <1>8. CASE StopAfterFailure(c)
      <2>p. PICK succeeded \in BOOLEAN :
              StopAnswered(c, succeeded) /\ StopProcess(proc[c], succeeded)
          BY <1>8 DEF StopAfterFailure, StopAnswered
      <2>0. /\ Op /\ Facts /\ OpUnchanged /\ opened = {}
            /\ managed = proc[c] /\ running \subseteq {managed}
            /\ UNCHANGED <<proc, opened, prepared, active>>
          BY <2>p, <1>f DEF StopAnswered, StopProcess, OpPhases, StopPhases, Facts
      <2>1. active' \in Callers \cup {None} /\ running' \in SUBSET Callers
          BY <2>p, <2>0 DEF StopProcess, Facts
      <2>2. CASE succeeded
          <3>1. running' = {}
              BY <2>0, <2>p, <2>2 DEF StopProcess
          <3>2. \E result \in {"cancelled", "failed"} : Reject(c, result, state, None, orphaned)
              BY <2>p, <2>2 DEF StopAnswered
          <3> QED
              BY <1>0, <2>0, <2>1, <3>1, <3>2, RejectKeepsInv DEF Facts
      <2>3. CASE ~succeeded
          <3>1. \A q \in running' : q = managed
              BY <2>0, <2>p, <2>3 DEF StopProcess
          <3>2. Fail(c, "failed")
              BY <2>p, <2>3 DEF StopAnswered
          <3> QED
              BY <1>0, <1>kinds, <2>0, <2>1, <3>1, <3>2, RejectKeepsInv DEF Fail, Facts
      <2> QED
          BY <2>2, <2>3
  <1>14. CASE InitDone(c)
      <2>0. Op /\ Facts /\ OpUnchanged /\ opened = {} /\ running \subseteq {active}
          BY <1>14, <1>f DEF InitDone, OpPhases, StopPhases, Facts
      <2>1. /\ opened' = {c} /\ backend' = c /\ managed' \in {None, managed}
            /\ state' = "connected" /\ connectedRequest' = req[c]
            /\ pc' = [x \in Callers |->
                 IF x = c \/ (pc[x] = "joined" /\ waits[x] = c) THEN "ok" ELSE pc[x]]
            /\ inFlight' = None
            /\ UNCHANGED <<orphaned, proc, running, active, prepared>>
          BY <1>14, <2>0 DEF InitDone, Answer, ClearInFlight, Facts
      <2>3. /\ \A x \in Callers : pc[x] \in OpPhases => x = c
            /\ UNCHANGED <<countVars, teardown, req, intent, opGen, waits, aborted,
                           cut, closer>>
          BY <1>0, <2>0 DEF ConnectionInv, OperationInv, StopPhases, OpUnchanged
      <2>2. \A x \in Callers : pc'[x] \notin OpPhases
          BY <1>0, <2>1, <2>3 DEF ConnectionInv, TypeOK, OpPhases, StopPhases
      <2>4. TypeOK'
          BY <1>0, <2>0, <2>1, <2>3
          DEF ConnectionInv, TypeOK, countVars, Facts, Results, StateKinds
      <2>5. OperationInv'
          BY <2>1, <2>2, NoneAssumption DEF OperationInv, OpPhases, StopPhases
      <2>6. teardown.phase = "none"
          BY <1>0, <1>14, <2>0 DEF InitDone, Superseded, ConnectionInv, OperationInv, StopPhases
      <2>7. TeardownInv' /\ SurvivorInv'
          BY <2>0, <2>1, <2>3, <2>6 DEF TeardownInv, SurvivorInv, StopPhases, Facts
      <2>8. WaiterInv'
          BY <1>0, <2>0, <2>1, <2>3
          DEF ConnectionInv, WaiterInv, countVars, TypeOK, ReactionsRun, NoResume, Facts
      <2>9. ConnectedHasBackend' /\ IdleHoldsNothing' /\ FailedStopIsRetained'
          BY <2>0, <2>1
          DEF ConnectedHasBackend, IdleHoldsNothing, FailedStopIsRetained, Facts
      <2>10. BackendsOwned'
          BY <2>0, <2>1, <2>2 DEF BackendsOwned, OpPhases, StopPhases, Facts
      <2> QED
          BY <2>4, <2>5, <2>7, <2>8, <2>9, <2>10 DEF ConnectionInv
  <1> QED
      BY <1>1, <1>2, <1>3, <1>4, <1>5, <1>6, <1>7, <1>8, <1>9, <1>10, <1>11, <1>12,
         <1>13, <1>14, <1>15, <1>16 DEF OperationStep

\* A call starts its operation: everything it needs to find released is.
LEMMA StartKeepsInv ==
  ASSUME ConnectionInv, NEW c \in Callers, pc[c] \in {"new", "woken", "resume"},
         NoResume \/ pc[c] = "resume",
         StartOperation(c), inFlight = None, teardown.phase = "none",
         ~NeedsTeardown(req[c]),
         intent' = [intent EXCEPT ![c] = disconnectIntent],
         UNCHANGED <<req, waits, proc, aborted, closer, worldVars>>
  PROVE  ConnectionInv'
  <1> USE DEF ConnectionInv
  <1>0. /\ c # None /\ orphaned = {} /\ running \subseteq {active}
        /\ \A x \in Callers : pc[x] \notin OpPhases
        /\ \A x \in Callers : x # c => pc[x] # "resume"
        /\ \A x \in Callers : pc[x] # "replacing"
        /\ opened = {x \in Callers : x = backend}
      <2>1. /\ c # None /\ \A x \in Callers : pc[x] \notin OpPhases
            /\ orphaned = {}
          BY NoneAssumption DEF OperationInv, StopPhases, NeedsTeardown
      <2>2. \A x \in Callers : x # c => pc[x] # "resume"
          BY DEF WaiterInv, NoResume
      <2>3. \A x \in Callers : pc[x] # "replacing"
          BY DEF WaiterInv
      <2>4. running \subseteq {active}
          BY <2>1, NoneAssumption DEF SurvivorInv, StopPhases, OpPhases, FailedStopIsRetained,
              NeedsTeardown, TypeOK
      <2>5. opened = {x \in Callers : x = backend}
          BY <2>1 DEF BackendsOwned, OpPhases, StopPhases
      <2> QED
          BY <2>1, <2>2, <2>3, <2>4, <2>5
  <1>1. /\ generation' = generation + 1
        /\ opGen' = [opGen EXCEPT ![c] = generation + 1]
        /\ UNCHANGED <<backend, connectedRequest, orphaned, managed,
                       disconnectIntent, teardown, cut, opened, running, active, prepared>>
        /\ \E result \in OpPhases \cup {"ok", "failed"} :
              /\ pc' = [pc EXCEPT ![c] = result]
              /\ inFlight' = IF result \in OpPhases THEN c ELSE None
              /\ result \in OpPhases => backend = None
              /\ result = "ok" => backend # None
              /\ state' = IF result = "ok" THEN "connected" ELSE state'
              /\ result # "ok" => state' \in {"failed", "discovering", "connecting",
                                              "locating-runtime"}
              /\ result \notin {"closeStale", "verify"} \cup StopPhases
      <2>1. UNCHANGED <<backend, connectedRequest, orphaned, managed,
                        disconnectIntent, teardown, cut, opened, running, active, prepared>>
          BY DEF StartOperation, worldVars
      <2>2. ~Serves(req[c]) => backend = None
          BY DEF NeedsTeardown
      <2>3. Serves(req[c]) => backend # None
          BY DEF Serves
      <2> QED
          BY <2>1, <2>2, <2>3 DEF StartOperation, OpPhases, StopPhases
  <1>2. PICK result \in OpPhases \cup {"ok", "failed"} :
              /\ pc' = [pc EXCEPT ![c] = result]
              /\ inFlight' = IF result \in OpPhases THEN c ELSE None
              /\ result \in OpPhases => backend = None
              /\ result = "ok" => backend # None
              /\ state' = IF result = "ok" THEN "connected" ELSE state'
              /\ result # "ok" => state' \in {"failed", "discovering", "connecting",
                                              "locating-runtime"}
              /\ result \notin {"closeStale", "verify"} \cup StopPhases
      BY <1>1
  <1>3. TypeOK'
      BY <1>1, <1>2 DEF TypeOK, StateKinds, Results
  <1>4. OperationInv'
      <2>1. \A x \in Callers \ {c} : pc'[x] \notin OpPhases
                                    /\ pc'[x] \notin {"verify"} \cup StopPhases
          BY <1>0, <1>2 DEF TypeOK, OpPhases, StopPhases
      <2>2. pc'[c] = result /\ opGen'[c] = generation' /\ intent'[c] = disconnectIntent'
          BY <1>1, <1>2 DEF TypeOK
      <2>3. generation' \in Nat /\ state' # "idle"
          BY <1>1, <1>2 DEF TypeOK
      <2> QED
          BY <1>0, <1>1, <1>2, <2>1, <2>2, <2>3 DEF OperationInv, TypeOK, OpPhases, StopPhases
  <1>5. TeardownInv' /\ SurvivorInv'
      BY <1>0, <1>1, <1>2 DEF TeardownInv, SurvivorInv, StopPhases
  <1>6. WaiterInv'
      <2>1. result \notin {"resume", "woken", "replacing", "joined"}
          BY DEF OpPhases, StopPhases
      <2>2. \A x \in Callers : pc[x] = "resume" => x = c
          BY <1>0
      <2>3. \A x \in Callers : intent'[x] <= disconnectIntent'
          BY <1>1 DEF WaiterInv, TypeOK
      <2> QED
          BY <1>0, <1>1, <1>2, <2>1, <2>2, <2>3 DEF WaiterInv, TypeOK
  <1>7. ConnectedHasBackend' /\ IdleHoldsNothing'
      BY <1>1, <1>2 DEF ConnectedHasBackend, IdleHoldsNothing
  <1>8. FailedStopIsRetained'
      BY <1>1 DEF FailedStopIsRetained
  <1>9. BackendsOwned'
      <2>1. \A x \in Callers : pc'[x] # "closeStale"
          BY <1>0, <1>2 DEF TypeOK, OpPhases, StopPhases
      <2> QED
          BY <1>0, <1>1, <2>1 DEF BackendsOwned
  <1> QED
      BY <1>3, <1>4, <1>5, <1>6, <1>7, <1>8, <1>9

\* A call is answered, or begins to wait, without an operation of its own.
LEMMA WaitKeepsInv ==
  ASSUME ConnectionInv, NEW c \in Callers, pc[c] \notin OpPhases,
         NEW phase \in {"cancelled", "busy", "joined", "waitTeardown"},
         pc' = [pc EXCEPT ![c] = phase],
         NEW seen \in Nat, seen <= disconnectIntent,
         intent' = [intent EXCEPT ![c] = seen],
         NEW on \in Callers \cup {None},
         phase = "joined" => on \in Callers /\ req[on] = req[c],
         waits' = [waits EXCEPT ![c] = on],
         aborted' \in [Callers -> BOOLEAN],
         UNCHANGED <<coordVars, countVars, teardown, opGen, cut, req, proc, closer, worldVars>>
  PROVE  ConnectionInv'
  <1> USE DEF ConnectionInv, coordVars, countVars, worldVars
  <1>0. phase \notin OpPhases /\ phase \notin {"resume", "woken", "replacing"}
      BY DEF OpPhases, StopPhases
  <1>1. TypeOK'
      BY DEF TypeOK, Results, WaitPhases
  <1>2. OperationInv'
      BY <1>0 DEF OperationInv, OpPhases, StopPhases, TypeOK
  <1>3. TeardownInv' /\ SurvivorInv'
      BY <1>0 DEF TeardownInv, SurvivorInv, TypeOK, OpPhases, StopPhases
  <1>4. WaiterInv'
      BY <1>0 DEF WaiterInv, TypeOK
  <1>5. ConnectedHasBackend' /\ IdleHoldsNothing' /\ FailedStopIsRetained'
      BY DEF ConnectedHasBackend, IdleHoldsNothing, FailedStopIsRetained
  <1>6. BackendsOwned'
      <2>1. \A x \in Callers : pc'[x] = "closeStale" <=> pc[x] = "closeStale"
          BY <1>0 DEF TypeOK, OpPhases, StopPhases
      <2> QED
          BY <2>1 DEF BackendsOwned
  <1> QED
      BY <1>1, <1>2, <1>3, <1>4, <1>5, <1>6

\* A call begins a replacement teardown; none is in progress.
LEMMA ReplaceKeepsInv ==
  ASSUME ConnectionInv, NEW c \in Callers, pc[c] \in {"new", "woken"}, NoResume,
         BeginTeardown(c), inFlight = None, teardown.phase = "none",
         NeedsTeardown(req[c]),
         pc' = [pc EXCEPT ![c] = "replacing"],
         intent' = [intent EXCEPT ![c] = disconnectIntent],
         UNCHANGED <<coordVars, disconnectIntent, opGen, waits, req, proc, aborted,
                     closer, worldVars>>
  PROVE  ConnectionInv'
  <1> USE DEF ConnectionInv, coordVars, worldVars
  <1>0. /\ \A x \in Callers : pc[x] \notin OpPhases
        /\ \A x \in Callers : pc[x] \notin {"resume", "woken", "replacing"}
      BY NoneAssumption
      DEF OperationInv, StopPhases, WaiterInv, NeedsTeardown, NoResume, Serves
  <1>1. /\ generation' = generation + 1
        /\ cut' = [x \in Callers |-> cut[x] \/ x = inFlight]
        /\ teardown' = [phase |-> "awaitOp", owner |-> c, waitsFor |-> inFlight,
                        toClose |-> {}, process |-> None, failed |-> FALSE]
      BY DEF BeginTeardown, NoTeardown
  <1>2. TypeOK'
      <2>1. cut' \in [Callers -> BOOLEAN]
          BY <1>1
      <2>2. teardown' \in [phase : TeardownPhases, owner : Callers \cup {None},
                   waitsFor : Callers \cup {None}, toClose : SUBSET Callers,
                   process : Callers \cup {None}, failed : BOOLEAN]
          BY <1>1 DEF TypeOK, TeardownPhases
      <2> QED
          BY <1>1, <2>1, <2>2 DEF TypeOK, WaitPhases
  <1>3. \A x \in Callers : pc'[x] \notin OpPhases
      BY <1>0 DEF TypeOK, OpPhases, StopPhases
  <1>4. OperationInv'
      BY <1>3, NoneAssumption DEF OperationInv, OpPhases, StopPhases
  <1>5. TeardownInv' /\ SurvivorInv'
      BY <1>1 DEF TeardownInv, SurvivorInv, StopPhases
  <1>6. WaiterInv'
      BY <1>0, <1>1 DEF WaiterInv, TypeOK
  <1>7. ConnectedHasBackend' /\ IdleHoldsNothing' /\ FailedStopIsRetained'
      BY DEF ConnectedHasBackend, IdleHoldsNothing, FailedStopIsRetained
  <1>8. BackendsOwned'
      BY <1>0, <1>3 DEF BackendsOwned, OpPhases, StopPhases
  <1> QED
      BY <1>2, <1>4, <1>5, <1>6, <1>7, <1>8

\* The body of connect() after its waits.
LEMMA ProceedKeepsInv ==
  ASSUME ConnectionInv, NEW c \in Callers, pc[c] \in {"new", "woken"}, NoResume,
         Proceed(c), teardown.phase = "none",
         intent' = [intent EXCEPT ![c] = disconnectIntent],
         UNCHANGED <<req, proc, aborted, closer, worldVars>>
  PROVE  ConnectionInv'
  <1>0. /\ pc[c] \notin OpPhases /\ disconnectIntent \in Nat
        /\ waits[c] \in Callers \cup {None} /\ waits = [waits EXCEPT ![c] = waits[c]]
        /\ aborted \in [Callers -> BOOLEAN] /\ inFlight \in Callers \cup {None}
      BY DEF OpPhases, StopPhases, ConnectionInv, TypeOK
  <1>1. CASE /\ inFlight # None /\ req[inFlight] # req[c]
             /\ pc' = [pc EXCEPT ![c] = "busy"]
             /\ UNCHANGED <<waits, coordVars, countVars, teardown, opGen, cut>>
      <2>1. /\ disconnectIntent <= disconnectIntent
            /\ waits' = [waits EXCEPT ![c] = waits[c]]
            /\ aborted' \in [Callers -> BOOLEAN]
            /\ UNCHANGED <<coordVars, countVars, teardown, opGen, cut, req, proc, closer,
                          worldVars>>
          BY <1>0, <1>1
      <2> QED
          BY <1>0, <1>1, <2>1, WaitKeepsInv
  <1>2. CASE /\ inFlight # None /\ req[inFlight] = req[c]
             /\ pc' = [pc EXCEPT ![c] = "joined"]
             /\ waits' = [waits EXCEPT ![c] = inFlight]
             /\ UNCHANGED <<coordVars, countVars, teardown, opGen, cut>>
      <2>1. /\ disconnectIntent <= disconnectIntent
            /\ inFlight \in Callers
            /\ aborted' \in [Callers -> BOOLEAN]
            /\ UNCHANGED <<coordVars, countVars, teardown, opGen, cut, req, proc, closer,
                          worldVars>>
          BY <1>0, <1>2
      <2> QED
          BY <1>0, <1>2, <2>1, WaitKeepsInv
  <1>3. CASE /\ inFlight = None /\ NeedsTeardown(req[c]) /\ BeginTeardown(c)
             /\ pc' = [pc EXCEPT ![c] = "replacing"]
             /\ UNCHANGED <<coordVars, disconnectIntent, opGen, waits>>
      BY <1>3, ReplaceKeepsInv
  <1>4. CASE /\ inFlight = None /\ ~NeedsTeardown(req[c]) /\ StartOperation(c)
             /\ UNCHANGED waits
      BY <1>4, StartKeepsInv
  <1> QED
      BY <1>1, <1>2, <1>3, <1>4 DEF Proceed

\* A call of connect(): refused at once, made to wait, or taken up.
LEMMA ConnectKeepsInv ==
  ASSUME ConnectionInv, NEW c \in Callers, Connect(c)
  PROVE  ConnectionInv'
  <1>0. /\ pc[c] \notin OpPhases /\ disconnectIntent \in Nat
        /\ waits[c] \in Callers \cup {None} /\ waits = [waits EXCEPT ![c] = waits[c]]
        /\ aborted \in [Callers -> BOOLEAN]
      BY DEF Connect, OpPhases, StopPhases, ConnectionInv, TypeOK
  <1>1. CASE \E phase \in {"cancelled", "waitTeardown"} :
               /\ pc' = [pc EXCEPT ![c] = phase]
               /\ UNCHANGED <<coordVars, countVars, teardown, opGen, waits, cut>>
      <2>1. /\ disconnectIntent <= disconnectIntent
            /\ waits' = [waits EXCEPT ![c] = waits[c]]
            /\ intent' = [intent EXCEPT ![c] = disconnectIntent]
            /\ aborted' \in [Callers -> BOOLEAN]
            /\ UNCHANGED <<coordVars, countVars, teardown, opGen, cut, req, proc, closer,
                          worldVars>>
          BY <1>0, <1>1 DEF Connect
      <2> QED
          BY <1>0, <1>1, <2>1, WaitKeepsInv
  <1>2. CASE teardown.phase = "none" /\ Proceed(c)
      BY <1>2, ProceedKeepsInv DEF Connect
  <1> QED
      BY <1>1, <1>2 DEF Connect

\* A call whose teardown has ended looks again.
LEMMA WakeKeepsInv ==
  ASSUME ConnectionInv, NEW c \in Callers, Wake(c)
  PROVE  ConnectionInv'
  <1>0. /\ pc[c] \notin OpPhases /\ intent[c] \in Nat /\ intent[c] <= disconnectIntent
        /\ waits[c] \in Callers \cup {None} /\ waits = [waits EXCEPT ![c] = waits[c]]
        /\ intent = [intent EXCEPT ![c] = intent[c]]
        /\ aborted \in [Callers -> BOOLEAN]
      BY DEF Wake, OpPhases, StopPhases, ConnectionInv, TypeOK, WaiterInv
  <1>1. CASE /\ pc' = [pc EXCEPT ![c] = "cancelled"]
             /\ UNCHANGED <<coordVars, countVars, teardown, opGen, waits, cut>>
      BY <1>0, <1>1, WaitKeepsInv DEF Wake
  <1>2. CASE disconnectIntent = intent[c] /\ Proceed(c)
      <2>1. teardown.phase = "none"
          BY <1>2 DEF Wake, ConnectionInv, WaiterInv
      <2> QED
          BY <1>0, <1>2, <2>1, ProceedKeepsInv DEF Wake
  <1> QED
      BY <1>1, <1>2 DEF Wake

\* A call resumes after the replacement teardown it waited for.
LEMMA ResumeKeepsInv ==
  ASSUME ConnectionInv, NEW c \in Callers, Resume(c)
  PROVE  ConnectionInv'
  <1>0. /\ pc[c] \notin OpPhases /\ intent[c] \in Nat /\ intent[c] <= disconnectIntent
        /\ waits[c] \in Callers \cup {None} /\ waits = [waits EXCEPT ![c] = waits[c]]
        /\ intent = [intent EXCEPT ![c] = intent[c]]
        /\ aborted \in [Callers -> BOOLEAN]
      BY DEF Resume, OpPhases, StopPhases, ConnectionInv, TypeOK, WaiterInv
  <1>1. CASE /\ pc' = [pc EXCEPT ![c] = "cancelled"]
             /\ UNCHANGED <<coordVars, countVars, teardown, opGen, cut>>
      BY <1>0, <1>1, WaitKeepsInv DEF Resume
  <1>2. CASE disconnectIntent = intent[c] /\ StartOperation(c)
      <2>1. inFlight = None /\ teardown.phase = "none" /\ ~NeedsTeardown(req[c])
          BY DEF Resume, ConnectionInv, WaiterInv, NeedsTeardown
      <2> QED
          BY <1>0, <1>2, <2>1, StartKeepsInv DEF Resume
  <1> QED
      BY <1>1, <1>2 DEF Resume

\* A caller's signal fires.
LEMMA AbortKeepsInv ==
  ASSUME ConnectionInv, NEW c \in Callers, Abort(c)
  PROVE  ConnectionInv'
  <1> USE DEF ConnectionInv, coordVars, countVars, worldVars
  <1>1. TypeOK'
      BY DEF Abort, TypeOK, Results
  <1>2. \A x \in Callers : \/ pc'[x] = pc[x]
                           \/ pc'[x] = "cancelled" /\ pc[x] \in {"waitTeardown", "joined"}
      BY DEF Abort, TypeOK
  <1>3. OperationInv'
      BY <1>2 DEF Abort, OperationInv, TypeOK, OpPhases, StopPhases
  <1>4. TeardownInv' /\ SurvivorInv'
      BY DEF Abort, TeardownInv, SurvivorInv, StopPhases
  <1>5. WaiterInv'
      BY <1>2 DEF Abort, WaiterInv
  <1>6. ConnectedHasBackend' /\ IdleHoldsNothing' /\ FailedStopIsRetained'
      BY DEF Abort, ConnectedHasBackend, IdleHoldsNothing, FailedStopIsRetained
  <1>7. BackendsOwned'
      BY <1>2 DEF Abort, BackendsOwned, OpPhases, StopPhases
  <1> QED
      BY <1>1, <1>3, <1>4, <1>5, <1>6, <1>7

\* The managed process exits by itself.
LEMMA ExitKeepsInv ==
  ASSUME ConnectionInv, NEW p \in Callers, ProcessExits(p)
  PROVE  ConnectionInv'
  <1> USE DEF ConnectionInv, coordVars, countVars, callVars
  <1>1. TypeOK'
      BY DEF ProcessExits, TypeOK
  <1>2. running' \subseteq running /\ \A q \in running' : q = active => q = active'
      BY DEF ProcessExits
  <1>3. OperationInv'
      BY <1>2 DEF ProcessExits, OperationInv, StopPhases
  <1>4. TeardownInv' /\ SurvivorInv' /\ FailedStopIsRetained'
      BY <1>2 DEF ProcessExits, TeardownInv, SurvivorInv, StopPhases, FailedStopIsRetained
  <1>5. WaiterInv'
      BY DEF ProcessExits, WaiterInv
  <1>6. ConnectedHasBackend' /\ IdleHoldsNothing' /\ BackendsOwned'
      BY DEF ProcessExits, ConnectedHasBackend, IdleHoldsNothing, BackendsOwned
  <1> QED
      BY <1>1, <1>3, <1>4, <1>5, <1>6

\* The stop of the managed process begins: it is the only process that runs.
LEMMA StopBeginsKeepsInv ==
  ASSUME ConnectionInv, NEW p \in Callers, StopBegins(p)
  PROVE  ConnectionInv'
  <1> USE DEF ConnectionInv, coordVars, countVars, callVars
  <1>0. /\ active = p /\ active' = None /\ AwaitsStop(p)
        /\ UNCHANGED <<coordVars, countVars, teardown, callVars, closer, opened, running,
                      prepared>>
      BY DEF StopBegins
  <1>1. TypeOK'
      BY <1>0 DEF TypeOK
  <1>2. managed = p
      BY <1>0, NoneAssumption DEF AwaitsStop, OperationInv, TeardownInv
  <1>3. \/ teardown.phase = "closing" /\ \A c \in Callers : pc[c] \notin OpPhases
        \/ \E c \in Callers : pc[c] \in StopPhases
      BY <1>0, NoneAssumption DEF AwaitsStop, OperationInv, TeardownInv
  <1>4. OperationInv'
      <2>1. \A c \in Callers : pc[c] \in OpPhases => pc[c] \in StopPhases
          BY <1>3 DEF OperationInv, OpPhases, StopPhases
      <2> QED
          BY <1>0, <2>1 DEF OperationInv
  <1>5. TeardownInv' /\ SurvivorInv'
      BY <1>0, <1>3 DEF TeardownInv, SurvivorInv
  <1>6. FailedStopIsRetained'
      BY <1>0, <1>2 DEF FailedStopIsRetained
  <1>7. WaiterInv'
      BY <1>0 DEF WaiterInv
  <1>8. ConnectedHasBackend' /\ IdleHoldsNothing' /\ BackendsOwned'
      BY <1>0 DEF ConnectedHasBackend, IdleHoldsNothing, BackendsOwned
  <1> QED
      BY <1>1, <1>4, <1>5, <1>6, <1>7, <1>8

\* A call of disconnect() begins a teardown or joins the one in progress.
LEMMA DisconnectKeepsInv ==
  ASSUME ConnectionInv, NEW d \in Closers, Disconnect(d)
  PROVE  ConnectionInv'
  <1> USE DEF ConnectionInv, coordVars, worldVars
  <1>1. /\ generation' = generation + 1 /\ disconnectIntent' = disconnectIntent + 1
        /\ cut' = [c \in Callers |-> cut[c] \/ c = inFlight]
        /\ closer' = [closer EXCEPT ![d] = "waiting"]
        /\ \/ teardown.phase # "none" /\ teardown' = teardown
           \/ /\ teardown.phase = "none"
              /\ teardown' = [phase |-> "awaitOp", owner |-> None, waitsFor |-> inFlight,
                              toClose |-> {}, process |-> None, failed |-> FALSE]
        /\ UNCHANGED <<coordVars, pc, req, intent, opGen, waits, proc, aborted, worldVars>>
      BY DEF Disconnect, BeginTeardown, NoTeardown
  <1>2. \A x \in Callers : pc[x] # "resume"
      BY DEF Disconnect, NoResume
  <1>3. TypeOK'
      <2>1. cut' \in [Callers -> BOOLEAN]
          BY <1>1
      <2>2. teardown' \in [phase : TeardownPhases, owner : Callers \cup {None},
                   waitsFor : Callers \cup {None}, toClose : SUBSET Callers,
                   process : Callers \cup {None}, failed : BOOLEAN]
          <3>1. CASE teardown' = teardown
              BY <3>1 DEF TypeOK
          <3>2. CASE teardown' = [phase |-> "awaitOp", owner |-> None,
                                  waitsFor |-> inFlight, toClose |-> {},
                                  process |-> None, failed |-> FALSE]
              BY <3>2 DEF TypeOK, TeardownPhases
          <3> QED
              BY <1>1, <3>1, <3>2
      <2> QED
          BY <1>1, <2>1, <2>2 DEF TypeOK
  <1>4. OperationInv'
      BY <1>1 DEF OperationInv, StopPhases, TypeOK
  <1>5. TeardownInv' /\ SurvivorInv'
      BY <1>1 DEF TeardownInv, SurvivorInv, StopPhases
  <1>6. WaiterInv'
      BY <1>1, <1>2 DEF WaiterInv, TypeOK
  <1>7. /\ ConnectedHasBackend' /\ IdleHoldsNothing'
        /\ FailedStopIsRetained' /\ BackendsOwned'
      BY <1>1
      DEF ConnectedHasBackend, IdleHoldsNothing, FailedStopIsRetained, BackendsOwned
  <1> QED
      BY <1>3, <1>4, <1>5, <1>6, <1>7

\* A teardown takes over what the coordinator holds.
LEMMA CollectKeepsInv ==
  ASSUME ConnectionInv, ReactionsRun, CollectOwned
  PROVE  ConnectionInv'
  <1> USE DEF ConnectionInv, countVars, callVars, worldVars
  <1>1. inFlight = None
      <2>1. ASSUME inFlight # None PROVE FALSE
          <3>1. inFlight \in Callers /\ pc[inFlight] \in OpPhases
              BY <2>1 DEF TypeOK, OperationInv, StopPhases
          <3>2. teardown.waitsFor = inFlight
              BY <2>1 DEF CollectOwned, TeardownInv
          <3> QED
              BY <3>1, <3>2 DEF CollectOwned, OpPhases, StopPhases, Results
      <2> QED
          BY <2>1
  <1>2. \A x \in Callers : pc[x] \notin OpPhases
      BY <1>1, NoneAssumption DEF OperationInv, StopPhases
  <1>3. /\ teardown.phase = "awaitOp"
        /\ teardown' = [teardown EXCEPT !.phase = "closing",
             !.toClose = orphaned \cup (IF backend = None THEN {} ELSE {backend}),
             !.process = managed]
        /\ state' = "stopping"
        /\ UNCHANGED <<inFlight, backend, connectedRequest, orphaned, managed,
                       countVars, callVars, closer, worldVars>>
      BY DEF CollectOwned
  <1>4. /\ teardown'.phase = "closing" /\ teardown'.process = managed
        /\ orphaned \subseteq teardown'.toClose
        /\ backend # None => backend \in teardown'.toClose
        /\ teardown'.owner = teardown.owner
      BY <1>3 DEF TypeOK
  <1>5. TypeOK'
      <2>1. teardown' \in [phase : TeardownPhases, owner : Callers \cup {None},
                   waitsFor : Callers \cup {None}, toClose : SUBSET Callers,
                   process : Callers \cup {None}, failed : BOOLEAN]
          <3>1. orphaned \cup (IF backend = None THEN {} ELSE {backend}) \in SUBSET Callers
              BY DEF TypeOK
          <3>2. "closing" \in TeardownPhases /\ managed \in Callers \cup {None}
              BY DEF TypeOK, TeardownPhases
          <3> DEFINE owned == orphaned \cup (IF backend = None THEN {} ELSE {backend})
          <3>3. teardown' = [teardown EXCEPT !.phase = "closing", !.toClose = owned,
                                             !.process = managed]
              BY <1>3
          <3>4. owned \in SUBSET Callers
              BY <3>1
          <3> HIDE DEF owned
          <3> QED
              BY <3>2, <3>3, <3>4 DEF TypeOK
      <2> QED
          BY <1>3, <2>1 DEF TypeOK, StateKinds
  <1>6. OperationInv'
      BY <1>1, <1>2, <1>3, NoneAssumption DEF OperationInv, OpPhases, StopPhases
  <1>7. TeardownInv' /\ SurvivorInv'
      BY <1>1, <1>3, <1>4 DEF TeardownInv, SurvivorInv, StopPhases
  <1>8. WaiterInv'
      BY <1>1, <1>3, <1>4 DEF WaiterInv, ReactionsRun, NoResume
  <1>9. /\ ConnectedHasBackend' /\ IdleHoldsNothing'
        /\ FailedStopIsRetained' /\ BackendsOwned'
      BY <1>3
      DEF ConnectedHasBackend, IdleHoldsNothing, FailedStopIsRetained, BackendsOwned
  <1> QED
      BY <1>5, <1>6, <1>7, <1>8, <1>9

\* While a teardown closes, no operation is in flight and nobody resumes.
LEMMA ClosingFacts ==
  ASSUME ConnectionInv, ReactionsRun, teardown.phase = "closing"
  PROVE  /\ inFlight = None /\ state = "stopping"
         /\ \A x \in Callers : pc[x] \notin OpPhases
         /\ \A x \in Callers : pc[x] \notin {"resume", "woken"}
         /\ opened = {x \in Callers : x = backend} \cup orphaned
  <1>1. /\ inFlight = None /\ state = "stopping"
        /\ \A x \in Callers : pc[x] \notin OpPhases
      BY NoneAssumption DEF ConnectionInv, TeardownInv, OperationInv, StopPhases
  <1>2. \A x \in Callers : pc[x] \notin {"resume", "woken"}
      BY DEF ReactionsRun, NoResume
  <1>3. opened = {x \in Callers : x = backend} \cup orphaned
      BY <1>1 DEF ConnectionInv, BackendsOwned, OpPhases, StopPhases
  <1> QED
      BY <1>1, <1>2, <1>3

\* A teardown closes its backend, or fails to and keeps it for the next one.
LEMMA CloseKeepsInv ==
  ASSUME ConnectionInv, ReactionsRun, NEW b \in Callers, CloseBackend(b)
  PROVE  ConnectionInv'
  <1> USE DEF ConnectionInv, countVars, callVars
  <1>1. /\ inFlight = None /\ state = "stopping"
        /\ \A x \in Callers : pc[x] \notin OpPhases
        /\ \A x \in Callers : pc[x] \notin {"resume", "woken"}
        /\ opened = {x \in Callers : x = backend} \cup orphaned
      BY ClosingFacts DEF CloseBackend
  <1>2. /\ teardown.phase = "closing" /\ teardown'.phase = "closing"
        /\ teardown'.toClose = teardown.toClose \ {b}
        /\ teardown'.process = teardown.process /\ teardown'.owner = teardown.owner
        /\ teardown' \in [phase : TeardownPhases, owner : Callers \cup {None},
                   waitsFor : Callers \cup {None}, toClose : SUBSET Callers,
                   process : Callers \cup {None}, failed : BOOLEAN]
      <2>1. \/ teardown' = [teardown EXCEPT !.toClose = teardown.toClose \ {b}]
            \/ teardown' = [teardown EXCEPT !.toClose = teardown.toClose \ {b},
                                            !.failed = TRUE]
          BY DEF CloseBackend
      <2>2. /\ teardown \in [phase : TeardownPhases, owner : Callers \cup {None},
                   waitsFor : Callers \cup {None}, toClose : SUBSET Callers,
                   process : Callers \cup {None}, failed : BOOLEAN]
            /\ teardown.toClose \ {b} \in SUBSET Callers /\ TRUE \in BOOLEAN
          BY DEF TypeOK
      <2>3. teardown' \in [phase : TeardownPhases, owner : Callers \cup {None},
                   waitsFor : Callers \cup {None}, toClose : SUBSET Callers,
                   process : Callers \cup {None}, failed : BOOLEAN]
          BY <2>1, <2>2
      <2>4. /\ teardown'.phase = teardown.phase
            /\ teardown'.toClose = teardown.toClose \ {b}
            /\ teardown'.process = teardown.process /\ teardown'.owner = teardown.owner
          BY <2>1, <2>2
      <2> QED
          BY <2>3, <2>4 DEF CloseBackend
  <1>3. \/ teardown'.failed /\ UNCHANGED <<opened, orphaned, backend>>
        \/ /\ teardown'.failed = teardown.failed
           /\ opened' = opened \ {b} /\ orphaned' = orphaned \ {b}
           /\ backend' = IF backend = b THEN None ELSE backend
      BY DEF CloseBackend, TypeOK
  <1>4. UNCHANGED <<state, inFlight, connectedRequest, managed, countVars,
                    callVars, closer, running, active, prepared>>
      BY DEF CloseBackend
  <1>5. TypeOK'
      BY <1>2, <1>3, <1>4 DEF TypeOK
  <1>6. OperationInv'
      BY <1>1, <1>4, NoneAssumption DEF OperationInv, OpPhases, StopPhases
  <1>7. TeardownInv' /\ SurvivorInv'
      BY <1>1, <1>2, <1>3, <1>4 DEF TeardownInv, SurvivorInv, StopPhases
  <1>8. WaiterInv'
      BY <1>1, <1>2, <1>4 DEF WaiterInv
  <1>9. ConnectedHasBackend' /\ IdleHoldsNothing' /\ FailedStopIsRetained'
      BY <1>1, <1>4 DEF ConnectedHasBackend, IdleHoldsNothing, FailedStopIsRetained
  <1>10. BackendsOwned'
      <2>1. opened' = {x \in Callers : x = backend'} \cup orphaned'
          BY <1>1, <1>3, NoneAssumption
      <2>2. \A x \in Callers : pc'[x] # "closeStale"
          BY <1>1, <1>4 DEF OpPhases, StopPhases
      <2> QED
          BY <2>1, <2>2 DEF BackendsOwned
  <1> QED
      BY <1>5, <1>6, <1>7, <1>8, <1>9, <1>10

\* A teardown stops its process, or fails to and keeps it for the next one.
LEMMA StopKeepsInv ==
  ASSUME ConnectionInv, ReactionsRun, StopManaged
  PROVE  ConnectionInv'
  <1> USE DEF ConnectionInv, countVars, callVars
  <1>1. /\ inFlight = None /\ state = "stopping"
        /\ \A x \in Callers : pc[x] \notin OpPhases
        /\ \A x \in Callers : pc[x] \notin {"resume", "woken"}
      BY ClosingFacts DEF StopManaged, ManagedStopped
  <1>2. /\ teardown.phase = "closing" /\ teardown'.phase = "closing"
        /\ teardown'.toClose = teardown.toClose /\ teardown'.process = None
        /\ teardown'.owner = teardown.owner /\ teardown.process = managed
        /\ teardown' \in [phase : TeardownPhases, owner : Callers \cup {None},
                   waitsFor : Callers \cup {None}, toClose : SUBSET Callers,
                   process : Callers \cup {None}, failed : BOOLEAN]
      <2>1. teardown.phase = "closing" /\ teardown.process = managed
          BY DEF StopManaged, ManagedStopped, TeardownInv
      <2>2. \/ teardown' = [teardown EXCEPT !.process = None]
            \/ teardown' = [teardown EXCEPT !.process = None, !.failed = TRUE]
          BY DEF StopManaged, ManagedStopped
      <2>3. /\ teardown \in [phase : TeardownPhases, owner : Callers \cup {None},
                   waitsFor : Callers \cup {None}, toClose : SUBSET Callers,
                   process : Callers \cup {None}, failed : BOOLEAN]
            /\ None \in Callers \cup {None} /\ TRUE \in BOOLEAN
          BY DEF TypeOK
      <2>4. teardown' \in [phase : TeardownPhases, owner : Callers \cup {None},
                   waitsFor : Callers \cup {None}, toClose : SUBSET Callers,
                   process : Callers \cup {None}, failed : BOOLEAN]
          BY <2>2, <2>3
      <2>5. /\ teardown'.phase = teardown.phase /\ teardown'.toClose = teardown.toClose
            /\ teardown'.process = None /\ teardown'.owner = teardown.owner
          BY <2>2, <2>3
      <2> QED
          BY <2>1, <2>4, <2>5
  <1>3. /\ active' = active /\ active # managed
        /\ \/ /\ teardown'.failed /\ managed' = managed /\ running' = running
           \/ /\ teardown'.failed = teardown.failed /\ managed' = None
              /\ running' = running \ {managed}
      BY <1>2 DEF StopManaged, ManagedStopped, StopProcess, TypeOK
  <1>4. UNCHANGED <<state, inFlight, backend, connectedRequest, orphaned,
                    countVars, callVars, closer, opened, prepared>>
      BY DEF StopManaged, ManagedStopped
  <1>5. TypeOK'
      BY <1>2, <1>3, <1>4 DEF TypeOK
  <1>6. OperationInv'
      BY <1>1, <1>4, NoneAssumption DEF OperationInv, OpPhases, StopPhases
  <1>7. TeardownInv' /\ SurvivorInv'
      BY <1>1, <1>2, <1>3, <1>4 DEF TeardownInv, SurvivorInv, StopPhases
  <1>8. WaiterInv'
      BY <1>1, <1>2, <1>4 DEF WaiterInv
  <1>9. ConnectedHasBackend' /\ IdleHoldsNothing' /\ FailedStopIsRetained'
      BY <1>1, <1>3, <1>4
      DEF ConnectedHasBackend, IdleHoldsNothing, FailedStopIsRetained
  <1>10. BackendsOwned'
      BY <1>4 DEF BackendsOwned
  <1> QED
      BY <1>5, <1>6, <1>7, <1>8, <1>9, <1>10

\* A teardown ends and its waiters are answered.
LEMMA FinishKeepsInv ==
  ASSUME ConnectionInv, ReactionsRun, FinishTeardown
  PROVE  ConnectionInv'
  <1> USE DEF ConnectionInv, countVars, worldVars
  <1>1. /\ inFlight = None /\ state = "stopping"
        /\ \A x \in Callers : pc[x] \notin OpPhases
        /\ \A x \in Callers : pc[x] \notin {"resume", "woken"}
        /\ opened = {x \in Callers : x = backend} \cup orphaned
      BY ClosingFacts DEF FinishTeardown
  <1>2. /\ teardown.phase = "closing" /\ teardown.toClose = {} /\ teardown.process = None
        /\ teardown.failed \in BOOLEAN
        /\ state' = IF teardown.failed THEN "failed" ELSE "idle"
        /\ teardown' = [phase |-> "none", owner |-> None, waitsFor |-> None,
                        toClose |-> {}, process |-> None, failed |-> FALSE]
        /\ UNCHANGED <<inFlight, backend, connectedRequest, orphaned, managed, countVars,
                       req, intent, opGen, waits, proc, aborted, cut, worldVars>>
      BY DEF FinishTeardown, NoTeardown, TypeOK
  <1>3. \A x \in Callers :
          \/ pc'[x] = pc[x] /\ pc[x] \notin {"waitTeardown", "replacing"}
          \/ teardown.failed /\ pc'[x] = "failed"
          \/ ~teardown.failed /\ pc[x] = "waitTeardown" /\ pc'[x] = "woken"
          \/ ~teardown.failed /\ pc[x] = "replacing" /\ pc'[x] = "resume"
      BY DEF FinishTeardown
  <1>4. ~teardown.failed => backend = None /\ orphaned = {} /\ managed = None
      BY <1>2 DEF TeardownInv, TypeOK
  <1>5. TypeOK'
      <2>1. pc' \in [Callers -> {"new"} \cup WaitPhases \cup OpPhases \cup Results]
          BY <1>2 DEF FinishTeardown, TypeOK, WaitPhases, Results
      <2>2. closer' \in [Closers -> {"new", "waiting", "ok", "failed"}]
          BY DEF FinishTeardown, TypeOK
      <2> QED
          BY <1>2, <2>1, <2>2 DEF TypeOK, StateKinds, TeardownPhases
  <1>6. \A x \in Callers : pc'[x] \notin OpPhases
      BY <1>1, <1>3 DEF OpPhases, StopPhases
  <1>7. OperationInv'
      BY <1>1, <1>2, <1>6, NoneAssumption DEF OperationInv, OpPhases, StopPhases
  <1>8. TeardownInv' /\ SurvivorInv'
      <2>1. ~teardown.failed => running \subseteq {active}
          BY <1>4, NoneAssumption DEF FailedStopIsRetained, TypeOK
      <2> QED
          BY <1>1, <1>2, <2>1 DEF TeardownInv, SurvivorInv, StopPhases
  <1>9. WaiterInv'
      <2>1. \A x \in Callers : \A y \in Callers :
              pc[x] = "replacing" /\ pc[y] = "replacing" => x = y
          BY DEF WaiterInv
      <2>2. \A x \in Callers : pc'[x] = "resume" => pc[x] = "replacing" /\ ~teardown.failed
          BY <1>1, <1>3
      <2>3. \A x \in Callers : pc'[x] = "woken" => ~teardown.failed
          BY <1>1, <1>3
      <2>4. \A x \in Callers : /\ pc'[x] = "joined" => pc[x] = "joined"
                               /\ pc'[x] # "replacing"
          BY <1>3
      <2>5. teardown'.phase = "none"
          BY <1>2
      <2> QED
          BY <1>1, <1>2, <1>4, <2>1, <2>2, <2>3, <2>4, <2>5 DEF WaiterInv
  <1>10. ConnectedHasBackend' /\ IdleHoldsNothing' /\ FailedStopIsRetained'
      BY <1>2, <1>4 DEF ConnectedHasBackend, IdleHoldsNothing, FailedStopIsRetained
  <1>11. BackendsOwned'
      BY <1>1, <1>2, <1>6 DEF BackendsOwned, OpPhases, StopPhases
  <1> QED
      BY <1>5, <1>7, <1>8, <1>9, <1>10, <1>11

\* A stuttering step.
LEMMA StutterKeepsInv ==
  ASSUME ConnectionInv, UNCHANGED vars
  PROVE  ConnectionInv'
  BY DEF ConnectionInv, vars, coordVars, countVars, callVars, worldVars, TypeOK,
         OperationInv, StopPhases, TeardownInv, WaiterInv, SurvivorInv, BackendsOwned,
         ConnectedHasBackend, FailedStopIsRetained, IdleHoldsNothing

\* The invariant is inductive: one case for each action.
LEMMA NextInv == ConnectionInv /\ [Next]_vars => ConnectionInv'
  <1> SUFFICES ASSUME ConnectionInv, [Next]_vars PROVE ConnectionInv'
      OBVIOUS
  <1>1. ASSUME NEW c \in Callers, Connect(c) PROVE ConnectionInv'
      BY <1>1, ConnectKeepsInv
  <1>2. ASSUME NEW c \in Callers, Wake(c) PROVE ConnectionInv'
      BY <1>2, WakeKeepsInv
  <1>3. ASSUME NEW c \in Callers, Resume(c) PROVE ConnectionInv'
      BY <1>3, ResumeKeepsInv
  <1>4. ASSUME NEW c \in Callers, Abort(c) PROVE ConnectionInv'
      BY <1>4, AbortKeepsInv
  <1>5. ASSUME NEW c \in Callers, OperationStep(c) PROVE ConnectionInv'
      BY <1>5, OperationKeepsInv
  <1>6. ASSUME NEW c \in Callers, ProcessExits(c) PROVE ConnectionInv'
      BY <1>6, ExitKeepsInv
  <1>7. ASSUME NEW d \in Closers, Disconnect(d) PROVE ConnectionInv'
      BY <1>7, DisconnectKeepsInv
  <1>8. CASE TeardownStep
      BY <1>8, CollectKeepsInv, CloseKeepsInv, StopKeepsInv, FinishKeepsInv
      DEF TeardownStep
  <1>9. CASE UNCHANGED vars
      BY <1>9, StutterKeepsInv
  <1>10. ASSUME NEW p \in Callers, StopBegins(p) PROVE ConnectionInv'
      BY <1>10, StopBeginsKeepsInv
  <1> QED
      BY <1>1, <1>2, <1>3, <1>4, <1>5, <1>6, <1>7, <1>8, <1>9, <1>10 DEF Next

\* What every reachable state of the coordinator satisfies.
THEOREM Invariance == Spec => []ConnectionInv
  BY InitInv, NextInv, PTL DEF Spec

-----------------------------------------------------------------------------
(* The safety properties, for any number of callers and closers. *)

\* Every field of the coordinator keeps its type.
THEOREM TypeCorrect == Spec => []TypeOK
  <1>1. ConnectionInv => TypeOK
      BY DEF ConnectionInv
  <1> QED
      BY <1>1, Invariance, PTL

\* One connection operation runs at a time.
THEOREM OneOperation == Spec => []SingleOperation
  <1>1. ConnectionInv => SingleOperation
      BY DEF ConnectionInv, OperationInv, StopPhases, SingleOperation
  <1> QED
      BY <1>1, Invariance, PTL

\* Open backends and running processes are exactly the ones somebody still owns.
THEOREM NothingLeaks == Spec => []NothingIsLost
  <1>1. ConnectionInv => NothingIsLost
      BY DEF ConnectionInv, NothingIsLost
  <1> QED
      BY <1>1, Invariance, PTL

\* "connected" is published only over an open backend, "idle" over nothing.
THEOREM StateIsTrue == Spec => []StateAgrees
  <1>1. ConnectionInv => ConnectedIsOpen
      BY DEF ConnectionInv, ConnectedHasBackend, BackendsOwned, TypeOK, ConnectedIsOpen
  <1>2. ConnectionInv => StateAgrees
      BY <1>1 DEF ConnectionInv, StateAgrees
  <1> QED
      BY <1>2, Invariance, PTL

-----------------------------------------------------------------------------
(* What a step may never do. *)

\* The one step that installs a backend is InitDone.
LEMMA OnlyInitInstalls ==
  ASSUME Next, backend' # backend, backend' # None
  PROVE  \E c \in Callers : InitDone(c)
  <1>1. ASSUME NEW c \in Callers, Connect(c) PROVE UNCHANGED backend
      BY <1>1 DEF Connect, Proceed, StartOperation, coordVars
  <1>2. ASSUME NEW c \in Callers, Wake(c) PROVE UNCHANGED backend
      BY <1>2 DEF Wake, Proceed, StartOperation, coordVars
  <1>3. ASSUME NEW c \in Callers, Resume(c) \/ Abort(c) \/ ProcessExits(c) \/ StopBegins(c)
        PROVE  UNCHANGED backend
      BY <1>3 DEF Resume, Abort, ProcessExits, StopBegins, StartOperation, coordVars
  <1>4. ASSUME NEW c \in Callers, OperationStep(c), ~InitDone(c) PROVE UNCHANGED backend
      BY <1>4
      DEF OperationStep, Cancelled, SearchDone, LocateDone, RecheckDone, StartFailed,
          StartDone, StartAnswered, VerifyDone, StopAfterFailure, StopAnswered, IdentityDone,
          AuthorizeDone, ProbeDone,
          ReleaseDone, InitFailed, InitStale, CloseStaleDone, Attach, Cancel, Fail,
          Reject, Goto
  <1>5. ASSUME NEW d \in Closers, Disconnect(d) PROVE UNCHANGED backend
      BY <1>5 DEF Disconnect, coordVars
  <1>6. CASE TeardownStep
      BY <1>6 DEF TeardownStep, CollectOwned, CloseBackend, StopManaged, ManagedStopped,
          FinishTeardown
  <1> QED
      BY <1>1, <1>2, <1>3, <1>4, <1>5, <1>6 DEF Next

\* A backend appears only for a call that no disconnect has overtaken.
THEOREM NoResurrection == Spec => NoLateBackend
  <1> DEFINE Step == backend' # backend /\ backend' # None =>
                       /\ intent[backend'] = disconnectIntent
                       /\ ~aborted[backend']
                       /\ teardown.phase = "none"
  <1>1. ConnectionInv /\ [Next]_vars => [Step]_vars
      <2> SUFFICES ASSUME ConnectionInv, Next, backend' # backend, backend' # None
                   PROVE  Step
          BY DEF vars, coordVars
      <2>1. PICK c \in Callers : InitDone(c)
          BY OnlyInitInstalls
      <2> QED
          BY <2>1
          DEF InitDone, Superseded, Aborted, ConnectionInv, OperationInv, OpPhases, StopPhases
  <1> QED
      BY <1>1, Invariance, PTL DEF Spec, NoLateBackend

\* The step that answers a disconnect() with success ends a teardown that failed nowhere.
LEMMA SuccessIsComplete ==
  ASSUME ConnectionInv, Next, NEW d \in Closers, closer[d] # "ok", closer'[d] = "ok"
  PROVE  /\ backend' = None /\ orphaned' = {} /\ managed' = None
         /\ \A c \in Callers : pc'[c] \notin OpPhases
  <1>1. ReactionsRun /\ FinishTeardown
      <2>1. ASSUME NEW c \in Callers, Connect(c) \/ Wake(c) \/ Resume(c) \/ Abort(c)
                                       \/ ProcessExits(c) \/ StopBegins(c)
            PROVE  UNCHANGED closer
          BY <2>1 DEF Connect, Wake, Resume, Abort, ProcessExits, StopBegins
      <2>2. ASSUME NEW c \in Callers, OperationStep(c) PROVE UNCHANGED closer
          BY <2>2
          DEF OperationStep, OpUnchanged, Cancelled, SearchDone, LocateDone,
              RecheckDone, StartFailed, StartDone, StartAnswered, VerifyDone, StopAfterFailure,
              StopAnswered,
              IdentityDone, AuthorizeDone, ProbeDone, ReleaseDone, InitFailed,
              InitDone, InitStale, CloseStaleDone
      <2>3. ASSUME NEW e \in Closers, Disconnect(e) PROVE closer'[d] \in {closer[d], "waiting"}
          BY <2>3 DEF Disconnect, ConnectionInv, TypeOK
      <2> QED
          BY <2>1, <2>2, <2>3
          DEF Next, TeardownStep, CollectOwned, CloseBackend, StopManaged, ManagedStopped
  <1>2. ConnectionInv'
      BY <1>1, FinishKeepsInv
  <1>3. ~teardown.failed
      BY <1>1 DEF FinishTeardown
  <1>4. backend' = None /\ orphaned' = {} /\ managed' = None
      BY <1>1, <1>3 DEF FinishTeardown, ConnectionInv, TeardownInv, TypeOK
  <1>5. inFlight' = None
      BY <1>1 DEF FinishTeardown, ConnectionInv, TeardownInv
  <1>6. \A c \in Callers : pc'[c] \notin OpPhases
      BY <1>2, <1>5, NoneAssumption DEF ConnectionInv, OperationInv, StopPhases
  <1> QED
      BY <1>4, <1>6

\* A successful disconnect leaves nothing held and no operation running.
THEOREM DisconnectComplete == Spec => DisconnectReleases
  <1> DEFINE Step == \A d \in Closers : closer[d] # "ok" /\ closer'[d] = "ok" =>
                       /\ backend' = None /\ orphaned' = {} /\ managed' = None
                       /\ \A c \in Callers : pc'[c] \notin OpPhases
  <1>1. ConnectionInv /\ [Next]_vars => [Step]_vars
      BY SuccessIsComplete
  <1> QED
      BY <1>1, Invariance, PTL DEF Spec, DisconnectReleases

\* connect() settles a call at once only from the cached connection.
LEMMA StartAnswers ==
  ASSUME TypeOK, NEW c \in Callers, StartOperation(c),
         NEW x \in Callers, pc[x] # "ok", pc'[x] = "ok"
  PROVE  backend' # None /\ connectedRequest' = req[x]
  <1>1. pc = [y \in Callers |-> pc[y]]
      BY DEF TypeOK
  <1>2. x = c /\ Serves(req[c])
      BY <1>1 DEF StartOperation
  <1> QED
      BY <1>2 DEF StartOperation, Serves

\* Joining and replacing answer nothing.
LEMMA ProceedAnswers ==
  ASSUME TypeOK, NEW c \in Callers, Proceed(c),
         NEW x \in Callers, pc[x] # "ok", pc'[x] = "ok"
  PROVE  backend' # None /\ connectedRequest' = req[x]
  <1>1. pc = [y \in Callers |-> pc[y]]
      BY DEF TypeOK
  <1>2. StartOperation(c)
      BY <1>1 DEF Proceed
  <1> QED
      BY <1>2, StartAnswers

\* An operation answers "ok" only from InitDone, and to the calls that joined
\* it with the same request.
LEMMA OperationAnswers ==
  ASSUME ConnectionInv, NEW c \in Callers, OperationStep(c),
         NEW x \in Callers, pc[x] # "ok", pc'[x] = "ok"
  PROVE  backend' # None /\ connectedRequest' = req[x]
  <1>1. pc = [y \in Callers |-> pc[y]]
      BY DEF ConnectionInv, TypeOK
  <1>2. ASSUME NEW result, NEW published, NEW held, NEW stale, result # "ok",
               Reject(c, result, published, held, stale)
        PROVE  FALSE
      BY <1>1, <1>2 DEF Reject, Answer
  <1>3. ASSUME NEW published, NEW held, NEW stale, Cancel(c, published, held, stale)
        PROVE  FALSE
      BY <1>2, <1>3 DEF Cancel
  <1>4. ASSUME NEW published, Fail(c, published)
        PROVE  FALSE
      BY <1>2, <1>4 DEF Fail
  <1>5. ASSUME NEW phase, NEW published, phase # "ok", Goto(c, phase, published)
        PROVE  FALSE
      BY <1>1, <1>5 DEF Goto
  <1>6. CASE InitDone(c)
      <2>1. backend' = c /\ c # None /\ connectedRequest' = req[c]
          BY <1>6, NoneAssumption DEF InitDone
      <2>2. x = c \/ (pc[x] = "joined" /\ waits[x] = c)
          BY <1>1, <1>6 DEF InitDone, Answer
      <2>3. req[x] = req[c]
          BY <2>2 DEF ConnectionInv, WaiterInv
      <2> QED
          BY <2>1, <2>3
  <1>7. CASE StartDone(c)
      BY <1>1, <1>7 DEF StartDone, StartAnswered
  <1>8. CASE Cancelled(c) \/ SearchDone(c) \/ LocateDone(c) \/ RecheckDone(c)
             \/ StartFailed(c) \/ VerifyDone(c)
      BY <1>3, <1>4, <1>5, <1>8
      DEF Cancelled, SearchDone, LocateDone, RecheckDone, StartFailed, VerifyDone, Attach
  <1>9. CASE StopAfterFailure(c)
      <2>1. (IF pc[c] = "stopCancelled" THEN "cancelled" ELSE "failed") # "ok"
          OBVIOUS
      <2> QED
          BY <1>2, <1>4, <1>9, <2>1 DEF StopAfterFailure, StopAnswered
  <1>10. CASE IdentityDone(c) \/ AuthorizeDone(c) \/ ProbeDone(c) \/ ReleaseDone(c)
      BY <1>3, <1>4, <1>5, <1>10
      DEF IdentityDone, AuthorizeDone, ProbeDone, ReleaseDone, Attach
  <1>11. CASE InitFailed(c) \/ InitStale(c) \/ CloseStaleDone(c)
      BY <1>2, <1>3, <1>4, <1>5, <1>11 DEF InitFailed, InitStale, CloseStaleDone
  <1> QED
      BY <1>6, <1>7, <1>8, <1>9, <1>10, <1>11 DEF OperationStep

\* Whether it started the operation, joined it or found a connection cached, a
\* call that is answered "ok" is served the endpoint it asked for.
THEOREM AnswersServe == Spec => AnswerServesRequest
  <1> DEFINE Step == \A c \in Callers : pc[c] # "ok" /\ pc'[c] = "ok" =>
                       backend' # None /\ connectedRequest' = req[c]
  <1>1. ConnectionInv /\ [Next]_vars => [Step]_vars
      <2> SUFFICES ASSUME ConnectionInv, Next, NEW x \in Callers,
                          pc[x] # "ok", pc'[x] = "ok"
                   PROVE  backend' # None /\ connectedRequest' = req[x]
          BY DEF vars
      <2>1. TypeOK /\ pc = [y \in Callers |-> pc[y]]
          BY DEF ConnectionInv, TypeOK
      <2>2. ASSUME NEW c \in Callers, Connect(c) PROVE Proceed(c)
          BY <2>1, <2>2 DEF Connect
      <2>3. ASSUME NEW c \in Callers, Wake(c) PROVE Proceed(c)
          BY <2>1, <2>3 DEF Wake
      <2>4. ASSUME NEW c \in Callers, Resume(c) PROVE StartOperation(c)
          BY <2>1, <2>4 DEF Resume
      <2>5. ASSUME NEW c \in Callers, Abort(c) \/ ProcessExits(c) \/ StopBegins(c) PROVE FALSE
          BY <2>1, <2>5 DEF Abort, ProcessExits, StopBegins, callVars
      <2>6. ASSUME NEW d \in Closers, Disconnect(d) PROVE FALSE
          BY <2>6 DEF Disconnect
      <2>7. CASE TeardownStep
          BY <2>1, <2>7
          DEF TeardownStep, CollectOwned, CloseBackend, StopManaged, ManagedStopped,
              FinishTeardown,
              callVars
      <2> QED
          BY <2>1, <2>2, <2>3, <2>4, <2>5, <2>6, <2>7, ProceedAnswers, StartAnswers,
             OperationAnswers
          DEF Next
  <1> QED
      BY <1>1, Invariance, PTL DEF Spec, AnswerServesRequest

-----------------------------------------------------------------------------
(* Nobody waits in vain. *)

\* An operation that answers takes everyone who joined it along.
LEMMA SettlingServes ==
  ASSUME ConnectionInv, NobodyWaitsInVain, NEW c \in Callers, pc[c] \in OpPhases,
         NEW result \in Results, Answer(c, result), ClearInFlight(c),
         UNCHANGED <<teardown, waits, closer>>
  PROVE  NobodyWaitsInVain'
  <1>1. inFlight = c /\ inFlight' = None
      BY DEF ConnectionInv, OperationInv, StopPhases, ClearInFlight
  <1>2. \A x \in Callers : \/ pc'[x] = pc[x] /\ pc[x] # "joined" /\ pc[x] \notin OpPhases
                           \/ pc'[x] = result
      BY <1>1 DEF Answer, NobodyWaitsInVain, ConnectionInv, OperationInv, StopPhases
  <1>3. result \notin OpPhases /\ result \notin {"joined", "waitTeardown", "replacing"}
      BY DEF Results, OpPhases, StopPhases
  <1>4. teardown.waitsFor \in Callers \cup {None}
      BY DEF ConnectionInv, TypeOK
  <1> QED
      BY <1>1, <1>2, <1>3, <1>4 DEF NobodyWaitsInVain, OpPhases, StopPhases, Results

\* One that goes on stays in flight.
LEMMA MovingServes ==
  ASSUME ConnectionInv, NobodyWaitsInVain, NEW c \in Callers, pc[c] \in OpPhases,
         NEW phase \in OpPhases, pc' = [pc EXCEPT ![c] = phase],
         phase \in {"verify", "stopCancelled", "stopFailed"} =>
           proc'[c] # None /\ managed' = proc'[c],
         UNCHANGED <<inFlight, teardown, waits, closer>>
  PROVE  NobodyWaitsInVain'
  <1>1. \A x \in Callers \ {c} : pc'[x] = pc[x] /\ pc[x] \notin OpPhases
      BY DEF ConnectionInv, OperationInv, StopPhases, TypeOK
  <1>2. pc'[c] = phase /\ inFlight = c
      BY DEF ConnectionInv, OperationInv, StopPhases, TypeOK
  <1>3. phase \notin {"joined", "waitTeardown", "replacing"}
      BY DEF OpPhases, StopPhases
  <1>4. teardown.waitsFor \in Callers \cup {None}
      BY DEF ConnectionInv, TypeOK
  <1> QED
      BY <1>1, <1>2, <1>3, <1>4 DEF NobodyWaitsInVain, OpPhases, StopPhases

\* So no step of an operation leaves anyone waiting.
LEMMA OperationServes ==
  ASSUME ConnectionInv, NobodyWaitsInVain, NEW c \in Callers, OperationStep(c)
  PROVE  NobodyWaitsInVain'
  <1>0. OpUnchanged /\ UNCHANGED <<teardown, waits, closer>> /\ pc[c] \in OpPhases
      BY DEF OperationStep, OpUnchanged, Cancelled, SearchDone, LocateDone, RecheckDone,
         StartFailed, StartDone, StartAnswered, VerifyDone, StopAfterFailure, StopAnswered,
         IdentityDone, AuthorizeDone,
         ProbeDone, ReleaseDone, InitFailed, InitDone, InitStale, CloseStaleDone, OpPhases,
         StopPhases
  <1>1. ASSUME NEW result \in Results, NEW published, NEW held, NEW stale,
               Reject(c, result, published, held, stale)
        PROVE  NobodyWaitsInVain'
      BY <1>0, <1>1, SettlingServes DEF Reject
  <1>2. ASSUME NEW published, Fail(c, published)
        PROVE  NobodyWaitsInVain'
      BY <1>1, <1>2 DEF Fail, Results
  <1>3. ASSUME NEW published, NEW held, NEW stale, Cancel(c, published, held, stale)
        PROVE  NobodyWaitsInVain'
      BY <1>1, <1>3 DEF Cancel, Results
  <1>4. ASSUME NEW phase \in OpPhases, NEW published, Goto(c, phase, published),
               phase \in {"verify", "stopCancelled", "stopFailed"} =>
                 pc[c] = "verify" /\ UNCHANGED proc
        PROVE  NobodyWaitsInVain'
      <2>1. pc' = [pc EXCEPT ![c] = phase] /\ UNCHANGED <<inFlight, managed>>
          BY <1>4 DEF Goto
      <2> QED
          BY <1>0, <1>4, <2>1, MovingServes DEF NobodyWaitsInVain
  <1> USE DEF OpPhases, StopPhases
  <1>5. CASE StartDone(c)
      <2> DEFINE phase == IF Aborted(c) THEN "stopCancelled" ELSE "verify"
      <2>1. phase \in OpPhases /\ pc' = [pc EXCEPT ![c] = phase] /\ UNCHANGED inFlight
          BY <1>5 DEF StartDone, StartAnswered
      <2>2. proc'[c] # None /\ managed' = proc'[c]
          BY <1>5, NoneAssumption DEF StartDone, StartAnswered, ConnectionInv, TypeOK
      <2> HIDE DEF phase
      <2> QED
          BY <1>0, <2>1, <2>2, MovingServes
  <1>6. CASE StopAfterFailure(c)
      <2>1. (IF pc[c] = "stopCancelled" THEN "cancelled" ELSE "failed") \in Results
          BY DEF Results
      <2> QED
          BY <1>1, <1>2, <1>6, <2>1 DEF StopAfterFailure, StopAnswered
  <1>7. CASE Cancelled(c) \/ SearchDone(c) \/ LocateDone(c) \/ RecheckDone(c) \/ StartFailed(c)
             \/ IdentityDone(c)
      BY <1>2, <1>3, <1>4, <1>7 DEF Cancelled, SearchDone, LocateDone, RecheckDone,
         StartFailed, IdentityDone, Attach
  <1>8. CASE VerifyDone(c)
      BY <1>4, <1>8 DEF VerifyDone, Attach
  <1>9. CASE AuthorizeDone(c) \/ ProbeDone(c) \/ ReleaseDone(c)
      BY <1>2, <1>3, <1>4, <1>9 DEF AuthorizeDone, ProbeDone, ReleaseDone, Attach
  <1>10. CASE InitFailed(c) \/ InitStale(c) \/ CloseStaleDone(c)
      BY <1>1, <1>2, <1>3, <1>4, <1>10 DEF InitFailed, InitStale, CloseStaleDone, Results
  <1>11. CASE InitDone(c)
      BY <1>0, <1>11, SettlingServes DEF InitDone, Results
  <1> QED
      BY <1>5, <1>6, <1>7, <1>8, <1>9, <1>10, <1>11 DEF OperationStep

\* A call joins, waits for the teardown it began, or is on its own.
LEMMA ProceedingServes ==
  ASSUME ConnectionInv, NobodyWaitsInVain, NEW c \in Callers, pc[c] \notin OpPhases,
         pc[c] \notin Results, UNCHANGED <<closer, proc>>,
         \/ Proceed(c) /\ teardown.phase = "none"
         \/ StartOperation(c) /\ inFlight = None /\ UNCHANGED waits
  PROVE  NobodyWaitsInVain'
  <1>0. TypeOK /\ pc = [x \in Callers |-> pc[x]] /\ waits = [x \in Callers |-> waits[x]]
        /\ c # None
      BY NoneAssumption DEF ConnectionInv, TypeOK
  <1>1. \A x \in Callers : teardown.waitsFor = x /\ teardown.phase = "awaitOp" =>
          x # c
      BY <1>0, NoneAssumption DEF NobodyWaitsInVain
  <1>2. CASE StartOperation(c) /\ inFlight = None /\ UNCHANGED waits
      <2>1. /\ inFlight' \in {None, c} /\ UNCHANGED <<teardown, managed>>
            /\ \A x \in Callers \ {c} : pc'[x] = pc[x]
            /\ inFlight' = c => pc'[c] \in {"identity", "authorize", "locate", "search"}
            /\ inFlight' = None => pc'[c] \in {"ok", "failed"}
          BY <1>0, <1>2 DEF StartOperation
      <2>2. \A x \in Callers : pc[x] # "joined"
          BY <1>2 DEF NobodyWaitsInVain
      <2>3. pc'[c] \notin {"joined", "waitTeardown", "replacing", "verify", "stopCancelled",
                              "stopFailed"}
          BY <2>1
      <2> QED
          BY <1>0, <1>1, <1>2, <2>1, <2>2, <2>3, NoneAssumption
          DEF NobodyWaitsInVain, OpPhases, StopPhases, TypeOK
  <1>3. CASE inFlight # None /\ Proceed(c) /\ teardown.phase = "none"
      <2>1. /\ UNCHANGED <<inFlight, teardown, managed>>
            /\ \A x \in Callers \ {c} : pc'[x] = pc[x] /\ waits'[x] = waits[x]
            /\ pc'[c] = "busy" \/ (pc'[c] = "joined" /\ waits'[c] = inFlight)
          BY <1>0, <1>3 DEF Proceed, coordVars
      <2>2. inFlight # c
          BY <1>0 DEF ConnectionInv, OperationInv, StopPhases
      <2> QED
          BY <1>0, <1>3, <2>1, <2>2 DEF NobodyWaitsInVain, OpPhases, StopPhases, TypeOK
  <1>4. CASE inFlight = None /\ Proceed(c) /\ teardown.phase = "none" /\ BeginTeardown(c)
      <2>1. /\ UNCHANGED <<inFlight, managed, waits>>
            /\ pc' = [pc EXCEPT ![c] = "replacing"]
            /\ teardown'.phase = "awaitOp" /\ teardown'.waitsFor = None
          BY <1>4 DEF Proceed, coordVars, BeginTeardown, NoTeardown, StartOperation
      <2> QED
          BY <1>0, <1>4, <2>1 DEF NobodyWaitsInVain, OpPhases, StopPhases
  <1> QED
      BY <1>2, <1>3, <1>4 DEF Proceed

\* A call that is refused, or waits for the teardown under way.
LEMMA TurningServes ==
  ASSUME ConnectionInv, NobodyWaitsInVain, NEW c \in Callers, pc[c] \notin OpPhases,
         NEW phase \in Results \cup {"waitTeardown"}, pc' = [pc EXCEPT ![c] = phase],
         phase = "waitTeardown" => teardown.phase # "none",
         teardown.waitsFor = c /\ teardown.phase = "awaitOp" => phase \in Results,
         UNCHANGED <<inFlight, teardown, managed, waits, closer, proc>>
  PROVE  NobodyWaitsInVain'
  <1>1. inFlight # c
      BY DEF ConnectionInv, OperationInv, StopPhases
  <1>2. pc'[c] = phase /\ \A x \in Callers \ {c} : pc'[x] = pc[x]
      BY DEF ConnectionInv, TypeOK
  <1>3. phase \notin {"joined", "replacing", "verify", "stopCancelled", "stopFailed"}
      BY DEF Results
  <1>4. /\ inFlight \in Callers \cup {None}
        /\ teardown.waitsFor \in Callers \cup {None}
      BY DEF ConnectionInv, TypeOK
  <1> QED
      BY <1>1, <1>2, <1>3, <1>4 DEF NobodyWaitsInVain, StopPhases

\* connect(), a call that wakes up, and one whose signal fires.
LEMMA CallsServe ==
  ASSUME ConnectionInv, NobodyWaitsInVain, NEW c \in Callers,
         Connect(c) \/ Wake(c) \/ Resume(c) \/ Abort(c)
  PROVE  NobodyWaitsInVain'
  <1>0. pc[c] \in {"new", "woken", "resume"} => pc[c] \notin OpPhases \cup Results
      BY DEF OpPhases, StopPhases, Results
  <1>1. teardown.waitsFor = c /\ teardown.phase = "awaitOp" => pc[c] \in OpPhases \cup Results
      BY NoneAssumption DEF NobodyWaitsInVain
  <1>2. UNCHANGED <<closer, proc>>
      BY DEF Connect, Wake, Resume, Abort
  <1>3. CASE Connect(c)
      <2>1. CASE Proceed(c) /\ teardown.phase = "none"
          BY <1>0, <1>2, <1>3, <2>1, ProceedingServes DEF Connect
      <2>2. CASE /\ \/ pc' = [pc EXCEPT ![c] = "cancelled"]
                    \/ pc' = [pc EXCEPT ![c] = "waitTeardown"] /\ teardown.phase # "none"
                 /\ UNCHANGED <<coordVars, countVars, teardown, opGen, waits, cut>>
          BY <1>0, <1>1, <1>2, <1>3, <2>2, TurningServes DEF Connect, coordVars, Results
      <2> QED
          BY <1>3, <2>1, <2>2 DEF Connect
  <1>4. CASE Wake(c)
      <2>1. CASE Proceed(c) /\ disconnectIntent = intent[c]
          BY <1>0, <1>2, <1>4, <2>1, ProceedingServes DEF Wake, ConnectionInv, WaiterInv
      <2>2. CASE /\ pc' = [pc EXCEPT ![c] = "cancelled"]
                 /\ UNCHANGED <<coordVars, countVars, teardown, opGen, waits, cut>>
          BY <1>0, <1>1, <1>2, <1>4, <2>2, TurningServes DEF Wake, coordVars, Results
      <2> QED
          BY <1>4, <2>1, <2>2 DEF Wake
  <1>5. CASE Resume(c)
      <2>1. CASE StartOperation(c)
          BY <1>0, <1>2, <1>5, <2>1, ProceedingServes DEF Resume, ConnectionInv, WaiterInv
      <2>2. CASE /\ pc' = [pc EXCEPT ![c] = "cancelled"]
                 /\ UNCHANGED <<coordVars, countVars, teardown, opGen, cut>>
          BY <1>0, <1>1, <1>2, <1>5, <2>2, TurningServes DEF Resume, coordVars, Results
      <2> QED
          BY <1>5, <2>1, <2>2 DEF Resume
  <1>6. CASE Abort(c)
      <2>1. UNCHANGED <<inFlight, teardown, managed, waits, closer, proc>>
          BY <1>6 DEF Abort, coordVars
      <2>2. CASE pc[c] \in {"waitTeardown", "joined"}
          <3>1. pc' = [pc EXCEPT ![c] = "cancelled"] /\ pc[c] \notin OpPhases
              BY <1>6, <2>2 DEF Abort, OpPhases, StopPhases
          <3> QED
              BY <1>1, <2>1, <2>2, <3>1, TurningServes DEF Results
      <2>3. CASE pc[c] \notin {"waitTeardown", "joined"}
          <3>1. pc' = pc
              BY <1>6, <2>3 DEF Abort, ConnectionInv, TypeOK
          <3> QED
              BY <2>1, <3>1 DEF NobodyWaitsInVain
      <2> QED
          BY <2>2, <2>3
  <1> QED
      BY <1>3, <1>4, <1>5, <1>6

\* disconnect() and the teardown.
LEMMA TeardownServes ==
  ASSUME ConnectionInv, NobodyWaitsInVain,
         TeardownStep \/ \E d \in Closers : Disconnect(d)
  PROVE  NobodyWaitsInVain'
  <1>0. TypeOK
      BY DEF ConnectionInv
  <1>1. ASSUME NEW d \in Closers, Disconnect(d) PROVE NobodyWaitsInVain'
      <2>1. /\ UNCHANGED <<inFlight, managed, pc, waits, proc>>
            /\ teardown'.phase # "none"
            /\ \/ teardown' = teardown
               \/ teardown'.waitsFor = inFlight
          BY <1>1 DEF Disconnect, BeginTeardown, NoTeardown, coordVars
      <2> QED
          BY <2>1 DEF NobodyWaitsInVain
  <1>2. CASE CollectOwned
      <2>1. /\ UNCHANGED <<inFlight, managed, pc, waits, proc, closer>>
            /\ teardown'.phase = "closing"
          BY <1>0, <1>2 DEF CollectOwned, callVars, TypeOK
      <2> QED
          BY <2>1 DEF NobodyWaitsInVain
  <1>3. ASSUME NEW b \in Callers, CloseBackend(b) PROVE NobodyWaitsInVain'
      <2>1. /\ UNCHANGED <<inFlight, managed, pc, waits, proc, closer>>
            /\ teardown'.phase = "closing"
          BY <1>0, <1>3 DEF CloseBackend, callVars, TypeOK
      <2> QED
          BY <2>1 DEF NobodyWaitsInVain
  <1>4. CASE StopManaged
      <2>1. /\ UNCHANGED <<inFlight, pc, waits, proc, closer>>
            /\ teardown'.phase = "closing" /\ teardown.phase = "closing"
          BY <1>0, <1>4 DEF StopManaged, ManagedStopped, callVars, TypeOK
      <2>2. \A x \in Callers : pc[x] \notin {"verify", "stopCancelled", "stopFailed"}
          BY <2>1, NoneAssumption DEF ConnectionInv, TeardownInv, OperationInv, OpPhases,
              StopPhases
      <2> QED
          BY <2>1, <2>2 DEF NobodyWaitsInVain, StopPhases
  <1>5. CASE FinishTeardown
      <2>1. /\ UNCHANGED <<inFlight, managed, waits, proc>>
            /\ teardown'.phase = "none" /\ inFlight = None
            /\ \A d \in Closers : closer'[d] # "waiting"
          BY <1>0, <1>5 DEF FinishTeardown, NoTeardown, ConnectionInv, TeardownInv
      <2>2. \A x \in Callers :
              \/ pc'[x] = pc[x] /\ pc[x] \notin {"waitTeardown", "replacing"}
              \/ pc'[x] \in {"failed", "woken", "resume"}
          BY <1>5 DEF FinishTeardown
      <2> QED
          BY <2>1, <2>2 DEF NobodyWaitsInVain, StopPhases
  <1> QED
      BY <1>1, <1>2, <1>3, <1>4, <1>5 DEF TeardownStep

\* No call of connect() and no disconnect() ever waits for something that is over, or
\* for each other in a circle.
THEOREM WaitsAreServed == Spec => []NobodyWaitsInVain
  <1>1. Init => NobodyWaitsInVain
      BY DEF Init, NobodyWaitsInVain, StopPhases, NoTeardown
  <1>2. ConnectionInv /\ NobodyWaitsInVain /\ [Next]_vars => NobodyWaitsInVain'
      <2> SUFFICES ASSUME ConnectionInv, NobodyWaitsInVain, [Next]_vars
                   PROVE  NobodyWaitsInVain'
          OBVIOUS
      <2>1. ASSUME NEW p \in Callers, ProcessExits(p) \/ StopBegins(p) PROVE NobodyWaitsInVain'
          BY <2>1 DEF ProcessExits, StopBegins, coordVars, callVars, NobodyWaitsInVain
      <2>2. CASE UNCHANGED vars
          BY <2>2 DEF vars, coordVars, callVars, NobodyWaitsInVain
      <2> QED
          BY <2>1, <2>2, OperationServes, CallsServe, TeardownServes DEF Next
  <1> QED
      BY <1>1, <1>2, Invariance, PTL DEF Spec

=============================================================================
