----------------------------- MODULE Connection -----------------------------
(***************************************************************************)
(* The connection coordinator: one shared connection to a DSH backend, its *)
(* candidates, the managed process it may have to start, and the teardown  *)
(* that serialises with every connection attempt.                          *)
(*   packages/application/src/connection/dsh-connection-coordinator.ts     *)
(*                                                                         *)
(* A caller of connect() is named by an element of Callers and makes one   *)
(* call; a caller of disconnect() is an element of Closers.  The operation *)
(* a call starts, the backend that operation opens and the process it      *)
(* spawns carry the name of the call.  An action is one run of the code    *)
(* between two awaits; the publications an action makes before its last    *)
(* one are not states of the model.                                        *)
(*                                                                         *)
(* A definition named ...Bug is not part of the specification: it is a     *)
(* mistake that a definition further down could contain, kept to confirm   *)
(* that some property notices it.                                          *)
(***************************************************************************)
EXTENDS Naturals, FiniteSets

CONSTANTS
  Callers,    \* calls of connect(request, signal)
  Closers,    \* calls of disconnect()
  Requests,   \* the requests sameRequest() tells apart
  ModeOf,     \* how connectOnce treats each request
  None        \* undefined

Modes == {"auto", "attachOnly", "isolated", "custom", "customUnset"}

ASSUME ModeAssumption == ModeOf \in [Requests -> Modes]
ASSUME NoneAssumption == None \notin Callers \cup Closers \cup Requests

VARIABLES
  \* the fields of DshConnectionCoordinator
  state,             \* state.kind
  inFlight,          \* the call whose operation is in flight
  backend,           \* the attached backend
  connectedRequest,  \* the request it was attached for
  orphaned,          \* stale backends whose close failed
  managed,           \* the process handle the coordinator holds
  generation,
  disconnectIntent,
  teardown,          \* the disconnectOnce() in progress
  \* one entry for each connect() call
  pc, req, intent, opGen, waits, proc,
  aborted,           \* the caller's own signal
  cut,               \* the operation's abort controller
  \* one entry for each disconnect() call
  closer,
  \* outside the coordinator
  opened,            \* backends that are open
  running,           \* managed processes that are alive
  active,            \* the process the supervisor hands out again
  prepared           \* requests whose endpoint is authorised and not released

coordVars == <<state, inFlight, backend, connectedRequest, orphaned, managed>>
countVars == <<generation, disconnectIntent>>
callVars  == <<pc, req, intent, opGen, waits, proc, aborted, cut>>
worldVars == <<opened, running, active, prepared>>
vars == <<coordVars, countVars, teardown, callVars, closer, worldVars>>

OpPhases == {"identity", "authorize", "probe", "release", "releaseAbsent",
             "search", "locate", "recheck", "start", "verify",
             "stopCancelled", "stopFailed", "init", "closeStale"}
StopPhases == {"stopCancelled", "stopFailed"}
WaitPhases == {"waitTeardown", "woken", "joined", "replacing", "resume"}
Results == {"ok", "cancelled", "failed", "busy"}
StateKinds == {"idle", "discovering", "connecting", "locating-runtime",
               "runtime-missing", "starting", "port-conflict", "connected",
               "stopping", "failed"}
TeardownPhases == {"none", "awaitOp", "closing"}

NoTeardown == [phase |-> "none", owner |-> None, waitsFor |-> None,
               toClose |-> {}, process |-> None, failed |-> FALSE]

Init ==
  /\ state = "idle" /\ inFlight = None /\ backend = None
  /\ connectedRequest = None /\ orphaned = {} /\ managed = None
  /\ generation = 0 /\ disconnectIntent = 0
  /\ teardown = NoTeardown
  /\ pc = [c \in Callers |-> "new"]
  /\ req \in [Callers -> Requests]
  /\ intent = [c \in Callers |-> 0]
  /\ opGen = [c \in Callers |-> 0]
  /\ waits = [c \in Callers |-> None]
  /\ proc = [c \in Callers |-> None]
  /\ aborted = [c \in Callers |-> FALSE]
  /\ cut = [c \in Callers |-> FALSE]
  /\ closer = [d \in Closers |-> "new"]
  /\ opened = {} /\ running = {} /\ active = None /\ prepared = {}

-----------------------------------------------------------------------------
(* What the code asks of its fields. *)

\* operationSignal: the caller's signal combined with the operation's own.
Aborted(c) == aborted[c] \/ cut[c]

SupersededBug(c) == FALSE

Superseded(c) == opGen[c] # generation \/ Aborted(c)

Serves(r) == backend # None /\ connectedRequest = r /\ ModeOf[r] # "isolated"

NeedsTeardown(r) ==
  \/ orphaned # {}
  \/ state = "failed" /\ (backend # None \/ managed # None)
  \/ backend # None /\ ~Serves(r)

\* A settled teardown wakes the calls that wait for it in promise reactions:
\* the call that created it first, with nothing in between, then the others,
\* all before any I/O or timer completes.
NoResume == \A c \in Callers : pc[c] # "resume"
ReactionsRun == NoResume /\ \A c \in Callers : pc[c] # "woken"

-----------------------------------------------------------------------------
(* Settling an operation: connectOnce's result, the catch of connect() and *)
(* the reactions that clear inFlight, with every call that joined it.      *)

AnswerBug(c, result) == pc' = [pc EXCEPT ![c] = result]

Answer(c, result) ==
  pc' = [x \in Callers |->
           IF x = c \/ (pc[x] = "joined" /\ waits[x] = c) THEN result ELSE pc[x]]

ClearInFlight(c) == inFlight' = IF inFlight = c THEN None ELSE inFlight

RejectBug(c, result, published, held, stale) ==
  /\ Answer(c, result)
  /\ ClearInFlight(c)
  /\ state' = IF opGen[c] = generation /\ Aborted(c)
              THEN IF backend = None THEN "idle" ELSE "connected"
              ELSE published
  /\ managed' = held
  /\ orphaned' = stale
  /\ UNCHANGED <<backend, connectedRequest>>

\* held and stale are managedProcess and orphanedBackends as the catch finds
\* them; published is the last state connectOnce published.
Reject(c, result, published, held, stale) ==
  /\ Answer(c, result)
  /\ ClearInFlight(c)
  /\ state' =
       IF opGen[c] = generation /\ Aborted(c) /\ held = None /\ stale = {}
       THEN IF backend = None THEN "idle" ELSE "connected"
       ELSE published
  /\ managed' = held
  /\ orphaned' = stale
  /\ UNCHANGED <<backend, connectedRequest>>

Cancel(c, published, held, stale) ==
  Reject(c, "cancelled", published, held, stale)

Fail(c, published) == Reject(c, "failed", published, managed, orphaned)

Goto(c, phase, published) ==
  /\ pc' = [pc EXCEPT ![c] = phase]
  /\ state' = published
  /\ UNCHANGED <<inFlight, backend, connectedRequest, orphaned, managed>>

\* The part of the state no step of an operation touches.
OpUnchanged == UNCHANGED <<countVars, teardown, req, intent, opGen, waits,
                           aborted, cut, closer>>

-----------------------------------------------------------------------------
(* disconnectOnce(), up to its first await. *)

BeginTeardown(owner) ==
  /\ generation' = generation + 1
  /\ cut' = [c \in Callers |-> cut[c] \/ c = inFlight]
  /\ teardown' = [NoTeardown EXCEPT !.phase = "awaitOp", !.owner = owner,
                                    !.waitsFor = inFlight]

-----------------------------------------------------------------------------
(* connect(). *)

\* A cached connection is published again and settles the call at once; so
\* does a custom request without an endpoint.
StartOperation(c) ==
  /\ generation' = generation + 1
  /\ opGen' = [opGen EXCEPT ![c] = generation + 1]
  /\ \/ /\ Serves(req[c])
        /\ pc' = [pc EXCEPT ![c] = "ok"]
        /\ state' = "connected"
        /\ UNCHANGED inFlight
     \/ /\ ~Serves(req[c])
        /\ ModeOf[req[c]] = "customUnset"
        /\ pc' = [pc EXCEPT ![c] = "failed"]
        /\ state' = "failed"
        /\ UNCHANGED inFlight
     \/ /\ ~Serves(req[c])
        /\ inFlight' = c
        /\ \/ /\ ModeOf[req[c]] = "custom"
              /\ \/ state' = "discovering" /\ pc' = [pc EXCEPT ![c] = "identity"]
                 \/ state' = "connecting" /\ pc' = [pc EXCEPT ![c] = "authorize"]
           \/ /\ ModeOf[req[c]] = "isolated"
              /\ state' = "locating-runtime"
              /\ pc' = [pc EXCEPT ![c] = "locate"]
           \/ /\ ModeOf[req[c]] \in {"auto", "attachOnly"}
              /\ state' = "discovering"
              /\ pc' = [pc EXCEPT ![c] = "search"]
  /\ UNCHANGED <<backend, connectedRequest, orphaned, managed,
                 disconnectIntent, teardown, cut>>

ProceedAlwaysStartsBug(c) ==
  IF NeedsTeardown(req[c])
  THEN /\ BeginTeardown(c)
       /\ pc' = [pc EXCEPT ![c] = "replacing"]
       /\ UNCHANGED <<coordVars, disconnectIntent, opGen, waits>>
  ELSE StartOperation(c) /\ UNCHANGED waits

ProceedJoinsAnyBug(c) ==
  IF inFlight # None
  THEN /\ pc' = [pc EXCEPT ![c] = "joined"]
       /\ waits' = [waits EXCEPT ![c] = inFlight]
       /\ UNCHANGED <<coordVars, countVars, teardown, opGen, cut>>
  ELSE ProceedAlwaysStartsBug(c)

\* Lines 74-98 of the source: join, refuse, replace or start.
Proceed(c) ==
  \/ /\ inFlight # None
     /\ \/ /\ req[inFlight] # req[c]
           /\ pc' = [pc EXCEPT ![c] = "busy"]
           /\ UNCHANGED waits
        \/ /\ req[inFlight] = req[c]
           /\ pc' = [pc EXCEPT ![c] = "joined"]
           /\ waits' = [waits EXCEPT ![c] = inFlight]
     /\ UNCHANGED <<coordVars, countVars, teardown, opGen, cut>>
  \/ /\ inFlight = None
     /\ NeedsTeardown(req[c])
     /\ BeginTeardown(c)
     /\ pc' = [pc EXCEPT ![c] = "replacing"]
     /\ UNCHANGED <<coordVars, disconnectIntent, opGen, waits>>
  \/ /\ inFlight = None
     /\ ~NeedsTeardown(req[c])
     /\ StartOperation(c)
     /\ UNCHANGED waits

Connect(c) ==
  /\ pc[c] = "new" /\ NoResume
  /\ intent' = [intent EXCEPT ![c] = disconnectIntent]
  /\ \/ /\ aborted[c]
        /\ pc' = [pc EXCEPT ![c] = "cancelled"]
        /\ UNCHANGED <<coordVars, countVars, teardown, opGen, waits, cut>>
     \/ /\ ~aborted[c] /\ teardown.phase # "none"
        /\ pc' = [pc EXCEPT ![c] = "waitTeardown"]
        /\ UNCHANGED <<coordVars, countVars, teardown, opGen, waits, cut>>
     \/ /\ ~aborted[c] /\ teardown.phase = "none"
        /\ Proceed(c)
  /\ UNCHANGED <<proc, req, aborted, closer, worldVars>>

\* A call that waited for a teardown goes on once it has succeeded.
Wake(c) ==
  /\ pc[c] = "woken" /\ NoResume
  /\ \/ /\ disconnectIntent # intent[c] \/ aborted[c]
        /\ pc' = [pc EXCEPT ![c] = "cancelled"]
        /\ UNCHANGED <<coordVars, countVars, teardown, opGen, waits, cut>>
     \/ /\ disconnectIntent = intent[c] /\ ~aborted[c]
        /\ Proceed(c)
  /\ UNCHANGED <<proc, req, intent, aborted, closer, worldVars>>

\* The call that began a replacement teardown starts its own operation.
Resume(c) ==
  /\ pc[c] = "resume"
  /\ \/ /\ disconnectIntent # intent[c] \/ aborted[c]
        /\ pc' = [pc EXCEPT ![c] = "cancelled"]
        /\ UNCHANGED <<coordVars, countVars, teardown, opGen, cut>>
     \/ /\ disconnectIntent = intent[c] /\ ~aborted[c]
        /\ StartOperation(c)
  /\ UNCHANGED <<proc, req, intent, waits, aborted, closer, worldVars>>

\* The caller's signal fires.  waitForSignal() rejects the calls it guards at
\* once; an operation notices at its next await.
Abort(c) ==
  /\ pc[c] \notin Results /\ ~aborted[c]
  /\ aborted' = [aborted EXCEPT ![c] = TRUE]
  /\ pc' = [pc EXCEPT ![c] = IF @ \in {"waitTeardown", "joined"}
                             THEN "cancelled" ELSE @]
  /\ UNCHANGED <<coordVars, countVars, teardown, req, intent, opGen, waits,
                 proc, cut, closer, worldVars>>

-----------------------------------------------------------------------------
(* connectOnce() and attach(): what each await resumes with. *)

\* Searching, locating and identifying give up as soon as they notice.
Cancelled(c) ==
  /\ pc[c] \in {"identity", "search", "locate", "recheck", "start"}
  /\ Aborted(c)
  /\ Cancel(c, state, managed, orphaned)
  /\ OpUnchanged
  /\ UNCHANGED <<proc, worldVars>>

\* A verified candidate: attach() runs to its own await of the factory.
Attach(c) == Goto(c, "init", "connecting")

SearchDone(c) ==
  /\ pc[c] = "search" /\ ~Aborted(c)
  /\ \/ Attach(c)
     \/ Fail(c, "failed")
     \/ ModeOf[req[c]] = "auto" /\ Goto(c, "locate", "locating-runtime")
  /\ OpUnchanged
  /\ UNCHANGED <<proc, worldVars>>

LocateDone(c) ==
  /\ pc[c] = "locate" /\ ~Aborted(c)
  /\ \/ Fail(c, "failed")
     \/ Fail(c, "runtime-missing")
     \/ ModeOf[req[c]] = "auto" /\ Goto(c, "recheck", state)
     \/ ModeOf[req[c]] = "isolated" /\ Goto(c, "start", "starting")
  /\ OpUnchanged
  /\ UNCHANGED <<proc, worldVars>>

\* The last look for an instance announced meanwhile.
RecheckDone(c) ==
  /\ pc[c] = "recheck" /\ ~Aborted(c)
  /\ \/ Attach(c)
     \/ Fail(c, "failed")
     \/ Goto(c, "start", "starting")
  /\ OpUnchanged
  /\ UNCHANGED <<proc, worldVars>>

StartFailed(c) ==
  /\ pc[c] = "start" /\ ~Aborted(c)
  /\ Fail(c, "failed") \/ Fail(c, "port-conflict")
  /\ OpUnchanged
  /\ UNCHANGED <<proc, worldVars>>

\* The supervisor has answered with process p.  A late answer is kept even when
\* the call was cancelled, and stopped.
StartAnswered(c, p) ==
  /\ pc[c] = "start"
  /\ managed' = p
  /\ proc' = [proc EXCEPT ![c] = p]
  /\ pc' = [pc EXCEPT ![c] = IF Aborted(c) THEN "stopCancelled" ELSE "verify"]
  /\ state' = IF Aborted(c) THEN state ELSE "connecting"
  /\ OpUnchanged
  /\ UNCHANGED <<inFlight, backend, connectedRequest, orphaned, opened, prepared>>

\* It hands out its active process again, or a fresh one: that one runs alone, as
\* it was spawned after everything before it had exited, or has exited by now.
StartDone(c) ==
  \/ /\ active # None
     /\ StartAnswered(c, active)
     /\ UNCHANGED <<running, active>>
  \/ /\ active = None
     /\ StartAnswered(c, c)
     /\ \/ active' = c /\ running' = {c}
        \/ active' = None /\ running' = {}

\* The probe of the managed process.
VerifyDone(c) ==
  /\ pc[c] = "verify"
  /\ \/ Aborted(c) /\ Goto(c, "stopCancelled", state)
     \/ ~Aborted(c) /\ Goto(c, "stopFailed", "failed")
     \/ ~Aborted(c) /\ Attach(c)
  /\ OpUnchanged
  /\ UNCHANGED <<proc, worldVars>>

\* The coordinator awaits the stop of process p.
AwaitsStop(p) ==
  \/ \E c \in Callers : pc[c] \in StopPhases /\ proc[c] = p
  \/ teardown.phase = "closing" /\ teardown.toClose = {} /\ teardown.process = p

\* handle.stop() gives up the active handle before it awaits the exit.
StopBegins(p) ==
  /\ AwaitsStop(p)
  /\ active = p /\ active' = None
  /\ UNCHANGED <<coordVars, countVars, teardown, callVars, closer, opened, running, prepared>>

\* A stop that has begun succeeds or fails; it may fail although the process exits.
StopProcess(p, succeeded) ==
  /\ active # p
  /\ running' = IF succeeded THEN running \ {p} ELSE running
  /\ UNCHANGED active

StopAfterFailureBug(c) ==
  /\ pc[c] \in StopPhases
  /\ \E succeeded \in BOOLEAN : StopProcess(proc[c], succeeded)
  /\ Reject(c, "failed", "failed", None, orphaned)
  /\ OpUnchanged
  /\ UNCHANGED <<proc, opened, prepared>>

\* The inner catch of the managed branch, for a failure before attach().
StopAnswered(c, succeeded) ==
  /\ pc[c] \in StopPhases
  /\ managed = proc[c] /\ backend = None
  /\ \/ /\ succeeded
        /\ Reject(c, IF pc[c] = "stopCancelled" THEN "cancelled" ELSE "failed",
                  state, None, orphaned)
     \/ ~succeeded /\ Fail(c, "failed")
  /\ OpUnchanged
  /\ UNCHANGED <<proc, opened, prepared>>

StopAfterFailure(c) ==
  \E succeeded \in BOOLEAN : StopAnswered(c, succeeded) /\ StopProcess(proc[c], succeeded)

-----------------------------------------------------------------------------
(* A custom endpoint: identity, authorisation, one probe. *)

IdentityDone(c) ==
  /\ pc[c] = "identity" /\ ~Aborted(c)
  /\ Goto(c, "authorize", "connecting")
  /\ OpUnchanged
  /\ UNCHANGED <<proc, worldVars>>

\* prepare() that rejects has released what it took.
AuthorizeDone(c) ==
  /\ pc[c] = "authorize"
  /\ \/ Goto(c, "release", state) /\ UNCHANGED prepared
     \/ /\ prepared' = prepared \cup {req[c]}
        /\ IF Aborted(c) THEN Goto(c, "release", state)
                         ELSE Goto(c, "probe", "connecting")
  /\ OpUnchanged
  /\ UNCHANGED <<proc, opened, running, active>>

ProbeDone(c) ==
  /\ pc[c] = "probe"
  /\ \/ Goto(c, "release", state)
     \/ ~Aborted(c) /\ Goto(c, "releaseAbsent", state)
     \/ ~Aborted(c) /\ Attach(c)
  /\ OpUnchanged
  /\ UNCHANGED <<proc, worldVars>>

ReleaseDone(c) ==
  /\ pc[c] \in {"release", "releaseAbsent"}
  /\ prepared' = prepared \ {req[c]}
  /\ IF pc[c] = "release" /\ Aborted(c)
     THEN Cancel(c, state, managed, orphaned)
     ELSE Fail(c, "failed")
  /\ OpUnchanged
  /\ UNCHANGED <<proc, opened, running, active>>

-----------------------------------------------------------------------------
(* attach() after the factory.  Its promise is returned from the two try   *)
(* blocks above without being awaited there, so neither catch runs when it *)
(* rejects: the process is not stopped and the endpoint is not released.   *)

InitFailed(c) ==
  /\ pc[c] = "init"
  /\ IF Aborted(c) THEN Cancel(c, state, managed, orphaned)
                   ELSE Fail(c, IF opGen[c] = generation THEN "failed" ELSE state)
  /\ OpUnchanged
  /\ UNCHANGED <<proc, worldVars>>

InitDone(c) ==
  /\ pc[c] = "init" /\ ~Superseded(c)
  /\ opened' = opened \cup {c}
  /\ backend' = c
  /\ managed' = IF proc[c] = None THEN None ELSE managed
  /\ state' = "connected"
  /\ connectedRequest' = req[c]
  /\ Answer(c, "ok")
  /\ ClearInFlight(c)
  /\ OpUnchanged
  /\ UNCHANGED <<orphaned, proc, running, active, prepared>>

InitStale(c) ==
  /\ pc[c] = "init" /\ Superseded(c)
  /\ opened' = opened \cup {c}
  /\ Goto(c, "closeStale", state)
  /\ OpUnchanged
  /\ UNCHANGED <<proc, running, active, prepared>>

CloseStaleDone(c) ==
  /\ pc[c] = "closeStale"
  /\ \/ /\ opened' = opened \ {c}
        /\ Cancel(c, state, managed, orphaned)
     \/ /\ UNCHANGED opened
        /\ Reject(c, "failed", IF opGen[c] = generation THEN "failed" ELSE state,
                  managed, orphaned \cup {c})
  /\ OpUnchanged
  /\ UNCHANGED <<proc, running, active, prepared>>

OperationStep(c) ==
  /\ ReactionsRun
  /\ \/ Cancelled(c) \/ SearchDone(c) \/ LocateDone(c) \/ RecheckDone(c)
     \/ StartFailed(c) \/ StartDone(c) \/ VerifyDone(c) \/ StopAfterFailure(c)
     \/ IdentityDone(c) \/ AuthorizeDone(c) \/ ProbeDone(c) \/ ReleaseDone(c)
     \/ InitFailed(c) \/ InitDone(c) \/ InitStale(c) \/ CloseStaleDone(c)

-----------------------------------------------------------------------------
(* disconnect() and disconnectOnce(). *)

Disconnect(d) ==
  /\ closer[d] = "new" /\ NoResume
  /\ closer' = [closer EXCEPT ![d] = "waiting"]
  /\ disconnectIntent' = disconnectIntent + 1
  /\ IF teardown.phase = "none"
     THEN BeginTeardown(None)
     ELSE /\ generation' = generation + 1
          /\ cut' = [c \in Callers |-> cut[c] \/ c = inFlight]
          /\ UNCHANGED teardown
  /\ UNCHANGED <<coordVars, pc, req, intent, opGen, waits, proc, aborted, worldVars>>

CollectOwnedEarlyBug ==
  /\ teardown.phase = "awaitOp"
  /\ teardown' = [teardown EXCEPT
       !.phase = "closing",
       !.toClose = orphaned \cup (IF backend = None THEN {} ELSE {backend}),
       !.process = managed]
  /\ state' = "stopping"
  /\ UNCHANGED <<callVars, inFlight, backend, connectedRequest, orphaned, managed,
                 countVars, closer, worldVars>>

\* The operation has settled: what is still held is collected, once.
CollectOwned ==
  /\ teardown.phase = "awaitOp"
  /\ \A c \in Callers : c = teardown.waitsFor => pc[c] \in Results
  /\ teardown' = [teardown EXCEPT
       !.phase = "closing",
       !.toClose = orphaned \cup (IF backend = None THEN {} ELSE {backend}),
       !.process = managed]
  /\ state' = "stopping"
  /\ UNCHANGED <<callVars, inFlight, backend, connectedRequest, orphaned, managed,
                 countVars, closer, worldVars>>

CloseBackend(b) ==
  /\ teardown.phase = "closing" /\ b \in teardown.toClose
  /\ \/ /\ opened' = opened \ {b}
        /\ orphaned' = orphaned \ {b}
        /\ backend' = IF backend = b THEN None ELSE backend
        /\ teardown' = [teardown EXCEPT !.toClose = @ \ {b}]
     \/ /\ teardown' = [teardown EXCEPT !.toClose = @ \ {b}, !.failed = TRUE]
        /\ UNCHANGED <<opened, orphaned, backend>>
  /\ UNCHANGED <<callVars, state, inFlight, connectedRequest, managed, countVars,
                 closer, running, active, prepared>>

ManagedStopped(succeeded) ==
  /\ teardown.phase = "closing" /\ teardown.toClose = {}
  /\ teardown.process # None
  /\ \/ /\ succeeded
        /\ managed' = IF managed = teardown.process THEN None ELSE managed
        /\ teardown' = [teardown EXCEPT !.process = None]
     \/ /\ ~succeeded
        /\ teardown' = [teardown EXCEPT !.process = None, !.failed = TRUE]
        /\ UNCHANGED managed
  /\ UNCHANGED <<state, inFlight, backend, connectedRequest, orphaned,
                 countVars, callVars, closer, opened, prepared>>

StopManaged ==
  \E succeeded \in BOOLEAN : ManagedStopped(succeeded) /\ StopProcess(teardown.process, succeeded)

FinishTeardownBug ==
  /\ teardown.phase = "closing" /\ teardown.toClose = {}
  /\ teardown.process = None
  /\ state' = "idle"
  /\ teardown' = [NoTeardown EXCEPT !.phase = "finished"]
  /\ pc' = [c \in Callers |->
       IF pc[c] \in {"waitTeardown", "replacing"} THEN "woken" ELSE pc[c]]
  /\ closer' = [d \in Closers |-> IF closer[d] = "waiting" THEN "ok" ELSE closer[d]]
  /\ UNCHANGED <<proc, inFlight, backend, connectedRequest, orphaned, managed, countVars,
                 req, intent, opGen, waits, aborted, cut, worldVars>>

\* Everyone who awaited the teardown is answered; its creator first.
FinishTeardown ==
  /\ teardown.phase = "closing" /\ teardown.toClose = {}
  /\ teardown.process = None
  /\ state' = IF teardown.failed THEN "failed" ELSE "idle"
  /\ teardown' = NoTeardown
  /\ pc' = [c \in Callers |->
       CASE pc[c] = "waitTeardown" -> IF teardown.failed THEN "failed" ELSE "woken"
         [] pc[c] = "replacing"    -> IF teardown.failed THEN "failed" ELSE "resume"
         [] OTHER -> pc[c]]
  /\ closer' = [d \in Closers |->
       IF closer[d] = "waiting"
       THEN IF teardown.failed THEN "failed" ELSE "ok"
       ELSE closer[d]]
  /\ UNCHANGED <<proc, inFlight, backend, connectedRequest, orphaned, managed, countVars,
                 req, intent, opGen, waits, aborted, cut, worldVars>>

TeardownStep ==
  /\ ReactionsRun
  /\ \/ CollectOwned
     \/ \E b \in Callers : CloseBackend(b)
     \/ StopManaged
     \/ FinishTeardown

\* A managed process may exit at any time; the coordinator is not told.
ProcessExits(p) ==
  /\ p \in running
  /\ running' = running \ {p}
  /\ active' = IF active = p THEN None ELSE active
  /\ UNCHANGED <<coordVars, countVars, teardown, callVars, closer, opened, prepared>>

-----------------------------------------------------------------------------
Next ==
  \/ \E c \in Callers : \/ Connect(c) \/ Wake(c) \/ Resume(c) \/ Abort(c)
                        \/ OperationStep(c) \/ ProcessExits(c) \/ StopBegins(c)
  \/ \E d \in Closers : Disconnect(d)
  \/ TeardownStep

Spec == Init /\ [][Next]_vars

\* Every await of the code ends: probes, lookups, authorisation and stops are
\* bounded by timers, and a promise reaction always runs.
Fairness ==
  /\ \A c \in Callers : WF_vars(OperationStep(c)) /\ WF_vars(Wake(c)) /\ WF_vars(Resume(c))
  /\ \A p \in Callers : WF_vars(StopBegins(p))
  /\ WF_vars(TeardownStep)

FairSpec == Spec /\ Fairness

-----------------------------------------------------------------------------
(* Properties. *)

\* Every field holds a value the code can give it.
TypeOK ==
  /\ state \in StateKinds
  /\ inFlight \in Callers \cup {None}
  /\ backend \in Callers \cup {None}
  /\ connectedRequest \in Requests \cup {None}
  /\ orphaned \subseteq Callers
  /\ managed \in Callers \cup {None}
  /\ generation \in Nat /\ disconnectIntent \in Nat
  /\ teardown \in [phase : TeardownPhases, owner : Callers \cup {None},
                   waitsFor : Callers \cup {None}, toClose : SUBSET Callers,
                   process : Callers \cup {None}, failed : BOOLEAN]
  /\ pc \in [Callers -> {"new"} \cup WaitPhases \cup OpPhases \cup Results]
  /\ req \in [Callers -> Requests]
  /\ intent \in [Callers -> Nat] /\ opGen \in [Callers -> Nat]
  /\ waits \in [Callers -> Callers \cup {None}]
  /\ proc \in [Callers -> Callers \cup {None}]
  /\ aborted \in [Callers -> BOOLEAN] /\ cut \in [Callers -> BOOLEAN]
  /\ closer \in [Closers -> {"new", "waiting", "ok", "failed"}]
  /\ opened \subseteq Callers /\ running \subseteq Callers
  /\ active \in Callers \cup {None}
  /\ prepared \subseteq Requests

\* However connects, replacements and disconnects interleave, the only
\* operation that is running is the one inFlight names: a second one would
\* attach or start a process behind the first one's back.
SingleOperation == \A c \in Callers : pc[c] \in OpPhases => inFlight = c

\* One that is open is the attached one, one whose close failed and is kept for
\* a retry, or one that its operation is closing.
BackendsOwned ==
  opened = {c \in Callers : c = backend \/ pc[c] = "closeStale"} \cup orphaned

\* A process that survived a stop is kept as the managed process, so that the
\* next connect or disconnect retries to stop it.
FailedStopIsRetained ==
  \A p \in running : p # active => managed = p

\* Nothing is leaked, whatever fails to close or to stop: every backend that is
\* open and every process that runs still has an owner that will try again.
NothingIsLost == BackendsOwned /\ FailedStopIsRetained

ConnectedIsOpen == state = "connected" => backend # None /\ backend \in opened

IdleHoldsNothing ==
  state = "idle" => backend = None /\ orphaned = {} /\ managed = None

\* The published state agrees with what is held: "connected" over an open backend
\* only, and "idle" only while neither a backend nor a process is held.
StateAgrees == ConnectedIsOpen /\ IdleHoldsNothing

\* A backend is never installed for a call that a disconnect came after, nor
\* for one whose signal has fired: a late factory cannot resurrect it.
NoLateBackend ==
  [][backend' # backend /\ backend' # None =>
       /\ intent[backend'] = disconnectIntent
       /\ ~aborted[backend']
       /\ teardown.phase = "none"]_vars

\* A call is answered with a backend that serves the request it made, also
\* when it joined another call's operation or found a cached connection.
AnswerServesRequest ==
  [][\A c \in Callers : pc[c] # "ok" /\ pc'[c] = "ok" =>
        backend' # None /\ connectedRequest' = req[c]]_vars

\* When disconnect() succeeds nothing is held, also for the call that joined a
\* teardown already under way.
DisconnectReleases ==
  [][\A d \in Closers : closer[d] # "ok" /\ closer'[d] = "ok" =>
        /\ backend' = None /\ orphaned' = {} /\ managed' = None
        /\ \A c \in Callers : pc'[c] \notin OpPhases]_vars

\* Every connect() and every disconnect() is answered: calls wait for
\* teardowns and teardowns for operations, but never in a circle.
CallsSettle ==
  /\ \A c \in Callers : pc[c] # "new" ~> pc[c] \in Results
  /\ \A d \in Closers : closer[d] = "waiting" ~> closer[d] \in {"ok", "failed"}

\* What the comments at lines 497-502 and 607-609 of the source say: an operation that has
\* rejected leaves a terminal state published.
SettledStateIsTerminal ==
  inFlight = None /\ teardown.phase = "none" =>
    state \in {"idle", "connected", "failed", "runtime-missing", "port-conflict"}

\* The state behind CallsSettle: whoever waits, waits for something that is under way.
\* Calls wait for the operation they joined or for the teardown, a teardown for the
\* operation it has cut off, and an operation that has to stop its process has it.
NobodyWaitsInVain ==
  /\ \A c \in Callers :
       /\ pc[c] = "joined" => inFlight # None /\ waits[c] = inFlight
       /\ pc[c] \in {"waitTeardown", "replacing"} => teardown.phase # "none"
       /\ pc[c] \in {"verify"} \cup StopPhases =>
            proc[c] # None /\ managed = proc[c]
  /\ \A d \in Closers : closer[d] = "waiting" => teardown.phase # "none"
  /\ inFlight # None => pc[inFlight] \in OpPhases
  /\ teardown.phase = "awaitOp" /\ teardown.waitsFor # None =>
       pc[teardown.waitsFor] \in OpPhases \cup Results

-----------------------------------------------------------------------------
(* The inductive invariant behind the safety properties. *)

\* What an operation in flight may rely on: it started with nothing attached
\* and no process that survived a stop, and unless it is superseded no
\* teardown has begun and no disconnect() has been called since.  The process it
\* was given is managed, and no other runs.
OperationInv ==
  \A c \in Callers :
    /\ pc[c] \in OpPhases <=> inFlight = c
    /\ pc[c] \in OpPhases =>
         /\ backend = None /\ orphaned = {} /\ state # "idle"
         /\ pc[c] \notin StopPhases => running \subseteq {active}
         /\ opGen[c] <= generation
         /\ opGen[c] = generation =>
              teardown.phase = "none" /\ intent[c] = disconnectIntent
    /\ pc[c] \in {"verify"} \cup StopPhases =>
         managed = proc[c] /\ managed # None /\ running \subseteq {managed}

\* A teardown outlives the operation it waits for and starts none, and while
\* nothing has failed it has everything that is held on its list.
TeardownInv ==
  /\ teardown.phase # "none" /\ inFlight # None =>
       teardown.phase = "awaitOp" /\ teardown.waitsFor = inFlight
  /\ teardown.phase = "closing" =>
       /\ inFlight = None /\ state = "stopping"
       /\ teardown.process \in {None, managed}
       /\ ~teardown.failed =>
            /\ orphaned \subseteq teardown.toClose
            /\ backend # None => backend \in teardown.toClose
            /\ managed = teardown.process

\* A call woken by a teardown finds nothing held, so it can start afresh; the
\* call that began the teardown is the only one to go on unconditionally.
WaiterInv ==
  \A c \in Callers :
    /\ intent[c] <= disconnectIntent
    /\ pc[c] \in {"resume", "woken"} => backend = None /\ orphaned = {} /\ managed = None
    /\ pc[c] = "resume" =>
         /\ inFlight = None /\ teardown.phase = "none"
         /\ \A x \in Callers : pc[x] = "resume" => x = c
    /\ pc[c] = "replacing" =>
         inFlight = None /\ teardown.phase # "none" /\ teardown.owner = c
    /\ pc[c] = "woken" /\ intent[c] = disconnectIntent => teardown.phase = "none"
    /\ pc[c] = "joined" => waits[c] \in Callers /\ req[waits[c]] = req[c]

\* A surviving process keeps the state "failed", which makes the next connect
\* tear it down before anything else.
SurvivorInv ==
  \/ running \subseteq {active} \/ state = "failed" \/ teardown.phase # "none"
  \/ \E c \in Callers : pc[c] \in StopPhases

ConnectedHasBackend == state = "connected" => backend # None

\* Together: what every step of the coordinator preserves.
ConnectionInv ==
  /\ TypeOK /\ OperationInv /\ TeardownInv /\ WaiterInv /\ SurvivorInv
  /\ BackendsOwned /\ ConnectedHasBackend /\ FailedStopIsRetained
  /\ IdleHoldsNothing
=============================================================================
