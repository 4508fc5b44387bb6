---------------------- MODULE ProcessSupervisorProofs ----------------------
(***************************************************************************)
(* What ProcessSupervisor promises, for every set of starters and          *)
(* disposers.                                                              *)
(*                                                                         *)
(* None of the properties is inductive.  SupervisorInv adds why a start    *)
(* may spawn: no handle is active, nothing is left of an earlier start or  *)
(* of a stop, and the disposal has not been requested without aborting it; *)
(* and why a disposal may report success: once it has waited for the start *)
(* in flight no other can begin, and every live child is on its list.      *)
(***************************************************************************)
EXTENDS ProcessSupervisor, TLAPS

\* Of a start that is under way.
StartsSound ==
  \A c \in Starters :
    /\ pc[c] \in StartPhases <=> starting = c
    /\ pc[c] \in StartPhases => active = None
    /\ pc[c] \in StartPhases /\ disposeRequested => aborted[c]
    /\ pc[c] \in {"new", "joined"} \cup (StartPhases \ SpawnedPhases) => child[c] = "none"
    /\ pc[c] \in SpawnedPhases => child[c] # "none"
    /\ pc[c] \in {"arguments"} \cup SpawnedPhases => failedStartup = None

\* Of the handles: only a start that succeeded has one.
HandlesSound ==
  \A h \in Starters :
    /\ handle[h] => pc[h] \in Answers /\ child[h] # "none" /\ h # failedStartup
    /\ h = active \/ h \in failedStops \/ stopped[h] => handle[h]
    /\ stopping[h] => stopped[h] /\ h \in failedStops
    /\ stopped[h] /\ ~stopping[h] => child[h] = "exited"

\* Of a start that is about to spawn: no child can be alive any more.
SpawnIsSafe ==
  \A c, k \in Starters :
    child[k] = "live" =>
      /\ pc[c] # "arguments"
      /\ pc[c] = "retryStartup" => k = failedStartup

\* Of a disposal: it has waited for the start, and has every live child on its list.
DisposalSound ==
  /\ disposal.phase # "none" => disposeRequested
  /\ \A h \in disposal.todo : handle[h]
  /\ disposal.phase = "awaitStart" => starting \in {None, disposal.waitsFor}
  /\ disposal.phase = "stopping" =>
       /\ starting = None
       /\ ~disposal.failed =>
            \A k \in Starters : child[k] = "live" /\ (k = active \/ k \in failedStops) =>
              k \in disposal.todo

SupervisorInv ==
  /\ TypeOK /\ StartsSound /\ HandlesSound /\ SpawnIsSafe /\ DisposalSound
  /\ LiveChildOwned /\ OneLiveChild /\ ActiveIsUsable

-----------------------------------------------------------------------------
(* Helpers. *)

\* The disposals that TypeOK admits.
Disposals == [phase : {"none", "awaitStart", "stopping"},
              waitsFor : Starters \cup {None}, todo : SUBSET Starters,
              stop : Starters \cup {None}, failed : BOOLEAN]

\* A start that is under way is the one in flight, and none is otherwise.
LEMMA OnlyOneStart ==
  ASSUME StartsSound, NEW c \in Starters, pc[c] \in StartPhases
  PROVE  /\ starting = c /\ active = None
         /\ \A x \in Starters : pc[x] \in StartPhases => x = c
BY DEF StartsSound

\* Settling a start answers it and the calls that joined it, no other.
LEMMA Settling ==
  ASSUME TypeOK, NEW c \in Starters, NEW a \in Answers, pc' = Answered(c, a)
  PROVE  /\ pc' \in [Starters -> {"new", "joined"} \cup StartPhases \cup Answers]
         /\ pc'[c] = a
         /\ \A x \in Starters :
              \/ pc'[x] = pc[x] /\ x # c
              \/ pc'[x] \in Answers /\ (x = c \/ pc[x] = "joined")
BY DEF TypeOK, Answered

\* A stop began, or was under way: the handle is not active, and what may
\* still live of it is on record.
BeginsToStop(h) ==
  /\ active' = IF active = h THEN None ELSE active
  /\ failedStops \subseteq failedStops' /\ failedStops' \subseteq failedStops \cup {h}
  /\ stopped' = [stopped EXCEPT ![h] = TRUE]
  /\ stopping' \in [Starters -> BOOLEAN]
  /\ \A k \in Starters \ {h} : stopping'[k] = stopping[k]
  /\ child[h] = "live" => h \in failedStops'
  /\ stopping'[h] => h \in failedStops'
  /\ ~stopping'[h] => child[h] = "exited"

\* Which is what beginning to stop a handle comes to, stopped before or not.
LEMMA Stopping ==
  ASSUME SupervisorInv, NEW h \in Starters, BeginStop(h)
  PROVE  BeginsToStop(h)
<1>1. CASE stopping[h] \/ stopped[h]
  <2>1. stopped[h] /\ active # h
    BY <1>1, NoneAssumption DEF SupervisorInv, HandlesSound, ActiveIsUsable
  <2>2. UNCHANGED handleVars
    BY <1>1 DEF BeginStop
  <2>3. stopped' = [stopped EXCEPT ![h] = TRUE]
    BY <2>1, <2>2 DEF SupervisorInv, TypeOK, handleVars
  <2> QED BY <2>1, <2>2, <2>3
      DEF SupervisorInv, TypeOK, HandlesSound, handleVars, BeginsToStop
<1>2. CASE ~(stopping[h] \/ stopped[h])
  BY <1>2 DEF BeginStop, SupervisorInv, TypeOK, BeginsToStop
<1> QED BY <1>1, <1>2

-----------------------------------------------------------------------------
(* Handles and children. *)

\* A stop begins: of a handle somebody holds.
LEMMA StopStep ==
  ASSUME SupervisorInv, NEW h \in Starters, Stop(h)
  PROVE  SupervisorInv'
<1>1. /\ handle[h] /\ BeginStop(h)
      /\ UNCHANGED <<starting, failedStartup, disposeRequested, disposal, pc, on,
                     aborted, child, handle, disposer>>
  BY DEF Stop, startVars
<1>2. BeginsToStop(h)
  BY <1>1, Stopping
<1>3. TypeOK'
  BY <1>1, <1>2 DEF SupervisorInv, TypeOK, BeginsToStop
<1>4. StartsSound'
  BY <1>1, <1>2 DEF SupervisorInv, StartsSound, BeginsToStop
<1>5. HandlesSound'
  BY <1>1, <1>2, NoneAssumption DEF SupervisorInv, TypeOK, HandlesSound, BeginsToStop
<1>6. SpawnIsSafe'
  BY <1>1 DEF SupervisorInv, SpawnIsSafe
<1>7. DisposalSound'
  <2>1. child[h] = "live" => h = active \/ h \in failedStops
    BY <1>1 DEF SupervisorInv, HandlesSound, StartsSound, LiveChildOwned, StartPhases,
                SpawnedPhases, Answers
  <2> QED BY <2>1, <1>1, <1>2, NoneAssumption DEF SupervisorInv, DisposalSound, BeginsToStop
<1>8. LiveChildOwned'
  BY <1>1, <1>2 DEF SupervisorInv, LiveChildOwned, BeginsToStop
<1>9. OneLiveChild' /\ ActiveIsUsable'
  BY <1>1, <1>2, NoneAssumption
  DEF SupervisorInv, TypeOK, OneLiveChild, ActiveIsUsable, BeginsToStop
<1> QED BY <1>3, <1>4, <1>5, <1>6, <1>7, <1>8, <1>9 DEF SupervisorInv

\* The stop was seen to succeed, or given up.  Its waiters go on: a start to the
\* next handle or to its failure, a disposal to the next one on its list.
LEMMA StopSettlesStep ==
  ASSUME SupervisorInv, NEW h \in Starters, StopSettles(h)
  PROVE  SupervisorInv'
<1> DEFINE waiter == {c \in Starters : pc[c] = "awaitStop" /\ on[c] = h}
<1>1. /\ stopping[h] /\ stopping' = [stopping EXCEPT ![h] = FALSE]
      /\ UNCHANGED <<active, failedStartup, disposeRequested, on, aborted, child,
                     handle, disposer>>
  BY DEF StopSettles
<1>2. /\ stopped[h] /\ h \in failedStops
      /\ handle[h] /\ h # active
  BY <1>1, NoneAssumption DEF SupervisorInv, HandlesSound, ActiveIsUsable
<1>3. TypeOK /\ StartsSound
  BY DEF SupervisorInv
<1>4. /\ pc' \in [Starters -> {"new", "joined"} \cup StartPhases \cup Answers]
      /\ \/ /\ starting' = starting
            /\ \A x \in Starters : \/ pc'[x] = pc[x]
                                   \/ pc[x] = "awaitStop" /\ pc'[x] = "retryStops"
         \/ /\ starting' = None
            /\ \A x \in Starters : \/ pc'[x] = pc[x] /\ pc[x] \notin StartPhases
                                   \/ pc[x] = "joined" /\ pc'[x] \in Answers
                                   \/ pc[x] = "awaitStop" /\ pc'[x] \in Answers
  <2>1. CASE \/ pc' = [c \in Starters |-> IF c \in waiter THEN "retryStops" ELSE pc[c]]
                /\ starting' = starting
             \/ pc' = pc /\ starting' = starting
    BY <2>1, <1>3 DEF TypeOK, StartPhases
  <2>2. CASE starting \in waiter /\ pc' = Answered(starting, "failed") /\ starting' = None
    <3>1. /\ pc[starting] = "awaitStop" /\ pc[starting] \in StartPhases
          /\ \A x \in Starters : pc[x] \in StartPhases => x = starting
      BY <2>2, <1>3, OnlyOneStart DEF StartPhases
    <3> QED BY <2>2, <3>1, <1>3, Settling DEF Answers
  <2> QED BY <2>1, <2>2 DEF StopSettles
<1>5. /\ stopped' \in [Starters -> BOOLEAN] /\ failedStops' \subseteq failedStops
      /\ \A k \in Starters \ {h} : /\ stopped'[k] = stopped[k]
                                   /\ k \in failedStops' <=> k \in failedStops
      /\ \/ stopped'[h] /\ child[h] = "exited" /\ h \notin failedStops'
         \/ ~stopped'[h] /\ h \in failedStops'
  BY <1>1, <1>2, <1>3 DEF StopSettles, TypeOK
<1>6. \/ disposal' = disposal
      \/ /\ disposal.stop = h /\ child[h] = "exited"
         /\ disposal' = [disposal EXCEPT !.stop = None, !.todo = @ \ {h}]
      \/ /\ disposal.stop = h
         /\ disposal' = [disposal EXCEPT !.stop = None, !.todo = @ \ {h}, !.failed = TRUE]
  BY DEF StopSettles
<1> HIDE DEF waiter
<1>7. TypeOK'
  <2>1. disposal' \in Disposals
    <3>1. disposal \in Disposals
      BY <1>3 DEF TypeOK, Disposals
    <3>2. disposal.todo \ {h} \in SUBSET Starters
      BY <3>1 DEF Disposals
    <3>3. /\ [disposal EXCEPT !.stop = None, !.todo = @ \ {h}] \in Disposals
          /\ [disposal EXCEPT !.stop = None, !.todo = @ \ {h}, !.failed = TRUE] \in Disposals
      BY <3>1, <3>2 DEF Disposals
    <3> QED BY <3>1, <3>3, <1>6
  <2>2. starting' \in Starters \cup {None}
    BY <1>3, <1>4 DEF TypeOK
  <2> QED BY <2>1, <2>2, <1>1, <1>3, <1>4, <1>5 DEF TypeOK, Disposals
<1>8. StartsSound'
  BY <1>1, <1>3, <1>4, NoneAssumption DEF TypeOK, StartsSound, StartPhases, SpawnedPhases, Answers
<1>9. HandlesSound'
  BY <1>1, <1>2, <1>3, <1>4, <1>5
  DEF SupervisorInv, TypeOK, HandlesSound, StartPhases, Answers
<1>10. SpawnIsSafe'
  BY <1>1, <1>4 DEF SupervisorInv, SpawnIsSafe, Answers
<1>11. DisposalSound'
  <2>1. disposal \in Disposals
    BY <1>3 DEF TypeOK, Disposals
  <2>2. /\ disposal'.phase = disposal.phase /\ disposal'.waitsFor = disposal.waitsFor
        /\ disposal.failed => disposal'.failed
        /\ disposal'.todo \subseteq disposal.todo
        /\ \A k \in disposal.todo : k \in disposal'.todo \/ k = h
        /\ ~disposal'.failed /\ child[h] = "live" /\ h \in disposal.todo => h \in disposal'.todo
    BY <2>1, <1>6 DEF Disposals
  <2> QED BY <2>2, <1>1, <1>4, <1>5, NoneAssumption DEF SupervisorInv, DisposalSound
<1>12. LiveChildOwned'
  BY <1>1, <1>2, <1>4, <1>5, NoneAssumption
  DEF SupervisorInv, LiveChildOwned, SpawnedPhases, StartPhases
<1>13. OneLiveChild' /\ ActiveIsUsable'
  BY <1>1, <1>2, <1>3, <1>5 DEF SupervisorInv, TypeOK, OneLiveChild, ActiveIsUsable
<1> QED BY <1>7, <1>8, <1>9, <1>10, <1>11, <1>12, <1>13 DEF SupervisorInv

\* A child exits.
LEMMA ChildExitsStep ==
  ASSUME SupervisorInv, NEW c \in Starters, ChildExits(c)
  PROVE  SupervisorInv'
<1>1. /\ child[c] = "live" /\ child' = [child EXCEPT ![c] = "exited"]
      /\ active' = IF active = c THEN None ELSE active
      /\ failedStops' = IF handle[c] /\ ~stopping[c] THEN failedStops \ {c} ELSE failedStops
      /\ UNCHANGED <<starting, failedStartup, disposeRequested, disposal, pc, on, aborted,
                     handle, stopping, stopped, disposer>>
  BY DEF ChildExits, startVars, SupervisorInv, HandlesSound
<1>2. TypeOK'
  BY <1>1 DEF SupervisorInv, TypeOK
<1>3. StartsSound'
  BY <1>1 DEF SupervisorInv, TypeOK, StartsSound
<1>4. HandlesSound'
  BY <1>1, NoneAssumption DEF SupervisorInv, TypeOK, HandlesSound
<1>5. SpawnIsSafe'
  BY <1>1 DEF SupervisorInv, TypeOK, SpawnIsSafe
<1>6. DisposalSound'
  BY <1>1, NoneAssumption DEF SupervisorInv, TypeOK, DisposalSound
<1>7. LiveChildOwned'
  BY <1>1 DEF SupervisorInv, TypeOK, LiveChildOwned
<1>8. OneLiveChild' /\ ActiveIsUsable'
  BY <1>1 DEF SupervisorInv, TypeOK, OneLiveChild, ActiveIsUsable
<1> QED BY <1>2, <1>3, <1>4, <1>5, <1>6, <1>7, <1>8 DEF SupervisorInv

-----------------------------------------------------------------------------
(* Starts. *)

\* The moves of a start that leave the handles, the children and the disposal alone.
OnlyStartMoves ==
  UNCHANGED <<handleVars, on, aborted, disposeRequested, disposal, child, handle, disposer>>

\* A start under way that fails keeps what it leaves behind in failedStartup.
LEMMA FailStep ==
  ASSUME SupervisorInv, NEW c \in Starters, pc[c] \in StartPhases, Fail(c), OnlyStartMoves,
         \/ failedStartup' = failedStartup
         \/ failedStartup' = None /\ \A k \in Starters : k = failedStartup => child[k] # "live"
         \/ failedStartup' = c /\ pc[c] = "cleanup",
         child[c] = "live" => failedStartup' = c
  PROVE  SupervisorInv'
<1>1. /\ TypeOK /\ StartsSound
      /\ starting = c /\ active = None
      /\ \A x \in Starters : pc[x] \in StartPhases => x = c
  BY OnlyOneStart DEF SupervisorInv
<1>2. /\ pc' \in [Starters -> {"new", "joined"} \cup StartPhases \cup Answers]
      /\ starting' = None
      /\ \A x \in Starters :
           /\ pc'[x] \notin StartPhases
           /\ pc[x] \in Answers => pc'[x] \in Answers
           /\ pc'[x] = "joined" => pc[x] = "joined"
           /\ pc'[x] = "new" => pc[x] = "new"
  <2>1. pc' = Answered(c, "failed") /\ starting' = None /\ "failed" \in Answers
    BY DEF Fail, Answers
  <2> QED BY <2>1, <1>1, Settling DEF StartPhases, SpawnedPhases, Answers
<1>3. TypeOK'
  BY <1>1, <1>2 DEF OnlyStartMoves, handleVars, TypeOK
<1>4. StartsSound'
  BY <1>1, <1>2, NoneAssumption
  DEF OnlyStartMoves, TypeOK, StartsSound, StartPhases, SpawnedPhases, Answers
<1>5. HandlesSound'
  BY <1>1, <1>2, NoneAssumption
  DEF OnlyStartMoves, handleVars, SupervisorInv, HandlesSound, Answers
<1>6. SpawnIsSafe' /\ OneLiveChild'
  BY <1>2 DEF OnlyStartMoves, SupervisorInv, SpawnIsSafe, OneLiveChild, StartPhases
<1>7. DisposalSound'
  BY <1>2 DEF OnlyStartMoves, handleVars, SupervisorInv, DisposalSound
<1>8. LiveChildOwned'
  BY <1>1 DEF OnlyStartMoves, handleVars, SupervisorInv, LiveChildOwned, StartsSound, SpawnedPhases
<1>9. ActiveIsUsable'
  BY DEF OnlyStartMoves, handleVars, SupervisorInv, ActiveIsUsable
<1> QED BY <1>3, <1>4, <1>5, <1>6, <1>7, <1>8, <1>9 DEF SupervisorInv

\* A start goes on, before its spawn or after it.
LEMMA GotoStep ==
  ASSUME SupervisorInv, NEW c \in Starters, NEW phase \in StartPhases,
         pc[c] \in StartPhases, Goto(c, phase), OnlyStartMoves,
         pc[c] \in SpawnedPhases <=> phase \in SpawnedPhases,
         \/ failedStartup' = failedStartup
         \/ failedStartup' = None /\ \A k \in Starters : k = failedStartup => child[k] # "live",
         phase \in {"arguments"} \cup SpawnedPhases => failedStartup' = None,
         \A k \in Starters : child[k] = "live" =>
           phase # "arguments" /\ (phase = "retryStartup" => k = failedStartup')
  PROVE  SupervisorInv'
<1>1. /\ TypeOK /\ StartsSound
      /\ starting = c /\ active = None
      /\ \A x \in Starters : pc[x] \in StartPhases => x = c
  BY OnlyOneStart DEF SupervisorInv
<1>2. /\ pc' \in [Starters -> {"new", "joined"} \cup StartPhases \cup Answers]
      /\ starting' = starting /\ pc'[c] = phase
      /\ \A x \in Starters \ {c} : pc'[x] = pc[x]
  BY <1>1 DEF Goto, TypeOK
<1>3. TypeOK'
  BY <1>1, <1>2 DEF OnlyStartMoves, handleVars, TypeOK
<1>4. StartsSound'
  <2>1. \A x \in Starters \ {c} : pc[x] \notin StartPhases
    BY <1>1
  <2> QED BY <2>1, <1>1, <1>2
          DEF OnlyStartMoves, handleVars, StartsSound, StartPhases, SpawnedPhases
<1>5. HandlesSound'
  BY <1>1, <1>2, NoneAssumption
  DEF OnlyStartMoves, handleVars, SupervisorInv, HandlesSound, StartPhases, SpawnedPhases, Answers
<1>6. SpawnIsSafe' /\ OneLiveChild'
  BY <1>1, <1>2 DEF OnlyStartMoves, SupervisorInv, SpawnIsSafe, OneLiveChild, StartPhases
<1>7. DisposalSound'
  BY <1>2 DEF OnlyStartMoves, handleVars, SupervisorInv, DisposalSound
<1>8. LiveChildOwned'
  BY <1>1, <1>2 DEF OnlyStartMoves, handleVars, SupervisorInv, LiveChildOwned
<1>9. ActiveIsUsable'
  BY DEF OnlyStartMoves, handleVars, SupervisorInv, ActiveIsUsable
<1> QED BY <1>3, <1>4, <1>5, <1>6, <1>7, <1>8, <1>9 DEF SupervisorInv

\* A call that is refused, served, joined or begun.
LEMMA StartCallStep ==
  ASSUME SupervisorInv, NEW c \in Starters, Start(c)
  PROVE  SupervisorInv'
<1>1. /\ pc[c] = "new" /\ TypeOK /\ StartsSound
      /\ UNCHANGED <<active, failedStops, stopping, stopped, aborted, failedStartup,
                     disposeRequested, disposal, child, handle, disposer>>
  BY DEF Start, StartUnchanged, handleVars, SupervisorInv
<1>2. /\ on' \in [Starters -> Starters \cup {None}]
      /\ \/ /\ starting' = starting
            /\ \E phase \in {"joined"} \cup Answers : pc' = [pc EXCEPT ![c] = phase]
         \/ /\ starting' = c /\ starting = None /\ active = None
            /\ ~disposeRequested /\ ~aborted[c]
            /\ pc' = [pc EXCEPT ![c] = "retryStops"]
  BY <1>1 DEF Start, TypeOK, Answers
<1>3. /\ pc' \in [Starters -> {"new", "joined"} \cup StartPhases \cup Answers]
      /\ \A x \in Starters \ {c} : pc'[x] = pc[x]
      /\ \/ starting' = starting /\ pc'[c] \in {"joined"} \cup Answers
         \/ starting' = c /\ starting = None /\ active = None /\ ~disposeRequested
            /\ ~aborted[c] /\ pc'[c] = "retryStops"
  BY <1>1, <1>2 DEF TypeOK, StartPhases
<1>4. TypeOK'
  BY <1>1, <1>2, <1>3 DEF TypeOK
<1>5. StartsSound'
  BY <1>1, <1>3, NoneAssumption DEF StartsSound, StartPhases, SpawnedPhases, Answers
<1>6. HandlesSound'
  BY <1>1, <1>3 DEF SupervisorInv, HandlesSound, Answers
<1>7. SpawnIsSafe' /\ OneLiveChild'
  BY <1>1, <1>3 DEF SupervisorInv, SpawnIsSafe, OneLiveChild, Answers
<1>8. DisposalSound'
  BY <1>1, <1>3 DEF SupervisorInv, DisposalSound
<1>9. LiveChildOwned' /\ ActiveIsUsable'
  BY <1>1, <1>3, NoneAssumption DEF SupervisorInv, LiveChildOwned, ActiveIsUsable, SpawnedPhases
<1> QED BY <1>4, <1>5, <1>6, <1>7, <1>8, <1>9 DEF SupervisorInv

\* A caller gives up.
LEMMA AbortStep ==
  ASSUME SupervisorInv, NEW c \in Starters, Abort(c)
  PROVE  SupervisorInv'
<1>1. /\ aborted' = [aborted EXCEPT ![c] = TRUE]
      /\ UNCHANGED <<active, failedStops, stopping, stopped, starting, pc, on, failedStartup,
                     disposeRequested, disposal, child, handle, disposer>>
  BY DEF Abort, StartUnchanged, handleVars
<1>2. TypeOK' /\ StartsSound'
  BY <1>1 DEF SupervisorInv, TypeOK, StartsSound
<1>3. HandlesSound' /\ SpawnIsSafe' /\ DisposalSound'
  BY <1>1 DEF SupervisorInv, HandlesSound, SpawnIsSafe, DisposalSound
<1>4. LiveChildOwned' /\ OneLiveChild' /\ ActiveIsUsable'
  BY <1>1 DEF SupervisorInv, LiveChildOwned, OneLiveChild, ActiveIsUsable
<1> QED BY <1>2, <1>3, <1>4 DEF SupervisorInv

\* A start turns to a handle whose stop has not succeeded.
LEMMA RetryStopStep ==
  ASSUME SupervisorInv, NEW c \in Starters, RetryStop(c)
  PROVE  SupervisorInv'
<1>1. PICK h \in failedStops : BeginStop(h) /\ on' = [on EXCEPT ![c] = h]
  BY DEF RetryStop
<1>2. /\ pc[c] = "retryStops" /\ pc[c] \in StartPhases
      /\ TypeOK /\ StartsSound /\ h \in Starters
      /\ pc' = [pc EXCEPT ![c] = "awaitStop"]
      /\ UNCHANGED <<starting, aborted, failedStartup, disposeRequested, disposal, child,
                     handle, disposer>>
  BY DEF RetryStop, Goto, StartUnchanged, SupervisorInv, TypeOK, StartPhases
<1>3. /\ starting = c /\ active = None
      /\ \A x \in Starters : pc[x] \in StartPhases => x = c
  BY <1>2, OnlyOneStart
<1>4. BeginsToStop(h) /\ handle[h] /\ failedStops' = failedStops /\ active' = None
  <2>1. BeginsToStop(h) /\ handle[h]
    BY <1>1, <1>2, Stopping DEF SupervisorInv, HandlesSound
  <2> QED BY <2>1, <1>3 DEF BeginsToStop
<1>5. /\ pc' \in [Starters -> {"new", "joined"} \cup StartPhases \cup Answers]
      /\ pc'[c] = "awaitStop" /\ \A x \in Starters \ {c} : pc'[x] = pc[x]
  BY <1>2 DEF TypeOK, StartPhases
<1>6. TypeOK'
  BY <1>1, <1>2, <1>3, <1>4, <1>5 DEF TypeOK, BeginsToStop
<1>7. StartsSound'
  BY <1>2, <1>3, <1>4, <1>5 DEF StartsSound, StartPhases, SpawnedPhases
<1>8. HandlesSound'
  BY <1>2, <1>3, <1>4, <1>5, NoneAssumption
  DEF SupervisorInv, TypeOK, HandlesSound, BeginsToStop, StartPhases, Answers
<1>9. SpawnIsSafe' /\ OneLiveChild'
  BY <1>2, <1>5 DEF SupervisorInv, SpawnIsSafe, OneLiveChild
<1>10. DisposalSound'
  BY <1>2, <1>3, <1>4 DEF SupervisorInv, DisposalSound
<1>11. LiveChildOwned' /\ ActiveIsUsable'
  BY <1>2, <1>3, <1>4, <1>5 DEF SupervisorInv, LiveChildOwned, ActiveIsUsable, SpawnedPhases
<1> QED BY <1>6, <1>7, <1>8, <1>9, <1>10, <1>11 DEF SupervisorInv

\* No stop is left to retry: what may still live is what a failed start left.
LEMMA StopsRetriedStep ==
  ASSUME SupervisorInv, NEW c \in Starters, StopsRetried(c)
  PROVE  SupervisorInv'
<1>1. /\ pc[c] = "retryStops" /\ failedStops = {} /\ OnlyStartMoves
      /\ failedStartup' = failedStartup
      /\ Fail(c) \/ Goto(c, "retryStartup")
  BY DEF StopsRetried, StartUnchanged, OnlyStartMoves
<1>2. /\ pc[c] \in StartPhases /\ "retryStartup" \in StartPhases
      /\ pc[c] \notin SpawnedPhases /\ "retryStartup" \notin SpawnedPhases
  BY <1>1 DEF StartPhases, SpawnedPhases
<1>3. starting = c /\ active = None /\ child[c] = "none"
  BY <1>1, <1>2 DEF SupervisorInv, StartsSound
<1>4. \A k \in Starters : child[k] = "live" => k = failedStartup
  BY <1>1, <1>2, <1>3, NoneAssumption DEF SupervisorInv, LiveChildOwned
<1>5. CASE Fail(c)
  BY <1>1, <1>2, <1>3, <1>5, FailStep
<1>6. CASE Goto(c, "retryStartup")
  <2>1. /\ "retryStartup" \notin {"arguments"} \cup SpawnedPhases
        /\ \A k \in Starters : child[k] = "live" => k = failedStartup'
    BY <1>1, <1>2, <1>4
  <2> QED BY <2>1, <1>1, <1>2, <1>6, GotoStep
<1> QED BY <1>1, <1>5, <1>6

\* What a failed start left has exited, or the start fails too.
LEMMA StartupRetriedStep ==
  ASSUME SupervisorInv, NEW c \in Starters, StartupRetried(c)
  PROVE  SupervisorInv'
<1>1. /\ pc[c] = "retryStartup" /\ OnlyStartMoves
      /\ \/ /\ \A k \in Starters : k = failedStartup => child[k] = "exited"
            /\ failedStartup' = None
            /\ Fail(c) \/ Goto(c, "arguments")
         \/ failedStartup' = failedStartup /\ Fail(c)
  BY DEF StartupRetried, OnlyStartMoves
<1>2. /\ pc[c] \in StartPhases /\ "arguments" \in StartPhases
      /\ pc[c] \notin SpawnedPhases /\ "arguments" \notin SpawnedPhases
  BY <1>1 DEF StartPhases, SpawnedPhases
<1>3. child[c] = "none"
  BY <1>1, <1>2 DEF SupervisorInv, StartsSound
<1>4. CASE Fail(c)
  <2>1. \/ failedStartup' = failedStartup
        \/ failedStartup' = None /\ \A k \in Starters : k = failedStartup => child[k] # "live"
    BY <1>1
  <2> QED BY <2>1, <1>1, <1>2, <1>3, <1>4, FailStep
<1>5. CASE /\ \A k \in Starters : k = failedStartup => child[k] = "exited"
           /\ failedStartup' = None /\ Goto(c, "arguments")
  <2>1. \A k \in Starters : child[k] # "live"
    BY <1>1, <1>5 DEF SupervisorInv, SpawnIsSafe
  <2> QED BY <2>1, <1>1, <1>2, <1>5, GotoStep
<1> QED BY <1>1, <1>4, <1>5

\* The spawn: nothing else lives, and the start has not been aborted.
LEMMA SpawnStep ==
  ASSUME SupervisorInv, NEW c \in Starters, Spawn(c)
  PROVE  SupervisorInv'
<1>1. /\ pc[c] = "arguments" /\ pc[c] \in StartPhases /\ pc[c] \notin SpawnedPhases
      /\ TypeOK /\ StartsSound /\ failedStartup' = failedStartup
  BY DEF Spawn, SupervisorInv, StartPhases, SpawnedPhases
<1>2. /\ starting = c /\ active = None /\ child[c] = "none" /\ failedStartup = None
      /\ \A x \in Starters : pc[x] \in StartPhases => x = c
  BY <1>1, OnlyOneStart DEF StartsSound
<1>3. CASE Fail(c) /\ UNCHANGED child
  <2>1. OnlyStartMoves
    BY <1>3 DEF Spawn, OnlyStartMoves
  <2> QED BY <2>1, <1>1, <1>2, <1>3, FailStep
<1>4. CASE ~aborted[c] /\ Goto(c, "ready") /\ child' = [child EXCEPT ![c] = "live"]
  <2>1. /\ UNCHANGED <<active, failedStops, stopping, stopped, starting, on, aborted,
                       failedStartup, disposeRequested, disposal, handle, disposer>>
        /\ pc' = [pc EXCEPT ![c] = "ready"]
    BY <1>4 DEF Spawn, Goto, handleVars
  <2>2. /\ pc' \in [Starters -> {"new", "joined"} \cup StartPhases \cup Answers]
        /\ pc'[c] = "ready" /\ \A x \in Starters \ {c} : pc'[x] = pc[x]
        /\ child' \in [Starters -> {"none", "live", "exited"}]
        /\ child'[c] = "live" /\ \A x \in Starters \ {c} : child'[x] = child[x]
    BY <2>1, <1>1, <1>4 DEF TypeOK, StartPhases, SpawnedPhases
  <2>3. \A k \in Starters \ {c} : child'[k] # "live"
    BY <2>2, <1>1 DEF SupervisorInv, SpawnIsSafe
  <2>4. TypeOK'
    BY <2>1, <2>2, <1>1 DEF TypeOK
  <2>5. StartsSound'
    BY <2>1, <2>2, <1>1, <1>2 DEF StartsSound, StartPhases, SpawnedPhases
  <2>6. HandlesSound'
    BY <2>1, <2>2, <1>1 DEF SupervisorInv, HandlesSound, Answers
  <2>7. SpawnIsSafe' /\ OneLiveChild'
    BY <2>2, <2>3, <1>2 DEF SpawnIsSafe, OneLiveChild, StartPhases
  <2>8. DisposalSound'
    BY <2>1, <1>2, NoneAssumption DEF SupervisorInv, DisposalSound
  <2>9. LiveChildOwned' /\ ActiveIsUsable'
    BY <2>1, <2>2, <2>3, <1>2 DEF LiveChildOwned, ActiveIsUsable, SpawnedPhases
  <2> QED BY <2>4, <2>5, <2>6, <2>7, <2>8, <2>9 DEF SupervisorInv
<1> QED BY <1>3, <1>4 DEF Spawn

\* A child becomes ready, or its start gives up and cleans up.
LEMMA ReadyStep ==
  ASSUME SupervisorInv, NEW c \in Starters, Ready(c)
  PROVE  SupervisorInv'
<1>1. /\ pc[c] \in SpawnedPhases /\ OnlyStartMoves /\ failedStartup' = failedStartup
      /\ \E phase \in {"initialize", "cleanup"} : Goto(c, phase)
  BY DEF Ready, StartUnchanged, OnlyStartMoves, SpawnedPhases
<1>2. PICK phase \in {"initialize", "cleanup"} : Goto(c, phase)
  BY <1>1
<1>3. phase \in StartPhases /\ phase \in SpawnedPhases /\ pc[c] \in StartPhases
      /\ phase # "arguments" /\ phase # "retryStartup"
  BY <1>1 DEF StartPhases, SpawnedPhases
<1>4. failedStartup' = None
  BY <1>1 DEF SupervisorInv, StartsSound
<1> QED BY <1>1, <1>2, <1>3, <1>4, GotoStep

\* The handle is made, or the start goes to its cleanup.
LEMMA InitializedStep ==
  ASSUME SupervisorInv, NEW c \in Starters, Initialized(c)
  PROVE  SupervisorInv'
<1>1. /\ pc[c] = "initialize" /\ pc[c] \in StartPhases /\ pc[c] \in SpawnedPhases
      /\ TypeOK /\ StartsSound
      /\ UNCHANGED <<failedStops, stopping, stopped, aborted, failedStartup,
                     disposeRequested, disposal, child, disposer>>
  BY DEF Initialized, SupervisorInv, StartPhases, SpawnedPhases
<1>2. /\ starting = c /\ active = None /\ child[c] # "none" /\ failedStartup = None
      /\ ~handle[c]
      /\ \A x \in Starters : pc[x] \in StartPhases => x = c
  BY <1>1, OnlyOneStart DEF SupervisorInv, StartsSound, HandlesSound, Answers
<1>3. CASE Goto(c, "cleanup") /\ UNCHANGED <<handle, active, on>>
  <2>1. OnlyStartMoves /\ "cleanup" \in SpawnedPhases /\ "cleanup" \in StartPhases
    BY <1>1, <1>3 DEF OnlyStartMoves, handleVars, SpawnedPhases, StartPhases
  <2> QED BY <2>1, <1>1, <1>2, <1>3, GotoStep
<1>4. CASE /\ ~disposeRequested
           /\ handle' = [handle EXCEPT ![c] = TRUE]
           /\ active' = IF child[c] = "exited" THEN None ELSE c
           /\ on' = [x \in Starters |->
                       IF x = c \/ (pc[x] = "joined" /\ on[x] = c) THEN c ELSE on[x]]
           /\ pc' = Answered(c, "ok")
           /\ starting' = None
  <2>1. /\ pc' \in [Starters -> {"new", "joined"} \cup StartPhases \cup Answers]
        /\ pc'[c] = "ok"
        /\ \A x \in Starters : /\ pc'[x] \notin StartPhases
                               /\ pc[x] \in Answers => pc'[x] \in Answers
                               /\ pc'[x] \in {"new", "joined"} => pc[x] = pc'[x]
    <3>1. "ok" \in Answers
      BY DEF Answers
    <3> QED BY <3>1, <1>1, <1>2, <1>4, Settling DEF StartPhases, SpawnedPhases, Answers
  <2>2. /\ child[c] = "live" => active' = c
        /\ child[c] # "live" => active' = None
        /\ c \notin failedStops /\ ~stopped[c] /\ ~stopping[c]
    BY <1>1, <1>2, <1>4 DEF SupervisorInv, TypeOK, HandlesSound
  <2>3. TypeOK'
    BY <2>1, <2>2, <1>1, <1>4 DEF TypeOK
  <2>4. StartsSound'
    BY <2>1, <1>1, <1>4, NoneAssumption DEF StartsSound, SpawnedPhases, StartPhases
  <2>5. HandlesSound'
    BY <2>1, <2>2, <1>1, <1>2, <1>4, NoneAssumption DEF SupervisorInv, TypeOK, HandlesSound, Answers
  <2>6. SpawnIsSafe' /\ OneLiveChild'
    BY <2>1, <1>1 DEF SupervisorInv, SpawnIsSafe, OneLiveChild, StartPhases
  <2>7. DisposalSound'
    BY <1>1, <1>4 DEF SupervisorInv, DisposalSound
  <2>8. LiveChildOwned'
    BY <2>2, <1>1, <1>2, <1>4, NoneAssumption DEF SupervisorInv, LiveChildOwned
  <2>9. ActiveIsUsable'
    BY <2>2, <1>1 DEF ActiveIsUsable
  <2> QED BY <2>3, <2>4, <2>5, <2>6, <2>7, <2>8, <2>9 DEF SupervisorInv
<1> QED BY <1>3, <1>4 DEF Initialized

\* The child of a failed start is gone, or stays on record.
LEMMA CleanupStep ==
  ASSUME SupervisorInv, NEW c \in Starters, Cleanup(c)
  PROVE  SupervisorInv'
<1>1. /\ pc[c] = "cleanup" /\ pc[c] \in StartPhases /\ OnlyStartMoves /\ Fail(c)
      /\ \/ child[c] = "exited" /\ failedStartup' = failedStartup
         \/ failedStartup' = c
  BY DEF Cleanup, OnlyStartMoves, StartPhases, SpawnedPhases
<1> QED BY <1>1, FailStep

-----------------------------------------------------------------------------
(* Disposals. *)

\* The request aborts the start in flight and keeps others from beginning.
LEMMA DisposeRequestStep ==
  ASSUME SupervisorInv, NEW d \in Disposers, Dispose(d)
  PROVE  SupervisorInv'
<1>1. /\ disposeRequested' = TRUE /\ disposer' = [disposer EXCEPT ![d] = "waiting"]
      /\ UNCHANGED <<active, failedStops, stopping, stopped, failedStartup, starting, pc, on,
                     child, handle>>
      /\ TypeOK /\ StartsSound
  BY DEF Dispose, handleVars, SupervisorInv
<1>2. /\ disposal' \in Disposals /\ aborted' \in [Starters -> BOOLEAN]
      /\ \/ disposal' = disposal /\ aborted' = aborted /\ disposeRequested
         \/ /\ disposal'.phase = "awaitStart" /\ disposal'.waitsFor = starting
            /\ disposal'.todo = {}
            /\ \A c \in Starters : c = starting => aborted'[c]
  <2>1. CASE disposal.phase # "none"
    BY <2>1, <1>1 DEF Dispose, SupervisorInv, TypeOK, DisposalSound, Disposals
  <2>2. CASE disposal.phase = "none"
    <3>1. /\ disposal' = [NoDisposal EXCEPT !.phase = "awaitStart", !.waitsFor = starting]
          /\ aborted' = [c \in Starters |-> aborted[c] \/ c = starting]
      BY <2>2 DEF Dispose
    <3>2. disposal' \in Disposals
      BY <3>1, <1>1 DEF NoDisposal, Disposals, TypeOK
    <3>3. \A c \in Starters : (aborted[c] \/ c = starting) \in BOOLEAN
      OBVIOUS
    <3>4. aborted' \in [Starters -> BOOLEAN] /\ \A c \in Starters : c = starting => aborted'[c]
      BY <3>1, <3>3
    <3> QED BY <3>1, <3>2, <3>4 DEF NoDisposal
  <2> QED BY <2>1, <2>2
<1>3. TypeOK'
  BY <1>1, <1>2 DEF TypeOK, Disposals
<1>4. StartsSound'
  BY <1>1, <1>2 DEF StartsSound
<1>5. HandlesSound' /\ SpawnIsSafe'
  BY <1>1 DEF SupervisorInv, HandlesSound, SpawnIsSafe
<1>6. DisposalSound'
  BY <1>1, <1>2 DEF SupervisorInv, DisposalSound
<1>7. LiveChildOwned' /\ OneLiveChild' /\ ActiveIsUsable'
  BY <1>1 DEF SupervisorInv, LiveChildOwned, OneLiveChild, ActiveIsUsable
<1> QED BY <1>3, <1>4, <1>5, <1>6, <1>7 DEF SupervisorInv

\* The start waited for has settled, so that none is in flight.
LEMMA DisposeCollectStep ==
  ASSUME SupervisorInv, DisposeCollect
  PROVE  SupervisorInv'
<1>1. /\ disposal.phase = "awaitStart" /\ disposal \in Disposals
      /\ \A c \in Starters : c = disposal.waitsFor => pc[c] \in Answers
      /\ disposal' = [disposal EXCEPT !.phase = "stopping",
                                      !.todo = failedStops \cup ({active} \ {None})]
      /\ UNCHANGED <<active, failedStops, stopping, stopped, failedStartup, aborted, disposer,
                     starting, pc, on, child, handle, disposeRequested>>
      /\ TypeOK
  BY DEF DisposeCollect, DisposalUnchanged, handleVars, SupervisorInv, TypeOK, Disposals
<1>2. /\ disposal' \in Disposals /\ disposal'.phase = "stopping"
      /\ disposal'.todo = failedStops \cup ({active} \ {None})
  <2>1. failedStops \cup ({active} \ {None}) \in SUBSET Starters
    BY <1>1 DEF TypeOK
  <2> QED BY <2>1, <1>1 DEF Disposals
<1>3. starting = None
  <2>1. \A c \in Starters : starting = c => pc[c] \in StartPhases
    BY DEF SupervisorInv, StartsSound
  <2>2. starting \in {None, disposal.waitsFor}
    BY <1>1 DEF SupervisorInv, DisposalSound
  <2> QED BY <2>1, <2>2, <1>1 DEF TypeOK, StartPhases, SpawnedPhases, Answers
<1>4. TypeOK'
  BY <1>1, <1>2 DEF TypeOK, Disposals
<1>5. DisposalSound'
  <2>1. \A h \in disposal'.todo : handle[h]
    BY <1>1, <1>2 DEF SupervisorInv, TypeOK, HandlesSound
  <2> QED BY <2>1, <1>1, <1>2, <1>3, NoneAssumption DEF SupervisorInv, DisposalSound
<1>6. StartsSound' /\ HandlesSound' /\ SpawnIsSafe'
  BY <1>1 DEF SupervisorInv, StartsSound, HandlesSound, SpawnIsSafe
<1>7. LiveChildOwned' /\ OneLiveChild' /\ ActiveIsUsable'
  BY <1>1 DEF SupervisorInv, LiveChildOwned, OneLiveChild, ActiveIsUsable
<1> QED BY <1>4, <1>5, <1>6, <1>7 DEF SupervisorInv

\* The next handle of the list; what has been stopped before is not alive.
LEMMA DisposeStopStep ==
  ASSUME SupervisorInv, NEW h \in Starters, DisposeStop(h)
  PROVE  SupervisorInv'
<1>1. /\ disposal.phase = "stopping" /\ disposal \in Disposals
      /\ h \in disposal.todo /\ handle[h]
      /\ BeginsToStop(h) /\ TypeOK /\ StartsSound
      /\ UNCHANGED <<failedStartup, aborted, disposer, starting, pc, on, child, handle,
                     disposeRequested>>
  BY Stopping DEF DisposeStop, DisposalUnchanged, SupervisorInv, TypeOK, Disposals, DisposalSound
<1>2. /\ disposal' \in Disposals /\ disposal'.phase = "stopping"
      /\ disposal'.failed = disposal.failed
      /\ \/ disposal'.todo = disposal.todo
         \/ disposal'.todo = disposal.todo \ {h} /\ child[h] = "exited"
  <2>1. CASE /\ stopped[h] /\ ~stopping[h]
             /\ disposal' = [disposal EXCEPT !.todo = @ \ {h}]
    <3>1. child[h] = "exited"
      BY <2>1 DEF SupervisorInv, HandlesSound
    <3>2. disposal.todo \ {h} \in SUBSET Starters
      BY <1>1 DEF Disposals
    <3> QED BY <2>1, <3>1, <3>2, <1>1 DEF Disposals
  <2>2. CASE disposal' = [disposal EXCEPT !.stop = h]
    BY <2>2, <1>1 DEF Disposals
  <2> QED BY <2>1, <2>2 DEF DisposeStop
<1>3. TypeOK'
  BY <1>1, <1>2 DEF TypeOK, Disposals, BeginsToStop
<1>4. StartsSound'
  BY <1>1 DEF StartsSound, BeginsToStop
<1>5. HandlesSound'
  BY <1>1, NoneAssumption DEF SupervisorInv, TypeOK, HandlesSound, BeginsToStop
<1>6. SpawnIsSafe' /\ OneLiveChild'
  BY <1>1 DEF SupervisorInv, SpawnIsSafe, OneLiveChild
<1>7. DisposalSound'
  BY <1>1, <1>2, NoneAssumption DEF SupervisorInv, DisposalSound, BeginsToStop
<1>8. LiveChildOwned'
  BY <1>1 DEF SupervisorInv, LiveChildOwned, BeginsToStop
<1>9. ActiveIsUsable'
  BY <1>1, NoneAssumption DEF SupervisorInv, TypeOK, ActiveIsUsable, BeginsToStop
<1> QED BY <1>3, <1>4, <1>5, <1>6, <1>7, <1>8, <1>9 DEF SupervisorInv

\* A disposal that has gone through its list and has not failed finds no child alive.
LEMMA DisposalIsComplete ==
  ASSUME SupervisorInv, disposal.phase = "stopping", disposal.todo = {}, ~disposal.failed,
         \A k \in Starters : k = failedStartup => child[k] = "exited"
  PROVE  \A c \in Starters : child[c] # "live"
BY NoneAssumption DEF SupervisorInv, DisposalSound, LiveChildOwned

\* A disposal answers.
LEMMA DisposeFinishStep ==
  ASSUME SupervisorInv, DisposeFinish
  PROVE  SupervisorInv'
<1>1. /\ disposal' = NoDisposal /\ TypeOK
      /\ UNCHANGED <<active, failedStops, stopping, stopped, aborted, starting, pc, on,
                     child, handle, disposeRequested>>
      /\ \/ /\ \A k \in Starters : k = failedStartup => child[k] = "exited"
            /\ failedStartup' = None
         \/ failedStartup' = failedStartup
  BY DEF DisposeFinish, DisposalUnchanged, handleVars, SupervisorInv
<1>2. disposer' \in [Disposers -> {"new", "waiting", "ok", "failed"}]
  BY <1>1 DEF DisposeFinish, TypeOK
<1>3. disposal' \in Disposals /\ disposal'.phase = "none" /\ disposal'.todo = {}
  BY <1>1 DEF NoDisposal, Disposals
<1>4. TypeOK'
  BY <1>1, <1>2, <1>3 DEF TypeOK, Disposals
<1>5. StartsSound'
  BY <1>1 DEF SupervisorInv, StartsSound
<1>6. HandlesSound' /\ SpawnIsSafe'
  BY <1>1, NoneAssumption DEF SupervisorInv, HandlesSound, SpawnIsSafe
<1>7. DisposalSound'
  BY <1>3 DEF DisposalSound
<1>8. LiveChildOwned' /\ OneLiveChild' /\ ActiveIsUsable'
  BY <1>1 DEF SupervisorInv, LiveChildOwned, OneLiveChild, ActiveIsUsable
<1> QED BY <1>4, <1>5, <1>6, <1>7, <1>8 DEF SupervisorInv

-----------------------------------------------------------------------------
(* The invariant and what follows from it. *)

\* In the first state nothing was started.
LEMMA SupervisorInit == Init => SupervisorInv
<1> SUFFICES ASSUME Init PROVE SupervisorInv
  OBVIOUS
<1>1. TypeOK
  BY DEF Init, TypeOK, NoDisposal
<1>2. StartsSound /\ HandlesSound /\ SpawnIsSafe
  BY NoneAssumption
  DEF Init, StartsSound, HandlesSound, SpawnIsSafe, StartPhases, SpawnedPhases, Answers
<1>3. DisposalSound /\ LiveChildOwned /\ OneLiveChild /\ ActiveIsUsable
  BY DEF Init, DisposalSound, LiveChildOwned, OneLiveChild, ActiveIsUsable, NoDisposal
<1> QED BY <1>1, <1>2, <1>3 DEF SupervisorInv

\* Every step keeps it: one case for each action.
LEMMA SupervisorNext ==
  ASSUME SupervisorInv, [Next]_vars
  PROVE  SupervisorInv'
<1>1. ASSUME NEW c \in Starters,
             Start(c) \/ Abort(c) \/ StartStep(c) \/ ChildExits(c) \/ Stop(c) \/ StopSettles(c)
      PROVE  SupervisorInv'
  <2>1. CASE Start(c)        BY <2>1, StartCallStep
  <2>2. CASE Abort(c)        BY <2>2, AbortStep
  <2>3. CASE ChildExits(c)   BY <2>3, ChildExitsStep
  <2>4. CASE Stop(c)         BY <2>4, StopStep
  <2>5. CASE StopSettles(c)  BY <2>5, StopSettlesStep
  <2>6. CASE StartStep(c)
    BY <2>6, RetryStopStep, StopsRetriedStep, StartupRetriedStep, SpawnStep, ReadyStep,
       InitializedStep, CleanupStep DEF StartStep
  <2> QED BY <1>1, <2>1, <2>2, <2>3, <2>4, <2>5, <2>6
<1>2. ASSUME NEW d \in Disposers, Dispose(d) PROVE SupervisorInv'
  BY <1>2, DisposeRequestStep
<1>3. CASE DisposeStep
  BY <1>3, DisposeCollectStep, DisposeStopStep, DisposeFinishStep DEF DisposeStep
<1>4. CASE UNCHANGED vars
  BY <1>4 DEF vars, handleVars, startVars, SupervisorInv, TypeOK, StartsSound, HandlesSound,
              SpawnIsSafe, DisposalSound, LiveChildOwned, OneLiveChild, ActiveIsUsable
<1> QED BY <1>1, <1>2, <1>3, <1>4 DEF Next

\* The strengthened invariant holds throughout: at every await of a start the
\* supervisor still owns what may be alive.
THEOREM SupervisorInvariance == Spec => []SupervisorInv
<1>1. Init => SupervisorInv
  BY SupervisorInit
<1>2. SupervisorInv /\ [Next]_vars => SupervisorInv'
  BY SupervisorNext
<1> QED BY <1>1, <1>2, PTL DEF Spec

\* The fields of DshProcessSupervisor keep their types.
THEOREM SupervisorTypeCorrect == Spec => []TypeOK
<1>1. SupervisorInv => TypeOK
  BY DEF SupervisorInv
<1> QED BY <1>1, SupervisorInvariance, PTL

\* A live child is never lost: the handle, the failed stops, the failed startup
\* or the start in flight still reaches it.
THEOREM ChildrenAreOwned == Spec => []LiveChildOwned
<1>1. SupervisorInv => LiveChildOwned
  BY DEF SupervisorInv
<1> QED BY <1>1, SupervisorInvariance, PTL

\* No two managed processes are alive at once, also after stops that failed.
THEOREM NeverTwoChildren == Spec => []OneLiveChild
<1>1. SupervisorInv => OneLiveChild
  BY DEF SupervisorInv
<1> QED BY <1>1, SupervisorInvariance, PTL

\* start() hands out a process that lives and that nobody has begun to stop.
THEOREM HandedOutIsUsable == Spec => []ActiveIsUsable
<1>1. SupervisorInv => ActiveIsUsable
  BY DEF SupervisorInv
<1> QED BY <1>1, SupervisorInvariance, PTL

\* dispose() succeeds only when no managed process is alive.
THEOREM DisposalStopsEveryChild == Spec => DisposeStopsAll
<1>1. ASSUME SupervisorInv, [Next]_vars,
             NEW d \in Disposers, disposer[d] # "ok", disposer'[d] = "ok"
      PROVE  \A c \in Starters : child'[c] # "live"
  <2>1. DisposeFinish
    <3>1. disposer' = disposer \/ DisposeFinish \/ \E x \in Disposers : Dispose(x)
      BY <1>1 DEF Next, vars, Start, Abort, StartStep, RetryStop, StopsRetried, StartupRetried,
           Spawn, Ready, Initialized, Cleanup, ChildExits, Stop, StopSettles, DisposeStep,
           DisposeCollect, DisposeStop, StartUnchanged
    <3>2. ASSUME NEW x \in Disposers, Dispose(x) PROVE FALSE
      BY <1>1, <3>2 DEF Dispose, SupervisorInv, TypeOK
    <3> QED BY <1>1, <3>1, <3>2
  <2>2. /\ disposal.phase = "stopping" /\ disposal.todo = {} /\ ~disposal.failed
        /\ \A k \in Starters : k = failedStartup => child[k] = "exited"
        /\ child' = child
    BY <1>1, <2>1 DEF DisposeFinish, DisposalUnchanged, SupervisorInv, TypeOK
  <2> QED BY <1>1, <2>2, DisposalIsComplete
<1>2. SupervisorInv /\ [Next]_vars =>
        [\A d \in Disposers : disposer[d] # "ok" /\ disposer'[d] = "ok" =>
           \A c \in Starters : child'[c] # "live"]_vars
  BY <1>1
<1> QED BY <1>2, SupervisorInvariance, PTL DEF Spec, DisposeStopsAll

\* After dispose() was called nothing is spawned, by whichever start.
THEOREM DisposalPreventsSpawns == Spec => NoSpawnAfterDispose
<1>1. ASSUME SupervisorInv, [Next]_vars, disposeRequested,
             NEW c \in Starters, child[c] = "none"
      PROVE  child'[c] = "none"
  <2>1. ASSUME NEW k \in Starters, Spawn(k) PROVE child' = child
    <3>1. pc[k] = "arguments" /\ pc[k] \in StartPhases
      BY <2>1 DEF Spawn, StartPhases
    <3>2. aborted[k]
      BY <1>1, <3>1 DEF SupervisorInv, StartsSound
    <3> QED BY <2>1, <3>2 DEF Spawn
  <2>2. ASSUME NEW k \in Starters, ChildExits(k) PROVE child'[c] = "none"
    BY <1>1, <2>2 DEF ChildExits, SupervisorInv, TypeOK
  <2>3. \/ child' = child
        \/ \E k \in Starters : Spawn(k) \/ ChildExits(k)
    BY <1>1 DEF Next, vars, Start, Abort, StartStep, RetryStop, StopsRetried, StartupRetried,
         Ready, Initialized, Cleanup, Stop, StopSettles, Dispose, DisposeStep,
         DisposeCollect, DisposeStop, DisposeFinish, StartUnchanged, DisposalUnchanged
  <2> QED BY <1>1, <2>1, <2>2, <2>3
<1>2. SupervisorInv /\ [Next]_vars =>
        [disposeRequested => \A c \in Starters : child[c] = "none" => child'[c] = "none"]_vars
  BY <1>1
<1> QED BY <1>2, SupervisorInvariance, PTL DEF Spec, NoSpawnAfterDispose

-----------------------------------------------------------------------------
(* The contract of ManagedProcess. *)

\* Of what callers hold: a call that succeeded has the handle it was given, and the
\* child a start brings up is the only one alive.
HandoutsSound ==
  /\ \A c, k \in Starters : pc[c] \in SpawnedPhases /\ child[k] = "live" => k = c
  /\ \A c \in Starters : pc[c] = "ok" => on[c] \in Starters /\ handle[on[c]]

\* Nobody's answer changes unless a call becomes "ok".
AnswersKept ==
  \A x \in Starters : (pc'[x] = "ok" <=> pc[x] = "ok") /\ (pc[x] = "ok" => on'[x] = on[x])

\* So what was handed out stays as it was.
LEMMA HandedStays ==
  ASSUME AnswersKept
  PROVE  Handed' = Handed
BY DEF AnswersKept, Handed

\* A start that fails answers nobody with a process.
LEMMA FailKeepsAnswers ==
  ASSUME TypeOK, NEW c \in Starters, pc[c] # "ok", pc' = Answered(c, "failed"), on' = on
  PROVE  AnswersKept
BY DEF TypeOK, Answered, AnswersKept

\* Nor does one that goes on to another phase.
LEMMA GotoKeepsAnswers ==
  ASSUME TypeOK, NEW c \in Starters, pc[c] # "ok", NEW phase \in StartPhases,
         pc' = [pc EXCEPT ![c] = phase],
         \A x \in Starters \ {c} : on'[x] = on[x]
  PROVE  AnswersKept
BY DEF TypeOK, AnswersKept, StartPhases, SpawnedPhases

\* A child that begins to live is spawned by a start about to, and then no other lives.
LEMMA SpawnsAlone ==
  ASSUME SupervisorInv, HandoutsSound, NEW c \in Starters, Spawn(c)
  PROVE  HandoutsSound' /\ AnswersKept
<1>1. /\ pc[c] = "arguments" /\ TypeOK
      /\ UNCHANGED <<on, handle>>
      /\ \A k \in Starters : child[k] # "live"
  BY DEF Spawn, SupervisorInv, SpawnIsSafe
<1>2. CASE Fail(c) /\ UNCHANGED child
  <2>1. AnswersKept /\ pc' = Answered(c, "failed")
    BY <1>1, <1>2, FailKeepsAnswers DEF Fail
  <2> QED BY <1>1, <1>2, <2>1 DEF HandoutsSound, AnswersKept
<1>3. CASE Goto(c, "ready") /\ child' = [child EXCEPT ![c] = "live"]
  <2>1. AnswersKept
    BY <1>1, <1>3, GotoKeepsAnswers DEF Goto, StartPhases, SpawnedPhases
  <2>2. \A k \in Starters : child'[k] = "live" => k = c
    BY <1>1, <1>3 DEF TypeOK
  <2>3. \A x \in Starters : pc'[x] \in SpawnedPhases => x = c
    BY <1>1, <1>3, OnlyOneStart DEF TypeOK, Goto, StartPhases, SpawnedPhases, SupervisorInv
  <2>4. \A x \in Starters : pc'[x] = "ok" => on'[x] \in Starters /\ handle'[on'[x]]
    BY <1>1, <2>1 DEF HandoutsSound, AnswersKept
  <2> QED BY <2>1, <2>2, <2>3, <2>4 DEF HandoutsSound
<1> QED BY <1>2, <1>3 DEF Spawn

\* Most steps change no answer and no child, and give the active process up at most.
QuietStep ==
  /\ AnswersKept
  /\ \A x \in Starters : pc'[x] \in SpawnedPhases => pc[x] \in SpawnedPhases
  /\ active' \in {active, None}
  /\ UNCHANGED <<child, handle>>

\* What the callers see is then at most that it was given up.
LEMMA QuietStepsMeetContract ==
  ASSUME HandoutsSound, QuietStep
  PROVE  HandoutsSound' /\ [Process!Next]_<<Handed, active, Running>>
<1>1. Handed' = Handed
  BY HandedStays DEF QuietStep
<1>2. Running' = Running
  BY DEF QuietStep, Running
<1>3. HandoutsSound'
  BY DEF QuietStep, AnswersKept, HandoutsSound
<1>4. active' # active => Process!GiveUp
  BY <1>1, <1>2 DEF QuietStep, Process!GiveUp
<1> QED BY <1>1, <1>2, <1>3, <1>4 DEF Process!Next

\* The steps of a start that neither spawn nor answer with a process.
LEMMA StartStepsAreQuiet ==
  ASSUME SupervisorInv, NEW c \in Starters,
         \/ RetryStop(c) \/ StopsRetried(c) \/ StartupRetried(c) \/ Ready(c) \/ Cleanup(c)
         \/ Abort(c)
  PROVE  QuietStep
<1> TypeOK
  BY DEF SupervisorInv
<1>1. CASE RetryStop(c)
  <2>1. /\ pc[c] = "retryStops" /\ Goto(c, "awaitStop")
        /\ UNCHANGED <<child, handle>>
        /\ \E h \in Starters : BeginStop(h) /\ on' = [on EXCEPT ![c] = h]
    BY <1>1 DEF RetryStop, StartUnchanged, TypeOK
  <2>2. AnswersKept
    BY <2>1, GotoKeepsAnswers DEF TypeOK, Goto, StartPhases
  <2>3. active' \in {active, None}
    BY <2>1 DEF BeginStop, handleVars
  <2> QED BY <2>1, <2>2, <2>3 DEF QuietStep, Goto, SpawnedPhases, TypeOK
<1>2. CASE StopsRetried(c) \/ StartupRetried(c) \/ Ready(c) \/ Cleanup(c)
  <2>1. /\ pc[c] \in {"retryStops", "retryStartup", "ready", "cleanup"}
        /\ UNCHANGED <<on, child, handle, active>>
        /\ \/ Fail(c)
           \/ Goto(c, "retryStartup") \/ Goto(c, "arguments")
           \/ pc[c] = "ready" /\ (Goto(c, "initialize") \/ Goto(c, "cleanup"))
    BY <1>2 DEF StopsRetried, StartupRetried, Ready, Cleanup, StartUnchanged, handleVars
  <2>2. AnswersKept /\ \A x \in Starters : pc'[x] \in SpawnedPhases => pc[x] \in SpawnedPhases
    <3>1. CASE Fail(c)
      BY <3>1, <2>1, FailKeepsAnswers DEF Fail, Answered, SpawnedPhases, TypeOK
    <3>2. ASSUME NEW phase \in StartPhases, Goto(c, phase)
          PROVE  AnswersKept
      BY <3>2, <2>1, GotoKeepsAnswers DEF Goto
    <3>3. ASSUME NEW phase \in StartPhases, Goto(c, phase),
                 phase \in SpawnedPhases => pc[c] \in SpawnedPhases
          PROVE  \A x \in Starters : pc'[x] \in SpawnedPhases => pc[x] \in SpawnedPhases
      BY <3>3 DEF Goto, TypeOK
    <3> QED BY <2>1, <3>1, <3>2, <3>3 DEF StartPhases, SpawnedPhases
  <2> QED BY <2>1, <2>2 DEF QuietStep
<1>3. CASE Abort(c)
  BY <1>3 DEF Abort, StartUnchanged, handleVars, QuietStep, AnswersKept
<1> QED BY <1>1, <1>2, <1>3

\* Nor do stops and disposals.
LEMMA StopsAreQuiet ==
  ASSUME SupervisorInv,
         \/ \E h \in Starters : Stop(h) \/ StopSettles(h)
         \/ \E d \in Disposers : Dispose(d)
         \/ DisposeStep
  PROVE  QuietStep
<1> TypeOK
  BY DEF SupervisorInv
<1>1. ASSUME NEW h \in Starters, Stop(h) \/ DisposeStop(h)
      PROVE  QuietStep
  <2>1. BeginStop(h) /\ UNCHANGED <<pc, on, child, handle>>
    BY <1>1 DEF Stop, DisposeStop, DisposalUnchanged, startVars
  <2> QED BY <2>1 DEF BeginStop, handleVars, QuietStep, AnswersKept
<1>2. ASSUME NEW h \in Starters, StopSettles(h)
      PROVE  QuietStep
  <2>1. UNCHANGED <<active, on, child, handle>>
    BY <1>2 DEF StopSettles
  <2>2. \A x \in Starters :
          \/ pc'[x] = pc[x]
          \/ pc[x] \in {"awaitStop", "joined"} /\ pc'[x] \in {"retryStops", "failed"}
    <3> DEFINE waiter == {c \in Starters : pc[c] = "awaitStop" /\ on[c] = h}
    <3>1. \/ pc' = [c \in Starters |-> IF c \in waiter THEN "retryStops" ELSE pc[c]]
          \/ starting \in waiter /\ pc' = Answered(starting, "failed")
          \/ pc' = pc
      BY <1>2 DEF StopSettles
    <3> QED BY <3>1 DEF TypeOK, Answered
  <2> QED BY <2>1, <2>2 DEF QuietStep, AnswersKept, SpawnedPhases
<1>3. ASSUME \/ \E d \in Disposers : Dispose(d)
             \/ DisposeCollect \/ DisposeFinish
      PROVE  QuietStep
  BY <1>3 DEF Dispose, DisposeCollect, DisposeFinish, DisposalUnchanged, handleVars,
              QuietStep, AnswersKept
<1> QED BY <1>1, <1>2, <1>3 DEF DisposeStep

\* A start that succeeds hands its own process to itself and to those that joined it.
LEMMA InitializedMeetsContract ==
  ASSUME SupervisorInv, HandoutsSound, NEW c \in Starters, Initialized(c)
  PROVE  HandoutsSound' /\ [Process!Next]_<<Handed, active, Running>>
<1> TypeOK
  BY DEF SupervisorInv
<1>0. pc[c] = "initialize" /\ pc[c] \in StartPhases /\ pc[c] \in SpawnedPhases /\ child' = child
  BY DEF Initialized, StartPhases, SpawnedPhases
<1>1. CASE Goto(c, "cleanup") /\ UNCHANGED <<handle, active, on>>
  <2>1. AnswersKept
    BY <1>0, <1>1, GotoKeepsAnswers DEF Goto, StartPhases, SpawnedPhases
  <2>2. QuietStep
    BY <1>0, <1>1, <2>1 DEF QuietStep, Goto, TypeOK
  <2> QED BY <2>2, QuietStepsMeetContract
<1>2. CASE /\ handle' = [handle EXCEPT ![c] = TRUE]
           /\ active' = IF child[c] = "exited" THEN None ELSE c
           /\ on' = [x \in Starters |->
                       IF x = c \/ (pc[x] = "joined" /\ on[x] = c) THEN c ELSE on[x]]
           /\ pc' = Answered(c, "ok")
  <2> DEFINE cs == {x \in Starters : x = c \/ (pc[x] = "joined" /\ on[x] = c)}
  <2>1. c \in cs /\ cs \in SUBSET Starters
    OBVIOUS
  <2>2. Process!Give(cs, c)
    BY <1>0, <1>2 DEF Process!Give, Handed, Answered, TypeOK
  <2>3. \A x \in Starters : Handed[x] # c
    <3>1. ~handle[c]
      BY <1>0 DEF SupervisorInv, HandlesSound, Answers
    <3> QED BY <3>1, NoneAssumption DEF HandoutsSound, Handed
  <2>4. active = None
    BY <1>0 DEF SupervisorInv, StartsSound
  <2>5. \/ active' = c /\ Running' = {c}
        \/ active' = None /\ Running' = {}
    <3>1. \A k \in Starters : child[k] = "live" => k = c
      BY <1>0 DEF HandoutsSound
    <3>2. child[c] \in {"live", "exited"}
      BY <1>0 DEF SupervisorInv, StartsSound, TypeOK
    <3>3. CASE child[c] = "live"
      BY <3>1, <3>3, <1>0, <1>2 DEF Running, TypeOK
    <3>4. CASE child[c] = "exited"
      BY <3>1, <3>4, <1>0, <1>2 DEF Running, TypeOK
    <3> QED BY <3>2, <3>3, <3>4
  <2>6. Process!HandOutFresh(cs, c)
    BY <2>1, <2>2, <2>3, <2>4, <2>5 DEF Process!HandOutFresh
  <2>7. HandoutsSound'
    <3>1. \A x \in Starters : pc'[x] \in SpawnedPhases => pc[x] \in SpawnedPhases
      BY <1>2 DEF Answered, SpawnedPhases
    <3>2. \A x \in Starters : pc'[x] = "ok" => on'[x] \in Starters /\ handle'[on'[x]]
      <4>1. \A x \in cs : on'[x] = c
        BY <1>2
      <4>2. \A x \in Starters \ cs : pc'[x] = pc[x] /\ on'[x] = on[x]
        BY <1>2 DEF Answered
      <4> QED BY <1>2, <4>1, <4>2 DEF HandoutsSound, TypeOK
    <3> QED BY <1>0, <3>1, <3>2 DEF HandoutsSound
  <2> HIDE DEF cs
  <2> QED BY <2>1, <2>6, <2>7 DEF Process!Next
<1> QED BY <1>1, <1>2 DEF Initialized

\* A call of start() is refused, joins, begins, or is given the active process.
LEMMA StartMeetsContract ==
  ASSUME SupervisorInv, HandoutsSound, NEW c \in Starters, Start(c)
  PROVE  HandoutsSound' /\ [Process!Next]_<<Handed, active, Running>>
<1> TypeOK
  BY DEF SupervisorInv
<1>0. pc[c] = "new" /\ UNCHANGED <<active, child, handle>>
  BY DEF Start, handleVars, StartUnchanged
<1>1. CASE /\ active # None
           /\ pc' = [pc EXCEPT ![c] = "ok"] /\ on' = [on EXCEPT ![c] = active]
  <2>1. handle[active] /\ active \in Starters
    BY <1>1 DEF SupervisorInv, HandlesSound, TypeOK
  <2>2. Process!Give({c}, active)
    BY <1>0, <1>1 DEF Process!Give, Handed, TypeOK
  <2>3. Process!HandOutAgain({c})
    BY <1>0, <1>1, <2>2 DEF Process!HandOutAgain, Running
  <2>4. HandoutsSound'
    BY <1>0, <1>1, <2>1 DEF HandoutsSound, TypeOK, SpawnedPhases
  <2> QED BY <2>3, <2>4 DEF Process!Next
<1>2. CASE /\ \E answer \in {"failed", "joined", "retryStops"} : pc' = [pc EXCEPT ![c] = answer]
           /\ \A x \in Starters \ {c} : on'[x] = on[x]
  <2>1. QuietStep
    BY <1>0, <1>2 DEF QuietStep, AnswersKept, TypeOK, SpawnedPhases
  <2> QED BY <2>1, QuietStepsMeetContract
<1> QED BY <1>0, <1>1, <1>2 DEF Start, TypeOK

\* A child exits: one that was handed out is gone for its callers.
LEMMA ExitMeetsContract ==
  ASSUME SupervisorInv, HandoutsSound, NEW c \in Starters, ChildExits(c)
  PROVE  HandoutsSound' /\ [Process!Next]_<<Handed, active, Running>>
<1> TypeOK
  BY DEF SupervisorInv
<1>1. /\ child[c] = "live" /\ child' = [child EXCEPT ![c] = "exited"]
      /\ UNCHANGED <<pc, on, handle>>
      /\ active' = IF handle[c] /\ active = c THEN None ELSE active
  BY DEF ChildExits, startVars
<1>2. HandoutsSound' /\ Handed' = Handed
  BY <1>1 DEF HandoutsSound, Handed, TypeOK
<1>3. Running' = Running \ {c}
  BY <1>1 DEF Running, TypeOK
<1>4. CASE handle[c]
  <2>1. c \in Running
    BY <1>1, <1>4 DEF Running
  <2>2. Process!Exit(c)
    BY <1>1, <1>2, <1>3, <1>4, <2>1 DEF Process!Exit
  <2> QED BY <1>2, <2>1, <2>2 DEF Process!Next
<1>5. CASE ~handle[c]
  BY <1>1, <1>2, <1>3, <1>5 DEF Running
<1> QED BY <1>4, <1>5

\* Every step of the supervisor is one the contract has, or none its callers see.
LEMMA StepMeetsContract ==
  ASSUME SupervisorInv, HandoutsSound, [Next]_vars
  PROVE  HandoutsSound' /\ [Process!Next]_<<Handed, active, Running>>
<1>1. ASSUME NEW c \in Starters, Spawn(c)
      PROVE  HandoutsSound' /\ [Process!Next]_<<Handed, active, Running>>
  <2>1. HandoutsSound' /\ Handed' = Handed
    BY <1>1, SpawnsAlone, HandedStays
  <2>2. active' = active /\ Running' = Running
    <3>1. ~handle[c] /\ UNCHANGED <<active, handle>> /\ TypeOK
      BY <1>1 DEF Spawn, handleVars, SupervisorInv, HandlesSound, Answers
    <3>2. \A k \in Starters \ {c} : child'[k] = child[k]
      BY <1>1, <3>1 DEF Spawn, TypeOK
    <3> QED BY <3>1, <3>2 DEF Running
  <2> QED BY <2>1, <2>2
<1>2. CASE UNCHANGED vars
  BY <1>2 DEF vars, handleVars, startVars, HandoutsSound, Handed, Running
<1>3. ASSUME NEW c \in Starters, StartStep(c) \/ Abort(c)
      PROVE  HandoutsSound' /\ [Process!Next]_<<Handed, active, Running>>
  BY <1>1, <1>3, InitializedMeetsContract, StartStepsAreQuiet, QuietStepsMeetContract DEF StartStep
<1>4. ASSUME \/ \E h \in Starters : Stop(h) \/ StopSettles(h)
             \/ \E d \in Disposers : Dispose(d)
             \/ DisposeStep
      PROVE  HandoutsSound' /\ [Process!Next]_<<Handed, active, Running>>
  BY <1>4, StopsAreQuiet, QuietStepsMeetContract
<1> QED BY <1>2, <1>3, <1>4, StartMeetsContract, ExitMeetsContract DEF Next

\* The supervisor implements the contract of ManagedProcess.
THEOREM SupervisorMeetsContract == Spec => StartContract
<1>1. Init => HandoutsSound /\ Process!Init
  BY DEF Init, HandoutsSound, Process!Init, Handed, Running, SpawnedPhases
<1>2. SupervisorInv /\ HandoutsSound /\ [Next]_vars =>
        HandoutsSound' /\ [Process!Next]_<<Handed, active, Running>>
  BY StepMeetsContract
<1> QED BY <1>1, <1>2, SupervisorInvariance, PTL DEF Spec, StartContract, Process!Spec

-----------------------------------------------------------------------------
(* Nobody waits in vain. *)

\* Where the calls of start() stand after a step that leaves the disposal as it is: none
\* is answered with others waiting for it, and no stop that is awaited ends.
StartsServed ==
  /\ \A x \in Starters :
       /\ pc'[x] = "joined" => starting' # None /\ on'[x] = starting'
       /\ pc'[x] = "awaitStop" => on'[x] \in Starters /\ stopping'[on'[x]]
       /\ pc[x] \in StartPhases \cup Answers => pc'[x] \in StartPhases \cup Answers
       /\ stopping[x] => stopping'[x]
       /\ x \in failedStops' /\ stopped'[x] => stopping'[x]

\* That is all such a step has to keep.
LEMMA ServedStep ==
  ASSUME SupervisorInv, SupervisorInv', NobodyWaitsInVain, StartsServed,
         UNCHANGED <<disposal, disposer>>
  PROVE  NobodyWaitsInVain'
<1>1. \A x \in Starters : (pc[x] \in StartPhases <=> starting = x)'
  BY DEF SupervisorInv, StartsSound
<1>2. disposal.stop \in Starters \cup {None}
  BY DEF SupervisorInv, TypeOK
<1> QED BY <1>1, <1>2 DEF NobodyWaitsInVain, StartsServed

\* What a step that leaves the stops as they are, or begins one, does to them.
StopsServed ==
  \A x \in Starters : /\ stopping[x] => stopping'[x]
                      /\ x \in failedStops' /\ stopped'[x] => stopping'[x]

\* A stop that begins ends none that is awaited, and is in progress if its handle is on
\* record.
LEMMA BeginStopServes ==
  ASSUME TypeOK, NobodyWaitsInVain, NEW h \in Starters, BeginStop(h)
  PROVE  /\ StopsServed
         /\ stopping'[h] \/ (stopped[h] /\ ~stopping[h])
<1>1. CASE UNCHANGED handleVars /\ (stopping[h] \/ stopped[h])
  BY <1>1 DEF StopsServed, NobodyWaitsInVain, handleVars
<1>2. CASE /\ stopping' = [stopping EXCEPT ![h] = TRUE]
           /\ stopped' = [stopped EXCEPT ![h] = TRUE]
           /\ failedStops' = failedStops \cup {h}
  BY <1>2 DEF StopsServed, NobodyWaitsInVain, TypeOK
<1> QED BY <1>1, <1>2 DEF BeginStop

\* The exit of a child takes its handle off the record unless a stop is in progress.
LEMMA StopsStay ==
  ASSUME NobodyWaitsInVain, UNCHANGED <<stopping, stopped>>, failedStops' \subseteq failedStops
  PROVE  StopsServed
BY DEF NobodyWaitsInVain, StopsServed

\* A start that fails answers the calls that joined it.
LEMMA FailServes ==
  ASSUME SupervisorInv, NobodyWaitsInVain, NEW c \in Starters, pc[c] \in StartPhases,
         Fail(c), UNCHANGED on, StopsServed
  PROVE  StartsServed
<1>1. starting = c /\ \A x \in Starters : pc[x] \in StartPhases => x = c
  BY OnlyOneStart DEF SupervisorInv
<1>2. \A x \in Starters :
        \/ pc'[x] = "failed"
        \/ x # c /\ pc[x] # "joined" /\ pc'[x] = pc[x]
  BY <1>1 DEF Fail, Answered, NobodyWaitsInVain
<1>3. "failed" \in Answers
  BY DEF Answers
<1> QED BY <1>1, <1>2, <1>3 DEF StartsServed, StopsServed, NobodyWaitsInVain, StartPhases

\* One that goes on remains the start in flight.
LEMMA GotoServes ==
  ASSUME SupervisorInv, NobodyWaitsInVain, NEW c \in Starters, pc[c] \in StartPhases,
         NEW phase \in StartPhases, Goto(c, phase),
         \A x \in Starters \ {c} : on'[x] = on[x],
         StopsServed,
         phase = "awaitStop" => on'[c] \in Starters /\ stopping'[on'[c]]
  PROVE  StartsServed
<1>1. starting' = starting /\ starting # None
  BY OnlyOneStart, NoneAssumption DEF SupervisorInv, Goto
<1>2. pc'[c] = phase /\ phase # "joined" /\ \A x \in Starters \ {c} : pc'[x] = pc[x]
  BY DEF Goto, SupervisorInv, TypeOK, StartPhases, SpawnedPhases
<1> QED BY <1>1, <1>2 DEF StartsServed, StopsServed, NobodyWaitsInVain

\* The steps of a start.
LEMMA StartStepServes ==
  ASSUME SupervisorInv, SupervisorInv', NobodyWaitsInVain, NEW c \in Starters, StartStep(c)
  PROVE  NobodyWaitsInVain'
<1> TypeOK
  BY DEF SupervisorInv
<1>0. UNCHANGED <<disposal, disposer>> /\ pc[c] \in StartPhases
  BY DEF StartStep, RetryStop, StopsRetried, StartupRetried, Spawn, Ready, Initialized, Cleanup,
     StartUnchanged, StartPhases, SpawnedPhases
<1>1. CASE RetryStop(c)
  <2>1. PICK h \in Starters : BeginStop(h) /\ on' = [on EXCEPT ![c] = h] /\ h \in failedStops
    BY <1>1 DEF RetryStop, TypeOK
  <2>2. on'[c] = h /\ \A x \in Starters \ {c} : on'[x] = on[x]
    BY <2>1 DEF TypeOK
  <2>3. stopping'[h] /\ StopsServed
    BY <2>1, BeginStopServes DEF NobodyWaitsInVain
  <2>4. Goto(c, "awaitStop")
    BY <1>1 DEF RetryStop
  <2>5. StartsServed
    BY <1>0, <2>2, <2>3, <2>4, GotoServes DEF StartPhases
  <2> QED BY <1>0, <2>5, ServedStep
<1>2. CASE StopsRetried(c)
  <2>1. UNCHANGED on /\ StopsServed
    BY StopsStay, <1>2 DEF StopsRetried, handleVars
  <2>2. Fail(c) \/ Goto(c, "retryStartup")
    BY <1>2 DEF StopsRetried
  <2>3. StartsServed
    BY <1>0, <2>1, <2>2, FailServes, GotoServes DEF StartPhases
  <2> QED BY <1>0, <2>3, ServedStep
<1>3. CASE StartupRetried(c)
  <2>1. UNCHANGED on /\ StopsServed
    BY StopsStay, <1>3 DEF StartupRetried, handleVars
  <2>2. Fail(c) \/ Goto(c, "arguments")
    BY <1>3 DEF StartupRetried
  <2>3. StartsServed
    BY <1>0, <2>1, <2>2, FailServes, GotoServes DEF StartPhases
  <2> QED BY <1>0, <2>3, ServedStep
<1>4. CASE Spawn(c)
  <2>1. UNCHANGED on /\ StopsServed
    BY StopsStay, <1>4 DEF Spawn, handleVars
  <2>2. Fail(c) \/ Goto(c, "ready")
    BY <1>4 DEF Spawn
  <2>3. StartsServed
    BY <1>0, <2>1, <2>2, FailServes, GotoServes DEF StartPhases, SpawnedPhases
  <2> QED BY <1>0, <2>3, ServedStep
<1>5. CASE Ready(c)
  <2>1. UNCHANGED on /\ StopsServed
    BY StopsStay, <1>5 DEF Ready, handleVars
  <2>2. Goto(c, "initialize") \/ Goto(c, "cleanup")
    BY <1>5 DEF Ready
  <2>3. StartsServed
    BY <1>0, <2>1, <2>2, GotoServes DEF StartPhases, SpawnedPhases
  <2> QED BY <1>0, <2>3, ServedStep
<1>6. CASE Initialized(c)
  <2>1. StopsServed
    BY StopsStay, <1>6 DEF Initialized
  <2>2. CASE Goto(c, "cleanup") /\ UNCHANGED on
    <3>1. StartsServed
      BY <1>0, <2>1, <2>2, GotoServes DEF StartPhases, SpawnedPhases
    <3> QED BY <1>0, <3>1, ServedStep
  <2>3. CASE pc' = Answered(c, "ok")
    <3>1. starting = c /\ \A x \in Starters : pc[x] \in StartPhases => x = c
      BY <1>0, OnlyOneStart DEF SupervisorInv
    <3>2. \A x \in Starters :
            \/ pc'[x] = "ok"
            \/ x # c /\ pc[x] # "joined" /\ pc'[x] = pc[x] /\ pc[x] \notin StartPhases
      BY <2>3, <3>1 DEF Answered, NobodyWaitsInVain
    <3>3. "ok" \in Answers
      BY DEF Answers
    <3>4. StartsServed
      BY <2>1, <3>2, <3>3 DEF StartsServed, StopsServed, NobodyWaitsInVain, StartPhases
    <3> QED BY <1>0, <3>4, ServedStep
  <2> QED BY <1>6, <2>2, <2>3 DEF Initialized
<1>7. CASE Cleanup(c)
  <2>1. UNCHANGED on /\ StopsServed /\ Fail(c)
    BY StopsStay, <1>7 DEF Cleanup, handleVars
  <2>2. StartsServed
    BY <1>0, <2>1, FailServes
  <2> QED BY <1>0, <2>2, ServedStep
<1> QED BY <1>1, <1>2, <1>3, <1>4, <1>5, <1>6, <1>7 DEF StartStep

\* A new call joins only a start that is in flight.
LEMMA StartServes ==
  ASSUME SupervisorInv, SupervisorInv', NobodyWaitsInVain, NEW c \in Starters, Start(c)
  PROVE  NobodyWaitsInVain'
<1>1. UNCHANGED <<disposal, disposer>> /\ StopsServed /\ pc[c] = "new"
  BY StopsStay DEF Start, StartUnchanged, handleVars
<1>2. \A x \in Starters \ {c} : pc'[x] = pc[x] /\ on'[x] = on[x]
  BY DEF Start, SupervisorInv, TypeOK
<1>3. /\ pc'[c] # "awaitStop"
      /\ pc'[c] = "joined" => starting' # None /\ on'[c] = starting'
  BY DEF Start, SupervisorInv, TypeOK
<1>4. starting' = starting \/ starting = None
  BY DEF Start
<1>5. pc[c] \notin StartPhases \cup Answers
  BY <1>1 DEF StartPhases, SpawnedPhases, Answers
<1>6. StartsServed
  BY <1>1, <1>2, <1>3, <1>4, <1>5 DEF StartsServed, StopsServed, NobodyWaitsInVain
<1> QED BY <1>1, <1>6, ServedStep

\* The caller's signal, the exit of a child and the stop of a handle end nobody's wait.
LEMMA EventsServe ==
  ASSUME SupervisorInv, SupervisorInv', NobodyWaitsInVain, NEW c \in Starters,
         Abort(c) \/ ChildExits(c) \/ Stop(c)
  PROVE  NobodyWaitsInVain'
<1>1. UNCHANGED <<disposal, disposer, pc, on, starting>>
  BY DEF Abort, ChildExits, Stop, StartUnchanged, startVars
<1>2. StopsServed
  <2>1. CASE BeginStop(c)
    BY <2>1, BeginStopServes DEF SupervisorInv
  <2>2. CASE Abort(c) \/ ChildExits(c)
    BY <2>2, StopsStay DEF Abort, ChildExits, handleVars
  <2> QED BY <2>1, <2>2 DEF Stop
<1>3. StartsServed
  BY <1>1, <1>2 DEF StartsServed, StopsServed, NobodyWaitsInVain
<1> QED BY <1>1, <1>3, ServedStep
\* A stop that settles takes along the start and the disposal that waited for it.
LEMMA StopSettlesServes ==
  ASSUME SupervisorInv, SupervisorInv', NobodyWaitsInVain, NEW h \in Starters, StopSettles(h)
  PROVE  NobodyWaitsInVain'
<1> DEFINE waiter == {c \in Starters : pc[c] = "awaitStop" /\ on[c] = h}
<1>0. TypeOK /\ UNCHANGED <<on, disposer>>
  BY DEF StopSettles, SupervisorInv
<1>1. \A x \in Starters : /\ stopping'[x] <=> stopping[x] /\ x # h
                          /\ x \in failedStops' /\ stopped'[x] => stopping'[x]
  BY <1>0 DEF StopSettles, TypeOK, NobodyWaitsInVain
<1>2. \A x \in waiter : x = starting
  BY DEF NobodyWaitsInVain, StartPhases
<1>3. \A x \in Starters :
        /\ pc'[x] = "joined" => pc[x] = "joined" /\ starting' = starting
        /\ pc'[x] = "awaitStop" => pc[x] = "awaitStop" /\ on[x] # h
        /\ pc[x] \in StartPhases \cup Answers => pc'[x] \in StartPhases \cup Answers
  <2>1. CASE pc' = [c \in Starters |-> IF c \in waiter THEN "retryStops" ELSE pc[c]]
             /\ starting' = starting
    BY <2>1 DEF StartPhases
  <2>2. CASE starting \in waiter /\ pc' = Answered(starting, "failed") /\ starting' = None
    <3>1. \A x \in Starters : \/ pc'[x] = "failed"
                              \/ x \notin waiter /\ pc[x] # "joined" /\ pc'[x] = pc[x]
      BY <2>2, <1>2 DEF Answered, NobodyWaitsInVain
    <3> QED BY <3>1 DEF Answers
  <2>3. CASE starting \notin waiter /\ pc' = pc /\ starting' = starting
    BY <2>3, <1>2
  <2> QED BY <2>1, <2>2, <2>3 DEF StopSettles
<1>4. /\ disposal'.phase = disposal.phase /\ disposal'.waitsFor = disposal.waitsFor
      /\ disposal'.stop # None => disposal'.stop # h /\ disposal' = disposal
  BY <1>0 DEF StopSettles, TypeOK
<1>5. \A x \in Starters : (pc[x] \in StartPhases <=> starting = x)'
  BY DEF SupervisorInv, StartsSound
<1>6. disposal.stop \in Starters \cup {None}
  BY <1>0 DEF TypeOK
<1> HIDE DEF waiter
<1>7. \A x \in Starters :
        /\ pc'[x] = "joined" => starting' # None /\ on'[x] = starting'
        /\ pc'[x] = "awaitStop" => on'[x] \in Starters /\ stopping'[on'[x]]
  BY <1>0, <1>1, <1>3 DEF NobodyWaitsInVain
<1>8. disposal'.stop # None =>
        disposal'.phase = "stopping" /\ disposal'.stop \in disposal'.todo
        /\ stopping'[disposal'.stop]
  BY <1>1, <1>4, <1>6 DEF NobodyWaitsInVain
<1> QED BY <1>0, <1>1, <1>3, <1>4, <1>5, <1>7, <1>8 DEF NobodyWaitsInVain

\* A disposal waits for the start in flight, or for none.
LEMMA DisposeServes ==
  ASSUME SupervisorInv, NobodyWaitsInVain, NEW d \in Disposers, Dispose(d)
  PROVE  NobodyWaitsInVain'
<1>1. UNCHANGED <<handleVars, starting, pc, on>> /\ disposal'.phase # "none"
  BY DEF Dispose, NoDisposal
<1>2. \/ disposal' = disposal
      \/ /\ disposal'.phase = "awaitStart" /\ disposal'.waitsFor = starting
         /\ disposal'.stop = None
  BY DEF Dispose, NoDisposal
<1> QED BY <1>1, <1>2 DEF NobodyWaitsInVain, handleVars

\* The disposal waits for a stop only while it is in progress, and nobody waits for the
\* disposal when it is over.
LEMMA DisposalServes ==
  ASSUME SupervisorInv, NobodyWaitsInVain, DisposeStep
  PROVE  NobodyWaitsInVain'
<1>0. TypeOK
  BY DEF SupervisorInv
<1>1. CASE DisposeCollect
  <2>1. /\ UNCHANGED <<handleVars, starting, pc, on, disposer>>
        /\ disposal'.phase = "stopping" /\ disposal'.stop = disposal.stop
        /\ disposal.phase = "awaitStart"
    BY <1>0, <1>1 DEF DisposeCollect, DisposalUnchanged, TypeOK
  <2> QED BY <2>1 DEF NobodyWaitsInVain, handleVars
<1>2. ASSUME NEW h \in Starters, DisposeStop(h) PROVE NobodyWaitsInVain'
  <2>1. /\ UNCHANGED <<starting, pc, on, disposer>>
        /\ disposal'.phase = "stopping"
        /\ \/ stopped[h] /\ ~stopping[h] /\ disposal'.stop = None
           \/ /\ ~(stopped[h] /\ ~stopping[h])
              /\ disposal'.stop = h /\ h \in disposal'.todo
    BY <1>0, <1>2 DEF DisposeStop, DisposalUnchanged, TypeOK
  <2>2. StopsServed /\ (stopping'[h] \/ (stopped[h] /\ ~stopping[h]))
    BY <1>0, <1>2, BeginStopServes DEF DisposeStop
  <2> QED BY <2>1, <2>2 DEF NobodyWaitsInVain, StopsServed
<1>3. CASE DisposeFinish
  <2>1. /\ UNCHANGED <<handleVars, starting, pc, on>> /\ disposal' = NoDisposal
        /\ \A d \in Disposers : disposer'[d] # "waiting"
    BY <1>3 DEF DisposeFinish, DisposalUnchanged
  <2> QED BY <2>1 DEF NobodyWaitsInVain, NoDisposal, handleVars
<1> QED BY <1>1, <1>2, <1>3 DEF DisposeStep

\* No start() and no dispose() ever waits for something that is over: a settled start, a
\* stop nobody performs, a disposal that has finished.
THEOREM StartsAreServed == Spec => []NobodyWaitsInVain
<1>1. Init => NobodyWaitsInVain
  BY NoneAssumption DEF Init, NobodyWaitsInVain, NoDisposal, StartPhases, SpawnedPhases
<1>2. SupervisorInv /\ SupervisorInv' /\ NobodyWaitsInVain /\ [Next]_vars => NobodyWaitsInVain'
  <2> SUFFICES ASSUME SupervisorInv, SupervisorInv', NobodyWaitsInVain, [Next]_vars
               PROVE  NobodyWaitsInVain'
    OBVIOUS
  <2>1. CASE UNCHANGED vars
    BY <2>1 DEF vars, handleVars, startVars, NobodyWaitsInVain
  <2> QED BY <2>1, StartServes, EventsServe, StartStepServes, StopSettlesServes,
             DisposeServes, DisposalServes DEF Next
<1> QED BY <1>1, <1>2, SupervisorInvariance, PTL DEF Spec

=============================================================================
