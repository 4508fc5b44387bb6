# Verification of deepseek-harness-vscode

TLA+ models of the parts of the extension whose correctness depends on the order
in which asynchronous things happen, TLC runs that check them on small instances,
and TLAPS proofs of what matters most for every instance. Paths are relative to
the repository (`src/` in `PROJECT.json`).

## 1. The system

The extension connects a VS Code Webview to a DeepSeek Harness (DSH) host: a
process found on the machine or started by the extension itself. One Node.js event
loop runs everything, so there are no data races; every hazard comes from what
happens *between* two turns of that loop: an `await` that resumes late, a signal
that fires, a timer, a child that exits, a stream that is cut.

| Component | State it keeps | Operations | What is hard |
|---|---|---|---|
| Connection coordinator, `packages/application/src/connection/dsh-connection-coordinator.ts` | published state, operation in flight, backend, retained backends, managed process, generation, disconnect intent, teardown in progress | `connect`, `disconnect`, internal replacement | calls overlap at every await; late answers of cancelled operations; closes and stops that fail |
| Managed process supervisor, `apps/extension/src/backend/process-supervisor.ts` | active handle, start in flight, failed stops, failed startup child, disposal | `start`, `handle.stop`, `dispose` | children exit at any time, stops time out and are retried, disposal during a start |
| Stream controller, `packages/dsh-adapter/src/stream-controller.ts` | per session: watermark, ordered delivery with its drain, projection fences, pending snapshot; listeners, reading generation, timers | `subscribe`, `restart`, `close`, `accept` of every frame | streams cut in the middle, holes read from history while live rows arrive, replaced deliveries whose drains still run, a host that comes back with another log |
| Webview message router, `apps/extension/src/view/message-router.ts` | requests in flight per surface, question waits | `handle`, `cancelSurface`, `cancelAll` | duplicate ids, cancellation racing completion, torn-down surfaces |
| Session watch controller, `apps/extension/src/backend/session-watch-coordinator.ts` | per session: who displays it, status, interactions, jobs, unwatch timer; seed in progress | display, release, `attach`, every event | a directory read racing events, a delayed release racing new demand |
| Prompt queue, `packages/dsh-adapter/src/repositories/session/prompt-queue.ts` | queue snapshots, owners, projection cuts, pending identities, mutation tails | `enqueuePrompt`, `remember`, row mutations | accepted prompts without confirmation, snapshots out of order |
| Surface delivery, `apps/extension/src/view/bounded-event-queue.ts` and neighbours | lanes, latest snapshots, recovery | `enqueue`, `enqueueLatest`, `invalidate` | full lanes, snapshots overtaking events |
| Backend service, `packages/application/src/services/backend-service.ts` | attached backend, generation, replay cache | `attach`, `detach`, events | reentrant detach, opening events inside `subscribe` |

How they interact: the request handler and the connection assembly
(`apps/extension/src/composition`) call `connect` with the caller's abort signal
and `disconnect` on deactivation. The coordinator asks discovery, probes and the
runtime locator for candidates, the **supervisor** for a process
(`processSupervisor.start`) and the backend factory for a backend; the process it
gets is stopped through the handle, and an exit of the child clears the
supervisor's active handle behind the coordinator's back. A backend owns one or
more **stream controllers**: one for the host's stream, and in the alpha versions
one for each watched session, which `versions/alpha/events.ts` restarts. Their
events pass the backend service's generation fence and the host event pipeline
and reach the Webviews through the surface delivery; the **session watch
controller** observes them to decide which sessions to follow, and tells the alpha
adapter to open and close their streams; the **prompt queue** observes queue
projections, which come over the control stream, over a session's follow stream, or both. Requests travel the other way through the
**router**.

What makes each correct:

* coordinator: one operation at a time; no backend or process is lost; nothing is
  attached after a disconnect; the published state agrees with what is held; every
  call is answered, with what it asked for;
* supervisor: never a second live child, never one nobody can stop, none after a
  successful disposal, no dead handle handed out, every call answered;
* stream controller: each durable position reaches the listeners in order, once,
  or is announced missing; nothing of a cut generation or a replaced delivery is
  handed out; a reconnect recovers what is owed; projections do not go back;
* router: at most one terminal response per request incarnation, and a surface's
  teardown touches that surface only;
* watch controller: the followed sessions are the displayed, running and awaiting
  ones; a removed session is never followed again by a stale answer;
* prompt queue: one `session.prompt` per intent; the rows shown become those of the
  host; mutations of one row run in order;
* surface delivery: one frame at a time, no open interaction lost, rest in the end.

`PROJECT.json` lists every component, also those that are not modelled (I/O,
rendering, pure reducers, installers), and the hazards at their lines.

## 2. Modules

| Module | Models | Proofs |
|---|---|---|
| `Connection` | the coordinator, with the supervisor reduced to its active handle | `ConnectionProofs` |
| `ProcessSupervisor` | the supervisor in full | `ProcessSupervisorProofs` |
| `ManagedProcess` | abstract: what callers of `start()` may rely on; `ProcessSupervisor` implements it | |
| `ManagedConnection` | the two together: `Connection` and `ProcessSupervisor` instantiated side by side, with the calls, signals and answers between them | `ManagedConnectionProofs` |
| `OrderedLog` | abstract: what a consumer of one session is promised, a cursor that moves only by handing out the position it stands at, by announcing a range missing, or by a new baseline | |
| `StreamDelivery` | ordered delivery of one session by the stream controller; implements `OrderedLog` | `StreamProofs` |
| `StreamLifecycle` | who reads a stream and when: listeners, generations, reconnection timers, restarts, gaps of transient chunks | `StreamProofs` |
| `MessageRouter` | the requests and question waits of all surfaces | `MessageRouterProofs` |
| `SessionFollow` | the policy that follows a session, composed with the adapter's streams it opens | `SessionFollowProofs` |
| `PromptQueue` | the inbox of a session: enqueued prompts, snapshots, mutations of rows | `PromptQueueProofs` |
| `ControlDelivery` | from the coordinator's state to the Webview's store: backend service, event pipeline, mailbox, Webview | `ControlDeliveryProofs` |

`MC...` modules give the constants their values. Four of them check two components
in one run: `MCSurfaces` (`MessageRouter`, `SessionFollow`), `MCSession`
(`StreamDelivery`, `PromptQueue`), `MCLifetimes` (`ProcessSupervisor`,
`StreamLifecycle`) and `MCArrivals` (`ControlDelivery`, and `StreamDelivery` for its liveness). The two
share no state, so a behaviour is one of either, which
`part` says; this is a sum of two state spaces and not a model of their interaction.
`MCSession` divides `PromptQueue` further, into behaviours of several enqueue calls
and behaviours in which one row is mutated: a mutation never looks at what `prompt` and
`attempts` hold.

Definitions named `...Bug` are plausible mistakes in the definition that follows
them. They are no part of a specification; each shows that one property notices it.

### Connection

An element of `Callers` is one call of `connect(request, signal)`, and the
operation it starts, the backend that operation opens and the process it spawns
carry its name. `pc` says which await the call is suspended at; one action is the
code from there to the next await (`SearchDone`, `LocateDone`, ..., `InitDone`).
Fields keep the code's names: `state`, `inFlight`, `backend`, `connectedRequest`,
`orphaned`, `managed`, `generation`, `disconnectIntent`. `teardown` is the
`disconnectOnce` in progress (`BeginTeardown` up to its first await, then
`CollectOwned`, `CloseBackend`, `StopManaged`, `FinishTeardown`). `Reject` is the
`catch` of `connect()` together with the reactions that clear `inFlight`: they run
in the microtasks that settle the operation, before any I/O completes.
`ReactionsRun` carries the same fact for calls a settled teardown has woken.
`ModeOf` gives a request its mode: automatic with permission to start a process;
attach only (also an automatic request without autostart, or with a list of
allowed endpoints); a new isolated process; a custom endpoint; a custom request
without an endpoint. Discovery, probing and location are abstracted to their
outcomes; the ranking of candidates and the evidence for their identity do not
influence the properties. Endpoint preparation is assumed present, and fast
discovery too, as the assembly always provides both.
`opened`, `running`, `active` and `prepared` are the world outside: backends
connected and not closed, live processes, the supervisor's active handle, and
endpoints authorised. Listeners and progress observers do not throw.

### ProcessSupervisor

An element of `Starters` is a call of `start`, its child and that child's handle.
`disposal` is the `disposeOnce` in progress. `ChildExits` may happen at any time;
`StopSettles` either sees the exit or gives up. The reaction of line 279, which
clears the active handle of a child that has exited, is part of the exit, or of
`Initialized` when the child was already gone. `Stop` is anyone who holds a handle.

### ManagedConnection

The variables of both modules but two: what `Connection` calls `active` and `running` is
read off the supervisor (`Active`, `Running`), as far as the process has been handed to the coordinator
(`Taken`). The steps of the coordinator that do not concern the supervisor are those of
`Connection`. The others are joined: `CallStart` is the last look of the coordinator and `Start` in one
step; `StartAnswered` takes the answer `start()` settled with; `CallStop` and `StopReturns` are the two ends of
`handle.stop()`; `Abort` and `Disconnect` pass the signal on to the startup in flight (`PassOn`). What
the supervisor and the children do by themselves happens at any time, except between the settling of a start
and the promise reaction that takes its answer (`AnswerTaken`): a process exit is an event of a later turn.
The coordinator is the supervisor's only client; the extension disposes of the supervisor at the end of its
life, which is after the behaviours of this module.

### StreamDelivery

One session, whose durable positions are `0 .. Size - 1`, those in `Projections`
being projections of a single key. `snapshots` chooses between the v1 mux, where
`session.subscribed` carries only a baseline, and a per-session stream that begins
with a bounded snapshot. `delivery[d]` is an `OrderedSessionDelivery` together with
its drain: `turn` says that the signal the drain runs under has not fired,
`nextTurn` the same of `drainSignal`. Replacing a delivery keeps its record while
its drain is suspended under a live signal; an orphaned drain whose signal has
fired can do nothing more and its record is reused. `reader` is
`acceptSessionSnapshot`, which the read loop awaits. `note` is what the step hands
to the listeners. The yields of the time-slice budget are modelled by making every
position a step of its own, so the event loop may intervene between any two.
Several events at one position and the control frame
`session.projection.baseline` are left out; transient chunks and reconnection are the
subject of `StreamLifecycle`.
The host (`HostAppends`, `HostRestarts`) is external: its log grows, and may come
back shorter while no generation reads.

### StreamLifecycle

`reading.stage` follows `readLoop()` from the open generation through the unwinding of
its readers, the report to the listeners and the `finally`; `reading.fired` is the
aborted lifetime, `heard` that a frame was read, which makes the reconnected event due.
`retry.named` is the timer `retryTimer` holds; `retry.stray` that others are pending
which nothing can clear any more, since `scheduleReconnect` overwrites the field.
`restarting` is `restartTask`. `chunks` keeps `transientRestartTimer` (`cooling`),
`pendingTransientRestarts` (`pending`) and the budget; `missing` says whether the
present generation has missed a chunk. A step is one task of the event loop together
with the promise callbacks that follow it. The time between the end of `restart()`'s
task and the callback that clears `restartTask` is one microtask, and
the model makes the two one step (section 6). Delays have no lengths: a timer fires at any time.

### MessageRouter

An element of `Calls` is one call of `handle()`, remembered while anything refers to
it. `inFlight` is the map of the code; `waits` and `unlinked` are `questionWaits`
and the routes whose request link is cut. `HandlerReturns` and `HandlerThrows` end the await of the handler and run the code up to the
next one, that of the response (`PostSettles`). A cancellation (`HandleCancel`) is answered at once; what a message
attaches to or releases from the question waits happens before the first await
(`HandleAttach`, `HandleRelease`).
`past` is history: calls whose surface was torn down since they arrived.

### SessionFollow

One session. `watch` holds the policy (`shows`, `visible`, `blocked`, the tombstones
`removed` and `archived`, and `entry`, a `SessionWatchRecord`) and the adapter's
`streams` (`versions/alpha/events.ts`): `follow` and `rows` tell which of the session's two
streams are open, `opened` the preview the first was opened with, `turning` the
microtask that reopens it. The code does all it does with one event in one turn, so that
an action is a composition of functions on `watch` (`Evaluate`, `Watch`, `Release`,
...) named like the code's. `wire` carries the host's events in order; `seed` holds what the
directory or the job list answered, which may be older than what `wire` has since
delivered. The host is external.

### PromptQueue

One session and one prompt, so that all calls of `enqueuePrompt()` have the same key. A
call is an element of `Enqueues` and names its attempt, its request and its row. `cached`
keeps `queues`, `queueProjectionSequences`, `pendingQueueIdentities`, the owners and
`queueMutationTails`. `attempts` holds the identity promises that have not settled;
`attempts.disowned` those `clearQueueState()` has made the repository forget.
`profile` tells where the adapter's snapshots come from and whether a row names its
request. `inbox.log` is the history of the host's inbox: the control stream may skip to
a later state, a follow stream carries the one it was opened at.

### ControlDelivery

`host` is the coordinator's published state, the backend service's bound backend and
replay cache, and the pipeline's `eventBackend`; `mailbox` is `ControlDelivery`'s record
of one surface; `wire` the frames posted and not yet taken; `view` the Webview's
store; `ready` the two kinds of `app.ready` request. Connections, reloads and failed posts are
bounded by `spent`. `Proceeds` collects the steps nobody outside needs to ask for.

## 3. Runs

| Run | Instance | Shows |
|---|---|---|
| `connection` | 3 calls over an automatic and a custom request, 1 disconnect; symmetric calls; 0.5 M states | `SingleOperation`, `NothingIsLost`, `StateAgrees`, `NoLateBackend`, `AnswerServesRequest` |
| `managed` | 2 calls over requests of every mode, 1 disconnect, on the real supervisor; fairness; 0.3 M states | `RunsAsConnection`: the coordinator with the supervisor in full implements `Connection`; `DisconnectReleases`: what a successful disconnect has released, down to the children; `CallsSettle`: every call is answered |
| `connection_settled` | 2 calls, 1 disconnect; violation | finding 1 |
| `lifetimes` | 3 starts, 2 disposals; 2 listeners, budget of 2 restarts; fairness; 0.3 M states | `LiveChildOwned`, `OneLiveChild`, `ActiveIsUsable`, `DisposeStopsAll`, `NoSpawnAfterDispose`, `CallsSettle`; `NeverStranded`, `RestsUnheard`, `GapsHeal` |
| `stream` | 3 positions (1 a projection), 2 deliveries; 3 enqueue calls, 3 mutations, 3 states of the inbox; symmetric deliveries; 3.5 M states | `OrderedDelivery` (the refinement of `OrderedLog`), `GapsAreUnknown`, `SilentOnceCut`; `QueueIsCurrent`, `OneSend`, `MutationsInOrder` |
| `stream_fence` | 2 positions; violation | finding 2 |
| `stream_epoch` | 3 positions; violation | finding 3 |
| `surfaces` | 2 surfaces, 2 request ids, 2 remembered calls, 1 wait key; 1 event under way; symmetric surfaces; 1.5 M states | `WaitOwned`, `OneAnswer`, `WaitKept`; `DemandIsStreamed`, `StreamsReclaimed`, `JobRowsKept`, `PolicyIsCurrent` |
| `arrivals` | 1 prompt, mailbox of 1, 1 retry, and 2 connections, or 1 with a reload and a failed post, or 1 with 2 failed posts; 2 positions; fairness; 1.3 M states | `FactsKnown`, `DeliverySettles`; `CaughtUp`: a reconnect recovers what is owed |
| `delivery_view` | mailbox of 3, 1 connection; violation | finding 4 |
| `delivery_prompts` | mailbox of 2, 1 connection; violation | finding 5 |
| `prompts_shared` | 2 enqueue calls; violation | finding 6 |

Every run of an executable module also checks its type invariant.

Why these bounds are enough. *Three* calls are what the interesting interleavings
need: one whose operation is superseded, one that waits or joins, one that comes
after both. In `managed` *two* calls, of any two modes, are one whose process is being started, stopped
or survives, and the one that comes after; the disconnect joins the teardown of a replacement
or begins its own. Counters (`generation`, `disconnectIntent`) are
bounded by the number of calls, as each call and each disconnect raises them at most
twice; no constraint cuts the state space. *Three* starts give a failed startup, a failed stop
and a new start; two disposals, one that joins or repeats. *Three* positions give a
row before, in and behind a hole; *two* records of deliveries are one in use and one
left behind by its replacement with its drain still suspended: a record is
reused once nothing refers to it, and the state without a free record merely
postpones a replacement. *Two* surfaces with *two* ids give a request id used again
on its surface or on the other one; a remembered call is free again once nothing
refers to it, so two calls are the two that can contend for a slot or a key, in runs of
any length. *One* event under way is
enough for an answer of the directory to be older than an event, as answers wait for
themselves; a longer wire adds delays the host can already produce. *Three* attempts are one
that is open, one that waits for it and one that comes after a clear; *three*
mutations, a tail, its successor and one behind both. A mailbox of *one* overflows
with the second entry, and *one* retry exhausts the ladder with the second failure: with the code's
bounds (`maxPending` 256, three retries) the same happens later. The budgets of `arrivals` let a second connection
follow a first whose frames are under way, a failed post precede or follow a reload, and failed posts use up the ladder. *Two* restarts are a first one
and the one that exhausts the budget (three in the code). The runs keep TLC's deadlock check off: all calls may be
answered, the stream closed and nothing left to do.

Symmetry is used in `connection`, `stream`, `surfaces` and the violation runs, over calls,
deliveries or surfaces that are interchangeable; runs that check liveness use none.

## 4. Fairness

Safety needs none. For liveness:

* `Connection`: weak fairness of each operation's next step, of the teardown's and
  of a woken or resuming call. Every await of the code ends: probes, discovery and the
  factory are bounded by their transports' timeouts, stops by timers, and promise
  reactions are run by the engine. Nothing forces a call, an abort, a disconnect or an exit.
* `ManagedConnection`: that of the two, with the coordinator's steps at the seam: a start that has
  settled is answered, a stop it wants is begun, one that has settled is answered.
* `ProcessSupervisor`: weak fairness of each start's next step, of the settling of a
  stop and of the disposal's next step. Readiness, initialisation and waiting for an
  exit have timers; the callback for additional arguments and `terminateTree` have
  none of their own and are assumed to settle. No child is assumed to exit.
* `StreamDelivery`: weak fairness of the snapshot in progress and of each drain: a
  yield ends, and a history read returns or fails. No frame is assumed to arrive and
  no generation to last.
* `StreamLifecycle`: weak fairness of what the event loop runs by itself: timers that
  are set fire, callbacks and `finally` blocks run, and a stream whose signal has fired ends
  (the transports end their iterators then). No open stream is assumed to end or to
  bring a frame, and no listener to come or leave.
* `ControlDelivery`: weak fairness of `Proceeds`: a scheduled post is made, a Webview
  takes what it was posted, its acknowledgement arrives, retry timers fire and requests end. No
  connection, reload or failure is assumed. A pause after sustained failures is not
  assumed to end: the code waits for later traffic, and `DeliverySettles` admits that state.

## 5. Proofs

Each theorem holds for every value of the constants. The assumptions are the named ones in the
modules that declare the constants: `None`, `Nobody`, `NoCall`, `NoEntry` and `NoFrame` are none of the values
they stand beside, every request has a mode, `Size`, `MaxCuts` and `MaxRecoveries` are positive, and the sets of deliveries
and projections are any sets of the kind the module states. TLC
checked every invariant before it was proved.

**Connection** (`ConnectionProofs`): type correctness, `SingleOperation`,
`NothingIsLost`, `StateAgrees`, `NoLateBackend`, `DisconnectReleases` and `AnswerServesRequest`. None of these
is inductive alone. `ConnectionInv` adds what the code relies on without saying it:

* `OperationInv`: an operation in flight started with nothing attached and nothing
  left over, and while its generation is current no teardown has begun and no
  disconnect was called: the reason `attach` may install its backend;
* `TeardownInv`: a teardown that is closing runs alone and, while nothing has failed, has everything
  that is held on its list: the reason a successful disconnect releases everything;
* `WaiterInv`: what a call may assume when it continues after a teardown. The call that
  began the teardown resumes first and finds nothing held; the others look again;
* `SurvivorInv`: a process that survived its stop keeps the state at `failed`, which
  makes the next `connect` tear down first.

The proof has one lemma for each group of actions (`OperationKeepsInv`,
`StartKeepsInv`, ..., `FinishKeepsInv`), which `NextInv` combines; `Reject` and `Goto`,
which many actions share, have lemmas of their own. `ExitKeepsInv` covers exits of the
process at any moment.

`WaitsAreServed` proves `NobodyWaitsInVain`, the state behind `CallsSettle`: calls wait for the
operation they joined or for a teardown that is under way, a teardown only for an operation that runs or has
settled, and an operation that has to stop its process holds it.

**Supervisor** (`ProcessSupervisorProofs`): type correctness, `LiveChildOwned`, `OneLiveChild`,
`ActiveIsUsable`, `DisposeStopsAll` and `NoSpawnAfterDispose`. `SupervisorInv` says why a
start may spawn (`SpawnIsSafe`: when it is about to, no child is alive, since every failed
stop and the failed startup before it have been seen to exit), what a handle is (only a start
that succeeded has one), and why a disposal may report success (`DisposalSound`: once it has
waited for the start in flight none can begin, and while nothing has failed every
live child is on its list). `StartsAreServed` proves the supervisor's `NobodyWaitsInVain`: every waiting
start or disposal waits for something under way, and a handle on record can be stopped again
unless a stop of it is in progress.

**The supervisor's contract.** `ManagedProcess` states what the callers of `start()` may rely on: processes are
handed out fresh, when nothing else runs, or again while active; they are given up, or exit, and are then never
handed out again. `SupervisorMeetsContract` proves that the supervisor implements it (`StartContract`, with `Handed`
and `Running` as the mapping), for any clients. TLC has checked it on the instance of the run `lifetimes`.

**Coordinator and supervisor together** (`ManagedConnectionProofs`). `Connection` reduces the supervisor to two
variables. That this is a sound reduction is `ConnectionIsImplemented`: every step of `ManagedConnection` is
a step of `Connection` or leaves its variables alone, so all theorems of `ConnectionProofs` hold with the real
supervisor underneath; `SupervisorUnderConnection` says the same of `ProcessSupervisor`. The inductive invariant
`ManagedInv` joins the invariants of both parts, whose preservation is cited from their modules, with `Agreement`:
a start that is under way is the one the coordinator awaits, so none joins another; what the
coordinator manages it has been given; each process was given first to the call it is named for, or its
start has settled and the answer has not been taken; and such an answer is good (`AnswerIsGood`): the active process, which the
coordinator knows, or a fresh one that runs alone or has exited, in which case it is not active either. Steps are sorted by what they
leave alone: `Aloof` steps of the coordinator neither make a start nor take its answer,
`Quiet` steps of the supervisor neither hand a process out nor give one up, and such steps combined
keep `Agreement` (`AloofAndQuiet`). What is left has a lemma each: the call of a start, its answer, the
handle being made, the beginning of a stop, the exit of a child.

`DisconnectLeavesNoSurvivor` is a property of the whole that neither part can state: after a successful
disconnect no process made for any call is alive, except the one the supervisor would hand out again. That one remains
when the coordinator attached to its own process as if it were a foreign one (it found it by discovery after a call that
started it had been cancelled) and so no longer manages it; the supervisor still does.

**Router** (`MessageRouterProofs`): type correctness, `WaitOwned`, `OneAnswer` and
`WaitKept`. `RouterInv` is `Sound` over the six variables; as most handlers end in `Becomes`, which
forgets calls nothing refers to, the lemmas speak of the state before that forgetting and
one lemma carries them over it. The heart of the argument is that a call that has not settled, of
a surface still in its present life, occupies its slot exactly while it has not been
superseded, which makes a second response for the slot impossible.

**Stream** (`StreamProofs`): type correctness, `GapsAreUnknown`, `SilentOnceCut`, and
`DeliveryImplementsLog`: the specification implements `OrderedLog`. `StreamInv` is typing and
three facts that connect the parts: a turn is that of a generation that reads
(`TurnsAreAlive`); an open controller has a delivery exactly when it has a watermark
(`DeliveryHasBaseline`); a snapshot under way belongs to a delivery (`MergeHasDelivery`).
`StepIsSound` collects, with one lemma for each action, that a step keeps the invariant,
maps to a step of `OrderedLog` or leaves its variables alone, announces no row at hand and is
silent without a generation. The refinement mapping is the one of `OrderedDelivery`: the cursor is
`nextSequence` of the current delivery.

`OwedIsAlwaysUnderWay` proves the state behind `CaughtUp`: whenever the host's baseline has arrived and positions up
to the known end are owed, a drain of the current delivery `Reaches` that end by its own steps. Its inductive form,
`OwedInv`, also follows a snapshot that is being merged, and drains whose turn
ends: they get the next one exactly when a later generation has asked for it.

**Stream lifecycle** (`StreamProofs`): the type invariant, which is inductive: a gap that
waits always has a cooldown that will end, and while a restart is under way nothing hears and nothing
is pending. `ListenersAlwaysServed` proves the state behind `NeverStranded` and `RestsUnheard`: while
somebody listens, a generation reads or something that will read again is under way, and what
nobody listens to has been aborted.

**Prompt queue** (`PromptQueueProofs`): `QueueIsCurrent`, `OneSend` and
`MutationsInOrder`. `QueueInv` says that an attempt whose outcome is open holds its
key (`KeyIsHeld`), that only a subscription or a removal disowns attempts (`AttemptsKnown`), that the rows cached are those of the cut they claim and no newer cut has been
dropped (`SnapshotIsNewest`), and that the mutations of a row form a chain which ends in its tail
(`RowsInChain`). `OneSend` says what holds for every adapter: nothing is sent while the outcome of an attempt is
open, except that with the baseline `subscription` a subscription makes the repository forget what was sent
before it. That this exception contradicts the code's own comment is finding 6; `OneRequestInFlight`
proves that it is the only one: with control projections two identical calls never have a request in flight at once.

**Session watch** (`SessionFollowProofs`): type correctness, `DemandIsStreamed`,
`StreamsReclaimed`, `JobRowsKept` and `PolicyIsCurrent`. What a function of the policy may find when it is
entered is `Consistent`: the record counts exactly the panels that see the session, a stream is
open whenever the record says so, and nothing is open without a backend or for a session that is gone.
What `Evaluate` leaves behind is `Settled`, which adds that a followed session has its
stream, opened with the preview it needs, and that one still announced though nobody wants it has a
timer to release it. One lemma for each function of the policy (`WatchOpens`, `ReleaseSettles`,
`EvaluateSettles`, ...) carries these through the compositions the actions are made of.
`SourcesQuiet` is the part about the world outside: without a backend, or from an archived session,
nothing is on its way.

`PolicyIsCurrent` speaks of states at rest; `PolicyInv`, which implies it, of every state. The last event on the
wire about turns, or about questions, tells the truth (`LastTells`); where the wire tells nothing more,
the policy knows the answer, or a directory read nothing has overtaken is still to bring
it (`AskingKnown`, `TurnKnown`). `CatalogueInOrder` is why an event the policy drops while it believes
the session gone does no harm: the next thing to arrive is then the rebirth of the session.
`AppendTells` and `TailTells` are the facts about sequences this rests on. `EvaluateAlike` and its
neighbours show that the policy's functions decide about streams and leave what is known alone.

**Control delivery** (`ControlDeliveryProofs`): type correctness and `FactsKnown`. The types need
that an acknowledgement on its way is for the active frame (`Matched`). `FactsKnown` speaks of
states at rest; its inductive form is `NothingLost`: while a backend is served, each
of its open interactions is `Covered`. The Webview shows it, or an entry of the mailbox or a frame on the wire
carries it, and in both cases no snapshot follows that could clear it; or a recovery has been asked for;
or a request is going to replay it. `Keeps` says what the functions of the mailbox preserve of this
(`PumpKeeps`, `EnqueueKeeps`, `CompleteKeeps`, `FailedKeeps`): an overflow may lose entries because it leaves
the request for a recovery behind, a reset because the request that causes it replays. Two facts
about the host are part of it: the first event of a backend, which empties the mailbox, comes when nothing
has been asked, and what has been settled is not asked again.

`DeliveryIsNeverStuck` proves `NothingIsStuck`, the state behind `DeliverySettles`: an unacknowledged frame is on
the wire or still to be posted (`OnItsWay`), and what is queued with nothing under way has a timer, or
the retries were used up (`Pumped`). The rest after the last retry is the only state in
which entries wait for later traffic.

Only model-checked: all liveness (`CallsSettle`, `CaughtUp`, `NeverStranded`,
`RestsUnheard`, `GapsHeal`, `DeliverySettles`). Liveness under fairness, and anything about
`ENABLED`, is out of the prover's reach. What is proved is the state behind five of the six
(`GapsHeal` rests on a clause of the type invariant): that nobody waits for something that is not under way. That what
is under way also ends is what the fairness of section 4 and the runs say. Every safety property and
every action property of a passing run is stated by a theorem. The state
invariants without a run of their own (`NobodyWaitsInVain` of both modules, `Agreement`, `ListenersAreServed`,
`OwedIsUnderWay`, `NothingIsStuck`) hold in TLC on the instances of section 3 or smaller ones.

## 6. Findings

1. `connection_settled`: `attach()` is returned, not awaited, inside the `try` that
   would stop the managed process (`dsh-connection-coordinator.ts:629`). A signal
   that fires while the factory connects leaves the state at `connecting`, nothing
   in flight, and the process running. The same shape at line 371 leaves a custom
   endpoint authorised after its initialisation has failed.
2. `stream_fence`: a projection recovered from history passes the fence when it is queued
   and may be handed out after a newer baseline.
3. `stream_epoch`: a snapshot cut off while it is merged leaves rows above the
   watermark; a host that restarts with a shorter log then has new rows dropped.
4. `delivery_view`: the first event of a backend empties the surface's mailbox, and with it the
   `connected` snapshot that still waits there; nothing posts it again.
5. `delivery_prompts`: an overflow of the mailbox drops the notice that an interaction was
   settled, and the recovery only adds the open ones: a prompt nobody can answer stays. This is
   about sessions of the alpha adapters; on the v1 mux the replay of `session.subscribed` clears the prompts of
   its session (`host-message-reducers.ts:387-402`), the dead one with them.
6. `prompts_shared`: with the baseline `subscription`, the default (`session-repository.ts:99`),
   `session.subscribed` also deletes the pending identity of a prompt whose request is in flight
   (`prompt-queue.ts:375-376`). An identical enqueue after it sends the prompt a second time, which the
   comment at 133-136 excludes.

Observed while reading, without a run of their own:

* a reconnect timer that is still pending when `subscribe()` starts to read is
  overwritten by the next `scheduleReconnect` and can no longer be cleared
  (`stream-controller.ts:298`). `StreamLifecycle` has it (`retry.stray`) and shows that
  it does no harm: a stray timer that fires finds a generation, or nobody listening, or opens what was
  due (`RestsUnheard`, `NeverStranded`);
* a first listener that subscribes in the microtask between the end of `restart()`'s
  task and the clearing of `restartTask` finds a restart running and would not be read
  for until the next `subscribe()`. Only code that runs in a promise callback of exactly that
  turn could; the model makes the two one step;
* a second session that waits in `flushTransientRestarts` leads to one restart more than
  needed;
* without a request id in the rows an attempt may take the row of another attempt with the
  same text (`findNewQueuedInput`); `profile.correlates` models both adapters;
* a surface released while it shows nothing keeps its entry in `blockedSurfaces`
  (`session-watch-coordinator.ts:432`);
* `ControlDelivery` pauses after its retry ladder and is pumped only by later traffic
  (`control-delivery.ts:156`), as its comment says;
* a disconnect during `attach` may be followed by a stale `connected` snapshot
  (`connection-assembly.ts:674`); the coordinator publishes the right one afterwards.

## 7. Abstractions, and what is not modelled

What the models assume, beside what section 2 says of each:

* `Connection`: listeners and observers do not throw; discovery, probing and location
  are their outcomes.
* `StreamLifecycle`: the chunks of one session; delays without lengths.
* `SessionFollow`: one session; an event that ends or revives the session is not lost
  with the link (nothing in the policy would notice); reads of the directory that are under way when the
  link is lost fail; an archived session sends nothing.
* `PromptQueue`: one session, one prompt; reactions to an identity promise run at once; a
  follow stream delivers only the state it was opened at.
* `ControlDelivery`: one surface; approvals and questions are one kind; no entries that replace
  each other by key; a post that reports failure has not arrived; a disconnect waits until
  `attach` has ended; the lost and restored link of one backend is left out. `replayEvents()` also
  replays `session.subscribed`. That of the alpha adapters says `controlBaseline: false`
  (`versions/alpha/transport.ts:973`) and leaves the Webview's interactions alone. That of the v1
  mux makes the reducer clear the interactions of its session (`host-message-reducers.ts:387-402`); this is not
  modelled, so `FactsKnown` and finding 5 are statements about the alpha adapters.

Not modelled, and why:

* *Transcript queues* (`bounded-event-queue.ts`, transcript windows), job follow and process
  trees: planned below.
* *Timeline reducer*: sequential and made of data; its hard part, the order in which it receives
  events, is what `StreamDelivery` promises.
* *Transports and the remote mux*: they are the environment of the stream models, which
  let a stream end, stall or be cut at any point.
* *Checkpoints, change tracking, temporary workspaces*: dominated by what the file system
  and git do.
* *Installers, configuration, localisation, UI*: input and output.

This is a repository of 145 000 lines of implementation, most of it a React Webview, message
schemas, protocol adapters for several host versions, reducers and command wiring. The
models cover the components in which several actors share state across awaits. They will stay a
small share of the lines, whatever is added, because the rest has no behaviour that a model of
states and steps would say more about than its unit tests do.

## 8. Plan

1. Refinements that say what the coordinator promises its clients (one shared connection, attached
   and released) and what the router promises a surface (one terminal response).
2. A composition of `Connection` with `ControlDelivery` (what `attach` and a disconnect
   that overlap publish).
3. The transcript queue: lanes, bounds and invalidation, with the window of a surface as its
   consumer.
4. Job follow (`jobs-follow` against a list that pages and a process that exits).
