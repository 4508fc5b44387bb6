--------------------------- MODULE ControlDelivery ---------------------------
(***************************************************************************)
(* How one surface learns of the connection and of what the user is asked. *)
(*   apps/extension/src/view/control-delivery.ts                           *)
(*   apps/extension/src/composition/host-event-pipeline.ts                 *)
(*   apps/extension/src/composition/request-handler.ts     (app.ready)     *)
(*   packages/application/src/services/backend-service.ts                  *)
(*   apps/webview/src/app/store/host-event-subscription.ts                 *)
(*   apps/webview/src/app/store/host-message-reducers.ts                   *)
(*                                                                         *)
(* Connection snapshots and interactions (permissions and questions, one   *)
(* kind stands for both) pass through a bounded mailbox that has one frame *)
(* under way at a time.  Entries with a key, which replace each other, and *)
(* the lost and restored link of one backend are left out.  So are the     *)
(* session.subscribed events replayEvents() replays too: those of the      *)
(* alpha adapters (controlBaseline false, versions/alpha/transport.ts:973) *)
(* leave the interactions of the Webview alone.  The v1 mux, whose         *)
(* session.subscribed clears those of its session (host-message-           *)
(* reducers.ts:387-402), is not modelled.  A post that reports failure has *)
(* not reached the Webview.  What is posted does, unless the Webview is    *)
(* replaced first.  eventEpoch and surfaceEpochs change only together with *)
(* reset() and forget(): the mailbox is empty then, so of an entry's       *)
(* currency the backend is left.                                           *)
(***************************************************************************)
EXTENDS Naturals, Sequences, FiniteSetsExt

CONSTANTS
  Prompts,      \* what one backend may ask the user
  MaxPending,   \* maxPending
  Retries,      \* length of the retry ladder
  MaxConnects,  \* bound: connections tried
  MaxReloads,   \* bound: Webviews replaced
  MaxFailures,  \* bound: posts that fail
  NoFrame

ASSUME DeliveryAssumption ==
  MaxPending \in Nat \ {0} /\ Retries \in Nat /\ MaxConnects \in Nat

VARIABLES
  host,     \* coordinator, backendService and eventBackend
  mailbox,  \* ControlDelivery's Surface
  wire,     \* frames posted and not taken yet
  view,     \* the Webview's store
  ready,    \* the two app.ready requests a Webview may have under way
  spent     \* connections, reloads and failures so far

deliveryVars == <<host, mailbox, wire, view, ready, spent>>

\* state: what the coordinator published.  live: the backend it connected last.
\* bound: backendService.backend.  source: eventBackend.  replay: the
\* interactions backendService holds for replayEvents(); asked: those there were.
\* Backends are numbered from 1.
States == {"idle", "starting", "connected", "stopping"}

\* An entry of the mailbox.  fenced: its isCurrent() asks for the backend.
\* awaited: the request that waits for its receipt.
Requests == {"full", "snapshotOnly"}
Entry(kind, state, of, prompt, fenced, awaited) ==
  [kind |-> kind, state |-> state, of |-> of, prompt |-> prompt, fenced |-> fenced,
   awaited |-> awaited]
\* What an entry may say; the active frame.
Messages ==
  [kind : {"resync", "snapshot", "asks", "settled"}, state : States, of : Nat,
   prompt : Prompts \cup {NoFrame}, fenced : BOOLEAN, awaited : Requests \cup {"nobody"}]
Frames ==
  [entry : Messages, phase : {"scheduled", "posting", "posted"},
   ack : {"none", "sent", "taken"}]

ASSUME NoFrameAssumption == NoFrame \notin Frames

Resync == Entry("resync", "idle", 0, NoFrame, FALSE, "nobody")
Snapshot(h, awaited) ==
  Entry("snapshot", h.state, IF h.state = "connected" THEN h.live ELSE 0, NoFrame, FALSE,
        awaited)
Asks(b, p, fenced, awaited) == Entry("asks", "connected", b, p, fenced, awaited)
Settled(b, p) == Entry("settled", "connected", b, p, TRUE, "nobody")

\* rest: retryAfter is unset, in the future, or past.
Forgotten ==
  [pending |-> <<>>, active |-> NoFrame, attempts |-> 0, timer |-> FALSE, rest |-> "none"]
NotAsked == [phase |-> "none", list |-> {}]
NewView == [listening |-> FALSE, state |-> "idle", of |-> 0, prompts |-> {}, rerun |-> FALSE]

Starts ==
  /\ host = [state |-> "idle", live |-> 0, bound |-> 0, source |-> 0, replay |-> {},
             asked |-> {}]
  /\ mailbox = Forgotten /\ wire = <<>> /\ view = NewView
  /\ ready = [full |-> [NotAsked EXCEPT !.phase = "asked"], snapshotOnly |-> NotAsked]

DeliveryInit == Starts /\ spent = [connects |-> 0, reloads |-> 0, failures |-> 0]

-----------------------------------------------------------------------------
(* The mailbox. *)

Current(e, bound) == e.fenced => e.of = bound

Pump(m, bound) ==
  LET current == {i \in DOMAIN m.pending : Current(m.pending[i], bound)} IN
  CASE m.active # NoFrame \/ m.timer \/ m.rest = "pause" -> m
    [] OTHER ->
         IF current = {} THEN [m EXCEPT !.pending = <<>>]
         ELSE [m EXCEPT !.pending = SubSeq(@, Min(current) + 1, Len(@)),
                        !.active = [entry |-> m.pending[Min(current)],
                                    phase |-> "scheduled", ack |-> "none"]]

\* An overflow drops everything that waits, the new entry as well.
EnqueueBug(m, e, bound) ==
  IF Len(m.pending) < MaxPending
  THEN Pump([m EXCEPT !.pending = Append(@, e)], bound)
  ELSE m
Enqueue(m, e, bound) ==
  IF Len(m.pending) < MaxPending
  THEN Pump([m EXCEPT !.pending = Append(@, e)], bound)
  ELSE Pump([m EXCEPT !.pending = <<Resync>>], bound)

\* enqueue() for a surface that is ready; another one has no mailbox.
Posted(m, e, bound) == IF view.listening THEN Enqueue(m, e, bound) ELSE m

CompleteBug(m, bound) ==
  IF m.active.phase = "posted" /\ m.active.ack = "taken"
  THEN [m EXCEPT !.active = NoFrame, !.attempts = 0, !.rest = "none"]
  ELSE m
Complete(m, bound) ==
  IF m.active.phase = "posted" /\ m.active.ack = "taken"
  THEN Pump([m EXCEPT !.active = NoFrame, !.attempts = 0, !.rest = "none"], bound)
  ELSE m

\* The receipt says false, and the entry is tried again.
Failed(m) ==
  [m EXCEPT !.pending = <<[m.active.entry EXCEPT !.awaited = "nobody"]>> \o @,
            !.active = NoFrame,
            !.attempts = IF @ < Retries THEN @ + 1 ELSE 0,
            !.timer = m.attempts < Retries,
            !.rest = IF m.attempts < Retries THEN @ ELSE "pause"]

DisownedBug(w) == w
\* What is on the wire is no longer the active frame.
Disowned(w) == [i \in DOMAIN w |-> [w[i] EXCEPT !.mine = FALSE]]

\* The receipt a request waits for is still open.
Awaits(r) ==
  \/ \E i \in DOMAIN mailbox.pending : mailbox.pending[i].awaited = r
  \/ mailbox.active # NoFrame /\ mailbox.active.entry.awaited = r

-----------------------------------------------------------------------------
(* The connection, and what the backend asks. *)

\* publishState(): whatever is not connected resets the mailbox.
Publish(h, m, w) ==
  LET kept == h.state = "connected" IN
  /\ host' = IF kept THEN h ELSE [h EXCEPT !.source = 0]
  /\ mailbox' = Posted(IF kept THEN m ELSE Forgotten, Snapshot(h, "nobody"), h.bound)
  /\ wire' = IF kept THEN w ELSE Disowned(w)
  /\ UNCHANGED <<view, ready>>

Connect ==
  /\ host.state = "idle" /\ spent.connects < MaxConnects
  /\ spent' = [spent EXCEPT !.connects = @ + 1]
  /\ Publish([host EXCEPT !.state = "starting"], mailbox, wire)
ConnectFails ==
  /\ host.state = "starting"
  /\ Publish([host EXCEPT !.state = "idle"], mailbox, wire)
  /\ UNCHANGED spent
Connected ==
  /\ host.state = "starting"
  /\ Publish([host EXCEPT !.state = "connected", !.live = @ + 1], mailbox, wire)
  /\ UNCHANGED spent

\* BackendService.attach(), and the second publishState() of connect().
AttachBackend ==
  /\ host.state = "connected" /\ host.bound # host.live
  /\ Publish([host EXCEPT !.bound = host.live, !.asked = {}, !.replay = {}], mailbox, wire)
  /\ UNCHANGED spent

Disconnect ==
  /\ host.state = "connected" /\ host.bound = host.live
  /\ Publish([host EXCEPT !.state = "stopping"], mailbox, wire)
  /\ UNCHANGED spent
Disconnected ==
  /\ host.state = "stopping"
  /\ Publish([host EXCEPT !.state = "idle"], mailbox, wire)
  /\ UNCHANGED spent

\* Until it is closed, a backend that is being stopped still speaks.
Speaks == host.state \in {"connected", "stopping"} /\ host.bound = host.live /\ host.bound # 0

\* postBackendEvent(): the first event of a backend resets the mailbox.
BackendEvent(h, e) ==
  LET first == h.source # h.bound IN
  /\ Speaks
  /\ host' = [h EXCEPT !.source = h.bound]
  /\ mailbox' = Posted(IF first THEN Forgotten ELSE mailbox, e, h.bound)
  /\ wire' = IF first THEN Disowned(wire) ELSE wire
  /\ UNCHANGED <<view, ready, spent>>

HostAsks(p) ==
  /\ p \notin host.asked
  /\ BackendEvent([host EXCEPT !.asked = @ \cup {p}, !.replay = @ \cup {p}],
                  Asks(host.bound, p, TRUE, "nobody"))
HostSettles(p) ==
  /\ p \in host.replay
  /\ BackendEvent([host EXCEPT !.replay = @ \ {p}], Settled(host.bound, p))

-----------------------------------------------------------------------------
(* The frame under way. *)

\* The microtask of pump().
PostFrame ==
  /\ mailbox.active # NoFrame /\ mailbox.active.phase = "scheduled"
  /\ IF Current(mailbox.active.entry, host.bound)
     THEN /\ mailbox' = [mailbox EXCEPT !.active.phase = "posting"]
          /\ wire' = Append(wire, [entry |-> mailbox.active.entry, mine |-> TRUE])
     ELSE /\ mailbox' = Complete([mailbox EXCEPT !.active.phase = "posted",
                                                 !.active.ack = "taken"], host.bound)
          /\ UNCHANGED wire
  /\ UNCHANGED <<host, view, ready, spent>>

PostSucceeds ==
  /\ mailbox.active # NoFrame /\ mailbox.active.phase = "posting"
  /\ mailbox' = Complete([mailbox EXCEPT !.active.phase = "posted"], host.bound)
  /\ UNCHANGED <<host, wire, view, ready, spent>>

PostFails ==
  /\ mailbox.active # NoFrame /\ mailbox.active.phase = "scheduled"
  /\ Current(mailbox.active.entry, host.bound)
  /\ spent.failures < MaxFailures /\ spent' = [spent EXCEPT !.failures = @ + 1]
  /\ mailbox' = Failed(mailbox)
  /\ UNCHANGED <<host, wire, view, ready>>

RetryTimerFires ==
  /\ mailbox.timer
  /\ mailbox' = Pump([mailbox EXCEPT !.timer = FALSE], host.bound)
  /\ UNCHANGED <<host, wire, view, ready, spent>>

\* The pause is over; only later traffic pumps.
RestEnds ==
  /\ mailbox.rest = "pause"
  /\ mailbox' = [mailbox EXCEPT !.rest = "over"]
  /\ UNCHANGED <<host, wire, view, ready, spent>>

AckArrives ==
  /\ mailbox.active # NoFrame /\ mailbox.active.ack = "sent"
  /\ mailbox' = Complete([mailbox EXCEPT !.active.ack = "taken"], host.bound)
  /\ UNCHANGED <<host, wire, view, ready, spent>>

-----------------------------------------------------------------------------
(* The Webview. *)

\* Only leaving a connection clears what is shown.
TakeSnapshot(e) ==
  [view EXCEPT !.state = e.state, !.of = e.of,
     !.prompts = IF view.state = "connected" /\ (e.state # "connected" \/ e.of # view.of)
                 THEN {} ELSE @]

\* recoverGlobalState(): one recovery at a time, and another after it.
TakeResync ==
  IF ready.snapshotOnly.phase = "none"
  THEN /\ ready' = [ready EXCEPT !.snapshotOnly.phase = "asked"] /\ UNCHANGED view
  ELSE /\ view' = [view EXCEPT !.rerun = TRUE] /\ UNCHANGED ready

ViewTakes ==
  LET e == Head(wire).entry IN
  /\ wire # <<>> /\ wire' = Tail(wire)
  /\ mailbox' = IF Head(wire).mine THEN [mailbox EXCEPT !.active.ack = "sent"] ELSE mailbox
  /\ IF e.kind = "resync" THEN TakeResync
     ELSE /\ view' = CASE e.kind = "snapshot" -> TakeSnapshot(e)
                       [] e.kind = "asks" -> [view EXCEPT !.prompts = @ \cup {<<e.of, e.prompt>>}]
                       [] e.kind = "settled" -> [view EXCEPT !.prompts = @ \ {<<e.of, e.prompt>>}]
          /\ UNCHANGED ready
  /\ UNCHANGED <<host, spent>>

\* The Webview is replaced: its requests are aborted, its mailbox forgotten.
Reload ==
  /\ spent.reloads < MaxReloads /\ spent' = [spent EXCEPT !.reloads = @ + 1]
  /\ view' = NewView /\ wire' = <<>> /\ mailbox' = Forgotten
  /\ ready' = [full |-> [NotAsked EXCEPT !.phase = "asked"], snapshotOnly |-> NotAsked]
  /\ UNCHANGED host

-----------------------------------------------------------------------------
(* app.ready. *)

Announce(r, m) ==
  /\ mailbox' = Enqueue(m, Snapshot(host, r), host.bound)
  /\ ready' = [ready EXCEPT ![r].phase = IF host.state = "connected" THEN "snapshot" ELSE "said"]

\* It forgets the mailbox; a recovery announces at once, the first request of a
\* Webview waits for a connection.
ReadyArrives(r) ==
  /\ ready[r].phase = "asked"
  /\ view' = [view EXCEPT !.listening = TRUE]
  /\ wire' = Disowned(wire)
  /\ IF r = "snapshotOnly" THEN Announce(r, Forgotten)
     ELSE /\ mailbox' = Forgotten
          /\ ready' = [ready EXCEPT ![r].phase = "connecting"]
  /\ UNCHANGED <<host, spent>>

ReadyProceeds ==
  /\ ready.full.phase = "connecting" /\ host.state = "connected"
  /\ Announce("full", mailbox)
  /\ UNCHANGED <<host, wire, view, spent>>

\* The response: a recovery that was asked for again runs again.
Answered(r) ==
  LET again == r = "snapshotOnly" /\ view.rerun IN
  /\ ready' = [ready EXCEPT ![r] = IF again THEN [NotAsked EXCEPT !.phase = "asked"]
                                   ELSE NotAsked]
  /\ view' = IF again THEN [view EXCEPT !.rerun = FALSE] ELSE view

ReadyFails ==
  /\ ready.full.phase = "connecting" /\ host.state \in {"idle", "stopping"}
  /\ Answered("full")
  /\ UNCHANGED <<host, mailbox, wire, spent>>

\* The loop over replayEvents(): one interaction, or the end.
ReplayFrom(r, list) ==
  IF list = {} THEN Answered(r) /\ UNCHANGED mailbox
  ELSE \E q \in list :
         /\ mailbox' = Enqueue(mailbox, Asks(q[1], q[2], FALSE, r), host.bound)
         /\ ready' = [ready EXCEPT ![r] = [phase |-> "replay", list |-> list \ {q}]]
         /\ UNCHANGED view

Replayed == {<<host.bound, p>> : p \in host.replay}

\* The receipt of what was posted last has come, whatever it says.
ReadyContinues(r) ==
  /\ ~Awaits(r)
  /\ \/ ready[r].phase = "said" /\ Answered(r) /\ UNCHANGED mailbox
     \/ ready[r].phase = "snapshot" /\ ReplayFrom(r, Replayed)
     \/ ready[r].phase = "replay" /\ ReplayFrom(r, ready[r].list)
  /\ UNCHANGED <<host, wire, spent>>

-----------------------------------------------------------------------------

\* A frame's microtask comes before the next event of the extension's loop, not
\* before the other microtasks.
Microtasks ==
  \/ PostFrame \/ AttachBackend \/ ReadyProceeds
  \/ \E r \in Requests : ReadyContinues(r)

Calm == mailbox.active # NoFrame => mailbox.active.phase # "scheduled"

\* What the extension, the Webview and the coordinator do by themselves.
Events ==
  \/ ConnectFails \/ Connected \/ Disconnected \/ ReadyFails
  \/ PostSucceeds \/ RetryTimerFires \/ RestEnds \/ AckArrives
  \/ \E r \in Requests : ReadyArrives(r)

Proceeds == Microtasks \/ ViewTakes \/ (Calm /\ Events)

DeliveryNext ==
  \/ Microtasks \/ ViewTakes \/ PostFails
  \/ /\ Calm
     /\ \/ Events \/ Connect \/ Disconnect \/ Reload
        \/ \E p \in Prompts : HostAsks(p) \/ HostSettles(p)

DeliverySpec == DeliveryInit /\ [][DeliveryNext]_deliveryVars

-----------------------------------------------------------------------------
(* Properties. *)

Phases == {"none", "asked", "connecting", "said", "snapshot", "replay"}

\* The variables have their types; and the mailbox has at most one frame under
\* way: the one on the wire that its acknowledgement will match.
DeliveryTypeOK ==
  /\ host.state \in States /\ host.replay \subseteq host.asked /\ host.asked \subseteq Prompts
  /\ Len(mailbox.pending) <= MaxPending + 1 /\ mailbox.attempts \in 0..Retries
  /\ view.prompts \subseteq (1..host.live) \X Prompts
  /\ \A r \in Requests : ready[r].phase \in Phases
  /\ \A i \in DOMAIN wire :
       wire[i].mine =>
         /\ mailbox.active # NoFrame /\ mailbox.active.ack = "none"
         /\ mailbox.active.entry = wire[i].entry
         /\ \A j \in DOMAIN wire : wire[j].mine => j = i

\* Nothing is under way to the Webview, and it waits for no answer.
Quiet ==
  /\ view.listening /\ wire = <<>> /\ mailbox.active = NoFrame /\ mailbox.pending = <<>>
  /\ \A r \in Requests : ready[r].phase = "none"

Serving == host.state = "connected" /\ host.bound = host.live

\* No interaction is lost: once all is quiet, a Webview that shows the present
\* connection shows everything the user is asked, through failed posts,
\* overflows, recoveries and replaced Webviews.
FactsKnown ==
  Quiet /\ Serving /\ view.state = "connected" /\ view.of = host.live =>
    Replayed \subseteq view.prompts

\* Failed posts have used up the retries.  What was queued during the pause
\* that followed waits for later traffic, and so does a request for its receipt.
GaveUp ==
  /\ mailbox.rest = "over" /\ mailbox.pending # <<>> /\ mailbox.active = NoFrame
  /\ ~mailbox.timer

\* Whatever overflows, resets and recoveries did to receipts and retries, mailbox
\* and requests come to rest: nothing waits for ever, nothing recovers for ever.
DeliverySettles == <>[](Quiet \/ GaveUp)

\* connection-assembly.ts: "app.ready must always receive a fresh authoritative
\* snapshot even when the initial publish had no recipient".
ViewIsCurrent ==
  Quiet /\ Serving => view.state = "connected" /\ view.of = host.live

\* backend-service.ts: "a settled approval or question can no longer be
\* answered, so leaving one here shows a dead prompt after every reload".
PromptsAreOpen ==
  Quiet /\ Serving => view.prompts \subseteq Replayed

\* The state behind DeliverySettles: what is not at rest has a step ahead.  The frame under
\* way is to be posted, on the wire or acknowledged, what is queued waits for it or for a
\* timer unless the retries are used up, a recovery to be run again is running, and a
\* Webview that is not served yet has asked to be.
NothingIsStuck ==
  /\ mailbox.active # NoFrame =>
       \/ mailbox.active.phase \in {"scheduled", "posting"}
       \/ mailbox.active.ack = "sent"
       \/ \E i \in DOMAIN wire : wire[i].mine
  /\ mailbox.active = NoFrame /\ mailbox.pending # <<>> =>
       mailbox.timer \/ mailbox.rest = "pause" \/ GaveUp
  /\ view.rerun => ready.snapshotOnly.phase # "none"
  /\ ~view.listening => ready.full.phase = "asked"
=============================================================================
