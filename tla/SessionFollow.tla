---------------------------- MODULE SessionFollow ----------------------------
(***************************************************************************)
(* Which streams of a session are open: the policy of the extension and    *)
(* the adapter that opens and closes them.                                 *)
(*   apps/extension/src/backend/session-watch-coordinator.ts               *)
(*   packages/dsh-adapter/src/versions/alpha/events.ts                     *)
(*                                                                         *)
(* One session; a surface may also display another one.  The host's events *)
(* travel in order over the host-wide stream, which may be lost; what the  *)
(* directory and the job list answer is what the host knew some time       *)
(* before.  Everything the extension does with one event, call or answer   *)
(* is one step, as it is in the code.  One user interaction stands for all *)
(* kinds of them, and a session has background jobs or has none.           *)
(***************************************************************************)
EXTENDS Naturals, Sequences

CONSTANTS
  Panels,     \* the surfaces
  WireSize,   \* bound: events of the host under way
  NoEntry     \* records holds nothing for the session

ASSUME WireSizeAssumption == WireSize \in Nat

VARIABLES
  host,    \* the session at the host: exists, runs a turn, asks the user, has jobs
  link,    \* the host-wide stream is up
  wire,    \* the events it carries
  watch,   \* the policy and the adapter's streams
  seed     \* the directory read of seed(), and what its answer holds

followVars == <<host, link, wire, watch, seed>>

Hosts == [exists : BOOLEAN, runs : BOOLEAN, asks : BOOLEAN, jobs : BOOLEAN]
Events == {"running", "idle", "asks", "answered", "added", "removed"}

\* SessionWatchRecord.  timer: unwatchTimer is set.
Entries == [by : SUBSET Panels, status : {"unknown", "running", "idle"},
            asks : BOOLEAN, jobs : BOOLEAN, intent : BOOLEAN, rowsOnly : BOOLEAN,
            timer : BOOLEAN]
NewEntry == [by |-> {}, status |-> "unknown", asks |-> FALSE, jobs |-> FALSE,
             intent |-> FALSE, rowsOnly |-> FALSE, timer |-> FALSE]

\* follow, rows: sessions and jobSessions have the session.  opened: the
\* preview its stream was opened with; turning: previewTransitions has it.
NoStreams == [follow |-> FALSE, announced |-> FALSE, rows |-> FALSE, told |-> FALSE,
              preview |-> "unset", opened |-> FALSE, turning |-> FALSE, shut |-> FALSE]

ASSUME NoEntryAssumption == NoEntry \notin Entries

NoSeed == [phase |-> "none", listed |-> FALSE, runs |-> FALSE, jobs |-> FALSE,
           statusChanged |-> FALSE, jobsChanged |-> FALSE, complete |-> FALSE]

FollowInit ==
  /\ host = [exists |-> TRUE, runs |-> FALSE, asks |-> FALSE, jobs |-> FALSE]
  /\ link = FALSE /\ wire = <<>> /\ seed = NoSeed
  /\ watch = [shows |-> [p \in Panels |-> "nothing"], visible |-> {}, blocked |-> {},
              attached |-> FALSE, removed |-> FALSE, archived |-> FALSE,
              entry |-> NoEntry, streams |-> NoStreams]

-----------------------------------------------------------------------------
(* The adapter: AlphaEventSource. *)

Enabled(a) == a.preview # "off"

WatchSession(a) ==
  IF a.shut THEN a
  ELSE [a EXCEPT !.rows = TRUE, !.told = a.told /\ a.rows,
                 !.follow = TRUE, !.announced = a.announced /\ a.follow,
                 !.opened = IF a.follow THEN a.opened ELSE Enabled(a)]

UnwatchSessionBug(a, keepJobRows) ==
  [a EXCEPT !.follow = FALSE, !.announced = FALSE, !.preview = "unset",
            !.turning = FALSE, !.rows = FALSE]
UnwatchSession(a, keepJobRows) ==
  [a EXCEPT !.follow = FALSE, !.announced = FALSE, !.preview = "unset",
            !.turning = FALSE, !.rows = a.rows /\ keepJobRows]

SetSessionPreviewBug(a, on) == [a EXCEPT !.preview = IF on THEN "on" ELSE "off"]
SetSessionPreview(a, on) ==
  [a EXCEPT !.preview = IF on THEN "on" ELSE "off",
            !.turning = a.turning \/ (Enabled(a) # on /\ a.follow)]

-----------------------------------------------------------------------------
(* The policy: createSessionWatchController. *)

Followed(w) ==
  /\ ~w.removed /\ ~w.archived /\ w.entry # NoEntry
  /\ w.entry.by # {} \/ w.entry.status = "running" \/ w.entry.asks

Recorded(w) == IF w.entry = NoEntry THEN [w EXCEPT !.entry = NewEntry] ELSE w

Watch(w) ==
  IF ~w.attached \/ w.removed \/ w.archived THEN w
  ELSE [w EXCEPT !.entry.intent = TRUE, !.entry.rowsOnly = FALSE,
                 !.streams = IF w.entry.rowsOnly \/ ~w.entry.intent
                             THEN WatchSession(@) ELSE @]

Release(w) ==
  LET closed == [w EXCEPT !.streams =
                   IF w.attached THEN UnwatchSession(@, w.entry.jobs) ELSE @] IN
  IF w.entry.jobs
  THEN [closed EXCEPT !.entry.intent = TRUE, !.entry.rowsOnly = TRUE]
  ELSE [closed EXCEPT !.entry = NoEntry]

Previewed(w) ==
  IF w.attached
  THEN [w EXCEPT !.streams = SetSessionPreview(@, w.entry.by \ w.blocked # {})]
  ELSE w

CancelTimer(w) == [w EXCEPT !.entry.timer = FALSE]

EvaluateBug(w) ==
  IF w.entry = NoEntry THEN w
  ELSE LET v == Previewed(w) IN
       CASE Followed(v) -> Watch(v)
         [] ~Followed(v) /\ v.entry.rowsOnly ->
              IF v.entry.jobs THEN CancelTimer(v) ELSE Release(CancelTimer(v))
         [] OTHER -> v
Evaluate(w) ==
  IF w.entry = NoEntry THEN w
  ELSE LET v == Previewed(w) IN
       CASE Followed(v) -> Watch(CancelTimer(v))
         [] ~Followed(v) /\ v.entry.rowsOnly ->
              IF v.entry.jobs THEN CancelTimer(v) ELSE Release(CancelTimer(v))
         [] OTHER -> [v EXCEPT !.entry.timer = @ \/ (v.attached /\ v.entry.intent)]

UndisplayedBug(w) ==
  LET showing == {p \in Panels : w.shows[p] = "session"} IN
  [w EXCEPT !.shows = [p \in Panels |-> IF p \in showing THEN "nothing" ELSE @[p]]]
\* What is shown is forgotten where a session goes for good.
Undisplayed(w) ==
  LET showing == {p \in Panels : w.shows[p] = "session"} IN
  [w EXCEPT !.shows = [p \in Panels |-> IF p \in showing THEN "nothing" ELSE @[p]],
            !.blocked = @ \ showing, !.visible = @ \ showing]

\* acceptEvent() for the events of the host-wide stream.
StatusEvent(w, status) ==
  IF w.removed \/ w.archived \/ (w.entry = NoEntry /\ status # "running") THEN w
  ELSE Evaluate([Recorded(w) EXCEPT !.entry.status = status])

AsksEvent(w) ==
  IF w.removed \/ w.archived THEN w
  ELSE Evaluate([Recorded(w) EXCEPT !.entry.asks = TRUE])

AnsweredEvent(w) ==
  IF w.entry = NoEntry \/ ~w.entry.asks THEN w
  ELSE Evaluate([w EXCEPT !.entry.asks = FALSE])

AddedEvent(w) == Evaluate([w EXCEPT !.removed = FALSE])

\* The adapter, which observes an event first, closes the streams, and so does
\* the policy.
RemovedEvent(w) ==
  Undisplayed([w EXCEPT !.removed = TRUE, !.entry = NoEntry,
                        !.streams = [UnwatchSession(@, FALSE) EXCEPT !.shut = FALSE]])

HostEvent(w, event) ==
  CASE event \in {"running", "idle"} -> StatusEvent(w, event)
    [] event = "asks" -> AsksEvent(w)
    [] event = "answered" -> AnsweredEvent(w)
    [] event = "added" -> AddedEvent(w)
    [] event = "removed" -> RemovedEvent(w)

\* and for those of other streams.
SubscribedEvent(w) ==
  IF w.removed \/ w.archived THEN w
  ELSE Evaluate([Recorded(w) EXCEPT !.entry.intent = TRUE, !.entry.rowsOnly = FALSE])

JobsEvent(w, running) ==
  IF w.removed \/ w.archived \/ (~running /\ w.entry = NoEntry) THEN w
  ELSE LET v == [Recorded(w) EXCEPT !.entry.jobs = running] IN
       Evaluate(IF running /\ ~v.entry.intent THEN Watch(v) ELSE v)

ArchivedEvent(w) ==
  Undisplayed([w EXCEPT !.archived = TRUE, !.entry = NoEntry,
                        !.streams = [UnwatchSession(@, FALSE) EXCEPT !.shut = TRUE]])

UnarchivedEvent(w) ==
  Evaluate([w EXCEPT !.archived = FALSE, !.streams.shut = FALSE])

LostEvent(w) ==
  IF w.entry = NoEntry THEN w ELSE Evaluate([w EXCEPT !.entry.asks = FALSE])

-----------------------------------------------------------------------------
(* The surfaces. *)

ByPanel(w, p, sees) ==
  IF sees THEN [Recorded(w) EXCEPT !.entry.by = @ \cup {p}]
  ELSE IF w.entry = NoEntry THEN w ELSE [w EXCEPT !.entry.by = @ \ {p}]

SurfaceDisplaysSession(p, session, sees) ==
  LET w == IF session = "session" THEN [watch EXCEPT !.removed = FALSE] ELSE watch
      same == w.shows[p] = session /\ (p \in w.visible) = sees
      v == [w EXCEPT !.shows[p] = session,
                     !.visible = IF sees THEN @ \cup {p} ELSE @ \ {p}]
  IN /\ watch' = IF same THEN w
                 ELSE IF session = "session" THEN Evaluate(ByPanel(v, p, sees))
                 ELSE IF w.shows[p] = "session" THEN Evaluate(ByPanel(v, p, FALSE))
                 ELSE v
     /\ UNCHANGED <<host, link, wire, seed>>

SurfaceVisibilityChanged(p, sees) ==
  LET v == [watch EXCEPT !.visible = IF sees THEN @ \cup {p} ELSE @ \ {p}] IN
  /\ watch.shows[p] # "nothing"
  /\ watch' = IF watch.shows[p] = "session" THEN Evaluate(ByPanel(v, p, sees)) ELSE v
  /\ UNCHANGED <<host, link, wire, seed>>

SurfaceCapacityChanged(p, ready) ==
  LET v == [watch EXCEPT !.blocked = IF ready THEN @ \ {p} ELSE @ \cup {p}] IN
  /\ ready = (p \in watch.blocked)
  /\ watch' = IF watch.shows[p] = "session" THEN Evaluate(v) ELSE v
  /\ UNCHANGED <<host, link, wire, seed>>

SurfaceReleased(p) ==
  LET v == [watch EXCEPT !.shows[p] = "nothing", !.blocked = @ \ {p},
                         !.visible = @ \ {p}] IN
  /\ watch.shows[p] # "nothing"
  /\ watch' = IF watch.shows[p] = "session" THEN Evaluate(ByPanel(v, p, FALSE)) ELSE v
  /\ UNCHANGED <<host, link, wire, seed>>

-----------------------------------------------------------------------------
(* The backend comes and goes. *)

\* The panels that display the session for the user to see.
Seeing == {p \in watch.visible : watch.shows[p] = "session"}

Seeding == [NoSeed EXCEPT !.phase = "asked"]

\* A new adapter; the surfaces that display the session resume its streams.
Attach ==
  /\ ~watch.attached
  /\ watch' = Evaluate([watch EXCEPT !.attached = TRUE, !.removed = FALSE,
                          !.archived = FALSE, !.streams = NoStreams,
                          !.entry = IF Seeing = {} THEN NoEntry
                                    ELSE [NewEntry EXCEPT !.by = Seeing]])
  /\ link' = TRUE /\ wire' = IF host.asks THEN <<"asks">> ELSE <<>>
  /\ seed' = Seeding
  /\ UNCHANGED host

Detach ==
  /\ watch.attached
  /\ watch' = [watch EXCEPT !.attached = FALSE, !.removed = FALSE, !.archived = FALSE,
                            !.entry = NoEntry, !.streams = NoStreams]
  /\ link' = FALSE /\ wire' = <<>> /\ seed' = NoSeed
  /\ UNCHANGED host

\* The end and the rebirth of a session are not lost with the stream: nothing
\* in the policy would notice.
CatalogueUnderWay ==
  \E i \in DOMAIN wire : wire[i] \in {"added", "removed"}

LinkLost ==
  /\ watch.attached /\ link /\ ~CatalogueUnderWay
  /\ link' = FALSE /\ wire' = <<>> /\ seed' = NoSeed
  /\ watch' = LostEvent(watch)
  /\ UNCHANGED host

\* The host replays what it still asks the user.
LinkRestored ==
  /\ watch.attached /\ ~link
  /\ link' = TRUE /\ wire' = IF host.asks THEN <<"asks">> ELSE <<>>
  /\ seed' = Seeding
  /\ UNCHANGED <<host, watch>>

-----------------------------------------------------------------------------
(* The host, and what it sends. *)

Sends(event) ==
  /\ link => Len(wire) < WireSize
  /\ wire' = IF link THEN Append(wire, event) ELSE wire
  /\ UNCHANGED <<link, watch, seed>>

HostTurn ==
  /\ host.exists /\ ~watch.streams.shut
  /\ host' = [host EXCEPT !.runs = ~@]
  /\ Sends(IF host.runs THEN "idle" ELSE "running")

HostInteraction ==
  /\ host.exists /\ ~watch.streams.shut
  /\ host' = [host EXCEPT !.asks = ~@]
  /\ Sends(IF host.asks THEN "answered" ELSE "asks")

HostJobs ==
  /\ host.exists /\ host' = [host EXCEPT !.jobs = ~@]
  /\ watch' = [watch EXCEPT !.streams.told = FALSE]
  /\ UNCHANGED <<link, wire, seed>>

HostRemoves ==
  /\ host.exists /\ ~watch.streams.shut
  /\ watch.attached => link
  /\ host' = [exists |-> FALSE, runs |-> FALSE, asks |-> FALSE, jobs |-> FALSE]
  /\ Sends("removed")

\* An id is used again.
HostAdds ==
  /\ ~host.exists /\ host' = [host EXCEPT !.exists = TRUE]
  /\ watch.attached => link
  /\ Sends("added")

\* A session whose turn has ended is archived, or taken back.
HostArchives ==
  /\ watch.attached /\ host.exists /\ ~host.runs /\ ~host.asks /\ ~host.jobs
  /\ wire = <<>>
  /\ watch' = IF watch.archived THEN UnarchivedEvent(watch) ELSE ArchivedEvent(watch)
  /\ UNCHANGED <<host, link, wire, seed>>

-----------------------------------------------------------------------------
(* What arrives. *)

\* seedChanges is recorded while something may still look at it.
Seeds == seed.phase # "none"
Listing == seed.phase \in {"asked", "answered"}

EventArrives ==
  /\ wire # <<>> /\ wire' = Tail(wire)
  /\ watch' = HostEvent(watch, Head(wire))
  /\ seed' = [seed EXCEPT
       !.statusChanged = @ \/ /\ Listing
                              /\ \/ Head(wire) \in {"added", "removed"}
                                 \/ /\ Head(wire) \in {"running", "idle"}
                                    /\ ~watch.removed /\ ~watch.archived,
       !.jobsChanged = @ \/ (Seeds /\ Head(wire) = "removed")]
  /\ UNCHANGED <<host, link>>

\* The follow stream announces itself, after it was opened or opened again.
SubscribedArrives ==
  /\ watch.streams.follow /\ ~watch.streams.announced /\ host.exists
  /\ watch' = SubscribedEvent([watch EXCEPT !.streams.announced = TRUE])
  /\ UNCHANGED <<host, link, wire, seed>>

Reopened(a) == [a EXCEPT !.announced = FALSE, !.opened = Enabled(a)]

FollowReopens ==
  /\ watch.streams.follow
  /\ watch' = [watch EXCEPT !.streams = Reopened(@)]
  /\ UNCHANGED <<host, link, wire, seed>>

\* The microtask of setSessionPreview().
PreviewTurns ==
  /\ watch.streams.turning
  /\ watch' = [watch EXCEPT !.streams = [Reopened(@) EXCEPT !.turning = FALSE]]
  /\ UNCHANGED <<host, link, wire, seed>>

JobRowsArrive ==
  /\ watch.streams.rows /\ ~watch.streams.told
  /\ watch' = JobsEvent([watch EXCEPT !.streams.told = TRUE], host.jobs)
  /\ seed' = [seed EXCEPT !.jobsChanged = @ \/ (Seeds /\ ~watch.removed /\ ~watch.archived)]
  /\ UNCHANGED <<host, link, wire>>

\* A repository reads a session the extension has not heard the end of: the
\* adapter starts its streams unasked.
RepositoryReads ==
  /\ watch.attached /\ host.exists /\ ~watch.removed
  /\ watch' = [watch EXCEPT !.streams = WatchSession(@)]
  /\ UNCHANGED <<host, link, wire, seed>>

\* The delayed release.
UnwatchTimerFires ==
  /\ watch.entry # NoEntry /\ watch.entry.timer
  /\ LET w == CancelTimer(watch) IN
     watch' = IF Followed(w) THEN w ELSE Release(w)
  /\ UNCHANGED <<host, link, wire, seed>>

-----------------------------------------------------------------------------
(* seed(): the directory first, then the job list. *)

DirectoryAnswers ==
  /\ seed.phase = "asked" /\ link
  /\ seed' = [seed EXCEPT !.phase = "answered", !.listed = host.exists,
                          !.runs = host.runs]
  /\ UNCHANGED <<host, link, wire, watch>>

AcceptsBug(s) == s.listed
\* A status that changed since the read began is newer than its answer.
Accepts(s) == s.listed /\ ~watch.removed /\ ~watch.archived /\ ~s.statusChanged

ApplyDirectory ==
  /\ seed.phase = "answered"
  /\ watch' = IF Accepts(seed) /\ (seed.runs \/ watch.entry # NoEntry)
              THEN Evaluate([Recorded(watch) EXCEPT
                               !.entry.status = IF seed.runs THEN "running" ELSE "idle"])
              ELSE watch
  /\ seed' = IF seed.listed /\ ~watch.removed /\ ~watch.archived
             THEN [NoSeed EXCEPT !.phase = "jobsAsked", !.jobsChanged = seed.jobsChanged]
             ELSE [NoSeed EXCEPT !.complete = TRUE]
  /\ UNCHANGED <<host, link, wire>>

JobListAnswers ==
  /\ seed.phase = "jobsAsked" /\ link
  /\ seed' = [seed EXCEPT !.phase = "jobsAnswered", !.jobs = host.jobs]
  /\ UNCHANGED <<host, link, wire, watch>>

ApplyJobList ==
  /\ seed.phase = "jobsAnswered"
  /\ watch' = IF watch.removed \/ watch.archived \/ seed.jobsChanged THEN watch
              ELSE JobsEvent(watch, seed.jobs)
  /\ seed' = [NoSeed EXCEPT !.complete = TRUE]
  /\ UNCHANGED <<host, link, wire>>

\* Either read fails: the policy stays driven by events.
SeedFails ==
  /\ seed.phase \in {"asked", "answered", "jobsAsked", "jobsAnswered"}
  /\ seed' = [NoSeed EXCEPT !.complete = seed.phase \in {"jobsAsked", "jobsAnswered"}]
  /\ UNCHANGED <<host, link, wire, watch>>

FollowNext ==
  \/ \E p \in Panels, sees \in BOOLEAN :
       \/ \E session \in {"session", "other"} : SurfaceDisplaysSession(p, session, sees)
       \/ SurfaceVisibilityChanged(p, sees)
       \/ SurfaceCapacityChanged(p, sees)
  \/ \E p \in Panels : SurfaceReleased(p)
  \/ Attach \/ Detach \/ LinkLost \/ LinkRestored
  \/ HostTurn \/ HostInteraction \/ HostJobs \/ HostRemoves \/ HostAdds \/ HostArchives
  \/ EventArrives \/ SubscribedArrives \/ FollowReopens \/ PreviewTurns
  \/ JobRowsArrive \/ RepositoryReads \/ UnwatchTimerFires
  \/ DirectoryAnswers \/ ApplyDirectory \/ JobListAnswers \/ ApplyJobList \/ SeedFails

FollowSpec == FollowInit /\ [][FollowNext]_followVars

-----------------------------------------------------------------------------
(* Properties. *)

\* The variables have their types; a panel is visible only while it displays
\* something, and the record of the session counts those that display it.
FollowTypeOK ==
  /\ host \in Hosts /\ link \in BOOLEAN /\ wire \in Seq(Events)
  /\ watch.entry \in Entries \cup {NoEntry}
  /\ watch.shows \in [Panels -> {"session", "other", "nothing"}]
  /\ watch.blocked \subseteq Panels
  /\ watch.visible \subseteq {p \in Panels : watch.shows[p] # "nothing"}
  /\ watch.attached =>
       Seeing = IF watch.entry = NoEntry THEN {} ELSE watch.entry.by

\* What the user sees or must act on is streamed, and with a preview exactly if
\* a panel that displays it can take one, or the change to that is under way.
DemandIsStreamed ==
  watch.attached /\ Followed(watch) =>
    /\ watch.streams.follow /\ watch.streams.rows
    /\ watch.streams.turning \/ watch.streams.opened = (watch.entry.by \ watch.blocked # {})

\* Every announced stream nothing demands will be closed, also one that a
\* repository started: its delayed release is pending.
StreamsReclaimed ==
  watch.streams.announced /\ ~Followed(watch) =>
    watch.entry # NoEntry /\ watch.entry.timer

\* Job rows: while a released session is known to have jobs its Job stream is
\* open; that is all that is open of it.
JobRowsKept ==
  watch.entry # NoEntry /\ watch.attached =>
    /\ watch.entry.jobs => watch.streams.rows
    /\ watch.entry.rowsOnly => watch.entry.jobs /\ ~watch.streams.announced

\* Everything the host sent has arrived and seed() has had its answer.
Quiet == watch.attached /\ link /\ wire = <<>> /\ seed.phase = "none" /\ seed.complete

\* Once all is quiet the policy knows what the host knows, whatever order events
\* and answers came in.
PolicyIsCurrent ==
  Quiet /\ host.exists /\ ~watch.removed /\ ~watch.archived =>
    /\ host.runs <=> watch.entry # NoEntry /\ watch.entry.status = "running"
    /\ host.asks <=> watch.entry # NoEntry /\ watch.entry.asks
=============================================================================
