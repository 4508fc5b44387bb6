------------------------ MODULE SessionFollowProofs ------------------------
(***************************************************************************)
(* What SessionFollow promises, for every set of surfaces.                 *)
(*                                                                         *)
(* Each step is a composition of the policy's functions, most of which end *)
(* in Evaluate.  Consistent is what every function may rely on and must    *)
(* leave; Settled adds what Evaluate establishes.                          *)
(***************************************************************************)
EXTENDS SessionFollow, TLAPS

AdapterStreams ==
  [follow : BOOLEAN, announced : BOOLEAN, rows : BOOLEAN, told : BOOLEAN,
   preview : {"unset", "on", "off"}, opened : BOOLEAN, turning : BOOLEAN, shut : BOOLEAN]

Watches ==
  [shows : [Panels -> {"session", "other", "nothing"}], visible : SUBSET Panels,
   blocked : SUBSET Panels, attached : BOOLEAN, removed : BOOLEAN, archived : BOOLEAN,
   entry : Entries \cup {NoEntry}, streams : AdapterStreams]

\* The panels that display the session for the user to see.
SeeingIn(w) == {p \in w.visible : w.shows[p] = "session"}

\* The record counts the panels; a removed session is on none.
PanelsCounted(w) ==
  /\ \A p \in w.visible : w.shows[p] # "nothing"
  /\ w.removed => \A p \in Panels : w.shows[p] # "session"
  /\ w.attached => SeeingIn(w) = IF w.entry = NoEntry THEN {} ELSE w.entry.by

\* How the two streams go together.
StreamsPaired(a) ==
  /\ a.announced => a.follow
  /\ a.follow => a.rows /\ (a.turning \/ a.opened = Enabled(a))

\* Without a backend, and for a session that is gone, nothing is open or remembered.
NothingOpen(w) ==
  /\ ~w.streams.follow /\ ~w.streams.rows
  /\ w.entry # NoEntry => w.entry = [NewEntry EXCEPT !.by = w.entry.by]

\* What the record says of the streams.
RecordAgrees(w) ==
  /\ w.streams.announced => w.entry # NoEntry /\ w.entry.intent /\ ~w.entry.rowsOnly
  /\ w.entry # NoEntry =>
       /\ w.entry.rowsOnly => w.entry.intent
       /\ w.entry.intent \/ w.entry.jobs => w.streams.rows
       /\ w.entry.intent /\ ~w.entry.rowsOnly => w.streams.follow

Consistent(w) ==
  /\ w \in Watches /\ PanelsCounted(w)
  /\ w.streams.shut <=> w.archived
  /\ StreamsPaired(w.streams) /\ RecordAgrees(w)
  /\ ~w.attached \/ w.removed \/ w.archived => NothingOpen(w)

Settled(w) ==
  /\ Consistent(w)
  /\ w.entry # NoEntry => (w.entry.rowsOnly => w.entry.jobs)
  /\ w.attached /\ Followed(w) =>
       /\ w.streams.follow
       /\ Enabled(w.streams) = (w.entry.by \ w.blocked # {})
  /\ w.streams.announced /\ ~Followed(w) => w.entry.timer

SeedReads ==
  [phase : {"none", "asked", "answered", "jobsAsked", "jobsAnswered"}, listed : BOOLEAN,
   runs : BOOLEAN, jobs : BOOLEAN, statusChanged : BOOLEAN, jobsChanged : BOOLEAN,
   complete : BOOLEAN]

\* Without a backend nothing is read; an archived session sends nothing.
SourcesQuiet ==
  /\ ~watch.attached => wire = <<>> /\ ~link /\ seed.phase = "none"
  /\ watch.archived => wire = <<>> /\ host.exists /\ ~host.asks

FollowInv ==
  /\ host \in Hosts /\ link \in BOOLEAN /\ wire \in Seq(Events) /\ seed \in SeedReads
  /\ Settled(watch) /\ SourcesQuiet

-----------------------------------------------------------------------------
(* What the policy's functions keep. *)

\* What is settled has the properties of the policy.
LEMMA SettledIsWanted ==
  ASSUME Settled(watch)
  PROVE  DemandIsStreamed /\ StreamsReclaimed /\ JobRowsKept
BY DEF Settled, Consistent, StreamsPaired, RecordAgrees, DemandIsStreamed, StreamsReclaimed,
       JobRowsKept

\* A new record says nothing yet.
LEMMA RecordedConsistent ==
  ASSUME NEW w, Consistent(w)
  PROVE  /\ Consistent(Recorded(w)) /\ Recorded(w).entry # NoEntry
         /\ Recorded(w) = [w EXCEPT !.entry = Recorded(w).entry]
<1> USE NoEntryAssumption DEF Recorded
<1>1. CASE w.entry # NoEntry
  BY <1>1 DEF Consistent, Watches
<1>2. CASE w.entry = NoEntry
  <2>1. NewEntry \in Entries
    BY DEF NewEntry, Entries
  <2>2. [w EXCEPT !.entry = NewEntry] \in Watches
    BY <2>1 DEF Consistent, Watches
  <2>3. Recorded(w) = [w EXCEPT !.entry = NewEntry] /\ w \in Watches
    BY <1>2 DEF Consistent
  <2>4. NewEntry = [NewEntry EXCEPT !.by = NewEntry.by]
    BY DEF NewEntry
  <2> HIDE DEF Recorded
  <2>5. /\ Recorded(w).entry = NewEntry /\ Recorded(w).streams = w.streams
        /\ Recorded(w).shows = w.shows /\ Recorded(w).visible = w.visible
        /\ Recorded(w).attached = w.attached /\ Recorded(w).removed = w.removed
        /\ Recorded(w).archived = w.archived
    BY <2>3 DEF Watches
  <2>6. NewEntry.by = {} /\ ~NewEntry.intent /\ ~NewEntry.rowsOnly /\ ~NewEntry.jobs
    BY DEF NewEntry
  <2>7. PanelsCounted(Recorded(w))
    BY <1>2, <2>1, <2>5, <2>6 DEF Consistent, PanelsCounted, SeeingIn
  <2>8. RecordAgrees(Recorded(w))
    BY <1>2, <2>1, <2>5, <2>6 DEF Consistent, RecordAgrees
  <2>9. NothingOpen(w) => NothingOpen(Recorded(w))
    BY <2>4, <2>5 DEF NothingOpen
  <2> QED  BY <1>2, <2>1, <2>2, <2>3, <2>5, <2>7, <2>8, <2>9 DEF Consistent
<1> QED  BY <1>1, <1>2

\* What else the record and the streams hold does not matter to Consistent.
LEMMA ConsistentWith ==
  ASSUME NEW w, Consistent(w), NEW v \in Watches,
         v.shows = w.shows, v.visible = w.visible, v.attached = w.attached,
         v.removed = w.removed, v.archived = w.archived,
         v.streams.shut = w.streams.shut,
         v.entry # NoEntry => w.entry # NoEntry /\ v.entry.by = w.entry.by,
         v.entry = NoEntry => w.entry = NoEntry \/ (w.attached => w.entry.by = {}),
         StreamsPaired(v.streams), RecordAgrees(v),
         ~v.attached \/ v.removed \/ v.archived => NothingOpen(v)
  PROVE  Consistent(v)
BY DEF Consistent, PanelsCounted, SeeingIn

\* The preview is set to what the record wants.
LEMMA PreviewedConsistent ==
  ASSUME NEW w, Consistent(w), w.entry # NoEntry
  PROVE  /\ Consistent(Previewed(w))
         /\ Previewed(w) = [w EXCEPT !.streams = Previewed(w).streams]
         /\ w.attached => Enabled(Previewed(w).streams) = (w.entry.by \ w.blocked # {})
<1> DEFINE on == w.entry.by \ w.blocked # {}
           v == Previewed(w)
<1>1. CASE ~w.attached
  BY <1>1 DEF Previewed, Consistent, Watches
<1>2. CASE w.attached
  <2>1. v = [w EXCEPT !.streams = SetSessionPreview(w.streams, on)]
    BY <1>2 DEF Previewed, Consistent, Watches
  <2>2. w \in Watches /\ w.streams \in AdapterStreams
    BY DEF Consistent, Watches
  <2>3. SetSessionPreview(w.streams, on) \in AdapterStreams
    BY <2>2 DEF SetSessionPreview, AdapterStreams, Enabled
  <2>4. /\ v \in Watches /\ v.streams = SetSessionPreview(w.streams, on)
        /\ v.shows = w.shows /\ v.visible = w.visible /\ v.attached = w.attached
        /\ v.removed = w.removed /\ v.archived = w.archived /\ v.entry = w.entry
    BY <2>1, <2>2, <2>3 DEF Watches
  <2> HIDE DEF v
  <2>5. /\ v.streams.follow = w.streams.follow /\ v.streams.rows = w.streams.rows
        /\ v.streams.announced = w.streams.announced /\ v.streams.shut = w.streams.shut
        /\ v.streams.opened = w.streams.opened /\ Enabled(v.streams) = on
        /\ v.streams.turning = (w.streams.turning \/ (Enabled(w.streams) # on /\ w.streams.follow))
    BY <2>2, <2>4 DEF SetSessionPreview, AdapterStreams, Enabled
  <2>6. StreamsPaired(v.streams)
    BY <2>2, <2>5 DEF Consistent, StreamsPaired, AdapterStreams, Enabled
  <2>7. RecordAgrees(v) /\ (NothingOpen(w) => NothingOpen(v))
    BY <2>4, <2>5 DEF Consistent, RecordAgrees, NothingOpen
  <2>8. Consistent(v)
    BY <2>4, <2>5, <2>6, <2>7, ConsistentWith DEF Consistent
  <2> QED  BY <2>1, <2>2, <2>3, <2>4, <2>5, <2>8 DEF v, Watches
<1> QED  BY <1>1, <1>2 DEF Consistent, Watches

\* Neither the backend nor the end of the session is touched.
SameFlags(v, w) ==
  v.attached = w.attached /\ v.removed = w.removed /\ v.archived = w.archived

\* Nothing but the record and the streams differ, and of those not what evaluate() leaves.
SameRest(v, w) ==
  /\ SameFlags(v, w)
  /\ v.shows = w.shows /\ v.visible = w.visible /\ v.blocked = w.blocked
  /\ v.streams.preview = w.streams.preview /\ v.streams.shut = w.streams.shut

\* A record that says of the streams what is the case.
LEMMA EntryConsistent ==
  ASSUME NEW w, Consistent(w), w.entry # NoEntry, NEW e \in Entries, e.by = w.entry.by,
         ~w.attached \/ w.removed \/ w.archived => e = w.entry,
         w.streams.announced => e.intent /\ ~e.rowsOnly,
         e.rowsOnly => e.intent,
         e.intent \/ e.jobs => w.streams.rows,
         e.intent /\ ~e.rowsOnly => w.streams.follow
  PROVE  LET v == [w EXCEPT !.entry = e] IN
         Consistent(v) /\ SameRest(v, w) /\ v.streams = w.streams /\ v.entry = e
<1> DEFINE v == [w EXCEPT !.entry = e]
<1>1. w \in Watches /\ w.entry \in Entries
  BY DEF Consistent, Watches
<1>2. v.entry = e /\ v.streams = w.streams /\ SameRest(v, w) /\ v \in Watches
  BY <1>1 DEF Watches, SameRest, SameFlags
<1>3. e # NoEntry
  BY NoEntryAssumption
<1> HIDE DEF v
<1>4. RecordAgrees(v)
  BY <1>2, <1>3 DEF RecordAgrees
<1>5. ~v.attached \/ v.removed \/ v.archived => NothingOpen(v)
  BY <1>2 DEF Consistent, NothingOpen, SameRest, SameFlags
<1>6. Consistent(v)
  BY <1>2, <1>3, <1>4, <1>5, ConsistentWith DEF Consistent, SameRest, SameFlags
<1> QED  BY <1>2, <1>6 DEF v

\* The timer is not among what the state must agree with.
LEMMA TimerConsistent ==
  ASSUME NEW w, Consistent(w), w.entry # NoEntry, NEW on \in BOOLEAN,
         ~w.attached \/ w.removed \/ w.archived => ~on
  PROVE  LET v == [w EXCEPT !.entry.timer = on] IN
         /\ Consistent(v) /\ SameRest(v, w) /\ v.streams = w.streams
         /\ v.entry = [w.entry EXCEPT !.timer = on] /\ v.entry # NoEntry
<1> DEFINE e == [w.entry EXCEPT !.timer = on]
<1>1. w \in Watches /\ w.entry \in Entries
  BY DEF Consistent, Watches
<1>2. /\ e \in Entries /\ e.by = w.entry.by /\ e.intent = w.entry.intent
      /\ e.jobs = w.entry.jobs /\ e.rowsOnly = w.entry.rowsOnly
  BY <1>1 DEF Entries
<1>3. ~w.attached \/ w.removed \/ w.archived => e = w.entry
  BY <1>1 DEF Consistent, NothingOpen, NewEntry, Entries
<1>4. [w EXCEPT !.entry.timer = on] = [w EXCEPT !.entry = e]
  BY <1>1 DEF Watches
<1>5. e # NoEntry
  BY <1>2, NoEntryAssumption
<1> HIDE DEF e
<1>6. LET v == [w EXCEPT !.entry = e] IN
      Consistent(v) /\ SameRest(v, w) /\ v.streams = w.streams /\ v.entry = e
  BY <1>2, <1>3, EntryConsistent DEF Consistent, RecordAgrees
<1> QED  BY <1>4, <1>5, <1>6 DEF e

\* Watch opens what is not open yet.
LEMMA WatchOpens ==
  ASSUME NEW w \in Watches, w.entry # NoEntry, w.attached, ~w.removed, ~w.archived,
         StreamsPaired(w.streams), ~w.streams.shut,
         w.entry.intent /\ ~w.entry.rowsOnly => w.streams.follow
  PROVE  LET v == Watch(w) IN
         /\ v \in Watches /\ SameRest(v, w) /\ StreamsPaired(v.streams) /\ RecordAgrees(v)
         /\ v.entry = [w.entry EXCEPT !.intent = TRUE, !.rowsOnly = FALSE]
         /\ v.entry # NoEntry /\ v.streams.follow
<1> DEFINE v == Watch(w)
           opens == w.entry.rowsOnly \/ ~w.entry.intent
<1>1. w.entry \in Entries /\ w.streams \in AdapterStreams
  BY DEF Watches
<1>2. /\ v.entry = [w.entry EXCEPT !.intent = TRUE, !.rowsOnly = FALSE]
      /\ v.streams = IF opens THEN WatchSession(w.streams) ELSE w.streams
      /\ v.shows = w.shows /\ v.visible = w.visible /\ v.blocked = w.blocked
      /\ v.attached = w.attached /\ v.removed = w.removed /\ v.archived = w.archived
  BY DEF Watch, Watches
<1>3. /\ v.entry \in Entries /\ v.entry # NoEntry
      /\ v.entry.intent /\ ~v.entry.rowsOnly
  BY <1>1, <1>2, NoEntryAssumption DEF Entries
<1>4. /\ v.streams \in AdapterStreams /\ v.streams.follow /\ v.streams.rows
      /\ v.streams.preview = w.streams.preview /\ v.streams.shut = w.streams.shut
      /\ StreamsPaired(v.streams)
  <2>1. CASE opens
    BY <1>1, <1>2, <2>1 DEF WatchSession, AdapterStreams, StreamsPaired, Enabled
  <2>2. CASE ~opens
    BY <1>1, <1>2, <2>2 DEF AdapterStreams, StreamsPaired, Entries
  <2> QED  BY <2>1, <2>2
<1>5. v \in Watches
  BY <1>2, <1>3, <1>4 DEF Watch, Watches
<1> HIDE DEF v
<1> QED  BY <1>2, <1>3, <1>4, <1>5 DEF v, SameRest, SameFlags, RecordAgrees

\* Release closes what nothing demands.
LEMMA ReleaseSettles ==
  ASSUME NEW w, Consistent(w), w.entry # NoEntry, w.attached, ~w.removed, ~w.archived,
         ~Followed(w)
  PROVE  Settled(Release(w)) /\ SameFlags(Release(w), w)
<1> DEFINE v == Release(w)
           a == UnwatchSession(w.streams, w.entry.jobs)
<1>1. w \in Watches /\ w.entry \in Entries /\ w.streams \in AdapterStreams
  BY DEF Consistent, Watches
<1>2. a \in AdapterStreams /\ ~a.follow /\ ~a.announced /\ a.shut = w.streams.shut
      /\ (w.entry.jobs => a.rows)
  BY <1>1 DEF UnwatchSession, AdapterStreams, Entries, Consistent, RecordAgrees
<1>3. w.entry.by = {} /\ w.entry.status # "running" /\ ~w.entry.asks
  BY DEF Followed
<1>4. CASE w.entry.jobs
  <2>1. v = [w EXCEPT !.streams = a,
                      !.entry = [w.entry EXCEPT !.intent = TRUE, !.rowsOnly = TRUE]]
    BY <1>1, <1>4 DEF Release, Watches
  <2>2. [w.entry EXCEPT !.intent = TRUE, !.rowsOnly = TRUE] \in Entries
    BY <1>1 DEF Entries
  <2>3. /\ v \in Watches /\ v.streams = a
        /\ v.entry = [w.entry EXCEPT !.intent = TRUE, !.rowsOnly = TRUE]
        /\ v.shows = w.shows /\ v.visible = w.visible /\ v.attached = w.attached
        /\ v.removed = w.removed /\ v.archived = w.archived
    BY <1>1, <1>2, <2>1, <2>2 DEF Watches
  <2>4. /\ v.entry # NoEntry /\ v.entry.by = {} /\ v.entry.status # "running"
        /\ ~v.entry.asks /\ v.entry.jobs /\ v.entry.intent /\ v.entry.rowsOnly
    BY <1>1, <1>3, <1>4, <2>2, <2>3, NoEntryAssumption DEF Entries
  <2> HIDE DEF v, a
  <2>5. StreamsPaired(v.streams) /\ RecordAgrees(v)
    BY <1>2, <1>4, <2>3, <2>4 DEF StreamsPaired, RecordAgrees
  <2>6. Consistent(v)
    BY <1>2, <1>3, <2>3, <2>4, <2>5, ConsistentWith
  <2> QED  BY <1>2, <2>3, <2>4, <2>6 DEF v, Settled, Followed, SameFlags
<1>5. CASE ~w.entry.jobs
  <2>1. v = [w EXCEPT !.streams = a, !.entry = NoEntry]
    BY <1>1, <1>5 DEF Release, Watches
  <2>2. /\ v \in Watches /\ v.streams = a /\ v.entry = NoEntry
        /\ v.shows = w.shows /\ v.visible = w.visible /\ v.attached = w.attached
        /\ v.removed = w.removed /\ v.archived = w.archived
    BY <1>1, <1>2, <2>1 DEF Watches
  <2> HIDE DEF v, a
  <2>3. StreamsPaired(v.streams) /\ RecordAgrees(v)
    BY <1>2, <2>2 DEF StreamsPaired, RecordAgrees
  <2>4. Consistent(v)
    BY <1>2, <1>3, <2>2, <2>3, ConsistentWith
  <2> QED  BY <1>2, <2>2, <2>4 DEF v, Settled, Followed, SameFlags
<1> QED  BY <1>1, <1>4, <1>5 DEF Entries

\* Evaluate settles what its callers have changed.
LEMMA EvaluateSettles ==
  ASSUME NEW w, Consistent(w)
  PROVE  Settled(Evaluate(w)) /\ SameFlags(Evaluate(w), w)
<1>1. CASE w.entry = NoEntry
  BY <1>1 DEF Evaluate, Settled, Followed, Consistent, RecordAgrees, SameFlags
<1>2. CASE w.entry # NoEntry
  <2> DEFINE v == Previewed(w)
             off == CancelTimer(v)
             set == [v EXCEPT !.entry.timer = @ \/ (v.attached /\ v.entry.intent)]
             wants == v.entry.timer \/ (v.attached /\ v.entry.intent)
  <2>1. /\ Consistent(v) /\ SameFlags(v, w) /\ v.entry = w.entry /\ v.entry # NoEntry
        /\ v.attached => Enabled(v.streams) = (v.entry.by \ v.blocked # {})
    BY <1>2, PreviewedConsistent DEF Consistent, Watches, SameFlags
  <2>2. /\ Consistent(off) /\ SameRest(off, v) /\ off.streams = v.streams
        /\ off.entry = [v.entry EXCEPT !.timer = FALSE] /\ off.entry # NoEntry
    BY <2>1, TimerConsistent DEF CancelTimer
  <2>3. v \in Watches /\ v.entry \in Entries
    BY <2>1 DEF Consistent, Watches
  <2>4. Followed(off) <=> Followed(v)
    <3> HIDE DEF off, v
    <3>1. /\ off.entry.by = v.entry.by /\ off.entry.status = v.entry.status
          /\ off.entry.asks = v.entry.asks
      BY <2>2, <2>3 DEF Entries
    <3> QED  BY <2>1, <2>2, <3>1 DEF Followed, SameRest, SameFlags
  <2>5. CASE Followed(v)
    <3>1. CASE ~v.attached
      <4>1. Evaluate(w) = off
        BY <1>2, <2>2, <2>5, <3>1 DEF Evaluate, Watch, SameRest, SameFlags
      <4>2. ~off.attached /\ NothingOpen(off) /\ ~off.streams.announced
        BY <2>2, <3>1 DEF SameRest, SameFlags, Consistent, StreamsPaired, NothingOpen
      <4>3. off.entry.rowsOnly => off.entry.jobs
        BY <2>2, <4>2 DEF NothingOpen, NewEntry
      <4> QED  BY <2>1, <2>2, <4>1, <4>2, <4>3 DEF Settled, SameRest, SameFlags
    <3>2. CASE v.attached
      <4> DEFINE o == Watch(off)
      <4>1. off \in Watches /\ off.attached /\ ~off.removed /\ ~off.archived
        BY <2>2, <2>5, <3>2 DEF SameRest, SameFlags, Consistent, Followed
      <4>2. /\ o \in Watches /\ SameRest(o, off) /\ StreamsPaired(o.streams) /\ RecordAgrees(o)
            /\ o.entry = [off.entry EXCEPT !.intent = TRUE, !.rowsOnly = FALSE]
            /\ o.entry # NoEntry /\ o.streams.follow
        BY <2>2, <4>1, WatchOpens DEF Consistent, RecordAgrees
      <4>3. Evaluate(w) = o
        BY <1>2, <2>5 DEF Evaluate
      <4> HIDE DEF o, off, v
      <4>4. off.entry \in Entries /\ off.streams.shut = o.streams.shut
        BY <2>2, <4>1, <4>2 DEF Watches, SameRest, SameFlags
      <4>5. o.entry.by = off.entry.by /\ ~o.entry.rowsOnly
        BY <4>2, <4>4 DEF Entries
      <4>6. Consistent(o)
        BY <2>2, <4>1, <4>2, <4>5, ConsistentWith DEF SameRest, SameFlags
      <4>7. off.entry.by = v.entry.by /\ off.entry.status = v.entry.status
            /\ off.entry.asks = v.entry.asks
        BY <2>2, <2>3 DEF Entries
      <4>8. o.entry.status = off.entry.status /\ o.entry.asks = off.entry.asks
        BY <4>2, <4>4 DEF Entries
      <4>9. Followed(o)
        BY <2>2, <2>5, <4>2, <4>5, <4>7, <4>8 DEF Followed, SameRest, SameFlags
      <4>10. Enabled(o.streams) = (o.entry.by \ o.blocked # {})
        BY <2>1, <2>2, <3>2, <4>2, <4>5, <4>7 DEF SameRest, SameFlags, Enabled
      <4>11. SameFlags(o, w)
        BY <2>1, <2>2, <4>2 DEF SameRest, SameFlags
      <4> QED  BY <4>2, <4>3, <4>5, <4>6, <4>9, <4>10, <4>11 DEF Settled
    <3> QED  BY <3>1, <3>2
  <2>6. CASE ~Followed(v) /\ v.entry.rowsOnly
    <3>1. v.attached /\ ~v.removed /\ ~v.archived
      BY <2>1, <2>6 DEF Consistent, NothingOpen, NewEntry
    <3>2. ~v.streams.announced /\ off.entry.jobs = v.entry.jobs
      BY <2>1, <2>2, <2>3, <2>6 DEF Consistent, RecordAgrees, Entries
    <3>3. CASE v.entry.jobs
      <4>1. Evaluate(w) = off
        BY <1>2, <2>6, <3>3 DEF Evaluate
      <4> QED  BY <2>1, <2>2, <2>4, <2>6, <3>2, <3>3, <4>1 DEF Settled, SameRest, SameFlags
    <3>4. CASE ~v.entry.jobs
      <4>1. Evaluate(w) = Release(off)
        BY <1>2, <2>6, <3>4 DEF Evaluate
      <4> HIDE DEF off, v
      <4> QED  BY <2>1, <2>2, <2>4, <2>6, <3>1, <4>1, ReleaseSettles DEF SameRest, SameFlags
    <3> QED  BY <3>3, <3>4
  <2>7. CASE ~Followed(v) /\ ~v.entry.rowsOnly
    <3>1. wants \in BOOLEAN /\ set = [v EXCEPT !.entry.timer = wants]
      BY <2>3 DEF Watches, Entries
    <3>2. Evaluate(w) = set
      BY <1>2, <2>7 DEF Evaluate
    <3>3. ~v.attached \/ v.removed \/ v.archived => ~wants
      BY <2>1 DEF Consistent, NothingOpen, NewEntry
    <3> DEFINE s == [v EXCEPT !.entry.timer = wants]
    <3>4. /\ Consistent(s) /\ SameRest(s, v) /\ s.streams = v.streams
          /\ s.entry = [v.entry EXCEPT !.timer = wants] /\ s.entry # NoEntry
      <4> HIDE DEF v, wants
      <4> QED  BY <2>1, <3>1, <3>3, TimerConsistent
    <3> HIDE DEF s
    <3>5. s.entry.timer = wants /\ s.entry.rowsOnly = v.entry.rowsOnly
      BY <2>3, <3>4 DEF Entries
    <3>6. ~Followed(s)
      <4> HIDE DEF v, wants
      <4>1. s.entry.by = v.entry.by /\ s.entry.status = v.entry.status
            /\ s.entry.asks = v.entry.asks
        BY <2>3, <3>4 DEF Entries
      <4> QED  BY <2>1, <2>7, <3>4, <4>1 DEF Followed, SameRest, SameFlags
    <3>7. s.streams.announced => wants
      BY <2>1, <3>4 DEF Consistent, StreamsPaired, RecordAgrees, NothingOpen
    <3>8. SameFlags(s, w)
      BY <2>1, <3>4 DEF SameRest, SameFlags
    <3> QED  BY <2>7, <3>1, <3>2, <3>4, <3>5, <3>6, <3>7, <3>8 DEF Settled, s
  <2> QED  BY <2>5, <2>6, <2>7
<1> QED  BY <1>1, <1>2

\* Changes of the adapter's streams that keep what is open, and close nothing.
LEMMA StreamsSettled ==
  ASSUME NEW w, Settled(w), NEW a \in AdapterStreams,
         a.shut = w.streams.shut, a.preview = w.streams.preview, StreamsPaired(a),
         a.announced => w.streams.announced,
         w.streams.rows => a.rows, w.streams.follow => a.follow,
         ~w.attached \/ w.removed \/ w.archived => ~a.follow /\ ~a.rows
  PROVE  LET v == [w EXCEPT !.streams = a] IN
         Settled(v) /\ SameRest(v, w) /\ v.streams = a /\ v.entry = w.entry
<1> DEFINE v == [w EXCEPT !.streams = a]
<1>1. w \in Watches
  BY DEF Settled, Consistent
<1>2. v.entry = w.entry /\ v.streams = a /\ SameRest(v, w) /\ v \in Watches
  BY <1>1 DEF Watches, SameRest, SameFlags
<1> HIDE DEF v
<1>3. RecordAgrees(v)
  BY <1>2 DEF Settled, Consistent, RecordAgrees
<1>4. ~v.attached \/ v.removed \/ v.archived => NothingOpen(v)
  BY <1>2 DEF Settled, Consistent, NothingOpen, SameRest, SameFlags
<1>5. Consistent(v)
  BY <1>2, <1>3, <1>4, ConsistentWith DEF Settled, SameRest, SameFlags
<1>6. Settled(v)
  BY <1>2, <1>5 DEF Settled, Followed, Enabled, SameRest, SameFlags
<1> QED  BY <1>2, <1>6 DEF v

\* An event of a session that was removed may bring it back.
LEMMA UnremovedConsistent ==
  ASSUME NEW w, Consistent(w)
  PROVE  LET v == [w EXCEPT !.removed = FALSE] IN
         /\ Consistent(v) /\ v.entry = w.entry /\ v.streams = w.streams /\ v.shows = w.shows
         /\ v.visible = w.visible /\ v.blocked = w.blocked /\ v.attached = w.attached
         /\ v.archived = w.archived /\ ~v.removed
<1> DEFINE v == [w EXCEPT !.removed = FALSE]
<1>1. /\ v \in Watches /\ v.entry = w.entry /\ v.streams = w.streams /\ v.shows = w.shows
      /\ v.visible = w.visible /\ v.blocked = w.blocked /\ v.attached = w.attached
      /\ v.archived = w.archived /\ ~v.removed
  BY DEF Consistent, Watches
<1> HIDE DEF v
<1>2. PanelsCounted(v) /\ RecordAgrees(v)
  BY <1>1 DEF Consistent, PanelsCounted, SeeingIn, RecordAgrees
<1>3. ~v.attached \/ v.removed \/ v.archived => NothingOpen(v)
  BY <1>1 DEF Consistent, NothingOpen
<1> QED  BY <1>1, <1>2, <1>3 DEF v, Consistent

\* What is left of a session that has gone.
LEMMA GoneSettled ==
  ASSUME NEW w \in Watches, NEW u \in Watches, PanelsCounted(w), u.shows = w.shows,
         u.visible = w.visible, u.entry = NoEntry, ~u.streams.follow, ~u.streams.announced,
         ~u.streams.rows, u.streams.shut <=> u.archived
  PROVE  Settled(Undisplayed(u)) /\ SameFlags(Undisplayed(u), u)
<1> DEFINE v == Undisplayed(u)
           showing == {p \in Panels : u.shows[p] = "session"}
<1>1. /\ v.shows = [p \in Panels |-> IF p \in showing THEN "nothing" ELSE u.shows[p]]
      /\ v.visible = u.visible \ showing /\ v.blocked = u.blocked \ showing
      /\ v.entry = NoEntry /\ v.streams = u.streams /\ SameFlags(v, u)
  BY DEF Undisplayed, Watches, SameFlags
<1>2. v.shows \in [Panels -> {"session", "other", "nothing"}]
  BY <1>1 DEF Watches
<1>3. v \in Watches
  BY <1>1, <1>2 DEF Undisplayed, Watches
<1> HIDE DEF v
<1>4. SeeingIn(v) = {} /\ \A p \in Panels : v.shows[p] # "session"
  BY <1>1, <1>3 DEF SeeingIn, Watches
<1>5. PanelsCounted(v)
  BY <1>1, <1>4 DEF PanelsCounted, Watches
<1>6. StreamsPaired(v.streams) /\ RecordAgrees(v) /\ NothingOpen(v)
  BY <1>1 DEF StreamsPaired, RecordAgrees, NothingOpen
<1>7. Consistent(v)
  BY <1>1, <1>3, <1>5, <1>6 DEF Consistent, SameFlags
<1> QED  BY <1>1, <1>7 DEF v, Settled, Followed

-----------------------------------------------------------------------------
(* Events. *)

\* A status, heard of or read from the directory.
LEMMA StatusSettles ==
  ASSUME NEW w, Settled(w), w.attached, NEW status \in {"unknown", "running", "idle"}
  PROVE  /\ Settled(StatusEvent(w, status)) /\ SameFlags(StatusEvent(w, status), w)
         /\ ~w.removed /\ ~w.archived =>
              LET v == Evaluate([Recorded(w) EXCEPT !.entry.status = status]) IN
              Settled(v) /\ SameFlags(v, w)
<1> DEFINE r == Recorded(w)
           e == [r.entry EXCEPT !.status = status]
<1>0. Consistent(w) /\ w \in Watches
  BY DEF Settled, Consistent
<1>1. Consistent(r) /\ r.entry # NoEntry /\ SameFlags(r, w)
  BY <1>0, RecordedConsistent DEF Watches, SameFlags
<1> HIDE DEF r
<1>2. r \in Watches /\ r.entry \in Entries
  BY <1>1 DEF Consistent, Watches
<1>3. /\ e \in Entries /\ e.by = r.entry.by /\ e.intent = r.entry.intent
      /\ e.jobs = r.entry.jobs /\ e.rowsOnly = r.entry.rowsOnly
  BY <1>2 DEF Entries
<1>4. [r EXCEPT !.entry.status = status] = [r EXCEPT !.entry = e]
  BY <1>2 DEF Watches
<1>5. CASE ~w.removed /\ ~w.archived
  <2>1. Consistent([r EXCEPT !.entry = e]) /\ SameRest([r EXCEPT !.entry = e], r)
    <3> HIDE DEF e
    <3> QED  BY <1>1, <1>3, <1>5, EntryConsistent DEF Consistent, RecordAgrees, SameFlags
  <2> HIDE DEF e
  <2>2. Settled(Evaluate([r EXCEPT !.entry = e])) /\ SameFlags(Evaluate([r EXCEPT !.entry = e]), w)
    BY <1>1, <2>1, EvaluateSettles DEF SameRest, SameFlags
  <2> QED  BY <1>4, <2>2 DEF StatusEvent, r, SameFlags
<1>6. CASE w.removed \/ w.archived
  BY <1>6 DEF StatusEvent, SameFlags
<1> QED  BY <1>5, <1>6

\* The host asks the user.
LEMMA AsksSettles ==
  ASSUME NEW w, Settled(w), w.attached
  PROVE  Settled(AsksEvent(w)) /\ SameFlags(AsksEvent(w), w)
<1> DEFINE r == Recorded(w)
           e == [r.entry EXCEPT !.asks = TRUE]
<1>0. Consistent(w) /\ w \in Watches
  BY DEF Settled, Consistent
<1>1. Consistent(r) /\ r.entry # NoEntry /\ SameFlags(r, w)
  BY <1>0, RecordedConsistent DEF Watches, SameFlags
<1> HIDE DEF r
<1>2. r \in Watches /\ r.entry \in Entries
  BY <1>1 DEF Consistent, Watches
<1>3. /\ e \in Entries /\ e.by = r.entry.by /\ e.intent = r.entry.intent
      /\ e.jobs = r.entry.jobs /\ e.rowsOnly = r.entry.rowsOnly
  BY <1>2 DEF Entries
<1>4. [r EXCEPT !.entry.asks = TRUE] = [r EXCEPT !.entry = e]
  BY <1>2 DEF Watches
<1>5. CASE ~w.removed /\ ~w.archived
  <2> HIDE DEF e
  <2>1. Consistent([r EXCEPT !.entry = e]) /\ SameRest([r EXCEPT !.entry = e], r)
    BY <1>1, <1>3, <1>5, EntryConsistent DEF Consistent, RecordAgrees, SameFlags
  <2>2. Settled(Evaluate([r EXCEPT !.entry = e])) /\ SameFlags(Evaluate([r EXCEPT !.entry = e]), w)
    BY <1>1, <2>1, EvaluateSettles DEF SameRest, SameFlags
  <2> QED  BY <1>4, <1>5, <2>2 DEF AsksEvent, r, SameFlags
<1>6. CASE w.removed \/ w.archived
  BY <1>6 DEF AsksEvent, SameFlags
<1> QED  BY <1>5, <1>6

\* What nobody asks any more: an answer, or all that a lost link would have brought.
LEMMA UnasksSettles ==
  ASSUME NEW w, Settled(w), w.entry # NoEntry
  PROVE  LET v == Evaluate([w EXCEPT !.entry.asks = FALSE]) IN Settled(v) /\ SameFlags(v, w)
<1> DEFINE e == [w.entry EXCEPT !.asks = FALSE]
<1>1. Consistent(w) /\ w \in Watches /\ w.entry \in Entries
  BY DEF Settled, Consistent, Watches
<1>2. /\ e \in Entries /\ e.by = w.entry.by /\ e.intent = w.entry.intent
      /\ e.jobs = w.entry.jobs /\ e.rowsOnly = w.entry.rowsOnly
  BY <1>1 DEF Entries
<1>3. [w EXCEPT !.entry.asks = FALSE] = [w EXCEPT !.entry = e]
  BY <1>1 DEF Watches
<1>4. ~w.attached \/ w.removed \/ w.archived => e = w.entry
  BY <1>1 DEF Consistent, NothingOpen, NewEntry, Entries
<1> HIDE DEF e
<1>5. Consistent([w EXCEPT !.entry = e]) /\ SameRest([w EXCEPT !.entry = e], w)
  BY <1>1, <1>2, <1>4, EntryConsistent DEF Consistent, RecordAgrees
<1> QED  BY <1>3, <1>5, EvaluateSettles DEF SameRest, SameFlags

\* An event of the host-wide stream.
LEMMA HostEventSettles ==
  ASSUME NEW w, Settled(w), w.attached, ~w.archived, NEW event \in Events
  PROVE  /\ Settled(HostEvent(w, event))
         /\ HostEvent(w, event).attached /\ ~HostEvent(w, event).archived
<1> DEFINE v == HostEvent(w, event)
<1>1. Consistent(w) /\ w \in Watches
  BY DEF Settled, Consistent
<1>2. CASE event \in {"running", "idle"}
  <2>1. v = StatusEvent(w, event)
    BY <1>2 DEF HostEvent
  <2>2. Settled(StatusEvent(w, event)) /\ SameFlags(StatusEvent(w, event), w)
    BY <1>2, StatusSettles
  <2> QED  BY <2>1, <2>2 DEF SameFlags
<1>3. CASE event = "asks"
  <2>1. v = AsksEvent(w)
    BY <1>3 DEF HostEvent
  <2> QED  BY <2>1, AsksSettles DEF SameFlags
<1>4. CASE event = "answered"
  <2>1. v = AnsweredEvent(w)
    BY <1>4 DEF HostEvent
  <2> QED  BY <2>1, UnasksSettles DEF SameFlags, AnsweredEvent
<1>5. CASE event = "added"
  <2>1. v = AddedEvent(w)
    BY <1>5 DEF HostEvent
  <2> QED  BY <1>1, <2>1, UnremovedConsistent, EvaluateSettles DEF SameFlags, AddedEvent
<1>6. CASE event = "removed"
  <2> DEFINE a == [UnwatchSession(w.streams, FALSE) EXCEPT !.shut = FALSE]
             u == [w EXCEPT !.removed = TRUE, !.entry = NoEntry, !.streams = a]
  <2>1. v = Undisplayed(u)
    BY <1>1, <1>6 DEF HostEvent, RemovedEvent, Watches
  <2>2. a \in AdapterStreams /\ ~a.follow /\ ~a.rows /\ ~a.announced /\ ~a.shut
    BY <1>1 DEF UnwatchSession, AdapterStreams, Watches
  <2> HIDE DEF a
  <2>3. /\ u \in Watches /\ u.shows = w.shows /\ u.visible = w.visible
        /\ u.attached = w.attached /\ u.archived = w.archived
        /\ u.entry = NoEntry /\ u.streams = a
    BY <1>1, <2>2 DEF Watches
  <2> HIDE DEF u
  <2>4. Settled(Undisplayed(u)) /\ SameFlags(Undisplayed(u), u)
    BY <1>1, <2>2, <2>3, GoneSettled DEF Consistent
  <2> QED  BY <2>1, <2>3, <2>4 DEF SameFlags
<1> QED  BY <1>2, <1>3, <1>4, <1>5, <1>6 DEF Events

\* The follow stream announces itself: the record takes note of it.
LEMMA SubscribedSettles ==
  ASSUME NEW w, Settled(w), w.streams.follow
  PROVE  LET v == SubscribedEvent([w EXCEPT !.streams.announced = TRUE]) IN
         Settled(v) /\ SameFlags(v, w)
<1> DEFINE a == [w.streams EXCEPT !.announced = TRUE]
           u == [w EXCEPT !.streams = a]
           ru == Recorded(u)
           r == Recorded(w)
           e == [ru.entry EXCEPT !.intent = TRUE, !.rowsOnly = FALSE]
           v == [ru EXCEPT !.entry = e]
<1>1. Consistent(w) /\ w \in Watches /\ w.streams \in AdapterStreams
  BY DEF Settled, Consistent, Watches
<1>2. w.attached /\ ~w.removed /\ ~w.archived
  BY <1>1 DEF Consistent, NothingOpen
<1>3. [w EXCEPT !.streams.announced = TRUE] = u
  BY <1>1 DEF Watches
<1>4. /\ a \in AdapterStreams /\ a.announced /\ a.follow /\ a.rows /\ a.shut = w.streams.shut
      /\ StreamsPaired(a)
  BY <1>1 DEF Consistent, StreamsPaired, AdapterStreams, Enabled
<1> HIDE DEF a
<1>5. /\ u \in Watches /\ u.streams = a /\ u.entry = w.entry /\ u.shows = w.shows
      /\ u.visible = w.visible /\ u.blocked = w.blocked /\ SameFlags(u, w)
  BY <1>1, <1>4 DEF Watches, SameFlags
<1>6. Consistent(r) /\ r.entry # NoEntry /\ r = [w EXCEPT !.entry = r.entry]
  BY <1>1, RecordedConsistent
<1>7. NewEntry \in Entries
  BY DEF NewEntry, Entries
<1> HIDE DEF u
<1>8. ru = [u EXCEPT !.entry = r.entry]
  <2>1. CASE w.entry = NoEntry
    BY <1>1, <1>5, <2>1 DEF Recorded, Watches
  <2>2. CASE w.entry # NoEntry
    BY <1>5, <2>2 DEF Recorded, Watches
  <2> QED  BY <2>1, <2>2
<1> HIDE DEF r, ru
<1>9. r \in Watches /\ r.entry \in Entries
  BY <1>6 DEF Consistent, Watches
<1>10. /\ ru \in Watches /\ ru.entry = r.entry /\ ru.streams = a /\ ru.shows = w.shows
       /\ ru.visible = w.visible /\ ru.blocked = w.blocked /\ SameFlags(ru, w)
  BY <1>5, <1>8, <1>9 DEF Watches, SameFlags
<1>11. /\ r.shows = w.shows /\ r.visible = w.visible /\ SameFlags(r, w)
       /\ r.streams = w.streams
  BY <1>1, <1>6, <1>9 DEF Watches, SameFlags
<1>12. e \in Entries /\ e.by = r.entry.by /\ e.intent /\ ~e.rowsOnly /\ e # NoEntry
  <2>1. e = [r.entry EXCEPT !.intent = TRUE, !.rowsOnly = FALSE]
    BY <1>10
  <2> HIDE DEF e
  <2> QED  BY <1>9, <2>1, NoEntryAssumption DEF Entries
<1>13. [ru EXCEPT !.entry.intent = TRUE, !.entry.rowsOnly = FALSE] = v
  BY <1>10 DEF Watches
<1> HIDE DEF e
<1>14. /\ v \in Watches /\ v.entry = e /\ v.streams = a /\ v.shows = w.shows
       /\ v.visible = w.visible /\ SameFlags(v, w)
  BY <1>10, <1>12 DEF Watches, SameFlags
<1>15. SubscribedEvent(u) = Evaluate([ru EXCEPT !.entry.intent = TRUE, !.entry.rowsOnly = FALSE])
  BY <1>2, <1>5 DEF SubscribedEvent, SameFlags, ru
<1> HIDE DEF v
<1>16. RecordAgrees(v)
  BY <1>4, <1>12, <1>14 DEF RecordAgrees
<1>17. Consistent(v)
  BY <1>2, <1>4, <1>6, <1>11, <1>12, <1>14, <1>16, ConsistentWith DEF SameFlags
<1> QED  BY <1>3, <1>13, <1>14, <1>15, <1>17, EvaluateSettles DEF SameFlags

\* The job rows, and the job list, say whether jobs run.
LEMMA JobsSettles ==
  ASSUME NEW w, Settled(w), w.attached, NEW running \in BOOLEAN
  PROVE  Settled(JobsEvent(w, running)) /\ SameFlags(JobsEvent(w, running), w)
<1> DEFINE r == Recorded(w)
           e == [r.entry EXCEPT !.jobs = running]
           v == [r EXCEPT !.entry = e]
<1>0. Consistent(w) /\ w \in Watches
  BY DEF Settled, Consistent
<1>1. CASE w.removed \/ w.archived \/ (~running /\ w.entry = NoEntry)
  BY <1>1 DEF JobsEvent, SameFlags
<1>2. CASE ~(w.removed \/ w.archived \/ (~running /\ w.entry = NoEntry))
  <2>1. Consistent(r) /\ r.entry # NoEntry /\ SameFlags(r, w)
    BY <1>0, RecordedConsistent DEF Watches, SameFlags
  <2>2. JobsEvent(w, running) =
          LET x == [r EXCEPT !.entry.jobs = running] IN
          Evaluate(IF running /\ ~x.entry.intent THEN Watch(x) ELSE x)
    BY <1>2 DEF JobsEvent
  <2> HIDE DEF r
  <2>3. r \in Watches /\ r.entry \in Entries
    BY <2>1 DEF Consistent, Watches
  <2>4. [r EXCEPT !.entry.jobs = running] = v
    BY <2>3 DEF Watches
  <2>5. /\ e \in Entries /\ e.by = r.entry.by /\ e.intent = r.entry.intent
        /\ e.jobs = running /\ e.rowsOnly = r.entry.rowsOnly /\ e # NoEntry
    BY <2>3, NoEntryAssumption DEF Entries
  <2> HIDE DEF e
  <2>6. v \in Watches /\ v.entry = e /\ v.streams = r.streams /\ SameRest(v, r)
    BY <2>3, <2>5 DEF Watches, SameRest, SameFlags
  <2> HIDE DEF v
  <2>7. CASE running /\ ~e.intent
    <3> DEFINE o == Watch(v)
    <3>1. JobsEvent(w, running) = Evaluate(o)
      BY <2>2, <2>4, <2>6, <2>7
    <3>2. v.attached /\ ~v.removed /\ ~v.archived
      BY <1>2, <2>1, <2>6 DEF SameRest, SameFlags
    <3>3. /\ o \in Watches /\ SameRest(o, v) /\ StreamsPaired(o.streams) /\ RecordAgrees(o)
          /\ o.entry = [v.entry EXCEPT !.intent = TRUE, !.rowsOnly = FALSE]
          /\ o.entry # NoEntry /\ o.streams.follow
      BY <2>1, <2>5, <2>6, <2>7, <3>2, WatchOpens DEF Consistent, SameRest, SameFlags
    <3> HIDE DEF o
    <3>4. o.entry.by = r.entry.by
      BY <2>5, <2>6, <3>3 DEF Entries
    <3>5. Consistent(o)
      BY <2>1, <2>6, <3>2, <3>3, <3>4, ConsistentWith DEF SameRest, SameFlags
    <3> QED  BY <2>1, <2>6, <3>1, <3>3, <3>5, EvaluateSettles DEF SameRest, SameFlags
  <2>8. CASE ~(running /\ ~e.intent)
    <3>1. JobsEvent(w, running) = Evaluate(v)
      BY <2>2, <2>4, <2>6, <2>8
    <3>2. Consistent(v)
      BY <1>2, <2>1, <2>5, <2>8, EntryConsistent DEF Consistent, RecordAgrees, SameFlags, v
    <3> QED  BY <2>1, <2>6, <3>1, <3>2, EvaluateSettles DEF SameRest, SameFlags
  <2> QED  BY <2>7, <2>8
<1> QED  BY <1>1, <1>2

-----------------------------------------------------------------------------
(* The surfaces. *)

\* All panels but p are as they were.
OtherPanels(u, w, p) ==
  /\ SameFlags(u, w) /\ u.entry = w.entry /\ u.streams = w.streams
  /\ \A q \in Panels \ {p} :
       /\ q \in u.visible <=> q \in w.visible
       /\ q \in u.blocked <=> q \in w.blocked
       /\ u.shows[q] = w.shows[q]
  /\ p \in u.visible => u.shows[p] # "nothing"
  /\ u.removed => u.shows[p] # "session"

\* The record follows what one panel does.
LEMMA ByPanelConsistent ==
  ASSUME NEW w, Consistent(w), NEW p \in Panels, NEW u \in Watches, OtherPanels(u, w, p),
         NEW sees \in BOOLEAN, sees <=> p \in u.visible /\ u.shows[p] = "session"
  PROVE  Consistent(ByPanel(u, p, sees)) /\ SameFlags(ByPanel(u, p, sees), w)
<1> DEFINE base == IF w.entry = NoEntry THEN NewEntry ELSE w.entry
           by == IF sees THEN base.by \cup {p} ELSE base.by \ {p}
           e == [base EXCEPT !.by = by]
           v == [u EXCEPT !.entry = e]
<1>1. w \in Watches /\ w.entry \in Entries \cup {NoEntry}
  BY DEF Consistent, Watches
<1>2. NewEntry \in Entries /\ NewEntry.by = {} /\ NewEntry # NoEntry
  <2>1. NewEntry \in Entries /\ NewEntry.by = {}
    BY DEF NewEntry, Entries
  <2> QED  BY <2>1, NoEntryAssumption
<1>3. base \in Entries
  BY <1>1, <1>2
<1>4. by \in SUBSET Panels
  BY <1>3 DEF Entries
<1>5. ~w.attached \/ w.removed \/ w.archived => base = [NewEntry EXCEPT !.by = base.by]
  BY <1>1 DEF Consistent, NothingOpen, NewEntry
<1>6. w.attached => SeeingIn(w) = base.by
  BY <1>2 DEF Consistent, PanelsCounted
<1>7. \/ ~base.intent /\ ~base.jobs /\ ~base.rowsOnly /\ w.entry = NoEntry
      \/ base = w.entry /\ w.entry # NoEntry
  <2>1. ~NewEntry.intent /\ ~NewEntry.jobs /\ ~NewEntry.rowsOnly
    BY DEF NewEntry
  <2> QED  BY <2>1
<1>8. CASE w.entry = NoEntry /\ ~sees
  <2>1. ByPanel(u, p, sees) = u
    BY <1>8 DEF ByPanel, OtherPanels
  <2>2. w.attached => SeeingIn(u) = {}
    BY <1>1, <1>6, <1>8, <1>2 DEF SeeingIn, OtherPanels, Watches
  <2>3. PanelsCounted(u)
    BY <1>1, <1>8, <2>2 DEF PanelsCounted, Consistent, OtherPanels, SameFlags, Watches
  <2>4. Consistent(u)
    BY <2>3 DEF Consistent, OtherPanels, SameFlags, RecordAgrees, NothingOpen
  <2> QED  BY <2>1, <2>4 DEF OtherPanels
<1>9. CASE w.entry # NoEntry \/ sees
  <2>1. ByPanel(u, p, sees) = v
    <3>1. CASE sees /\ w.entry = NoEntry
      BY <3>1 DEF ByPanel, Recorded, OtherPanels, Watches
    <3>2. CASE sees /\ w.entry # NoEntry
      BY <3>2 DEF ByPanel, Recorded, OtherPanels, Watches
    <3>3. CASE ~sees
      BY <1>9, <3>3 DEF ByPanel, OtherPanels, Watches
    <3> QED  BY <3>1, <3>2, <3>3
  <2> HIDE DEF base, by
  <2>2. /\ e \in Entries /\ e.by = by /\ e.intent = base.intent /\ e.jobs = base.jobs
        /\ e.rowsOnly = base.rowsOnly /\ e # NoEntry
    BY <1>3, <1>4, NoEntryAssumption DEF Entries
  <2>3. ~w.attached \/ w.removed \/ w.archived => e = [NewEntry EXCEPT !.by = e.by]
    BY <1>3, <1>4, <1>5 DEF Entries, NewEntry
  <2> HIDE DEF e
  <2>4. /\ v \in Watches /\ v.entry = e /\ v.streams = w.streams /\ SameFlags(v, w)
        /\ v.shows = u.shows /\ v.visible = u.visible
    BY <2>2 DEF Watches, OtherPanels, SameFlags
  <2> HIDE DEF v
  <2>5. w.attached => SeeingIn(u) = by
    BY <1>1, <1>6 DEF SeeingIn, OtherPanels, Watches, by
  <2>6. PanelsCounted(v)
    BY <1>1, <2>2, <2>4, <2>5 DEF PanelsCounted, SeeingIn, Consistent, OtherPanels, SameFlags, Watches
  <2>7. RecordAgrees(v)
    BY <1>7, <2>2, <2>4 DEF RecordAgrees, Consistent
  <2>8. ~v.attached \/ v.removed \/ v.archived => NothingOpen(v)
    BY <2>3, <2>4 DEF NothingOpen, Consistent, SameFlags
  <2>9. Consistent(v)
    BY <2>4, <2>6, <2>7, <2>8 DEF Consistent, SameFlags
  <2> QED  BY <2>1, <2>4, <2>9
<1> QED  BY <1>8, <1>9

\* A panel that displays another session, before and after.
LEMMA ElsewhereSettled ==
  ASSUME NEW w, Settled(w), NEW p \in Panels, NEW u \in Watches, OtherPanels(u, w, p),
         u.shows[p] # "session", w.shows[p] # "session"
  PROVE  Settled(u) /\ SameFlags(u, w)
<1>1. Consistent(w) /\ w \in Watches
  BY DEF Settled, Consistent
<1>2. SeeingIn(u) = SeeingIn(w) /\ p \notin SeeingIn(w)
  BY <1>1 DEF SeeingIn, OtherPanels, Watches
<1>3. PanelsCounted(u)
  BY <1>1, <1>2 DEF PanelsCounted, Consistent, OtherPanels, SameFlags, Watches
<1>4. Consistent(u)
  BY <1>1, <1>3 DEF Consistent, OtherPanels, SameFlags, RecordAgrees, NothingOpen
<1>5. w.attached /\ w.entry # NoEntry => u.entry.by \ u.blocked = w.entry.by \ w.blocked
  BY <1>1, <1>2 DEF Consistent, PanelsCounted, OtherPanels, SeeingIn, Watches
<1>6. Followed(u) <=> Followed(w)
  BY DEF Followed, OtherPanels, SameFlags
<1>7. w.attached /\ Followed(w) => w.entry # NoEntry
  BY DEF Followed
<1> QED  BY <1>4, <1>5, <1>6, <1>7 DEF Settled, OtherPanels, SameFlags

\* A panel displays, hides, is full, or goes.
LEMMA SurfaceStep ==
  ASSUME Settled(watch), NEW p \in Panels, NEW sees \in BOOLEAN,
         \/ \E session \in {"session", "other"} : SurfaceDisplaysSession(p, session, sees)
         \/ SurfaceVisibilityChanged(p, sees)
         \/ SurfaceCapacityChanged(p, sees)
         \/ SurfaceReleased(p)
  PROVE  Settled(watch') /\ watch'.attached = watch.attached /\ watch'.archived = watch.archived
<1>1. Consistent(watch) /\ watch \in Watches
  BY DEF Settled, Consistent
<1>2. ASSUME NEW session \in {"session", "other"}, SurfaceDisplaysSession(p, session, sees)
      PROVE  Settled(watch') /\ watch'.attached = watch.attached /\ watch'.archived = watch.archived
  <2> DEFINE w == IF session = "session" THEN [watch EXCEPT !.removed = FALSE] ELSE watch
             v == [w EXCEPT !.shows[p] = session,
                            !.visible = IF sees THEN @ \cup {p} ELSE @ \ {p}]
             same == w.shows[p] = session /\ (p \in w.visible) = sees
  <2>1. watch' = IF same THEN w
                 ELSE IF session = "session" THEN Evaluate(ByPanel(v, p, sees))
                 ELSE IF w.shows[p] = "session" THEN Evaluate(ByPanel(v, p, FALSE))
                 ELSE v
    BY <1>2 DEF SurfaceDisplaysSession
  <2>2. /\ Consistent(w) /\ w.shows = watch.shows /\ w.attached = watch.attached
        /\ w.archived = watch.archived /\ (session = "session" => ~w.removed)
        /\ (session = "other" => w = watch)
    BY <1>1, UnremovedConsistent
  <2>3. same => w = watch
    BY <1>1, <2>2 DEF Consistent, PanelsCounted, Watches
  <2> HIDE DEF w
  <2>4. w \in Watches
    BY <2>2 DEF Consistent
  <2>5. /\ v \in Watches /\ SameFlags(v, w) /\ v.entry = w.entry /\ v.streams = w.streams
        /\ v.blocked = w.blocked /\ v.shows = [w.shows EXCEPT ![p] = session]
        /\ v.visible = IF sees THEN w.visible \cup {p} ELSE w.visible \ {p}
    BY <2>4 DEF Watches, SameFlags
  <2> HIDE DEF v
  <2>6. OtherPanels(v, w, p) /\ v.shows[p] = session /\ (p \in v.visible <=> sees)
    BY <2>2, <2>4, <2>5 DEF OtherPanels, Watches, SameFlags, Consistent, PanelsCounted
  <2>7. CASE same
    BY <2>1, <2>3, <2>7
  <2>8. CASE ~same /\ session = "session"
    <3>1. Consistent(ByPanel(v, p, sees)) /\ SameFlags(ByPanel(v, p, sees), w)
      BY <2>2, <2>5, <2>6, <2>8, ByPanelConsistent
    <3> QED  BY <2>1, <2>2, <2>8, <3>1, EvaluateSettles DEF SameFlags
  <2>9. CASE ~same /\ session = "other" /\ w.shows[p] = "session"
    <3>1. Consistent(ByPanel(v, p, FALSE)) /\ SameFlags(ByPanel(v, p, FALSE), w)
      BY <2>2, <2>5, <2>6, <2>9, ByPanelConsistent
    <3> QED  BY <2>1, <2>2, <2>9, <3>1, EvaluateSettles DEF SameFlags
  <2>10. CASE ~same /\ session = "other" /\ w.shows[p] # "session"
    <3>1. Settled(v) /\ SameFlags(v, w)
      BY <2>2, <2>5, <2>6, <2>10, ElsewhereSettled
    <3> QED  BY <2>1, <2>2, <2>10, <3>1 DEF SameFlags
  <2> QED  BY <2>7, <2>8, <2>9, <2>10
<1>3. ASSUME SurfaceVisibilityChanged(p, sees)
      PROVE  Settled(watch') /\ watch'.attached = watch.attached /\ watch'.archived = watch.archived
  <2> DEFINE v == [watch EXCEPT !.visible = IF sees THEN @ \cup {p} ELSE @ \ {p}]
  <2>1. /\ watch.shows[p] # "nothing"
        /\ watch' = IF watch.shows[p] = "session" THEN Evaluate(ByPanel(v, p, sees)) ELSE v
    BY <1>3 DEF SurfaceVisibilityChanged
  <2>2. /\ v \in Watches /\ SameFlags(v, watch) /\ v.entry = watch.entry
        /\ v.streams = watch.streams /\ v.blocked = watch.blocked /\ v.shows = watch.shows
        /\ v.visible = IF sees THEN watch.visible \cup {p} ELSE watch.visible \ {p}
    BY <1>1 DEF Watches, SameFlags
  <2> HIDE DEF v
  <2>3. OtherPanels(v, watch, p) /\ (p \in v.visible <=> sees)
    BY <1>1, <2>1, <2>2 DEF OtherPanels, Watches, SameFlags, Consistent, PanelsCounted
  <2>4. CASE watch.shows[p] = "session"
    <3>1. Consistent(ByPanel(v, p, sees)) /\ SameFlags(ByPanel(v, p, sees), watch)
      BY <1>1, <2>2, <2>3, <2>4, ByPanelConsistent
    <3> QED  BY <2>1, <2>4, <3>1, EvaluateSettles DEF SameFlags
  <2>5. CASE watch.shows[p] # "session"
    <3>1. Settled(v) /\ SameFlags(v, watch)
      BY <2>2, <2>3, <2>5, ElsewhereSettled
    <3> QED  BY <2>1, <2>5, <3>1 DEF SameFlags
  <2> QED  BY <2>4, <2>5
<1>4. ASSUME SurfaceCapacityChanged(p, sees)
      PROVE  Settled(watch') /\ watch'.attached = watch.attached /\ watch'.archived = watch.archived
  <2> DEFINE v == [watch EXCEPT !.blocked = IF sees THEN @ \ {p} ELSE @ \cup {p}]
  <2>1. watch' = IF watch.shows[p] = "session" THEN Evaluate(v) ELSE v
    BY <1>4 DEF SurfaceCapacityChanged
  <2>2. /\ v \in Watches /\ SameFlags(v, watch) /\ v.entry = watch.entry
        /\ v.streams = watch.streams /\ v.visible = watch.visible /\ v.shows = watch.shows
        /\ v.blocked = IF sees THEN watch.blocked \ {p} ELSE watch.blocked \cup {p}
    BY <1>1 DEF Watches, SameFlags
  <2> HIDE DEF v
  <2>3. Consistent(v)
    BY <1>1, <2>2 DEF Consistent, PanelsCounted, SeeingIn, RecordAgrees, NothingOpen, SameFlags
  <2>4. CASE watch.shows[p] = "session"
    BY <2>1, <2>2, <2>3, <2>4, EvaluateSettles DEF SameFlags
  <2>5. CASE watch.shows[p] # "session"
    <3>1. OtherPanels(v, watch, p)
      BY <1>1, <2>2 DEF OtherPanels, SameFlags, Consistent, PanelsCounted, Watches
    <3>2. Settled(v) /\ SameFlags(v, watch)
      BY <2>2, <2>5, <3>1, ElsewhereSettled
    <3> QED  BY <2>1, <2>5, <3>2 DEF SameFlags
  <2> QED  BY <2>4, <2>5
<1>5. ASSUME SurfaceReleased(p)
      PROVE  Settled(watch') /\ watch'.attached = watch.attached /\ watch'.archived = watch.archived
  <2> DEFINE v == [watch EXCEPT !.shows[p] = "nothing", !.blocked = @ \ {p},
                                !.visible = @ \ {p}]
  <2>1. watch' = IF watch.shows[p] = "session" THEN Evaluate(ByPanel(v, p, FALSE)) ELSE v
    BY <1>5 DEF SurfaceReleased
  <2>2. /\ v \in Watches /\ SameFlags(v, watch) /\ v.entry = watch.entry
        /\ v.streams = watch.streams /\ v.visible = watch.visible \ {p}
        /\ v.shows = [watch.shows EXCEPT ![p] = "nothing"]
        /\ v.blocked = watch.blocked \ {p}
    BY <1>1 DEF Watches, SameFlags
  <2> HIDE DEF v
  <2>3. OtherPanels(v, watch, p) /\ v.shows[p] = "nothing"
    BY <1>1, <2>2 DEF OtherPanels, SameFlags, Watches
  <2>4. CASE watch.shows[p] = "session"
    <3>1. Consistent(ByPanel(v, p, FALSE)) /\ SameFlags(ByPanel(v, p, FALSE), watch)
      BY <1>1, <2>2, <2>3, ByPanelConsistent
    <3> QED  BY <2>1, <2>4, <3>1, EvaluateSettles DEF SameFlags
  <2>5. CASE watch.shows[p] # "session"
    <3>1. Settled(v) /\ SameFlags(v, watch)
      BY <2>2, <2>3, <2>5, ElsewhereSettled
    <3> QED  BY <2>1, <2>5, <3>1 DEF SameFlags
  <2> QED  BY <2>4, <2>5
<1> QED  BY <1>2, <1>3, <1>4, <1>5

-----------------------------------------------------------------------------
(* The steps. *)

\* The wires a link begins with.
LEMMA FirstWires == <<>> \in Seq(Events) /\ <<"asks">> \in Seq(Events)
<1>1. "asks" \in Events
  BY DEF Events
<1> QED  BY <1>1

\* In the first state nothing is known and nothing is open.
LEMMA FollowInitInv == FollowInit => FollowInv
<1> SUFFICES ASSUME FollowInit PROVE FollowInv
  OBVIOUS
<1>1. NoStreams \in AdapterStreams /\ ~NoStreams.follow /\ ~NoStreams.announced
      /\ ~NoStreams.rows /\ ~NoStreams.shut
  BY DEF NoStreams, AdapterStreams
<1> HIDE DEF NoStreams
<1>2. /\ watch \in Watches /\ watch.streams = NoStreams /\ watch.entry = NoEntry
      /\ ~watch.attached /\ ~watch.removed /\ ~watch.archived /\ watch.visible = {}
  BY <1>1 DEF FollowInit, Watches
<1>3. Settled(watch)
  BY <1>1, <1>2 DEF Settled, Consistent, PanelsCounted, StreamsPaired, RecordAgrees, NothingOpen,
                    Followed
<1>4. seed \in SeedReads /\ seed.phase = "none"
  BY DEF FollowInit, SeedReads, NoSeed
<1>5. host \in Hosts /\ link \in BOOLEAN /\ wire \in Seq(Events) /\ wire = <<>> /\ ~link
  BY FirstWires DEF FollowInit, Hosts
<1> QED  BY <1>2, <1>3, <1>4, <1>5 DEF FollowInv, SourcesQuiet

\* A new backend: the streams of what is displayed are opened again.
LEMMA AttachStep ==
  ASSUME FollowInv, Attach
  PROVE  FollowInv'
<1> DEFINE e == IF Seeing = {} THEN NoEntry ELSE [NewEntry EXCEPT !.by = Seeing]
           u == [watch EXCEPT !.attached = TRUE, !.removed = FALSE, !.archived = FALSE,
                              !.streams = NoStreams, !.entry = e]
<1>1. Consistent(watch) /\ watch \in Watches /\ Seeing = SeeingIn(watch)
  BY DEF FollowInv, Settled, Consistent, Seeing, SeeingIn
<1>2. NoStreams \in AdapterStreams /\ ~NoStreams.follow /\ ~NoStreams.announced
      /\ ~NoStreams.rows /\ ~NoStreams.shut
  BY DEF NoStreams, AdapterStreams
<1> HIDE DEF NoStreams
<1>3. Seeing \in SUBSET Panels
  BY <1>1 DEF SeeingIn, Watches
<1>4. [NewEntry EXCEPT !.by = Seeing] \in Entries
  BY <1>3 DEF NewEntry, Entries
<1>5. e \in Entries \cup {NoEntry} /\ Seeing = IF e = NoEntry THEN {} ELSE e.by
  BY <1>3, <1>4, NoEntryAssumption DEF NewEntry
<1>6. e # NoEntry => ~e.intent /\ ~e.jobs /\ ~e.rowsOnly
  BY DEF NewEntry
<1> HIDE DEF e
<1>7. /\ u \in Watches /\ u.shows = watch.shows /\ u.visible = watch.visible /\ u.entry = e
      /\ u.streams = NoStreams /\ u.attached /\ ~u.removed /\ ~u.archived
  BY <1>1, <1>2, <1>5 DEF Watches
<1>8. watch' = Evaluate(u)
  BY DEF Attach, e
<1> HIDE DEF u
<1>9. Consistent(u)
  BY <1>1, <1>2, <1>5, <1>6, <1>7
  DEF Consistent, PanelsCounted, SeeingIn, StreamsPaired, RecordAgrees
<1>10. Settled(watch') /\ watch'.attached /\ ~watch'.archived
  BY <1>7, <1>8, <1>9, EvaluateSettles DEF SameFlags
<1>11. seed' \in SeedReads
  BY DEF Attach, Seeding, SeedReads, NoSeed
<1>12. host' \in Hosts /\ link' \in BOOLEAN /\ wire' \in Seq(Events)
  BY FirstWires DEF Attach, FollowInv
<1> QED  BY <1>10, <1>11, <1>12 DEF FollowInv, SourcesQuiet

\* Without a backend nothing is left.
LEMMA DetachStep ==
  ASSUME FollowInv, Detach
  PROVE  FollowInv'
<1>1. Consistent(watch) /\ watch \in Watches
  BY DEF FollowInv, Settled, Consistent
<1>2. NoStreams \in AdapterStreams /\ ~NoStreams.follow /\ ~NoStreams.announced
      /\ ~NoStreams.rows /\ ~NoStreams.shut
  BY DEF NoStreams, AdapterStreams
<1> HIDE DEF NoStreams
<1>3. /\ watch' \in Watches /\ watch'.shows = watch.shows /\ watch'.visible = watch.visible
      /\ watch'.entry = NoEntry /\ watch'.streams = NoStreams /\ ~watch'.attached
      /\ ~watch'.removed /\ ~watch'.archived
  BY <1>1, <1>2 DEF Detach, Watches
<1>4. Settled(watch')
  BY <1>1, <1>2, <1>3 DEF Settled, Consistent, PanelsCounted, StreamsPaired, RecordAgrees,
                          NothingOpen, Followed
<1>5. seed' \in SeedReads /\ seed'.phase = "none"
  BY DEF Detach, SeedReads, NoSeed
<1>6. host' \in Hosts /\ link' = FALSE /\ wire' = <<>> /\ wire' \in Seq(Events)
  BY DEF Detach, FollowInv
<1> QED  BY <1>3, <1>4, <1>5, <1>6 DEF FollowInv, SourcesQuiet

\* The link is lost, or comes back.
LEMMA LinkStep ==
  ASSUME FollowInv, LinkLost \/ LinkRestored
  PROVE  FollowInv'
<1>1. CASE LinkLost
  <2>1. Settled(watch') /\ SameFlags(watch', watch)
    BY <1>1, UnasksSettles DEF LinkLost, LostEvent, FollowInv, SameFlags
  <2>2. seed' \in SeedReads /\ seed'.phase = "none"
    BY <1>1 DEF LinkLost, SeedReads, NoSeed
  <2>3. /\ host' \in Hosts /\ host' = host /\ link' = FALSE /\ wire' = <<>>
        /\ wire' \in Seq(Events) /\ watch.attached
    BY <1>1 DEF LinkLost, FollowInv
  <2> QED  BY <2>1, <2>2, <2>3 DEF FollowInv, SourcesQuiet, SameFlags
<1>2. CASE LinkRestored
  <2>1. seed' \in SeedReads
    BY <1>2 DEF LinkRestored, Seeding, SeedReads, NoSeed
  <2>2. /\ watch' = watch /\ host' = host /\ link' = TRUE /\ watch.attached
        /\ wire' \in Seq(Events) /\ (~host.asks => wire' = <<>>)
    BY <1>2, FirstWires DEF LinkRestored, FollowInv
  <2> QED  BY <2>1, <2>2 DEF FollowInv, SourcesQuiet
<1> QED  BY <1>1, <1>2

\* What the host sends is an event, and nothing goes out without a backend.
LEMMA Sending ==
  ASSUME FollowInv, NEW event \in Events, Sends(event), ~watch.archived
  PROVE  /\ wire' \in Seq(Events) /\ link' = link /\ watch' = watch /\ seed' = seed
         /\ SourcesQuiet'
BY DEF FollowInv, Sends, SourcesQuiet

\* The session at the host.
LEMMA HostStep ==
  ASSUME FollowInv,
         HostTurn \/ HostInteraction \/ HostJobs \/ HostRemoves \/ HostAdds \/ HostArchives
  PROVE  FollowInv'
<1> USE DEF FollowInv
<1>1. watch.streams.shut <=> watch.archived
  BY DEF Settled, Consistent
<1>2. CASE HostTurn
  BY <1>1, <1>2, Sending DEF HostTurn, Hosts, Events
<1>3. CASE HostInteraction
  BY <1>1, <1>3, Sending DEF HostInteraction, Hosts, Events
<1>4. CASE HostRemoves
  BY <1>1, <1>4, Sending DEF HostRemoves, Hosts, Events
<1>5. CASE HostAdds
  <2>1. ~watch.archived
    BY <1>5 DEF HostAdds, SourcesQuiet
  <2> QED  BY <2>1, <1>5, Sending DEF HostAdds, Hosts, Events
<1>6. CASE HostJobs
  <2> DEFINE a == [watch.streams EXCEPT !.told = FALSE]
  <2>1. watch \in Watches /\ Consistent(watch) /\ watch.streams \in AdapterStreams
    BY DEF Settled, Consistent, Watches
  <2>2. watch' = [watch EXCEPT !.streams = a]
    BY <1>6, <2>1 DEF HostJobs, Watches
  <2>3. /\ a \in AdapterStreams /\ a.shut = watch.streams.shut /\ a.rows = watch.streams.rows
        /\ a.preview = watch.streams.preview /\ a.announced = watch.streams.announced
        /\ a.follow = watch.streams.follow /\ StreamsPaired(a)
    BY <2>1 DEF AdapterStreams, Consistent, StreamsPaired, Enabled
  <2> HIDE DEF a
  <2>4. Settled(watch') /\ SameFlags(watch', watch)
    BY <2>1, <2>2, <2>3, StreamsSettled DEF Consistent, NothingOpen, SameRest
  <2>5. host' \in Hosts /\ host'.exists = host.exists /\ host'.asks = host.asks
        /\ link' = link /\ wire' = wire /\ seed' = seed
    BY <1>6 DEF HostJobs, Hosts
  <2> QED  BY <2>4, <2>5 DEF SourcesQuiet, SameFlags
<1>7. CASE HostArchives
  <2>1. watch \in Watches /\ Consistent(watch) /\ watch.streams \in AdapterStreams
    BY DEF Settled, Consistent, Watches
  <2>2. CASE watch.archived
    <3> DEFINE a == [watch.streams EXCEPT !.shut = FALSE]
               u == [watch EXCEPT !.archived = FALSE, !.streams = a]
    <3>1. watch' = Evaluate(u)
      BY <1>7, <2>1, <2>2 DEF HostArchives, UnarchivedEvent, Watches
    <3>2. /\ a \in AdapterStreams /\ ~a.shut /\ ~a.follow /\ ~a.rows /\ ~a.announced
      BY <2>1, <2>2 DEF AdapterStreams, Consistent, NothingOpen, StreamsPaired
    <3> HIDE DEF a
    <3>3. /\ u \in Watches /\ u.shows = watch.shows /\ u.visible = watch.visible
          /\ u.entry = watch.entry /\ u.streams = a /\ ~u.archived
          /\ u.attached = watch.attached /\ u.removed = watch.removed
      BY <2>1, <3>2 DEF Watches
    <3> HIDE DEF u
    <3>4. watch.entry # NoEntry => ~watch.entry.intent /\ ~watch.entry.jobs /\ ~watch.entry.rowsOnly
      BY <2>1, <2>2 DEF Consistent, NothingOpen, NewEntry
    <3>5. Consistent(u)
      BY <2>1, <2>2, <3>2, <3>3, <3>4
      DEF Consistent, PanelsCounted, SeeingIn, StreamsPaired, RecordAgrees, NothingOpen
    <3>6. Settled(watch') /\ SameFlags(watch', u)
      BY <3>1, <3>5, EvaluateSettles
    <3> QED  BY <1>7, <3>3, <3>6 DEF HostArchives, SourcesQuiet, SameFlags
  <2>3. CASE ~watch.archived
    <3> DEFINE a == [UnwatchSession(watch.streams, FALSE) EXCEPT !.shut = TRUE]
               u == [watch EXCEPT !.archived = TRUE, !.entry = NoEntry, !.streams = a]
    <3>1. watch' = Undisplayed(u)
      BY <1>7, <2>1, <2>3 DEF HostArchives, ArchivedEvent, Watches
    <3>2. a \in AdapterStreams /\ ~a.follow /\ ~a.rows /\ ~a.announced /\ a.shut
      BY <2>1 DEF UnwatchSession, AdapterStreams
    <3> HIDE DEF a
    <3>3. /\ u \in Watches /\ u.shows = watch.shows /\ u.visible = watch.visible
          /\ u.attached = watch.attached /\ u.archived /\ u.entry = NoEntry /\ u.streams = a
      BY <2>1, <3>2 DEF Watches
    <3> HIDE DEF u
    <3>4. Settled(watch') /\ SameFlags(watch', u)
      BY <2>1, <3>1, <3>2, <3>3, GoneSettled DEF Consistent
    <3> QED  BY <1>7, <3>3, <3>4 DEF HostArchives, SourcesQuiet, SameFlags
  <2> QED  BY <2>2, <2>3
<1> QED  BY <1>2, <1>3, <1>4, <1>5, <1>6, <1>7

\* An event arrives; what the seed has noted of it is typed.
LEMMA EventArrivesStep ==
  ASSUME FollowInv, EventArrives
  PROVE  FollowInv'
<1>1. wire \in Seq(Events) /\ wire # <<>> /\ wire' = Tail(wire)
  BY DEF FollowInv, EventArrives
<1>2. Head(wire) \in Events /\ wire' \in Seq(Events)
  BY <1>1
<1>3. watch.attached /\ ~watch.archived
  BY <1>1 DEF FollowInv, SourcesQuiet
<1>4. watch' = HostEvent(watch, Head(wire))
  BY DEF EventArrives
<1>5. Settled(watch') /\ watch'.attached /\ ~watch'.archived
  BY <1>2, <1>3, <1>4, HostEventSettles DEF FollowInv
<1>6. seed' \in SeedReads /\ host' = host /\ link' = link
  <2>1. watch.removed \in BOOLEAN /\ watch.archived \in BOOLEAN
    BY DEF FollowInv, Settled, Consistent, Watches
  <2> QED  BY <2>1 DEF EventArrives, FollowInv, SeedReads, Seeds, Listing
<1> QED  BY <1>2, <1>5, <1>6 DEF FollowInv, SourcesQuiet

\* What the adapter's streams bring, and what opens them again.
LEMMA StreamStep ==
  ASSUME FollowInv,
         SubscribedArrives \/ FollowReopens \/ PreviewTurns \/ JobRowsArrive \/ RepositoryReads
  PROVE  FollowInv'
<1>1. /\ watch \in Watches /\ Consistent(watch) /\ watch.streams \in AdapterStreams
      /\ Settled(watch) /\ host \in Hosts
  BY DEF FollowInv, Settled, Consistent, Watches
<1>2. SUFFICES /\ Settled(watch') /\ watch'.attached = watch.attached
               /\ watch'.archived = watch.archived /\ seed' \in SeedReads
               /\ seed'.phase = seed.phase
  BY DEF FollowInv, SourcesQuiet, SubscribedArrives, FollowReopens, PreviewTurns, JobRowsArrive,
         RepositoryReads
<1>3. CASE SubscribedArrives
  BY <1>1, <1>3, SubscribedSettles DEF SubscribedArrives, FollowInv, SameFlags
<1>4. CASE FollowReopens \/ PreviewTurns
  <2> DEFINE b == Reopened(watch.streams)
             c == [b EXCEPT !.turning = FALSE]
  <2>1. /\ b \in AdapterStreams /\ b.shut = watch.streams.shut /\ b.rows = watch.streams.rows
        /\ b.preview = watch.streams.preview /\ ~b.announced
        /\ b.follow = watch.streams.follow /\ StreamsPaired(b)
    BY <1>1 DEF Reopened, AdapterStreams, Consistent, StreamsPaired, Enabled
  <2>2. /\ c \in AdapterStreams /\ c.shut = watch.streams.shut /\ c.rows = watch.streams.rows
        /\ c.preview = watch.streams.preview /\ ~c.announced
        /\ c.follow = watch.streams.follow /\ StreamsPaired(c)
    BY <1>1 DEF Reopened, AdapterStreams, Consistent, StreamsPaired, Enabled
  <2>3. watch' = [watch EXCEPT !.streams = b] \/ watch' = [watch EXCEPT !.streams = c]
    BY <1>1, <1>4 DEF FollowReopens, PreviewTurns, Watches
  <2>4. seed' = seed
    BY <1>4 DEF FollowReopens, PreviewTurns
  <2> HIDE DEF b, c
  <2>5. ~watch.attached \/ watch.removed \/ watch.archived =>
          ~watch.streams.follow /\ ~watch.streams.rows
    BY <1>1 DEF Consistent, NothingOpen
  <2>6. Settled(watch') /\ SameRest(watch', watch)
    BY <1>1, <2>1, <2>2, <2>3, <2>5, StreamsSettled
  <2> QED  BY <2>4, <2>6 DEF FollowInv, SameRest, SameFlags
<1>5. CASE JobRowsArrive
  <2> DEFINE a == [watch.streams EXCEPT !.told = TRUE]
             u == [watch EXCEPT !.streams = a]
  <2>1. /\ watch' = JobsEvent(u, host.jobs) /\ host.jobs \in BOOLEAN
        /\ watch.streams.rows
    BY <1>1, <1>5 DEF JobRowsArrive, Watches, Hosts
  <2>2. /\ a \in AdapterStreams /\ a.shut = watch.streams.shut /\ a.rows = watch.streams.rows
        /\ a.preview = watch.streams.preview /\ a.announced = watch.streams.announced
        /\ a.follow = watch.streams.follow /\ StreamsPaired(a)
    BY <1>1 DEF AdapterStreams, Consistent, StreamsPaired, Enabled
  <2> HIDE DEF a
  <2>3. Settled(u) /\ SameRest(u, watch)
    BY <1>1, <2>2, StreamsSettled DEF Consistent, NothingOpen
  <2>4. watch.attached
    BY <1>1, <2>1 DEF Consistent, NothingOpen
  <2> HIDE DEF u
  <2>5. Settled(watch') /\ SameFlags(watch', u)
    BY <2>1, <2>3, <2>4, JobsSettles DEF SameRest, SameFlags
  <2>6. seed' \in SeedReads /\ seed'.phase = seed.phase
    BY <1>1, <1>5 DEF JobRowsArrive, FollowInv, SeedReads, Seeds, Watches
  <2> QED  BY <2>3, <2>5, <2>6 DEF SameRest, SameFlags
<1>6. CASE RepositoryReads
  <2> DEFINE a == WatchSession(watch.streams)
  <2>1. watch.attached /\ ~watch.removed /\ seed' = seed
    BY <1>6 DEF RepositoryReads
  <2>2. watch' = [watch EXCEPT !.streams = a]
    BY <1>1, <1>6 DEF RepositoryReads, Watches
  <2>3. /\ a \in AdapterStreams /\ a.shut = watch.streams.shut
        /\ a.preview = watch.streams.preview /\ StreamsPaired(a)
        /\ (a.announced => watch.streams.announced)
        /\ (watch.streams.follow => a.follow) /\ (watch.streams.rows => a.rows)
        /\ (watch.streams.shut => a = watch.streams)
    BY <1>1 DEF WatchSession, AdapterStreams, Consistent, StreamsPaired, Enabled
  <2> HIDE DEF a
  <2>4. Settled(watch') /\ SameRest(watch', watch)
    BY <1>1, <2>1, <2>2, <2>3, StreamsSettled DEF Consistent, NothingOpen
  <2> QED  BY <2>1, <2>4 DEF FollowInv, SameRest, SameFlags
<1> QED  BY <1>3, <1>4, <1>5, <1>6

\* The delayed release.
LEMMA TimerStep ==
  ASSUME FollowInv, UnwatchTimerFires
  PROVE  FollowInv'
<1> DEFINE u == CancelTimer(watch)
<1>1. /\ watch \in Watches /\ Consistent(watch) /\ Settled(watch)
      /\ watch.entry # NoEntry /\ watch.entry.timer /\ watch.entry \in Entries
  BY DEF FollowInv, Settled, Consistent, Watches, UnwatchTimerFires
<1>2. watch.attached /\ ~watch.removed /\ ~watch.archived
  BY <1>1 DEF Consistent, NothingOpen, NewEntry
<1>3. watch' = IF Followed(u) THEN u ELSE Release(u)
  BY DEF UnwatchTimerFires
<1>4. /\ Consistent(u) /\ SameRest(u, watch) /\ u.streams = watch.streams
      /\ u.entry = [watch.entry EXCEPT !.timer = FALSE] /\ u.entry # NoEntry
  BY <1>1, TimerConsistent DEF CancelTimer
<1> HIDE DEF u
<1>5. /\ u.entry.by = watch.entry.by /\ u.entry.status = watch.entry.status
      /\ u.entry.asks = watch.entry.asks /\ u.entry.jobs = watch.entry.jobs
      /\ u.entry.rowsOnly = watch.entry.rowsOnly
  BY <1>1, <1>4 DEF Entries
<1>6. Settled(watch') /\ SameFlags(watch', watch)
  <2>1. CASE Followed(u)
    BY <1>1, <1>3, <1>4, <1>5, <2>1 DEF Settled, Followed, Enabled, SameRest, SameFlags
  <2>2. CASE ~Followed(u)
    BY <1>2, <1>3, <1>4, <2>2, ReleaseSettles DEF SameRest, SameFlags
  <2> QED  BY <2>1, <2>2
<1> QED  BY <1>6 DEF FollowInv, SourcesQuiet, SameFlags, UnwatchTimerFires

\* The reads of the directory and of the job list.
LEMMA SeedStep ==
  ASSUME FollowInv,
         DirectoryAnswers \/ ApplyDirectory \/ JobListAnswers \/ ApplyJobList \/ SeedFails
  PROVE  FollowInv'
<1> USE DEF FollowInv
<1>1. CASE DirectoryAnswers \/ JobListAnswers \/ SeedFails
  <2>1. seed' \in SeedReads /\ seed.phase # "none"
    <3>1. CASE DirectoryAnswers
      BY <3>1 DEF DirectoryAnswers, SeedReads, Hosts
    <3>2. CASE JobListAnswers
      BY <3>2 DEF JobListAnswers, SeedReads, Hosts
    <3>3. CASE SeedFails
      <4>1. NoSeed \in SeedReads
        BY DEF NoSeed, SeedReads
      <4> DEFINE c == seed.phase \in {"jobsAsked", "jobsAnswered"}
      <4>2. seed' = [NoSeed EXCEPT !.complete = c] /\ c \in BOOLEAN
        BY <3>3 DEF SeedFails
      <4> HIDE DEF NoSeed, c
      <4>3. seed' \in SeedReads
        BY <4>1, <4>2 DEF SeedReads
      <4> QED  BY <3>3, <4>3 DEF SeedFails
    <3> QED  BY <1>1, <3>1, <3>2, <3>3
  <2> QED  BY <1>1, <2>1 DEF DirectoryAnswers, JobListAnswers, SeedFails, SourcesQuiet
<1>2. CASE ApplyDirectory
  <2>1. watch.attached /\ seed.phase = "answered"
    BY <1>2 DEF ApplyDirectory, SourcesQuiet
  <2>2. seed' \in SeedReads
    BY <1>2 DEF ApplyDirectory, SeedReads, NoSeed
  <2>3. Settled(watch') /\ SameFlags(watch', watch)
    <3> DEFINE status == IF seed.runs THEN "running" ELSE "idle"
               v == Evaluate([Recorded(watch) EXCEPT !.entry.status = status])
    <3>1. CASE Accepts(seed) /\ (seed.runs \/ watch.entry # NoEntry)
      <4>1. watch' = v
        BY <1>2, <3>1 DEF ApplyDirectory
      <4>2. ~watch.removed /\ ~watch.archived /\ status \in {"unknown", "running", "idle"}
        BY <3>1 DEF Accepts
      <4> HIDE DEF status
      <4>3. Settled(v) /\ SameFlags(v, watch)
        BY <2>1, <4>2, StatusSettles
      <4> QED  BY <4>1, <4>3
    <3>2. CASE ~(Accepts(seed) /\ (seed.runs \/ watch.entry # NoEntry))
      BY <1>2, <3>2 DEF ApplyDirectory, SameFlags
    <3> QED  BY <3>1, <3>2
  <2> QED  BY <1>2, <2>1, <2>2, <2>3 DEF ApplyDirectory, SourcesQuiet, SameFlags
<1>3. CASE ApplyJobList
  <2>1. watch.attached /\ seed.jobs \in BOOLEAN
    BY <1>3 DEF ApplyJobList, SourcesQuiet, SeedReads
  <2>2. seed' \in SeedReads
    BY <1>3 DEF ApplyJobList, SeedReads, NoSeed
  <2>3. Settled(watch') /\ SameFlags(watch', watch)
    BY <1>3, <2>1, JobsSettles DEF ApplyJobList, SameFlags
  <2> QED  BY <1>3, <2>1, <2>2, <2>3 DEF ApplyJobList, SourcesQuiet, SameFlags
<1> QED  BY <1>1, <1>2, <1>3

-----------------------------------------------------------------------------
(* The invariant and what follows from it. *)

\* Every step keeps it.
LEMMA FollowNextInv == FollowInv /\ [FollowNext]_followVars => FollowInv'
<1> SUFFICES ASSUME FollowInv, [FollowNext]_followVars PROVE FollowInv'
  OBVIOUS
<1>1. ASSUME NEW p \in Panels, NEW sees \in BOOLEAN,
             \/ \E session \in {"session", "other"} : SurfaceDisplaysSession(p, session, sees)
             \/ SurfaceVisibilityChanged(p, sees)
             \/ SurfaceCapacityChanged(p, sees)
             \/ SurfaceReleased(p)
      PROVE  FollowInv'
  <2>1. Settled(watch') /\ watch'.attached = watch.attached /\ watch'.archived = watch.archived
    BY <1>1, SurfaceStep DEF FollowInv
  <2>2. UNCHANGED <<host, link, wire, seed>>
    BY <1>1 DEF SurfaceDisplaysSession, SurfaceVisibilityChanged, SurfaceCapacityChanged,
                SurfaceReleased
  <2> QED  BY <2>1, <2>2 DEF FollowInv, SourcesQuiet
<1>2. CASE Attach \/ Detach
  BY <1>2, AttachStep, DetachStep
<1>3. CASE LinkLost \/ LinkRestored
  BY <1>3, LinkStep
<1>4. CASE HostTurn \/ HostInteraction \/ HostJobs \/ HostRemoves \/ HostAdds \/ HostArchives
  BY <1>4, HostStep
<1>5. CASE EventArrives
  BY <1>5, EventArrivesStep
<1>6. CASE \/ SubscribedArrives \/ FollowReopens \/ PreviewTurns \/ JobRowsArrive
           \/ RepositoryReads
  BY <1>6, StreamStep
<1>7. CASE UnwatchTimerFires
  BY <1>7, TimerStep
<1>8. CASE DirectoryAnswers \/ ApplyDirectory \/ JobListAnswers \/ ApplyJobList \/ SeedFails
  BY <1>8, SeedStep
<1>9. CASE UNCHANGED followVars
  BY <1>9 DEF followVars, FollowInv, SourcesQuiet
<1> QED  BY <1>1, <1>2, <1>3, <1>4, <1>5, <1>6, <1>7, <1>8, <1>9 DEF FollowNext

\* The invariant of the policy and of the streams it opens
\* (session-watch-coordinator.ts, versions/alpha/events.ts).
THEOREM FollowInvariance == FollowSpec => []FollowInv
BY FollowInitInv, FollowNextInv, PTL DEF FollowSpec

\* The record of the session counts exactly the panels that display it
\* (surfaceDisplaysSession() and its neighbours, session-watch-coordinator.ts).
THEOREM FollowTypeCorrect == FollowSpec => []FollowTypeOK
<1>1. FollowInv => FollowTypeOK
  BY DEF FollowInv, Settled, Consistent, Watches, PanelsCounted, SeeingIn, Seeing, FollowTypeOK
<1> QED  BY <1>1, FollowInvariance, PTL

\* What the user sees or must act on is streamed, with the preview it asks for
\* (evaluate(), session-watch-coordinator.ts).
THEOREM DemandIsServed == FollowSpec => []DemandIsStreamed
<1>1. FollowInv => DemandIsStreamed
  BY SettledIsWanted DEF FollowInv
<1> QED  BY <1>1, FollowInvariance, PTL

\* An announced stream that nothing demands has its delayed release pending
\* (evaluate(), session-watch-coordinator.ts).
THEOREM StreamsAreReclaimed == FollowSpec => []StreamsReclaimed
<1>1. FollowInv => StreamsReclaimed
  BY SettledIsWanted DEF FollowInv
<1> QED  BY <1>1, FollowInvariance, PTL

\* A released session that is known to have jobs keeps its Job stream, and only that
\* (release(), session-watch-coordinator.ts; unwatchSession(), versions/alpha/events.ts).
THEOREM JobRowsAreKept == FollowSpec => []JobRowsKept
<1>1. FollowInv => JobRowsKept
  BY SettledIsWanted DEF FollowInv
<1> QED  BY <1>1, FollowInvariance, PTL

-----------------------------------------------------------------------------
(* The policy knows what the host knows. *)

Asked(w) == w.entry # NoEntry /\ w.entry.asks
Running(w) == w.entry # NoEntry /\ w.entry.status = "running"

\* The events that say whether the host asks, and whether it runs a turn.
AskingEvents == {"asks", "answered", "removed"}
TurnEvents == {"running", "idle", "removed"}

SilentOn(s, kinds) == \A i \in 1 .. Len(s) : s[i] \notin kinds

\* The last event of these kinds is e exactly if v.
LastTells(s, kinds, e, v) ==
  \A i \in 1 .. Len(s) :
    s[i] \in kinds /\ (\A j \in 1 .. Len(s) : j > i => s[j] \notin kinds) => (s[i] = e <=> v)

Reborn == wire # <<>> /\ wire[1] = "added"

\* The end of a session is followed by nothing but its rebirth, and the policy
\* believes it gone until that has arrived.
CatalogueInOrder ==
  /\ \A i \in 1 .. Len(wire) - 1 : wire[i] = "removed" <=> wire[i + 1] = "added"
  /\ wire # <<>> => (wire[Len(wire)] = "removed" <=> ~host.exists)
  /\ watch.removed => Reborn \/ (wire = <<>> /\ ~host.exists)
  /\ ~host.exists => ~host.runs /\ ~host.asks
  /\ watch.archived => ~host.runs

\* What a lost link leaves behind.
CutOff ==
  /\ ~link => wire = <<>> /\ seed.phase = "none" /\ ~Asked(watch)
  /\ ~watch.attached => ~watch.removed

\* Once the wire tells nothing more of it the policy knows whether the user is asked.
AskingKnown ==
  link => /\ LastTells(wire, AskingEvents, "asks", host.asks)
          /\ SilentOn(wire, AskingEvents) => (Asked(watch) <=> host.asks)

\* And whether a turn runs, unless the answer of the directory is still to come
\* or could not be had; an answer nothing has overtaken is true.
TurnKnown ==
  /\ link => LastTells(wire, TurnEvents, "running", host.runs)
  /\ SilentOn(wire, TurnEvents) =>
       /\ link => \/ Running(watch) <=> host.runs
                  \/ /\ ~seed.statusChanged
                     /\ seed.phase = "asked" \/ (seed.phase = "answered" /\ seed.listed)
                  \/ seed.phase = "none" /\ ~seed.complete
       /\ seed.phase = "answered" /\ seed.listed /\ ~seed.statusChanged =>
            (seed.runs <=> host.runs)
       /\ ~host.exists \/ Reborn => ~Running(watch) /\ ~host.runs

\* Together: what every step keeps of this.
PolicyInv == CatalogueInOrder /\ CutOff /\ AskingKnown /\ TurnKnown

\* What is sent is told last, or tells nothing.
LEMMA AppendTells ==
  ASSUME NEW s \in Seq(Events), NEW event \in Events, NEW kinds, NEW e, NEW v
  PROVE  LET t == Append(s, event) IN
         /\ event \notin kinds => /\ SilentOn(t, kinds) <=> SilentOn(s, kinds)
                                  /\ LastTells(s, kinds, e, v) => LastTells(t, kinds, e, v)
         /\ event \in kinds => /\ ~SilentOn(t, kinds)
                               /\ (event = e <=> v) => LastTells(t, kinds, e, v)
<1> DEFINE t == Append(s, event)
           n == Len(s)
<1>1. /\ n \in Nat /\ Len(t) = n + 1 /\ t[n + 1] = event
      /\ \A i \in 1 .. n : t[i] = s[i]
  OBVIOUS
<1> HIDE DEF t
<1>2. 1 .. Len(t) = (1 .. n) \cup {n + 1}
  BY <1>1
<1>3. ASSUME event \notin kinds
      PROVE  /\ SilentOn(t, kinds) <=> SilentOn(s, kinds)
             /\ LastTells(s, kinds, e, v) => LastTells(t, kinds, e, v)
  BY <1>1, <1>2, <1>3 DEF SilentOn, LastTells
<1>4. ASSUME event \in kinds PROVE ~SilentOn(t, kinds)
  BY <1>1, <1>2, <1>4 DEF SilentOn
<1>5. ASSUME event \in kinds, event = e <=> v PROVE LastTells(t, kinds, e, v)
  BY <1>1, <1>2, <1>5 DEF LastTells
<1> QED  BY <1>3, <1>4, <1>5 DEF t

\* What has arrived was the last to tell, or there is more to come.
LEMMA TailTells ==
  ASSUME NEW s \in Seq(Events), s # <<>>, NEW kinds, NEW e, NEW v
  PROVE  LET t == Tail(s) IN
         /\ LastTells(s, kinds, e, v) => LastTells(t, kinds, e, v)
         /\ Head(s) \notin kinds => (SilentOn(t, kinds) <=> SilentOn(s, kinds))
         /\ LastTells(s, kinds, e, v) /\ SilentOn(t, kinds) /\ Head(s) \in kinds =>
              (Head(s) = e <=> v)
<1> DEFINE t == Tail(s)
           n == Len(t)
<1>1. /\ n \in Nat /\ Len(s) = n + 1 /\ s[1] = Head(s)
      /\ \A i \in 1 .. n : t[i] = s[i + 1] /\ i + 1 \in 1 .. n + 1
  OBVIOUS
<1> HIDE DEF t
<1>2. \A j \in 1 .. Len(s) : j = 1 \/ (j - 1 \in 1 .. n /\ s[j] = t[j - 1])
  BY <1>1
<1>3. LastTells(s, kinds, e, v) => LastTells(t, kinds, e, v)
  <2> SUFFICES ASSUME LastTells(s, kinds, e, v), NEW i \in 1 .. n, t[i] \in kinds,
                      \A j \in 1 .. n : j > i => t[j] \notin kinds
               PROVE  t[i] = e <=> v
    BY DEF LastTells
  <2>1. i + 1 \in 1 .. Len(s) /\ s[i + 1] = t[i]
    BY <1>1
  <2>2. ASSUME NEW j \in 1 .. Len(s), j > i + 1 PROVE s[j] \notin kinds
    <3>1. j - 1 \in 1 .. n /\ s[j] = t[j - 1] /\ j - 1 > i
      BY <1>1, <1>2, <2>2
    <3> QED  BY <3>1
  <2> DEFINE k == i + 1
  <2>3. k \in 1 .. Len(s) /\ s[k] \in kinds /\ \A j \in 1 .. Len(s) : j > k => s[j] \notin kinds
    BY <2>1, <2>2
  <2>4. s[k] = t[i]
    BY <2>1
  <2> HIDE DEF k
  <2>5. s[k] = e <=> v
    BY <2>3 DEF LastTells
  <2> QED  BY <2>4, <2>5
<1>4. Head(s) \notin kinds => (SilentOn(t, kinds) <=> SilentOn(s, kinds))
  BY <1>1, <1>2 DEF SilentOn
<1>5. ASSUME LastTells(s, kinds, e, v), SilentOn(t, kinds), Head(s) \in kinds
      PROVE  Head(s) = e <=> v
  <2>1. \A j \in 1 .. Len(s) : j > 1 => s[j] \notin kinds
    BY <1>1, <1>2, <1>5 DEF SilentOn
  <2>2. 1 \in 1 .. Len(s)
    BY <1>1
  <2> QED  BY <1>1, <1>5, <2>1, <2>2 DEF LastTells
<1> QED  BY <1>3, <1>4, <1>5 DEF t

\* Of a session that is gone nothing is known.
Tame(w) == w \in Watches /\ (w.removed \/ w.archived => ~Asked(w) /\ ~Running(w))

Alike(v, w) ==
  /\ SameFlags(v, w)
  /\ Asked(v) <=> Asked(w)
  /\ Running(v) <=> Running(w)

\* A consistent record of a session that is gone is empty.
LEMMA ConsistentTame ==
  ASSUME NEW w, Consistent(w)
  PROVE  Tame(w) /\ (~w.attached => ~Asked(w) /\ ~Running(w))
BY DEF Consistent, NothingOpen, NewEntry, Tame, Asked, Running

\* Only asks and status of the record count.
LEMMA EntryAlike ==
  ASSUME NEW w \in Watches, w.entry # NoEntry, NEW e \in Entries,
         e.asks = w.entry.asks, e.status = w.entry.status
  PROVE  LET v == [w EXCEPT !.entry = e] IN
         /\ v \in Watches /\ Alike(v, w) /\ v.entry = e /\ v.entry # NoEntry
         /\ v.streams = w.streams
BY NoEntryAssumption DEF Watches, Alike, SameFlags, Asked, Running

\* A new record is alike to none.
LEMMA RecordedAlike ==
  ASSUME NEW w, Tame(w)
  PROVE  /\ Tame(Recorded(w)) /\ Alike(Recorded(w), w) /\ Recorded(w).entry \in Entries
         /\ Recorded(w).entry # NoEntry
<1>1. NewEntry \in Entries /\ ~NewEntry.asks /\ NewEntry.status # "running"
  BY DEF NewEntry, Entries
<1> QED
  BY <1>1, NoEntryAssumption
  DEF Recorded, Tame, Alike, SameFlags, Asked, Running, Watches

\* Opening streams changes nothing the policy knows.
LEMMA WatchAlike ==
  ASSUME NEW w, Tame(w), w.entry # NoEntry
  PROVE  Tame(Watch(w)) /\ Alike(Watch(w), w)
<1> DEFINE e == [w.entry EXCEPT !.intent = TRUE, !.rowsOnly = FALSE]
           a == IF w.entry.rowsOnly \/ ~w.entry.intent THEN WatchSession(w.streams) ELSE w.streams
<1>1. w \in Watches /\ w.entry \in Entries /\ w.streams \in AdapterStreams
  BY DEF Tame, Watches
<1>2. CASE ~w.attached \/ w.removed \/ w.archived
  BY <1>2 DEF Watch, Alike, SameFlags
<1>3. CASE ~(~w.attached \/ w.removed \/ w.archived)
  <2>1. Watch(w) = [w EXCEPT !.entry = e, !.streams = a]
    BY <1>1, <1>3 DEF Watch, Watches
  <2>2. e \in Entries /\ e.asks = w.entry.asks /\ e.status = w.entry.status
    BY <1>1 DEF Entries
  <2>3. a \in AdapterStreams
    BY <1>1 DEF WatchSession, AdapterStreams, Enabled
  <2> HIDE DEF e, a
  <2>4. /\ Watch(w) \in Watches /\ Watch(w).entry = e /\ e # NoEntry /\ SameFlags(Watch(w), w)
    BY <1>1, <2>1, <2>2, <2>3, NoEntryAssumption DEF Watches, SameFlags
  <2> QED  BY <1>3, <2>2, <2>4 DEF Tame, Alike, Asked, Running, SameFlags
<1> QED  BY <1>2, <1>3

\* Release forgets only what is neither asked nor running.
LEMMA ReleaseAlike ==
  ASSUME NEW w \in Watches, w.entry # NoEntry, ~Asked(w), ~Running(w)
  PROVE  Alike(Release(w), w)
<1> DEFINE a == IF w.attached THEN UnwatchSession(w.streams, w.entry.jobs) ELSE w.streams
           e == [w.entry EXCEPT !.intent = TRUE, !.rowsOnly = TRUE]
<1>1. w.entry \in Entries
  BY DEF Watches
<1>2. Release(w) = IF w.entry.jobs THEN [w EXCEPT !.streams = a, !.entry = e]
                                   ELSE [w EXCEPT !.streams = a, !.entry = NoEntry]
  BY <1>1 DEF Release, Watches
<1>3. e.asks = w.entry.asks /\ e.status = w.entry.status
  BY <1>1 DEF Entries
<1> HIDE DEF a, e
<1>4. SameFlags(Release(w), w) /\ Release(w).entry \in {e, NoEntry}
  BY <1>2 DEF Watches, SameFlags
<1> QED  BY <1>3, <1>4 DEF Alike, Asked, Running

\* Evaluate decides about streams, not about what is known.
LEMMA EvaluateAlike ==
  ASSUME NEW w, Tame(w)
  PROVE  Alike(Evaluate(w), w)
<1>1. CASE w.entry = NoEntry
  BY <1>1 DEF Evaluate, Alike, SameFlags
<1>2. CASE w.entry # NoEntry
  <2> DEFINE v == Previewed(w)
             on == v.entry.timer \/ (v.attached /\ v.entry.intent)
             Timed(t) == [v EXCEPT !.entry = [v.entry EXCEPT !.timer = t]]
  <2>1. /\ v \in Watches /\ v.entry = w.entry /\ SameFlags(v, w)
    <3> DEFINE a == SetSessionPreview(w.streams, w.entry.by \ w.blocked # {})
    <3>1. a \in AdapterStreams
      BY DEF Tame, Watches, AdapterStreams, SetSessionPreview
    <3>2. v = IF w.attached THEN [w EXCEPT !.streams = a] ELSE w
      BY DEF Previewed, Tame, Watches
    <3> HIDE DEF a, v
    <3> QED  BY <3>1, <3>2 DEF Tame, Watches, SameFlags
  <2>2. Tame(v) /\ Alike(v, w) /\ v.entry # NoEntry /\ v.entry \in Entries
    BY <1>2, <2>1 DEF Tame, Alike, Asked, Running, SameFlags, Watches
  <2>3. CancelTimer(v) = Timed(FALSE)
    BY <2>1, <2>2 DEF CancelTimer, Watches
  <2>4. [v EXCEPT !.entry.timer = @ \/ (v.attached /\ v.entry.intent)] = Timed(on)
    BY <2>1, <2>2 DEF Watches
  <2>5. on \in BOOLEAN
    BY <2>1, <2>2 DEF Watches, Entries
  <2>6. Evaluate(w) = CASE Followed(v) -> Watch(CancelTimer(v))
                        [] ~Followed(v) /\ v.entry.rowsOnly ->
                             IF v.entry.jobs THEN CancelTimer(v) ELSE Release(CancelTimer(v))
                        [] OTHER -> [v EXCEPT !.entry.timer = @ \/ (v.attached /\ v.entry.intent)]
    BY <1>2 DEF Evaluate
  <2> HIDE DEF v, on
  <2>7. ASSUME NEW t \in BOOLEAN
        PROVE  /\ Tame(Timed(t)) /\ Alike(Timed(t), v) /\ Timed(t).entry # NoEntry
    <3> DEFINE e == [v.entry EXCEPT !.timer = t]
    <3>1. e \in Entries /\ e.asks = v.entry.asks /\ e.status = v.entry.status
      BY <2>2 DEF Entries
    <3> HIDE DEF e
    <3>2. LET x == [v EXCEPT !.entry = e] IN
          x \in Watches /\ Alike(x, v) /\ x.entry # NoEntry
      BY <2>1, <2>2, <3>1, EntryAlike
    <3> QED  BY <2>2, <3>2 DEF e, Tame, Alike, SameFlags
  <2> HIDE DEF Timed
  <2>8. CASE Followed(v)
    <3>1. Evaluate(w) = Watch(Timed(FALSE))
      BY <2>3, <2>6, <2>8
    <3>2. Alike(Watch(Timed(FALSE)), Timed(FALSE))
      BY <2>7, WatchAlike
    <3> QED  BY <2>2, <2>7, <3>1, <3>2 DEF Alike, SameFlags
  <2>9. CASE ~Followed(v) /\ v.entry.rowsOnly
    <3>1. ~Asked(v) /\ ~Running(v)
      BY <2>2, <2>9 DEF Followed, Tame, Asked, Running
    <3>2. Tame(CancelTimer(v)) /\ Alike(CancelTimer(v), v) /\ CancelTimer(v).entry # NoEntry
      BY <2>3, <2>7
    <3>3. Alike(Release(CancelTimer(v)), CancelTimer(v))
      BY <3>1, <3>2, ReleaseAlike DEF Alike, Tame
    <3> QED  BY <2>2, <2>6, <2>9, <3>2, <3>3 DEF Alike, SameFlags
  <2>10. CASE ~Followed(v) /\ ~v.entry.rowsOnly
    BY <2>2, <2>4, <2>5, <2>6, <2>7, <2>10 DEF Alike, SameFlags
  <2> QED  BY <2>8, <2>9, <2>10
<1> QED  BY <1>1, <1>2

\* What a panel displays changes nothing the policy knows.
LEMMA ByPanelAlike ==
  ASSUME NEW w, Tame(w), NEW p \in Panels, NEW sees \in BOOLEAN
  PROVE  Tame(ByPanel(w, p, sees)) /\ Alike(ByPanel(w, p, sees), w)
<1> DEFINE r == IF sees THEN Recorded(w) ELSE w
           by == IF sees THEN r.entry.by \cup {p} ELSE r.entry.by \ {p}
           e == [r.entry EXCEPT !.by = by]
<1>1. CASE ~sees /\ w.entry = NoEntry
  BY <1>1 DEF ByPanel, Alike, SameFlags
<1>2. CASE sees \/ w.entry # NoEntry
  <2>1. Tame(r) /\ Alike(r, w) /\ r.entry # NoEntry /\ r.entry \in Entries /\ r \in Watches
    BY <1>2, RecordedAlike DEF Tame, Watches, Alike, SameFlags
  <2>2. ByPanel(w, p, sees) = IF sees THEN [Recorded(w) EXCEPT !.entry.by = @ \cup {p}]
                                      ELSE [w EXCEPT !.entry.by = @ \ {p}]
    BY <1>2 DEF ByPanel
  <2>3. ByPanel(w, p, sees) = [r EXCEPT !.entry.by = by]
    BY <2>2
  <2> HIDE DEF r
  <2>4. [r EXCEPT !.entry.by = by] = [r EXCEPT !.entry = e]
    BY <2>1 DEF Watches
  <2>5. e \in Entries /\ e.asks = r.entry.asks /\ e.status = r.entry.status
    BY <2>1 DEF Entries
  <2> HIDE DEF e, by
  <2>6. LET v == [r EXCEPT !.entry = e] IN v \in Watches /\ Alike(v, r)
    BY <2>1, <2>5, EntryAlike
  <2> QED  BY <2>1, <2>3, <2>4, <2>6 DEF Tame, Alike, SameFlags
<1> QED  BY <1>1, <1>2

\* A display takes back at most that the session is gone.
Shown(v, w) ==
  /\ v.attached = w.attached /\ v.archived = w.archived /\ (v.removed => w.removed)
  /\ Asked(v) <=> Asked(w)
  /\ Running(v) <=> Running(w)

\* The surfaces change what is streamed, not what is known.
LEMMA SurfaceShown ==
  ASSUME Tame(watch), NEW p \in Panels, NEW sees \in BOOLEAN,
         \/ \E session \in {"session", "other"} : SurfaceDisplaysSession(p, session, sees)
         \/ SurfaceVisibilityChanged(p, sees)
         \/ SurfaceCapacityChanged(p, sees)
         \/ SurfaceReleased(p)
  PROVE  Shown(watch', watch)
<1>1. ASSUME NEW u, NEW x, Tame(u), NEW b \in BOOLEAN,
             \/ x = u
             \/ x = Evaluate(u)
             \/ x = Evaluate(ByPanel(u, p, b))
      PROVE  Alike(x, u)
  BY <1>1, EvaluateAlike, ByPanelAlike DEF Alike, SameFlags
<1>2. watch \in Watches
  BY DEF Tame
<1>3. ASSUME NEW session \in {"session", "other"}, SurfaceDisplaysSession(p, session, sees)
      PROVE  Shown(watch', watch)
  <2> DEFINE w == IF session = "session" THEN [watch EXCEPT !.removed = FALSE] ELSE watch
             v == [w EXCEPT !.shows[p] = session,
                            !.visible = IF sees THEN @ \cup {p} ELSE @ \ {p}]
  <2>1. \/ watch' = w
        \/ watch' = Evaluate(ByPanel(v, p, sees))
        \/ watch' = Evaluate(ByPanel(v, p, FALSE))
        \/ watch' = v
    BY <1>3 DEF SurfaceDisplaysSession
  <2>2. /\ w \in Watches /\ w.entry = watch.entry /\ w.attached = watch.attached
        /\ w.archived = watch.archived /\ (w.removed => watch.removed)
    BY <1>2 DEF Watches
  <2> HIDE DEF w
  <2>3. v \in Watches /\ v.entry = w.entry /\ SameFlags(v, w)
    BY <2>2 DEF Watches, SameFlags
  <2> HIDE DEF v
  <2>4. Tame(w) /\ Tame(v) /\ Shown(v, watch) /\ Shown(w, watch)
    BY <2>2, <2>3 DEF Tame, Shown, Asked, Running, SameFlags
  <2>5. Alike(watch', w) \/ Alike(watch', v)
    BY <1>1, <2>1, <2>4
  <2> QED  BY <2>4, <2>5 DEF Shown, Alike, SameFlags
<1>4. CASE SurfaceVisibilityChanged(p, sees) \/ SurfaceCapacityChanged(p, sees) \/ SurfaceReleased(p)
  <2> DEFINE v1 == [watch EXCEPT !.visible = IF sees THEN @ \cup {p} ELSE @ \ {p}]
             v2 == [watch EXCEPT !.blocked = IF sees THEN @ \ {p} ELSE @ \cup {p}]
             v3 == [watch EXCEPT !.shows[p] = "nothing", !.blocked = @ \ {p},
                                 !.visible = @ \ {p}]
  <2>1. \E v \in {v1, v2, v3}, b \in BOOLEAN :
          watch' = v \/ watch' = Evaluate(v) \/ watch' = Evaluate(ByPanel(v, p, b))
    BY <1>4 DEF SurfaceVisibilityChanged, SurfaceCapacityChanged, SurfaceReleased
  <2>2. /\ v1 \in Watches /\ v1.entry = watch.entry /\ SameFlags(v1, watch)
        /\ v2 \in Watches /\ v2.entry = watch.entry /\ SameFlags(v2, watch)
        /\ v3 \in Watches /\ v3.entry = watch.entry /\ SameFlags(v3, watch)
    BY <1>2 DEF Watches, SameFlags
  <2> HIDE DEF v1, v2, v3
  <2>3. \A v \in {v1, v2, v3} : Tame(v) /\ Alike(v, watch)
    BY <2>2 DEF Tame, Alike, Asked, Running, SameFlags
  <2>4. \E v \in {v1, v2, v3} : Alike(watch', v) /\ Alike(v, watch)
    BY <1>1, <2>1, <2>3
  <2> QED  BY <2>4 DEF Shown, Alike, SameFlags
<1> QED  BY <1>3, <1>4

\* The job rows and the job list speak of jobs only.
LEMMA JobsAlike ==
  ASSUME NEW w, Tame(w), NEW running \in BOOLEAN
  PROVE  Alike(JobsEvent(w, running), w)
<1> DEFINE r == Recorded(w)
           e == [r.entry EXCEPT !.jobs = running]
           v == [r EXCEPT !.entry = e]
<1>1. CASE w.removed \/ w.archived \/ (~running /\ w.entry = NoEntry)
  BY <1>1 DEF JobsEvent, Alike, SameFlags
<1>2. CASE ~(w.removed \/ w.archived \/ (~running /\ w.entry = NoEntry))
  <2>1. Tame(r) /\ Alike(r, w) /\ r.entry # NoEntry /\ r.entry \in Entries /\ r \in Watches
    BY RecordedAlike DEF Tame
  <2>2. JobsEvent(w, running) =
          LET x == [r EXCEPT !.entry.jobs = running] IN
          Evaluate(IF running /\ ~x.entry.intent THEN Watch(x) ELSE x)
    BY <1>2 DEF JobsEvent
  <2> HIDE DEF r
  <2>3. [r EXCEPT !.entry.jobs = running] = v
    BY <2>1 DEF Watches
  <2>4. e \in Entries /\ e.asks = r.entry.asks /\ e.status = r.entry.status
    BY <2>1 DEF Entries
  <2> HIDE DEF e
  <2>5. v \in Watches /\ Alike(v, r) /\ v.entry # NoEntry
    BY <2>1, <2>4, EntryAlike
  <2>6. Tame(v)
    BY <2>1, <2>5 DEF Tame, Alike, SameFlags
  <2>7. JobsEvent(w, running) \in {Evaluate(Watch(v)), Evaluate(v)}
    BY <2>2, <2>3
  <2> HIDE DEF v
  <2>8. Tame(Watch(v)) /\ Alike(Watch(v), v)
    BY <2>5, <2>6, WatchAlike
  <2>9. Alike(Evaluate(Watch(v)), Watch(v)) /\ Alike(Evaluate(v), v)
    BY <2>6, <2>8, EvaluateAlike
  <2> QED  BY <2>1, <2>5, <2>7, <2>8, <2>9 DEF Alike, SameFlags
<1> QED  BY <1>1, <1>2

\* What the other streams bring, and the delayed release, are about streams.
LEMMA StreamShown ==
  ASSUME FollowInv,
         \/ SubscribedArrives \/ FollowReopens \/ PreviewTurns \/ JobRowsArrive
         \/ RepositoryReads \/ UnwatchTimerFires \/ HostJobs
  PROVE  Shown(watch', watch)
<1>1. watch \in Watches /\ Tame(watch) /\ watch.streams \in AdapterStreams /\ host \in Hosts
  BY ConsistentTame DEF FollowInv, Settled, Consistent, Watches
<1>2. ASSUME NEW a \in AdapterStreams
      PROVE  LET u == [watch EXCEPT !.streams = a] IN Tame(u) /\ Alike(u, watch)
  BY <1>1 DEF Watches, Tame, Alike, Asked, Running, SameFlags
<1>3. CASE SubscribedArrives
  <2> DEFINE a == [watch.streams EXCEPT !.announced = TRUE]
             u == [watch EXCEPT !.streams = a]
             r == Recorded(u)
             e == [r.entry EXCEPT !.intent = TRUE, !.rowsOnly = FALSE]
             v == [r EXCEPT !.entry = e]
  <2>1. watch' = SubscribedEvent(u)
    BY <1>1, <1>3 DEF SubscribedArrives, Watches
  <2>2. a \in AdapterStreams
    BY <1>1 DEF AdapterStreams
  <2> HIDE DEF a
  <2>3. Tame(u) /\ Alike(u, watch)
    BY <1>2, <2>2
  <2> HIDE DEF u
  <2>4. Tame(r) /\ Alike(r, u) /\ r.entry # NoEntry /\ r.entry \in Entries /\ r \in Watches
    BY <2>3, RecordedAlike DEF Tame
  <2>5. watch' \in {u, Evaluate([r EXCEPT !.entry.intent = TRUE, !.entry.rowsOnly = FALSE])}
    BY <2>1 DEF SubscribedEvent
  <2> HIDE DEF r
  <2>6. [r EXCEPT !.entry.intent = TRUE, !.entry.rowsOnly = FALSE] = v
    BY <2>4 DEF Watches
  <2>7. e \in Entries /\ e.asks = r.entry.asks /\ e.status = r.entry.status
    BY <2>4 DEF Entries
  <2> HIDE DEF e
  <2>8. v \in Watches /\ Alike(v, r)
    BY <2>4, <2>7, EntryAlike
  <2>9. Tame(v)
    BY <2>4, <2>8 DEF Tame, Alike, SameFlags
  <2> HIDE DEF v
  <2>10. Alike(Evaluate(v), v)
    BY <2>9, EvaluateAlike
  <2> QED  BY <2>3, <2>4, <2>5, <2>6, <2>8, <2>10 DEF Shown, Alike, SameFlags
<1>4. CASE FollowReopens \/ PreviewTurns \/ RepositoryReads \/ HostJobs
  <2> DEFINE b == Reopened(watch.streams)
             c == [b EXCEPT !.turning = FALSE]
             d == WatchSession(watch.streams)
             f == [watch.streams EXCEPT !.told = FALSE]
  <2>1. \E a \in {b, c, d, f} : watch' = [watch EXCEPT !.streams = a]
    BY <1>1, <1>4 DEF FollowReopens, PreviewTurns, RepositoryReads, HostJobs, Watches
  <2>2. b \in AdapterStreams /\ c \in AdapterStreams /\ d \in AdapterStreams
        /\ f \in AdapterStreams
    BY <1>1 DEF Reopened, WatchSession, AdapterStreams, Enabled
  <2> HIDE DEF b, c, d, f
  <2> QED  BY <1>2, <2>1, <2>2 DEF Shown, Alike, SameFlags
<1>5. CASE JobRowsArrive
  <2> DEFINE a == [watch.streams EXCEPT !.told = TRUE]
             u == [watch EXCEPT !.streams = a]
  <2>1. watch' = JobsEvent(u, host.jobs) /\ host.jobs \in BOOLEAN
    BY <1>1, <1>5 DEF JobRowsArrive, Watches, Hosts
  <2>2. a \in AdapterStreams
    BY <1>1 DEF AdapterStreams
  <2> HIDE DEF a
  <2>3. Tame(u) /\ Alike(u, watch)
    BY <1>2, <2>2
  <2> HIDE DEF u
  <2>4. Alike(watch', u)
    BY <2>1, <2>3, JobsAlike
  <2> QED  BY <2>3, <2>4 DEF Shown, Alike, SameFlags
<1>6. CASE UnwatchTimerFires
  <2> DEFINE e == [watch.entry EXCEPT !.timer = FALSE]
             u == [watch EXCEPT !.entry = e]
  <2>1. watch.entry # NoEntry /\ watch.entry.timer /\ watch.entry \in Entries
    BY <1>1, <1>6 DEF UnwatchTimerFires, Watches
  <2>2. ~watch.removed /\ ~watch.archived
    BY <2>1 DEF FollowInv, Settled, Consistent, NothingOpen, NewEntry
  <2>3. CancelTimer(watch) = u
    BY <1>1, <2>1 DEF CancelTimer, Watches
  <2>4. e \in Entries /\ e.asks = watch.entry.asks /\ e.status = watch.entry.status
    BY <2>1 DEF Entries
  <2>5. watch' = IF Followed(u) THEN u ELSE Release(u)
    BY <1>6, <2>3 DEF UnwatchTimerFires
  <2> HIDE DEF e
  <2>6. u \in Watches /\ Alike(u, watch) /\ u.entry # NoEntry
    BY <1>1, <2>1, <2>4, EntryAlike
  <2> HIDE DEF u
  <2>7. ~Followed(u) => ~Asked(u) /\ ~Running(u)
    BY <2>2, <2>6 DEF Followed, Alike, SameFlags, Asked, Running
  <2>8. ~Followed(u) => Alike(Release(u), u)
    BY <2>6, <2>7, ReleaseAlike
  <2> QED  BY <2>5, <2>6, <2>8 DEF Shown, Alike, SameFlags
<1> QED  BY <1>3, <1>4, <1>5, <1>6

\* A record that is given another status, or another asks.
LEMMA EvaluateWith ==
  ASSUME NEW r, Tame(r), NEW e \in Entries,
         r.removed \/ r.archived => ~e.asks /\ e.status # "running"
  PROVE  LET v == Evaluate([r EXCEPT !.entry = e]) IN
         /\ SameFlags(v, r)
         /\ Asked(v) <=> e.asks
         /\ Running(v) <=> e.status = "running"
<1> DEFINE u == [r EXCEPT !.entry = e]
<1>1. u \in Watches /\ u.entry = e /\ e # NoEntry /\ SameFlags(u, r)
  BY NoEntryAssumption DEF Tame, Watches, SameFlags
<1> HIDE DEF u
<1>2. /\ Asked(u) <=> e.asks
      /\ Running(u) <=> e.status = "running"
      /\ Tame(u)
  BY <1>1 DEF Tame, SameFlags, Asked, Running
<1>3. Alike(Evaluate(u), u)
  BY <1>2, EvaluateAlike
<1> QED  BY <1>1, <1>2, <1>3 DEF u, Alike, SameFlags

\* What a status says of the turn it says whatever else is known.
LEMMA StatusTells ==
  ASSUME NEW w, Tame(w), ~w.removed, ~w.archived, NEW status \in {"running", "idle"}
  PROVE  LET v == Evaluate([Recorded(w) EXCEPT !.entry.status = status]) IN
         /\ SameFlags(v, w)
         /\ Asked(v) <=> Asked(w)
         /\ Running(v) <=> status = "running"
<1> DEFINE r == Recorded(w)
           e == [r.entry EXCEPT !.status = status]
<1>1. /\ Tame(r) /\ Alike(r, w) /\ r.entry \in Entries /\ r.entry # NoEntry /\ r \in Watches
  BY RecordedAlike DEF Tame
<1> HIDE DEF r
<1>2. [r EXCEPT !.entry.status = status] = [r EXCEPT !.entry = e]
  BY <1>1 DEF Watches
<1>3. e \in Entries /\ e.asks = r.entry.asks /\ e.status = status
  BY <1>1 DEF Entries
<1> HIDE DEF e
<1>4. LET v == Evaluate([r EXCEPT !.entry = e]) IN
      SameFlags(v, r) /\ (Asked(v) <=> e.asks) /\ (Running(v) <=> e.status = "running")
  BY <1>1, <1>3, EvaluateWith DEF Alike, SameFlags
<1>5. Asked(w) <=> e.asks
  BY <1>1, <1>3 DEF Alike, Asked
<1> QED  BY <1>1, <1>2, <1>3, <1>4, <1>5 DEF r, Alike, SameFlags

\* Nothing is asked any more.
LEMMA UnasksTells ==
  ASSUME NEW w, Tame(w), w.entry # NoEntry
  PROVE  LET v == Evaluate([w EXCEPT !.entry.asks = FALSE]) IN
         /\ SameFlags(v, w) /\ ~Asked(v)
         /\ Running(v) <=> Running(w)
<1> DEFINE e == [w.entry EXCEPT !.asks = FALSE]
<1>1. w \in Watches /\ w.entry \in Entries
  BY DEF Tame, Watches
<1>2. [w EXCEPT !.entry.asks = FALSE] = [w EXCEPT !.entry = e]
  BY <1>1 DEF Watches
<1>3. e \in Entries /\ ~e.asks /\ e.status = w.entry.status
  BY <1>1 DEF Entries
<1> HIDE DEF e
<1>4. w.removed \/ w.archived => e.status # "running"
  BY <1>3 DEF Tame, Running
<1>5. LET v == Evaluate([w EXCEPT !.entry = e]) IN
      SameFlags(v, w) /\ (Asked(v) <=> e.asks) /\ (Running(v) <=> e.status = "running")
  BY <1>3, <1>4, EvaluateWith
<1> QED  BY <1>2, <1>3, <1>5 DEF Running

\* What the events of the host-wide stream tell the policy.
LEMMA HostEventTells ==
  ASSUME NEW w, Tame(w), ~w.archived, NEW event \in Events, w.removed => event = "added"
  PROVE  LET v == HostEvent(w, event) IN
         /\ v.attached = w.attached /\ ~v.archived
         /\ v.removed <=> event = "removed"
         /\ Asked(v) <=> event = "asks" \/ (Asked(w) /\ event \notin AskingEvents)
         /\ Running(v) <=> event = "running" \/ (Running(w) /\ event \notin TurnEvents)
<1> DEFINE v == HostEvent(w, event)
<1> USE DEF AskingEvents, TurnEvents
<1>1. w \in Watches
  BY DEF Tame
<1>2. CASE event \in {"running", "idle"}
  <2>1. v = StatusEvent(w, event) /\ ~w.removed
    BY <1>2 DEF HostEvent
  <2>2. CASE w.entry = NoEntry /\ event # "running"
    BY <1>2, <2>1, <2>2 DEF StatusEvent, Asked, Running
  <2>3. CASE ~(w.entry = NoEntry /\ event # "running")
    <3> DEFINE x == Evaluate([Recorded(w) EXCEPT !.entry.status = event])
    <3>1. v = x
      BY <2>1, <2>3 DEF StatusEvent
    <3>2. /\ SameFlags(x, w)
          /\ Asked(x) <=> Asked(w)
          /\ Running(x) <=> event = "running"
      BY <1>2, <2>1, StatusTells
    <3> HIDE DEF v, x
    <3>3. event \notin AskingEvents /\ event \in TurnEvents /\ event # "removed" /\ event # "asks"
      BY <1>2
    <3>4. /\ v.attached = w.attached /\ ~v.archived
          /\ v.removed <=> event = "removed"
      BY <2>1, <3>1, <3>2, <3>3 DEF SameFlags
    <3> HIDE DEF AskingEvents, TurnEvents
    <3> QED  BY <3>1, <3>2, <3>3, <3>4 DEF v
  <2> QED  BY <2>2, <2>3
<1>3. CASE event = "asks"
  <2> DEFINE r == Recorded(w)
             e == [r.entry EXCEPT !.asks = TRUE]
  <2>1. v = Evaluate([r EXCEPT !.entry.asks = TRUE]) /\ ~w.removed
    BY <1>3 DEF HostEvent, AsksEvent
  <2>2. /\ Tame(r) /\ Alike(r, w) /\ r.entry \in Entries /\ r.entry # NoEntry /\ r \in Watches
    BY RecordedAlike DEF Tame
  <2> HIDE DEF r, v
  <2>3. [r EXCEPT !.entry.asks = TRUE] = [r EXCEPT !.entry = e]
    BY <2>2 DEF Watches
  <2>4. e \in Entries /\ e.asks /\ e.status = r.entry.status
    BY <2>2 DEF Entries
  <2> HIDE DEF e
  <2>5. /\ SameFlags(v, r) /\ (Asked(v) <=> e.asks) /\ (Running(v) <=> e.status = "running")
    BY <2>1, <2>2, <2>3, <2>4, EvaluateWith DEF Alike, SameFlags
  <2> QED  BY <1>3, <2>1, <2>2, <2>4, <2>5 DEF v, Alike, SameFlags, Running
<1>4. CASE event = "answered"
  <2>1. v = AnsweredEvent(w) /\ ~w.removed
    BY <1>4 DEF HostEvent
  <2>2. CASE w.entry = NoEntry \/ ~w.entry.asks
    BY <1>4, <2>1, <2>2 DEF AnsweredEvent, Asked, Running
  <2>3. CASE ~(w.entry = NoEntry \/ ~w.entry.asks)
    BY <1>4, <2>1, <2>3, UnasksTells DEF AnsweredEvent, SameFlags
  <2> QED  BY <2>2, <2>3
<1>5. CASE event = "added"
  <2> DEFINE u == [w EXCEPT !.removed = FALSE]
  <2>1. v = Evaluate(u)
    BY <1>5 DEF HostEvent, AddedEvent
  <2>2. /\ u \in Watches /\ u.entry = w.entry /\ u.attached = w.attached
        /\ u.archived = w.archived /\ ~u.removed
    BY <1>1 DEF Watches
  <2> HIDE DEF u, v
  <2>3. Tame(u) /\ (Asked(u) <=> Asked(w)) /\ (Running(u) <=> Running(w))
    BY <2>2 DEF Tame, Asked, Running
  <2>4. Alike(v, u)
    BY <2>1, <2>3, EvaluateAlike
  <2> QED  BY <1>5, <2>2, <2>3, <2>4 DEF v, Alike, SameFlags
<1>6. CASE event = "removed"
  <2>1. v = RemovedEvent(w)
    BY <1>6 DEF HostEvent
  <2>2. v.attached = w.attached /\ ~v.archived /\ v.removed /\ v.entry = NoEntry
    BY <1>1, <2>1 DEF RemovedEvent, Undisplayed, Watches
  <2> QED  BY <1>6, <2>2 DEF Asked, Running
<1> QED  BY <1>2, <1>3, <1>4, <1>5, <1>6 DEF Events

\* Nothing has been said yet.
LEMMA PolicyInitInv == FollowInit => PolicyInv
<1> SUFFICES ASSUME FollowInit PROVE PolicyInv
  OBVIOUS
<1>1. /\ wire = <<>> /\ Len(wire) = 0 /\ ~link /\ seed.phase = "none" /\ watch.entry = NoEntry
      /\ ~watch.removed /\ ~watch.archived /\ ~watch.attached /\ host.exists
  BY DEF FollowInit, NoSeed
<1> QED
  BY <1>1
  DEF PolicyInv, CatalogueInOrder, CutOff, AskingKnown, TurnKnown, Asked, Running, Reborn

\* A step that is about streams only.
LEMMA ShownKeeps ==
  ASSUME PolicyInv, Shown(watch', watch), link' = link, wire' = wire,
         host'.exists = host.exists, host'.runs = host.runs, host'.asks = host.asks,
         seed'.phase = seed.phase, seed'.listed = seed.listed, seed'.runs = seed.runs,
         seed'.statusChanged = seed.statusChanged, seed'.complete = seed.complete
  PROVE  PolicyInv'
<1> USE DEF PolicyInv, Shown
<1>1. CatalogueInOrder'
  BY DEF CatalogueInOrder, Reborn
<1>2. CutOff'
  BY DEF CutOff
<1>3. AskingKnown'
  BY DEF AskingKnown
<1>4. TurnKnown'
  BY DEF TurnKnown, Reborn
<1> QED  BY <1>1, <1>2, <1>3, <1>4

\* A link that comes up is told what is asked and reads the directory.
LEMMA LinkUp ==
  ASSUME PolicyInv, host' = host, link', seed' = Seeding,
         wire' = IF host.asks THEN <<"asks">> ELSE <<>>,
         watch'.attached, ~Asked(watch'), watch'.removed => ~host.exists,
         watch'.archived => ~host.runs, ~host.exists => ~Running(watch')
  PROVE  PolicyInv'
<1>1. ~host.exists => ~host.runs /\ ~host.asks
  BY DEF PolicyInv, CatalogueInOrder
<1>2. seed'.phase = "asked" /\ ~seed'.statusChanged
  BY DEF Seeding, NoSeed
<1>3. CASE host.asks
  <2>1. wire' = <<"asks">> /\ Len(wire') = 1 /\ wire'[1] = "asks" /\ wire' # <<>>
    BY <1>3
  <2>2. CatalogueInOrder' /\ CutOff'
    BY <1>1, <1>3, <2>1 DEF CatalogueInOrder, CutOff, Reborn
  <2>3. AskingKnown'
    BY <1>3, <2>1 DEF AskingKnown, LastTells, SilentOn, AskingEvents
  <2>4. TurnKnown'
    BY <1>1, <1>2, <2>1 DEF TurnKnown, LastTells, TurnEvents, Reborn
  <2> QED  BY <2>2, <2>3, <2>4 DEF PolicyInv
<1>4. CASE ~host.asks
  <2>1. wire' = <<>> /\ Len(wire') = 0
    BY <1>4
  <2>2. CatalogueInOrder' /\ CutOff'
    BY <1>1, <1>4, <2>1 DEF CatalogueInOrder, CutOff, Reborn
  <2>3. AskingKnown'
    BY <1>4, <2>1 DEF AskingKnown, LastTells
  <2>4. TurnKnown'
    BY <1>1, <1>2, <2>1 DEF TurnKnown, LastTells, Reborn
  <2> QED  BY <2>2, <2>3, <2>4 DEF PolicyInv
<1> QED  BY <1>3, <1>4

\* The backend and its link come and go.
LEMMA BackendKnown ==
  ASSUME FollowInv, PolicyInv, Attach \/ Detach \/ LinkLost \/ LinkRestored
  PROVE  PolicyInv'
<1>1. watch \in Watches /\ Consistent(watch) /\ Tame(watch)
  BY ConsistentTame DEF FollowInv, Settled, Consistent
<1>2. CASE Attach
  <2> DEFINE e == IF Seeing = {} THEN NoEntry ELSE [NewEntry EXCEPT !.by = Seeing]
             u == [watch EXCEPT !.attached = TRUE, !.removed = FALSE, !.archived = FALSE,
                                !.streams = NoStreams, !.entry = e]
  <2>1. watch' = Evaluate(u)
    BY <1>2 DEF Attach
  <2>2. NoStreams \in AdapterStreams
    BY DEF NoStreams, AdapterStreams
  <2>3. Seeing \in SUBSET Panels
    BY <1>1 DEF Seeing, Watches
  <2>4. /\ e \in Entries \cup {NoEntry}
        /\ e # NoEntry => ~e.asks /\ e.status # "running"
    BY <2>3 DEF NewEntry, Entries
  <2> HIDE DEF e, NoStreams
  <2>5. u \in Watches /\ u.entry = e /\ u.attached /\ ~u.removed /\ ~u.archived
    BY <1>1, <2>2, <2>4 DEF Watches
  <2> HIDE DEF u
  <2>6. Tame(u) /\ ~Asked(u) /\ ~Running(u)
    BY <2>4, <2>5 DEF Tame, Asked, Running
  <2>7. Alike(watch', u)
    BY <2>1, <2>6, EvaluateAlike
  <2> QED  BY <1>2, <2>5, <2>6, <2>7, LinkUp DEF Attach, Alike, SameFlags
<1>3. CASE LinkRestored
  <2>1. watch' = watch /\ watch.attached /\ ~Asked(watch) /\ wire = <<>> /\ ~Reborn
    BY <1>3 DEF LinkRestored, PolicyInv, CutOff, Reborn
  <2>2. SilentOn(wire, TurnEvents)
    BY <2>1 DEF SilentOn
  <2> QED
    BY <1>3, <2>1, <2>2, LinkUp DEF LinkRestored, PolicyInv, CatalogueInOrder, TurnKnown
<1>4. CASE Detach
  <2>1. /\ watch'.entry = NoEntry /\ ~watch'.attached /\ ~watch'.removed /\ ~watch'.archived
        /\ ~link' /\ wire' = <<>> /\ Len(wire') = 0 /\ seed'.phase = "none" /\ host' = host
    BY <1>1, <1>4 DEF Detach, Watches, NoSeed
  <2> QED
    BY <2>1 DEF PolicyInv, CatalogueInOrder, CutOff, AskingKnown, TurnKnown, Asked, Running, Reborn
<1>5. CASE LinkLost
  <2>1. /\ ~link' /\ wire' = <<>> /\ Len(wire') = 0 /\ seed'.phase = "none" /\ host' = host
        /\ watch' = LostEvent(watch) /\ ~CatalogueUnderWay
    BY <1>5 DEF LinkLost, NoSeed
  <2>2. SameFlags(watch', watch) /\ ~Asked(watch') /\ (Running(watch') <=> Running(watch))
    BY <1>1, <2>1, UnasksTells DEF LostEvent, SameFlags, Asked
  <2>3. ~Reborn /\ (~host.exists => wire = <<>>)
    <3>1. wire \in Seq(Events) /\ DOMAIN wire = 1 .. Len(wire)
      BY DEF FollowInv
    <3>2. wire # <<>> => 1 \in DOMAIN wire /\ Len(wire) \in DOMAIN wire
      BY <3>1
    <3>3. \A i \in DOMAIN wire : wire[i] # "added" /\ wire[i] # "removed"
      BY <2>1 DEF CatalogueUnderWay
    <3> QED  BY <3>2, <3>3 DEF Reborn, PolicyInv, CatalogueInOrder
  <2>4. ~host.exists => ~Running(watch)
    BY <2>3 DEF PolicyInv, TurnKnown, SilentOn
  <2> QED
    BY <2>1, <2>2, <2>3, <2>4
    DEF PolicyInv, CatalogueInOrder, CutOff, AskingKnown, TurnKnown, Reborn, SameFlags
<1> QED  BY <1>2, <1>3, <1>4, <1>5

\* An event the host sends tells the truth, and is the last to tell it.
LEMMA SendKeeps ==
  ASSUME FollowInv, PolicyInv, NEW event \in Events, Sends(event),
         event = "added" <=> ~host.exists, event = "removed" <=> ~host'.exists,
         watch.archived => ~host'.runs,
         ~host'.exists => ~host'.runs /\ ~host'.asks,
         event \in AskingEvents => (event = "asks" <=> host'.asks),
         event \notin AskingEvents => host'.asks = host.asks,
         event \in TurnEvents => (event = "running" <=> host'.runs),
         event \notin TurnEvents => host'.runs = host.runs,
         event \in {"added", "removed"} => link \/ ~watch.attached
  PROVE  PolicyInv'
<1> DEFINE n == Len(wire)
<1>1. /\ link' = link /\ watch' = watch /\ seed' = seed
      /\ wire' = IF link THEN Append(wire, event) ELSE wire
      /\ wire \in Seq(Events) /\ n \in Nat
  BY DEF Sends, FollowInv
<1>2. CutOff'
  BY <1>1 DEF PolicyInv, CutOff
<1>3. CASE link
  <2>1. /\ wire' = Append(wire, event) /\ Len(wire') = n + 1 /\ wire'[n + 1] = event
        /\ wire' # <<>> /\ (wire # <<>> => wire'[1] = wire[1] /\ n \in 1 .. n)
        /\ (wire = <<>> => n = 0)
        /\ \A i \in 1 .. n : wire'[i] = wire[i]
    BY <1>1, <1>3
  <2>2. CatalogueInOrder'
    <3>1. ASSUME NEW i \in 1 .. Len(wire') - 1
          PROVE  wire'[i] = "removed" <=> wire'[i + 1] = "added"
      <4>1. CASE i = n
        BY <1>1, <2>1, <4>1 DEF PolicyInv, CatalogueInOrder
      <4>2. CASE i # n
        <5>1. i \in 1 .. n - 1 /\ i \in 1 .. n /\ i + 1 \in 1 .. n
          BY <1>1, <2>1, <4>2
        <5> QED  BY <2>1, <5>1 DEF PolicyInv, CatalogueInOrder
      <4> QED  BY <4>1, <4>2
    <3>2. watch.removed => Reborn'
      BY <2>1 DEF PolicyInv, CatalogueInOrder, Reborn
    <3> QED  BY <1>1, <2>1, <3>1, <3>2 DEF CatalogueInOrder
  <2>3. AskingKnown'
    BY <1>1, <1>3, <2>1, AppendTells DEF PolicyInv, AskingKnown
  <2>4. LastTells(wire', TurnEvents, "running", host'.runs)
    BY <1>1, <1>3, <2>1, AppendTells DEF PolicyInv, TurnKnown
  <2>5. SilentOn(wire', TurnEvents) =>
          event \notin TurnEvents /\ SilentOn(wire, TurnEvents)
    <3>1. 1 .. Len(wire') = (1 .. n) \cup {n + 1}
      BY <1>1, <2>1
    <3> QED  BY <2>1, <3>1 DEF SilentOn
  <2>6. event \notin TurnEvents /\ (~host'.exists \/ Reborn') => ~host.exists \/ Reborn
    BY <2>1 DEF Reborn, TurnEvents
  <2> HIDE DEF n
  <2>7. TurnKnown'
    BY <1>1, <1>3, <2>4, <2>5, <2>6 DEF PolicyInv, TurnKnown
  <2> QED  BY <1>2, <2>2, <2>3, <2>7 DEF PolicyInv
<1>4. CASE ~link
  <2>1. wire' = wire /\ wire = <<>> /\ n = 0 /\ seed.phase = "none" /\ ~Reborn /\ ~Reborn'
    BY <1>1, <1>4 DEF PolicyInv, CutOff, Reborn
  <2>2. event \in {"added", "removed"} => ~watch.attached /\ ~watch.removed
    BY <1>4 DEF PolicyInv, CutOff
  <2>3. ~watch.attached => ~Running(watch)
    BY ConsistentTame DEF FollowInv, Settled
  <2>4. CatalogueInOrder'
    BY <1>1, <2>1, <2>2 DEF PolicyInv, CatalogueInOrder
  <2>5. AskingKnown' /\ TurnKnown'
    BY <1>1, <1>4, <2>1, <2>2, <2>3 DEF PolicyInv, AskingKnown, TurnKnown
  <2> QED  BY <1>2, <2>4, <2>5 DEF PolicyInv
<1> QED  BY <1>3, <1>4

\* The session at the host.
LEMMA HostKnown ==
  ASSUME FollowInv, PolicyInv,
         HostTurn \/ HostInteraction \/ HostRemoves \/ HostAdds \/ HostArchives
  PROVE  PolicyInv'
<1>1. /\ watch \in Watches /\ Consistent(watch) /\ Tame(watch) /\ host \in Hosts
      /\ watch.streams.shut <=> watch.archived
  BY ConsistentTame DEF FollowInv, Settled, Consistent
<1>2. /\ watch.archived => ~host.runs
      /\ ~host.exists => ~host.runs /\ ~host.asks
  BY DEF PolicyInv, CatalogueInOrder
<1> USE DEF AskingEvents, TurnEvents, Events
<1>3. CASE HostTurn
  <2> DEFINE event == IF host.runs THEN "idle" ELSE "running"
  <2>1. /\ Sends(event) /\ event \in {"idle", "running"} /\ host.exists /\ ~watch.archived
        /\ host'.exists /\ host'.asks = host.asks /\ host'.runs = ~host.runs
    BY <1>1, <1>3 DEF HostTurn, Hosts
  <2>2. event = "running" <=> host'.runs
    BY <1>1, <2>1 DEF Hosts
  <2> HIDE DEF event
  <2> QED  BY <2>1, <2>2, SendKeeps
<1>4. CASE HostInteraction
  <2> DEFINE event == IF host.asks THEN "answered" ELSE "asks"
  <2>1. /\ Sends(event) /\ event \in {"asks", "answered"} /\ host.exists /\ ~watch.archived
        /\ host'.exists /\ host'.runs = host.runs /\ host'.asks = ~host.asks
    BY <1>1, <1>4 DEF HostInteraction, Hosts
  <2>2. event = "asks" <=> host'.asks
    BY <1>1, <2>1 DEF Hosts
  <2> HIDE DEF event
  <2> QED  BY <2>1, <2>2, SendKeeps
<1>5. CASE HostRemoves
  <2>1. /\ Sends("removed") /\ host.exists /\ ~host'.exists /\ ~host'.runs /\ ~host'.asks
        /\ link \/ ~watch.attached
    BY <1>5 DEF HostRemoves
  <2> QED  BY <2>1, SendKeeps
<1>6. CASE HostAdds
  <2>1. /\ Sends("added") /\ ~host.exists /\ host'.exists /\ host'.runs = host.runs
        /\ host'.asks = host.asks
        /\ link \/ ~watch.attached
    BY <1>1, <1>6 DEF HostAdds, Hosts
  <2> QED  BY <1>2, <2>1, SendKeeps
<1>7. CASE HostArchives
  <2>1. /\ watch.attached /\ host.exists /\ ~host.runs /\ ~host.asks /\ wire = <<>>
        /\ host' = host /\ link' = link /\ wire' = wire /\ seed' = seed
        /\ Len(wire') = 0 /\ Len(wire) = 0
    BY <1>7 DEF HostArchives
  <2>2. ~Asked(watch') /\ ~Running(watch') /\ watch'.attached /\ ~watch'.removed
    <3>1. ~watch.removed
      BY <2>1 DEF PolicyInv, CatalogueInOrder, Reborn
    <3>2. CASE watch.archived
      <4> DEFINE a == [watch.streams EXCEPT !.shut = FALSE]
                 u == [watch EXCEPT !.archived = FALSE, !.streams = a]
      <4>1. watch' = Evaluate(u)
        BY <1>1, <1>7, <3>2 DEF HostArchives, UnarchivedEvent, Watches
      <4>2. a \in AdapterStreams
        BY <1>1 DEF Watches, AdapterStreams
      <4> HIDE DEF a
      <4>3. /\ u \in Watches /\ u.entry = watch.entry /\ u.attached = watch.attached
            /\ u.removed = watch.removed
        BY <1>1, <4>2 DEF Watches
      <4> HIDE DEF u
      <4>4. Tame(u) /\ ~Asked(u) /\ ~Running(u)
        BY <1>1, <3>2, <4>3 DEF Tame, Asked, Running
      <4>5. Alike(watch', u)
        BY <4>1, <4>4, EvaluateAlike
      <4> QED  BY <2>1, <3>1, <4>3, <4>4, <4>5 DEF Alike, SameFlags
    <3>3. CASE ~watch.archived
      <4>1. watch' = ArchivedEvent(watch)
        BY <1>7, <3>3 DEF HostArchives
      <4>2. /\ watch'.entry = NoEntry /\ watch'.attached = watch.attached
            /\ watch'.removed = watch.removed
        BY <1>1, <4>1 DEF ArchivedEvent, Undisplayed, Watches
      <4> QED  BY <2>1, <3>1, <4>2 DEF Asked, Running
    <3> QED  BY <3>2, <3>3
  <2>3. CatalogueInOrder' /\ CutOff' /\ AskingKnown'
    BY <2>1, <2>2 DEF PolicyInv, CatalogueInOrder, CutOff, AskingKnown, LastTells
  <2>4. TurnKnown'
    BY <2>1, <2>2 DEF PolicyInv, TurnKnown, LastTells, SilentOn
  <2> QED  BY <2>3, <2>4 DEF PolicyInv
<1> QED  BY <1>3, <1>4, <1>5, <1>6, <1>7

\* What arrives is taken in.
LEMMA EventKnown ==
  ASSUME FollowInv, PolicyInv, EventArrives
  PROVE  PolicyInv'
<1> DEFINE event == Head(wire)
           n == Len(wire')
<1>1. /\ wire \in Seq(Events) /\ wire # <<>> /\ wire' = Tail(wire) /\ host' = host
      /\ link' = link /\ watch' = HostEvent(watch, event)
  BY DEF FollowInv, EventArrives
<1>2. /\ event \in Events /\ wire[1] = event /\ n \in Nat /\ Len(wire) = n + 1
      /\ wire' \in Seq(Events) /\ (wire' = <<>> <=> n = 0)
      /\ \A i \in 1 .. n : wire'[i] = wire[i + 1]
  <2>1. /\ event \in Events /\ wire[1] = event /\ wire' \in Seq(Events)
    BY <1>1
  <2>2. n \in Nat /\ Len(wire) = n + 1 /\ \A i \in 1 .. n : wire'[i] = wire[i + 1]
    BY <1>1
  <2>3. wire' = <<>> <=> n = 0
    BY <2>1
  <2> QED  BY <2>1, <2>2, <2>3
<1> HIDE DEF event, n
<1>4. link /\ watch.attached /\ ~watch.archived
  BY <1>1 DEF FollowInv, SourcesQuiet, PolicyInv, CutOff
<1>5. watch.removed => event = "added"
  BY <1>1, <1>2 DEF PolicyInv, CatalogueInOrder, Reborn
<1>6. Reborn <=> event = "added"
  BY <1>1, <1>2 DEF Reborn
<1>7. Tame(watch)
  BY ConsistentTame DEF FollowInv, Settled
<1>8. /\ watch'.attached /\ ~watch'.archived
      /\ watch'.removed <=> event = "removed"
      /\ Asked(watch') <=> event = "asks" \/ (Asked(watch) /\ event \notin AskingEvents)
      /\ Running(watch') <=> event = "running" \/ (Running(watch) /\ event \notin TurnEvents)
  BY <1>1, <1>2, <1>4, <1>5, <1>7, HostEventTells
<1>9. n # 0 => (event = "removed" <=> Reborn')
  <2>1. n # 0 => 1 \in 1 .. Len(wire) - 1 /\ wire[2] = wire'[1] /\ wire' # <<>>
    BY <1>2
  <2> QED  BY <1>2, <2>1 DEF PolicyInv, CatalogueInOrder, Reborn
<1>10. n = 0 => (event = "removed" <=> ~host.exists) /\ ~Reborn'
  BY <1>1, <1>2 DEF PolicyInv, CatalogueInOrder, Reborn
<1>11. n # 0 => (wire'[n] = "removed" <=> ~host.exists)
  <2>1. n # 0 => n \in 1 .. n /\ wire'[n] = wire[Len(wire)]
    BY <1>2
  <2> QED  BY <1>1, <2>1 DEF PolicyInv, CatalogueInOrder
<1>12. ASSUME ~host.exists, event # "removed", NEW kinds, "removed" \in kinds
       PROVE  ~SilentOn(wire', kinds)
  <2>1. n # 0 /\ n \in 1 .. n
    BY <1>2, <1>10, <1>12
  <2> QED  BY <1>11, <1>12, <2>1 DEF SilentOn, n
<1>13. CatalogueInOrder'
  <2>1. ASSUME NEW i \in 1 .. n - 1 PROVE wire'[i] = "removed" <=> wire'[i + 1] = "added"
    <3>1. /\ i + 1 \in 1 .. Len(wire) - 1 /\ wire'[i] = wire[i + 1]
          /\ wire'[i + 1] = wire[(i + 1) + 1]
      BY <1>2
    <3> QED  BY <3>1 DEF PolicyInv, CatalogueInOrder
  <2>2. watch'.removed => Reborn' \/ (wire' = <<>> /\ ~host'.exists)
    BY <1>1, <1>2, <1>8, <1>9, <1>10
  <2> QED
    BY <1>1, <1>2, <1>8, <1>11, <2>1, <2>2 DEF PolicyInv, CatalogueInOrder, n
<1>14. CutOff'
  BY <1>1, <1>4, <1>8 DEF CutOff
<1>15. AskingKnown'
  <2>1. LastTells(wire, AskingEvents, "asks", host.asks)
    BY <1>4 DEF PolicyInv, AskingKnown
  <2>2. /\ LastTells(wire', AskingEvents, "asks", host.asks)
        /\ event \notin AskingEvents => (SilentOn(wire', AskingEvents) <=> SilentOn(wire, AskingEvents))
        /\ SilentOn(wire', AskingEvents) /\ event \in AskingEvents => (event = "asks" <=> host.asks)
    BY <1>1, <2>1, TailTells DEF event
  <2>3. SilentOn(wire', AskingEvents) => (Asked(watch') <=> host.asks)
    BY <1>4, <1>8, <2>2 DEF PolicyInv, AskingKnown, AskingEvents
  <2> QED  BY <1>1, <2>2, <2>3 DEF AskingKnown
<1>16. TurnKnown'
  <2>1. LastTells(wire, TurnEvents, "running", host.runs)
    BY <1>4 DEF PolicyInv, TurnKnown
  <2>2. /\ LastTells(wire', TurnEvents, "running", host.runs)
        /\ event \notin TurnEvents => (SilentOn(wire', TurnEvents) <=> SilentOn(wire, TurnEvents))
        /\ SilentOn(wire', TurnEvents) /\ event \in TurnEvents => (event = "running" <=> host.runs)
    BY <1>1, <2>1, TailTells DEF event
  <2>3. /\ seed'.phase = seed.phase /\ seed'.listed = seed.listed /\ seed'.runs = seed.runs
        /\ seed'.complete = seed.complete
        /\ seed'.statusChanged <=>
             \/ seed.statusChanged
             \/ Listing /\ \/ event \in {"added", "removed"}
                           \/ event \in {"running", "idle"} /\ ~watch.removed /\ ~watch.archived
    <3>1. seed \in SeedReads
      BY DEF FollowInv
    <3> QED  BY <3>1 DEF EventArrives, SeedReads, event
  <2>4. CASE event \in TurnEvents
    <3>1. SilentOn(wire', TurnEvents) => (Running(watch') <=> host.runs)
      BY <1>8, <2>2, <2>4
    <3>2. seed.phase = "answered" => seed'.statusChanged
      BY <1>4, <1>5, <2>3, <2>4 DEF TurnEvents, Listing
    <3>3. SilentOn(wire', TurnEvents) /\ (~host.exists \/ Reborn') => event = "removed"
      BY <1>9, <1>10, <1>12 DEF TurnEvents
    <3>4. event = "removed" => ~Running(watch')
      BY <1>8 DEF TurnEvents
    <3>5. SilentOn(wire', TurnEvents) /\ event = "removed" => ~host.runs
      BY <2>2, <2>4
    <3> HIDE DEF Listing
    <3> QED
      BY <1>1, <2>2, <2>3, <3>1, <3>2, <3>3, <3>4, <3>5 DEF TurnKnown
  <2>5. CASE event \notin TurnEvents
    <3> SUFFICES ASSUME SilentOn(wire', TurnEvents) PROVE TurnKnown'
      BY <1>1, <2>2 DEF TurnKnown
    <3>1. SilentOn(wire, TurnEvents) /\ (Running(watch') <=> Running(watch))
      BY <1>8, <2>2, <2>5 DEF TurnEvents
    <3>2. event # "added" => (seed'.statusChanged <=> seed.statusChanged)
      BY <2>3, <2>5 DEF TurnEvents
    <3>3. event = "added" => (Running(watch) <=> host.runs)
      BY <1>6, <3>1 DEF PolicyInv, TurnKnown
    <3>4. ~Reborn'
      BY <1>9, <1>10, <2>5 DEF TurnEvents
    <3> HIDE DEF Listing
    <3> QED
      BY <1>1, <1>4, <2>2, <2>3, <3>1, <3>2, <3>3, <3>4 DEF PolicyInv, TurnKnown
  <2> QED  BY <2>4, <2>5
<1> QED  BY <1>13, <1>14, <1>15, <1>16 DEF PolicyInv

\* What the two reads answer is taken in, unless something newer has been heard.
LEMMA SeedKnown ==
  ASSUME FollowInv, PolicyInv,
         DirectoryAnswers \/ ApplyDirectory \/ JobListAnswers \/ ApplyJobList \/ SeedFails
  PROVE  PolicyInv'
<1>1. Tame(watch) /\ seed \in SeedReads
  BY ConsistentTame DEF FollowInv, Settled
<1>2. host' = host /\ link' = link /\ wire' = wire /\ seed.phase # "none"
  BY DEF DirectoryAnswers, ApplyDirectory, JobListAnswers, ApplyJobList, SeedFails
<1>3. link
  BY <1>2 DEF PolicyInv, CutOff
<1>4. SUFFICES /\ Shown(watch', watch) \/ (SameFlags(watch', watch) /\ (Asked(watch') <=> Asked(watch)))
               /\ TurnKnown'
  <2>1. CatalogueInOrder' /\ CutOff' /\ AskingKnown'
    BY <1>2, <1>3, <1>4
    DEF PolicyInv, CatalogueInOrder, CutOff, AskingKnown, Shown, SameFlags, Reborn
  <2> QED  BY <1>4, <2>1 DEF PolicyInv
<1>5. CASE DirectoryAnswers
  <2>1. /\ watch' = watch /\ seed.phase = "asked" /\ seed'.phase = "answered"
        /\ seed'.listed = host.exists /\ seed'.runs = host.runs
        /\ seed'.statusChanged = seed.statusChanged
    BY <1>1, <1>5 DEF DirectoryAnswers, SeedReads
  <2> QED  BY <1>2, <1>3, <2>1 DEF PolicyInv, TurnKnown, Shown, Reborn
<1>6. CASE JobListAnswers
  <2>1. watch' = watch /\ seed.phase = "jobsAsked" /\ seed'.phase = "jobsAnswered"
    BY <1>1, <1>6 DEF JobListAnswers, SeedReads
  <2> QED  BY <1>2, <1>3, <2>1 DEF PolicyInv, TurnKnown, Shown, Reborn
<1>7. CASE ApplyJobList
  <2>1. seed.phase = "jobsAnswered" /\ seed'.phase = "none"
    BY <1>7 DEF ApplyJobList, NoSeed
  <2>2. Alike(watch', watch)
    BY <1>1, <1>7, JobsAlike DEF ApplyJobList, SeedReads, Alike, SameFlags
  <2> QED
    BY <1>2, <1>3, <2>1, <2>2 DEF PolicyInv, TurnKnown, Shown, Alike, SameFlags, Reborn
<1>8. CASE SeedFails
  <2>1. /\ watch' = watch /\ seed'.phase = "none"
        /\ seed'.complete = (seed.phase \in {"jobsAsked", "jobsAnswered"})
    BY <1>8 DEF SeedFails, NoSeed
  <2> QED  BY <1>1, <1>2, <1>3, <2>1 DEF PolicyInv, TurnKnown, Shown, Reborn, SeedReads
<1>9. CASE ApplyDirectory
  <2>1. seed.phase = "answered" /\ seed'.phase \in {"none", "jobsAsked"}
    BY <1>9 DEF ApplyDirectory, NoSeed
  <2>2. CASE Accepts(seed) /\ (seed.runs \/ watch.entry # NoEntry)
    <3> DEFINE status == IF seed.runs THEN "running" ELSE "idle"
               v == Evaluate([Recorded(watch) EXCEPT !.entry.status = status])
    <3>1. watch' = v
      BY <1>9, <2>2 DEF ApplyDirectory
    <3>2. /\ ~watch.removed /\ ~watch.archived /\ status \in {"running", "idle"}
          /\ status = "running" <=> seed.runs
      BY <2>2 DEF Accepts
    <3> HIDE DEF status
    <3>3. /\ SameFlags(v, watch)
          /\ Asked(v) <=> Asked(watch)
          /\ Running(v) <=> status = "running"
      BY <1>1, <3>2, StatusTells
    <3> HIDE DEF v
    <3>4. seed.listed /\ ~seed.statusChanged
      BY <2>2 DEF Accepts
    <3> QED
      BY <1>2, <1>3, <2>1, <3>1, <3>2, <3>3, <3>4 DEF PolicyInv, TurnKnown, Reborn
  <2>3. CASE ~(Accepts(seed) /\ (seed.runs \/ watch.entry # NoEntry))
    <3>1. watch' = watch
      BY <1>9, <2>3 DEF ApplyDirectory
    <3>2. SilentOn(wire, TurnEvents) => (Running(watch) <=> host.runs)
      <4> SUFFICES ASSUME SilentOn(wire, TurnEvents) PROVE Running(watch) <=> host.runs
        OBVIOUS
      <4>1. CASE Accepts(seed)
        BY <2>1, <2>3, <4>1 DEF PolicyInv, TurnKnown, Accepts, Running
      <4>2. CASE seed.statusChanged \/ ~seed.listed
        BY <1>3, <2>1, <4>2 DEF PolicyInv, TurnKnown
      <4>3. CASE watch.removed
        BY <4>3 DEF PolicyInv, TurnKnown, CatalogueInOrder
      <4>4. CASE watch.archived
        BY <1>1, <4>4 DEF PolicyInv, CatalogueInOrder, Tame
      <4> QED  BY <4>1, <4>2, <4>3, <4>4 DEF Accepts
    <3> QED
      BY <1>2, <1>3, <2>1, <3>1, <3>2 DEF PolicyInv, TurnKnown, Shown, Reborn
  <2> QED  BY <2>2, <2>3
<1> QED  BY <1>5, <1>6, <1>7, <1>8, <1>9

\* Every step keeps it.
LEMMA PolicyNextInv == FollowInv /\ PolicyInv /\ [FollowNext]_followVars => PolicyInv'
<1> SUFFICES ASSUME FollowInv, PolicyInv, [FollowNext]_followVars PROVE PolicyInv'
  OBVIOUS
<1>1. ASSUME NEW p \in Panels, NEW sees \in BOOLEAN,
             \/ \E session \in {"session", "other"} : SurfaceDisplaysSession(p, session, sees)
             \/ SurfaceVisibilityChanged(p, sees)
             \/ SurfaceCapacityChanged(p, sees)
             \/ SurfaceReleased(p)
      PROVE  PolicyInv'
  <2>1. Shown(watch', watch)
    BY <1>1, SurfaceShown, ConsistentTame DEF FollowInv, Settled
  <2>2. UNCHANGED <<host, link, wire, seed>>
    BY <1>1 DEF SurfaceDisplaysSession, SurfaceVisibilityChanged, SurfaceCapacityChanged,
                SurfaceReleased
  <2> QED  BY <2>1, <2>2, ShownKeeps
<1>2. CASE Attach \/ Detach \/ LinkLost \/ LinkRestored
  BY <1>2, BackendKnown
<1>3. CASE HostTurn \/ HostInteraction \/ HostRemoves \/ HostAdds \/ HostArchives
  BY <1>3, HostKnown
<1>4. CASE EventArrives
  BY <1>4, EventKnown
<1>5. CASE \/ SubscribedArrives \/ FollowReopens \/ PreviewTurns \/ JobRowsArrive
           \/ RepositoryReads \/ UnwatchTimerFires \/ HostJobs
  <2>1. Shown(watch', watch)
    BY <1>5, StreamShown
  <2>2. /\ link' = link /\ wire' = wire /\ host'.exists = host.exists
        /\ host'.runs = host.runs /\ host'.asks = host.asks
    BY <1>5
    DEF SubscribedArrives, FollowReopens, PreviewTurns, JobRowsArrive, RepositoryReads,
        UnwatchTimerFires, HostJobs, FollowInv, Hosts
  <2>3. /\ seed'.phase = seed.phase /\ seed'.listed = seed.listed /\ seed'.runs = seed.runs
        /\ seed'.statusChanged = seed.statusChanged /\ seed'.complete = seed.complete
    BY <1>5
    DEF SubscribedArrives, FollowReopens, PreviewTurns, JobRowsArrive, RepositoryReads,
        UnwatchTimerFires, HostJobs, FollowInv, SeedReads
  <2> QED  BY <2>1, <2>2, <2>3, ShownKeeps
<1>6. CASE DirectoryAnswers \/ ApplyDirectory \/ JobListAnswers \/ ApplyJobList \/ SeedFails
  BY <1>6, SeedKnown
<1>7. CASE UNCHANGED followVars
  BY <1>7
  DEF followVars, PolicyInv, CatalogueInOrder, CutOff, AskingKnown, TurnKnown, Reborn
<1> QED  BY <1>1, <1>2, <1>3, <1>4, <1>5, <1>6, <1>7 DEF FollowNext

\* Once all is quiet the policy knows what the host knows, whatever order events and
\* answers came in (seed() and acceptEvent(), session-watch-coordinator.ts).
THEOREM PolicyKnows == FollowSpec => []PolicyIsCurrent
<1>1. FollowInv /\ PolicyInv => PolicyIsCurrent
  <2> SUFFICES ASSUME PolicyInv, Quiet PROVE PolicyIsCurrent
    BY DEF PolicyIsCurrent
  <2>1. Len(wire) = 0
    BY DEF Quiet
  <2>2. (Asked(watch) <=> host.asks) /\ (Running(watch) <=> host.runs)
    BY <2>1 DEF Quiet, PolicyInv, AskingKnown, TurnKnown, SilentOn
  <2> QED  BY <2>2 DEF PolicyIsCurrent, Asked, Running
<1> QED  BY <1>1, FollowInitInv, FollowNextInv, PolicyInitInv, PolicyNextInv, PTL DEF FollowSpec
=============================================================================
