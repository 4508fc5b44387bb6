--------------------------- MODULE StreamDelivery ---------------------------
(***************************************************************************)
(* Ordered delivery of one session's durable events over a stream that is  *)
(* cut, restarted and gapped.                                              *)
(*   packages/dsh-adapter/src/stream-controller.ts                         *)
(*                                                                         *)
(* The stream is read by one generation after the other.  Rows are kept    *)
(* per position until a drain, a coroutine of its own, has handed every    *)
(* earlier position to the consumers, read it from history or announced it *)
(* missing.  A delivery that is replaced leaves its drain behind, waiting  *)
(* for history or for its turn.  A step of a drain or of the reader hands  *)
(* out one position: the code may yield to the event loop between any two. *)
(*                                                                         *)
(* One session; what has several events at one position, the transient     *)
(* chunks and the timers of reconnection are left out, and the projections *)
(* have one key.  A definition named ...Bug is not part of the             *)
(* specification: it is a mistake the definition after it could contain.   *)
(***************************************************************************)
EXTENDS Integers, FiniteSets, FiniteSetsExt

CONSTANTS
  Size,         \* bound: positions are 0 .. Size - 1
  Projections,  \* the positions whose durable event is a projection
  Deliveries,   \* bound: deliveries that may be remembered at once
  None          \* undefined

ASSUME SizeAssumption == Size \in Nat \ {0}
ASSUME ProjectionsAssumption == Projections \subseteq 0 .. Size - 1
ASSUME NoneAssumption == None \notin Int /\ None \notin Deliveries

Positions == 0 .. Size - 1
Cursors == -1 .. Size - 1  \* values of lastSequence; -1: an empty log

VARIABLES
  snapshots,    \* options.streamSource is given: a generation begins with a snapshot
  hostLast,     \* the host's log holds the positions up to this one
  closed,
  alive,        \* a generation reads and its signal has not fired
  told,         \* the host's baseline has reached this generation
  reader,       \* acceptSessionSnapshot(), which the read loop awaits
  subscribed,   \* subscribedSessions
  snapshot,     \* pendingSessionSnapshots
  lastSeq,      \* lastSequences
  lastProjection, baseline,  \* lastProjectionSequences, projectionBaselines; -1: none
  current,      \* the delivery orderedDeliveries holds
  delivery,     \* every OrderedSessionDelivery something still refers to
  note          \* what the last step handed to the listeners

streamVars == <<snapshots, hostLast, closed, alive, told>>
sessionVars == <<subscribed, snapshot, lastSeq>>
projectionVars == <<lastProjection, baseline>>
orderVars == <<current, delivery>>
vars == <<streamVars, reader, sessionVars, projectionVars, orderVars, note>>

Idle == [phase |-> "idle", todo |-> {}, last |-> -1, delivery |-> None]

\* createOrderedDelivery().  through is recoveryThrough, -1 if undefined; turn
\* is the signal of the drain that runs and nextTurn drainSignal: whether each
\* is that of a generation still alive.
NewDelivery(next) ==
  [next |-> next, pending |-> {}, skipped |-> {}, through |-> -1,
   phase |-> "idle", turn |-> FALSE, nextTurn |-> FALSE, to |-> -1]

Event(kind, n) == [kind |-> kind, from |-> n, to |-> n]
EventAt(n) == Event(IF n \in Projections THEN "projection" ELSE "row", n)
Nothing == Event("nothing", 0)
GapNotice(from, to) == [kind |-> "gap", from |-> from, to |-> to]

Init ==
  /\ snapshots \in BOOLEAN /\ hostLast \in Cursors
  /\ closed = FALSE /\ alive = FALSE /\ told = FALSE
  /\ reader = Idle
  /\ subscribed = FALSE /\ snapshot = {} /\ lastSeq = None
  /\ lastProjection = -1 /\ baseline = -1
  /\ current = None /\ delivery = [d \in Deliveries |-> NewDelivery(0)]
  /\ note = Nothing

\* A step that hands out nothing.
Silent == note' = Nothing

-----------------------------------------------------------------------------
(* The host and the generations of the stream. *)

HostAppends ==
  /\ ~closed /\ hostLast < Size - 1 /\ hostLast' = hostLast + 1
  /\ UNCHANGED <<snapshots, closed, alive, told, reader, sessionVars,
                 projectionVars, orderVars>>
  /\ Silent

\* The host comes back with an older log.
HostRestarts ==
  /\ ~closed /\ ~alive /\ hostLast' \in -1 .. hostLast - 1
  /\ UNCHANGED <<snapshots, closed, alive, told, reader, sessionVars,
                 projectionVars, orderVars>>
  /\ Silent

\* startReading(), once the previous generation has unwound.
StartReading ==
  /\ ~closed /\ ~alive /\ reader.phase = "idle"
  /\ alive' = TRUE /\ told' = FALSE
  /\ subscribed' = (subscribed /\ ~snapshots)
  /\ snapshot' = IF snapshots THEN {} ELSE snapshot
  /\ UNCHANGED <<snapshots, hostLast, closed, reader, lastSeq, projectionVars,
                 orderVars>>
  /\ Silent

\* What is left of a delivery that orderedDeliveries holds no longer: nothing,
\* unless a drain whose signal has not fired waits to go on with it.
Discarded(r) == IF r.turn THEN r ELSE NewDelivery(0)

SignalFired(r) == [r EXCEPT !.turn = FALSE, !.nextTurn = FALSE]

NothingHeld ==
  /\ current' = None
  /\ delivery' = [d \in Deliveries |-> NewDelivery(0)]

\* The stream ends or fails, or the last listener unsubscribes.
GenerationEnds ==
  /\ alive /\ alive' = FALSE
  /\ delivery' = [d \in Deliveries |-> IF d = current THEN SignalFired(delivery[d])
                                       ELSE NewDelivery(0)]
  /\ UNCHANGED <<snapshots, hostLast, closed, told, reader, sessionVars,
                 projectionVars, current>>
  /\ Silent

\* restart(): everything known is forgotten before the stream is opened anew.
\* Only logical streams with a snapshot of their own are restarted.
Restart ==
  /\ snapshots /\ ~closed
  /\ alive' = FALSE
  /\ subscribed' = FALSE /\ snapshot' = {} /\ lastSeq' = None
  /\ lastProjection' = -1 /\ baseline' = -1
  /\ NothingHeld
  /\ UNCHANGED <<snapshots, hostLast, closed, told, reader>>
  /\ Silent

Close ==
  /\ ~closed /\ closed' = TRUE
  /\ alive' = FALSE
  /\ NothingHeld
  /\ UNCHANGED <<snapshots, hostLast, told, reader, sessionVars, projectionVars>>
  /\ Silent

-----------------------------------------------------------------------------
(* Bookkeeping the handlers share. *)

\* rememberProjectionSequence() accepts this projection.
Fresh(n) == n > lastProjection /\ n > baseline

\* truncateProjectionSequences() and rememberProjectionBaseline(); a log that
\* went backwards starts the projections afresh.  The marks a baseline sets for
\* its own keys say no more than the baseline does.
RememberBaseline(last, asOf) ==
  LET lower == lastSeq # None /\ last < lastSeq
      base == IF lower THEN -1 ELSE baseline IN
  /\ lastProjection' = IF lower \/ lastProjection > last THEN -1 ELSE lastProjection
  /\ baseline' = IF asOf = None THEN base ELSE Max({base, asOf})

\* startOrderedDrain(): the drain that has the turn learns the newer signal.
StartDrain(r) ==
  IF r.phase # "idle" THEN [r EXCEPT !.nextTurn = TRUE]
  ELSE [r EXCEPT !.nextTurn = TRUE, !.turn = TRUE, !.phase = "drain"]

\* A delivery nobody refers to: its record can be used for a new one.
Unused(d) == d # current /\ delivery[d].phase = "idle" /\ reader.delivery # d

Unchanged == UNCHANGED <<streamVars, reader>>

-----------------------------------------------------------------------------
(* accept(): the frames a generation delivers. *)

Reads == alive /\ ~closed /\ reader.phase = "idle"

\* A row or projection before the cursor of a logical stream is kept for it.
AcceptEarly ==
  /\ Reads /\ snapshots /\ ~subscribed
  /\ \E n \in 0 .. hostLast : snapshot' = snapshot \cup {n}
  /\ Unchanged
  /\ UNCHANGED <<subscribed, lastSeq, projectionVars, orderVars>>
  /\ Silent

AcceptProjection ==
  /\ Reads /\ (snapshots => subscribed)
  /\ \E n \in Projections \cap 0 .. hostLast :
       /\ Fresh(n)
       /\ lastProjection' = n
       /\ note' = Event("projection", n)
  /\ Unchanged
  /\ UNCHANGED <<sessionVars, baseline, orderVars>>

\* A durable row waits for its turn, unless its position has passed.
AcceptRow ==
  /\ Reads /\ (snapshots => subscribed)
  /\ \E n \in (0 .. hostLast) \ Projections, d \in Deliveries :
       /\ IF current = None
          THEN Unused(d) /\ current' = d
          ELSE d = current /\ UNCHANGED current
       /\ LET r == IF current = None THEN NewDelivery(0) ELSE delivery[d] IN
          /\ n >= r.next /\ n \notin r.pending
          /\ delivery' = [delivery EXCEPT
                            ![d] = StartDrain([r EXCEPT !.pending = @ \cup {n}])]
       /\ lastSeq' = IF lastSeq = None THEN n ELSE Max({lastSeq, n})
  /\ Unchanged
  /\ UNCHANGED <<subscribed, snapshot, projectionVars>>
  /\ Silent

AcceptRemoved ==
  /\ Reads
  /\ subscribed' = FALSE /\ snapshot' = {} /\ lastSeq' = None
  /\ lastProjection' = -1 /\ baseline' = -1
  /\ current' = None
  /\ delivery' = [d \in Deliveries |-> Discarded(delivery[d])]
  /\ note' = Event("removed", 0)
  /\ Unchanged

RearmedBug(r, last) ==
  IF last > lastSeq THEN StartDrain([r EXCEPT !.through = Max({@, last})]) ELSE r

\* What the baseline still owes is recovered again, also when the generation
\* that began to recover it was cut off.
Rearmed(r, last) ==
  IF r.next <= last \/ last > lastSeq
  THEN StartDrain([r EXCEPT !.through = Max({@, last})])
  ELSE r

\* The first baseline, or one that moved backwards, starts a delivery.
Rebases == lastSeq = None \/ (lastSeq # None /\ hostLast < lastSeq)

StartDeliveryBug(last) ==
  \E d \in Deliveries :
    /\ Unused(d) /\ current' = d
    /\ delivery' = [k \in Deliveries |-> IF k = d THEN NewDelivery(last + 2)
                                         ELSE Discarded(delivery[k])]

\* createOrderedDelivery() or replaceOrderedDelivery(), after this position.
StartDelivery(last) ==
  \E d \in Deliveries :
    /\ Unused(d) /\ current' = d
    /\ delivery' = [k \in Deliveries |-> IF k = d THEN NewDelivery(last + 1)
                                         ELSE Discarded(delivery[k])]

\* session.subscribed without a snapshot before it.
AcceptSubscribed ==
  /\ Reads /\ snapshot = {}
  /\ \E asOf \in {None, hostLast} : RememberBaseline(hostLast, asOf)
  /\ IF Rebases THEN StartDelivery(hostLast)
     ELSE /\ UNCHANGED current
          /\ delivery' = [delivery EXCEPT ![current] = Rearmed(@, hostLast)]
  /\ subscribed' = TRUE /\ told' = TRUE /\ lastSeq' = hostLast
  /\ note' = Event("subscribed", hostLast)
  /\ UNCHANGED <<snapshots, hostLast, closed, alive, reader, snapshot>>

-----------------------------------------------------------------------------
(* acceptSessionSnapshot() *)

\* The first snapshot, or that of a log that went backwards, is handed out as
\* it is; any other one joins the delivery, behind what is still missing.
AcceptSnapshot ==
  /\ Reads /\ snapshot # {}
  /\ subscribed' = TRUE /\ snapshot' = {}
  /\ \E asOf \in {None, hostLast} : RememberBaseline(hostLast, asOf)
  /\ reader' = [phase |-> IF Rebases THEN "replay" ELSE "merge",
                todo |-> snapshot, last |-> hostLast,
                delivery |-> IF Rebases THEN None ELSE current]
  /\ UNCHANGED <<streamVars, lastSeq, orderVars>>
  /\ Silent

\* The generation was cut off, or the stream restarted or closed meanwhile.
SnapshotAbandoned ==
  /\ reader.phase # "idle"
  /\ ~alive \/ (reader.phase = "merge" /\ current # reader.delivery)
  /\ reader' = Idle
  /\ UNCHANGED <<streamVars, sessionVars, projectionVars, orderVars>>
  /\ Silent

ReplayOne ==
  /\ reader.phase = "replay" /\ alive /\ reader.todo # {}
  /\ LET n == Min(reader.todo) IN
     /\ reader' = [reader EXCEPT !.todo = @ \ {n}]
     /\ IF n \in Projections /\ ~Fresh(n)
        THEN UNCHANGED lastProjection /\ Silent
        ELSE /\ lastProjection' = IF n \in Projections THEN n ELSE lastProjection
             /\ note' = Event("replay", n)
  /\ UNCHANGED <<streamVars, sessionVars, baseline, orderVars>>

ReplayDone ==
  /\ reader.phase = "replay" /\ alive /\ reader.todo = {}
  /\ StartDelivery(reader.last)
  /\ lastSeq' = reader.last /\ told' = TRUE /\ reader' = Idle
  /\ note' = Event("subscribed", reader.last)
  /\ UNCHANGED <<snapshots, hostLast, closed, alive, subscribed, snapshot, projectionVars>>

Merges == reader.phase = "merge" /\ alive /\ current = reader.delivery

MergeOne ==
  /\ Merges /\ reader.todo # {}
  /\ LET n == Min(reader.todo)
         ahead == n >= delivery[current].next
         stale == n \in Projections /\ ~Fresh(n) IN
     /\ reader' = [reader EXCEPT !.todo = @ \ {n}]
     /\ delivery' = IF ~ahead THEN delivery
                    ELSE IF stale THEN [delivery EXCEPT ![current].skipped = @ \cup {n}]
                    ELSE [delivery EXCEPT ![current].pending = @ \cup {n}]
     /\ lastProjection' = IF ahead /\ n \in Projections /\ ~stale THEN n ELSE lastProjection
  /\ UNCHANGED <<streamVars, sessionVars, baseline, current>>
  /\ Silent

MergeDone ==
  /\ Merges /\ reader.todo = {}
  /\ lastSeq' = Max({lastSeq, reader.last})
  /\ LET owed == [delivery[current] EXCEPT !.through = Max({@, reader.last})] IN
     delivery' = [delivery EXCEPT ![current] = StartDrain(owed)]
  /\ told' = TRUE /\ reader' = Idle
  /\ note' = Event("subscribed", reader.last)
  /\ UNCHANGED <<snapshots, hostLast, closed, alive, subscribed, snapshot,
                 projectionVars, current>>

ReaderStep == SnapshotAbandoned \/ ReplayOne \/ ReplayDone \/ MergeOne \/ MergeDone

-----------------------------------------------------------------------------
(* drainOrderedSession() and recoverOrderedRange() *)

DrainUnchanged == UNCHANGED <<streamVars, reader, sessionVars, baseline, current>>

HasTurnReplacedBug(d) == delivery[d].turn /\ ~closed

HasTurnCutBug(d) == ~closed /\ d = current

\* What every loop of a drain asks before it goes on.
HasTurn(d) == delivery[d].turn /\ ~closed /\ d = current

Set(d, r) == delivery' = [delivery EXCEPT ![d] = r]

\* The drain's last act: a newer generation with something left to deliver
\* takes over.
Ended(d, r) ==
  IF d # current THEN NewDelivery(0)
  ELSE IF r.nextTurn /\ (r.through # -1 \/ r.pending # {})
       THEN [r EXCEPT !.phase = "drain", !.turn = TRUE]
       ELSE [r EXCEPT !.phase = "idle", !.turn = FALSE]

LosesTurn(d) ==
  /\ delivery[d].phase # "idle" /\ ~HasTurn(d)
  /\ Set(d, Ended(d, delivery[d]))
  /\ UNCHANGED lastProjection
  /\ DrainUnchanged
  /\ Silent

\* emitPendingSequence(): the position is committed before it is handed out.
EmitPending(d) ==
  LET r == delivery[d] IN
  /\ r.phase \in {"drain", "fill"} /\ HasTurn(d) /\ r.next \in r.pending
  /\ r.phase = "fill" => r.next <= r.to
  /\ Set(d, [r EXCEPT !.pending = @ \ {r.next}, !.skipped = @ \ {r.next},
                      !.next = @ + 1])
  /\ note' = EventAt(r.next)
  /\ UNCHANGED lastProjection
  /\ DrainUnchanged

\* A hole: what the baseline or the first row kept behind it asks for is read
\* from history.  Without one the drain ends.
FindHole(d) ==
  LET r == delivery[d]
      ahead == {n \in r.pending : n > r.next}
      rest == [r EXCEPT !.through = -1] IN
  /\ r.phase = "drain" /\ HasTurn(d) /\ r.next \notin r.pending
  /\ Set(d, IF r.through >= r.next
            THEN [rest EXCEPT !.phase = "recover", !.to = r.through]
            ELSE IF ahead # {} THEN [rest EXCEPT !.phase = "recover", !.to = Min(ahead) - 1]
            ELSE Ended(d, rest))
  /\ UNCHANGED lastProjection
  /\ DrainUnchanged
  /\ Silent

\* recover() has read some of the range, or nothing, or has failed.
Recovered(d) ==
  LET r == delivery[d] IN
  /\ r.phase = "recover" /\ HasTurn(d)
  /\ \E read \in SUBSET (r.next .. Min({r.to, hostLast})) :
       LET fresh == {n \in read \cap Projections : Fresh(n)} IN
       /\ lastProjection' = Max(fresh \cup {lastProjection})
       /\ Set(d, [r EXCEPT !.phase = "fill",
                           !.pending = @ \cup (read \ Projections) \cup fresh,
                           !.skipped = @ \cup ((read \cap Projections) \ fresh)])
  /\ Silent
  /\ DrainUnchanged

\* A filtered projection is passed over, a hole that stays is announced.
PassSkipped(d) ==
  LET r == delivery[d] IN
  /\ r.phase = "fill" /\ HasTurn(d) /\ r.next <= r.to
  /\ r.next \in r.skipped \ r.pending
  /\ Set(d, [r EXCEPT !.skipped = @ \ {r.next}, !.next = @ + 1])
  /\ UNCHANGED lastProjection
  /\ DrainUnchanged
  /\ Silent

AnnounceGapBug(d) ==
  LET r == delivery[d] IN
  /\ r.phase = "fill" /\ HasTurn(d) /\ r.next <= r.to
  /\ r.next \notin r.skipped \cup r.pending
  /\ note' = GapNotice(r.next, r.to)
  /\ Set(d, [r EXCEPT !.next = r.to + 1])
  /\ UNCHANGED lastProjection
  /\ DrainUnchanged

AnnounceGap(d) ==
  LET r == delivery[d]
      known == {n \in r.pending \cup r.skipped : n > r.next}
      gapTo == Min({r.to} \cup {n - 1 : n \in known}) IN
  /\ r.phase = "fill" /\ HasTurn(d) /\ r.next <= r.to
  /\ r.next \notin r.skipped \cup r.pending
  /\ note' = GapNotice(r.next, gapTo)
  /\ Set(d, [r EXCEPT !.next = gapTo + 1])
  /\ UNCHANGED lastProjection
  /\ DrainUnchanged

RangeDone(d) ==
  /\ delivery[d].phase = "fill" /\ HasTurn(d) /\ delivery[d].next > delivery[d].to
  /\ Set(d, [delivery[d] EXCEPT !.phase = "drain", !.to = -1])
  /\ UNCHANGED lastProjection
  /\ DrainUnchanged
  /\ Silent

DrainStep(d) ==
  \/ LosesTurn(d) \/ EmitPending(d) \/ FindHole(d) \/ Recovered(d)
  \/ PassSkipped(d) \/ AnnounceGap(d) \/ RangeDone(d)

-----------------------------------------------------------------------------
Accept ==
  \/ AcceptEarly \/ AcceptProjection \/ AcceptRow \/ AcceptRemoved
  \/ AcceptSubscribed \/ AcceptSnapshot

Next ==
  \/ HostAppends \/ HostRestarts \/ StartReading \/ GenerationEnds \/ Restart \/ Close
  \/ Accept \/ ReaderStep
  \/ \E d \in Deliveries : DrainStep(d)

Spec == Init /\ [][Next]_vars

\* A yield to the event loop ends and a history read returns or fails, so
\* neither a snapshot nor a drain stays where it is; nothing obliges the host
\* to send a frame or a generation to last.
Fairness == WF_vars(ReaderStep) /\ \A d \in Deliveries : WF_vars(DrainStep(d))

FairSpec == Spec /\ Fairness

-----------------------------------------------------------------------------
(* Properties. *)

TypeOK ==
  /\ {snapshots, closed, alive, told, subscribed} \subseteq BOOLEAN
  /\ hostLast \in Cursors
  /\ reader \in [phase : {"idle", "replay", "merge"}, todo : SUBSET Positions,
                 last : Cursors, delivery : Deliveries \cup {None}]
  /\ snapshot \subseteq Positions /\ lastSeq \in Cursors \cup {None}
  /\ lastProjection \in Cursors /\ baseline \in Cursors
  /\ current \in Deliveries \cup {None}
  /\ delivery \in [Deliveries ->
       [next : 0 .. Size, pending : SUBSET Positions, skipped : SUBSET Positions,
        through : Cursors, phase : {"idle", "drain", "recover", "fill"},
        turn : BOOLEAN, nextTurn : BOOLEAN, to : Cursors]]
  /\ note.kind \in {"nothing", "subscribed", "removed", "row", "projection", "replay", "gap"}
  /\ note.from \in Cursors /\ note.to \in Cursors

\* The listeners see an ordered log: each durable position in its turn, once,
\* or announced as missing, whichever drains were left behind by deliveries
\* that were replaced and whatever cut the stream.
Log == INSTANCE OrderedLog WITH
  cursor <- IF current = None THEN None ELSE delivery[current].next

OrderedDelivery == Log!Spec

\* A row that is at hand, or a projection that is known to be outdated, is
\* never announced as missing.
GapsAreUnknown ==
  [][note'.kind = "gap" =>
       (note'.from .. note'.to) \cap (delivery[current].pending \cup delivery[current].skipped) = {}]_vars

\* A generation that was cut, restarted or closed hands out nothing more,
\* neither by a snapshot nor by a drain that was under way.
SilentOnceCut == [][~alive => note' = Nothing]_vars

\* Once the host's baseline has arrived, everything up to the known end of the
\* log is delivered or announced, unless the stream is cut again: a hole that
\* an earlier generation left open does not stay open.
CaughtUp ==
  LET owing == /\ alive /\ told /\ reader.phase = "idle"
               /\ current # None /\ delivery[current].next <= lastSeq IN
  owing ~> ~owing

\* The cursor does not run ahead of the known end of the log: it would drop the
\* rows the host appends there.
CursorInLog == current # None => delivery[current].next <= lastSeq + 1

\* A projection handed out is newer than the baseline handed out before it.
ProjectionsFenced ==
  [][note'.kind = "projection" => note'.from > baseline]_vars

\* The drain of a delivery reaches this position without being asked again: it knows of
\* it, or its current range ends there or beyond, and it has its turn or will get it.
Reaches(r, n) ==
  LET known == n \in r.pending \/ n <= r.through IN
  /\ r.phase # "idle"
  /\ \/ r.turn /\ (known \/ (r.phase \in {"recover", "fill"} /\ n <= r.to))
     \/ r.nextTurn /\ known

\* The state behind CaughtUp: once the host's baseline has arrived, a drain is under way
\* to whatever is still owed up to the known end of the log, although the generations
\* that learned of it may have been cut off.
OwedIsUnderWay ==
  alive /\ told /\ current # None /\ delivery[current].next <= lastSeq =>
    Reaches(delivery[current], lastSeq)
=============================================================================
