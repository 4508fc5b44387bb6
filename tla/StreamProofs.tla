---------------------------- MODULE StreamProofs ----------------------------
(***************************************************************************)
(* What the stream controller promises: StreamDelivery for logs of every   *)
(* length and any number of deliveries, and StreamLifecycle for every set  *)
(* of listeners and every budget of recoveries.                            *)
(*                                                                         *)
(* The rows.  StreamInv is typing and how the parts of the state go        *)
(* together: there is a delivery exactly when a position is known, and no  *)
(* drain has a turn but under a generation that reads.  OwedInv adds that  *)
(* a drain is under way to whatever is owed, and that a snapshot is only   *)
(* merged while it reaches as far as anything known.  With them the        *)
(* consumers see an ordered log, whatever cuts the stream and whichever    *)
(* drains replaced deliveries have left behind.                            *)
(*                                                                         *)
(* The generations.  The type invariant of StreamLifecycle is inductive as *)
(* it stands; LifeParts says the same of the variables one by one.         *)
(***************************************************************************)
EXTENDS StreamDelivery, StreamLifecycle, TLAPS, FiniteSetTheorems

Readers == [phase : {"idle", "replay", "merge"}, todo : SUBSET Positions,
            last : Cursors, delivery : Deliveries \cup {None}]

Orders == [next : 0 .. Size, pending : SUBSET Positions, skipped : SUBSET Positions,
           through : Cursors, phase : {"idle", "drain", "recover", "fill"},
           turn : BOOLEAN, nextTurn : BOOLEAN, to : Cursors]

NoteKinds == {"nothing", "subscribed", "removed", "row", "projection", "replay", "gap"}

Notes == [kind : NoteKinds, from : Cursors, to : Cursors]

HostOK ==
  /\ snapshots \in BOOLEAN /\ hostLast \in Cursors
  /\ closed \in BOOLEAN /\ alive \in BOOLEAN /\ told \in BOOLEAN

SessionOK ==
  /\ subscribed \in BOOLEAN /\ snapshot \in SUBSET Positions
  /\ lastSeq \in Cursors \cup {None}

ProjectionsOK == lastProjection \in Cursors /\ baseline \in Cursors

OrdersOK == current \in Deliveries \cup {None} /\ delivery \in [Deliveries -> Orders]

\* A generation reads an open controller only, and a turn is that of such a generation.
TurnsAreAlive ==
  /\ alive => ~closed
  /\ \A d \in Deliveries : delivery[d].turn \/ delivery[d].nextTurn => alive

\* An open controller has a delivery exactly when it knows a position.
DeliveryHasBaseline ==
  /\ closed => current = None
  /\ ~closed => (lastSeq = None <=> current = None)

\* A snapshot that is merged belongs to a delivery.
MergeHasDelivery == reader.phase = "merge" => reader.delivery \in Deliveries

StreamInv ==
  /\ HostOK /\ reader \in Readers /\ SessionOK /\ ProjectionsOK /\ OrdersOK /\ note \in Notes
  /\ TurnsAreAlive /\ DeliveryHasBaseline /\ MergeHasDelivery

-----------------------------------------------------------------------------
(* What a step must be. *)

\* The cursor of OrderedLog.
Cursor == IF current = None THEN None ELSE delivery[current].next

\* The steps of OrderedLog, over the cursor.
LogStep ==
  \/ Cursor' = Cursor /\ note' = Nothing
  \/ Cursor = None /\ Cursor' = 0 /\ note' = Nothing
  \/ Cursor # None /\ Cursor' = Cursor + 1 /\ note' \in {EventAt(Cursor), Nothing}
  \/ None \notin {Cursor, Cursor'} /\ Cursor' > Cursor /\ note' = GapNotice(Cursor, Cursor' - 1)
  \/ note'.kind = "subscribed" /\ Cursor' \in {Cursor, note'.to + 1} \ {None}
  \/ note'.kind \in {"projection", "replay"} /\ Cursor' = Cursor
  \/ Cursor' = None /\ note' \in {Nothing, Event("removed", 0)}

\* A gap names no position that is at hand or known to be outdated.
GapStep ==
  note'.kind = "gap" =>
    (note'.from .. note'.to) \cap (delivery[current].pending \cup delivery[current].skipped) = {}

SilentStep == ~alive => note' = Nothing

StepIsSound == StreamInv' /\ LogStep /\ GapStep /\ SilentStep

-----------------------------------------------------------------------------
(* The least and the greatest of a set of positions. *)

\* A finite set of integers has a least member: the one with the smallest set of
\* members up to it.
LEMMA MinIsLeast ==
  ASSUME NEW S, S \subseteq Int, IsFiniteSet(S), S # {}
  PROVE  Min(S) \in S /\ \A y \in S : Min(S) <= y
<1> DEFINE UpTo(n) == {y \in S : y <= n}
           T == {UpTo(n) : n \in S}
           R == StrictSubsetOrdering(S)
<1>1. IsWellFoundedOn(R, FiniteSubsetsOf(S))
  BY FS_StrictSubsetOrderingWellFounded
<1>2. T \subseteq FiniteSubsetsOf(S) /\ T # {}
  <2>1. \A n \in S : UpTo(n) \subseteq S
    OBVIOUS
  <2>2. \A n \in S : IsFiniteSet(UpTo(n))
    BY <2>1, FS_Subset
  <2> QED  BY <2>1, <2>2 DEF FiniteSubsetsOf
<1>3. PICK u \in T : \A v \in T : <<v, u>> \notin R
  <2> HIDE DEF T, R
  <2> QED  BY <1>1, <1>2, WFMin
<1>4. PICK m \in S : u = UpTo(m)
  OBVIOUS
<1>5. \A n \in S : m <= n
  <2> SUFFICES ASSUME NEW n \in S, n < m PROVE FALSE
    OBVIOUS
  <2>1. UpTo(n) \subseteq UpTo(m) /\ UpTo(n) # UpTo(m)
    <3>1. m \in Int /\ n \in Int /\ \A y \in S : y \in Int /\ (y <= n => y <= m)
      OBVIOUS
    <3>2. m \in UpTo(m) /\ m \notin UpTo(n)
      BY <3>1
    <3> QED  BY <3>1, <3>2
  <2>2. UpTo(n) \in SUBSET S /\ UpTo(m) \in SUBSET S
    OBVIOUS
  <2>3. <<UpTo(n), UpTo(m)>> \in R
    <3> HIDE DEF UpTo
    <3> QED  BY <2>1, <2>2 DEF StrictSubsetOrdering
  <2> QED  BY <1>3, <1>4, <2>3
<1> QED  BY <1>5 DEF Min

\* A finite set of integers has a greatest member.
LEMMA MaxIsGreatest ==
  ASSUME NEW S, S \subseteq Int, IsFiniteSet(S), S # {}
  PROVE  Max(S) \in S /\ \A y \in S : Max(S) >= y
<1> DEFINE From(n) == {y \in S : y >= n}
           T == {From(n) : n \in S}
           R == StrictSubsetOrdering(S)
<1>1. IsWellFoundedOn(R, FiniteSubsetsOf(S))
  BY FS_StrictSubsetOrderingWellFounded
<1>2. T \subseteq FiniteSubsetsOf(S) /\ T # {}
  <2>1. \A n \in S : From(n) \subseteq S
    OBVIOUS
  <2>2. \A n \in S : IsFiniteSet(From(n))
    BY <2>1, FS_Subset
  <2> QED  BY <2>1, <2>2 DEF FiniteSubsetsOf
<1>3. PICK u \in T : \A v \in T : <<v, u>> \notin R
  <2> HIDE DEF T, R
  <2> QED  BY <1>1, <1>2, WFMin
<1>4. PICK m \in S : u = From(m)
  OBVIOUS
<1>5. \A n \in S : m >= n
  <2> SUFFICES ASSUME NEW n \in S, n > m PROVE FALSE
    OBVIOUS
  <2>1. From(n) \subseteq From(m) /\ From(n) # From(m)
    <3>1. m \in Int /\ n \in Int /\ \A y \in S : y \in Int /\ (y >= n => y >= m)
      OBVIOUS
    <3>2. m \in From(m) /\ m \notin From(n)
      BY <3>1
    <3> QED  BY <3>1, <3>2
  <2>2. From(n) \in SUBSET S /\ From(m) \in SUBSET S
    OBVIOUS
  <2>3. <<From(n), From(m)>> \in R
    <3> HIDE DEF From
    <3> QED  BY <2>1, <2>2 DEF StrictSubsetOrdering
  <2> QED  BY <1>3, <1>4, <2>3
<1> QED  BY <1>5 DEF Max

\* The least and the greatest of a set of cursors.
LEMMA CursorBounds ==
  ASSUME NEW S, S \subseteq Cursors, S # {}
  PROVE  /\ Min(S) \in S /\ \A y \in S : Min(S) <= y
         /\ Max(S) \in S /\ \A y \in S : Max(S) >= y
<1>1. Cursors \subseteq Int /\ IsFiniteSet(Cursors)
  BY FS_Interval, SizeAssumption DEF Cursors
<1>2. S \subseteq Int /\ IsFiniteSet(S)
  BY <1>1, FS_Subset
<1> QED  BY <1>2, MinIsLeast, MaxIsGreatest

\* The greater of two cursors is one of them.
LEMMA MaxOfTwo ==
  ASSUME NEW a \in Int, NEW b \in Int
  PROVE  Max({a, b}) = IF a >= b THEN a ELSE b
<1> DEFINE m == IF a >= b THEN a ELSE b
<1>1. m \in {a, b} /\ \A y \in {a, b} : m >= y
  OBVIOUS
<1>2. /\ Max({a, b}) \in {a, b}
      /\ \A y \in {a, b} : Max({a, b}) >= y
  BY <1>1 DEF Max
<1> QED  BY <1>2

\* The lesser of two cursors is one of them.
LEMMA MinOfTwo ==
  ASSUME NEW a \in Int, NEW b \in Int
  PROVE  Min({a, b}) = IF a <= b THEN a ELSE b
<1> DEFINE m == IF a <= b THEN a ELSE b
<1>1. m \in {a, b} /\ \A y \in {a, b} : m <= y
  OBVIOUS
<1>2. /\ Min({a, b}) \in {a, b}
      /\ \A y \in {a, b} : Min({a, b}) <= y
  BY <1>1 DEF Min
<1> QED  BY <1>2

\* What typing needs to know of the constants.
LEMMA Ranges ==
  /\ Size \in Nat /\ Size > 0
  /\ Positions \subseteq Cursors /\ Cursors \subseteq Int /\ Projections \subseteq Positions
  /\ None \notin Int /\ None \notin Deliveries
  /\ -1 \in Cursors /\ 0 \in Cursors
  /\ \A n \in Cursors : n + 1 \in 0 .. Size
BY SizeAssumption, ProjectionsAssumption, NoneAssumption DEF Positions, Cursors

\* Two cursors, the greater and the lesser of them.
LEMMA CursorPairs ==
  ASSUME NEW a \in Cursors, NEW b \in Cursors
  PROVE  Max({a, b}) \in Cursors /\ Min({a, b}) \in Cursors
BY Ranges, MaxOfTwo, MinOfTwo

\* The notes there can be.
LEMMA NotesOK ==
  /\ Nothing \in Notes /\ Nothing.kind = "nothing"
  /\ \A k \in NoteKinds, n \in Cursors :
       Event(k, n) \in Notes /\ Event(k, n).kind = k /\ Event(k, n).to = n
  /\ \A n \in Positions : EventAt(n) \in Notes /\ EventAt(n).kind \in {"row", "projection"}
  /\ \A n, m \in Cursors :
       /\ GapNotice(n, m) \in Notes
       /\ GapNotice(n, m).kind = "gap" /\ GapNotice(n, m).from = n /\ GapNotice(n, m).to = m
BY Ranges DEF Nothing, Event, EventAt, GapNotice, Notes, NoteKinds

\* A step that hands out nothing is silent, and announces no gap.
LEMMA SilentIsSound ==
  ASSUME Silent
  PROVE  GapStep /\ SilentStep /\ note' \in Notes /\ note' = Nothing
BY NotesOK DEF Silent, GapStep, SilentStep

\* A new delivery, one whose signal fired and one that begins to drain are deliveries.
LEMMA OrdersClosed ==
  /\ \A n \in 0 .. Size :
       /\ NewDelivery(n) \in Orders /\ NewDelivery(n).next = n
       /\ ~NewDelivery(n).turn /\ ~NewDelivery(n).nextTurn
  /\ \A r \in Orders :
       /\ SignalFired(r) \in Orders /\ SignalFired(r).next = r.next
       /\ ~SignalFired(r).turn /\ ~SignalFired(r).nextTurn
       /\ StartDrain(r) \in Orders /\ StartDrain(r).next = r.next
       /\ Discarded(r) \in Orders
       /\ Discarded(r).turn \/ Discarded(r).nextTurn => r.turn \/ r.nextTurn
<1>1. ASSUME NEW n \in 0 .. Size
      PROVE  /\ NewDelivery(n) \in Orders /\ NewDelivery(n).next = n
             /\ ~NewDelivery(n).turn /\ ~NewDelivery(n).nextTurn
  BY <1>1, Ranges DEF NewDelivery, Orders
<1>2. ASSUME NEW r \in Orders
      PROVE  /\ SignalFired(r) \in Orders /\ SignalFired(r).next = r.next
             /\ ~SignalFired(r).turn /\ ~SignalFired(r).nextTurn
             /\ StartDrain(r) \in Orders /\ StartDrain(r).next = r.next
  BY <1>2 DEF Orders, SignalFired, StartDrain
<1>3. ASSUME NEW r \in Orders
      PROVE  /\ Discarded(r) \in Orders
             /\ Discarded(r).turn \/ Discarded(r).nextTurn => r.turn \/ r.nextTurn
  BY <1>1, <1>3, Ranges DEF Discarded
<1> QED  BY <1>1, <1>2, <1>3

-----------------------------------------------------------------------------
(* The host and the generations. *)

\* Nothing is held any more.
LEMMA NothingHeldIsSound ==
  ASSUME StreamInv, NothingHeld, alive' = FALSE
  PROVE  OrdersOK' /\ TurnsAreAlive' /\ current' = None /\ Cursor' = None
BY OrdersClosed, Ranges DEF NothingHeld, OrdersOK, TurnsAreAlive, Cursor

\* The host changes, or a generation begins to read: nothing is handed out.
LEMMA HostIsSound == StreamInv /\ (HostAppends \/ HostRestarts \/ StartReading) => StepIsSound
<1> SUFFICES ASSUME StreamInv, HostAppends \/ HostRestarts \/ StartReading PROVE StepIsSound
  OBVIOUS
<1> USE DEF StreamInv
<1>1. /\ UNCHANGED <<snapshots, closed, reader, lastSeq, projectionVars, orderVars>>
      /\ Silent
      /\ alive => alive'
      /\ alive' => ~closed
  BY DEF HostAppends, HostRestarts, StartReading, sessionVars, TurnsAreAlive
<1>2. HostOK'
  <2>1. CASE HostAppends
    BY <2>1, SizeAssumption DEF HostAppends, HostOK, Cursors
  <2>2. CASE HostRestarts
    BY <2>2, SizeAssumption DEF HostRestarts, HostOK, Cursors
  <2>3. CASE StartReading
    BY <2>3 DEF StartReading, HostOK
  <2> QED  BY <2>1, <2>2, <2>3
<1>3. SessionOK'
  BY DEF HostAppends, HostRestarts, StartReading, SessionOK, sessionVars, HostOK
<1>4. UNCHANGED <<lastProjection, baseline, current, delivery>>
  BY <1>1 DEF projectionVars, orderVars
<1>5. StreamInv'
  BY <1>1, <1>2, <1>3, <1>4, SilentIsSound
     DEF ProjectionsOK, OrdersOK, TurnsAreAlive, DeliveryHasBaseline, MergeHasDelivery
<1>6. LogStep
  BY <1>1, <1>4, SilentIsSound DEF LogStep, Cursor
<1> QED  BY <1>1, <1>5, <1>6, SilentIsSound DEF StepIsSound

\* The end of a generation takes every turn, and leaves the delivery where it stands.
LEMMA GenerationEndsIsSound == StreamInv /\ GenerationEnds => StepIsSound
<1> SUFFICES ASSUME StreamInv, GenerationEnds PROVE StepIsSound
  OBVIOUS
<1> USE DEF StreamInv
<1>1. /\ UNCHANGED <<snapshots, hostLast, closed, told, reader, subscribed, snapshot, lastSeq,
                     lastProjection, baseline, current>>
      /\ alive' = FALSE /\ Silent
      /\ delivery' = [d \in Deliveries |-> IF d = current THEN SignalFired(delivery[d])
                                           ELSE NewDelivery(0)]
  BY DEF GenerationEnds, sessionVars, projectionVars
<1>2. OrdersOK' /\ \A d \in Deliveries : ~delivery'[d].turn /\ ~delivery'[d].nextTurn
  BY <1>1, OrdersClosed, Ranges DEF OrdersOK
<1>3. Cursor' = Cursor
  BY <1>1, OrdersClosed DEF Cursor, OrdersOK
<1>4. StreamInv'
  BY <1>1, <1>2, SilentIsSound
     DEF HostOK, SessionOK, ProjectionsOK, TurnsAreAlive, DeliveryHasBaseline, MergeHasDelivery
<1>5. LogStep
  BY <1>1, <1>3, SilentIsSound DEF LogStep
<1> QED  BY <1>1, <1>4, <1>5, SilentIsSound DEF StepIsSound

\* A restart or a close forgets the delivery.
LEMMA RestartIsSound == StreamInv /\ (Restart \/ Close) => StepIsSound
<1> SUFFICES ASSUME StreamInv, Restart \/ Close PROVE StepIsSound
  OBVIOUS
<1> USE DEF StreamInv
<1>1. /\ alive' = FALSE /\ NothingHeld /\ Silent /\ reader' = reader
  BY DEF Restart, Close
<1>2. OrdersOK' /\ TurnsAreAlive' /\ current' = None /\ Cursor' = None
  BY <1>1, NothingHeldIsSound
<1>3. HostOK' /\ SessionOK' /\ ProjectionsOK' /\ DeliveryHasBaseline'
  <2>1. CASE Restart
    BY <1>2, <2>1, Ranges DEF Restart, HostOK, SessionOK, ProjectionsOK, DeliveryHasBaseline
  <2>2. CASE Close
    BY <1>2, <2>2 DEF Close, HostOK, SessionOK, ProjectionsOK, DeliveryHasBaseline, sessionVars,
       projectionVars
  <2> QED  BY <2>1, <2>2
<1>4. StreamInv'
  BY <1>1, <1>2, <1>3, SilentIsSound DEF MergeHasDelivery
<1>5. LogStep
  BY <1>1, <1>2, SilentIsSound DEF LogStep
<1> QED  BY <1>1, <1>4, <1>5, SilentIsSound DEF StepIsSound

-----------------------------------------------------------------------------
(* The frames. *)

\* A generation that reads is alive and its controller open.
LEMMA EarlyIsSound == StreamInv /\ AcceptEarly => StepIsSound
<1> SUFFICES ASSUME StreamInv, AcceptEarly PROVE StepIsSound
  OBVIOUS
<1> USE DEF StreamInv
<1>1. /\ UNCHANGED <<snapshots, hostLast, closed, alive, told, reader, subscribed, lastSeq,
                     lastProjection, baseline, current, delivery>>
      /\ Silent
  BY DEF AcceptEarly, Unchanged, streamVars, projectionVars, orderVars
<1>2. snapshot' \in SUBSET Positions
  BY SizeAssumption DEF AcceptEarly, SessionOK, HostOK, Positions, Cursors
<1>3. StreamInv'
  BY <1>1, <1>2, SilentIsSound
     DEF HostOK, SessionOK, ProjectionsOK, OrdersOK, TurnsAreAlive, DeliveryHasBaseline,
         MergeHasDelivery
<1>4. LogStep
  BY <1>1, SilentIsSound DEF LogStep, Cursor
<1> QED  BY <1>1, <1>3, <1>4, SilentIsSound DEF StepIsSound

\* A projection is handed out beside the order.
LEMMA ProjectionIsSound == StreamInv /\ AcceptProjection => StepIsSound
<1> SUFFICES ASSUME StreamInv, AcceptProjection PROVE StepIsSound
  OBVIOUS
<1> USE DEF StreamInv
<1>1. /\ UNCHANGED <<snapshots, hostLast, closed, alive, told, reader, subscribed, snapshot,
                     lastSeq, baseline, current, delivery>>
      /\ alive
  BY DEF AcceptProjection, Unchanged, streamVars, sessionVars, orderVars, Reads
<1>2. PICK n \in Projections : lastProjection' = n /\ note' = Event("projection", n)
  BY DEF AcceptProjection
<1>3. n \in Cursors
  BY Ranges
<1>4. note' \in Notes /\ note'.kind = "projection"
  BY <1>2, <1>3, NotesOK DEF NoteKinds
<1>5. StreamInv'
  BY <1>1, <1>2, <1>3, <1>4
     DEF HostOK, SessionOK, ProjectionsOK, OrdersOK, TurnsAreAlive, DeliveryHasBaseline,
         MergeHasDelivery
<1>6. LogStep
  BY <1>1, <1>4 DEF LogStep, Cursor
<1> QED  BY <1>1, <1>4, <1>5, <1>6 DEF StepIsSound, GapStep, SilentStep

\* A row is kept for its turn; the first one opens a delivery at the first position.
LEMMA RowIsSound == StreamInv /\ AcceptRow => StepIsSound
<1> SUFFICES ASSUME StreamInv, AcceptRow PROVE StepIsSound
  OBVIOUS
<1> USE DEF StreamInv
<1>1. /\ UNCHANGED <<snapshots, hostLast, closed, alive, told, reader, subscribed, snapshot,
                     lastProjection, baseline>>
      /\ alive /\ ~closed /\ Silent
  BY DEF AcceptRow, Unchanged, streamVars, projectionVars, Reads
<1>2. PICK n \in (0 .. hostLast) \ Projections, d \in Deliveries :
        /\ IF current = None THEN Unused(d) /\ current' = d ELSE d = current /\ UNCHANGED current
        /\ LET r == IF current = None THEN NewDelivery(0) ELSE delivery[d] IN
           delivery' = [delivery EXCEPT
                          ![d] = StartDrain([r EXCEPT !.pending = @ \cup {n}])]
        /\ lastSeq' = IF lastSeq = None THEN n ELSE Max({lastSeq, n})
  BY DEF AcceptRow
<1>3. n \in Positions /\ n \in Cursors
  BY Ranges DEF HostOK, Positions, Cursors
<1> DEFINE r == IF current = None THEN NewDelivery(0) ELSE delivery[d]
           kept == [r EXCEPT !.pending = r.pending \cup {n}]
<1>4. kept \in Orders /\ kept.next = r.next
  <2>1. r \in Orders
    BY OrdersClosed, Ranges DEF OrdersOK
  <2> HIDE DEF r
  <2> QED  BY <1>3, <2>1 DEF Orders
<1>5. delivery' = [delivery EXCEPT ![d] = StartDrain(kept)]
  BY <1>2
<1>6. current' = d /\ current' # None /\ lastSeq' \in Cursors /\ lastSeq' # None
  BY <1>2, <1>3, CursorPairs, Ranges DEF SessionOK
<1>7. OrdersOK'
  BY <1>4, <1>5, <1>6, OrdersClosed DEF OrdersOK
<1>8. StreamInv'
  BY <1>1, <1>5, <1>6, <1>7, SilentIsSound
     DEF HostOK, SessionOK, ProjectionsOK, TurnsAreAlive, DeliveryHasBaseline, MergeHasDelivery
<1>9. Cursor' = r.next
  BY <1>4, <1>5, <1>6, OrdersClosed DEF Cursor, OrdersOK
<1>10. LogStep
  <2>1. CASE current = None
    <3>1. Cursor = None /\ Cursor' = 0
      BY <1>9, <2>1, OrdersClosed, Ranges DEF Cursor
    <3> QED  BY <1>1, <3>1, SilentIsSound DEF LogStep
  <2>2. CASE current # None
    <3>1. Cursor' = Cursor
      BY <1>2, <1>9, <2>2 DEF Cursor
    <3> QED  BY <1>1, <3>1, SilentIsSound DEF LogStep
  <2> QED  BY <2>1, <2>2
<1> QED  BY <1>1, <1>8, <1>10, SilentIsSound DEF StepIsSound

\* A removed session takes its delivery with it.
LEMMA RemovedIsSound == StreamInv /\ AcceptRemoved => StepIsSound
<1> SUFFICES ASSUME StreamInv, AcceptRemoved PROVE StepIsSound
  OBVIOUS
<1> USE DEF StreamInv
<1>1. /\ UNCHANGED <<snapshots, hostLast, closed, alive, told, reader>>
      /\ alive /\ ~closed /\ subscribed' = FALSE /\ snapshot' = {} /\ lastSeq' = None
      /\ lastProjection' = -1 /\ baseline' = -1 /\ current' = None
      /\ delivery' = [d \in Deliveries |-> Discarded(delivery[d])]
      /\ note' = Event("removed", 0)
  BY DEF AcceptRemoved, Unchanged, streamVars, Reads
<1>2. note' \in Notes /\ note'.kind = "removed"
  BY <1>1, NotesOK, Ranges DEF NoteKinds
<1>3. OrdersOK'
  BY <1>1, OrdersClosed DEF OrdersOK
<1>4. StreamInv'
  BY <1>1, <1>2, <1>3, Ranges
     DEF HostOK, SessionOK, ProjectionsOK, TurnsAreAlive, DeliveryHasBaseline, MergeHasDelivery
<1>5. LogStep
  BY <1>1 DEF LogStep, Cursor
<1> QED  BY <1>1, <1>2, <1>4, <1>5 DEF StepIsSound, GapStep, SilentStep

\* A new delivery stands at the position after its baseline.
LEMMA StartIsSound ==
  ASSUME StreamInv, NEW last \in Cursors, StartDelivery(last), alive' = alive, alive
  PROVE  /\ OrdersOK' /\ current' \in Deliveries /\ Cursor' = last + 1 /\ Cursor' # None
<1> USE DEF StreamInv
<1>1. PICK d \in Deliveries :
        /\ current' = d
        /\ delivery' = [k \in Deliveries |-> IF k = d THEN NewDelivery(last + 1)
                                             ELSE Discarded(delivery[k])]
  BY DEF StartDelivery
<1>2. last + 1 \in 0 .. Size
  BY Ranges
<1>3. OrdersOK'
  BY <1>1, <1>2, OrdersClosed DEF OrdersOK
<1>4. Cursor' = last + 1 /\ Cursor' # None
  BY <1>1, <1>2, OrdersClosed, Ranges DEF Cursor
<1> QED  BY <1>1, <1>3, <1>4

\* What a baseline does to the projections keeps them cursors.
LEMMA BaselineIsSound ==
  ASSUME StreamInv, NEW asOf \in {None, hostLast}, RememberBaseline(hostLast, asOf)
  PROVE  ProjectionsOK'
<1> USE DEF StreamInv
<1>1. lastProjection' \in Cursors
  BY Ranges DEF RememberBaseline, ProjectionsOK
<1>2. baseline' \in Cursors
  <2> DEFINE base == IF lastSeq # None /\ hostLast < lastSeq THEN -1 ELSE baseline
  <2>1. base \in Cursors /\ hostLast \in Cursors
    BY Ranges DEF ProjectionsOK, HostOK
  <2>2. baseline' = IF asOf = None THEN base ELSE Max({base, asOf})
    BY DEF RememberBaseline
  <2> HIDE DEF base
  <2>3. CASE asOf = None
    BY <2>1, <2>2, <2>3
  <2>4. CASE asOf # None
    <3>1. asOf \in Cursors
      BY <2>1, <2>4
    <3> QED  BY <2>1, <2>2, <2>4, <3>1, CursorPairs
  <2> QED  BY <2>3, <2>4
<1> QED  BY <1>1, <1>2 DEF ProjectionsOK

\* A baseline starts a delivery after it, or arms the present one where it stands.
LEMMA SubscribedIsSound == StreamInv /\ AcceptSubscribed => StepIsSound
<1> SUFFICES ASSUME StreamInv, AcceptSubscribed PROVE StepIsSound
  OBVIOUS
<1> USE DEF StreamInv
<1>1. /\ UNCHANGED <<snapshots, hostLast, closed, alive, reader, snapshot>>
      /\ alive /\ ~closed /\ subscribed' = TRUE /\ told' = TRUE /\ lastSeq' = hostLast
      /\ note' = Event("subscribed", hostLast)
      /\ hostLast \in Cursors
  BY DEF AcceptSubscribed, Reads, HostOK
<1>2. ProjectionsOK'
  BY BaselineIsSound DEF AcceptSubscribed
<1>3. /\ note' \in Notes /\ note'.kind = "subscribed" /\ note'.to = hostLast
  BY <1>1, NotesOK DEF NoteKinds
<1>4. /\ OrdersOK' /\ current' \in Deliveries /\ Cursor' \in {Cursor, hostLast + 1} \ {None}
  <2>1. CASE Rebases
    <3>1. StartDelivery(hostLast)
      BY <2>1 DEF AcceptSubscribed
    <3> QED  BY <1>1, <3>1, StartIsSound
  <2>2. CASE ~Rebases
    <3>1. /\ current' = current
          /\ delivery' = [delivery EXCEPT ![current] = Rearmed(delivery[current], hostLast)]
      BY <2>2 DEF AcceptSubscribed
    <3>2. current \in Deliveries /\ lastSeq \in Cursors
      BY <1>1, <2>2 DEF Rebases, DeliveryHasBaseline, OrdersOK, SessionOK
    <3> DEFINE r == delivery[current]
               armed == [r EXCEPT !.through = Max({r.through, hostLast})]
    <3>3. r \in Orders /\ Max({r.through, hostLast}) \in Cursors
      BY <1>1, <3>2, CursorPairs DEF OrdersOK, Orders
    <3> HIDE DEF r
    <3>4. armed \in Orders /\ armed.next = r.next
      BY <3>3 DEF Orders
    <3>5. Rearmed(r, hostLast) \in {StartDrain(armed), r}
      BY DEF Rearmed
    <3> HIDE DEF armed
    <3>6. Rearmed(r, hostLast) \in Orders /\ Rearmed(r, hostLast).next = r.next
      BY <3>3, <3>4, <3>5, OrdersClosed
    <3>7. delivery' = [delivery EXCEPT ![current] = Rearmed(r, hostLast)]
      BY <3>1 DEF r
    <3>8. OrdersOK'
      BY <3>1, <3>2, <3>6, <3>7 DEF OrdersOK
    <3>9. Cursor' = r.next /\ Cursor = r.next
      BY <3>1, <3>2, <3>6, <3>7, Ranges DEF Cursor, OrdersOK, r
    <3> QED  BY <3>1, <3>2, <3>3, <3>8, <3>9, Ranges DEF Orders
  <2> QED  BY <2>1, <2>2
<1>5. StreamInv'
  BY <1>1, <1>2, <1>3, <1>4, Ranges
     DEF HostOK, SessionOK, TurnsAreAlive, DeliveryHasBaseline, MergeHasDelivery
<1>6. LogStep
  BY <1>3, <1>4 DEF LogStep
<1> QED  BY <1>1, <1>3, <1>5, <1>6 DEF StepIsSound, GapStep, SilentStep

-----------------------------------------------------------------------------
(* The snapshot. *)

\* A snapshot is taken up: to be replayed, or merged into the present delivery.
LEMMA SnapshotIsSound == StreamInv /\ AcceptSnapshot => StepIsSound
<1> SUFFICES ASSUME StreamInv, AcceptSnapshot PROVE StepIsSound
  OBVIOUS
<1> USE DEF StreamInv
<1>1. /\ UNCHANGED <<snapshots, hostLast, closed, alive, told, lastSeq, current, delivery>>
      /\ alive /\ ~closed /\ subscribed' = TRUE /\ snapshot' = {} /\ Silent
      /\ reader' = [phase |-> IF Rebases THEN "replay" ELSE "merge",
                    todo |-> snapshot, last |-> hostLast,
                    delivery |-> IF Rebases THEN None ELSE current]
  BY DEF AcceptSnapshot, Reads, streamVars, orderVars
<1>2. ProjectionsOK'
  BY BaselineIsSound DEF AcceptSnapshot
<1>3. ~Rebases => current \in Deliveries
  BY <1>1 DEF Rebases, DeliveryHasBaseline, OrdersOK
<1>4. reader' \in Readers /\ MergeHasDelivery'
  BY <1>1, <1>3 DEF Readers, SessionOK, HostOK, OrdersOK, MergeHasDelivery
<1>5. StreamInv'
  BY <1>1, <1>2, <1>4, SilentIsSound
     DEF HostOK, SessionOK, OrdersOK, TurnsAreAlive, DeliveryHasBaseline
<1>6. LogStep
  BY <1>1, SilentIsSound DEF LogStep, Cursor
<1> QED  BY <1>1, <1>5, <1>6, SilentIsSound DEF StepIsSound

\* A snapshot is given up.
LEMMA AbandonedIsSound == StreamInv /\ SnapshotAbandoned => StepIsSound
<1> SUFFICES ASSUME StreamInv, SnapshotAbandoned PROVE StepIsSound
  OBVIOUS
<1> USE DEF StreamInv
<1>1. /\ UNCHANGED <<snapshots, hostLast, closed, alive, told, subscribed, snapshot, lastSeq,
                     lastProjection, baseline, current, delivery>>
      /\ reader' = Idle /\ Silent
  BY DEF SnapshotAbandoned, streamVars, sessionVars, projectionVars, orderVars
<1>2. reader' \in Readers /\ MergeHasDelivery'
  BY <1>1, Ranges DEF Idle, Readers, MergeHasDelivery
<1>3. StreamInv'
  BY <1>1, <1>2, SilentIsSound
     DEF HostOK, SessionOK, ProjectionsOK, OrdersOK, TurnsAreAlive, DeliveryHasBaseline
<1>4. LogStep
  BY <1>1, SilentIsSound DEF LogStep, Cursor
<1> QED  BY <1>1, <1>3, <1>4, SilentIsSound DEF StepIsSound

\* The row a snapshot continues with is one of its rows.
LEMMA NextRow ==
  ASSUME StreamInv, reader.todo # {}
  PROVE  /\ Min(reader.todo) \in reader.todo /\ Min(reader.todo) \in Positions
         /\ Min(reader.todo) \in Cursors
         /\ \A S : [reader EXCEPT !.todo = reader.todo \ S] \in Readers
         /\ \A S : [reader EXCEPT !.todo = reader.todo \ S].delivery = reader.delivery
         /\ \A S : [reader EXCEPT !.todo = reader.todo \ S].phase = reader.phase
<1>1. reader.todo \subseteq Positions
  BY DEF StreamInv, Readers
<1>2. Min(reader.todo) \in reader.todo
  BY <1>1, Ranges, CursorBounds
<1>3. \A S : /\ [reader EXCEPT !.todo = reader.todo \ S] \in Readers
             /\ [reader EXCEPT !.todo = reader.todo \ S].delivery = reader.delivery
             /\ [reader EXCEPT !.todo = reader.todo \ S].phase = reader.phase
  BY DEF StreamInv, Readers
<1> QED  BY <1>1, <1>2, <1>3, Ranges

\* A row of a first snapshot is handed out beside the order.
LEMMA ReplayOneIsSound == StreamInv /\ ReplayOne => StepIsSound
<1> SUFFICES ASSUME StreamInv, ReplayOne PROVE StepIsSound
  OBVIOUS
<1> USE DEF StreamInv
<1> DEFINE n == Min(reader.todo)
<1>1. /\ UNCHANGED <<snapshots, hostLast, closed, alive, told, subscribed, snapshot, lastSeq,
                     baseline, current, delivery>>
      /\ alive /\ reader.phase = "replay" /\ reader.todo # {}
      /\ reader' = [reader EXCEPT !.todo = reader.todo \ {n}]
  BY DEF ReplayOne, streamVars, sessionVars, orderVars
<1>2. \/ lastProjection' = lastProjection /\ Silent
      \/ lastProjection' \in {n, lastProjection} /\ note' = Event("replay", n)
  BY DEF ReplayOne
<1>3. n \in Cursors /\ reader' \in Readers /\ reader'.phase = "replay"
  BY <1>1, NextRow
<1> HIDE DEF n
<1>4. /\ lastProjection' \in Cursors /\ note' \in Notes
      /\ note' = Nothing \/ note'.kind = "replay"
      /\ note'.kind # "gap"
  BY <1>2, <1>3, SilentIsSound, NotesOK DEF ProjectionsOK, NoteKinds
<1>5. StreamInv'
  BY <1>1, <1>3, <1>4
     DEF HostOK, SessionOK, ProjectionsOK, OrdersOK, TurnsAreAlive, DeliveryHasBaseline,
         MergeHasDelivery
<1>6. LogStep
  BY <1>1, <1>4 DEF LogStep, Cursor
<1> QED  BY <1>1, <1>4, <1>5, <1>6 DEF StepIsSound, GapStep, SilentStep

\* The delivery begins after a first snapshot.
LEMMA ReplayDoneIsSound == StreamInv /\ ReplayDone => StepIsSound
<1> SUFFICES ASSUME StreamInv, ReplayDone PROVE StepIsSound
  OBVIOUS
<1> USE DEF StreamInv
<1>1. /\ UNCHANGED <<snapshots, hostLast, closed, alive, subscribed, snapshot, lastProjection,
                     baseline>>
      /\ alive /\ StartDelivery(reader.last) /\ lastSeq' = reader.last /\ told' = TRUE
      /\ reader' = Idle /\ note' = Event("subscribed", reader.last)
  BY DEF ReplayDone, projectionVars
<1>2. reader.last \in Cursors
  BY DEF Readers
<1>3. /\ OrdersOK' /\ current' \in Deliveries /\ Cursor' = reader.last + 1 /\ Cursor' # None
  BY <1>1, <1>2, StartIsSound
<1>4. /\ note' \in Notes /\ note'.kind = "subscribed" /\ note'.to = reader.last
  BY <1>1, <1>2, NotesOK DEF NoteKinds
<1>5. StreamInv'
  BY <1>1, <1>2, <1>3, <1>4, Ranges
     DEF HostOK, SessionOK, ProjectionsOK, TurnsAreAlive, DeliveryHasBaseline, MergeHasDelivery,
         Idle, Readers
<1>6. LogStep
  BY <1>3, <1>4 DEF LogStep
<1> QED  BY <1>1, <1>4, <1>5, <1>6 DEF StepIsSound, GapStep, SilentStep

\* A row of a later snapshot is kept for its turn.
LEMMA MergeOneIsSound == StreamInv /\ MergeOne => StepIsSound
<1> SUFFICES ASSUME StreamInv, MergeOne PROVE StepIsSound
  OBVIOUS
<1> USE DEF StreamInv
<1> DEFINE n == Min(reader.todo)
           r == delivery[current]
<1>1. /\ UNCHANGED <<snapshots, hostLast, closed, alive, told, subscribed, snapshot, lastSeq,
                     baseline, current>>
      /\ alive /\ reader.phase = "merge" /\ reader.todo # {} /\ current = reader.delivery
      /\ reader' = [reader EXCEPT !.todo = reader.todo \ {n}] /\ Silent
  BY DEF MergeOne, Merges, streamVars, sessionVars
<1>2. /\ lastProjection' \in {n, lastProjection}
      /\ \/ delivery' = delivery
         \/ delivery' = [delivery EXCEPT ![current] = [r EXCEPT !.skipped = r.skipped \cup {n}]]
         \/ delivery' = [delivery EXCEPT ![current] = [r EXCEPT !.pending = r.pending \cup {n}]]
  BY DEF MergeOne
<1>3. /\ n \in Positions /\ n \in Cursors /\ reader' \in Readers /\ reader'.phase = "merge"
      /\ reader'.delivery = reader.delivery
  BY <1>1, NextRow
<1>4. current \in Deliveries /\ r \in Orders
  BY <1>1 DEF MergeHasDelivery, OrdersOK
<1> HIDE DEF n, r
<1>5. /\ [r EXCEPT !.skipped = r.skipped \cup {n}] \in Orders
      /\ [r EXCEPT !.skipped = r.skipped \cup {n}].next = r.next
      /\ [r EXCEPT !.pending = r.pending \cup {n}] \in Orders
      /\ [r EXCEPT !.pending = r.pending \cup {n}].next = r.next
  BY <1>3, <1>4 DEF Orders
<1>6. OrdersOK' /\ delivery'[current].next = r.next
  BY <1>1, <1>2, <1>4, <1>5 DEF OrdersOK, r
<1>7. lastProjection' \in Cursors
  BY <1>2, <1>3 DEF ProjectionsOK
<1>8. StreamInv'
  BY <1>1, <1>3, <1>6, <1>7, SilentIsSound
     DEF HostOK, SessionOK, ProjectionsOK, TurnsAreAlive, DeliveryHasBaseline, MergeHasDelivery
<1>9. LogStep
  BY <1>1, <1>6, SilentIsSound DEF LogStep, Cursor, r
<1> QED  BY <1>1, <1>8, <1>9, SilentIsSound DEF StepIsSound

\* A merged snapshot leaves the delivery where it stands.
LEMMA MergeDoneIsSound == StreamInv /\ MergeDone => StepIsSound
<1> SUFFICES ASSUME StreamInv, MergeDone PROVE StepIsSound
  OBVIOUS
<1> USE DEF StreamInv
<1> DEFINE r == delivery[current]
           owed == [r EXCEPT !.through = Max({r.through, reader.last})]
<1>1. /\ UNCHANGED <<snapshots, hostLast, closed, alive, subscribed, snapshot, lastProjection,
                     baseline, current>>
      /\ alive /\ reader.phase = "merge" /\ current = reader.delivery /\ told' = TRUE
      /\ lastSeq' = Max({lastSeq, reader.last}) /\ reader' = Idle
      /\ note' = Event("subscribed", reader.last)
      /\ delivery' = [delivery EXCEPT ![current] = StartDrain(owed)]
  <2>1. delivery' = [delivery EXCEPT ![current] = StartDrain(owed)]
    BY DEF MergeDone
  <2> HIDE DEF owed
  <2> QED  BY <2>1 DEF MergeDone, Merges, projectionVars
<1>2. current \in Deliveries /\ r \in Orders /\ reader.last \in Cursors
  BY <1>1 DEF MergeHasDelivery, OrdersOK, Readers
<1>3. ~closed /\ lastSeq \in Cursors
  BY <1>1, <1>2, Ranges DEF TurnsAreAlive, DeliveryHasBaseline, SessionOK
<1>4. owed \in Orders /\ owed.next = r.next
  <2>1. Max({r.through, reader.last}) \in Cursors
    BY <1>2, CursorPairs DEF Orders
  <2> HIDE DEF r
  <2> QED  BY <1>2, <2>1 DEF Orders
<1> HIDE DEF owed
<1>5. OrdersOK' /\ delivery'[current].next = r.next
  BY <1>1, <1>2, <1>4, OrdersClosed DEF OrdersOK
<1>6. lastSeq' \in Cursors /\ lastSeq' # None
  BY <1>1, <1>2, <1>3, CursorPairs, Ranges
<1>7. /\ note' \in Notes /\ note'.kind = "subscribed" /\ note'.to = reader.last
  BY <1>1, <1>2, NotesOK DEF NoteKinds
<1>8. StreamInv'
  BY <1>1, <1>2, <1>3, <1>5, <1>6, <1>7, Ranges
     DEF HostOK, SessionOK, ProjectionsOK, TurnsAreAlive, DeliveryHasBaseline, MergeHasDelivery,
         Idle, Readers
<1>9. Cursor' = Cursor /\ Cursor' # None
  BY <1>1, <1>2, <1>5, Ranges DEF Cursor, Orders
<1>10. LogStep
  BY <1>7, <1>9 DEF LogStep
<1> QED  BY <1>1, <1>7, <1>8, <1>10 DEF StepIsSound, GapStep, SilentStep

-----------------------------------------------------------------------------
(* The drains. *)

\* A step of a drain replaces one record; the cursor is that of the current one.
LEMMA DrainChanges ==
  ASSUME StreamInv, NEW d \in Deliveries, NEW r \in Orders, Set(d, r), DrainUnchanged,
         lastProjection' \in Cursors, note' \in Notes,
         r.turn \/ r.nextTurn => alive
  PROVE  /\ StreamInv'
         /\ d # current => Cursor' = Cursor
         /\ d = current => Cursor = delivery[d].next /\ Cursor' = r.next /\ Cursor \in Nat
<1> USE DEF StreamInv
<1>1. /\ UNCHANGED <<snapshots, hostLast, closed, alive, told, reader, subscribed, snapshot,
                     lastSeq, baseline, current>>
      /\ delivery' = [delivery EXCEPT ![d] = r]
  BY DEF DrainUnchanged, streamVars, sessionVars, Set
<1>2. OrdersOK'
  BY <1>1 DEF OrdersOK
<1>3. StreamInv'
  BY <1>1, <1>2
     DEF HostOK, SessionOK, ProjectionsOK, OrdersOK, TurnsAreAlive, DeliveryHasBaseline,
         MergeHasDelivery
<1>4. d # current => Cursor' = Cursor
  BY <1>1 DEF Cursor, OrdersOK
<1>5. d = current => Cursor = delivery[d].next /\ Cursor' = r.next /\ Cursor \in Nat
  BY <1>1, Ranges DEF Cursor, OrdersOK, Orders
<1> QED  BY <1>3, <1>4, <1>5

\* A drain that ends, or begins again, stays where it is.
LEMMA EndedIsOrder ==
  ASSUME NEW d \in Deliveries, NEW r \in Orders
  PROVE  /\ Ended(d, r) \in Orders /\ (d = current => Ended(d, r).next = r.next)
         /\ Ended(d, r).turn \/ Ended(d, r).nextTurn => r.turn \/ r.nextTurn
<1>1. CASE d # current
  <2>1. Ended(d, r) = NewDelivery(0)
    BY <1>1 DEF Ended
  <2>2. 0 \in 0 .. Size
    BY Ranges
  <2> QED  BY <1>1, <2>1, <2>2, OrdersClosed
<1>2. CASE d = current
  BY <1>2 DEF Ended, Orders
<1> QED  BY <1>1, <1>2

\* A drain that has its turn is that of the current delivery, under a generation that reads.
LEMMA TurnIsCurrent ==
  ASSUME StreamInv, NEW d \in Deliveries, HasTurn(d)
  PROVE  d = current /\ alive /\ delivery[d] \in Orders
BY DEF HasTurn, StreamInv, TurnsAreAlive, OrdersOK

\* A drain without its turn ends; the cursor stays.
LEMMA LosesTurnIsSound ==
  ASSUME StreamInv, NEW d \in Deliveries, LosesTurn(d)
  PROVE  StepIsSound
<1>1. delivery[d] \in Orders /\ (delivery[d].turn \/ delivery[d].nextTurn => alive)
  BY DEF StreamInv, OrdersOK, TurnsAreAlive
<1>2. /\ Set(d, Ended(d, delivery[d])) /\ lastProjection' \in Cursors /\ DrainUnchanged /\ Silent
  BY DEF LosesTurn, StreamInv, ProjectionsOK
<1>3. StreamInv' /\ Cursor' = Cursor
  BY <1>1, <1>2, EndedIsOrder, DrainChanges, SilentIsSound
<1> QED  BY <1>2, <1>3, SilentIsSound DEF StepIsSound, LogStep

\* The position whose turn it is is handed out.
LEMMA EmitIsSound ==
  ASSUME StreamInv, NEW d \in Deliveries, EmitPending(d)
  PROVE  StepIsSound
<1> DEFINE r == delivery[d]
           emitted == [r EXCEPT !.pending = r.pending \ {r.next},
                                !.skipped = r.skipped \ {r.next}, !.next = r.next + 1]
<1>1. /\ HasTurn(d) /\ r.next \in r.pending /\ Set(d, emitted) /\ note' = EventAt(r.next)
      /\ lastProjection' \in Cursors /\ DrainUnchanged
  BY DEF EmitPending, StreamInv, ProjectionsOK
<1>2. d = current /\ alive /\ r \in Orders
  BY <1>1, TurnIsCurrent
<1> HIDE DEF r
<1>3. r.next \in Positions /\ r.next + 1 \in 0 .. Size
  BY <1>1, <1>2, Ranges DEF Orders
<1>4. emitted \in Orders /\ emitted.next = r.next + 1
  BY <1>2, <1>3 DEF Orders
<1>5. note' \in Notes /\ note'.kind \in {"row", "projection"}
  BY <1>1, <1>3, NotesOK
<1> HIDE DEF emitted
<1>6. StreamInv' /\ Cursor = r.next /\ Cursor' = r.next + 1 /\ Cursor \in Nat
  BY <1>1, <1>2, <1>4, <1>5, DrainChanges DEF r
<1>7. LogStep
  BY <1>1, <1>6, Ranges DEF LogStep
<1> QED  BY <1>2, <1>5, <1>6, <1>7 DEF StepIsSound, GapStep, SilentStep

\* A hole is found, or the drain ends; the cursor stays.
LEMMA FindHoleIsSound ==
  ASSUME StreamInv, NEW d \in Deliveries, FindHole(d)
  PROVE  StepIsSound
<1> DEFINE r == delivery[d]
           ahead == {n \in r.pending : n > r.next}
           rest == [r EXCEPT !.through = -1]
           hole == [rest EXCEPT !.phase = "recover", !.to = r.through]
           before == [rest EXCEPT !.phase = "recover", !.to = Min(ahead) - 1]
<1>1. /\ HasTurn(d)
      /\ \/ Set(d, hole)
         \/ ahead # {} /\ Set(d, before)
         \/ Set(d, Ended(d, rest))
      /\ lastProjection' \in Cursors /\ DrainUnchanged /\ Silent
  BY DEF FindHole, StreamInv, ProjectionsOK
<1>2. d = current /\ alive /\ r \in Orders
  BY <1>1, TurnIsCurrent
<1> HIDE DEF r
<1>3. rest \in Orders /\ rest.next = r.next
  BY <1>2, Ranges DEF Orders
<1>4. hole \in Orders /\ hole.next = r.next
  BY <1>2, Ranges DEF Orders
<1>5. ahead # {} => before \in Orders /\ before.next = r.next
  <2>1. ahead \subseteq Positions
    BY <1>2 DEF Orders
  <2>2. ahead # {} => Min(ahead) \in Positions
    BY <2>1, Ranges, CursorBounds
  <2>3. ahead # {} => Min(ahead) - 1 \in Cursors
    BY <2>2, SizeAssumption DEF Positions, Cursors
  <2> HIDE DEF ahead
  <2> QED  BY <1>2, <2>3, Ranges DEF Orders
<1>6. Ended(d, rest) \in Orders /\ Ended(d, rest).next = r.next
  BY <1>2, <1>3, EndedIsOrder
<1> HIDE DEF ahead, rest, hole, before
<1>7. PICK x \in Orders : x.next = r.next /\ Set(d, x)
  BY <1>1, <1>3, <1>4, <1>5, <1>6
<1>8. StreamInv' /\ Cursor' = Cursor
  BY <1>1, <1>2, <1>7, DrainChanges, SilentIsSound DEF r
<1> QED  BY <1>1, <1>8, SilentIsSound DEF StepIsSound, LogStep

\* What history returned waits for its turn.
LEMMA RecoveredIsSound ==
  ASSUME StreamInv, NEW d \in Deliveries, Recovered(d)
  PROVE  StepIsSound
<1> DEFINE r == delivery[d]
<1>1. HasTurn(d) /\ Silent /\ DrainUnchanged
  BY DEF Recovered
<1>2. PICK read \in SUBSET (r.next .. Min({r.to, hostLast})) :
        LET fresh == {n \in read \cap Projections : Fresh(n)} IN
        /\ lastProjection' = Max(fresh \cup {lastProjection})
        /\ Set(d, [r EXCEPT !.phase = "fill",
                            !.pending = r.pending \cup (read \ Projections) \cup fresh,
                            !.skipped = r.skipped \cup ((read \cap Projections) \ fresh)])
  BY DEF Recovered
<1>3. d = current /\ alive /\ r \in Orders
  BY <1>1, TurnIsCurrent
<1> HIDE DEF r
<1>4. read \subseteq Positions
  <2>1. Min({r.to, hostLast}) \in Cursors
    BY <1>3, CursorPairs DEF Orders, StreamInv, HostOK
  <2> QED  BY <1>3, <2>1, SizeAssumption DEF Orders, Positions, Cursors
<1> DEFINE fresh == {n \in read \cap Projections : Fresh(n)}
           filled == [r EXCEPT !.phase = "fill",
                               !.pending = r.pending \cup (read \ Projections) \cup fresh,
                               !.skipped = r.skipped \cup ((read \cap Projections) \ fresh)]
<1>5. fresh \subseteq Positions
  BY <1>4
<1>6. lastProjection' = Max(fresh \cup {lastProjection}) /\ Set(d, filled)
  BY <1>2
<1> HIDE DEF fresh
<1>7. lastProjection' \in Cursors
  <2>1. fresh \cup {lastProjection} \subseteq Cursors
    BY <1>5, Ranges DEF StreamInv, ProjectionsOK
  <2> QED  BY <1>6, <2>1, CursorBounds
<1>8. filled \in Orders /\ filled.next = r.next
  <2>1. /\ r.pending \cup (read \ Projections) \cup fresh \in SUBSET Positions
        /\ r.skipped \cup ((read \cap Projections) \ fresh) \in SUBSET Positions
    BY <1>3, <1>4, <1>5 DEF Orders
  <2> QED  BY <1>3, <2>1 DEF Orders
<1> HIDE DEF filled
<1>9. StreamInv' /\ Cursor' = Cursor
  BY <1>1, <1>3, <1>6, <1>7, <1>8, DrainChanges, SilentIsSound DEF r
<1> QED  BY <1>1, <1>9, SilentIsSound DEF StepIsSound, LogStep

\* A filtered projection is passed over.
LEMMA PassIsSound ==
  ASSUME StreamInv, NEW d \in Deliveries, PassSkipped(d)
  PROVE  StepIsSound
<1> DEFINE r == delivery[d]
           passed == [r EXCEPT !.skipped = r.skipped \ {r.next}, !.next = r.next + 1]
<1>1. /\ HasTurn(d) /\ r.next \in r.skipped /\ Set(d, passed) /\ Silent
      /\ lastProjection' \in Cursors /\ DrainUnchanged
  BY DEF PassSkipped, StreamInv, ProjectionsOK
<1>2. d = current /\ alive /\ r \in Orders
  BY <1>1, TurnIsCurrent
<1> HIDE DEF r
<1>3. r.next + 1 \in 0 .. Size
  BY <1>1, <1>2, Ranges DEF Orders
<1>4. passed \in Orders /\ passed.next = r.next + 1
  BY <1>2, <1>3 DEF Orders
<1> HIDE DEF passed
<1>5. StreamInv' /\ Cursor = r.next /\ Cursor' = r.next + 1 /\ Cursor \in Nat
  BY <1>1, <1>2, <1>4, SilentIsSound, DrainChanges DEF r
<1> QED  BY <1>1, <1>5, Ranges, SilentIsSound DEF StepIsSound, LogStep

\* A gap ends before the next position that is at hand or known to be outdated.
LEMMA GapIsSound ==
  ASSUME StreamInv, NEW d \in Deliveries, AnnounceGap(d)
  PROVE  StepIsSound
<1> DEFINE r == delivery[d]
           known == {n \in r.pending \cup r.skipped : n > r.next}
           ends == {r.to} \cup {n - 1 : n \in known}
           gapTo == Min(ends)
           passed == [r EXCEPT !.next = gapTo + 1]
<1>1. /\ HasTurn(d) /\ r.next <= r.to /\ r.next \notin r.skipped \cup r.pending
      /\ note' = GapNotice(r.next, gapTo) /\ Set(d, passed)
      /\ lastProjection' \in Cursors /\ DrainUnchanged
  BY DEF AnnounceGap, StreamInv, ProjectionsOK
<1>2. d = current /\ alive /\ r \in Orders
  BY <1>1, TurnIsCurrent
<1> HIDE DEF r
<1>3. /\ r.next \in Cursors /\ r.next \in Nat
      /\ ends \subseteq Cursors /\ ends # {} /\ \A e \in ends : e >= r.next
  BY <1>1, <1>2, SizeAssumption DEF Orders, Positions, Cursors
<1>4. gapTo \in ends /\ \A e \in ends : gapTo <= e
  <2> HIDE DEF ends
  <2> QED  BY <1>3, CursorBounds
<1>5. gapTo \in Cursors /\ gapTo \in Int /\ gapTo >= r.next
  BY <1>3, <1>4, Ranges
<1>6. \A n \in r.pending \cup r.skipped : n \notin r.next .. gapTo
  <2> SUFFICES ASSUME NEW n \in r.pending \cup r.skipped, n \in r.next .. gapTo PROVE FALSE
    OBVIOUS
  <2>1. n \in Int /\ n >= r.next /\ n # r.next /\ n <= gapTo
    BY <1>1, <1>2, <1>3, <1>5, Ranges DEF Orders
  <2>2. n - 1 \in ends
    BY <2>1, <1>3
  <2>3. gapTo <= n - 1
    BY <1>4, <2>2
  <2> HIDE DEF gapTo
  <2> QED  BY <1>5, <2>1, <2>3
<1> HIDE DEF gapTo
<1>7. passed \in Orders /\ passed.next = gapTo + 1
  BY <1>2, <1>5, Ranges DEF Orders
<1>8. /\ note' \in Notes /\ note'.kind = "gap" /\ note'.from = r.next /\ note'.to = gapTo
  BY <1>1, <1>3, <1>5, NotesOK
<1> HIDE DEF passed
<1>9. StreamInv' /\ Cursor = r.next /\ Cursor' = gapTo + 1
  BY <1>1, <1>2, <1>7, <1>8, DrainChanges DEF r
<1>10. LogStep
  <2>1. gapTo + 1 - 1 = gapTo /\ gapTo + 1 > r.next /\ gapTo + 1 \in Int
    BY <1>3, <1>5
  <2>2. None \notin {Cursor, Cursor'} /\ Cursor' > Cursor
    BY <1>3, <1>9, <2>1, Ranges
  <2>3. note' = GapNotice(Cursor, Cursor' - 1)
    <3>1. Cursor' - 1 = gapTo
      <4>1. \A x \in Int : x = gapTo + 1 => x - 1 = gapTo
        BY <1>5
      <4>2. Cursor' \in Int
        BY <1>9, <2>1
      <4> QED  BY <1>9, <4>1, <4>2, Zenon
    <3> QED  BY <1>1, <1>9, <3>1, Zenon
  <2> QED  BY <2>2, <2>3 DEF LogStep
<1>11. GapStep
  BY <1>2, <1>6, <1>8 DEF GapStep, r
<1> QED  BY <1>2, <1>9, <1>10, <1>11 DEF StepIsSound, SilentStep

\* A range is done; the drain goes on behind it.
LEMMA RangeDoneIsSound ==
  ASSUME StreamInv, NEW d \in Deliveries, RangeDone(d)
  PROVE  StepIsSound
<1> DEFINE r == delivery[d]
           done == [r EXCEPT !.phase = "drain", !.to = -1]
<1>1. /\ HasTurn(d) /\ Set(d, done) /\ Silent /\ lastProjection' \in Cursors /\ DrainUnchanged
  BY DEF RangeDone, StreamInv, ProjectionsOK
<1>2. d = current /\ alive /\ r \in Orders
  BY <1>1, TurnIsCurrent
<1> HIDE DEF r
<1>3. done \in Orders /\ done.next = r.next
  BY <1>2, Ranges DEF Orders
<1> HIDE DEF done
<1>4. StreamInv' /\ Cursor' = Cursor
  BY <1>1, <1>2, <1>3, SilentIsSound, DrainChanges DEF r
<1> QED  BY <1>1, <1>4, SilentIsSound DEF StepIsSound, LogStep

-----------------------------------------------------------------------------
(* The theorems. *)

\* In the first state nothing is held and no generation reads.
LEMMA StreamInitInv == Init => StreamInv
<1> SUFFICES ASSUME Init PROVE StreamInv
  OBVIOUS
<1>1. HostOK /\ SessionOK /\ ProjectionsOK
  BY Ranges DEF Init, HostOK, SessionOK, ProjectionsOK
<1>2. reader \in Readers /\ MergeHasDelivery
  BY Ranges DEF Init, Idle, Readers, MergeHasDelivery
<1>3. OrdersOK /\ TurnsAreAlive /\ DeliveryHasBaseline
  BY OrdersClosed, Ranges DEF Init, OrdersOK, TurnsAreAlive, DeliveryHasBaseline
<1>4. note \in Notes
  BY NotesOK DEF Init
<1> QED  BY <1>1, <1>2, <1>3, <1>4 DEF StreamInv

\* Every step keeps the invariant and is one the consumers may see.
LEMMA StreamNextIsSound == StreamInv /\ Next => StepIsSound
<1> SUFFICES ASSUME StreamInv, Next PROVE StepIsSound
  OBVIOUS
<1>1. CASE HostAppends \/ HostRestarts \/ StartReading
  BY <1>1, HostIsSound
<1>2. CASE GenerationEnds \/ Restart \/ Close
  BY <1>2, GenerationEndsIsSound, RestartIsSound
<1>3. CASE Accept
  BY <1>3, EarlyIsSound, ProjectionIsSound, RowIsSound, RemovedIsSound, SubscribedIsSound,
     SnapshotIsSound DEF Accept
<1>4. CASE ReaderStep
  BY <1>4, AbandonedIsSound, ReplayOneIsSound, ReplayDoneIsSound, MergeOneIsSound,
     MergeDoneIsSound DEF ReaderStep
<1>5. ASSUME NEW d \in Deliveries, DrainStep(d) PROVE StepIsSound
  BY <1>5, LosesTurnIsSound, EmitIsSound, FindHoleIsSound, RecoveredIsSound, PassIsSound,
     GapIsSound, RangeDoneIsSound DEF DrainStep
<1> QED  BY <1>1, <1>2, <1>3, <1>4, <1>5 DEF Next

\* The invariant holds in every reachable state.
THEOREM StreamInvariance == Spec => []StreamInv
<1>1. StreamInv /\ UNCHANGED vars => StreamInv'
  BY DEF vars, streamVars, sessionVars, projectionVars, orderVars, StreamInv, HostOK, SessionOK,
         ProjectionsOK, OrdersOK, TurnsAreAlive, DeliveryHasBaseline, MergeHasDelivery
<1>2. StreamInv /\ [Next]_vars => StreamInv'
  BY <1>1, StreamNextIsSound DEF StepIsSound
<1> QED  BY <1>2, StreamInitInv, PTL DEF Spec

\* The state of the stream controller is always well typed: every cursor stays inside
\* the log, whatever is recovered, skipped or announced (stream-controller.ts).
THEOREM StreamTypeCorrect == Spec => []TypeOK
<1>1. StreamInv => TypeOK
  BY DEF StreamInv, HostOK, SessionOK, ProjectionsOK, OrdersOK, TypeOK, Readers, Orders, Notes,
         NoteKinds
<1> QED  BY <1>1, StreamInvariance, PTL

\* A row at hand, or a projection known to be outdated, is never announced as missing
\* (recoverOrderedRange(), stream-controller.ts).
THEOREM GapsNameUnknownRows == Spec => GapsAreUnknown
<1>1. StreamInv /\ [Next]_vars =>
        [note'.kind = "gap" =>
           (note'.from .. note'.to)
             \cap (delivery[current].pending \cup delivery[current].skipped) = {}]_vars
  BY StreamNextIsSound DEF StepIsSound, GapStep
<1> QED  BY <1>1, StreamInvariance, PTL DEF Spec, GapsAreUnknown

\* What was cut, restarted or closed hands out nothing more (hasDrainTurn(),
\* acceptSessionSnapshot(), stream-controller.ts).
THEOREM CutStreamsAreSilent == Spec => SilentOnceCut
<1>1. StreamInv /\ [Next]_vars => [~alive => note' = Nothing]_vars
  BY StreamNextIsSound DEF StepIsSound, SilentStep
<1> QED  BY <1>1, StreamInvariance, PTL DEF Spec, SilentOnceCut

\* The ordered delivery implements OrderedLog: each position is handed out in its turn,
\* once, or announced as missing (stream-controller.ts).
THEOREM DeliveryImplementsLog == Spec => OrderedDelivery
<1>1. Init => Log!Init
  BY DEF Init, Log!Init, Log!Nothing, Log!Note, Nothing, Event
<1>2. LogStep => Log!Next
  BY Ranges
     DEF LogStep, Cursor, Nothing, Event, EventAt, GapNotice, Log!Next, Log!Quiet, Log!Open,
         Log!Deliver, Log!Pass, Log!AnnounceGap, Log!Baseline, Log!Aside, Log!Forget,
         Log!Nothing, Log!Note
<1>3. StreamInv /\ [Next]_vars =>
        [Log!Next]_<<IF current = None THEN None ELSE delivery[current].next, note>>
  <2>1. CASE UNCHANGED vars
    BY <2>1 DEF vars, orderVars
  <2> QED  BY <1>2, <2>1, StreamNextIsSound DEF StepIsSound
<1> QED  BY <1>1, <1>3, StreamInvariance, PTL DEF Spec, OrderedDelivery, Log!Spec

-----------------------------------------------------------------------------
(* What is owed is under way. *)

\* What is owed up to a position is under way.
Served(r, last) == r.next <= last => Reaches(r, last)

\* No position is learned while a snapshot is merged: it reaches as far as anything known.
MergeIsCurrent ==
  reader.phase = "merge" /\ current = reader.delivery => lastSeq # None /\ lastSeq <= reader.last

OwedInv ==
  /\ alive /\ told /\ current # None => Served(delivery[current], lastSeq)
  /\ MergeIsCurrent

\* The greater of two cursors reaches as far as both.
LEMMA GreaterReaches ==
  ASSUME NEW a \in Cursors, NEW b \in Cursors
  PROVE  Max({a, b}) \in Cursors /\ b <= Max({a, b}) /\ Max({a, b}) \in {a, b}
BY Ranges, MaxOfTwo

\* A drain that is started, or told of the newer generation, serves what it knows of.
LEMMA StartDrainServes ==
  ASSUME NEW r \in Orders, NEW last \in Cursors,
         last \in r.pending \/ last <= r.through \/ Served(r, last)
  PROVE  Served(StartDrain(r), last)
<1>1. CASE r.phase # "idle"
  <2> DEFINE x == [r EXCEPT !.nextTurn = TRUE]
  <2>1. /\ x.phase = r.phase /\ x.nextTurn /\ x.turn = r.turn /\ x.next = r.next
        /\ x.pending = r.pending /\ x.through = r.through /\ x.to = r.to
    BY DEF Orders
  <2>2. StartDrain(r) = x
    BY <1>1 DEF StartDrain
  <2> HIDE DEF x
  <2> QED BY <1>1, <2>1, <2>2 DEF Served, Reaches
<1>2. CASE r.phase = "idle"
  <2> DEFINE x == [r EXCEPT !.nextTurn = TRUE, !.turn = TRUE, !.phase = "drain"]
  <2>1. /\ x.phase = "drain" /\ x.nextTurn /\ x.next = r.next
        /\ x.pending = r.pending /\ x.through = r.through
    BY DEF Orders
  <2>2. StartDrain(r) = x
    BY <1>2 DEF StartDrain
  <2> HIDE DEF x
  <2> QED BY <1>2, <2>1, <2>2 DEF Served, Reaches
<1> QED BY <1>1, <1>2

\* Rows that are added do not change what is under way.
LEMMA MoreRowsServe ==
  ASSUME NEW r \in Orders, NEW last \in Cursors, Served(r, last), NEW x \in Orders,
         x.next = r.next, x.phase = r.phase, x.turn = r.turn, x.nextTurn = r.nextTurn,
         r.pending \subseteq x.pending, x.through = r.through, x.to = r.to
  PROVE  Served(x, last)
BY DEF Served, Reaches

-----------------------------------------------------------------------------
(* The drains. *)

\* A drain that ends has nothing left that is owed, or begins again with it.
LEMMA EndedServes ==
  ASSUME NEW r \in Orders, NEW last \in Cursors, current # None,
         r.next <= last => r.nextTurn /\ (last \in r.pending \/ last <= r.through)
  PROVE  Served(Ended(current, r), last)
<1> DEFINE again == [r EXCEPT !.phase = "drain", !.turn = TRUE]
           rests == [r EXCEPT !.phase = "idle", !.turn = FALSE]
<1>1. /\ again.phase = "drain" /\ again.turn /\ again.next = r.next
      /\ again.pending = r.pending /\ again.through = r.through /\ rests.next = r.next
  BY DEF Orders
<1>2. Ended(current, r) = IF r.nextTurn /\ (r.through # -1 \/ r.pending # {}) THEN again ELSE rests
  BY DEF Ended
<1>3. r.next \in 0 .. Size /\ r.through \in Int /\ last \in Int
  BY SizeAssumption DEF Orders, Cursors
<1> HIDE DEF again, rests
<1> QED BY <1>1, <1>2, <1>3 DEF Served, Reaches

\* No event of the log is a gap.
LEMMA EventKinds ==
  /\ \A n : EventAt(n).kind # "gap"
  /\ Nothing.kind # "gap" /\ Event("removed", 0).kind # "gap"
BY DEF EventAt, Event, Nothing

\* A step of the current delivery's drain takes it nearer to what is owed.
LEMMA DrainServes ==
  ASSUME StreamInv, alive, current # None, lastSeq \in Cursors,
         Served(delivery[current], lastSeq), DrainStep(current)
  PROVE  Served(delivery'[current], lastSeq)
<1> DEFINE r == delivery[current]
<1>0. r \in Orders /\ current \in Deliveries /\ ~closed /\ delivery \in [Deliveries -> Orders]
  BY DEF StreamInv, OrdersOK, TurnsAreAlive
<1>1. ASSUME NEW x, Set(current, x) PROVE delivery'[current] = x
  BY <1>0, <1>1 DEF Set
<1>2. /\ r.next \in Int /\ r.through \in Int /\ r.to \in Int /\ lastSeq \in Int
      /\ r.pending \subseteq Int
  BY <1>0, SizeAssumption DEF Orders, Cursors, Positions
<1> HIDE DEF r
<1>3. CASE LosesTurn(current)
  <2>1. ~r.turn /\ delivery'[current] = Ended(current, r)
    BY <1>0, <1>1, <1>3 DEF LosesTurn, HasTurn, r
  <2> QED BY <1>0, <2>1, EndedServes DEF Served, Reaches, r
<1>4. CASE EmitPending(current)
  <2> DEFINE x == [r EXCEPT !.pending = r.pending \ {r.next},
                            !.skipped = r.skipped \ {r.next}, !.next = r.next + 1]
  <2>1. delivery'[current] = x
    BY <1>1, <1>4 DEF EmitPending, r
  <2>2. /\ x.phase = r.phase /\ x.turn = r.turn /\ x.nextTurn = r.nextTurn /\ x.next = r.next + 1
        /\ x.pending = r.pending \ {r.next} /\ x.through = r.through /\ x.to = r.to
    BY <1>0 DEF Orders
  <2> HIDE DEF x
  <2> QED BY <1>2, <2>1, <2>2 DEF Served, Reaches, r
<1>5. CASE FindHole(current)
  <2> DEFINE ahead == {n \in r.pending : n > r.next}
             rest == [r EXCEPT !.through = -1]
             hole == [rest EXCEPT !.phase = "recover", !.to = r.through]
             before == [rest EXCEPT !.phase = "recover", !.to = Min(ahead) - 1]
  <2>1. /\ r.phase = "drain" /\ r.turn /\ r.next \notin r.pending
        /\ Set(current, IF r.through >= r.next THEN hole
                        ELSE IF ahead # {} THEN before ELSE Ended(current, rest))
    BY <1>5 DEF FindHole, HasTurn, r
  <2>2. /\ hole.phase = "recover" /\ hole.turn = r.turn /\ hole.next = r.next
        /\ hole.pending = r.pending /\ hole.to = r.through
    BY <1>0 DEF Orders
  <2>3. /\ before.phase = "recover" /\ before.turn = r.turn /\ before.next = r.next
        /\ before.pending = r.pending
    BY <1>0 DEF Orders
  <2>4. /\ rest \in Orders /\ rest.next = r.next /\ rest.pending = r.pending
    BY <1>0, Ranges DEF Orders
  <2>5. r.next <= lastSeq => lastSeq \in r.pending \/ lastSeq <= r.through
    BY <2>1 DEF Served, Reaches, r
  <2>6. ahead = {} /\ ~(r.through >= r.next) => ~(r.next <= lastSeq)
    BY <1>2, <2>1, <2>5
  <2> HIDE DEF ahead, rest, hole, before
  <2>7. CASE r.through >= r.next
    <3>1. delivery'[current] = hole
      BY <1>1, <2>1, <2>7
    <3> QED BY <2>1, <2>2, <2>5, <3>1 DEF Served, Reaches
  <2>8. CASE ~(r.through >= r.next) /\ ahead # {}
    <3>1. delivery'[current] = before
      BY <1>1, <2>1, <2>8
    <3>2. r.next <= lastSeq => lastSeq \in r.pending
      BY <1>2, <2>5, <2>8
    <3> QED BY <2>1, <2>3, <3>1, <3>2 DEF Served, Reaches
  <2>9. CASE ~(r.through >= r.next) /\ ahead = {}
    <3>1. delivery'[current] = Ended(current, rest)
      BY <1>1, <2>1, <2>9
    <3> QED BY <2>4, <2>6, <2>9, <3>1, EndedServes
  <2> QED BY <2>7, <2>8, <2>9
<1>6. CASE Recovered(current)
  <2>1. PICK more, passed :
          delivery'[current] = [r EXCEPT !.phase = "fill", !.pending = r.pending \cup more,
                                         !.skipped = passed]
    <3>1. PICK read \in SUBSET (r.next .. Min({r.to, hostLast})) :
            LET fresh == {n \in read \cap Projections : Fresh(n)} IN
            Set(current, [r EXCEPT !.phase = "fill",
                           !.pending = @ \cup (read \ Projections) \cup fresh,
                           !.skipped = @ \cup ((read \cap Projections) \ fresh)])
      BY <1>6 DEF Recovered, r
    <3> DEFINE fresh == {n \in read \cap Projections : Fresh(n)}
    <3>2. delivery'[current] = [r EXCEPT !.phase = "fill",
                                  !.pending = r.pending \cup (read \ Projections) \cup fresh,
                                  !.skipped = r.skipped \cup ((read \cap Projections) \ fresh)]
      BY <1>1, <3>1
    <3>3. r.pending \cup (read \ Projections) \cup fresh
            = r.pending \cup ((read \ Projections) \cup fresh)
      OBVIOUS
    <3> HIDE DEF fresh
    <3> QED BY <3>2, <3>3
  <2> DEFINE x == [r EXCEPT !.phase = "fill", !.pending = r.pending \cup more, !.skipped = passed]
  <2>2. /\ x.phase = "fill" /\ x.turn = r.turn /\ x.nextTurn = r.nextTurn /\ x.next = r.next
        /\ x.pending = r.pending \cup more /\ x.through = r.through /\ x.to = r.to
    BY <1>0 DEF Orders
  <2>3. r.turn /\ r.phase = "recover"
    BY <1>6 DEF Recovered, HasTurn, r
  <2> HIDE DEF x
  <2> QED BY <2>1, <2>2, <2>3 DEF Served, Reaches, r, x
<1>7. CASE PassSkipped(current)
  <2> DEFINE x == [r EXCEPT !.skipped = r.skipped \ {r.next}, !.next = r.next + 1]
  <2>1. delivery'[current] = x
    BY <1>1, <1>7 DEF PassSkipped, r
  <2>2. /\ x.phase = r.phase /\ x.turn = r.turn /\ x.nextTurn = r.nextTurn /\ x.next = r.next + 1
        /\ x.pending = r.pending /\ x.through = r.through /\ x.to = r.to
    BY <1>0 DEF Orders
  <2> HIDE DEF x
  <2> QED BY <1>2, <2>1, <2>2 DEF Served, Reaches, r
<1>8. CASE AnnounceGap(current)
  <2>1. LogStep /\ note'.kind = "gap" /\ note' # Nothing
    BY <1>0, <1>8, GapIsSound DEF StepIsSound, AnnounceGap, GapNotice, Nothing, Event
  <2>2. PICK to : delivery'[current] = [r EXCEPT !.next = to]
    BY <1>1, <1>8 DEF AnnounceGap, r
  <2>3. to \in Int /\ to > r.next
    <3>1. Cursor = r.next /\ Cursor' = to
      <4>1. current' = current /\ [r EXCEPT !.next = to].next = to
        BY <1>0, <1>8 DEF AnnounceGap, DrainUnchanged, Orders
      <4> QED BY <2>2, <4>1 DEF Cursor, r
    <3>2. Cursor' > Cursor
      BY <2>1, EventKinds DEF LogStep
    <3>3. delivery'[current'] \in Orders /\ current' = current
      BY <1>0, <1>8, GapIsSound DEF StepIsSound, StreamInv, OrdersOK, AnnounceGap, DrainUnchanged
    <3> QED BY <1>2, <3>1, <3>2, <3>3, SizeAssumption DEF Cursor, Orders
  <2> DEFINE x == [r EXCEPT !.next = to]
  <2>4. /\ x.phase = r.phase /\ x.turn = r.turn /\ x.nextTurn = r.nextTurn /\ x.next = to
        /\ x.pending = r.pending /\ x.through = r.through /\ x.to = r.to
    BY <1>0 DEF Orders
  <2> HIDE DEF x
  <2> QED BY <1>2, <2>2, <2>3, <2>4 DEF Served, Reaches, r, x
<1>9. CASE RangeDone(current)
  <2> DEFINE x == [r EXCEPT !.phase = "drain", !.to = -1]
  <2>1. delivery'[current] = x /\ r.next > r.to /\ r.phase = "fill" /\ r.turn
    BY <1>1, <1>9 DEF RangeDone, HasTurn, r
  <2>2. /\ x.phase = "drain" /\ x.turn = r.turn /\ x.nextTurn = r.nextTurn /\ x.next = r.next
        /\ x.pending = r.pending /\ x.through = r.through
    BY <1>0 DEF Orders
  <2> HIDE DEF x
  <2> QED BY <1>2, <2>1, <2>2 DEF Served, Reaches, r
<1> QED BY <1>3, <1>4, <1>5, <1>6, <1>7, <1>8, <1>9 DEF DrainStep
-----------------------------------------------------------------------------
(* The other steps. *)

\* A drain of another delivery, left behind, changes nothing of the current one.
LEMMA DrainsServe ==
  ASSUME StreamInv, StreamInv', OwedInv, NEW d \in Deliveries, DrainStep(d)
  PROVE  OwedInv'
<1>1. UNCHANGED <<snapshots, hostLast, closed, alive, told, reader, lastSeq, current>>
  BY DEF DrainStep, LosesTurn, EmitPending, FindHole, Recovered, PassSkipped, AnnounceGap,
         RangeDone, DrainUnchanged, streamVars, sessionVars
<1>2. MergeIsCurrent'
  BY <1>1 DEF OwedInv, MergeIsCurrent
<1>3. ASSUME alive, told, current # None
      PROVE  Served(delivery'[current], lastSeq)
  <2>1. CASE d = current
    <3>1. lastSeq \in Cursors
      BY <1>3 DEF StreamInv, SessionOK, DeliveryHasBaseline, TurnsAreAlive
    <3> QED BY <1>3, <2>1, <3>1, DrainServes DEF OwedInv
  <2>2. CASE d # current
    <3>1. PICK x : delivery' = [delivery EXCEPT ![d] = x]
      BY DEF DrainStep, LosesTurn, EmitPending, FindHole, Recovered, PassSkipped, AnnounceGap,
             RangeDone, Set
    <3>2. delivery'[current] = delivery[current]
      BY <1>3, <2>2, <3>1 DEF StreamInv, OrdersOK
    <3> QED BY <1>3, <3>2 DEF OwedInv
  <2> QED BY <2>1, <2>2
<1> QED BY <1>1, <1>2, <1>3 DEF OwedInv

\* Steps that leave the delivery and the known end of the log, or the baseline untold.
LEMMA HostServes ==
  ASSUME StreamInv, OwedInv,
         \/ HostAppends \/ HostRestarts \/ StartReading \/ GenerationEnds \/ Restart \/ Close
         \/ AcceptEarly \/ AcceptProjection \/ AcceptRemoved
  PROVE  OwedInv'
<1>1. ~alive' \/ ~told' \/ current' = None \/ UNCHANGED <<alive, told, current, delivery, lastSeq>>
  BY DEF HostAppends, HostRestarts, StartReading, GenerationEnds, Restart, Close, AcceptEarly,
         AcceptProjection, AcceptRemoved, orderVars, sessionVars, streamVars, Unchanged, NothingHeld
<1>2. /\ reader' = reader
      /\ UNCHANGED <<current, lastSeq>> \/ (current' = None /\ UNCHANGED reader)
  BY DEF HostAppends, HostRestarts, StartReading, GenerationEnds, Restart, Close, AcceptEarly,
         AcceptProjection, AcceptRemoved, orderVars, sessionVars, streamVars, Unchanged, NothingHeld
<1>3. MergeIsCurrent'
  BY <1>2, NoneAssumption DEF OwedInv, MergeIsCurrent, StreamInv, MergeHasDelivery
<1> QED BY <1>1, <1>3 DEF OwedInv

\* A row that is accepted is known to the drain.
LEMMA RowServes ==
  ASSUME StreamInv, StreamInv', OwedInv, AcceptRow
  PROVE  OwedInv'
<1>1. /\ UNCHANGED <<alive, told, reader>> /\ reader.phase = "idle" /\ alive /\ ~closed
  BY DEF AcceptRow, Unchanged, Reads, streamVars
<1>2. PICK n \in (0 .. hostLast) \ Projections, d \in Deliveries :
        /\ IF current = None THEN Unused(d) /\ current' = d ELSE d = current /\ UNCHANGED current
        /\ LET r == IF current = None THEN NewDelivery(0) ELSE delivery[d] IN
           /\ n >= r.next
           /\ delivery' = [delivery EXCEPT
                             ![d] = StartDrain([r EXCEPT !.pending = @ \cup {n}])]
        /\ lastSeq' = IF lastSeq = None THEN n ELSE Max({lastSeq, n})
  BY DEF AcceptRow
<1> DEFINE r == IF current = None THEN NewDelivery(0) ELSE delivery[d]
           kept == [r EXCEPT !.pending = r.pending \cup {n}]
<1>3. n \in Positions /\ n \in Cursors
  BY Ranges DEF StreamInv, HostOK, Positions, Cursors
<1>4. r \in Orders
  BY OrdersClosed, Ranges DEF StreamInv, OrdersOK
<1>5. current' = d /\ delivery'[d] = StartDrain(kept)
  BY <1>2 DEF StreamInv, OrdersOK
<1> HIDE DEF r
<1>6. /\ kept \in Orders /\ n \in kept.pending /\ kept.next = r.next /\ kept.phase = r.phase
      /\ kept.turn = r.turn /\ kept.nextTurn = r.nextTurn /\ r.pending \subseteq kept.pending
      /\ kept.through = r.through /\ kept.to = r.to
  BY <1>3, <1>4 DEF Orders
<1> HIDE DEF kept
<1>7. ASSUME told PROVE Served(StartDrain(kept), lastSeq')
  <2>1. CASE lastSeq = None \/ lastSeq' = n
    BY <1>2, <1>3, <1>6, <2>1, StartDrainServes
  <2>2. CASE lastSeq # None /\ lastSeq' # n
    <3>1. lastSeq' = lastSeq /\ lastSeq \in Cursors
      <4>1. lastSeq \in Cursors /\ lastSeq' = Max({lastSeq, n})
        BY <1>2, <2>2 DEF StreamInv, SessionOK
      <4> QED BY <1>3, <2>2, <4>1, GreaterReaches
    <3>2. current # None /\ r = delivery[current]
      BY <1>1, <1>2, <2>2 DEF StreamInv, DeliveryHasBaseline, r
    <3>3. Served(r, lastSeq)
      BY <1>1, <1>7, <3>2 DEF OwedInv
    <3>4. Served(kept, lastSeq)
      BY <1>4, <1>6, <3>1, <3>3, MoreRowsServe
    <3> QED BY <1>6, <3>1, <3>4, StartDrainServes
  <2> QED BY <2>1, <2>2
<1>8. MergeIsCurrent'
  BY <1>1 DEF MergeIsCurrent
<1> QED BY <1>1, <1>5, <1>7, <1>8 DEF OwedInv

\* A delivery that starts after a position owes nothing up to it.
LEMMA StartServes ==
  ASSUME StreamInv, NEW last \in Cursors, StartDelivery(last), alive' = alive, alive
  PROVE  Served(delivery'[current'], last)
<1>1. Cursor' = last + 1 /\ current' # None /\ last \in Int
  BY StartIsSound, NoneAssumption, Ranges
<1> QED BY <1>1 DEF Cursor, Served

\* A baseline re-arms the drain for what it still owes.
LEMMA SubscribedServes ==
  ASSUME StreamInv, StreamInv', OwedInv, AcceptSubscribed
  PROVE  OwedInv'
<1>1. /\ reader.phase = "idle" /\ alive /\ ~closed /\ UNCHANGED <<alive, reader>>
      /\ lastSeq' = hostLast /\ hostLast \in Cursors
  BY DEF AcceptSubscribed, Reads, StreamInv, HostOK
<1>2. MergeIsCurrent'
  BY <1>1 DEF MergeIsCurrent
<1>3. CASE Rebases
  BY <1>1, <1>2, <1>3, StartServes DEF AcceptSubscribed, OwedInv
<1>4. CASE ~Rebases
  <2> DEFINE r == delivery[current]
             owed == [r EXCEPT !.through = Max({r.through, hostLast})]
  <2>1. lastSeq \in Cursors /\ current \in Deliveries /\ r \in Orders /\ ~(hostLast < lastSeq)
    BY <1>1, <1>4 DEF Rebases, StreamInv, SessionOK, OrdersOK, DeliveryHasBaseline
  <2>2. current' = current /\ delivery'[current] = Rearmed(r, hostLast)
    BY <1>4, <2>1 DEF AcceptSubscribed, StreamInv, OrdersOK
  <2> HIDE DEF r
  <2>3. Max({r.through, hostLast}) \in Cursors /\ hostLast <= Max({r.through, hostLast})
    <3>1. r.through \in Cursors
      BY <2>1 DEF Orders
    <3> QED BY <1>1, <3>1, GreaterReaches
  <2>4. owed \in Orders /\ owed.through = Max({r.through, hostLast})
    BY <2>1, <2>3 DEF Orders
  <2>5. Rearmed(r, hostLast) = IF r.next <= hostLast \/ hostLast > lastSeq
                               THEN StartDrain(owed) ELSE r
    BY DEF Rearmed
  <2> HIDE DEF owed
  <2>6. Served(StartDrain(owed), hostLast)
    BY <1>1, <2>3, <2>4, StartDrainServes
  <2>7. Served(Rearmed(r, hostLast), hostLast)
    BY <2>5, <2>6 DEF Served
  <2> QED BY <1>1, <1>2, <2>2, <2>7 DEF OwedInv
<1> QED BY <1>3, <1>4

\* A snapshot is merged only if it reaches as far as what is known.
LEMMA SnapshotServes ==
  ASSUME StreamInv, OwedInv, AcceptSnapshot \/ SnapshotAbandoned \/ ReplayOne
  PROVE  OwedInv'
<1>1. UNCHANGED <<alive, told, current, delivery, lastSeq>>
  BY DEF AcceptSnapshot, SnapshotAbandoned, ReplayOne, streamVars, sessionVars, orderVars
<1>2. MergeIsCurrent'
  <2>1. CASE AcceptSnapshot
    <3>1. /\ reader'.phase = IF Rebases THEN "replay" ELSE "merge"
          /\ reader'.last = hostLast
      BY <2>1 DEF AcceptSnapshot
    <3>2. ~Rebases => lastSeq # None /\ lastSeq <= hostLast
      BY Ranges DEF Rebases, StreamInv, SessionOK, HostOK
    <3> QED BY <1>1, <3>1, <3>2 DEF MergeIsCurrent
  <2>2. CASE SnapshotAbandoned
    BY <2>2 DEF SnapshotAbandoned, Idle, MergeIsCurrent
  <2>3. CASE ReplayOne
    <3>1. reader'.phase = "replay"
      BY <2>3 DEF ReplayOne, StreamInv, Readers
    <3> QED BY <3>1 DEF MergeIsCurrent
  <2> QED BY <2>1, <2>2, <2>3
<1> QED BY <1>1, <1>2 DEF OwedInv

\* What was replayed is done with, what was merged is at hand or owed.
LEMMA ReplayDoneServes ==
  ASSUME StreamInv, OwedInv, ReplayDone
  PROVE  OwedInv'
<1>1. /\ UNCHANGED alive /\ alive /\ lastSeq' = reader.last /\ reader.last \in Cursors
      /\ StartDelivery(reader.last) /\ reader' = Idle
  BY DEF ReplayDone, StreamInv, Readers
<1> QED BY <1>1, StartServes DEF OwedInv, MergeIsCurrent, Idle

\* A merged position is added to the delivery.
LEMMA MergeOneServes ==
  ASSUME StreamInv, StreamInv', OwedInv, MergeOne
  PROVE  OwedInv'
<1>1. /\ UNCHANGED <<alive, told, current, lastSeq>> /\ current = reader.delivery
      /\ reader.phase = "merge" /\ current \in Deliveries /\ delivery[current] \in Orders
      /\ alive /\ ~closed
  BY DEF MergeOne, Merges, streamVars, sessionVars, StreamInv, MergeHasDelivery, OrdersOK,
         TurnsAreAlive
<1>2. MergeIsCurrent'
  <2>1. reader'.phase = "merge" /\ reader'.last = reader.last /\ reader'.delivery = reader.delivery
    BY <1>1 DEF MergeOne, StreamInv, Readers
  <2> QED BY <1>1, <2>1 DEF OwedInv, MergeIsCurrent
<1> DEFINE r == delivery[current]
           n == Min(reader.todo)
           kept == [r EXCEPT !.pending = r.pending \cup {n}]
           outdated == [r EXCEPT !.skipped = r.skipped \cup {n}]
<1>3. delivery'[current] \in {r, kept, outdated}
  BY <1>1 DEF MergeOne, StreamInv, OrdersOK
<1>4. ASSUME told PROVE Served(delivery'[current], lastSeq)
  <2>1. Served(r, lastSeq)
    BY <1>1, <1>4, NoneAssumption DEF OwedInv
  <2>2. delivery'[current] \in Orders
    BY <1>1 DEF StreamInv, OrdersOK
  <2>3. lastSeq \in Cursors
    BY <1>1, NoneAssumption DEF StreamInv, SessionOK, DeliveryHasBaseline
  <2> HIDE DEF n
  <2>4. \A x \in {r, kept, outdated} :
          /\ x.next = r.next /\ x.phase = r.phase /\ x.turn = r.turn /\ x.nextTurn = r.nextTurn
          /\ r.pending \subseteq x.pending /\ x.through = r.through /\ x.to = r.to
    BY <1>1 DEF Orders
  <2> HIDE DEF r, kept, outdated
  <2> QED BY <1>1, <1>3, <2>1, <2>2, <2>3, <2>4, MoreRowsServe DEF r
<1> QED BY <1>1, <1>2, <1>4 DEF OwedInv

\* The merge ends: what it reached is owed.
LEMMA MergeDoneServes ==
  ASSUME StreamInv, StreamInv', OwedInv, MergeDone
  PROVE  OwedInv'
<1>1. /\ UNCHANGED <<alive, current>> /\ current = reader.delivery
      /\ reader.phase = "merge" /\ current \in Deliveries /\ delivery[current] \in Orders
      /\ reader.last \in Cursors /\ reader' = Idle
  BY DEF MergeDone, Merges, StreamInv, MergeHasDelivery, OrdersOK, Readers
<1>2. lastSeq \in Cursors /\ lastSeq <= reader.last
  BY <1>1 DEF OwedInv, MergeIsCurrent, StreamInv, SessionOK
<1>3. lastSeq' = reader.last
  <2>1. lastSeq' = Max({lastSeq, reader.last})
    BY DEF MergeDone
  <2> QED BY <1>1, <1>2, <2>1, MaxOfTwo, Ranges
<1> DEFINE r == delivery[current]
           owed == [r EXCEPT !.through = Max({r.through, reader.last})]
<1>4. delivery'[current] = StartDrain(owed)
  BY <1>1 DEF MergeDone, StreamInv, OrdersOK
<1> HIDE DEF r
<1>5. Max({r.through, reader.last}) \in Cursors /\ reader.last <= Max({r.through, reader.last})
  <2>1. r.through \in Cursors
    BY <1>1 DEF Orders, r
  <2> QED BY <1>1, <2>1, GreaterReaches
<1>6. owed \in Orders /\ owed.through = Max({r.through, reader.last})
  BY <1>1, <1>5 DEF Orders, r
<1> HIDE DEF owed
<1>7. Served(StartDrain(owed), reader.last)
  BY <1>1, <1>5, <1>6, StartDrainServes
<1> QED BY <1>1, <1>3, <1>4, <1>7 DEF OwedInv, MergeIsCurrent, Idle

\* Every step keeps what is owed under way.
LEMMA OwedNext ==
  ASSUME StreamInv, OwedInv, [Next]_vars
  PROVE  OwedInv'
<1>1. CASE UNCHANGED vars
  BY <1>1 DEF vars, streamVars, sessionVars, orderVars, OwedInv, MergeIsCurrent
<1>2. CASE Next
  <2>1. StreamInv'
    BY <1>2, StreamNextIsSound DEF StepIsSound
  <2> QED BY <1>2, <2>1, DrainsServe, HostServes, RowServes, SubscribedServes, SnapshotServes,
             ReplayDoneServes, MergeOneServes, MergeDoneServes DEF Next, Accept, ReaderStep
<1> QED BY <1>1, <1>2

\* Once the host's baseline has arrived, whatever is still owed up to the known end of
\* the log has a drain on its way, whatever was cut off before (stream-controller.ts).
THEOREM OwedIsAlwaysUnderWay == Spec => []OwedIsUnderWay
<1>1. Init => OwedInv
  BY DEF Init, Idle, OwedInv, MergeIsCurrent
<1>2. OwedInv => OwedIsUnderWay
  BY DEF OwedInv, OwedIsUnderWay, Served
<1> QED BY <1>1, <1>2, OwedNext, StreamInvariance, PTL DEF Spec

-----------------------------------------------------------------------------
(* The generations that read for the listeners. *)

Readings == [stage : Stages, fired : BOOLEAN, heard : BOOLEAN]
Chunks ==
  [missing : BOOLEAN, pending : BOOLEAN, cooling : BOOLEAN, count : 0 .. MaxRecoveries,
   degraded : BOOLEAN]

\* What the invariant asks of a generation, of the chunks, and of a restart.
ReadingOK(r, down) == r \in Readings /\ (r.stage = "open" /\ ~r.fired /\ r.heard => ~down)
ChunksOK(c) == c \in Chunks /\ (c.pending => c.cooling)
RestartOK(r, c) == ~c.pending /\ (r.stage # "open" \/ r.fired)

LifeParts ==
  /\ ended \in BOOLEAN /\ restarting \in BOOLEAN /\ lost \in BOOLEAN
  /\ listeners \subseteq Listeners
  /\ retry \in [named : BOOLEAN, stray : BOOLEAN]
  /\ ReadingOK(reading, lost) /\ ChunksOK(chunks)
  /\ restarting => RestartOK(reading, chunks)

\* The two forms of the invariant.
LEMMA PartsAreTypes == LifeParts => LifeTypeOK
BY DEF LifeParts, LifeTypeOK, ReadingOK, ChunksOK, RestartOK, Readings, Chunks, Hears

-----------------------------------------------------------------------------
(* What the functions leave. *)

\* A generation that fires or begins is no obstacle.
LEMMA ReadingFacts ==
  ASSUME NEW r \in Readings
  PROVE  /\ \A down : ReadingOK(NotReading, down) /\ ReadingOK(Generation, down)
         /\ NotReading.stage = "none"
         /\ LET f == [r EXCEPT !.fired = r.stage # "none"] IN
              /\ f.stage # "open" \/ f.fired
              /\ \A down : ReadingOK(f, down)
BY DEF ReadingOK, Readings, NotReading, Generation, Stages

\* Where the chunks change.
LEMMA ChunkFacts ==
  ASSUME NEW c, ChunksOK(c)
  PROVE  /\ ChunksOK([c EXCEPT !.missing = FALSE])
         /\ ChunksOK([c EXCEPT !.missing = TRUE])
         /\ [c EXCEPT !.missing = FALSE].pending = c.pending
         /\ [c EXCEPT !.missing = TRUE].pending = c.pending
BY DEF ChunksOK, Chunks

\* startReading() opens a generation or leaves none.
LEMMA OpensOK ==
  ASSUME NEW ls, NEW kept, ChunksOK(kept), Opens(ls, kept)
  PROVE  ReadingOK(reading', lost) /\ ChunksOK(chunks')
<1>1. ReadingOK(NotReading, lost) /\ ReadingOK(Generation, lost)
  BY DEF ReadingOK, Readings, NotReading, Generation, Stages
<1> QED  BY <1>1, ChunkFacts DEF Opens

\* A restart begins: what reads is aborted and hears nothing more.
LEMMA RestartsOK ==
  ASSUME LifeParts, NEW kept, ChunksOK(kept), ~kept.pending, Restarts(kept),
         UNCHANGED <<ended, listeners, lost>>
  PROVE  LifeParts'
<1>1. reading \in Readings
  BY DEF LifeParts, ReadingOK
<1>2. reading' = [reading EXCEPT !.fired = reading.stage # "none"]
  BY DEF Restarts, Aborts
<1>3. ReadingOK(reading', lost) /\ (reading'.stage # "open" \/ reading'.fired)
  BY <1>1, <1>2, ReadingFacts
<1>4. restarting' = TRUE /\ chunks' = kept /\ retry' \in [named : BOOLEAN, stray : BOOLEAN]
  BY DEF Restarts, LifeParts
<1> QED  BY <1>3, <1>4 DEF LifeParts, RestartOK

\* What a gap asks for leaves nothing pending that no cooldown will end.
LEMMA RestartForGapOK ==
  ASSUME LifeParts, ~restarting, NEW budget, ChunksOK(budget), RestartForGap(budget),
         UNCHANGED <<ended, listeners, lost>>
  PROVE  LifeParts'
<1>1. CASE budget.count >= MaxRecoveries
  <2>1. chunks' = [budget EXCEPT !.degraded = TRUE] /\ UNCHANGED <<reading, retry, restarting>>
    BY <1>1 DEF RestartForGap
  <2>2. ChunksOK(chunks')
    BY <2>1 DEF ChunksOK, Chunks
  <2> QED  BY <2>1, <2>2 DEF LifeParts
<1>2. CASE ~(budget.count >= MaxRecoveries) /\ budget.cooling
  <2>1. chunks' = [budget EXCEPT !.pending = TRUE] /\ UNCHANGED <<reading, retry, restarting>>
    BY <1>2 DEF RestartForGap
  <2>2. ChunksOK(chunks')
    BY <1>2, <2>1 DEF ChunksOK, Chunks
  <2> QED  BY <2>1, <2>2 DEF LifeParts
<1>3. CASE ~(budget.count >= MaxRecoveries) /\ ~budget.cooling
  <2> DEFINE kept == [budget EXCEPT !.count = @ + 1, !.cooling = TRUE, !.pending = FALSE]
  <2>1. Restarts(kept)
    BY <1>3 DEF RestartForGap
  <2>2. budget.count + 1 \in 0 .. MaxRecoveries
    BY <1>3, MaxRecoveriesAssumption DEF ChunksOK, Chunks
  <2>3. ChunksOK(kept) /\ ~kept.pending
    BY <2>2 DEF ChunksOK, Chunks
  <2> HIDE DEF kept
  <2> QED  BY <2>1, <2>3, RestartsOK
<1> QED  BY <1>1, <1>2, <1>3

\* clearTransientRestart()
LEMMA ClearedOK ==
  ASSUME ChunksOK(chunks)
  PROVE  ChunksOK(Cleared) /\ ~Cleared.pending
BY DEF ChunksOK, Chunks, Cleared

\* A budget that is given back.
LEMMA RenewedOK ==
  ASSUME NEW c, ChunksOK(c)
  PROVE  /\ ChunksOK([c EXCEPT !.count = 0, !.degraded = FALSE])
         /\ [c EXCEPT !.count = 0, !.degraded = FALSE].pending = c.pending
<1> DEFINE n == [c EXCEPT !.count = 0, !.degraded = FALSE]
<1>1. 0 \in 0 .. MaxRecoveries
  BY MaxRecoveriesAssumption
<1>2. c \in Chunks /\ (c.pending => c.cooling)
  BY DEF ChunksOK
<1>3. n \in Chunks
  BY <1>1, <1>2 DEF Chunks
<1>4. n.pending = c.pending /\ n.cooling = c.cooling
  BY <1>2 DEF Chunks
<1> QED  BY <1>2, <1>3, <1>4 DEF ChunksOK

-----------------------------------------------------------------------------
(* The steps. *)

\* The last listener leaves, or the controller is closed.
LEMMA AbortOK ==
  ASSUME LifeParts, Aborts, chunks' = Cleared, retry' = [retry EXCEPT !.named = FALSE],
         ended' \in BOOLEAN, listeners' \subseteq Listeners, UNCHANGED <<restarting, lost>>
  PROVE  LifeParts'
<1>1. reading \in Readings /\ ChunksOK(chunks)
  BY DEF LifeParts, ReadingOK
<1>2. reading' = [reading EXCEPT !.fired = reading.stage # "none"]
  BY DEF Aborts
<1>3. ReadingOK(reading', lost) /\ (reading'.stage # "open" \/ reading'.fired)
  BY <1>1, <1>2, ReadingFacts
<1>4. ChunksOK(chunks') /\ ~chunks'.pending
  BY <1>1, ClearedOK
<1>5. retry' \in [named : BOOLEAN, stray : BOOLEAN]
  BY DEF LifeParts
<1> QED  BY <1>3, <1>4, <1>5 DEF LifeParts, RestartOK

\* The steps of the callers.
LEMMA CallerOK ==
  ASSUME LifeParts, \/ \E l \in Listeners : Subscribe(l) \/ Unsubscribe(l)
                    \/ CloseController \/ RestartAsked \/ RestartContinues
  PROVE  LifeParts'
<1>0. ChunksOK(chunks)
  BY DEF LifeParts
<1>1. ASSUME NEW l \in Listeners, Subscribe(l) PROVE LifeParts'
  <2>1. listeners' \subseteq Listeners /\ UNCHANGED <<ended, retry, restarting, lost>>
    BY <1>1 DEF Subscribe, LifeParts
  <2>2. CASE reading.stage = "none" /\ ~restarting
    <3>1. Opens(listeners', chunks)
      BY <1>1, <2>2 DEF Subscribe
    <3>2. ReadingOK(reading', lost) /\ ChunksOK(chunks')
      BY <1>0, <3>1, OpensOK
    <3> QED  BY <2>1, <2>2, <3>2 DEF LifeParts
  <2>3. CASE ~(reading.stage = "none" /\ ~restarting)
    BY <1>1, <2>1, <2>3 DEF Subscribe, LifeParts
  <2> QED  BY <2>2, <2>3
<1>2. ASSUME NEW l \in Listeners, Unsubscribe(l) PROVE LifeParts'
  <2>1. listeners' \subseteq Listeners /\ UNCHANGED <<ended, restarting, lost>>
    BY <1>2 DEF Unsubscribe, LifeParts
  <2>2. CASE listeners' = {}
    BY <1>2, <2>1, <2>2, AbortOK DEF Unsubscribe, LifeParts
  <2>3. CASE listeners' # {}
    BY <1>2, <2>1, <2>3 DEF Unsubscribe, LifeParts
  <2> QED  BY <2>2, <2>3
<1>3. CASE CloseController
  <2>1. ended' \in BOOLEAN /\ listeners' \subseteq Listeners
    BY <1>3 DEF CloseController
  <2> QED  BY <1>3, <2>1, AbortOK DEF CloseController
<1>4. CASE RestartAsked
  <2> DEFINE kept == [Cleared EXCEPT !.count = 0, !.degraded = FALSE]
  <2>1. ChunksOK(kept) /\ ~kept.pending
    BY <1>0, ClearedOK, RenewedOK
  <2>2. Restarts(kept) /\ UNCHANGED <<ended, listeners, lost>>
    BY <1>4 DEF RestartAsked
  <2> HIDE DEF kept
  <2> QED  BY <2>1, <2>2, RestartsOK
<1>5. CASE RestartContinues
  <2>1. restarting' = FALSE /\ Opens(listeners, chunks) /\ UNCHANGED <<ended, listeners, retry, lost>>
    BY <1>5 DEF RestartContinues
  <2>2. ReadingOK(reading', lost) /\ ChunksOK(chunks')
    BY <1>0, <2>1, OpensOK
  <2> QED  BY <2>1, <2>2 DEF LifeParts
<1> QED  BY <1>1, <1>2, <1>3, <1>4, <1>5

\* The steps of a generation.
LEMMA GenerationOK ==
  ASSUME LifeParts, FirstFrame \/ StreamEnds \/ Unwound \/ ScheduleReconnect \/ Leaves
  PROVE  LifeParts'
<1>0. reading \in Readings /\ ChunksOK(chunks)
  BY DEF LifeParts, ReadingOK
<1>1. ASSUME NEW x \in {"unwinding", "reporting", "leaving"},
             reading' = [reading EXCEPT !.stage = x], UNCHANGED <<ended, listeners, restarting, chunks>>,
             retry' \in [named : BOOLEAN, stray : BOOLEAN], lost' \in BOOLEAN
      PROVE  LifeParts'
  <2>1. reading' \in Readings /\ reading'.stage # "open"
    BY <1>0, <1>1 DEF Readings, Stages
  <2> QED  BY <1>1, <2>1 DEF LifeParts, ReadingOK, RestartOK
<1>2. CASE FirstFrame
  <2>1. /\ reading' = [reading EXCEPT !.heard = TRUE] /\ lost' = FALSE
        /\ UNCHANGED <<ended, listeners, retry, restarting, chunks>>
    BY <1>2 DEF FirstFrame
  <2>2. ReadingOK(reading', FALSE) /\ reading'.stage = reading.stage /\ reading'.fired = reading.fired
    BY <1>0, <2>1 DEF ReadingOK, Readings
  <2> QED  BY <2>1, <2>2 DEF LifeParts, RestartOK
<1>3. CASE StreamEnds
  BY <1>1, <1>3 DEF StreamEnds, LifeParts
<1>4. CASE Unwound
  <2>1. PICK x \in {"reporting", "leaving"} : reading' = [reading EXCEPT !.stage = x]
    BY <1>4 DEF Unwound
  <2>2. lost' \in BOOLEAN /\ UNCHANGED <<ended, listeners, retry, restarting, chunks>>
    BY <1>4 DEF Unwound
  <2> QED  BY <1>1, <2>1, <2>2 DEF LifeParts
<1>5. CASE ScheduleReconnect
  <2>1. retry' \in [named : BOOLEAN, stray : BOOLEAN]
    BY <1>5 DEF ScheduleReconnect, LifeParts
  <2> QED  BY <1>1, <1>5, <2>1 DEF ScheduleReconnect, LifeParts
<1>6. CASE Leaves
  <2>1. UNCHANGED <<ended, listeners, retry, restarting, lost>>
    BY <1>6 DEF Leaves
  <2>2. CASE reading.fired /\ ~restarting
    <3>1. Opens(listeners, chunks)
      BY <1>6, <2>2 DEF Leaves
    <3>2. ReadingOK(reading', lost) /\ ChunksOK(chunks')
      BY <1>0, <3>1, OpensOK
    <3> QED  BY <2>1, <2>2, <3>2 DEF LifeParts
  <2>3. CASE ~(reading.fired /\ ~restarting)
    <3>1. reading' = NotReading /\ UNCHANGED chunks
      BY <1>6, <2>3 DEF Leaves
    <3> QED  BY <1>0, <2>1, <3>1, ReadingFacts DEF LifeParts, RestartOK
  <2> QED  BY <2>2, <2>3
<1> QED  BY <1>2, <1>3, <1>4, <1>5, <1>6

\* The steps of the timers, and the gaps of the chunks.
LEMMA TimerOK ==
  ASSUME LifeParts, ReconnectFires \/ ChunkIsDropped \/ GapIsSeen \/ CooldownEnds
  PROVE  LifeParts'
<1>0. ChunksOK(chunks)
  BY DEF LifeParts
<1>1. CASE ReconnectFires
  <2>1. /\ retry' \in [named : BOOLEAN, stray : BOOLEAN] /\ Reconnects /\ LoopIsIdle
        /\ UNCHANGED <<ended, listeners, restarting, lost>>
    <3>1. retry \in [named : BOOLEAN, stray : BOOLEAN]
      BY DEF LifeParts
    <3>2. CASE retry' = [retry EXCEPT !.named = FALSE]
      BY <1>1, <3>1, <3>2 DEF ReconnectFires
    <3>3. ASSUME NEW more \in BOOLEAN, retry' = [named |-> FALSE, stray |-> retry.named \/ more]
          PROVE  retry' \in [named : BOOLEAN, stray : BOOLEAN]
      BY <3>1, <3>3
    <3> QED  BY <1>1, <3>2, <3>3 DEF ReconnectFires
  <2>2. CASE reading.stage = "none"
    <3>1. Opens(listeners, chunks) /\ ~restarting
      BY <2>1, <2>2 DEF Reconnects, LoopIsIdle
    <3>2. ReadingOK(reading', lost) /\ ChunksOK(chunks')
      BY <1>0, <3>1, OpensOK
    <3> QED  BY <2>1, <3>1, <3>2 DEF LifeParts
  <2>3. CASE reading.stage # "none"
    BY <2>1, <2>3 DEF Reconnects, LifeParts
  <2> QED  BY <2>2, <2>3
<1>2. CASE ChunkIsDropped
  BY <1>0, <1>2, ChunkFacts DEF ChunkIsDropped, LifeParts, RestartOK
<1>3. CASE GapIsSeen
  <2>1. ~restarting /\ UNCHANGED <<ended, listeners, lost>>
    BY <1>3 DEF GapIsSeen, Hears, LifeParts, RestartOK
  <2>2. CASE RestartForGap(chunks)
    BY <1>0, <2>1, <2>2, RestartForGapOK
  <2> DEFINE budget == [chunks EXCEPT !.count = 0, !.degraded = FALSE]
  <2>3. CASE RestartForGap(budget)
    <3>1. ChunksOK(budget)
      BY <1>0, RenewedOK
    <3> HIDE DEF budget
    <3> QED  BY <2>1, <2>3, <3>1, RestartForGapOK
  <2> QED  BY <1>3, <2>2, <2>3 DEF GapIsSeen
<1>4. CASE CooldownEnds
  <2> DEFINE over == [chunks EXCEPT !.cooling = FALSE]
             budget == [over EXCEPT !.pending = FALSE]
  <2>1. UNCHANGED <<ended, listeners, lost>>
    BY <1>4 DEF CooldownEnds
  <2>2. /\ ChunksOK(budget) /\ ~budget.pending
        /\ ~chunks.pending => ChunksOK(over) /\ ~over.pending
    BY <1>0 DEF ChunksOK, Chunks
  <2>3. CASE chunks.pending
    <3>1. ~restarting
      BY <2>3 DEF LifeParts, RestartOK
    <3>2. CASE MayRead(listeners)
      <4>1. RestartForGap(budget)
        BY <1>4, <2>3, <3>1, <3>2 DEF CooldownEnds
      <4> HIDE DEF over, budget
      <4> QED  BY <2>1, <2>2, <3>1, <4>1, RestartForGapOK
    <3>3. CASE ~MayRead(listeners)
      <4>1. chunks' = budget /\ UNCHANGED <<reading, retry, restarting>>
        BY <1>4, <2>3, <3>1, <3>3 DEF CooldownEnds
      <4> HIDE DEF over, budget
      <4> QED  BY <2>1, <2>2, <3>1, <4>1 DEF LifeParts
    <3> QED  BY <3>2, <3>3
  <2>4. CASE ~chunks.pending
    <3>1. chunks' = over /\ UNCHANGED <<reading, retry, restarting>>
      BY <1>4, <2>4 DEF CooldownEnds
    <3> HIDE DEF over, budget
    <3> QED  BY <2>1, <2>2, <2>4, <3>1 DEF LifeParts, RestartOK
  <2> QED  BY <2>3, <2>4
<1> QED  BY <1>1, <1>2, <1>3, <1>4

\* The invariant holds at the start.
LEMMA LifePartsHoldFirst == LifeInit => LifeParts
<1> SUFFICES ASSUME LifeInit PROVE LifeParts
  OBVIOUS
<1>1. ReadingOK(reading, lost)
  BY DEF LifeInit, NotReading, ReadingOK, Readings, Stages
<1>2. ChunksOK(chunks)
  <2>1. 0 \in 0 .. MaxRecoveries
    BY MaxRecoveriesAssumption
  <2> QED  BY <2>1 DEF LifeInit, ChunksOK, Chunks
<1> QED  BY <1>1, <1>2 DEF LifeInit, LifeParts

\* Every step keeps it.
LEMMA LifePartsStay == LifeParts /\ [LifeNext]_lifeVars => LifeParts'
<1> SUFFICES ASSUME LifeParts, [LifeNext]_lifeVars PROVE LifeParts'
  OBVIOUS
<1>1. CASE UNCHANGED lifeVars
  BY <1>1 DEF lifeVars, LifeParts
<1>2. CASE LifeNext
  BY <1>2, CallerOK, GenerationOK, TimerOK DEF LifeNext
<1> QED  BY <1>1, <1>2

\* The variables keep their types.  No generation hears and no gap is pending while a
\* restart is under way, a generation that has heard a frame has brought the
\* connection back, and whatever is pending has a cooldown that will end.
THEOREM LifeTypeCorrect == LifeSpec => []LifeTypeOK
<1> QED  BY LifePartsHoldFirst, LifePartsStay, PartsAreTypes, PTL DEF LifeSpec

-----------------------------------------------------------------------------
(* Whoever listens is read for. *)

\* Aborting leaves no generation, or one that will unwind.
LEMMA AbortServes ==
  ASSUME LifeParts, Aborts
  PROVE  /\ reading'.stage = reading.stage
         /\ reading'.stage = "none" \/ reading'.fired
BY DEF LifeParts, ReadingOK, Readings, Aborts

\* startReading() leaves a generation to those who listen, and none to nobody.
LEMMA OpensServes ==
  ASSUME NEW kept, Opens(listeners', kept), ended => listeners' = {}, restarting' = FALSE,
         UNCHANGED ended
  PROVE  ListenersAreServed'
BY DEF Opens, MayRead, Generation, NotReading, ListenersAreServed

\* A restart serves whoever listens, and has aborted what reads.
LEMMA RestartsServe ==
  ASSUME LifeParts, ListenersAreServed, NEW kept, Restarts(kept),
         UNCHANGED <<ended, listeners>>
  PROVE  ListenersAreServed'
BY AbortServes DEF Restarts, ListenersAreServed

\* A gap of chunks begins a restart or leaves everything as it is.
LEMMA RestartForGapServes ==
  ASSUME LifeParts, ListenersAreServed, NEW budget, RestartForGap(budget),
         UNCHANGED <<ended, listeners>>
  PROVE  ListenersAreServed'
BY RestartsServe DEF RestartForGap, ListenersAreServed

\* Listeners come and go.
LEMMA CallersServe ==
  ASSUME LifeParts, ListenersAreServed,
         \/ \E l \in Listeners : Subscribe(l) \/ Unsubscribe(l)
         \/ CloseController \/ RestartAsked \/ RestartContinues
  PROVE  ListenersAreServed'
<1>0. reading.stage \in Stages
  BY DEF LifeParts, ReadingOK, Readings
<1>1. ASSUME NEW l \in Listeners, Subscribe(l) PROVE ListenersAreServed'
  <2>1. ~ended /\ listeners' # {} /\ UNCHANGED <<ended, retry, restarting>>
    BY <1>1 DEF Subscribe
  <2>2. CASE reading.stage = "none" /\ ~restarting
    BY <1>1, <2>1, <2>2, OpensServes DEF Subscribe, LifeParts
  <2>3. CASE ~(reading.stage = "none" /\ ~restarting)
    BY <1>0, <1>1, <2>1, <2>3 DEF Subscribe, ListenersAreServed, Stages
  <2> QED BY <2>2, <2>3
<1>2. ASSUME NEW l \in Listeners, Unsubscribe(l) PROVE ListenersAreServed'
  <2>1. CASE listeners' = {}
    BY <1>2, <2>1, AbortServes DEF Unsubscribe, ListenersAreServed
  <2>2. CASE listeners' # {}
    BY <1>2, <2>2 DEF Unsubscribe, ListenersAreServed
  <2> QED BY <2>1, <2>2
<1>3. CASE CloseController
  BY <1>3, AbortServes DEF CloseController, ListenersAreServed
<1>4. CASE RestartAsked
  BY <1>4, RestartsServe DEF RestartAsked
<1>5. CASE RestartContinues
  BY <1>5, OpensServes DEF RestartContinues, ListenersAreServed
<1> QED BY <1>1, <1>2, <1>3, <1>4, <1>5

\* A generation unwinds: whoever is told of its failure has a timer afterwards.
LEMMA GenerationServes ==
  ASSUME LifeParts, ListenersAreServed,
         FirstFrame \/ StreamEnds \/ Unwound \/ ScheduleReconnect \/ Leaves
  PROVE  ListenersAreServed'
<1>0. reading \in Readings /\ retry \in [named : BOOLEAN, stray : BOOLEAN]
  BY DEF LifeParts, ReadingOK
<1>1. CASE FirstFrame \/ StreamEnds \/ Unwound
  <2>1. /\ UNCHANGED <<ended, listeners, retry, restarting>>
        /\ reading.stage # "none" /\ reading'.fired = reading.fired
        /\ \/ reading'.stage \in {"open", "unwinding", "reporting"}
           \/ reading'.stage = "leaving" /\ reading.fired
    BY <1>0, <1>1 DEF FirstFrame, StreamEnds, Unwound, Readings, Hears
  <2> QED BY <2>1 DEF ListenersAreServed
<1>2. CASE ScheduleReconnect
  <2>1. /\ UNCHANGED <<ended, listeners, restarting>>
        /\ reading.stage = "reporting"
        /\ reading'.stage = "leaving" /\ reading'.fired = reading.fired
        /\ ~ended /\ listeners # {} => retry'.named
    BY <1>0, <1>2 DEF ScheduleReconnect, Readings
  <2> QED BY <2>1 DEF ListenersAreServed
<1>3. CASE Leaves
  <2>1. CASE reading.fired /\ ~restarting
    BY <1>3, <2>1, OpensServes DEF Leaves, ListenersAreServed, LifeParts
  <2>2. CASE ~(reading.fired /\ ~restarting)
    BY <1>3, <2>2 DEF Leaves, NotReading, ListenersAreServed
  <2> QED BY <2>1, <2>2
<1> QED BY <1>1, <1>2, <1>3

\* A timer that fires reads, unless a generation is there already.
LEMMA TimersServe ==
  ASSUME LifeParts, ListenersAreServed,
         ReconnectFires \/ ChunkIsDropped \/ GapIsSeen \/ CooldownEnds
  PROVE  ListenersAreServed'
<1>0. reading.stage \in Stages
  BY DEF LifeParts, ReadingOK, Readings
<1>1. CASE ReconnectFires
  <2>1. UNCHANGED <<ended, listeners, restarting>> /\ LoopIsIdle /\ Reconnects
    BY <1>1 DEF ReconnectFires
  <2>2. CASE reading.stage = "none"
    <3>1. restarting' = FALSE
      BY <2>1, <2>2 DEF LoopIsIdle, LifeParts
    <3> QED BY <2>1, <2>2, <3>1, OpensServes DEF Reconnects, ListenersAreServed
  <2>3. CASE reading.stage # "none"
    BY <1>0, <2>1, <2>3 DEF Reconnects, LoopIsIdle, ListenersAreServed, Stages
  <2> QED BY <2>2, <2>3
<1>2. CASE ChunkIsDropped
  BY <1>2 DEF ChunkIsDropped, ListenersAreServed
<1>3. CASE GapIsSeen
  BY <1>3, RestartForGapServes DEF GapIsSeen
<1>4. CASE CooldownEnds
  <2>1. CASE UNCHANGED <<ended, listeners, reading, retry, restarting>>
    BY <2>1 DEF ListenersAreServed
  <2>2. ASSUME NEW budget, RestartForGap(budget), UNCHANGED <<ended, listeners>>
        PROVE  ListenersAreServed'
    BY <2>2, RestartForGapServes
  <2> QED BY <1>4, <2>1, <2>2 DEF CooldownEnds
<1> QED BY <1>1, <1>2, <1>3, <1>4

\* At no point of unwinding, restarting, failing and closing is a listener left with
\* nothing under way that will read for it, nor does a generation nobody listens to read on.
THEOREM ListenersAlwaysServed == LifeSpec => []ListenersAreServed
<1>1. LifeInit => LifeParts /\ ListenersAreServed
  BY LifePartsHoldFirst DEF LifeInit, NotReading, ListenersAreServed
<1>2. LifeParts /\ [LifeNext]_lifeVars => LifeParts'
  BY LifePartsStay
<1>3. LifeParts /\ ListenersAreServed /\ [LifeNext]_lifeVars => ListenersAreServed'
  <2> SUFFICES ASSUME LifeParts, ListenersAreServed, [LifeNext]_lifeVars
               PROVE  ListenersAreServed'
    OBVIOUS
  <2>1. CASE UNCHANGED lifeVars
    BY <2>1 DEF lifeVars, ListenersAreServed
  <2> QED BY <2>1, CallersServe, GenerationServes, TimersServe DEF LifeNext
<1> QED BY <1>1, <1>2, <1>3, PTL DEF LifeSpec
=============================================================================
