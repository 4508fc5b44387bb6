----------------------- MODULE ControlDeliveryProofs -----------------------
(***************************************************************************)
(* What ControlDelivery promises, for every set of prompts and every size  *)
(* of the mailbox and of the retry ladder.                                 *)
(*                                                                         *)
(* No interaction is lost because it is always covered: the Webview shows  *)
(* it, or a frame that carries it is on its way, or a recovery is due that *)
(* will replay it; and no snapshot follows that could clear it again.      *)
(* Nothing is stuck because every frame under way has a step ahead, and    *)
(* what is queued behind none has a timer, unless the retries are used up. *)
(***************************************************************************)
EXTENDS ControlDelivery, SequenceTheorems, WellFoundedInduction, TLAPS

Mailboxes ==
  [pending : Seq(Messages), active : Frames \cup {NoFrame}, attempts : 0..Retries,
   timer : BOOLEAN, rest : {"none", "pause", "over"}]

Wires == Seq([entry : Messages, mine : BOOLEAN])

\* One entry more than MaxPending waits only between a failure and the retry.
MailboxOK(m) ==
  /\ m \in Mailboxes
  /\ Len(m.pending) <= IF m.active = NoFrame THEN MaxPending + 1 ELSE MaxPending
  /\ m.active # NoFrame /\ m.active.phase = "scheduled" => m.active.ack = "none"

\* The frame on the wire that is acknowledged is the active one.
Matched(m, w) ==
  \A i \in DOMAIN w :
    w[i].mine =>
      /\ m.active # NoFrame /\ m.active.phase # "scheduled" /\ m.active.ack = "none"
      /\ m.active.entry = w[i].entry
      /\ \A j \in DOMAIN w : w[j].mine => j = i

\* The active frame, as long as it is not on the wire.
Scheduled(m) == m.active # NoFrame /\ m.active.phase = "scheduled"

Held(m) ==
  {m.pending[i] : i \in DOMAIN m.pending} \cup
  (IF m.active = NoFrame THEN {} ELSE {m.active.entry})
OnWire(w) == {w[i].entry : i \in DOMAIN w}

\* What an entry may say.  What has been settled is not asked any more.
Truthful(e, h) ==
  /\ e.kind \in {"resync", "snapshot"} => ~e.fenced
  /\ e.kind = "asks" => e.of \in 1..h.live /\ e.prompt \in Prompts
  /\ e.kind = "settled" => e.of \in 1..h.bound /\ (e.of = h.bound => e.prompt \in h.asked \ h.replay)

-----------------------------------------------------------------------------
(* What covers an interaction: b is the backend, p the prompt. *)

AsksFor(e, b, p) == e.kind = "asks" /\ e.of = b /\ e.prompt = p

Bare(m) ==
  /\ Scheduled(m) => m.active.entry.kind # "snapshot"
  /\ \A i \in DOMAIN m.pending : m.pending[i].kind # "snapshot"
WireBare(w) == \A i \in DOMAIN w : w[i].entry.kind # "snapshot"

Resyncs(m) ==
  \/ Scheduled(m) /\ m.active.entry.kind = "resync"
  \/ \E i \in DOMAIN m.pending : m.pending[i].kind = "resync"
WireResyncs(w) == \E i \in DOMAIN w : w[i].entry.kind = "resync"

\* It is carried, and no snapshot comes after it.
Carries(m, b, p) ==
  \/ /\ Scheduled(m) /\ AsksFor(m.active.entry, b, p)
     /\ \A j \in DOMAIN m.pending : m.pending[j].kind # "snapshot"
  \/ \E i \in DOMAIN m.pending :
       /\ AsksFor(m.pending[i], b, p)
       /\ \A j \in DOMAIN m.pending : j > i => m.pending[j].kind # "snapshot"
WireCarries(w, b, p) ==
  \E i \in DOMAIN w :
    /\ AsksFor(w[i].entry, b, p)
    /\ \A j \in DOMAIN w : j > i => w[j].entry.kind # "snapshot"

\* A request will replay it.
Recovering(rd, v, b, p) ==
  \/ v.rerun
  \/ \E r \in Requests :
       \/ rd[r].phase \in {"asked", "connecting", "snapshot"}
       \/ rd[r].phase = "replay" /\ <<b, p>> \in rd[r].list

Underway(m, w, b, p) ==
  \/ Resyncs(m) \/ WireResyncs(w)
  \/ Carries(m, b, p)
  \/ WireCarries(w, b, p) /\ Bare(m)

Shown(m, w, v, b, p) == <<b, p>> \in v.prompts /\ WireBare(w) /\ Bare(m)

Covered(b, p) ==
  \/ Recovering(ready, view, b, p)
  \/ Underway(mailbox, wire, b, p)
  \/ Shown(mailbox, wire, view, b, p)

-----------------------------------------------------------------------------

Hosts ==
  {h \in [state : States, live : Nat, bound : Nat, source : Nat, replay : SUBSET Prompts,
          asked : SUBSET Prompts] :
     /\ h.bound <= h.live /\ h.replay \subseteq h.asked
     /\ h.bound = 0 => h.replay = {}}

HostOK ==
  /\ host \in Hosts
  /\ Serving /\ host.replay # {} => host.source = host.bound

ViewOK ==
  /\ view \in [listening : BOOLEAN, state : States, of : Nat,
               prompts : SUBSET ((1..host.live) \X Prompts), rerun : BOOLEAN]
  /\ ready \in [Requests -> [phase : Phases, list : SUBSET ((1..host.live) \X Prompts)]]
  /\ view.rerun => ready.snapshotOnly.phase # "none"
  /\ ~view.listening => ready.full.phase = "asked"
  /\ ready.snapshotOnly.phase # "connecting"

FramesOK ==
  /\ wire \in Wires
  /\ MailboxOK(mailbox) /\ Matched(mailbox, wire)
  /\ \A e \in Held(mailbox) \cup OnWire(wire) : Truthful(e, host)

NothingLost == Serving => \A p \in host.replay : Covered(host.bound, p)

DeliveryInv ==
  /\ HostOK /\ ViewOK /\ FramesOK /\ NothingLost

-----------------------------------------------------------------------------
(* The functions of the mailbox. *)

\* Nothing that n has lost had to be delivered.
Keeps(m, n, b) ==
  /\ Bare(m) => Bare(n)
  /\ Resyncs(m) => Resyncs(n)
  /\ \A p \in Prompts : Carries(m, b, p) => Carries(n, b, p) \/ Resyncs(n)

\* Only what a backend says depends on the backend.
Plain(e) == e.kind \in {"resync", "snapshot"} => ~e.fenced

\* A set of positions has a least member.
LEMMA LeastOf ==
  ASSUME NEW S, S \subseteq Nat, S # {}
  PROVE  Min(S) \in S /\ \A y \in S : Min(S) <= y
<1>1. PICK k \in S : \A y \in S : <<y, k>> \notin OpToRel(<, Nat)
  BY NatLessThanWellFounded, WFMin
<1>2. \A y \in S : ~(y < k)
  BY <1>1, Zenon DEF OpToRel
<1>3. \A y \in S : k <= y
  BY <1>2
<1> QED  BY <1>3 DEF Min

\* What pump() does: nothing, or it drops the outdated entries at the head, and
\* makes the next one the active frame if there is one.
LEMMA PumpCases ==
  ASSUME NEW m \in Mailboxes, NEW b \in Nat
  PROVE  \/ Pump(m, b) = m
         \/ /\ m.active = NoFrame
            /\ \A i \in DOMAIN m.pending : ~Current(m.pending[i], b)
            /\ Pump(m, b) = [m EXCEPT !.pending = <<>>]
         \/ /\ m.active = NoFrame
            /\ \E k \in DOMAIN m.pending :
                 /\ Current(m.pending[k], b)
                 /\ \A i \in DOMAIN m.pending : i < k => ~Current(m.pending[i], b)
                 /\ Pump(m, b) =
                      [m EXCEPT !.pending = SubSeq(@, k + 1, Len(@)),
                                !.active = [entry |-> m.pending[k], phase |-> "scheduled",
                                            ack |-> "none"]]
<1> DEFINE current == {i \in DOMAIN m.pending : Current(m.pending[i], b)}
<1>1. CASE m.active # NoFrame \/ m.timer \/ m.rest = "pause"
  BY <1>1 DEF Pump
<1>2. CASE ~(m.active # NoFrame \/ m.timer \/ m.rest = "pause") /\ current = {}
  BY <1>2 DEF Pump
<1>3. CASE ~(m.active # NoFrame \/ m.timer \/ m.rest = "pause") /\ current # {}
  <2>1. Min(current) \in current /\ \A y \in current : Min(current) <= y
    <3>1. current \subseteq Nat
      BY DEF Mailboxes
    <3> HIDE DEF current
    <3> QED  BY <1>3, <3>1, LeastOf
  <2>2. \A i \in DOMAIN m.pending : i < Min(current) => ~Current(m.pending[i], b)
    <3> SUFFICES ASSUME NEW i \in DOMAIN m.pending, i < Min(current), i \in current PROVE FALSE
      OBVIOUS
    <3>1. Min(current) <= i /\ i \in Nat /\ Min(current) \in Nat
      BY <2>1 DEF Mailboxes
    <3> HIDE DEF current
    <3> QED  BY <3>1
  <2>3. Pump(m, b) = [m EXCEPT !.pending = SubSeq(@, Min(current) + 1, Len(@)),
                               !.active = [entry |-> m.pending[Min(current)],
                                           phase |-> "scheduled", ack |-> "none"]]
    BY <1>3 DEF Pump
  <2> QED  BY <1>3, <2>1, <2>2, <2>3
<1> QED  BY <1>1, <1>2, <1>3

\* pump() loses only what is outdated.
LEMMA PumpKeeps ==
  ASSUME NEW m, MailboxOK(m), NEW b \in Nat, \A e \in Held(m) : Plain(e)
  PROVE  /\ MailboxOK(Pump(m, b))
         /\ Held(Pump(m, b)) \subseteq Held(m)
         /\ \A w : Matched(m, w) => Matched(Pump(m, b), w)
         /\ Keeps(m, Pump(m, b), b)
<1> DEFINE n == Pump(m, b)
<1>m. m \in Mailboxes
  BY DEF MailboxOK
<1>1. CASE n = m
  BY <1>1 DEF Keeps
<1>2. CASE /\ m.active = NoFrame
           /\ \A i \in DOMAIN m.pending : ~Current(m.pending[i], b)
           /\ n = [m EXCEPT !.pending = <<>>]
  <2>1. n.pending = <<>> /\ n.active = NoFrame /\ n \in Mailboxes
    <3>1. <<>> \in Seq(Messages)
      OBVIOUS
    <3> HIDE DEF n
    <3> QED  BY <1>2, <1>m, <3>1 DEF Mailboxes
  <2>2. DOMAIN n.pending = {} /\ Len(n.pending) = 0
    BY <2>1
  <2>3. MailboxOK(n) /\ Held(n) \subseteq Held(m)
    BY <2>1, <2>2, DeliveryAssumption DEF MailboxOK, Held
  <2>4. \A w : Matched(m, w) => Matched(n, w)
    BY <1>2, <2>1 DEF Matched
  <2>5. \A i \in DOMAIN m.pending : m.pending[i].fenced /\ m.pending[i].of # b
    BY <1>2 DEF Current
  <2>6. \A i \in DOMAIN m.pending : m.pending[i].kind # "resync"
    BY <2>5 DEF Held, Plain
  <2>7. ~Scheduled(m) /\ ~Scheduled(n)
    BY <1>2, <2>1 DEF Scheduled
  <2>8. Bare(n) /\ ~Resyncs(m)
    BY <2>2, <2>6, <2>7 DEF Bare, Resyncs
  <2>9. \A p \in Prompts : ~Carries(m, b, p)
    BY <2>5, <2>7 DEF Carries, AsksFor
  <2> QED  BY <2>3, <2>4, <2>8, <2>9 DEF Keeps
<1>3. CASE m.active = NoFrame /\ n # m /\ ~ \A i \in DOMAIN m.pending : ~Current(m.pending[i], b)
  <2>1. PICK k \in DOMAIN m.pending :
               /\ Current(m.pending[k], b)
               /\ \A i \in DOMAIN m.pending : i < k => ~Current(m.pending[i], b)
               /\ n = [m EXCEPT !.pending = SubSeq(@, k + 1, Len(@)),
                                !.active = [entry |-> m.pending[k], phase |-> "scheduled",
                                            ack |-> "none"]]
    BY <1>3, <1>m, PumpCases
  <2> DEFINE f == [entry |-> m.pending[k], phase |-> "scheduled", ack |-> "none"]
             rest == SubSeq(m.pending, k + 1, Len(m.pending))
  <2>2. /\ m.pending \in Seq(Messages) /\ k \in 1..Len(m.pending) /\ Len(m.pending) \in Nat
        /\ DOMAIN m.pending = 1..Len(m.pending)
    BY <2>1, <1>m DEF Mailboxes
  <2>3. /\ rest \in Seq(Messages) /\ Len(rest) = Len(m.pending) - k
        /\ DOMAIN rest = 1..(Len(m.pending) - k)
        /\ \A i \in DOMAIN rest : k + i \in DOMAIN m.pending /\ rest[i] = m.pending[k + i]
    BY <2>2
  <2>4. f \in Frames /\ f # NoFrame /\ f.entry = m.pending[k] /\ f.phase = "scheduled" /\ f.ack = "none"
    BY <2>2, NoFrameAssumption DEF Frames
  <2>5. /\ n = [m EXCEPT !.pending = rest, !.active = f]
        /\ n.pending = rest /\ n.active = f /\ n \in Mailboxes
    BY <2>1, <2>3, <2>4, <1>m DEF Mailboxes
  <2> HIDE DEF f, rest, n
  <2>6. MailboxOK(n)
    BY <1>3, <2>2, <2>3, <2>4, <2>5, DeliveryAssumption DEF MailboxOK
  <2>7. Held(n) \subseteq Held(m)
    <3>1. \A i \in DOMAIN rest : rest[i] \in Held(m)
      BY <2>3 DEF Held
    <3>2. m.pending[k] \in Held(m)
      BY DEF Held
    <3> QED  BY <3>1, <3>2, <2>4, <2>5 DEF Held
  <2>8. \A w : Matched(m, w) => Matched(n, w)
    BY <1>3 DEF Matched
  <2>9. ~Scheduled(m) /\ Scheduled(n)
    BY <1>3, <2>4, <2>5 DEF Scheduled
  <2>10. \A i \in DOMAIN m.pending : i < k => m.pending[i].fenced /\ m.pending[i].of # b
    BY <2>1 DEF Current
  <2>11. \A i \in DOMAIN m.pending : i < k => m.pending[i].kind # "resync"
    BY <2>10 DEF Held, Plain
  <2>12. Bare(m) => Bare(n)
    BY <2>2, <2>3, <2>4, <2>5, <2>9 DEF Bare
  <2>13. \A i \in DOMAIN m.pending : i > k => i - k \in DOMAIN rest /\ rest[i - k] = m.pending[i]
    BY <2>2, <2>3
  <2>14. Resyncs(m) => Resyncs(n)
    <3> SUFFICES ASSUME NEW i \in DOMAIN m.pending, m.pending[i].kind = "resync" PROVE Resyncs(n)
      BY <2>9 DEF Resyncs
    <3>1. i = k \/ i > k
      BY <2>2, <2>11
    <3> QED  BY <3>1, <2>4, <2>5, <2>9, <2>13 DEF Resyncs
  <2>15. ASSUME NEW p \in Prompts, Carries(m, b, p) PROVE Carries(n, b, p)
    <3>1. PICK i \in DOMAIN m.pending :
            /\ AsksFor(m.pending[i], b, p)
            /\ \A j \in DOMAIN m.pending : j > i => m.pending[j].kind # "snapshot"
      BY <2>9, <2>15 DEF Carries
    <3>2. i = k \/ i > k
      BY <2>2, <2>10, <3>1 DEF AsksFor
    <3>3. CASE i = k
      <4>1. \A j \in DOMAIN rest : rest[j].kind # "snapshot"
        BY <2>2, <2>3, <3>1, <3>3
      <4> QED  BY <3>1, <3>3, <4>1, <2>4, <2>5, <2>9 DEF Carries
    <3>4. CASE i > k
      <4>1. \A j \in DOMAIN rest : j > i - k => rest[j].kind # "snapshot"
        BY <2>2, <2>3, <3>1, <3>4
      <4> QED  BY <3>1, <3>4, <4>1, <2>5, <2>13 DEF Carries
    <3> QED  BY <3>2, <3>3, <3>4
  <2> QED  BY <2>6, <2>7, <2>8, <2>12, <2>14, <2>15 DEF Keeps, n
<1> QED  BY <1>1, <1>2, <1>3, <1>m, PumpCases

\* Losing nothing that had to be delivered, twice in a row.
LEMMA KeepsTrans ==
  ASSUME NEW m, NEW n, NEW o, NEW b, Keeps(m, n, b), Keeps(n, o, b)
  PROVE  Keeps(m, o, b)
BY DEF Keeps

\* The request for a recovery is never outdated.
LEMMA ResyncIsMessage == Resync \in Messages /\ Plain(Resync) /\ Resync.kind = "resync"
BY DEF Resync, Entry, Messages, Plain, States, Requests

\* An entry that is put at the end is carried; nothing else is lost unless a
\* recovery is asked for.
LEMMA EnqueueKeeps ==
  ASSUME NEW m, MailboxOK(m), NEW b \in Nat, NEW e \in Messages,
         \A h \in Held(m) \cup {e} : Plain(h)
  PROVE  /\ MailboxOK(Enqueue(m, e, b))
         /\ Held(Enqueue(m, e, b)) \subseteq Held(m) \cup {e, Resync}
         /\ \A w : Matched(m, w) => Matched(Enqueue(m, e, b), w)
         /\ e.kind # "snapshot" => Keeps(m, Enqueue(m, e, b), b)
         /\ \A p \in Prompts : AsksFor(e, b, p) =>
              Carries(Enqueue(m, e, b), b, p) \/ Resyncs(Enqueue(m, e, b))
<1>m. m \in Mailboxes /\ m.pending \in Seq(Messages) /\ Len(m.pending) \in Nat
  BY DEF MailboxOK, Mailboxes
<1>1. CASE Len(m.pending) < MaxPending
  <2> DEFINE q == Append(m.pending, e)
             n == [m EXCEPT !.pending = q]
  <2>1. /\ q \in Seq(Messages) /\ Len(q) = Len(m.pending) + 1
        /\ DOMAIN q = 1..(Len(m.pending) + 1) /\ DOMAIN m.pending = 1..Len(m.pending)
        /\ \A i \in DOMAIN m.pending : i \in DOMAIN q /\ q[i] = m.pending[i]
        /\ q[Len(m.pending) + 1] = e
    BY <1>m
  <2> HIDE DEF q
  <2>2. /\ n \in Mailboxes /\ n.pending = q /\ n.active = m.active
        /\ Enqueue(m, e, b) = Pump(n, b)
    BY <1>m, <1>1, <2>1 DEF Mailboxes, Enqueue, q
  <2> HIDE DEF n
  <2>3. \A i \in DOMAIN q : i = Len(m.pending) + 1 \/ i \in DOMAIN m.pending
    BY <1>m, <2>1
  <2>4. MailboxOK(n)
    BY <1>m, <1>1, <2>1, <2>2, DeliveryAssumption DEF MailboxOK
  <2>5. Held(n) \subseteq Held(m) \cup {e}
    <3>1. \A i \in DOMAIN q : q[i] \in Held(m) \cup {e}
      BY <2>1, <2>3 DEF Held
    <3> QED  BY <2>2, <3>1 DEF Held
  <2>6. \A w : Matched(m, w) => Matched(n, w)
    BY <2>2 DEF Matched
  <2>7. Scheduled(n) <=> Scheduled(m)
    BY <2>2 DEF Scheduled
  <2>8. ASSUME e.kind # "snapshot" PROVE Keeps(m, n, b)
    <3>1. \A i \in DOMAIN q : q[i].kind = "snapshot" => i \in DOMAIN m.pending
      BY <2>1, <2>3, <2>8
    <3>2. Bare(m) => Bare(n)
      BY <2>1, <2>2, <2>7, <3>1 DEF Bare
    <3>3. Resyncs(m) => Resyncs(n)
      BY <2>1, <2>2, <2>7 DEF Resyncs
    <3>4. \A p \in Prompts : Carries(m, b, p) => Carries(n, b, p)
      BY <2>1, <2>2, <2>7, <3>1 DEF Carries
    <3> QED  BY <3>2, <3>3, <3>4 DEF Keeps
  <2>9. \A p \in Prompts : AsksFor(e, b, p) => Carries(n, b, p)
    <3>1. Len(m.pending) + 1 \in DOMAIN q /\ \A j \in DOMAIN q : ~(j > Len(m.pending) + 1)
      BY <1>m, <2>1
    <3> QED  BY <2>1, <2>2, <3>1 DEF Carries
  <2>10. /\ MailboxOK(Pump(n, b))
         /\ Held(Pump(n, b)) \subseteq Held(n)
         /\ \A w : Matched(n, w) => Matched(Pump(n, b), w)
         /\ Keeps(n, Pump(n, b), b)
    BY <2>4, <2>5, PumpKeeps
  <2>11. e.kind # "snapshot" => Keeps(m, Pump(n, b), b)
    BY <2>8, <2>10, KeepsTrans
  <2> QED  BY <2>2, <2>5, <2>6, <2>9, <2>10, <2>11 DEF Keeps
<1>2. CASE ~(Len(m.pending) < MaxPending)
  <2> DEFINE n == [m EXCEPT !.pending = <<Resync>>]
  <2>1. /\ <<Resync>> \in Seq(Messages) /\ Len(<<Resync>>) = 1 /\ DOMAIN <<Resync>> = {1}
        /\ <<Resync>>[1] = Resync
    BY ResyncIsMessage
  <2>2. /\ n \in Mailboxes /\ n.pending = <<Resync>> /\ n.active = m.active
        /\ Enqueue(m, e, b) = Pump(n, b)
    BY <1>m, <1>2, <2>1 DEF Mailboxes, Enqueue
  <2> HIDE DEF n
  <2>3. MailboxOK(n)
    BY <2>1, <2>2, DeliveryAssumption DEF MailboxOK
  <2>4. Held(n) \subseteq Held(m) \cup {Resync}
    BY <2>1, <2>2 DEF Held
  <2>5. \A w : Matched(m, w) => Matched(n, w)
    BY <2>2 DEF Matched
  <2>6. Resyncs(n) /\ (Bare(m) => Bare(n))
    BY <2>1, <2>2, ResyncIsMessage DEF Resyncs, Bare, Scheduled
  <2>7. Keeps(m, n, b)
    BY <2>6 DEF Keeps
  <2>8. /\ MailboxOK(Pump(n, b))
        /\ Held(Pump(n, b)) \subseteq Held(n)
        /\ \A w : Matched(n, w) => Matched(Pump(n, b), w)
        /\ Keeps(n, Pump(n, b), b)
    BY <2>3, <2>4, ResyncIsMessage, PumpKeeps
  <2>9. Keeps(m, Pump(n, b), b)
    BY <2>7, <2>8, KeepsTrans
  <2>10. Resyncs(Pump(n, b))
    BY <2>6, <2>8 DEF Keeps
  <2> QED  BY <2>2, <2>4, <2>5, <2>8, <2>9, <2>10
<1> QED  BY <1>1, <1>2

\* A frame that is acknowledged makes way for the next one.
LEMMA CompleteKeeps ==
  ASSUME NEW m, MailboxOK(m), NEW b \in Nat, \A h \in Held(m) : Plain(h), m.active # NoFrame
  PROVE  /\ MailboxOK(Complete(m, b))
         /\ Held(Complete(m, b)) \subseteq Held(m)
         /\ \A w : Matched(m, w) => Matched(Complete(m, b), w)
         /\ Keeps(m, Complete(m, b), b)
<1>m. m \in Mailboxes
  BY DEF MailboxOK
<1>1. CASE ~(m.active.phase = "posted" /\ m.active.ack = "taken")
  BY <1>1 DEF Complete, Keeps
<1>2. CASE m.active.phase = "posted" /\ m.active.ack = "taken"
  <2> DEFINE n == [m EXCEPT !.active = NoFrame, !.attempts = 0, !.rest = "none"]
  <2>1. /\ n \in Mailboxes /\ n.pending = m.pending /\ n.active = NoFrame
        /\ Complete(m, b) = Pump(n, b)
    <3>1. 0 \in 0..Retries
      BY DeliveryAssumption
    <3>2. Complete(m, b) = Pump(n, b)
      BY <1>2 DEF Complete
    <3>3. n \in Mailboxes /\ n.pending = m.pending /\ n.active = NoFrame
      BY <1>m, <3>1 DEF Mailboxes
    <3> QED  BY <3>2, <3>3
  <2> HIDE DEF n
  <2>2. Len(m.pending) \in Nat
    BY <1>m DEF Mailboxes
  <2>3. MailboxOK(n)
    BY <2>1, <2>2, DeliveryAssumption DEF MailboxOK
  <2>4. Held(n) \subseteq Held(m)
    BY <2>1 DEF Held
  <2>5. \A w : Matched(m, w) => Matched(n, w)
    BY <1>2 DEF Matched
  <2>6. ~Scheduled(m) /\ ~Scheduled(n)
    BY <1>2, <2>1 DEF Scheduled
  <2>7. Keeps(m, n, b)
    BY <2>1, <2>6 DEF Keeps, Bare, Resyncs, Carries
  <2>8. /\ MailboxOK(Pump(n, b))
        /\ Held(Pump(n, b)) \subseteq Held(n)
        /\ \A w : Matched(n, w) => Matched(Pump(n, b), w)
        /\ Keeps(n, Pump(n, b), b)
    BY <2>3, <2>4, PumpKeeps
  <2> QED  BY <2>1, <2>4, <2>5, <2>7, <2>8, KeepsTrans
<1> QED  BY <1>1, <1>2

\* An entry that could not be posted is the first to be tried again.
LEMMA FailedKeeps ==
  ASSUME NEW m, MailboxOK(m), NEW b \in Nat, \A h \in Held(m) : Plain(h), Scheduled(m),
         NEW h0, \A h \in Held(m) : Truthful(h, h0)
  PROVE  /\ MailboxOK(Failed(m))
         /\ \A h \in Held(Failed(m)) : Truthful(h, h0)
         /\ \A w : Matched(m, w) => Matched(Failed(m), w)
         /\ Keeps(m, Failed(m), b)
<1>m. /\ m \in Mailboxes /\ m.active \in Frames /\ m.active # NoFrame
      /\ m.pending \in Seq(Messages) /\ Len(m.pending) \in Nat /\ Len(m.pending) <= MaxPending
      /\ DOMAIN m.pending = 1..Len(m.pending)
  BY DEF MailboxOK, Mailboxes, Scheduled
<1> DEFINE e == [m.active.entry EXCEPT !.awaited = "nobody"]
           q == <<e>> \o m.pending
           n == Failed(m)
<1>1. /\ e \in Messages /\ e.kind = m.active.entry.kind /\ e.of = m.active.entry.of
      /\ e.prompt = m.active.entry.prompt /\ e.fenced = m.active.entry.fenced
  BY <1>m DEF Frames, Messages
<1> HIDE DEF e
<1>2. /\ q \in Seq(Messages) /\ Len(q) = Len(m.pending) + 1 /\ DOMAIN q = 1..(Len(m.pending) + 1)
      /\ q[1] = e /\ \A i \in 1..Len(m.pending) : i + 1 \in DOMAIN q /\ q[i + 1] = m.pending[i]
      /\ \A i \in DOMAIN q : i = 1 \/ (i - 1 \in DOMAIN m.pending /\ q[i] = m.pending[i - 1])
  BY <1>1, <1>m
<1> HIDE DEF q
<1>3. /\ n.pending = q /\ n.active = NoFrame /\ n.attempts \in 0..Retries /\ n.timer \in BOOLEAN
      /\ n.rest \in {"none", "pause", "over"} /\ n \in Mailboxes
  <2>1. m.attempts \in 0..Retries /\ m.rest \in {"none", "pause", "over"}
    BY <1>m DEF Mailboxes
  <2> DEFINE a == IF m.attempts < Retries THEN m.attempts + 1 ELSE 0
             t == m.attempts < Retries
             x == IF m.attempts < Retries THEN m.rest ELSE "pause"
  <2>2. a \in 0..Retries /\ t \in BOOLEAN /\ x \in {"none", "pause", "over"}
    BY <2>1, DeliveryAssumption
  <2>3. n = [m EXCEPT !.pending = q, !.active = NoFrame, !.attempts = a, !.timer = t, !.rest = x]
    BY DEF Failed, q, e
  <2> HIDE DEF a, t, x, n
  <2> QED  BY <1>m, <1>2, <2>2, <2>3 DEF Mailboxes
<1> HIDE DEF n
<1>4. MailboxOK(n)
  BY <1>m, <1>2, <1>3, DeliveryAssumption DEF MailboxOK
<1>5. \A h \in Held(n) : Truthful(h, h0)
  <2>1. Truthful(e, h0)
    <3>1. m.active.entry \in Held(m)
      BY <1>m DEF Held
    <3> QED  BY <1>1, <3>1 DEF Truthful
  <2>2. \A i \in DOMAIN q : q[i] = e \/ q[i] \in Held(m)
    BY <1>2 DEF Held
  <2>3. \A h \in Held(n) : h = e \/ h \in Held(m)
    BY <1>3, <2>2 DEF Held
  <2> QED  BY <2>1, <2>3
<1>6. \A w : Matched(m, w) => Matched(n, w)
  BY DEF Matched, Scheduled
<1>7. ~Scheduled(n)
  BY <1>3 DEF Scheduled
<1>8. Bare(m) => Bare(n)
  BY <1>1, <1>2, <1>3, <1>7 DEF Bare
<1>9. Resyncs(m) => Resyncs(n)
  <2>1. ASSUME m.active.entry.kind = "resync" PROVE Resyncs(n)
    BY <2>1, <1>1, <1>2, <1>3, <1>m DEF Resyncs
  <2>2. ASSUME NEW i \in DOMAIN m.pending, m.pending[i].kind = "resync" PROVE Resyncs(n)
    BY <2>2, <1>2, <1>3, <1>m DEF Resyncs
  <2> QED  BY <2>1, <2>2 DEF Resyncs
<1>10. ASSUME NEW p \in Prompts, Carries(m, b, p) PROVE Carries(n, b, p)
  <2>1. CASE /\ AsksFor(m.active.entry, b, p)
             /\ \A j \in DOMAIN m.pending : m.pending[j].kind # "snapshot"
    <3>1. AsksFor(q[1], b, p) /\ 1 \in DOMAIN q
      BY <2>1, <1>1, <1>2, <1>m DEF AsksFor
    <3>2. \A j \in DOMAIN q : j > 1 => q[j].kind # "snapshot"
      BY <2>1, <1>2
    <3> QED  BY <3>1, <3>2, <1>3 DEF Carries
  <2>2. ASSUME NEW i \in DOMAIN m.pending, AsksFor(m.pending[i], b, p),
               \A j \in DOMAIN m.pending : j > i => m.pending[j].kind # "snapshot"
        PROVE  Carries(n, b, p)
    <3>1. i + 1 \in DOMAIN q /\ AsksFor(q[i + 1], b, p)
      BY <2>2, <1>2, <1>m
    <3>2. \A j \in DOMAIN q : j > i + 1 => q[j].kind # "snapshot"
      BY <2>2, <1>2, <1>m
    <3> QED  BY <3>1, <3>2, <1>3 DEF Carries
  <2> QED  BY <2>1, <2>2, <1>10 DEF Carries
<1> QED  BY <1>4, <1>5, <1>6, <1>8, <1>9, <1>10 DEF Keeps, n

\* A step of the mailbox that loses nothing leaves an interaction covered.
LEMMA StillCovered ==
  ASSUME NEW m, NEW n, NEW b, NEW w, NEW v, NEW p \in Prompts, Keeps(m, n, b),
         Underway(m, w, b, p) \/ Shown(m, w, v, b, p)
  PROVE  Underway(n, w, b, p) \/ Shown(n, w, v, b, p)
BY DEF Keeps, Underway, Shown

\* What is on the wire is a frame.
LEMMA OnWireTyped ==
  ASSUME NEW w \in Wires, NEW i \in DOMAIN w
  PROVE  w[i] \in [entry : Messages, mine : BOOLEAN]
<1> DEFINE S == [entry : Messages, mine : BOOLEAN]
<1>1. w \in Seq(S)
  BY DEF Wires
<1> HIDE DEF S
<1>2. w[i] \in S
  BY <1>1
<1> QED  BY <1>2 DEF S

\* A reset makes the frames on the wire strangers; they arrive all the same.
LEMMA DisownedSame ==
  ASSUME NEW w \in Wires
  PROVE  /\ Disowned(w) \in Wires
         /\ \A m : Matched(m, Disowned(w))
         /\ OnWire(Disowned(w)) = OnWire(w)
<1> DEFINE n == Disowned(w)
<1>1. /\ DOMAIN n = DOMAIN w /\ DOMAIN w = 1..Len(w) /\ Len(w) \in Nat
      /\ \A i \in DOMAIN w : n[i] = [w[i] EXCEPT !.mine = FALSE]
  BY DEF Disowned, Wires
<1>2. \A i \in DOMAIN w : /\ w[i] \in [entry : Messages, mine : BOOLEAN]
                          /\ n[i] \in [entry : Messages, mine : BOOLEAN]
                          /\ n[i].entry = w[i].entry /\ ~n[i].mine
  <2>1. \A i \in DOMAIN w : w[i] \in [entry : Messages, mine : BOOLEAN]
    BY OnWireTyped
  <2> QED  BY <1>1, <2>1
<1> HIDE DEF n
<1>3. n \in Wires
  <2>1. n = [i \in DOMAIN w |-> [w[i] EXCEPT !.mine = FALSE]]
    BY DEF n, Disowned
  <2>2. n = [i \in 1..Len(w) |-> n[i]]
    BY <1>1, <2>1
  <2>3. \A i \in 1..Len(w) : n[i] \in [entry : Messages, mine : BOOLEAN]
    BY <1>1, <1>2
  <2> QED  BY <1>1, <2>2, <2>3 DEF Wires
<1>4. \A m : Matched(m, n)
  BY <1>1, <1>2 DEF Matched
<1>5. OnWire(n) = OnWire(w)
  BY <1>1, <1>2 DEF OnWire
<1> QED  BY <1>3, <1>4, <1>5 DEF n

\* What is outdated with its backend is something the backend said.
LEMMA TruthIsPlain ==
  ASSUME NEW e, NEW h, Truthful(e, h) PROVE Plain(e)
BY DEF Truthful, Plain

\* What was true of the host stays true while it goes on.
LEMMA StillTruthful ==
  ASSUME NEW h \in Hosts, NEW g \in Hosts, h.live <= g.live,
         \/ h.bound < g.bound
         \/ h.bound = g.bound /\ h.asked \ h.replay \subseteq g.asked \ g.replay,
         NEW e \in Messages, Truthful(e, h)
  PROVE  Truthful(e, g)
<1>1. e.of \in Nat /\ h.live \in Nat /\ g.live \in Nat /\ h.bound \in Nat /\ g.bound \in Nat
  BY DEF Hosts, Messages
<1>2. e.kind = "asks" => e.of \in 1..g.live /\ e.prompt \in Prompts
  BY <1>1 DEF Truthful
<1>3. e.kind = "settled" => e.of \in 1..g.bound /\ (e.of = g.bound => e.prompt \in g.asked \ g.replay)
  BY <1>1 DEF Truthful
<1> QED  BY <1>2, <1>3 DEF Truthful

\* Mailbox and wire hold entries.
LEMMA HeldAreMessages ==
  ASSUME NEW m \in Mailboxes, NEW w \in Wires
  PROVE  Held(m) \cup OnWire(w) \subseteq Messages
<1>1. \A i \in DOMAIN m.pending : m.pending[i] \in Messages
  BY DEF Mailboxes
<1>2. m.active # NoFrame => m.active.entry \in Messages
  BY DEF Mailboxes, Frames
<1>3. Held(m) \subseteq Messages
  BY <1>1, <1>2 DEF Held
<1>4. \A i \in DOMAIN w : w[i].entry \in Messages
  BY OnWireTyped
<1> QED  BY <1>3, <1>4 DEF OnWire

\* reset() leaves an empty mailbox.
LEMMA ForgottenOK == MailboxOK(Forgotten) /\ Held(Forgotten) = {}
<1>1. /\ Forgotten.pending = <<>> /\ Forgotten.active = NoFrame /\ 0 \in 0..Retries
      /\ <<>> \in Seq(Messages)
  BY DeliveryAssumption DEF Forgotten
<1>2. Forgotten \in Mailboxes
  BY <1>1 DEF Mailboxes, Forgotten
<1> QED  BY <1>1, <1>2, DeliveryAssumption DEF MailboxOK, Held

\* EnqueueKeeps for a surface that may not be ready.
LEMMA PostedKeeps ==
  ASSUME NEW m, MailboxOK(m), NEW b \in Nat, NEW e \in Messages,
         \A h \in Held(m) \cup {e} : Plain(h)
  PROVE  /\ MailboxOK(Posted(m, e, b))
         /\ Held(Posted(m, e, b)) \subseteq Held(m) \cup {e, Resync}
         /\ \A w : Matched(m, w) => Matched(Posted(m, e, b), w)
         /\ e.kind # "snapshot" => Keeps(m, Posted(m, e, b), b)
         /\ view.listening =>
              \A p \in Prompts : AsksFor(e, b, p) =>
                Carries(Posted(m, e, b), b, p) \/ Resyncs(Posted(m, e, b))
<1>1. CASE view.listening
  BY <1>1, EnqueueKeeps DEF Posted
<1>2. CASE ~view.listening
  BY <1>2 DEF Posted, Keeps
<1> QED  BY <1>1, <1>2

\* A snapshot is never outdated.
LEMMA SnapshotIsMessage ==
  ASSUME NEW h \in Hosts, NEW a \in Requests \cup {"nobody"}
  PROVE  Snapshot(h, a) \in Messages /\ \A g : Truthful(Snapshot(h, a), g)
<1>1. h.state \in States /\ h.live \in Nat
  BY DEF Hosts
<1> QED  BY <1>1 DEF Snapshot, Entry, Messages, Truthful

\* A request for a recovery says nothing of the host.
LEMMA ResyncIsTruthful == \A g : Truthful(Resync, g)
BY DEF Resync, Entry, Truthful

-----------------------------------------------------------------------------
(* The steps. *)

\* What the Webview shows and what a request lists stay of known backends.
LEMMA ViewStays ==
  ASSUME ViewOK, UNCHANGED <<view, ready>>, host.live \in Nat, host'.live \in Nat,
         host.live <= host'.live
  PROVE  ViewOK'
<1>1. (1..host.live) \X Prompts \subseteq (1..host'.live) \X Prompts
  <2>1. 1..host.live \subseteq 1..host'.live
    OBVIOUS
  <2> QED  BY <2>1
<1>2. SUBSET ((1..host.live) \X Prompts) \subseteq SUBSET ((1..host'.live) \X Prompts)
  BY <1>1
<1> DEFINE A == SUBSET ((1..host.live) \X Prompts)
           B == SUBSET ((1..host'.live) \X Prompts)
<1>3. /\ view \in [listening : BOOLEAN, state : States, of : Nat, prompts : A, rerun : BOOLEAN]
      /\ ready \in [Requests -> [phase : Phases, list : A]] /\ A \subseteq B
  BY <1>2 DEF ViewOK
<1> HIDE DEF A, B
<1>4. /\ view \in [listening : BOOLEAN, state : States, of : Nat, prompts : B, rerun : BOOLEAN]
      /\ ready \in [Requests -> [phase : Phases, list : B]]
  BY <1>3
<1> QED  BY <1>4 DEF ViewOK, B

\* A change of the connection leaves no backend that is served and has asked.
LEMMA PublishStep ==
  ASSUME DeliveryInv, NEW h \in Hosts, host.live <= h.live,
         \/ host.bound < h.bound
         \/ host.bound = h.bound /\ host.asked \ host.replay \subseteq h.asked \ h.replay,
         h.state = "connected" /\ h.bound = h.live => h.replay = {},
         Publish(h, mailbox, wire)
  PROVE  DeliveryInv'
<1> DEFINE kept == h.state = "connected"
           m == IF kept THEN mailbox ELSE Forgotten
           e == Snapshot(h, "nobody")
<1>1. /\ host' = IF kept THEN h ELSE [h EXCEPT !.source = 0]
      /\ mailbox' = Posted(m, e, h.bound)
      /\ wire' = IF kept THEN wire ELSE Disowned(wire)
      /\ UNCHANGED <<view, ready>>
  BY DEF Publish
<1>2. /\ host' \in Hosts /\ host'.live = h.live /\ host'.bound = h.bound /\ host'.state = h.state
      /\ host'.replay = h.replay /\ host'.asked = h.asked /\ h.bound \in Nat
  BY <1>1 DEF Hosts
<1>3. ~(Serving' /\ host'.replay # {})
  BY <1>2 DEF Serving
<1>4. HostOK'
  BY <1>2, <1>3 DEF HostOK
<1>5. ViewOK'
  <2>1. host.live \in Nat /\ host'.live \in Nat
    BY <1>2 DEF DeliveryInv, HostOK, Hosts
  <2> QED  BY <1>1, <1>2, <2>1, ViewStays DEF DeliveryInv
<1>6. FramesOK'
  <2>1. /\ wire \in Wires /\ MailboxOK(mailbox) /\ Matched(mailbox, wire) /\ mailbox \in Mailboxes
        /\ \A x \in Held(mailbox) \cup OnWire(wire) : Truthful(x, host) /\ x \in Messages
    BY HeldAreMessages DEF DeliveryInv, FramesOK, MailboxOK
  <2>2. /\ wire' \in Wires /\ Matched(m, wire') /\ OnWire(wire') = OnWire(wire)
        /\ MailboxOK(m) /\ Held(m) \subseteq Held(mailbox)
    BY <1>1, <2>1, DisownedSame, ForgottenOK
  <2>3. \A x \in Held(mailbox) \cup OnWire(wire) : Truthful(x, host')
    BY <2>1, <1>2, StillTruthful DEF DeliveryInv, HostOK
  <2>4. e \in Messages /\ Truthful(e, host') /\ Truthful(Resync, host') /\ Plain(e)
    BY SnapshotIsMessage, ResyncIsTruthful, TruthIsPlain
  <2>5. \A x \in Held(m) \cup {e} : Plain(x)
    BY <2>1, <2>2, <2>4, TruthIsPlain
  <2> HIDE DEF m, e
  <2>6. /\ MailboxOK(mailbox') /\ Held(mailbox') \subseteq Held(m) \cup {e, Resync}
        /\ Matched(mailbox', wire')
    BY <1>1, <1>2, <2>2, <2>4, <2>5, PostedKeeps
  <2> QED  BY <2>2, <2>3, <2>4, <2>6 DEF FramesOK
<1>7. NothingLost'
  BY <1>3 DEF NothingLost
<1> QED  BY <1>4, <1>5, <1>6, <1>7 DEF DeliveryInv

\* The steps of the connection are of that kind.
LEMMA ConnectStep ==
  ASSUME DeliveryInv, Connect \/ ConnectFails \/ Connected \/ AttachBackend
                      \/ Disconnect \/ Disconnected
  PROVE  DeliveryInv'
<1>1. host \in Hosts /\ host.live \in Nat /\ host.bound \in Nat /\ host.bound <= host.live
  BY DEF DeliveryInv, HostOK, Hosts
<1>2. ASSUME NEW s \in States \ {"connected"}, Publish([host EXCEPT !.state = s], mailbox, wire)
      PROVE  DeliveryInv'
  <2> DEFINE h == [host EXCEPT !.state = s]
  <2>1. /\ h \in Hosts /\ h.live = host.live /\ h.bound = host.bound /\ h.asked = host.asked
        /\ h.replay = host.replay /\ h.state = s
    BY <1>1 DEF Hosts
  <2>2. Publish(h, mailbox, wire) /\ s # "connected"
    BY <1>2
  <2> HIDE DEF h
  <2> QED  BY <1>1, <2>1, <2>2, PublishStep
<1>3. CASE Connect \/ ConnectFails \/ Disconnect \/ Disconnected
  <2>1. {"starting", "idle", "stopping"} \subseteq States \ {"connected"}
    BY DEF States
  <2> QED  BY <1>2, <1>3, <2>1 DEF Connect, ConnectFails, Disconnect, Disconnected
<1>4. CASE Connected
  <2> DEFINE h == [host EXCEPT !.state = "connected", !.live = @ + 1]
  <2>1. /\ h \in Hosts /\ h.live = host.live + 1 /\ h.bound = host.bound /\ h.asked = host.asked
        /\ h.replay = host.replay
    <3>1. host.live + 1 \in Nat /\ host.bound <= host.live + 1 /\ "connected" \in States
      BY <1>1 DEF States
    <3> QED  BY <1>1, <3>1 DEF Hosts
  <2>2. Publish(h, mailbox, wire)
    BY <1>4 DEF Connected
  <2> HIDE DEF h
  <2> QED  BY <1>1, <2>1, <2>2, PublishStep
<1>5. CASE AttachBackend
  <2> DEFINE h == [host EXCEPT !.bound = host.live, !.asked = {}, !.replay = {}]
  <2>1. h \in Hosts /\ h.live = host.live /\ h.bound = host.live /\ h.replay = {}
    <3>1. {} \in SUBSET Prompts /\ host.live <= host.live
      BY <1>1
    <3> QED  BY <1>1, <3>1 DEF Hosts
  <2>2. Publish(h, mailbox, wire) /\ host.bound # host.live
    BY <1>5 DEF AttachBackend
  <2> HIDE DEF h
  <2> QED  BY <1>1, <2>1, <2>2, PublishStep
<1> QED  BY <1>3, <1>4, <1>5

\* The first event of a backend empties the mailbox, which can hold nothing that
\* backend has asked.  Every event is put behind what is there.
LEMMA SpeakStep ==
  ASSUME DeliveryInv, NEW h \in Hosts, NEW e \in Messages, e.kind # "snapshot",
         h.state = host.state, h.live = host.live, h.bound = host.bound, h.source = host.source,
         host.asked \ host.replay \subseteq h.asked \ h.replay,
         \A p \in h.replay \ host.replay : AsksFor(e, host.bound, p),
         Truthful(e, h), BackendEvent(h, e)
  PROVE  DeliveryInv'
<1> DEFINE first == h.source # h.bound
           m == IF first THEN Forgotten ELSE mailbox
<1>1. /\ host' = [h EXCEPT !.source = h.bound]
      /\ mailbox' = Posted(m, e, h.bound)
      /\ wire' = IF first THEN Disowned(wire) ELSE wire
      /\ UNCHANGED <<view, ready>>
  BY DEF BackendEvent
<1>2. /\ host' \in Hosts /\ host'.live = h.live /\ host'.bound = h.bound /\ host'.state = h.state
      /\ host'.replay = h.replay /\ host'.asked = h.asked /\ h.bound \in Nat /\ h.live \in Nat
      /\ host'.source = h.bound
  BY <1>1 DEF Hosts
<1>3. HostOK'
  BY <1>2 DEF HostOK
<1>4. ViewOK'
  <2>1. host.live <= host'.live
    BY <1>2
  <2> QED  BY <1>1, <1>2, <2>1, ViewStays DEF DeliveryInv
<1>5. /\ wire \in Wires /\ MailboxOK(mailbox) /\ Matched(mailbox, wire) /\ mailbox \in Mailboxes
      /\ \A x \in Held(mailbox) \cup OnWire(wire) : Truthful(x, host) /\ x \in Messages
  BY HeldAreMessages DEF DeliveryInv, FramesOK, MailboxOK
<1>6. /\ wire' \in Wires /\ Matched(m, wire') /\ OnWire(wire') = OnWire(wire)
      /\ MailboxOK(m) /\ Held(m) \subseteq Held(mailbox)
  BY <1>1, <1>5, DisownedSame, ForgottenOK
<1>7. \A x \in Held(mailbox) \cup OnWire(wire) : Truthful(x, host')
  BY <1>5, <1>2, StillTruthful DEF DeliveryInv, HostOK
<1>8. Truthful(e, host') /\ Truthful(Resync, host') /\ Plain(e)
  BY <1>2, ResyncIsTruthful, TruthIsPlain DEF Truthful
<1>9. \A x \in Held(m) \cup {e} : Plain(x)
  BY <1>5, <1>6, <1>8, TruthIsPlain
<1>10. /\ MailboxOK(mailbox') /\ Held(mailbox') \subseteq Held(m) \cup {e, Resync}
       /\ Matched(mailbox', wire')
       /\ Keeps(m, mailbox', h.bound)
       /\ view.listening => \A p \in Prompts : AsksFor(e, h.bound, p) =>
            Carries(mailbox', h.bound, p) \/ Resyncs(mailbox')
  <2> HIDE DEF m
  <2> QED  BY <1>1, <1>2, <1>6, <1>9, PostedKeeps
<1>11. FramesOK'
  <2> HIDE DEF m
  <2> QED  BY <1>6, <1>7, <1>8, <1>10 DEF FramesOK
<1>12. NothingLost'
  <2> SUFFICES ASSUME Serving', NEW p \in host'.replay PROVE Covered(host.bound, p)'
    BY <1>2 DEF NothingLost
  <2>1. p \in Prompts /\ host'.bound = host.bound /\ Serving
    BY <1>2 DEF Serving, Hosts
  <2>2. CASE p \in host.replay
    <3>1. Covered(host.bound, p) /\ host.source = host.bound
      BY <2>1, <2>2 DEF DeliveryInv, NothingLost, HostOK
    <3>2. ~first
      BY <3>1
    <3>3. Keeps(mailbox, mailbox', host.bound) /\ wire' = wire
      BY <1>1, <1>10, <3>2
    <3>4. CASE Recovering(ready, view, host.bound, p)
      BY <3>4, <1>1, <2>1 DEF Covered, Recovering
    <3>5. CASE Underway(mailbox, wire, host.bound, p) \/ Shown(mailbox, wire, view, host.bound, p)
      <4>1. \/ Underway(mailbox', wire, host.bound, p)
            \/ Shown(mailbox', wire, view, host.bound, p)
        BY <2>1, <3>3, <3>5, StillCovered
      <4> QED  BY <4>1, <3>3, <1>1, <2>1 DEF Covered
    <3> QED  BY <3>1, <3>4, <3>5 DEF Covered
  <2>3. CASE p \notin host.replay
    <3>1. AsksFor(e, host.bound, p)
      BY <1>2, <2>3
    <3>2. CASE view.listening
      <4>1. Carries(mailbox', host.bound, p) \/ Resyncs(mailbox')
        BY <1>10, <2>1, <3>1, <3>2
      <4> QED  BY <4>1, <2>1 DEF Covered, Underway
    <3>3. CASE ~view.listening
      <4>1. ready["full"].phase = "asked"
        BY <3>3 DEF DeliveryInv, ViewOK
      <4>2. ready'["full"].phase = "asked" /\ "full" \in Requests
        BY <4>1, <1>1 DEF Requests
      <4> QED  BY <4>2 DEF Covered, Recovering
    <3> QED  BY <3>2, <3>3
  <2> QED  BY <2>2, <2>3
<1> QED  BY <1>3, <1>4, <1>11, <1>12 DEF DeliveryInv

\* An interaction is asked, or settled.
LEMMA AskStep ==
  ASSUME DeliveryInv, NEW p \in Prompts, HostAsks(p) \/ HostSettles(p)
  PROVE  DeliveryInv'
<1>1. /\ host \in Hosts /\ host.bound \in Nat /\ host.live \in Nat /\ host.bound <= host.live
      /\ host.replay \subseteq host.asked /\ host.asked \subseteq Prompts
  BY DEF DeliveryInv, HostOK, Hosts
<1>2. CASE HostAsks(p)
  <2> DEFINE h == [host EXCEPT !.asked = @ \cup {p}, !.replay = @ \cup {p}]
             e == Asks(host.bound, p, TRUE, "nobody")
  <2>1. /\ h \in Hosts /\ h.state = host.state /\ h.live = host.live /\ h.bound = host.bound
        /\ h.source = host.source /\ h.asked = host.asked \cup {p}
        /\ h.replay = host.replay \cup {p}
    <3>1. host.bound # 0
      BY <1>2 DEF HostAsks, BackendEvent, Speaks
    <3>2. host.asked \cup {p} \in SUBSET Prompts /\ host.replay \cup {p} \in SUBSET Prompts
      BY <1>1
    <3> QED  BY <1>1, <3>1, <3>2 DEF Hosts
  <2>2. /\ e \in Messages /\ e.kind = "asks" /\ e.of = host.bound /\ e.prompt = p
    BY <1>1 DEF Asks, Entry, Messages, States, Requests
  <2>3. p \notin host.asked /\ BackendEvent(h, e)
    BY <1>2 DEF HostAsks
  <2>4. host.bound # 0
    BY <2>3, <2>1 DEF BackendEvent, Speaks
  <2> HIDE DEF h, e
  <2>5. Truthful(e, h) /\ AsksFor(e, host.bound, p)
    BY <1>1, <2>1, <2>2, <2>4 DEF Truthful, AsksFor
  <2>6. host.asked \ host.replay \subseteq h.asked \ h.replay /\ h.replay \ host.replay \subseteq {p}
    BY <2>1, <2>3
  <2> QED  BY <2>1, <2>2, <2>3, <2>5, <2>6, SpeakStep
<1>3. CASE HostSettles(p)
  <2> DEFINE h == [host EXCEPT !.replay = @ \ {p}]
             e == Settled(host.bound, p)
  <2>1. /\ h \in Hosts /\ h.state = host.state /\ h.live = host.live /\ h.bound = host.bound
        /\ h.source = host.source /\ h.asked = host.asked /\ h.replay = host.replay \ {p}
    BY <1>1 DEF Hosts
  <2>2. /\ e \in Messages /\ e.kind = "settled" /\ e.of = host.bound /\ e.prompt = p
    BY <1>1 DEF Settled, Entry, Messages, States, Requests
  <2>3. p \in host.replay /\ BackendEvent(h, e)
    BY <1>3 DEF HostSettles
  <2>4. host.bound # 0
    BY <2>3, <2>1 DEF BackendEvent, Speaks
  <2> HIDE DEF h, e
  <2>5. Truthful(e, h)
    BY <1>1, <2>1, <2>2, <2>3, <2>4 DEF Truthful
  <2>6. host.asked \ host.replay \subseteq h.asked \ h.replay /\ h.replay \ host.replay = {}
    BY <2>1, <2>3
  <2> QED  BY <2>1, <2>2, <2>3, <2>5, <2>6, SpeakStep
<1> QED  BY <1>2, <1>3

\* A step of the mailbox alone.
LEMMA MailboxStep ==
  ASSUME DeliveryInv, UNCHANGED <<host, wire, view, ready>>,
         MailboxOK(mailbox'), \A e \in Held(mailbox') : Truthful(e, host),
         Matched(mailbox', wire), Keeps(mailbox, mailbox', host.bound)
  PROVE  DeliveryInv'
<1>1. HostOK' /\ ViewOK'
  BY DEF DeliveryInv, HostOK, ViewOK, Serving
<1>2. FramesOK'
  BY DEF DeliveryInv, FramesOK
<1>3. NothingLost'
  <2> SUFFICES ASSUME Serving, NEW p \in host.replay PROVE Covered(host.bound, p)'
    BY DEF NothingLost, Serving
  <2>1. Covered(host.bound, p) /\ p \in Prompts
    BY DEF DeliveryInv, NothingLost, HostOK, Hosts
  <2>2. CASE Recovering(ready, view, host.bound, p)
    BY <2>2 DEF Covered
  <2>3. CASE Underway(mailbox, wire, host.bound, p) \/ Shown(mailbox, wire, view, host.bound, p)
    <3>1. Underway(mailbox', wire, host.bound, p) \/ Shown(mailbox', wire, view, host.bound, p)
      BY <2>1, <2>3, StillCovered
    <3> QED  BY <3>1 DEF Covered
  <2> QED  BY <2>1, <2>2, <2>3 DEF Covered
<1> QED  BY <1>1, <1>2, <1>3 DEF DeliveryInv

\* What the steps of the mailbox need of the invariant.
LEMMA MailboxFacts ==
  ASSUME DeliveryInv
  PROVE  /\ MailboxOK(mailbox) /\ mailbox \in Mailboxes /\ wire \in Wires
         /\ Matched(mailbox, wire) /\ host.bound \in Nat
         /\ \A e \in Held(mailbox) : Truthful(e, host) /\ Plain(e)
         /\ mailbox.active # NoFrame =>
              mailbox.active \in Frames /\ mailbox.active.entry \in Held(mailbox)
BY TruthIsPlain DEF DeliveryInv, FramesOK, HostOK, Hosts, MailboxOK, Mailboxes, Held

\* The end of a post and the acknowledgement; the frame goes when both have come.
LEMMA AckStep ==
  ASSUME DeliveryInv, PostSucceeds \/ AckArrives
  PROVE  DeliveryInv'
<1> USE MailboxFacts
<1> DEFINE m == IF PostSucceeds THEN [mailbox EXCEPT !.active.phase = "posted"]
                ELSE [mailbox EXCEPT !.active.ack = "taken"]
<1>1. /\ mailbox.active # NoFrame /\ mailbox' = Complete(m, host.bound)
      /\ UNCHANGED <<host, wire, view, ready>>
      /\ ~PostSucceeds => mailbox.active.ack = "sent"
      /\ PostSucceeds => mailbox.active.phase = "posting"
  BY DEF PostSucceeds, AckArrives
<1>2. /\ m \in Mailboxes /\ m.pending = mailbox.pending /\ m.active \in Frames
      /\ m.active.entry = mailbox.active.entry /\ m.active.phase # "scheduled"
      /\ m.active # NoFrame /\ mailbox.active.phase # "scheduled"
      /\ m.active.ack = "none" \/ mailbox.active.ack # "none"
      /\ PostSucceeds => m.active.ack = mailbox.active.ack
  <2>1. CASE PostSucceeds
    <3>1. m = [mailbox EXCEPT !.active.phase = "posted"]
      BY <2>1
    <3> HIDE DEF m
    <3>2. [mailbox.active EXCEPT !.phase = "posted"] \in Frames
      BY <1>1 DEF Frames
    <3> QED  BY <1>1, <2>1, <3>1, <3>2, NoFrameAssumption DEF Mailboxes, Frames
  <2>2. CASE ~PostSucceeds
    <3>1. m = [mailbox EXCEPT !.active.ack = "taken"]
      BY <2>2
    <3> HIDE DEF m
    <3>2. [mailbox.active EXCEPT !.ack = "taken"] \in Frames
      BY <1>1 DEF Frames
    <3>3. mailbox.active.ack = "sent" /\ mailbox.active.phase # "scheduled"
      BY <1>1, <2>2 DEF MailboxOK
    <3> QED  BY <1>1, <2>2, <3>1, <3>2, <3>3, NoFrameAssumption DEF Mailboxes, Frames
  <2> QED  BY <2>1, <2>2
<1> HIDE DEF m
<1>3. MailboxOK(m) /\ Held(m) = Held(mailbox)
  BY <1>1, <1>2 DEF MailboxOK, Held
<1>4. Matched(m, wire)
  BY <1>1, <1>2 DEF Matched
<1>5. Keeps(mailbox, m, host.bound)
  BY <1>1, <1>2 DEF Keeps, Bare, Resyncs, Carries, Scheduled
<1>6. /\ MailboxOK(mailbox') /\ Held(mailbox') \subseteq Held(m)
      /\ Matched(mailbox', wire) /\ Keeps(m, mailbox', host.bound)
  BY <1>1, <1>2, <1>3, <1>4, CompleteKeeps
<1>7. Keeps(mailbox, mailbox', host.bound)
  BY <1>5, <1>6, KeepsTrans
<1> QED  BY <1>1, <1>3, <1>6, <1>7, MailboxStep

\* A failed post and the timers of the retry ladder.
LEMMA RetryStep ==
  ASSUME DeliveryInv, PostFails \/ RetryTimerFires \/ RestEnds
  PROVE  DeliveryInv'
<1> USE MailboxFacts
<1>1. CASE PostFails
  <2>1. Scheduled(mailbox) /\ mailbox' = Failed(mailbox) /\ UNCHANGED <<host, wire, view, ready>>
    BY <1>1 DEF PostFails, Scheduled
  <2>2. /\ MailboxOK(mailbox') /\ \A e \in Held(mailbox') : Truthful(e, host)
        /\ Matched(mailbox', wire) /\ Keeps(mailbox, mailbox', host.bound)
    BY <2>1, FailedKeeps
  <2> QED  BY <2>1, <2>2, MailboxStep
<1>2. CASE RetryTimerFires
  <2> DEFINE m == [mailbox EXCEPT !.timer = FALSE]
  <2>1. /\ mailbox' = Pump(m, host.bound) /\ UNCHANGED <<host, wire, view, ready>>
        /\ m \in Mailboxes /\ m.pending = mailbox.pending /\ m.active = mailbox.active
    BY <1>2 DEF RetryTimerFires, Mailboxes
  <2> HIDE DEF m
  <2>2. /\ MailboxOK(m) /\ Held(m) = Held(mailbox) /\ Matched(m, wire)
        /\ Keeps(mailbox, m, host.bound)
    BY <2>1 DEF MailboxOK, Held, Matched, Keeps, Bare, Resyncs, Carries, Scheduled
  <2>3. /\ MailboxOK(mailbox') /\ Held(mailbox') \subseteq Held(m)
        /\ Matched(mailbox', wire) /\ Keeps(m, mailbox', host.bound)
    BY <2>1, <2>2, PumpKeeps
  <2>4. Keeps(mailbox, mailbox', host.bound)
    BY <2>2, <2>3, KeepsTrans
  <2> QED  BY <2>1, <2>2, <2>3, <2>4, MailboxStep
<1>3. CASE RestEnds
  <2> DEFINE m == [mailbox EXCEPT !.rest = "over"]
  <2>1. /\ mailbox' = m /\ UNCHANGED <<host, wire, view, ready>>
        /\ m \in Mailboxes /\ m.pending = mailbox.pending /\ m.active = mailbox.active
    BY <1>3 DEF RestEnds, Mailboxes
  <2> HIDE DEF m
  <2>2. /\ MailboxOK(m) /\ Held(m) = Held(mailbox) /\ Matched(m, wire)
        /\ Keeps(mailbox, m, host.bound)
    BY <2>1 DEF MailboxOK, Held, Matched, Keeps, Bare, Resyncs, Carries, Scheduled
  <2> QED  BY <2>1, <2>2, MailboxStep
<1> QED  BY <1>1, <1>2, <1>3

\* The active frame goes to the wire, which it enters last; an outdated one is dropped.
LEMMA PostStep ==
  ASSUME DeliveryInv, PostFrame
  PROVE  DeliveryInv'
<1> USE MailboxFacts
<1>1. /\ Scheduled(mailbox) /\ mailbox.active # NoFrame /\ mailbox.active.phase = "scheduled"
      /\ UNCHANGED <<host, view, ready>> /\ mailbox.active.ack = "none"
      /\ mailbox.active \in Frames /\ mailbox.active.entry \in Messages
  BY DEF PostFrame, Scheduled, MailboxOK, Frames
<1>2. \A i \in DOMAIN wire : ~wire[i].mine
  BY <1>1 DEF Matched
<1>3. CASE ~Current(mailbox.active.entry, host.bound)
  <2> DEFINE m == [mailbox EXCEPT !.active.phase = "posted", !.active.ack = "taken"]
  <2>1. mailbox' = Complete(m, host.bound) /\ wire' = wire
    BY <1>3 DEF PostFrame
  <2>2. /\ m \in Mailboxes /\ m.pending = mailbox.pending /\ m.active \in Frames
        /\ m.active.entry = mailbox.active.entry /\ m.active.phase = "posted"
        /\ m.active # NoFrame
    <3> DEFINE f == [mailbox.active EXCEPT !.phase = "posted", !.ack = "taken"]
    <3>1. f \in Frames /\ f.entry = mailbox.active.entry /\ f.phase = "posted" /\ f # NoFrame
      BY <1>1, NoFrameAssumption DEF Frames
    <3>2. m = [mailbox EXCEPT !.active = f]
      BY DEF Mailboxes
    <3> HIDE DEF f, m
    <3> QED  BY <3>1, <3>2 DEF Mailboxes
  <2> HIDE DEF m
  <2>3. MailboxOK(m) /\ Held(m) = Held(mailbox) /\ ~Scheduled(m)
    BY <1>1, <2>2 DEF MailboxOK, Held, Scheduled
  <2>4. Matched(m, wire)
    BY <1>2 DEF Matched
  <2>5. /\ mailbox.active.entry.fenced /\ mailbox.active.entry.of # host.bound
        /\ mailbox.active.entry.kind \notin {"resync", "snapshot"}
    BY <1>1, <1>3 DEF Current, Plain
  <2>6. Keeps(mailbox, m, host.bound)
    BY <2>2, <2>3, <2>5 DEF Keeps, Bare, Resyncs, Carries, AsksFor
  <2>7. /\ MailboxOK(mailbox') /\ Held(mailbox') \subseteq Held(m)
        /\ Matched(mailbox', wire) /\ Keeps(m, mailbox', host.bound)
    BY <2>1, <2>2, <2>3, <2>4, CompleteKeeps
  <2>8. Keeps(mailbox, mailbox', host.bound)
    BY <2>6, <2>7, KeepsTrans
  <2> QED  BY <1>1, <2>1, <2>3, <2>7, <2>8, MailboxStep
<1>4. CASE Current(mailbox.active.entry, host.bound)
  <2> DEFINE f == [entry |-> mailbox.active.entry, mine |-> TRUE]
  <2>1. /\ mailbox' = [mailbox EXCEPT !.active.phase = "posting"]
        /\ wire' = Append(wire, f)
    BY <1>4 DEF PostFrame
  <2>2. /\ mailbox' \in Mailboxes /\ mailbox'.pending = mailbox.pending
        /\ mailbox'.active \in Frames /\ mailbox'.active.entry = mailbox.active.entry
        /\ mailbox'.active.phase = "posting" /\ mailbox'.active.ack = "none"
        /\ mailbox'.active # NoFrame
    <3> DEFINE g == [mailbox.active EXCEPT !.phase = "posting"]
    <3>1. /\ g \in Frames /\ g.entry = mailbox.active.entry /\ g.phase = "posting" /\ g # NoFrame
          /\ g.ack = "none"
      BY <1>1, NoFrameAssumption DEF Frames
    <3>2. mailbox' = [mailbox EXCEPT !.active = g]
      BY <2>1 DEF Mailboxes
    <3> HIDE DEF g
    <3> QED  BY <3>1, <3>2 DEF Mailboxes
  <2>3. /\ f \in [entry : Messages, mine : BOOLEAN] /\ f.entry = mailbox.active.entry /\ f.mine
    BY <1>1
  <2> DEFINE S == [entry : Messages, mine : BOOLEAN]
             k == Len(wire) + 1
  <2>4. /\ wire' \in Seq(S) /\ k \in DOMAIN wire' /\ wire'[k] = f
        /\ \A i \in DOMAIN wire : i \in DOMAIN wire' /\ wire'[i] = wire[i] /\ ~(i > k) /\ i # k
        /\ \A i \in DOMAIN wire' : (i = k \/ i \in DOMAIN wire) /\ ~(i > k)
        /\ \A i \in DOMAIN wire : k > i
    <3>1. wire \in Seq(S) /\ f \in S
      BY <2>3 DEF Wires
    <3> HIDE DEF S, f
    <3> QED  BY <2>1, <3>1
  <2> HIDE DEF f, k
  <2>5. wire' \in Wires
    BY <2>4 DEF Wires
  <2>6. MailboxOK(mailbox') /\ Held(mailbox') = Held(mailbox) /\ ~Scheduled(mailbox')
    BY <1>1, <2>2 DEF MailboxOK, Held, Scheduled
  <2>7. Matched(mailbox', wire')
    BY <1>2, <2>2, <2>3, <2>4 DEF Matched
  <2>8. OnWire(wire') \subseteq OnWire(wire) \cup Held(mailbox)
    <3>1. \A i \in DOMAIN wire' : wire'[i].entry \in OnWire(wire) \cup Held(mailbox)
      BY <1>1, <2>3, <2>4 DEF OnWire
    <3> QED  BY <3>1 DEF OnWire
  <2>9. FramesOK'
    BY <1>1, <2>5, <2>6, <2>7, <2>8 DEF FramesOK, DeliveryInv
  <2>10. HostOK' /\ ViewOK'
    BY <1>1 DEF DeliveryInv, HostOK, ViewOK, Serving
  <2>11. ASSUME NEW p \in Prompts,
                Underway(mailbox, wire, host.bound, p) \/ Shown(mailbox, wire, view, host.bound, p)
         PROVE  \/ Underway(mailbox', wire', host.bound, p)
                \/ Shown(mailbox', wire', view, host.bound, p)
    <3>1. WireResyncs(wire) => WireResyncs(wire')
      BY <2>4 DEF WireResyncs
    <3>2. Resyncs(mailbox) => Resyncs(mailbox') \/ WireResyncs(wire')
      BY <2>2, <2>3, <2>4 DEF Resyncs, WireResyncs
    <3>3. Bare(mailbox) => Bare(mailbox') /\ f.entry.kind # "snapshot"
      BY <1>1, <2>2, <2>3, <2>6 DEF Bare
    <3>4. Bare(mailbox) /\ WireBare(wire) => WireBare(wire')
      BY <2>4, <3>3 DEF WireBare
    <3>5. Bare(mailbox) /\ WireCarries(wire, host.bound, p) => WireCarries(wire', host.bound, p)
      BY <2>4, <3>3 DEF WireCarries
    <3>6. Carries(mailbox, host.bound, p) =>
            \/ Carries(mailbox', host.bound, p)
            \/ WireCarries(wire', host.bound, p) /\ Bare(mailbox')
      BY <2>2, <2>3, <2>4, <2>6 DEF Carries, WireCarries, Bare
    <3> QED  BY <2>11, <3>1, <3>2, <3>3, <3>4, <3>5, <3>6 DEF Underway, Shown
  <2>12. NothingLost'
    <3> SUFFICES ASSUME Serving, NEW p \in host.replay PROVE Covered(host.bound, p)'
      BY <1>1 DEF NothingLost, Serving
    <3>1. Covered(host.bound, p) /\ p \in Prompts
      BY DEF DeliveryInv, NothingLost, HostOK, Hosts
    <3> QED  BY <1>1, <2>11, <3>1 DEF Covered
  <2> QED  BY <2>9, <2>10, <2>12 DEF DeliveryInv
<1> QED  BY <1>3, <1>4

\* The Webview takes the first frame on the wire: what it carries is shown then,
\* and a recovery is asked for if it says so.
LEMMA TakeStep ==
  ASSUME DeliveryInv, ViewTakes
  PROVE  DeliveryInv'
<1> USE MailboxFacts
<1> DEFINE e == Head(wire).entry
<1>1. /\ wire # <<>> /\ wire' = Tail(wire) /\ UNCHANGED host
      /\ mailbox' = IF Head(wire).mine THEN [mailbox EXCEPT !.active.ack = "sent"] ELSE mailbox
  BY DEF ViewTakes
<1>2. /\ Head(wire) = wire[1] /\ 1 \in DOMAIN wire /\ wire' \in Wires
      /\ \A i \in DOMAIN wire' : i + 1 \in DOMAIN wire /\ wire'[i] = wire[i + 1] /\ i + 1 > 1
      /\ \A i \in DOMAIN wire : i = 1 \/ (i - 1 \in DOMAIN wire' /\ wire[i] = wire'[i - 1])
      /\ DOMAIN wire \subseteq Nat /\ DOMAIN wire' \subseteq Nat
  <2> DEFINE S == [entry : Messages, mine : BOOLEAN]
  <2>1. wire \in Seq(S)
    BY DEF Wires
  <2> HIDE DEF S
  <2>2. Tail(wire) \in Seq(S) /\ Len(Tail(wire)) = Len(wire) - 1 /\ Len(wire) \in Nat /\ Len(wire) # 0
        /\ \A i \in 1..(Len(wire) - 1) : Tail(wire)[i] = wire[i + 1]
    BY <1>1, <2>1
  <2>3. Head(wire) = wire[1]
    BY <1>1, <2>1
  <2>4. wire' \in Seq(S) /\ DOMAIN wire' = 1..(Len(wire) - 1) /\ DOMAIN wire = 1..Len(wire)
    BY <1>1, <2>1, <2>2
  <2>5. wire' \in Wires
    BY <2>4 DEF Wires, S
  <2> QED  BY <1>1, <2>2, <2>3, <2>4, <2>5
<1>3. /\ e \in Messages /\ Truthful(e, host) /\ e = wire[1].entry
      /\ \A i \in DOMAIN wire : wire[i].entry \in Messages
  BY <1>2, OnWireTyped DEF OnWire, DeliveryInv, FramesOK
<1>4. /\ mailbox' \in Mailboxes /\ mailbox'.pending = mailbox.pending
      /\ mailbox'.active # NoFrame <=> mailbox.active # NoFrame
      /\ mailbox.active # NoFrame =>
           /\ mailbox'.active.entry = mailbox.active.entry
           /\ mailbox'.active.phase = mailbox.active.phase
      /\ ~wire[1].mine => mailbox' = mailbox
      /\ wire[1].mine => mailbox.active # NoFrame /\ mailbox.active.phase # "scheduled"
  <2>1. CASE wire[1].mine
    <3>1. mailbox.active # NoFrame /\ mailbox.active.phase # "scheduled"
      BY <1>2, <2>1 DEF Matched
    <3> DEFINE f == [mailbox.active EXCEPT !.ack = "sent"]
    <3>2. f \in Frames /\ f.entry = mailbox.active.entry /\ f.phase = mailbox.active.phase /\ f # NoFrame
      BY <3>1, NoFrameAssumption DEF Frames
    <3>3. mailbox' = [mailbox EXCEPT !.active = f]
      BY <1>1, <1>2, <2>1 DEF Mailboxes
    <3> HIDE DEF f
    <3> QED  BY <2>1, <3>1, <3>2, <3>3 DEF Mailboxes
  <2>2. CASE ~wire[1].mine
    BY <1>1, <1>2, <2>2
  <2> QED  BY <2>1, <2>2
<1>5. Scheduled(mailbox') <=> Scheduled(mailbox)
  BY <1>4 DEF Scheduled
<1>6. MailboxOK(mailbox') /\ Held(mailbox') = Held(mailbox)
  <2>1. MailboxOK(mailbox')
    BY <1>4 DEF MailboxOK
  <2> QED  BY <1>4, <2>1 DEF Held
<1>7. Matched(mailbox', wire')
  <2>1. CASE wire[1].mine
    <3>1. \A i \in DOMAIN wire' : ~wire'[i].mine
      <4> SUFFICES ASSUME NEW i \in DOMAIN wire', wire[i + 1].mine PROVE FALSE
        BY <1>2
      <4>1. i + 1 = 1
        BY <1>2, <2>1 DEF Matched
      <4> QED  BY <4>1, <1>2
    <3> QED  BY <3>1 DEF Matched
  <2>2. CASE ~wire[1].mine
    <3> SUFFICES ASSUME NEW i \in DOMAIN wire', wire'[i].mine
                 PROVE  /\ mailbox.active # NoFrame /\ mailbox.active.phase # "scheduled"
                        /\ mailbox.active.ack = "none" /\ mailbox.active.entry = wire'[i].entry
                        /\ \A j \in DOMAIN wire' : wire'[j].mine => j = i
      BY <1>4, <2>2 DEF Matched
    <3>1. /\ mailbox.active # NoFrame /\ mailbox.active.phase # "scheduled"
          /\ mailbox.active.ack = "none" /\ mailbox.active.entry = wire[i + 1].entry
          /\ \A j \in DOMAIN wire : wire[j].mine => j = i + 1
      BY <1>2 DEF Matched
    <3>2. \A j \in DOMAIN wire' : wire'[j].mine => j + 1 = i + 1
      BY <1>2, <3>1
    <3> QED  BY <1>2, <3>1, <3>2
  <2> QED  BY <2>1, <2>2
<1>8. OnWire(wire') \subseteq OnWire(wire)
  BY <1>2 DEF OnWire
<1>9. FramesOK' /\ HostOK'
  BY <1>1, <1>2, <1>6, <1>7, <1>8 DEF FramesOK, DeliveryInv, HostOK, Serving
<1>10. /\ (Bare(mailbox) <=> Bare(mailbox')) /\ (Resyncs(mailbox) <=> Resyncs(mailbox'))
       /\ \A p \in Prompts : Carries(mailbox, host.bound, p) <=> Carries(mailbox', host.bound, p)
  BY <1>4, <1>5 DEF Bare, Resyncs, Carries, Scheduled
<1>11. /\ WireBare(wire) => WireBare(wire') /\ e.kind # "snapshot"
       /\ WireResyncs(wire) => WireResyncs(wire') \/ e.kind = "resync"
  BY <1>2, <1>3 DEF WireBare, WireResyncs
<1>12. ASSUME NEW p \in Prompts, WireCarries(wire, host.bound, p)
       PROVE  \/ WireCarries(wire', host.bound, p)
              \/ AsksFor(e, host.bound, p) /\ WireBare(wire')
  <2>1. PICK i \in DOMAIN wire :
          /\ AsksFor(wire[i].entry, host.bound, p)
          /\ \A j \in DOMAIN wire : j > i => wire[j].entry.kind # "snapshot"
    BY <1>12 DEF WireCarries
  <2>2. CASE i = 1
    BY <1>2, <1>3, <2>1, <2>2 DEF WireBare
  <2>3. CASE i # 1
    <3>1. i - 1 \in DOMAIN wire' /\ wire'[i - 1] = wire[i]
      BY <1>2, <2>3
    <3>2. \A j \in DOMAIN wire' : j > i - 1 => j + 1 > i
      BY <1>2
    <3>3. \A j \in DOMAIN wire' : j > i - 1 => wire'[j].entry.kind # "snapshot"
      BY <1>2, <2>1, <3>2
    <3> QED  BY <2>1, <3>1, <3>3 DEF WireCarries
  <2> QED  BY <2>2, <2>3
<1>13. CASE e.kind = "resync"
  <2>1. TakeResync
    BY <1>13 DEF ViewTakes
  <2>2. /\ view' \in [listening : BOOLEAN, state : States, of : Nat,
                      prompts : SUBSET ((1..host.live) \X Prompts), rerun : BOOLEAN]
        /\ ready' \in [Requests -> [phase : Phases, list : SUBSET ((1..host.live) \X Prompts)]]
        /\ ready'["full"] = ready["full"] /\ view'.listening = view.listening
        /\ \/ view'.rerun /\ ready'["snapshotOnly"] = ready["snapshotOnly"]
              /\ ready["snapshotOnly"].phase # "none"
           \/ ready'["snapshotOnly"].phase = "asked"
    <3> DEFINE A == SUBSET ((1..host.live) \X Prompts)
               V == [listening : BOOLEAN, state : States, of : Nat, prompts : A, rerun : BOOLEAN]
               R == [phase : Phases, list : A]
    <3>1. /\ view \in V /\ ready \in [Requests -> R] /\ "asked" \in Phases
          /\ "full" \in Requests /\ "snapshotOnly" \in Requests
      BY DEF DeliveryInv, ViewOK, Phases, Requests
    <3> HIDE DEF A
    <3>2. CASE ready["snapshotOnly"].phase = "none"
      <4>1. ready' = [ready EXCEPT !["snapshotOnly"].phase = "asked"] /\ view' = view
        BY <2>1, <3>2 DEF TakeResync
      <4> DEFINE r == [ready["snapshotOnly"] EXCEPT !.phase = "asked"]
      <4>2. r \in R /\ r.phase = "asked" /\ ready["snapshotOnly"] \in R
        BY <3>1
      <4>3. ready' = [ready EXCEPT !["snapshotOnly"] = r]
        BY <4>1
      <4> HIDE DEF r, R, V
      <4>4. ready' \in [Requests -> R] /\ ready'["full"] = ready["full"] /\ ready'["snapshotOnly"] = r
        BY <3>1, <4>2, <4>3
      <4> QED  BY <3>1, <4>1, <4>2, <4>4 DEF A, R, V
    <3>3. CASE ready["snapshotOnly"].phase # "none"
      <4>1. view' = [view EXCEPT !.rerun = TRUE] /\ ready' = ready
        BY <2>1, <3>3 DEF TakeResync
      <4>2. view' \in V /\ view'.rerun /\ view'.listening = view.listening
        BY <3>1, <4>1
      <4> QED  BY <3>1, <3>3, <4>1, <4>2 DEF A
    <3> QED  BY <3>2, <3>3
  <2>3. ViewOK'
    BY <1>1, <2>2 DEF DeliveryInv, ViewOK
  <2>4. NothingLost'
    <3> SUFFICES ASSUME NEW p \in host.replay PROVE Covered(host.bound, p)'
      BY <1>1 DEF NothingLost
    <3>1. "snapshotOnly" \in Requests
      BY DEF Requests
    <3> QED  BY <2>2, <3>1 DEF Covered, Recovering
  <2> QED  BY <1>9, <2>3, <2>4 DEF DeliveryInv
<1>14. CASE e.kind # "resync"
  <2>1. /\ UNCHANGED ready
        /\ \/ e.kind = "snapshot" /\ view' = TakeSnapshot(e)
           \/ e.kind = "asks" /\ view' = [view EXCEPT !.prompts = @ \cup {<<e.of, e.prompt>>}]
           \/ e.kind = "settled" /\ view' = [view EXCEPT !.prompts = @ \ {<<e.of, e.prompt>>}]
    <3>1. e.kind \in {"snapshot", "asks", "settled"}
      BY <1>3, <1>14 DEF Messages
    <3> QED  BY <1>14, <3>1 DEF ViewTakes
  <2> DEFINE A == SUBSET ((1..host.live) \X Prompts)
             V == [listening : BOOLEAN, state : States, of : Nat, prompts : A, rerun : BOOLEAN]
  <2>2. /\ view' \in V /\ view'.listening = view.listening /\ view'.rerun = view.rerun
        /\ e.kind = "asks" => view'.prompts = view.prompts \cup {<<e.of, e.prompt>>}
        /\ e.kind = "settled" => view'.prompts = view.prompts \ {<<e.of, e.prompt>>}
    <3>1. view \in V
      BY DEF DeliveryInv, ViewOK
    <3>2. /\ e.kind = "asks" => view.prompts \cup {<<e.of, e.prompt>>} \in A
          /\ view.prompts \ {<<e.of, e.prompt>>} \in A /\ {} \in A /\ view.prompts \in A
          /\ e.state \in States /\ e.of \in Nat
      BY <1>3, <3>1 DEF Truthful, Messages
    <3> HIDE DEF A
    <3>3. CASE e.kind = "snapshot"
      BY <2>1, <3>1, <3>2, <3>3 DEF TakeSnapshot
    <3>4. CASE e.kind # "snapshot"
      BY <2>1, <3>1, <3>2, <3>4
    <3> QED  BY <3>3, <3>4
  <2>3. ViewOK'
    BY <1>1, <2>1, <2>2 DEF DeliveryInv, ViewOK
  <2>4. NothingLost'
    <3> SUFFICES ASSUME Serving, NEW p \in host.replay PROVE Covered(host.bound, p)'
      BY <1>1 DEF NothingLost, Serving
    <3>1. Covered(host.bound, p) /\ p \in Prompts
      BY DEF DeliveryInv, NothingLost, HostOK, Hosts
    <3>2. CASE Recovering(ready, view, host.bound, p)
      BY <3>2, <1>1, <2>1, <2>2 DEF Covered, Recovering
    <3>3. CASE Resyncs(mailbox) \/ WireResyncs(wire) \/ Carries(mailbox, host.bound, p)
      BY <3>1, <3>3, <1>1, <1>10, <1>11, <1>14 DEF Covered, Underway
    <3>4. CASE WireCarries(wire, host.bound, p) /\ Bare(mailbox)
      <4>1. CASE WireCarries(wire', host.bound, p)
        BY <3>4, <4>1, <1>1, <1>10 DEF Covered, Underway
      <4>2. CASE AsksFor(e, host.bound, p) /\ WireBare(wire')
        <5>1. <<host.bound, p>> \in view'.prompts
          BY <2>2, <4>2 DEF AsksFor
        <5> QED  BY <3>4, <4>2, <5>1, <1>1, <1>10 DEF Covered, Shown
      <4> QED  BY <3>1, <3>4, <4>1, <4>2, <1>12
    <3>5. CASE Shown(mailbox, wire, view, host.bound, p)
      <4>1. e.kind # "snapshot" /\ WireBare(wire') /\ Bare(mailbox')
        BY <3>5, <1>10, <1>11 DEF Shown
      <4>2. e.kind = "settled" => <<e.of, e.prompt>> # <<host.bound, p>>
        BY <1>3 DEF Truthful
      <4>3. <<host.bound, p>> \in view'.prompts
        BY <3>5, <4>1, <4>2, <2>1, <2>2 DEF Shown
      <4> QED  BY <4>1, <4>3, <1>1 DEF Covered, Shown
    <3> QED  BY <3>1, <3>2, <3>3, <3>4, <3>5 DEF Covered, Underway
  <2> QED  BY <1>9, <2>3, <2>4 DEF DeliveryInv
<1> QED  BY <1>13, <1>14

\* A new Webview will ask for everything.
LEMMA ReloadStep ==
  ASSUME DeliveryInv, Reload
  PROVE  DeliveryInv'
<1>1. /\ view' = NewView /\ wire' = <<>> /\ mailbox' = Forgotten /\ UNCHANGED host
      /\ ready' = [full |-> [NotAsked EXCEPT !.phase = "asked"], snapshotOnly |-> NotAsked]
  BY DEF Reload
<1>2. HostOK'
  BY <1>1 DEF DeliveryInv, HostOK, Serving
<1> DEFINE A == SUBSET ((1..host.live) \X Prompts)
<1>3. ViewOK'
  <2>1. /\ {} \in A /\ "idle" \in States /\ "asked" \in Phases /\ "none" \in Phases
        /\ Requests = {"full", "snapshotOnly"}
    BY DEF States, Phases, Requests
  <2> DEFINE f == [phase |-> "asked", list |-> {}]
             g == [phase |-> "none", list |-> {}]
  <2>2. ready' = [full |-> f, snapshotOnly |-> g]
    BY <1>1 DEF NotAsked
  <2>3. view' \in [listening : BOOLEAN, state : States, of : Nat, prompts : A, rerun : BOOLEAN]
    <3> HIDE DEF A
    <3> QED  BY <1>1, <2>1 DEF NewView
  <2>4. /\ ready' \in [Requests -> [phase : Phases, list : A]]
        /\ ready'["full"] = f /\ ready'["snapshotOnly"] = g
    <3>1. f \in [phase : Phases, list : A] /\ g \in [phase : Phases, list : A]
      BY <2>1
    <3> HIDE DEF A, f, g
    <3> QED  BY <2>1, <2>2, <3>1
  <2>5. ~view'.rerun /\ ready'["full"].phase = "asked" /\ ready'["snapshotOnly"].phase # "connecting"
    BY <1>1, <2>4 DEF NewView
  <2> QED  BY <1>1, <2>3, <2>4, <2>5 DEF ViewOK
<1>4. FramesOK'
  <2>1. wire' \in Wires /\ DOMAIN wire' = {}
    BY <1>1 DEF Wires
  <2>2. MailboxOK(mailbox') /\ Held(mailbox') = {}
    BY <1>1, ForgottenOK
  <2>3. Matched(mailbox', wire') /\ OnWire(wire') = {}
    BY <2>1 DEF Matched, OnWire
  <2> QED  BY <2>1, <2>2, <2>3 DEF FramesOK
<1>5. NothingLost'
  <2>1. ready'["full"].phase = "asked" /\ "full" \in Requests
    BY <1>1 DEF NotAsked, Requests
  <2> QED  BY <2>1 DEF NothingLost, Covered, Recovering
<1> QED  BY <1>2, <1>3, <1>4, <1>5 DEF DeliveryInv

\* The next phase of a request.
LEMMA RequestSet ==
  ASSUME NEW A, NEW f \in [Requests -> [phase : Phases, list : A]], NEW r \in Requests,
         NEW x \in Phases
  PROVE  LET n == [f EXCEPT ![r].phase = x] IN
         /\ n \in [Requests -> [phase : Phases, list : A]]
         /\ n[r].phase = x /\ n[r].list = f[r].list
         /\ \A s \in Requests \ {r} : n[s] = f[s]
<1> DEFINE y == [f[r] EXCEPT !.phase = x]
           R == [phase : Phases, list : A]
           n == [f EXCEPT ![r].phase = x]
<1>1. y \in R /\ y.phase = x /\ y.list = f[r].list
  OBVIOUS
<1>2. n = [f EXCEPT ![r] = y]
  OBVIOUS
<1> HIDE DEF y, R, n
<1>3. n \in [Requests -> R] /\ n[r] = y /\ \A s \in Requests \ {r} : n[s] = f[s]
  BY <1>1, <1>2 DEF R
<1> QED  BY <1>1, <1>3 DEF R, n

\* A request announces the connection and will replay what is asked on it.
LEMMA AnnounceStep ==
  ASSUME DeliveryInv, NEW r \in Requests, NEW m, MailboxOK(m), Held(m) \subseteq Held(mailbox),
         Matched(m, wire'), wire' \in Wires, OnWire(wire') = OnWire(wire),
         UNCHANGED host, view'.listening, view' = [view EXCEPT !.listening = TRUE],
         Announce(r, m)
  PROVE  DeliveryInv'
<1> DEFINE e == Snapshot(host, r)
           A == SUBSET ((1..host.live) \X Prompts)
           V == [listening : BOOLEAN, state : States, of : Nat, prompts : A, rerun : BOOLEAN]
           R == [phase : Phases, list : A]
           x == IF host.state = "connected" THEN "snapshot" ELSE "said"
<1>1. /\ mailbox' = Enqueue(m, e, host.bound) /\ ready' = [ready EXCEPT ![r].phase = x]
  BY DEF Announce
<1>2. host \in Hosts /\ host.bound \in Nat /\ view \in V /\ ready \in [Requests -> R]
  BY DEF DeliveryInv, HostOK, Hosts, ViewOK
<1>3. x \in Phases /\ x # "none" /\ x # "connecting"
  BY DEF Phases
<1>4. HostOK'
  BY DEF DeliveryInv, HostOK, Serving
<1>5. /\ ready' \in [Requests -> R] /\ ready'[r].phase = x
      /\ \A s \in Requests \ {r} : ready'[s] = ready[s]
  <2> HIDE DEF A, x
  <2> QED  BY <1>1, <1>2, <1>3, RequestSet
<1>6. view' \in V /\ view'.rerun = view.rerun /\ view'.prompts = view.prompts
  <2> HIDE DEF A
  <2> QED  BY <1>2
<1>7. ViewOK'
  <2> HIDE DEF x
  <2>1. /\ view'.rerun => ready'["snapshotOnly"].phase # "none"
        /\ ready'["snapshotOnly"].phase # "connecting"
    BY <1>3, <1>5, <1>6 DEF DeliveryInv, ViewOK, Requests
  <2> QED  BY <1>5, <1>6, <2>1 DEF ViewOK
<1>8. FramesOK'
  <2>1. \A h \in Held(mailbox) \cup OnWire(wire) : Truthful(h, host) /\ Plain(h)
    BY TruthIsPlain DEF DeliveryInv, FramesOK
  <2>2. e \in Messages /\ Truthful(e, host) /\ Truthful(Resync, host) /\ Plain(e)
    BY <1>2, SnapshotIsMessage, ResyncIsTruthful, TruthIsPlain
  <2> HIDE DEF e
  <2>3. /\ MailboxOK(mailbox') /\ Held(mailbox') \subseteq Held(m) \cup {e, Resync}
        /\ Matched(mailbox', wire')
    BY <1>1, <1>2, <2>1, <2>2, EnqueueKeeps
  <2> QED  BY <2>1, <2>2, <2>3 DEF FramesOK
<1>9. NothingLost'
  <2> SUFFICES ASSUME Serving PROVE ready'[r].phase = "snapshot"
    BY DEF NothingLost, Covered, Recovering, Serving
  <2> QED  BY <1>5 DEF Serving
<1> QED  BY <1>4, <1>7, <1>8, <1>9 DEF DeliveryInv

\* A request that arrives resets the mailbox and covers what it drops.
LEMMA ArriveStep ==
  ASSUME DeliveryInv, NEW r \in Requests, ReadyArrives(r) \/ ReadyProceeds
  PROVE  DeliveryInv'
<1> USE MailboxFacts
<1> DEFINE A == SUBSET ((1..host.live) \X Prompts)
           V == [listening : BOOLEAN, state : States, of : Nat, prompts : A, rerun : BOOLEAN]
           R == [phase : Phases, list : A]
<1>1. view \in V /\ ready \in [Requests -> R]
  BY DEF DeliveryInv, ViewOK
<1>2. CASE ReadyProceeds
  <2>1. /\ ready["full"].phase = "connecting" /\ Announce("full", mailbox)
        /\ UNCHANGED <<host, wire, view>> /\ "full" \in Requests
    BY <1>2 DEF ReadyProceeds, Requests
  <2>2. view.listening
    BY <2>1 DEF DeliveryInv, ViewOK
  <2>3. view' = [view EXCEPT !.listening = TRUE]
    <3> HIDE DEF A
    <3> QED  BY <1>1, <2>1, <2>2
  <2> QED  BY <2>1, <2>2, <2>3, AnnounceStep
<1>3. CASE ReadyArrives(r)
  <2>1. /\ view' = [view EXCEPT !.listening = TRUE] /\ wire' = Disowned(wire) /\ UNCHANGED host
    BY <1>3 DEF ReadyArrives
  <2>2. /\ wire' \in Wires /\ Matched(Forgotten, wire') /\ OnWire(wire') = OnWire(wire)
        /\ MailboxOK(Forgotten) /\ Held(Forgotten) \subseteq Held(mailbox)
    BY <2>1, DisownedSame, ForgottenOK
  <2>3. view' \in V /\ view'.listening /\ view'.rerun = view.rerun
    <3> HIDE DEF A
    <3> QED  BY <1>1, <2>1
  <2>4. CASE r = "snapshotOnly"
    <3>1. Announce(r, Forgotten)
      BY <1>3, <2>4 DEF ReadyArrives
    <3> QED  BY <2>1, <2>2, <2>3, <3>1, AnnounceStep
  <2>5. CASE r # "snapshotOnly"
    <3>1. r = "full" /\ mailbox' = Forgotten /\ ready' = [ready EXCEPT !["full"].phase = "connecting"]
      BY <1>3, <2>5 DEF ReadyArrives, Requests
    <3>2. /\ ready' \in [Requests -> R] /\ ready'["full"].phase = "connecting"
          /\ ready'["snapshotOnly"] = ready["snapshotOnly"]
      <4>1. "connecting" \in Phases /\ "full" \in Requests /\ "snapshotOnly" \in Requests \ {"full"}
        BY DEF Phases, Requests
      <4> DEFINE n == [ready EXCEPT !["full"].phase = "connecting"]
      <4> HIDE DEF A
      <4>2. /\ n \in [Requests -> R] /\ n["full"].phase = "connecting"
            /\ \A s \in Requests \ {"full"} : n[s] = ready[s]
        BY <1>1, <4>1, RequestSet
      <4>3. ready' = n
        BY <3>1
      <4> HIDE DEF n, R
      <4> QED  BY <4>1, <4>2, <4>3
    <3>3. HostOK' /\ ViewOK'
      <4>1. HostOK'
        BY <2>1 DEF DeliveryInv, HostOK, Serving
      <4>2. view.rerun => ready'["snapshotOnly"].phase # "none"
        BY <3>2 DEF DeliveryInv, ViewOK
      <4>3. ready'["snapshotOnly"].phase # "connecting"
        BY <3>2 DEF DeliveryInv, ViewOK
      <4> QED  BY <2>1, <2>3, <3>2, <4>1, <4>2, <4>3 DEF ViewOK
    <3>4. FramesOK'
      BY <2>1, <2>2, <3>1, ForgottenOK DEF DeliveryInv, FramesOK
    <3>5. NothingLost'
      BY <3>1, <3>2 DEF NothingLost, Covered, Recovering
    <3> QED  BY <3>3, <3>4, <3>5 DEF DeliveryInv
  <2> QED  BY <2>4, <2>5
<1> QED  BY <1>2, <1>3

\* What covers an interaction beside one request.
RecoveringBut(r, b, p) ==
  \/ view.rerun
  \/ \E s \in Requests \ {r} :
       \/ ready[s].phase \in {"asked", "connecting", "snapshot"}
       \/ ready[s].phase = "replay" /\ <<b, p>> \in ready[s].list

\* The response of a request, after which a recovery that was asked for runs again.
LEMMA AnsweredView ==
  ASSUME ViewOK, NEW r \in Requests, ready[r].phase # "asked", Answered(r), UNCHANGED host
  PROVE  /\ ViewOK' /\ view'.prompts = view.prompts /\ view'.listening = view.listening
         /\ \A b, p : RecoveringBut(r, b, p) => Recovering(ready', view', b, p)
<1> DEFINE A == SUBSET ((1..host.live) \X Prompts)
           V == [listening : BOOLEAN, state : States, of : Nat, prompts : A, rerun : BOOLEAN]
           R == [phase : Phases, list : A]
           again == r = "snapshotOnly" /\ view.rerun
           y == IF again THEN [NotAsked EXCEPT !.phase = "asked"] ELSE NotAsked
<1>1. view \in V /\ ready \in [Requests -> R] /\ y \in R /\ NotAsked.phase = "none"
  BY DEF ViewOK, NotAsked, Phases
<1>2. /\ again => y.phase = "asked"
      /\ ~again => y.phase = "none"
  BY DEF NotAsked
<1>3. ready' = [ready EXCEPT ![r] = y] /\ view' = IF again THEN [view EXCEPT !.rerun = FALSE] ELSE view
  BY DEF Answered
<1>4. /\ ready' \in [Requests -> R] /\ ready'[r] = y
      /\ \A s \in Requests \ {r} : ready'[s] = ready[s]
  <2> HIDE DEF y, R, again
  <2> QED  BY <1>1, <1>3
<1>5. /\ view' \in V /\ view'.prompts = view.prompts /\ view'.listening = view.listening
      /\ view'.rerun = (view.rerun /\ ~again)
  <2> HIDE DEF A, y
  <2> QED  BY <1>1, <1>3
<1>6. ViewOK'
  <2>1. view'.rerun => ready'["snapshotOnly"].phase # "none"
    <3> HIDE DEF y
    <3> QED  BY <1>2, <1>4, <1>5 DEF ViewOK, Requests
  <2>2. ~view'.listening => ready'["full"].phase = "asked"
    <3> HIDE DEF y
    <3> QED  BY <1>4, <1>5 DEF ViewOK, Requests
  <2>3. ready'["snapshotOnly"].phase # "connecting"
    <3> HIDE DEF y
    <3> QED  BY <1>2, <1>4 DEF ViewOK, Requests
  <2> QED  BY <1>4, <1>5, <2>1, <2>2, <2>3 DEF ViewOK
<1>7. ASSUME NEW b, NEW p, RecoveringBut(r, b, p) PROVE Recovering(ready', view', b, p)
  <2>1. CASE again
    <3>1. ready'[r].phase = "asked"
      BY <1>2, <1>4, <2>1
    <3> QED  BY <3>1 DEF Recovering
  <2>2. CASE ~again /\ view.rerun
    BY <1>5, <2>2 DEF Recovering
  <2>3. CASE ~view.rerun
    BY <1>4, <1>7, <2>3 DEF Recovering, RecoveringBut
  <2> QED  BY <2>1, <2>2, <2>3
<1> QED  BY <1>5, <1>6, <1>7

\* The first request fails when there is no connection to serve.
LEMMA FailStep ==
  ASSUME DeliveryInv, ReadyFails
  PROVE  DeliveryInv'
<1>1. /\ ready["full"].phase = "connecting" /\ ~Serving /\ Answered("full") /\ "full" \in Requests
      /\ UNCHANGED <<host, mailbox, wire>>
  BY DEF ReadyFails, Serving, Requests
<1>2. ViewOK'
  BY <1>1, AnsweredView DEF DeliveryInv
<1>3. HostOK' /\ FramesOK' /\ NothingLost'
  BY <1>1 DEF DeliveryInv, HostOK, FramesOK, NothingLost, Serving
<1> QED  BY <1>2, <1>3 DEF DeliveryInv

\* A replay puts one interaction into the mailbox and keeps the others on its list.
LEMMA ReplayStep ==
  ASSUME DeliveryInv, NEW r \in Requests, NEW L \in SUBSET ((1..host.live) \X Prompts),
         ready[r].phase \in {"snapshot", "replay"}, ReplayFrom(r, L), UNCHANGED <<host, wire>>,
         Serving => \A p \in host.replay :
           \/ <<host.bound, p>> \in L
           \/ RecoveringBut(r, host.bound, p)
           \/ Underway(mailbox, wire, host.bound, p)
           \/ Shown(mailbox, wire, view, host.bound, p)
  PROVE  DeliveryInv'
<1> USE MailboxFacts
<1>1. HostOK' /\ host.replay \subseteq Prompts /\ host.live \in Nat
  BY DEF DeliveryInv, HostOK, Serving, Hosts
<1>2. CASE L = {}
  <2>1. Answered(r) /\ UNCHANGED mailbox
    BY <1>2 DEF ReplayFrom
  <2>2. /\ ViewOK' /\ view'.prompts = view.prompts
        /\ \A b, p : RecoveringBut(r, b, p) => Recovering(ready', view', b, p)
    BY <2>1, AnsweredView DEF DeliveryInv
  <2>3. FramesOK'
    BY <2>1 DEF DeliveryInv, FramesOK
  <2>4. NothingLost'
    <3> SUFFICES ASSUME Serving, NEW p \in host.replay PROVE Covered(host.bound, p)'
      BY DEF NothingLost, Serving
    <3> QED  BY <1>2, <2>1, <2>2 DEF Covered, Shown
  <2> QED  BY <1>1, <2>2, <2>3, <2>4 DEF DeliveryInv
<1>3. CASE L # {}
  <2>1. PICK q \in L :
          /\ mailbox' = Enqueue(mailbox, Asks(q[1], q[2], FALSE, r), host.bound)
          /\ ready' = [ready EXCEPT ![r] = [phase |-> "replay", list |-> L \ {q}]]
          /\ UNCHANGED view
    BY <1>3 DEF ReplayFrom
  <2> DEFINE e == Asks(q[1], q[2], FALSE, r)
             A == SUBSET ((1..host.live) \X Prompts)
             R == [phase : Phases, list : A]
             y == [phase |-> "replay", list |-> L \ {q}]
  <2>2. /\ q[1] \in 1..host.live /\ q[2] \in Prompts /\ q = <<q[1], q[2]>>
        /\ q[1] \in Nat
    BY <1>1
  <2>3. /\ e \in Messages /\ e.kind = "asks" /\ e.of = q[1] /\ e.prompt = q[2]
        /\ Truthful(e, host) /\ Plain(e) /\ Truthful(Resync, host)
    <3>1. /\ e \in Messages /\ e.kind = "asks" /\ e.of = q[1] /\ e.prompt = q[2]
      BY <2>2 DEF Asks, Entry, Messages, States
    <3> HIDE DEF e
    <3> QED  BY <2>2, <3>1, ResyncIsTruthful DEF Truthful, Plain
  <2>4. ready \in [Requests -> R] /\ y \in R /\ y.phase = "replay" /\ y.list = L \ {q}
    BY DEF DeliveryInv, ViewOK, Phases
  <2>5. /\ ready' \in [Requests -> R] /\ ready'[r] = y
        /\ \A s \in Requests \ {r} : ready'[s] = ready[s]
    <3>1. ready' = [ready EXCEPT ![r] = y]
      BY <2>1
    <3> HIDE DEF y, R
    <3> QED  BY <2>4, <3>1
  <2>6. ViewOK'
    <3> HIDE DEF y
    <3> QED  BY <2>1, <2>4, <2>5 DEF DeliveryInv, ViewOK, Requests
  <2>7. /\ MailboxOK(mailbox') /\ Held(mailbox') \subseteq Held(mailbox) \cup {e, Resync}
        /\ Matched(mailbox', wire) /\ Keeps(mailbox, mailbox', host.bound)
        /\ \A p \in Prompts : AsksFor(e, host.bound, p) =>
             Carries(mailbox', host.bound, p) \/ Resyncs(mailbox')
    <3>1. mailbox' = Enqueue(mailbox, e, host.bound)
      BY <2>1
    <3> HIDE DEF e
    <3> QED  BY <2>3, <3>1, EnqueueKeeps
  <2> HIDE DEF e
  <2>8. FramesOK'
    BY <2>3, <2>7 DEF DeliveryInv, FramesOK
  <2>9. NothingLost'
    <3> SUFFICES ASSUME Serving, NEW p \in host.replay PROVE Covered(host.bound, p)'
      BY DEF NothingLost, Serving
    <3>1. CASE <<host.bound, p>> = q
      <4>1. AsksFor(e, host.bound, p)
        BY <2>2, <2>3, <3>1 DEF AsksFor
      <4>2. Carries(mailbox', host.bound, p) \/ Resyncs(mailbox')
        BY <1>1, <2>7, <4>1
      <4> QED  BY <4>2 DEF Covered, Underway
    <3>2. CASE <<host.bound, p>> \in L \ {q}
      BY <2>4, <2>5, <3>2 DEF Covered, Recovering
    <3>3. CASE RecoveringBut(r, host.bound, p)
      <4> HIDE DEF y
      <4> QED  BY <2>1, <2>5, <3>3 DEF Covered, Recovering, RecoveringBut
    <3>4. CASE \/ Underway(mailbox, wire, host.bound, p)
               \/ Shown(mailbox, wire, view, host.bound, p)
      <4>1. \/ Underway(mailbox', wire, host.bound, p)
            \/ Shown(mailbox', wire, view, host.bound, p)
        BY <1>1, <2>7, <3>4, StillCovered
      <4> QED  BY <2>1, <4>1 DEF Covered
    <3> QED  BY <3>1, <3>2, <3>3, <3>4
  <2> QED  BY <1>1, <2>6, <2>8, <2>9 DEF DeliveryInv
<1> QED  BY <1>2, <1>3

\* A request goes on once its receipt has come.
LEMMA ContinueStep ==
  ASSUME DeliveryInv, NEW r \in Requests, ReadyContinues(r)
  PROVE  DeliveryInv'
<1>1. /\ UNCHANGED <<host, wire>> /\ host.replay \subseteq Prompts
      /\ host.bound \in Nat /\ host.live \in Nat
  BY DEF ReadyContinues, DeliveryInv, HostOK, Hosts
<1>2. ASSUME Serving, NEW p \in host.replay
      PROVE  \/ ready[r].phase \in {"asked", "connecting", "snapshot"}
             \/ ready[r].phase = "replay" /\ <<host.bound, p>> \in ready[r].list
             \/ RecoveringBut(r, host.bound, p)
             \/ Underway(mailbox, wire, host.bound, p)
             \/ Shown(mailbox, wire, view, host.bound, p)
  <2>1. Covered(host.bound, p)
    BY <1>2 DEF DeliveryInv, NothingLost
  <2> QED  BY <2>1 DEF Covered, Recovering, RecoveringBut
<1>3. CASE ready[r].phase = "said" /\ Answered(r) /\ UNCHANGED mailbox
  <2>1. /\ ViewOK' /\ view'.prompts = view.prompts
        /\ \A b, p : RecoveringBut(r, b, p) => Recovering(ready', view', b, p)
    BY <1>1, <1>3, AnsweredView DEF DeliveryInv
  <2>2. HostOK' /\ FramesOK'
    BY <1>1, <1>3 DEF DeliveryInv, HostOK, FramesOK, Serving
  <2>3. NothingLost'
    <3> SUFFICES ASSUME Serving, NEW p \in host.replay PROVE Covered(host.bound, p)'
      BY <1>1 DEF NothingLost, Serving
    <3> QED  BY <1>1, <1>2, <1>3, <2>1 DEF Covered, Shown
  <2> QED  BY <2>1, <2>2, <2>3 DEF DeliveryInv
<1>4. CASE ready[r].phase = "snapshot" /\ ReplayFrom(r, Replayed)
  <2>1. \A p \in host.replay : <<host.bound, p>> \in Replayed
    BY DEF Replayed
  <2>2. \A p \in host.replay : p \in Prompts /\ host.bound \in 1..host.live
    BY DEF DeliveryInv, HostOK, Hosts
  <2>3. Replayed \in SUBSET ((1..host.live) \X Prompts)
    BY <2>2 DEF Replayed
  <2> QED  BY <1>1, <1>4, <2>1, <2>3, ReplayStep
<1>5. CASE ready[r].phase = "replay" /\ ReplayFrom(r, ready[r].list)
  <2>1. ready[r].list \in SUBSET ((1..host.live) \X Prompts)
    BY DEF DeliveryInv, ViewOK
  <2> QED  BY <1>1, <1>2, <1>5, <2>1, ReplayStep
<1> QED  BY <1>3, <1>4, <1>5 DEF ReadyContinues

-----------------------------------------------------------------------------

\* Initially nobody has asked anything.
LEMMA DeliveryInitInv == DeliveryInit => DeliveryInv
<1> SUFFICES ASSUME DeliveryInit PROVE DeliveryInv
  OBVIOUS
<1>1. /\ host = [state |-> "idle", live |-> 0, bound |-> 0, source |-> 0, replay |-> {},
                 asked |-> {}]
      /\ mailbox = Forgotten /\ wire = <<>> /\ view = NewView
      /\ ready = [full |-> [NotAsked EXCEPT !.phase = "asked"], snapshotOnly |-> NotAsked]
  BY DEF DeliveryInit, Starts
<1>2. HostOK
  BY <1>1 DEF HostOK, Hosts, States, Serving
<1> DEFINE A == SUBSET ((1..host.live) \X Prompts)
<1>3. ViewOK
  <2>1. /\ {} \in A /\ "idle" \in States /\ "asked" \in Phases /\ "none" \in Phases
        /\ Requests = {"full", "snapshotOnly"}
    BY DEF States, Phases, Requests
  <2> DEFINE f == [phase |-> "asked", list |-> {}]
             g == [phase |-> "none", list |-> {}]
  <2>2. ready = [full |-> f, snapshotOnly |-> g]
    BY <1>1 DEF NotAsked
  <2>3. view \in [listening : BOOLEAN, state : States, of : Nat, prompts : A, rerun : BOOLEAN]
    <3> HIDE DEF A
    <3> QED  BY <1>1, <2>1 DEF NewView
  <2>4. /\ ready \in [Requests -> [phase : Phases, list : A]]
        /\ ready["full"] = f /\ ready["snapshotOnly"] = g
    <3>1. f \in [phase : Phases, list : A] /\ g \in [phase : Phases, list : A]
      BY <2>1
    <3> HIDE DEF A, f, g
    <3> QED  BY <2>1, <2>2, <3>1
  <2>5. ~view.rerun /\ ready["full"].phase = "asked" /\ ready["snapshotOnly"].phase # "connecting"
    BY <1>1, <2>4 DEF NewView
  <2> QED  BY <2>3, <2>4, <2>5 DEF ViewOK
<1>4. FramesOK
  <2>1. wire \in Wires /\ DOMAIN wire = {}
    BY <1>1 DEF Wires
  <2>2. MailboxOK(mailbox) /\ Held(mailbox) = {}
    BY <1>1, ForgottenOK
  <2>3. Matched(mailbox, wire) /\ OnWire(wire) = {}
    BY <2>1 DEF Matched, OnWire
  <2> QED  BY <2>1, <2>2, <2>3 DEF FramesOK
<1>5. NothingLost
  BY <1>1 DEF NothingLost
<1> QED  BY <1>2, <1>3, <1>4, <1>5 DEF DeliveryInv

\* Every step keeps the invariant.
LEMMA DeliveryNextInv == DeliveryInv /\ [DeliveryNext]_deliveryVars => DeliveryInv'
<1> SUFFICES ASSUME DeliveryInv, [DeliveryNext]_deliveryVars PROVE DeliveryInv'
  OBVIOUS
<1>1. CASE UNCHANGED deliveryVars
  BY <1>1 DEF deliveryVars, DeliveryInv, HostOK, ViewOK, FramesOK, NothingLost, Serving, Covered
<1>2. CASE DeliveryNext
  <2>1. CASE Connect \/ ConnectFails \/ Connected \/ AttachBackend \/ Disconnect \/ Disconnected
    BY <2>1, ConnectStep
  <2>2. CASE \E p \in Prompts : HostAsks(p) \/ HostSettles(p)
    BY <2>2, AskStep
  <2>3. CASE PostFrame
    BY <2>3, PostStep
  <2>4. CASE PostSucceeds \/ AckArrives
    BY <2>4, AckStep
  <2>5. CASE PostFails \/ RetryTimerFires \/ RestEnds
    BY <2>5, RetryStep
  <2>6. CASE ViewTakes
    BY <2>6, TakeStep
  <2>7. CASE Reload
    BY <2>7, ReloadStep
  <2>8. CASE ReadyProceeds \/ \E r \in Requests : ReadyArrives(r)
    <3>1. "full" \in Requests
      BY DEF Requests
    <3> QED  BY <2>8, <3>1, ArriveStep
  <2>9. CASE ReadyFails
    BY <2>9, FailStep
  <2>10. CASE \E r \in Requests : ReadyContinues(r)
    BY <2>10, ContinueStep
  <2> QED  BY <1>2, <2>1, <2>2, <2>3, <2>4, <2>5, <2>6, <2>7, <2>8, <2>9, <2>10
           DEF DeliveryNext, Microtasks, Events
<1> QED  BY <1>1, <1>2

\* What every reachable state satisfies: the types, the pairing of the frame on the wire
\* with the mailbox's active one, and that every open interaction is covered.
THEOREM DeliveryInvariance == DeliverySpec => []DeliveryInv
BY DeliveryInitInv, DeliveryNextInv, PTL DEF DeliverySpec

\* The variables keep their types; the mailbox never has more than one frame under
\* way, and an acknowledgement on its way is for that frame.
THEOREM DeliveryTypeCorrect == DeliverySpec => []DeliveryTypeOK
<1>1. DeliveryInv => DeliveryTypeOK
  <2> SUFFICES ASSUME DeliveryInv PROVE DeliveryTypeOK
    OBVIOUS
  <2>1. host.state \in States /\ host.replay \subseteq host.asked /\ host.asked \subseteq Prompts
    BY DEF DeliveryInv, HostOK, Hosts
  <2>2. Len(mailbox.pending) <= MaxPending + 1 /\ mailbox.attempts \in 0..Retries
    <3>1. MailboxOK(mailbox) /\ Len(mailbox.pending) \in Nat
      BY DEF DeliveryInv, FramesOK, MailboxOK, Mailboxes
    <3> QED  BY <3>1, DeliveryAssumption DEF MailboxOK, Mailboxes
  <2>3. view.prompts \subseteq (1..host.live) \X Prompts
    BY DEF DeliveryInv, ViewOK
  <2>4. \A r \in Requests : ready[r].phase \in Phases
    BY DEF DeliveryInv, ViewOK
  <2>5. Matched(mailbox, wire)
    BY DEF DeliveryInv, FramesOK
  <2> QED  BY <2>1, <2>2, <2>3, <2>4, <2>5 DEF DeliveryTypeOK, Matched
<1> QED  BY <1>1, DeliveryInvariance, PTL

\* No interaction is lost: when nothing is under way between the extension and the
\* Webview, a Webview that shows the present connection shows all the backend asks.
THEOREM InteractionsAreKnown == DeliverySpec => []FactsKnown
<1>1. DeliveryInv => FactsKnown
  <2> SUFFICES ASSUME DeliveryInv, Quiet, Serving, NEW p \in host.replay
               PROVE  <<host.bound, p>> \in view.prompts
    BY DEF FactsKnown, Replayed
  <2>1. Covered(host.bound, p)
    BY DEF DeliveryInv, NothingLost
  <2>2. /\ ~view.rerun
        /\ \A r \in Requests : ready[r].phase = "none"
    BY DEF DeliveryInv, ViewOK, Quiet, Requests
  <2>3. ~Recovering(ready, view, host.bound, p)
    BY <2>2 DEF Recovering
  <2>4. DOMAIN wire = {} /\ DOMAIN mailbox.pending = {} /\ ~Scheduled(mailbox)
    BY DEF Quiet, Scheduled
  <2>5. ~Underway(mailbox, wire, host.bound, p)
    BY <2>4 DEF Underway, Resyncs, WireResyncs, Carries, WireCarries
  <2> QED  BY <2>1, <2>3, <2>5 DEF Covered, Shown
<1> QED  BY <1>1, DeliveryInvariance, PTL

-----------------------------------------------------------------------------
(* Nothing is stuck. *)

\* The frame that is not acknowledged is on the wire, and goes when it is.
OnItsWay(m, w) ==
  m.active # NoFrame =>
    /\ m.active.phase # "scheduled" /\ m.active.ack = "none" => \E i \in DOMAIN w : w[i].mine
    /\ m.active.phase = "posted" => m.active.ack # "taken"

\* What is queued while nothing is under way has a timer, or the retries were used up.
Pumped(m) == m.active = NoFrame /\ m.pending # <<>> => m.timer \/ m.rest # "none"

Attended(m, w) == OnItsWay(m, w) /\ Pumped(m)

-----------------------------------------------------------------------------
(* The functions of the mailbox. *)

\* pump() leaves nothing that could be taken.
LEMMA PumpAttends ==
  ASSUME NEW m \in Mailboxes, NEW w, OnItsWay(m, w), NEW b
  PROVE  Attended(Pump(m, b), w)
<1> DEFINE current == {i \in DOMAIN m.pending : Current(m.pending[i], b)}
           emptied == [m EXCEPT !.pending = <<>>]
           taken == [m EXCEPT !.pending = SubSeq(m.pending, Min(current) + 1, Len(m.pending)),
                              !.active = [entry |-> m.pending[Min(current)],
                                          phase |-> "scheduled", ack |-> "none"]]
<1>1. CASE m.active # NoFrame \/ m.timer \/ m.rest = "pause"
  <2>1. Pump(m, b) = m
    BY <1>1 DEF Pump
  <2> QED BY <1>1, <2>1 DEF Attended, Pumped
<1>2. CASE ~(m.active # NoFrame \/ m.timer \/ m.rest = "pause") /\ current = {}
  <2>1. Pump(m, b) = emptied
    BY <1>2 DEF Pump
  <2>2. emptied.pending = <<>> /\ emptied.active = NoFrame
    BY <1>2 DEF Mailboxes
  <2> HIDE DEF emptied
  <2> QED BY <2>1, <2>2 DEF Attended, Pumped, OnItsWay
<1>3. CASE ~(m.active # NoFrame \/ m.timer \/ m.rest = "pause") /\ current # {}
  <2>1. Pump(m, b) = taken
    BY <1>3 DEF Pump
  <2>2. m.pending[Min(current)] \in Messages
    <3>1. current \subseteq Nat /\ current \subseteq DOMAIN m.pending /\ m.pending \in Seq(Messages)
      BY DEF Mailboxes
    <3> HIDE DEF current
    <3>2. Min(current) \in DOMAIN m.pending
      BY <1>3, <3>1, LeastOf
    <3> QED BY <3>1, <3>2
  <2> HIDE DEF current
  <2>3. taken.active = [entry |-> m.pending[Min(current)], phase |-> "scheduled", ack |-> "none"]
    BY DEF Mailboxes
  <2>4. taken.active.phase = "scheduled" /\ taken.active # NoFrame
    BY <2>2, <2>3, NoFrameAssumption DEF Frames
  <2> HIDE DEF taken
  <2> QED BY <2>1, <2>4 DEF Attended, Pumped, OnItsWay
<1> QED BY <1>1, <1>2, <1>3

\* A new entry, or the overflow it causes, is taken or waits its turn.
LEMMA PostedAttends ==
  ASSUME NEW m \in Mailboxes, NEW w, Attended(m, w), NEW b, NEW e \in Messages
  PROVE  Attended(Enqueue(m, e, b), w) /\ Attended(Posted(m, e, b), w)
<1> DEFINE longer == [m EXCEPT !.pending = Append(m.pending, e)]
           over == [m EXCEPT !.pending = <<Resync>>]
<1>1. longer \in Mailboxes /\ over \in Mailboxes
  <2>1. Append(m.pending, e) \in Seq(Messages) /\ <<Resync>> \in Seq(Messages)
    BY ResyncIsMessage DEF Mailboxes
  <2> QED BY <2>1 DEF Mailboxes
<1>2. longer.active = m.active /\ over.active = m.active
  BY DEF Mailboxes
<1>3. Enqueue(m, e, b) \in {Pump(longer, b), Pump(over, b)}
  BY DEF Enqueue
<1> HIDE DEF longer, over
<1>4. OnItsWay(longer, w) /\ OnItsWay(over, w)
  BY <1>2 DEF Attended, OnItsWay
<1> QED BY <1>1, <1>3, <1>4, PumpAttends DEF Posted

\* A mailbox that is forgotten has nothing to attend to.
LEMMA ForgottenAttends == Forgotten \in Mailboxes /\ \A w : Attended(Forgotten, w)
BY ForgottenOK DEF MailboxOK, Forgotten, Attended, OnItsWay, Pumped

\* A frame whose post has ended and that is acknowledged goes.
LEMMA CompleteAttends ==
  ASSUME NEW m \in Mailboxes, NEW w, NEW b, m.active # NoFrame,
         m.active.phase # "scheduled" /\ m.active.ack = "none" => \E i \in DOMAIN w : w[i].mine
  PROVE  Attended(Complete(m, b), w)
<1>1. CASE m.active.phase = "posted" /\ m.active.ack = "taken"
  <2> DEFINE n == [m EXCEPT !.active = NoFrame, !.attempts = 0, !.rest = "none"]
  <2>1. n \in Mailboxes /\ n.active = NoFrame
    <3>1. 0 \in 0..Retries
      BY DeliveryAssumption
    <3> QED BY <3>1 DEF Mailboxes
  <2>2. Complete(m, b) = Pump(n, b)
    BY <1>1 DEF Complete
  <2> HIDE DEF n
  <2> QED BY <2>1, <2>2, PumpAttends DEF OnItsWay
<1>2. CASE ~(m.active.phase = "posted" /\ m.active.ack = "taken")
  <2>1. Complete(m, b) = m
    BY <1>2 DEF Complete
  <2> QED BY <1>2, <2>1 DEF Attended, OnItsWay, Pumped
<1> QED BY <1>1, <1>2

\* A failed frame waits for the retry, or for the traffic after the pause.
LEMMA FailedAttends ==
  ASSUME NEW m \in Mailboxes, NEW w
  PROVE  Attended(Failed(m), w)
<1> DEFINE n == Failed(m)
<1>1. /\ n.active = NoFrame
      /\ n.timer = (m.attempts < Retries)
      /\ n.rest = IF m.attempts < Retries THEN m.rest ELSE "pause"
  BY DEF Failed, Mailboxes
<1> HIDE DEF n
<1>2. Attended(n, w)
  BY <1>1 DEF Attended, OnItsWay, Pumped
<1> QED BY <1>2 DEF n

-----------------------------------------------------------------------------
(* The steps. *)

\* What the connection publishes is a host.
LEMMA HostsChange ==
  ASSUME host \in Hosts,
         Connect \/ ConnectFails \/ Connected \/ AttachBackend \/ Disconnect \/ Disconnected
  PROVE  \E h \in Hosts : Publish(h, mailbox, wire)
<1>1. \A s \in States : [host EXCEPT !.state = s] \in Hosts
  BY DEF Hosts
<1>2. [host EXCEPT !.state = "connected", !.live = host.live + 1] \in Hosts
  <2>1. host.live + 1 \in Nat /\ host.bound <= host.live + 1 /\ "connected" \in States
    BY DEF Hosts, States
  <2> QED BY <2>1 DEF Hosts
<1>3. host.live # 0 => [host EXCEPT !.bound = host.live, !.asked = {}, !.replay = {}] \in Hosts
  <2>1. {} \in SUBSET Prompts /\ host.live \in Nat /\ host.live <= host.live
    BY DEF Hosts
  <2> QED BY <2>1 DEF Hosts
<1>4. CASE AttachBackend
  <2>1. host.live # 0
    BY <1>4 DEF AttachBackend, Hosts
  <2> QED BY <1>3, <1>4, <2>1 DEF AttachBackend
<1>5. {"starting", "idle", "stopping"} \subseteq States
  BY DEF States
<1> QED BY <1>1, <1>2, <1>4, <1>5 DEF Connect, ConnectFails, Connected, Disconnect, Disconnected

\* The connection changes, or the backend speaks.
LEMMA HostAttends ==
  ASSUME DeliveryInv, Attended(mailbox, wire),
         \/ Connect \/ ConnectFails \/ Connected \/ AttachBackend \/ Disconnect \/ Disconnected
         \/ \E p \in Prompts : HostAsks(p) \/ HostSettles(p)
  PROVE  Attended(mailbox', wire')
<1> USE MailboxFacts
<1>1. \A e \in Messages : \A b : /\ Attended(Posted(mailbox, e, b), wire)
                                /\ \A w : Attended(Posted(Forgotten, e, b), w)
  BY PostedAttends, ForgottenAttends
<1>2. ASSUME NEW h \in Hosts, Publish(h, mailbox, wire) PROVE Attended(mailbox', wire')
  <2>1. Snapshot(h, "nobody") \in Messages
    BY SnapshotIsMessage
  <2> QED BY <1>1, <1>2, <2>1 DEF Publish
<1>3. ASSUME NEW h, NEW e \in Messages, BackendEvent(h, e) PROVE Attended(mailbox', wire')
  BY <1>1, <1>3 DEF BackendEvent
<1>4. host \in Hosts
  BY DEF DeliveryInv, HostOK
<1>5. CASE \/ Connect \/ ConnectFails \/ Connected \/ AttachBackend \/ Disconnect \/ Disconnected
  <2>1. PICK h : Publish(h, mailbox, wire) /\ h \in Hosts
    BY <1>4, <1>5, HostsChange
  <2> QED BY <1>2, <2>1
<1>6. CASE \E p \in Prompts : HostAsks(p) \/ HostSettles(p)
  <2>1. PICK p \in Prompts : HostAsks(p) \/ HostSettles(p)
    BY <1>6
  <2>2. Asks(host.bound, p, TRUE, "nobody") \in Messages /\ Settled(host.bound, p) \in Messages
    BY DEF Asks, Settled, Entry, Messages, States
  <2> QED BY <1>3, <2>1, <2>2 DEF HostAsks, HostSettles
<1> QED BY <1>5, <1>6

\* The frame under way is posted, acknowledged, or fails.
LEMMA FrameAttends ==
  ASSUME DeliveryInv, Attended(mailbox, wire),
         PostFrame \/ PostSucceeds \/ AckArrives \/ PostFails
  PROVE  Attended(mailbox', wire')
<1> USE MailboxFacts
<1> DEFINE posting == [mailbox EXCEPT !.active.phase = "posting"]
           over == [mailbox EXCEPT !.active.phase = "posted", !.active.ack = "taken"]
           posted == [mailbox EXCEPT !.active.phase = "posted"]
           acked == [mailbox EXCEPT !.active.ack = "taken"]
<1>1. ASSUME mailbox.active # NoFrame
      PROVE  /\ \A m \in {posting, over, posted, acked} :
                  m \in Mailboxes /\ m.active # NoFrame /\ m.active \in Frames
             /\ posting.active.phase = "posting" /\ posting.active.ack = mailbox.active.ack
             /\ over.active.phase = "posted" /\ over.active.ack = "taken"
             /\ posted.active.phase = "posted" /\ posted.active.ack = mailbox.active.ack
             /\ acked.active.phase = mailbox.active.phase /\ acked.active.ack = "taken"
  <2>1. mailbox.active \in Frames
    BY <1>1
  <2> DEFINE f == [mailbox.active EXCEPT !.phase = "posting"]
             g == [[mailbox.active EXCEPT !.phase = "posted"] EXCEPT !.ack = "taken"]
             h == [mailbox.active EXCEPT !.phase = "posted"]
             k == [mailbox.active EXCEPT !.ack = "taken"]
  <2>2. /\ {f, g, h, k} \subseteq Frames
        /\ f.phase = "posting" /\ f.ack = mailbox.active.ack
        /\ g.phase = "posted" /\ g.ack = "taken"
        /\ h.phase = "posted" /\ h.ack = mailbox.active.ack
        /\ k.phase = mailbox.active.phase /\ k.ack = "taken"
    BY <2>1 DEF Frames
  <2>3. /\ posting = [mailbox EXCEPT !.active = f]
        /\ over = [mailbox EXCEPT !.active = g]
        /\ posted = [mailbox EXCEPT !.active = h]
        /\ acked = [mailbox EXCEPT !.active = k]
    BY <2>1 DEF Mailboxes
  <2> HIDE DEF f, g, h, k, posting, over, posted, acked
  <2>4. \A x \in Frames : /\ [mailbox EXCEPT !.active = x] \in Mailboxes
                          /\ [mailbox EXCEPT !.active = x].active = x
    BY DEF Mailboxes
  <2> QED BY <2>2, <2>3, <2>4, NoFrameAssumption
<1> HIDE DEF posting, over, posted, acked
<1>2. CASE PostFrame
  <2>1. /\ mailbox.active # NoFrame /\ mailbox.active.phase = "scheduled"
        /\ mailbox.active.ack = "none"
    BY <1>2 DEF PostFrame, MailboxOK
  <2>2. CASE Current(mailbox.active.entry, host.bound)
    <3>1. mailbox' = posting /\ wire' = Append(wire, [entry |-> mailbox.active.entry, mine |-> TRUE])
      BY <1>2, <2>2 DEF PostFrame, posting
    <3>2. Len(wire) + 1 \in DOMAIN wire' /\ wire'[Len(wire) + 1].mine
      BY <3>1 DEF Wires
    <3> QED BY <1>1, <2>1, <3>1, <3>2 DEF Attended, OnItsWay, Pumped
  <2>3. CASE ~Current(mailbox.active.entry, host.bound)
    <3>1. mailbox' = Complete(over, host.bound) /\ wire' = wire
      BY <1>2, <2>3 DEF PostFrame, over
    <3> QED BY <1>1, <2>1, <3>1, CompleteAttends
  <2> QED BY <2>2, <2>3
<1>3. CASE PostSucceeds
  <2>1. /\ mailbox.active # NoFrame /\ mailbox.active.phase = "posting"
        /\ mailbox' = Complete(posted, host.bound) /\ wire' = wire
    BY <1>3 DEF PostSucceeds, posted
  <2> QED BY <1>1, <2>1, CompleteAttends DEF Attended, OnItsWay
<1>4. CASE AckArrives
  <2>1. /\ mailbox.active # NoFrame /\ mailbox' = Complete(acked, host.bound) /\ wire' = wire
    BY <1>4 DEF AckArrives, acked
  <2> QED BY <1>1, <2>1, CompleteAttends
<1>5. CASE PostFails
  BY <1>5, FailedAttends DEF PostFails
<1> QED BY <1>2, <1>3, <1>4, <1>5

\* The timers: pump() runs, or the pause is over.
LEMMA TimersAttend ==
  ASSUME DeliveryInv, Attended(mailbox, wire), RetryTimerFires \/ RestEnds
  PROVE  Attended(mailbox', wire')
<1> USE MailboxFacts
<1> DEFINE fired == [mailbox EXCEPT !.timer = FALSE]
           over == [mailbox EXCEPT !.rest = "over"]
<1>1. fired \in Mailboxes /\ fired.active = mailbox.active
  BY DEF Mailboxes
<1>2. over.active = mailbox.active /\ over.rest = "over"
  BY DEF Mailboxes
<1>3. CASE RetryTimerFires
  <2>1. mailbox' = Pump(fired, host.bound) /\ wire' = wire
    BY <1>3 DEF RetryTimerFires
  <2> HIDE DEF fired
  <2> QED BY <1>1, <2>1, PumpAttends DEF Attended, OnItsWay
<1>4. CASE RestEnds
  <2>1. mailbox' = over /\ wire' = wire
    BY <1>4 DEF RestEnds
  <2> HIDE DEF over
  <2> QED BY <1>2, <2>1 DEF Attended, OnItsWay, Pumped
<1> QED BY <1>3, <1>4

\* The frame that is taken from the wire is acknowledged; the others stay on it.
LEMMA TakenAttends ==
  ASSUME DeliveryInv, Attended(mailbox, wire), ViewTakes
  PROVE  Attended(mailbox', wire')
<1> USE MailboxFacts
<1> DEFINE sent == [mailbox EXCEPT !.active.ack = "sent"]
<1>1. wire # <<>> /\ wire' = Tail(wire)
  BY DEF ViewTakes
<1>2. /\ 1 \in DOMAIN wire /\ Head(wire) = wire[1]
      /\ \A i \in DOMAIN wire : i # 1 => i - 1 \in DOMAIN Tail(wire) /\ Tail(wire)[i - 1] = wire[i]
  BY <1>1 DEF Wires
<1>3. CASE wire[1].mine
  <2>1. mailbox' = sent /\ mailbox.active # NoFrame
    BY <1>2, <1>3 DEF ViewTakes, Matched
  <2>2. sent.active = [mailbox.active EXCEPT !.ack = "sent"] /\ mailbox.active \in Frames
    BY <2>1 DEF Mailboxes
  <2>3. sent.active.ack = "sent" /\ sent.active # NoFrame
    BY <2>2, NoFrameAssumption DEF Frames
  <2> HIDE DEF sent
  <2> QED BY <2>1, <2>3 DEF Attended, OnItsWay, Pumped
<1>4. CASE ~wire[1].mine
  <2>1. mailbox' = mailbox
    BY <1>2, <1>4 DEF ViewTakes
  <2>2. (\E i \in DOMAIN wire : wire[i].mine) => \E i \in DOMAIN wire' : wire'[i].mine
    BY <1>1, <1>2, <1>4
  <2> QED BY <2>1, <2>2 DEF Attended, OnItsWay
<1> QED BY <1>3, <1>4

\* A Webview that is replaced, and the requests of the new one.
LEMMA RequestsAttend ==
  ASSUME DeliveryInv, Attended(mailbox, wire),
         \/ Reload \/ ReadyProceeds \/ ReadyFails
         \/ \E r \in Requests : ReadyArrives(r) \/ ReadyContinues(r)
  PROVE  Attended(mailbox', wire')
<1> USE MailboxFacts
<1>1. host \in Hosts
  BY DEF DeliveryInv, HostOK
<1>2. CASE Reload
  BY <1>2, ForgottenAttends DEF Reload
<1>3. CASE ReadyFails
  BY <1>3 DEF ReadyFails
<1>4. CASE ReadyProceeds
  <2>1. Snapshot(host, "full") \in Messages
    BY <1>1, SnapshotIsMessage DEF Requests
  <2> QED BY <1>4, <2>1, PostedAttends DEF ReadyProceeds, Announce
<1>5. ASSUME NEW r \in Requests, ReadyArrives(r) PROVE Attended(mailbox', wire')
  <2>1. Snapshot(host, r) \in Messages
    BY <1>1, SnapshotIsMessage
  <2> QED BY <1>5, <2>1, PostedAttends, ForgottenAttends DEF ReadyArrives, Announce
<1>6. ASSUME NEW r \in Requests, ReadyContinues(r) PROVE Attended(mailbox', wire')
  <2>1. ASSUME NEW list \in SUBSET (Nat \X Prompts), ReplayFrom(r, list), wire' = wire
        PROVE  Attended(mailbox', wire')
    <3>1. \A q \in list : Asks(q[1], q[2], FALSE, r) \in Messages
      BY DEF Asks, Entry, Messages, States
    <3>2. \/ mailbox' = mailbox
          \/ \E q \in list : mailbox' = Enqueue(mailbox, Asks(q[1], q[2], FALSE, r), host.bound)
      BY <2>1 DEF ReplayFrom
    <3>3. \A e \in Messages : Attended(Enqueue(mailbox, e, host.bound), wire)
      BY PostedAttends
    <3> QED BY <2>1, <3>1, <3>2, <3>3
  <2>2. Replayed \in SUBSET (Nat \X Prompts)
    BY <1>1 DEF Replayed, Hosts
  <2>3. ready[r].list \in SUBSET (Nat \X Prompts)
    BY DEF DeliveryInv, ViewOK
  <2> QED BY <1>6, <2>1, <2>2, <2>3 DEF ReadyContinues
<1> QED BY <1>2, <1>3, <1>4, <1>5, <1>6

\* Every step leaves what is under way attended to.
LEMMA AttendedNext ==
  ASSUME DeliveryInv, Attended(mailbox, wire), [DeliveryNext]_deliveryVars
  PROVE  Attended(mailbox', wire')
<1>1. CASE UNCHANGED deliveryVars
  BY <1>1 DEF deliveryVars
<1>2. CASE DeliveryNext
  BY <1>2, HostAttends, FrameAttends, TimersAttend, TakenAttends, RequestsAttend
  DEF DeliveryNext, Microtasks, Events
<1> QED BY <1>1, <1>2

\* Unless the retries are used up, whatever is not at rest has a step ahead: no frame, no
\* queued entry, no recovery and no Webview is forgotten by overflows, resets, failed
\* posts and replaced Webviews (control-delivery.ts, host-event-subscription.ts).
THEOREM DeliveryIsNeverStuck == DeliverySpec => []NothingIsStuck
<1>1. DeliveryInit => Attended(mailbox, wire)
  BY ForgottenAttends DEF DeliveryInit, Starts
<1>2. DeliveryInv /\ Attended(mailbox, wire) => NothingIsStuck
  <2> SUFFICES ASSUME DeliveryInv, Attended(mailbox, wire) PROVE NothingIsStuck
    OBVIOUS
  <2>1. mailbox.active # NoFrame =>
          /\ mailbox.active.phase \in {"scheduled", "posting", "posted"}
          /\ mailbox.active.ack \in {"none", "sent", "taken"}
    BY MailboxFacts DEF Frames
  <2>2. mailbox.rest \in {"none", "pause", "over"}
    BY MailboxFacts DEF Mailboxes
  <2> QED BY <2>1, <2>2 DEF DeliveryInv, ViewOK, Attended, OnItsWay, Pumped, GaveUp, NothingIsStuck
<1>3. DeliveryInv /\ Attended(mailbox, wire) /\ [DeliveryNext]_deliveryVars => Attended(mailbox, wire)'
  BY AttendedNext
<1> QED BY <1>1, <1>2, <1>3, DeliveryInvariance, PTL DEF DeliverySpec

=============================================================================
