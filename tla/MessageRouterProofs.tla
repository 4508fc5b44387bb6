------------------------- MODULE MessageRouterProofs -------------------------
(***************************************************************************)
(* What MessageRouter promises, for every set of surfaces, ids, keys and   *)
(* calls.                                                                  *)
(*                                                                         *)
(* None of the properties is inductive.  RouterInv adds why the code may   *)
(* rely on inFlight: an entry names a call that is under way, and a call   *)
(* that is under way in the life of its surface is the one its entry       *)
(* names.  Every action hands Becomes() the state it wants to leave; Sound *)
(* is the invariant of such a state, before what nothing refers to is      *)
(* forgotten, and the lemma Forgetting passes from one to the other.       *)
(***************************************************************************)
EXTENDS MessageRouter, TLAPS

InUse(cl) == {c \in Calls : cl[c] # Nobody}
SlotIn(cl, c) == <<cl[c].surface, cl[c].id>>

StateTyped(cl, fl, wt, ul, gn, dp) ==
  /\ cl \in [Calls -> CallRecords \cup {Nobody}]
  /\ fl \in [Surfaces \X Ids -> Calls \cup {Nobody}]
  /\ wt \subseteq InUse(cl) /\ ul \subseteq InUse(cl) /\ gn \subseteq InUse(cl)
  /\ dp \in BOOLEAN

\* An id is occupied by a call that is under way, in the present life of its
\* surface; after the shutdown none is.
SlotsSound(cl, fl, gn, dp) ==
  \A k \in Surfaces \X Ids :
    fl[k] # Nobody =>
      /\ fl[k] \in InUse(cl) /\ cl[fl[k]].phase # "settled"
      /\ SlotIn(cl, fl[k]) = k /\ fl[k] \notin gn /\ ~dp

\* A call under way occupies its id, unless its surface or the extension ended.
CallsSound(cl, fl, gn, dp) ==
  \A c \in InUse(cl) :
    cl[c].phase # "settled" /\ c \notin gn /\ ~dp => fl[SlotIn(cl, c)] = c

WaitsSound(cl, fl, wt, ul, gn, dp) ==
  /\ \A c \in ul : cl[c].phase = "settled"
  /\ \A c \in wt :
       /\ cl[c].kind = "attach" /\ c \notin gn /\ ~dp
       /\ \/ fl[SlotIn(cl, c)] = c /\ ~cl[c].aborted /\ cl[c].answer # "error"
          \/ c \in ul /\ cl[c].answer = "active" /\ cl[c].phase = "settled"

Sound(cl, fl, wt, ul, gn, dp) ==
  /\ StateTyped(cl, fl, wt, ul, gn, dp)
  /\ SlotsSound(cl, fl, gn, dp)
  /\ CallsSound(cl, fl, gn, dp)
  /\ WaitsSound(cl, fl, wt, ul, gn, dp)

RouterInv == Sound(call, inFlight, waits, unlinked, past, disposed)

-----------------------------------------------------------------------------

\* The type invariant and the ownership of waits are parts of RouterInv.
LEMMA InvImplies == RouterInv => RouterTypeOK /\ WaitOwned
<1> SUFFICES ASSUME RouterInv PROVE RouterTypeOK /\ WaitOwned
  OBVIOUS
<1>1. InUse(call) = Known
  BY DEF InUse, Known
<1>2. inFlight \in [Surfaces \X Ids -> Known \cup {Nobody}]
  BY <1>1 DEF RouterInv, Sound, StateTyped, SlotsSound
<1>3. RouterTypeOK
  BY <1>1, <1>2 DEF RouterInv, Sound, StateTyped, RouterTypeOK
<1>4. WaitOwned
  BY DEF RouterInv, Sound, WaitsSound, WaitOwned, Owns, Slot, SlotIn
<1> QED BY <1>3, <1>4

\* What a step leaves is sound after the calls nothing refers to are forgotten.
LEMMA Forgetting ==
  ASSUME NEW next, NEW waiting, NEW kept, NEW gone,
         Becomes(next, waiting, kept, gone),
         Sound(next, inFlight', waiting, kept, gone, disposed')
  PROVE  RouterInv'
<1> DEFINE alive == Remembered(next, waiting)
<1>1. /\ call' = [c \in Calls |-> IF c \in alive THEN next[c] ELSE Nobody]
      /\ waits' = waiting /\ unlinked' = kept \cap alive /\ past' = gone \cap alive
  BY DEF Becomes
<1>2. alive \subseteq InUse(next) /\ waiting \subseteq alive
  BY DEF Remembered, InUse, Sound, StateTyped
<1>3. InUse(call') = alive /\ \A c \in alive : call'[c] = next[c]
  BY <1>1, <1>2 DEF InUse
<1>4. StateTyped(call', inFlight', waits', unlinked', past', disposed')
  <2>1. call' \in [Calls -> CallRecords \cup {Nobody}]
    BY <1>1, <1>2 DEF Sound, StateTyped, InUse
  <2> QED BY <2>1, <1>1, <1>2, <1>3 DEF Sound, StateTyped
<1>5. \A c \in InUse(next) : next[c].phase # "settled" => c \in alive
  BY DEF InUse, Remembered
<1>6. SlotsSound(call', inFlight', past', disposed')
  BY <1>1, <1>3, <1>5 DEF Sound, SlotsSound, SlotIn
<1>7. CallsSound(call', inFlight', past', disposed')
  BY <1>1, <1>2, <1>3 DEF Sound, CallsSound, SlotIn
<1>8. WaitsSound(call', inFlight', waits', unlinked', past', disposed')
  BY <1>1, <1>2, <1>3 DEF Sound, WaitsSound, SlotIn
<1> QED BY <1>4, <1>6, <1>7, <1>8 DEF RouterInv, Sound

-----------------------------------------------------------------------------
(* Messages. *)

\* The calls in use are the same, and only whether they were aborted may differ.
Resembles(next) ==
  /\ next \in [Calls -> CallRecords \cup {Nobody}] /\ InUse(next) = InUse(call)
  /\ \A d \in InUse(call) :
       /\ next[d].surface = call[d].surface /\ next[d].id = call[d].id
       /\ next[d].kind = call[d].kind /\ next[d].phase = call[d].phase
       /\ next[d].answer = call[d].answer

\* Aborting calls leaves all else of them alone.
LEMMA AbortedResembles ==
  ASSUME RouterInv, NEW cs \in SUBSET Known
  PROVE  /\ Resembles(Aborted(cs))
         /\ \A d \in Calls \ cs : Aborted(cs)[d] = call[d]
<1> DEFINE next == Aborted(cs)
<1>1. call \in [Calls -> CallRecords \cup {Nobody}]
  BY DEF RouterInv, Sound, StateTyped
<1>2. \A d \in cs : call[d] \in CallRecords
  BY <1>1 DEF Known
<1>3. \A d \in cs :
        /\ next[d] = [call[d] EXCEPT !.aborted = TRUE]
        /\ next[d] \in CallRecords
        /\ next[d].surface = call[d].surface /\ next[d].id = call[d].id
        /\ next[d].kind = call[d].kind /\ next[d].phase = call[d].phase
        /\ next[d].answer = call[d].answer
  BY <1>2 DEF Aborted, Known, CallRecords
<1>4. \A d \in Calls \ cs : next[d] = call[d]
  BY DEF Aborted
<1>5. next \in [Calls -> CallRecords \cup {Nobody}]
  <2>1. next = [d \in Calls |-> next[d]]
    BY DEF Aborted
  <2>2. \A d \in Calls : next[d] \in CallRecords \cup {Nobody}
    BY <1>1, <1>3, <1>4
  <2> QED BY <2>1, <2>2
<1>6. InUse(next) = InUse(call)
  BY <1>3, <1>4, NobodyAssumption DEF InUse, Known
<1>7. \A d \in InUse(call) :
        /\ next[d].surface = call[d].surface /\ next[d].id = call[d].id
        /\ next[d].kind = call[d].kind /\ next[d].phase = call[d].phase
        /\ next[d].answer = call[d].answer
  <2>1. \A d \in InUse(call) : d \in cs \/ d \in Calls \ cs
    BY DEF InUse
  <2> HIDE DEF next
  <2> QED BY <2>1, <1>3, <1>4
<1> QED BY <1>4, <1>5, <1>6, <1>7 DEF Resembles

\* A message that takes a free id keeps the invariant, if the waits it ends are
\* those of the calls it aborts.
LEMMA Arrival ==
  ASSUME RouterInv, NEW c \in Calls, NEW r \in CallRecords, NEW next, NEW waiting,
         Arrives(c, r, next, waiting), Resembles(next),
         r.phase # "settled", ~r.aborted, r.answer # "error",
         waiting \subseteq waits \cup {c}, c \in waiting => r.kind = "attach",
         \A d \in waiting \ {c} : d \in unlinked \/ next[d].aborted = call[d].aborted
  PROVE  RouterInv'
<1> DEFINE k == <<r.surface, r.id>>
           nx == [next EXCEPT ![c] = r]
<1>1. /\ ~disposed /\ disposed' = disposed /\ call[c] = Nobody /\ inFlight[k] = Nobody
      /\ inFlight' = [inFlight EXCEPT ![k] = c]
      /\ Becomes(nx, waiting, unlinked, past)
  BY DEF Arrives, Occupied, RouterInv, Sound, StateTyped
<1>2. /\ StateTyped(call, inFlight, waits, unlinked, past, disposed)
      /\ SlotsSound(call, inFlight, past, disposed)
      /\ CallsSound(call, inFlight, past, disposed)
      /\ WaitsSound(call, inFlight, waits, unlinked, past, disposed)
  BY DEF RouterInv, Sound
<1>3. k \in Surfaces \X Ids /\ r # Nobody
  BY NobodyAssumption DEF CallRecords
<1>4. c \notin InUse(call) /\ c \notin waits /\ c \notin unlinked /\ c \notin past
  BY <1>1, <1>2 DEF InUse, StateTyped
<1>5. nx[c] = r /\ \A d \in Calls \ {c} : nx[d] = next[d]
  BY DEF Resembles
<1>6. InUse(nx) = InUse(call) \cup {c}
  BY <1>3, <1>5 DEF InUse, Resembles
<1>7. \A d \in InUse(call) : d # c /\ nx[d] = next[d] /\ SlotIn(nx, d) = SlotIn(call, d)
  BY <1>4, <1>5 DEF InUse, Resembles, SlotIn
<1>8. inFlight'[k] = c /\ \A j \in (Surfaces \X Ids) \ {k} : inFlight'[j] = inFlight[j]
  BY <1>1, <1>2, <1>3 DEF StateTyped
<1>9. StateTyped(nx, inFlight', waiting, unlinked, past, disposed')
  <2>1. nx \in [Calls -> CallRecords \cup {Nobody}]
    BY DEF Resembles
  <2>2. inFlight' \in [Surfaces \X Ids -> Calls \cup {Nobody}]
    BY <1>1, <1>2 DEF StateTyped
  <2>3. disposed' \in BOOLEAN /\ waits \subseteq InUse(call)
    BY <1>1, <1>2 DEF StateTyped
  <2>4. waiting \subseteq InUse(nx)
    BY <2>3, <1>6
  <2> HIDE DEF nx
  <2> QED BY <1>2, <1>6, <2>1, <2>2, <2>3, <2>4 DEF StateTyped
<1>10. SlotsSound(nx, inFlight', past, disposed')
  <2> SUFFICES ASSUME NEW j \in Surfaces \X Ids, inFlight'[j] # Nobody
               PROVE  /\ inFlight'[j] \in InUse(nx) /\ nx[inFlight'[j]].phase # "settled"
                      /\ SlotIn(nx, inFlight'[j]) = j /\ inFlight'[j] \notin past
                      /\ ~disposed'
    BY DEF SlotsSound
  <2>1. CASE j = k
    BY <2>1, <1>1, <1>4, <1>5, <1>6, <1>8 DEF SlotIn
  <2>2. CASE j # k
    <3> DEFINE d == inFlight[j]
    <3>1. inFlight'[j] = d
      BY <2>2, <1>8
    <3>2. /\ d \in InUse(call) /\ call[d].phase # "settled"
          /\ SlotIn(call, d) = j /\ d \notin past
      BY <3>1, <1>2 DEF SlotsSound
    <3>3. nx[d].phase = call[d].phase
      BY <3>2, <1>7 DEF Resembles
    <3> HIDE DEF d, nx
    <3> QED BY <3>1, <3>2, <3>3, <1>1, <1>6, <1>7
  <2> QED BY <2>1, <2>2
<1>11. CallsSound(nx, inFlight', past, disposed')
  <2> SUFFICES ASSUME NEW d \in InUse(nx), nx[d].phase # "settled", d \notin past
               PROVE  inFlight'[SlotIn(nx, d)] = d
    BY DEF CallsSound
  <2>1. CASE d = c
    BY <2>1, <1>5, <1>8 DEF SlotIn
  <2>2. CASE d # c
    <3>1. d \in InUse(call) /\ inFlight[SlotIn(call, d)] = d
      BY <2>2, <1>1, <1>2, <1>6, <1>7 DEF CallsSound, Resembles
    <3>2. SlotIn(call, d) \in (Surfaces \X Ids) \ {k}
      BY <3>1, <1>1, <1>2, NobodyAssumption DEF InUse, StateTyped, SlotIn, CallRecords
    <3> QED BY <3>1, <3>2, <1>7, <1>8
  <2> QED BY <2>1, <2>2
<1>12. WaitsSound(nx, inFlight', waiting, unlinked, past, disposed')
  <2>1. \A d \in unlinked : nx[d].phase = "settled"
    BY <1>2, <1>7 DEF WaitsSound, StateTyped, Resembles
  <2> SUFFICES ASSUME NEW d \in waiting
               PROVE  /\ nx[d].kind = "attach" /\ d \notin past /\ ~disposed'
                      /\ \/ /\ inFlight'[SlotIn(nx, d)] = d
                            /\ ~nx[d].aborted /\ nx[d].answer # "error"
                         \/ d \in unlinked /\ nx[d].answer = "active" /\ nx[d].phase = "settled"
    BY <2>1 DEF WaitsSound
  <2>2. CASE d = c
    BY <2>2, <1>1, <1>4, <1>5, <1>8 DEF SlotIn
  <2>3. CASE d # c
    <3>1. d \in waits /\ d \in InUse(call)
      BY <2>3, <1>2 DEF StateTyped
    <3>2. nx[d].kind = "attach" /\ d \notin past /\ ~disposed'
      BY <3>1, <1>1, <1>2, <1>7 DEF WaitsSound, Resembles
    <3>3. CASE d \in unlinked
      <4>1. call[d].phase = "settled"
        BY <3>3, <1>2 DEF WaitsSound
      <4>2. ~(inFlight[SlotIn(call, d)] = d)
        <5>1. SlotIn(call, d) \in Surfaces \X Ids
          BY <3>1, <1>2 DEF InUse, StateTyped, SlotIn, CallRecords
        <5>2. d # Nobody
          BY <3>1, NobodyAssumption DEF InUse
        <5> QED BY <4>1, <5>1, <5>2, <1>2 DEF SlotsSound
      <4>3. call[d].answer = "active"
        BY <3>1, <4>2, <1>2 DEF WaitsSound
      <4> QED BY <3>1, <3>2, <3>3, <4>1, <4>3, <1>7 DEF Resembles
    <3>4. CASE d \notin unlinked
      <4>1. inFlight[SlotIn(call, d)] = d /\ ~call[d].aborted /\ call[d].answer # "error"
        BY <3>1, <3>4, <1>2 DEF WaitsSound
      <4>2. SlotIn(call, d) \in (Surfaces \X Ids) \ {k}
        BY <3>1, <4>1, <1>1, <1>2, NobodyAssumption DEF InUse, StateTyped, SlotIn, CallRecords
      <4>3. nx[d].aborted = call[d].aborted /\ nx[d].answer = call[d].answer
        BY <2>3, <3>1, <3>4, <1>7 DEF Resembles
      <4> QED BY <3>1, <3>2, <4>1, <4>2, <4>3, <1>7, <1>8
    <3> QED BY <3>3, <3>4
  <2> QED BY <2>2, <2>3
<1>13. Sound(nx, inFlight', waiting, unlinked, past, disposed')
  BY <1>9, <1>10, <1>11, <1>12 DEF Sound
<1> HIDE DEF nx
<1> QED BY <1>1, <1>13, Forgetting

\* Every message keeps the invariant.
LEMMA MessagesKeepInv ==
  ASSUME RouterInv, NEW c \in Calls, NEW s \in Surfaces, NEW i \in Ids, NEW k \in WaitKeys,
         \/ HandleRequest(c, s, i, k) \/ HandleAttach(c, s, i, k)
         \/ HandleRelease(c, s, i, k) \/ \E target \in Ids : HandleCancel(c, s, i, k, target)
  PROVE  RouterInv'
<1>1. Resembles(call)
  BY DEF RouterInv, Sound, StateTyped, Resembles
<1>2. \A kind \in Kinds, phase \in Phases, answer \in Answers :
        LET r == NewCall(s, i, kind, k, phase, answer) IN
        /\ r \in CallRecords /\ r.phase = phase /\ r.answer = answer /\ r.kind = kind
        /\ ~r.aborted
  BY DEF NewCall, CallRecords
<1>3. CASE HandleRequest(c, s, i, k)
  <2> DEFINE r == NewCall(s, i, "request", k, "running", "none")
  <2>1. r \in CallRecords /\ r.phase = "running" /\ r.answer = "none" /\ ~r.aborted
    BY <1>2 DEF Kinds, Phases, Answers
  <2>2. c \notin waits
    BY <1>3 DEF HandleRequest, Arrives, RouterInv, Sound, StateTyped, InUse
  <2>3. Arrives(c, r, call, waits)
    BY <1>3 DEF HandleRequest
  <2> HIDE DEF r
  <2> QED BY <1>1, <2>1, <2>2, <2>3, Arrival
<1>4. CASE HandleAttach(c, s, i, k)
  <2> DEFINE r == NewCall(s, i, "attach", k, "running", "none")
  <2>1. /\ r \in CallRecords /\ r.phase = "running" /\ r.answer = "none" /\ ~r.aborted
        /\ r.kind = "attach"
    BY <1>2 DEF Kinds, Phases, Answers
  <2>2. Arrives(c, r, call, waits \cup {c})
    BY <1>4 DEF HandleAttach
  <2> HIDE DEF r
  <2> QED BY <1>1, <2>1, <2>2, Arrival
<1>5. CASE HandleRelease(c, s, i, k)
  <2> DEFINE r == NewCall(s, i, "release", k, "running", "none")
  <2>1. r \in CallRecords /\ r.phase = "running" /\ r.answer = "none" /\ ~r.aborted
    BY <1>2 DEF Kinds, Phases, Answers
  <2>2. c \notin waits
    BY <1>5 DEF HandleRelease, Arrives, RouterInv, Sound, StateTyped, InUse
  <2>3. Arrives(c, r, call, waits \ ReleasedBy(s, k))
    BY <1>5 DEF HandleRelease
  <2> HIDE DEF r
  <2> QED BY <1>1, <2>1, <2>2, <2>3, Arrival
<1>6. ASSUME NEW target \in Ids, HandleCancel(c, s, i, k, target)
      PROVE  RouterInv'
  <2> DEFINE r == NewCall(s, i, "cancel", k, "responding", "done")
             targets == CancelTarget(s, i, target)
             next == Aborted(targets)
             waiting == waits \ (targets \ unlinked)
  <2>1. r \in CallRecords /\ r.phase = "responding" /\ r.answer = "done" /\ ~r.aborted
    BY <1>2 DEF Kinds, Phases, Answers
  <2>2. Arrives(c, r, next, waiting)
    BY <1>6 DEF HandleCancel
  <2>3. c \notin waits
    BY <2>2 DEF Arrives, RouterInv, Sound, StateTyped, InUse
  <2>4. Resembles(next) /\ \A d \in Calls \ targets : next[d] = call[d]
    BY AbortedResembles DEF CancelTarget
  <2>5. waiting \subseteq waits /\ waits \subseteq Calls
    BY DEF RouterInv, Sound, StateTyped, InUse
  <2>6. \A d \in waiting \ {c} : d \in unlinked \/ next[d].aborted = call[d].aborted
    BY <2>4, <2>5
  <2> HIDE DEF r, next, waiting
  <2> QED BY <2>1, <2>2, <2>3, <2>4, <2>5, <2>6, Arrival
<1> QED BY <1>3, <1>4, <1>5, <1>6

-----------------------------------------------------------------------------
(* What a call awaits. *)

\* Only how far c is and what it says may differ.
Updates(next, c) ==
  /\ next \in [Calls -> CallRecords \cup {Nobody}] /\ InUse(next) = InUse(call)
  /\ \A d \in Calls \ {c} : next[d] = call[d]
  /\ \A d \in InUse(call) : SlotIn(next, d) = SlotIn(call, d)
  /\ next[c].kind = call[c].kind /\ next[c].aborted = call[c].aborted

\* A call in use can be given another phase and another answer.
LEMMA MovedUpdates ==
  ASSUME RouterInv, NEW c \in Known, NEW phase \in Phases, NEW says \in Answers
  PROVE  LET next == Moved(c, phase, says) IN
         Updates(next, c) /\ next[c].phase = phase /\ next[c].answer = says
<1> DEFINE next == Moved(c, phase, says)
           r == [call[c] EXCEPT !.phase = phase, !.answer = says]
<1>1. call \in [Calls -> CallRecords \cup {Nobody}] /\ call[c] \in CallRecords
  BY DEF RouterInv, Sound, StateTyped, Known
<1>2. /\ r \in CallRecords /\ r.surface = call[c].surface /\ r.id = call[c].id
      /\ r.kind = call[c].kind /\ r.aborted = call[c].aborted
      /\ r.phase = phase /\ r.answer = says
  BY <1>1 DEF CallRecords
<1>3. next = [call EXCEPT ![c] = r]
  BY <1>1 DEF Moved, Known
<1> HIDE DEF r, next
<1>4. next[c] = r /\ r # Nobody /\ \A d \in Calls \ {c} : next[d] = call[d]
  BY <1>1, <1>2, <1>3, NobodyAssumption DEF Known
<1>5. next \in [Calls -> CallRecords \cup {Nobody}]
  BY <1>1, <1>2, <1>3
<1>6. InUse(next) = InUse(call)
  BY <1>4 DEF InUse, Known
<1>7. \A d \in InUse(call) : SlotIn(next, d) = SlotIn(call, d)
  BY <1>2, <1>4 DEF InUse, SlotIn
<1> QED BY <1>2, <1>4, <1>5, <1>6, <1>7 DEF Updates, next

\* What a call in use says is one of Answers.
LEMMA AnswerTyped == ASSUME RouterInv, NEW c \in Known PROVE call[c].answer \in Answers
BY DEF RouterInv, Sound, StateTyped, Known, CallRecords

\* Neither its return nor its exception lets a handler break the invariant.
LEMMA CompletesKeepsInv ==
  ASSUME RouterInv, NEW c \in Known, call[c].phase = "running",
         NEW says \in Answers, NEW waiting \in SUBSET waits, says = "error" => c \notin waiting,
         Completes(c, says, waiting), UNCHANGED <<inFlight, disposed>>
  PROVE  RouterInv'
<1>1. /\ StateTyped(call, inFlight, waits, unlinked, past, disposed)
      /\ SlotsSound(call, inFlight, past, disposed)
      /\ CallsSound(call, inFlight, past, disposed)
      /\ WaitsSound(call, inFlight, waits, unlinked, past, disposed)
  BY DEF RouterInv, Sound
<1>2. c \in InUse(call) /\ c \notin unlinked
  BY <1>1 DEF Known, InUse, WaitsSound
<1>3. ASSUME NEW next, Updates(next, c), NEW w \in SUBSET waiting,
             Owns(c) => next[c].phase # "settled" /\ (next[c].answer # "error" \/ c \notin w),
             ~Owns(c) => next[c].phase = "settled" /\ c \notin w,
             Becomes(next, w, unlinked, past)
      PROVE  RouterInv'
  <2>1. StateTyped(next, inFlight', w, unlinked, past, disposed')
    BY <1>1, <1>3 DEF StateTyped, Updates
  <2>2. SlotsSound(next, inFlight', past, disposed')
    <3> SUFFICES ASSUME NEW j \in Surfaces \X Ids, inFlight[j] # Nobody
                 PROVE  /\ inFlight[j] \in InUse(next) /\ next[inFlight[j]].phase # "settled"
                        /\ SlotIn(next, inFlight[j]) = j /\ inFlight[j] \notin past
                        /\ ~disposed
      BY DEF SlotsSound
    <3>1. /\ inFlight[j] \in InUse(call) /\ call[inFlight[j]].phase # "settled"
          /\ SlotIn(call, inFlight[j]) = j /\ inFlight[j] \notin past /\ ~disposed
      BY <1>1 DEF SlotsSound
    <3>2. CASE inFlight[j] = c
      BY <3>1, <3>2, <1>3 DEF Owns, Slot, SlotIn, Updates
    <3>3. CASE inFlight[j] # c
      BY <3>1, <3>3, <1>3 DEF Updates, InUse
    <3> QED BY <3>2, <3>3
  <2>3. CallsSound(next, inFlight', past, disposed')
    <3> SUFFICES ASSUME NEW d \in InUse(call), next[d].phase # "settled", d \notin past,
                        ~disposed
                 PROVE  inFlight[SlotIn(next, d)] = d
      BY <1>3 DEF CallsSound, Updates
    <3>1. CASE d = c
      BY <3>1, <1>3 DEF Owns, Slot, SlotIn, Updates
    <3>2. CASE d # c
      BY <3>2, <1>1, <1>3 DEF CallsSound, Updates, InUse
    <3> QED BY <3>1, <3>2
  <2>4. WaitsSound(next, inFlight', w, unlinked, past, disposed')
    <3>1. \A d \in unlinked : next[d].phase = "settled"
      BY <1>1, <1>2, <1>3 DEF WaitsSound, StateTyped, Updates, InUse
    <3> SUFFICES ASSUME NEW d \in w
                 PROVE  /\ next[d].kind = "attach" /\ d \notin past /\ ~disposed
                        /\ \/ /\ inFlight[SlotIn(next, d)] = d
                              /\ ~next[d].aborted /\ next[d].answer # "error"
                           \/ /\ d \in unlinked /\ next[d].answer = "active"
                              /\ next[d].phase = "settled"
      BY <3>1 DEF WaitsSound
    <3>2. d \in waits /\ d \in InUse(call)
      BY <1>1, <1>3 DEF StateTyped
    <3>3. CASE d = c
      <4>1. /\ call[d].kind = "attach" /\ d \notin past /\ ~disposed
            /\ inFlight[SlotIn(call, d)] = d /\ ~call[d].aborted
        BY <3>2, <3>3, <1>1, <1>2 DEF WaitsSound
      <4>2. next[d].answer # "error"
        BY <3>3, <1>3
      <4> QED BY <3>2, <3>3, <4>1, <4>2, <1>3 DEF Updates
    <3>4. CASE d # c
      BY <3>2, <3>4, <1>1, <1>3 DEF WaitsSound, Updates, InUse
    <3> QED BY <3>3, <3>4
  <2> QED BY <1>3, <2>1, <2>2, <2>3, <2>4, Forgetting DEF Sound
<1>4. CASE Owns(c)
  <2> DEFINE next == Moved(c, "responding", says)
  <2>1. Updates(next, c) /\ next[c].phase = "responding" /\ next[c].answer = says
    BY MovedUpdates DEF Phases
  <2>2. Becomes(next, waiting, unlinked, past)
    BY <1>4 DEF Completes
  <2> HIDE DEF next
  <2> QED BY <1>3, <1>4, <2>1, <2>2
<1>5. CASE ~Owns(c)
  <2> DEFINE next == Moved(c, "settled", "none")
  <2>1. Updates(next, c) /\ next[c].phase = "settled"
    BY MovedUpdates DEF Phases, Answers
  <2>2. Becomes(next, waiting \ {c}, unlinked, past)
    BY <1>5 DEF Completes
  <2> HIDE DEF next
  <2> QED BY <1>3, <1>5, <2>1, <2>2
<1> QED BY <1>4, <1>5

-----------------------------------------------------------------------------
(* Responses, and the end of a surface. *)

\* A response that was taken or refused frees the id and keeps the invariant.
LEMMA PostKeepsInv ==
  ASSUME RouterInv, NEW c \in Calls, NEW delivered \in BOOLEAN, PostSettles(c, delivered)
  PROVE  RouterInv'
<1> DEFINE next == Moved(c, "settled", call[c].answer)
           w == IF Keeps(c, delivered) THEN waits ELSE waits \ {c}
           ul == IF Keeps(c, delivered) THEN unlinked \cup {c} ELSE unlinked
<1>1. /\ c \in Known /\ call[c].phase = "responding"
      /\ inFlight' = Freed(c) /\ disposed' = disposed
      /\ Becomes(next, w, ul, past)
  BY DEF PostSettles
<1>2. /\ StateTyped(call, inFlight, waits, unlinked, past, disposed)
      /\ SlotsSound(call, inFlight, past, disposed)
      /\ CallsSound(call, inFlight, past, disposed)
      /\ WaitsSound(call, inFlight, waits, unlinked, past, disposed)
  BY DEF RouterInv, Sound
<1>3. Updates(next, c) /\ next[c].phase = "settled" /\ next[c].answer = call[c].answer
  BY <1>1, MovedUpdates, AnswerTyped DEF Phases
<1>4. c \in InUse(call) /\ SlotIn(call, c) \in Surfaces \X Ids
  BY <1>1, <1>2 DEF Known, InUse, StateTyped, SlotIn, CallRecords
<1>5. \A j \in Surfaces \X Ids :
        inFlight'[j] = IF inFlight[j] = c THEN Nobody ELSE inFlight[j]
  <2> SUFFICES ASSUME NEW j \in Surfaces \X Ids
               PROVE  inFlight'[j] = IF inFlight[j] = c THEN Nobody ELSE inFlight[j]
    OBVIOUS
  <2>1. inFlight[j] = c => SlotIn(call, c) = j
    BY <1>2, <1>4, NobodyAssumption DEF SlotsSound, InUse
  <2> QED BY <2>1, <1>1, <1>2, <1>4 DEF Freed, Owns, Slot, SlotIn, StateTyped
<1> HIDE DEF next, w, ul
<1>6. StateTyped(next, inFlight', w, ul, past, disposed')
  <2>1. inFlight' \in [Surfaces \X Ids -> Calls \cup {Nobody}]
    BY <1>1, <1>2, <1>4 DEF Freed, StateTyped
  <2> QED BY <2>1, <1>1, <1>2, <1>3, <1>4 DEF StateTyped, Updates, w, ul
<1>7. SlotsSound(next, inFlight', past, disposed')
  <2> SUFFICES ASSUME NEW j \in Surfaces \X Ids, inFlight'[j] # Nobody
               PROVE  /\ inFlight'[j] \in InUse(next) /\ next[inFlight'[j]].phase # "settled"
                      /\ SlotIn(next, inFlight'[j]) = j /\ inFlight'[j] \notin past
                      /\ ~disposed'
    BY DEF SlotsSound
  <2>1. inFlight'[j] = inFlight[j] /\ inFlight[j] # c /\ inFlight[j] # Nobody
    BY <1>5
  <2> QED BY <2>1, <1>1, <1>2, <1>3 DEF SlotsSound, Updates, InUse
<1>8. CallsSound(next, inFlight', past, disposed')
  <2> SUFFICES ASSUME NEW d \in InUse(call), next[d].phase # "settled", d \notin past,
                      ~disposed
               PROVE  inFlight'[SlotIn(call, d)] = d
    BY <1>1, <1>3 DEF CallsSound, Updates
  <2>1. d # c /\ inFlight[SlotIn(call, d)] = d
    BY <1>2, <1>3 DEF CallsSound, Updates, InUse
  <2>2. SlotIn(call, d) \in Surfaces \X Ids
    BY <1>2 DEF InUse, StateTyped, SlotIn, CallRecords
  <2> QED BY <2>1, <2>2, <1>5
<1>9. WaitsSound(next, inFlight', w, ul, past, disposed')
  <2>1. \A d \in ul : next[d].phase = "settled"
    BY <1>2, <1>3 DEF WaitsSound, StateTyped, Updates, InUse, ul
  <2> SUFFICES ASSUME NEW d \in w
               PROVE  /\ next[d].kind = "attach" /\ d \notin past /\ ~disposed
                      /\ \/ /\ inFlight'[SlotIn(next, d)] = d
                            /\ ~next[d].aborted /\ next[d].answer # "error"
                         \/ d \in ul /\ next[d].answer = "active" /\ next[d].phase = "settled"
    BY <1>1, <2>1 DEF WaitsSound
  <2>2. d \in waits /\ d \in InUse(call) /\ call[d].kind = "attach" /\ d \notin past /\ ~disposed
    BY <1>2 DEF StateTyped, WaitsSound, w
  <2>3. CASE d = c
    <3>1. d \in ul /\ call[d].answer = "active"
      BY <2>3 DEF w, ul, Keeps
    <3> QED BY <2>2, <2>3, <3>1, <1>3 DEF Updates
  <2>4. CASE d # c
    <3>1. next[d] = call[d] /\ SlotIn(next, d) = SlotIn(call, d)
      BY <2>2, <2>4, <1>3 DEF Updates, InUse
    <3>2. SlotIn(call, d) \in Surfaces \X Ids
      BY <2>2, <1>2 DEF InUse, StateTyped, SlotIn, CallRecords
    <3>3. CASE inFlight[SlotIn(call, d)] = d /\ ~call[d].aborted /\ call[d].answer # "error"
      BY <2>2, <2>4, <3>1, <3>2, <3>3, <1>5
    <3>4. CASE d \in unlinked /\ call[d].answer = "active" /\ call[d].phase = "settled"
      BY <2>2, <3>1, <3>4 DEF ul
    <3> QED BY <2>2, <3>3, <3>4, <1>2 DEF WaitsSound
  <2> QED BY <2>3, <2>4
<1>10. Sound(next, inFlight', w, ul, past, disposed')
  BY <1>6, <1>7, <1>8, <1>9 DEF Sound
<1> QED BY <1>1, <1>10, Forgetting

\* The end of a surface keeps the invariant.
LEMMA CancelSurfaceKeepsInv ==
  ASSUME RouterInv, NEW s \in Surfaces, CancelSurface(s)
  PROVE  RouterInv'
<1> DEFINE next == Aborted(RunningOn({s}))
           w == waits \ WaitsOf(s)
           gone == past \cup {c \in Known : call[c].surface = s}
<1>1. /\ ~disposed /\ disposed' = disposed
      /\ inFlight' = [k \in DOMAIN inFlight |-> IF k[1] = s THEN Nobody ELSE inFlight[k]]
      /\ Becomes(next, w, unlinked, gone)
  BY DEF CancelSurface
<1>2. /\ StateTyped(call, inFlight, waits, unlinked, past, disposed)
      /\ SlotsSound(call, inFlight, past, disposed)
      /\ CallsSound(call, inFlight, past, disposed)
      /\ WaitsSound(call, inFlight, waits, unlinked, past, disposed)
  BY DEF RouterInv, Sound
<1>3. Resembles(next) /\ \A d \in Calls \ RunningOn({s}) : next[d] = call[d]
  BY AbortedResembles DEF RunningOn
<1>4. \A j \in Surfaces \X Ids : inFlight'[j] = IF j[1] = s THEN Nobody ELSE inFlight[j]
  BY <1>1, <1>2 DEF StateTyped
<1>5. \A d \in InUse(call) :
        /\ SlotIn(call, d) \in Surfaces \X Ids /\ SlotIn(next, d) = SlotIn(call, d)
        /\ SlotIn(call, d)[1] = call[d].surface
  BY <1>2, <1>3 DEF InUse, StateTyped, SlotIn, CallRecords, Resembles
<1> HIDE DEF next
<1>6. StateTyped(next, inFlight', w, unlinked, gone, disposed')
  <2>1. inFlight' \in [Surfaces \X Ids -> Calls \cup {Nobody}]
    BY <1>1, <1>2 DEF StateTyped
  <2>2. gone \subseteq InUse(call)
    BY <1>2 DEF StateTyped, Known, InUse
  <2> QED BY <2>1, <2>2, <1>1, <1>2, <1>3 DEF StateTyped, Resembles
<1>7. SlotsSound(next, inFlight', gone, disposed')
  <2> SUFFICES ASSUME NEW j \in Surfaces \X Ids, inFlight'[j] # Nobody
               PROVE  /\ inFlight'[j] \in InUse(next) /\ next[inFlight'[j]].phase # "settled"
                      /\ SlotIn(next, inFlight'[j]) = j /\ inFlight'[j] \notin gone
                      /\ ~disposed'
    BY DEF SlotsSound
  <2>1. inFlight'[j] = inFlight[j] /\ inFlight[j] # Nobody /\ j[1] # s
    BY <1>4
  <2>2. /\ inFlight[j] \in InUse(call) /\ call[inFlight[j]].phase # "settled"
        /\ SlotIn(call, inFlight[j]) = j /\ inFlight[j] \notin past
    BY <2>1, <1>2 DEF SlotsSound
  <2> QED BY <2>1, <2>2, <1>1, <1>3, <1>5 DEF Resembles
<1>8. CallsSound(next, inFlight', gone, disposed')
  <2> SUFFICES ASSUME NEW d \in InUse(call), next[d].phase # "settled", d \notin gone
               PROVE  inFlight'[SlotIn(next, d)] = d
    BY <1>3 DEF CallsSound, Resembles
  <2>1. call[d].surface # s
    BY DEF InUse, Known
  <2>2. inFlight[SlotIn(call, d)] = d
    BY <1>1, <1>2, <1>3 DEF CallsSound, Resembles
  <2> QED BY <2>1, <2>2, <1>4, <1>5
<1>9. WaitsSound(next, inFlight', w, unlinked, gone, disposed')
  <2>1. \A d \in unlinked : next[d].phase = "settled"
    BY <1>2, <1>3 DEF WaitsSound, StateTyped, Resembles
  <2> SUFFICES ASSUME NEW d \in w
               PROVE  /\ next[d].kind = "attach" /\ d \notin gone /\ ~disposed'
                      /\ \/ /\ inFlight'[SlotIn(next, d)] = d
                            /\ ~next[d].aborted /\ next[d].answer # "error"
                         \/ /\ d \in unlinked /\ next[d].answer = "active"
                            /\ next[d].phase = "settled"
    BY <2>1 DEF WaitsSound
  <2>2. /\ d \in waits /\ d \in InUse(call) /\ d \in Calls /\ call[d].kind = "attach"
        /\ d \notin past /\ call[d].surface # s
    BY <1>2 DEF StateTyped, WaitsSound, WaitsOf, InUse
  <2>3. next[d] = call[d]
    BY <2>2, <1>3 DEF RunningOn
  <2> QED BY <2>2, <2>3, <1>1, <1>2, <1>4, <1>5 DEF WaitsSound
<1>10. Sound(next, inFlight', w, unlinked, gone, disposed')
  BY <1>6, <1>7, <1>8, <1>9 DEF Sound
<1> QED BY <1>1, <1>10, Forgetting

\* The shutdown keeps the invariant.
LEMMA CancelAllKeepsInv ==
  ASSUME RouterInv, CancelAll
  PROVE  RouterInv'
<1> DEFINE next == Aborted(RunningOn(Surfaces))
<1>1. /\ disposed' = TRUE /\ inFlight' = [k \in DOMAIN inFlight |-> Nobody]
      /\ Becomes(next, {}, unlinked, past)
  BY DEF CancelAll
<1>2. /\ StateTyped(call, inFlight, waits, unlinked, past, disposed)
      /\ WaitsSound(call, inFlight, waits, unlinked, past, disposed)
  BY DEF RouterInv, Sound
<1>3. Resembles(next)
  BY AbortedResembles DEF RunningOn
<1> HIDE DEF next
<1>4. StateTyped(next, inFlight', {}, unlinked, past, disposed')
  BY <1>1, <1>2, <1>3 DEF StateTyped, Resembles
<1>5. SlotsSound(next, inFlight', past, disposed') /\ CallsSound(next, inFlight', past, disposed')
  BY <1>1, <1>2 DEF SlotsSound, CallsSound, StateTyped
<1>6. WaitsSound(next, inFlight', {}, unlinked, past, disposed')
  BY <1>2, <1>3 DEF WaitsSound, StateTyped, Resembles
<1>7. Sound(next, inFlight', {}, unlinked, past, disposed')
  BY <1>4, <1>5, <1>6 DEF Sound
<1> QED BY <1>1, <1>7, Forgetting

-----------------------------------------------------------------------------
(* The theorems. *)

\* Every step keeps the invariant.
LEMMA NextKeepsInv == RouterInv /\ [RouterNext]_routerVars => RouterInv'
<1> SUFFICES ASSUME RouterInv, [RouterNext]_routerVars PROVE RouterInv'
  OBVIOUS
<1>1. ASSUME NEW c \in Calls, NEW s \in Surfaces, NEW i \in Ids, NEW k \in WaitKeys,
             \/ HandleRequest(c, s, i, k) \/ HandleAttach(c, s, i, k)
             \/ HandleRelease(c, s, i, k) \/ \E target \in Ids : HandleCancel(c, s, i, k, target)
      PROVE  RouterInv'
  BY <1>1, MessagesKeepInv
<1>2. ASSUME NEW c \in Calls, NEW active \in BOOLEAN, HandlerReturns(c, active)
      PROVE  RouterInv'
  <2>1. waits \in SUBSET waits /\ (IF active THEN "active" ELSE "done") \in Answers \ {"error"}
    BY DEF Answers
  <2> QED BY <1>2, <2>1, CompletesKeepsInv DEF HandlerReturns
<1>3. ASSUME NEW c \in Calls, HandlerThrows(c)
      PROVE  RouterInv'
  <2>1. waits \ {c} \in SUBSET waits /\ "error" \in Answers
    BY DEF Answers
  <2> QED BY <1>3, <2>1, CompletesKeepsInv DEF HandlerThrows
<1>4. ASSUME NEW c \in Calls, NEW delivered \in BOOLEAN, PostSettles(c, delivered)
      PROVE  RouterInv'
  BY <1>4, PostKeepsInv
<1>5. ASSUME NEW s \in Surfaces, CancelSurface(s)
      PROVE  RouterInv'
  BY <1>5, CancelSurfaceKeepsInv
<1>6. CASE CancelAll
  BY <1>6, CancelAllKeepsInv
<1>7. CASE UNCHANGED routerVars
  BY <1>7 DEF routerVars, RouterInv, Sound, StateTyped, SlotsSound, CallsSound, WaitsSound,
              InUse, SlotIn
<1> QED BY <1>1, <1>2, <1>3, <1>4, <1>5, <1>6, <1>7 DEF RouterNext

\* The invariant holds at first.
LEMMA InitInv == RouterInit => RouterInv
BY DEF RouterInit, RouterInv, Sound, StateTyped, SlotsSound, CallsSound, WaitsSound, InUse

\* In every reachable state an occupied id names the one call under way that may
\* answer it, and every wait belongs to such a call or to an answer that was taken.
THEOREM RouterInvariance == RouterSpec => []RouterInv
<1>1. RouterInit => RouterInv
  BY InitInv
<1>2. RouterInv /\ [RouterNext]_routerVars => RouterInv'
  BY NextKeepsInv
<1> QED BY <1>1, <1>2, PTL DEF RouterSpec

\* The variables have their types, and no id is occupied by a call that is over.
THEOREM RouterTypeCorrect == RouterSpec => []RouterTypeOK
BY RouterInvariance, InvImplies, PTL

\* No question wait leaks: neither a failure, a cancellation, a refused response
\* nor the end of a surface leaves one behind.
THEOREM NoWaitLeaks == RouterSpec => []WaitOwned
BY RouterInvariance, InvImplies, PTL

\* A call that is under way is remembered with what the step hands to Becomes().
LEMMA UnderWayRemembered ==
  ASSUME NEW next, NEW waiting, NEW kept, NEW gone, Becomes(next, waiting, kept, gone)
  PROVE  \A d \in Calls :
           /\ Responding(d)' => next[d] # Nobody /\ next[d].phase = "responding"
           /\ next[d] # Nobody /\ next[d].phase = "responding" => call'[d] = next[d]
<1>1. call' = [d \in Calls |-> IF d \in Remembered(next, waiting) THEN next[d] ELSE Nobody]
  BY DEF Becomes
<1>2. \A d \in Calls : next[d] # Nobody /\ next[d].phase = "responding" =>
        d \in Remembered(next, waiting)
  BY DEF Remembered
<1> QED BY <1>1, <1>2 DEF Responding

\* Of the calls that respond after a message, only the one it starts is new.
LEMMA ArrivalResponds ==
  ASSUME RouterInv, NEW c \in Calls, NEW r \in CallRecords, NEW next, NEW waiting,
         Arrives(c, r, next, waiting), Resembles(next)
  PROVE  /\ \A d \in Calls : Responding(d)' =>
              IF d = c THEN r.phase = "responding" ELSE Responding(d)
         /\ Responding(c)' => Slot(c)' = <<r.surface, r.id>>
         /\ \A d \in Calls : Responding(d) => Slot(d)' = Slot(d)
<1> DEFINE nx == [next EXCEPT ![c] = r]
<1>1. call[c] = Nobody /\ Becomes(nx, waiting, unlinked, past)
  BY DEF Arrives, RouterInv, Sound, StateTyped
<1>2. nx[c] = r /\ \A d \in Calls \ {c} : nx[d] = next[d]
  BY DEF Resembles
<1>3. r # Nobody
  BY NobodyAssumption
<1> HIDE DEF nx
<1>4. \A d \in Calls \ {c} :
        /\ (nx[d] # Nobody /\ nx[d].phase = "responding") <=> Responding(d)
        /\ Responding(d) => nx[d].surface = call[d].surface /\ nx[d].id = call[d].id
  BY <1>2 DEF Resembles, InUse, Responding
<1> QED BY <1>1, <1>2, <1>3, <1>4, UnderWayRemembered DEF Responding, Slot

\* Of the calls that respond after a handler has settled, only its own is new.
LEMMA CompletesResponds ==
  ASSUME RouterInv, NEW c \in Known, NEW says \in Answers, NEW waiting,
         Completes(c, says, waiting)
  PROVE  /\ \A d \in Calls : Responding(d)' => Responding(d) \/ (d = c /\ Owns(c))
         /\ \A d \in Calls : Responding(d)' /\ Responding(d) => Slot(d)' = Slot(d)
         /\ Responding(c)' => Slot(c)' = Slot(c)
         /\ \A d \in Calls \ {c} : Responding(d) => Slot(d)' = Slot(d)
<1>1. ASSUME NEW next, NEW w, Becomes(next, w, unlinked, past), Updates(next, c),
             next[c].phase = "responding" => Owns(c)
      PROVE  /\ \A d \in Calls : Responding(d)' => Responding(d) \/ (d = c /\ Owns(c))
             /\ Responding(c)' => Slot(c)' = Slot(c)
             /\ \A d \in Calls \ {c} : Responding(d) => Slot(d)' = Slot(d)
  <2>1. \A d \in Calls \ {c} : next[d] = call[d]
    BY <1>1 DEF Updates
  <2>2. SlotIn(next, c) = SlotIn(call, c)
    BY <1>1 DEF Updates, Known, InUse
  <2>3. c \in Calls
    BY DEF Known
  <2>4. \A d \in Calls :
          /\ Responding(d)' => next[d] # Nobody /\ next[d].phase = "responding"
          /\ next[d] # Nobody /\ next[d].phase = "responding" => call'[d] = next[d]
    BY <1>1, UnderWayRemembered
  <2>5. \A d \in Calls \ {c} : Responding(d) => call'[d] = call[d]
    BY <2>1, <2>4 DEF Responding
  <2>6. \A d \in Calls : Responding(d)' => Responding(d) \/ (d = c /\ Owns(c))
    BY <1>1, <2>1, <2>3, <2>4 DEF Responding
  <2>7. Responding(c)' => Slot(c)' = Slot(c)
    BY <2>2, <2>3, <2>4 DEF Slot, SlotIn
  <2> QED BY <2>5, <2>6, <2>7 DEF Slot
<1>2. CASE Owns(c)
  <2> DEFINE next == Moved(c, "responding", says)
  <2>1. Updates(next, c)
    BY MovedUpdates DEF Phases
  <2>2. Becomes(next, waiting, unlinked, past)
    BY <1>2 DEF Completes
  <2> HIDE DEF next
  <2> QED BY <1>1, <1>2, <2>1, <2>2
<1>3. CASE ~Owns(c)
  <2> DEFINE next == Moved(c, "settled", "none")
  <2>1. Updates(next, c) /\ next[c].phase = "settled"
    BY MovedUpdates DEF Phases, Answers
  <2>2. Becomes(next, waiting \ {c}, unlinked, past)
    BY <1>3 DEF Completes
  <2> HIDE DEF next
  <2> QED BY <1>1, <1>3, <2>1, <2>2
<1> QED BY <1>2, <1>3

\* A response that settles, the end of a surface and the shutdown begin no response.
LEMMA OthersBeginNone ==
  ASSUME RouterInv,
         \/ \E c \in Calls, delivered \in BOOLEAN : PostSettles(c, delivered)
         \/ \E s \in Surfaces : CancelSurface(s)
         \/ CancelAll
  PROVE  \A d \in Calls : Responding(d)' => Responding(d)
<1>1. ASSUME NEW c \in Calls, NEW delivered \in BOOLEAN, PostSettles(c, delivered)
      PROVE  \A d \in Calls : Responding(d)' => Responding(d)
  <2> DEFINE next == Moved(c, "settled", call[c].answer)
  <2>1. c \in Known /\ \E w, ul : Becomes(next, w, ul, past)
    BY <1>1 DEF PostSettles
  <2>2. Updates(next, c) /\ next[c].phase = "settled"
    BY <2>1, MovedUpdates, AnswerTyped DEF Phases
  <2> HIDE DEF next
  <2> QED BY <2>1, <2>2, UnderWayRemembered DEF Updates, Responding
<1>2. ASSUME NEW S \in SUBSET Surfaces, NEW w, NEW gone,
             Becomes(Aborted(RunningOn(S)), w, unlinked, gone)
      PROVE  \A d \in Calls : Responding(d)' => Responding(d)
  <2> DEFINE next == Aborted(RunningOn(S))
  <2>1. Resembles(next)
    BY AbortedResembles DEF RunningOn
  <2> HIDE DEF next
  <2> QED BY <1>2, <2>1, UnderWayRemembered DEF next, Resembles, InUse, Responding
<1>3. ASSUME NEW s \in Surfaces, CancelSurface(s)
      PROVE  \A d \in Calls : Responding(d)' => Responding(d)
  BY <1>2, <1>3 DEF CancelSurface
<1>4. ASSUME CancelAll
      PROVE  \A d \in Calls : Responding(d)' => Responding(d)
  BY <1>2, <1>4 DEF CancelAll
<1> QED BY <1>1, <1>3, <1>4

\* The action of OneAnswer, for one call.
AnswersAlone(c) ==
  Responding(c)' /\ ~Responding(c) =>
    /\ ~disposed /\ c \notin past
    /\ \A d \in Known \ {c} : Responding(d) /\ d \notin past => Slot(d) # Slot(c)'

\* A call that responds in the life of its surface occupies its id.
LEMMA RespondingOwns ==
  ASSUME RouterInv, ~disposed, NEW d \in Known, Responding(d), d \notin past
  PROVE  inFlight[Slot(d)] = d /\ d # Nobody
BY NobodyAssumption DEF RouterInv, Sound, CallsSound, Responding, Known, InUse, Slot, SlotIn

\* A message begins at most its own answer, to an id nothing else answers.
LEMMA MessageAnswersAlone ==
  ASSUME RouterInv, NEW e \in Calls, NEW r \in CallRecords, NEW next, NEW waiting,
         Arrives(e, r, next, waiting), Resembles(next), NEW c \in Calls
  PROVE  AnswersAlone(c)
<1> SUFFICES ASSUME Responding(c)', ~Responding(c) PROVE
      /\ ~disposed /\ c \notin past
      /\ \A d \in Known \ {c} : Responding(d) /\ d \notin past => Slot(d) # Slot(c)'
  BY DEF AnswersAlone
<1>1. c = e /\ Slot(c)' = <<r.surface, r.id>>
  BY ArrivalResponds
<1>2. ~disposed /\ c \notin past /\ inFlight[<<r.surface, r.id>>] = Nobody
  BY <1>1 DEF Arrives, Occupied, RouterInv, Sound, StateTyped, InUse
<1>3. ASSUME NEW d \in Known \ {c}, Responding(d), d \notin past
      PROVE  Slot(d) # Slot(c)'
  <2>1. inFlight[Slot(d)] = d /\ d # Nobody
    BY <1>2, <1>3, RespondingOwns
  <2> QED BY <1>1, <1>2, <2>1
<1> QED BY <1>2, <1>3

\* Every message arrives as a new call, and does no more to another than abort it.
LEMMA MessageArrives ==
  ASSUME RouterInv, NEW c \in Calls, NEW s \in Surfaces, NEW i \in Ids, NEW k \in WaitKeys,
         \/ HandleRequest(c, s, i, k) \/ HandleAttach(c, s, i, k)
         \/ HandleRelease(c, s, i, k) \/ \E target \in Ids : HandleCancel(c, s, i, k, target)
  PROVE  \E kind \in Kinds, phase \in Phases, answer \in Answers : \E next, waiting :
           Arrives(c, NewCall(s, i, kind, k, phase, answer), next, waiting) /\ Resembles(next)
<1>1. Resembles(call)
  BY DEF RouterInv, Sound, StateTyped, Resembles
<1>2. \A target \in Ids : Resembles(Aborted(CancelTarget(s, i, target)))
  BY AbortedResembles DEF CancelTarget
<1>3. /\ {"request", "attach", "release", "cancel"} \subseteq Kinds
      /\ {"running", "responding"} \subseteq Phases /\ {"none", "done"} \subseteq Answers
  BY DEF Kinds, Phases, Answers
<1>4. CASE HandleRequest(c, s, i, k)
  BY <1>1, <1>3, <1>4 DEF HandleRequest
<1>5. CASE HandleAttach(c, s, i, k)
  BY <1>1, <1>3, <1>5 DEF HandleAttach
<1>6. CASE HandleRelease(c, s, i, k)
  BY <1>1, <1>3, <1>6 DEF HandleRelease
<1>7. CASE \E target \in Ids : HandleCancel(c, s, i, k, target)
  BY <1>2, <1>3, <1>7 DEF HandleCancel
<1> QED BY <1>4, <1>5, <1>6, <1>7

\* So does a handler that settles.
LEMMA CompletesAnswersAlone ==
  ASSUME RouterInv, NEW e \in Known, NEW says \in Answers, NEW waiting,
         Completes(e, says, waiting), NEW c \in Calls
  PROVE  AnswersAlone(c)
<1> SUFFICES ASSUME Responding(c)', ~Responding(c) PROVE
      /\ ~disposed /\ c \notin past
      /\ \A d \in Known \ {c} : Responding(d) /\ d \notin past => Slot(d) # Slot(c)'
  BY DEF AnswersAlone
<1>1. c = e /\ Owns(c) /\ Slot(c)' = Slot(c)
  BY CompletesResponds
<1>2. ~disposed /\ c \notin past
  <2>1. Slot(c) \in Surfaces \X Ids /\ c # Nobody
    BY <1>1, NobodyAssumption DEF RouterInv, Sound, StateTyped, Known, InUse, Slot, CallRecords
  <2> QED BY <1>1, <2>1 DEF RouterInv, Sound, SlotsSound, Owns
<1>3. ASSUME NEW d \in Known \ {c}, Responding(d), d \notin past
      PROVE  Slot(d) # Slot(c)'
  <2>1. inFlight[Slot(d)] = d
    BY <1>2, <1>3, RespondingOwns
  <2> QED BY <1>1, <2>1 DEF Owns
<1> QED BY <1>2, <1>3

\* No step of the router answers otherwise.
LEMMA NextAnswersAlone ==
  ASSUME RouterInv, [RouterNext]_routerVars, NEW c \in Calls
  PROVE  AnswersAlone(c)
<1>1. ASSUME NEW e \in Calls, NEW s \in Surfaces, NEW i \in Ids, NEW k \in WaitKeys,
             \/ HandleRequest(e, s, i, k) \/ HandleAttach(e, s, i, k)
             \/ HandleRelease(e, s, i, k) \/ \E target \in Ids : HandleCancel(e, s, i, k, target)
      PROVE  AnswersAlone(c)
  <2>1. PICK kind \in Kinds, phase \in Phases, answer \in Answers : \E next, waiting :
          Arrives(e, NewCall(s, i, kind, k, phase, answer), next, waiting) /\ Resembles(next)
    BY <1>1, MessageArrives
  <2>2. NewCall(s, i, kind, k, phase, answer) \in CallRecords
    BY DEF NewCall, CallRecords
  <2> QED BY <2>1, <2>2, MessageAnswersAlone
<1>2. ASSUME NEW e \in Calls, NEW active \in BOOLEAN, HandlerReturns(e, active)
      PROVE  AnswersAlone(c)
  <2>1. e \in Known /\ (IF active THEN "active" ELSE "done") \in Answers
    BY <1>2 DEF Answers, HandlerReturns
  <2> QED BY <1>2, <2>1, CompletesAnswersAlone DEF HandlerReturns
<1>3. ASSUME NEW e \in Calls, HandlerThrows(e)
      PROVE  AnswersAlone(c)
  <2>1. e \in Known /\ "error" \in Answers
    BY <1>3 DEF Answers, HandlerThrows
  <2> QED BY <1>3, <2>1, CompletesAnswersAlone DEF HandlerThrows
<1>4. CASE \/ \E e \in Calls, delivered \in BOOLEAN : PostSettles(e, delivered)
           \/ \E s \in Surfaces : CancelSurface(s)
           \/ CancelAll
  BY <1>4, OthersBeginNone DEF AnswersAlone
<1>5. CASE UNCHANGED routerVars
  BY <1>5 DEF routerVars, Responding, AnswersAlone
<1> QED BY <1>1, <1>2, <1>3, <1>4, <1>5 DEF RouterNext

\* A response goes out only in the life of the surface that asked, and while no
\* other response to that id is on its way there.
THEOREM AnswersAreSingle == RouterSpec => OneAnswer
<1> DEFINE Alone == \A c \in Calls : AnswersAlone(c)
<1>1. RouterInv /\ [RouterNext]_routerVars => Alone
  BY NextAnswersAlone
<1>2. RouterInv /\ [RouterNext]_routerVars =>
        [\A c \in Calls :
           Responding(c)' /\ ~Responding(c) =>
             /\ ~disposed /\ c \notin past
             /\ \A d \in Known \ {c} :
                  Responding(d) /\ d \notin past => Slot(d) # Slot(c)']_routerVars
  BY <1>1 DEF AnswersAlone
<1> QED BY <1>2, RouterInvariance, PTL DEF RouterSpec, OneAnswer

-----------------------------------------------------------------------------
(* A wait that was taken is kept. *)

\* A wait that ended without its release or the end of its surface was not taken.
LEMMA NextKeepsWaits ==
  ASSUME RouterInv, [RouterNext]_routerVars, NEW c \in (waits \ waits') \cap unlinked
  PROVE  \/ CancelAll \/ CancelSurface(call[c].surface)
         \/ \E d \in Calls, i \in Ids : HandleRelease(d, call[c].surface, i, call[c].key)
<1>1. c \in Known /\ c \in Calls /\ call[c].phase = "settled"
  BY DEF RouterInv, Sound, StateTyped, WaitsSound, InUse, Known
<1>2. ASSUME NEW e \in Calls, NEW s \in Surfaces, NEW i \in Ids, NEW k \in WaitKeys,
             HandleRelease(e, s, i, k)
      PROVE  s = call[c].surface /\ k = call[c].key
  BY <1>2 DEF HandleRelease, Arrives, Becomes, ReleasedBy
<1>3. ASSUME NEW e \in Calls, NEW s \in Surfaces, NEW i \in Ids, NEW k \in WaitKeys,
             \/ HandleRequest(e, s, i, k) \/ HandleAttach(e, s, i, k)
             \/ \E target \in Ids : HandleCancel(e, s, i, k, target)
      PROVE  FALSE
  BY <1>3 DEF HandleRequest, HandleAttach, HandleCancel, Arrives, Becomes
<1>4. ASSUME NEW e \in Known, call[e].phase # "settled", NEW says, NEW waiting,
             waits \ {e} \subseteq waiting, Completes(e, says, waiting)
      PROVE  FALSE
  BY <1>1, <1>4 DEF Completes, Becomes
<1>5. ASSUME NEW e \in Calls, NEW active \in BOOLEAN, HandlerReturns(e, active)
      PROVE  FALSE
  BY <1>4, <1>5 DEF HandlerReturns
<1>6. ASSUME NEW e \in Calls, HandlerThrows(e)
      PROVE  FALSE
  BY <1>4, <1>6 DEF HandlerThrows
<1>7. ASSUME NEW e \in Calls, NEW delivered \in BOOLEAN, PostSettles(e, delivered)
      PROVE  FALSE
  BY <1>1, <1>7 DEF PostSettles, Becomes
<1>8. ASSUME NEW s \in Surfaces, CancelSurface(s)
      PROVE  s = call[c].surface
  BY <1>8 DEF CancelSurface, Becomes, WaitsOf
<1>9. CASE UNCHANGED routerVars
  BY <1>9 DEF routerVars
<1> QED BY <1>2, <1>3, <1>5, <1>6, <1>7, <1>8, <1>9 DEF RouterNext

\* A wait the Webview was told is active ends only by its own release, by the end
\* of its surface, or with the extension.
THEOREM WaitsKept == RouterSpec => WaitKept
<1>1. RouterInv /\ [RouterNext]_routerVars =>
        [\A c \in (waits \ waits') \cap unlinked :
           LET s == call[c].surface IN
           \/ CancelAll \/ CancelSurface(s)
           \/ \E d \in Calls, i \in Ids : HandleRelease(d, s, i, call[c].key)]_routerVars
  BY NextKeepsWaits
<1> QED BY <1>1, RouterInvariance, PTL DEF RouterSpec, WaitKept
=============================================================================
