---------------------------- MODULE MessageRouter ----------------------------
(***************************************************************************)
(* The router that answers every Webview surface's requests and keeps the  *)
(* question waits they attach.                                             *)
(*   apps/extension/src/view/message-router.ts                             *)
(*                                                                         *)
(* A call of handle() is remembered until nothing refers to it: its        *)
(* handler and its response have settled and its wait, if any, has ended.  *)
(* The handler it awaits and the Webview that takes its response are not   *)
(* controlled: either may settle at any time, or after the surface has     *)
(* gone.  Invalid envelopes, which return at once, and what a response     *)
(* says beyond what the router does with it are left out.  A definition    *)
(* named ...Bug is not part of the specification: it is a mistake the      *)
(* definition after it could contain.                                      *)
(***************************************************************************)

CONSTANTS
  Surfaces,   \* surfaceId
  Ids,        \* requestId
  WaitKeys,   \* sessionId and callId of a question
  Calls,      \* bound: calls of handle() remembered at once
  Nobody      \* undefined

Kinds == {"request", "cancel", "attach", "release"}

VARIABLES
  call,       \* every remembered call: its envelope and how far it is
  inFlight,   \* the call that occupies a surface's request id
  waits,      \* the calls whose route questionWaits holds
  unlinked,   \* those whose route outlives its request: unlinkRequest() ran
  past,       \* history: the calls whose surface has been torn down since
  disposed    \* the extension has shut down

routerVars == <<call, inFlight, waits, unlinked, past, disposed>>

\* phase: "running" and "responding" are those of the code.
\* answer: what the response says; "active" is a payload that
\* isQuestionWaitActive() accepts.
Phases == {"running", "responding", "settled"}
Answers == {"none", "done", "active", "error"}

NewCall(surface, id, kind, key, phase, answer) ==
  [surface |-> surface, id |-> id, kind |-> kind, key |-> key, phase |-> phase,
   answer |-> answer, aborted |-> FALSE]
CallRecords ==
  [surface : Surfaces, id : Ids, kind : Kinds, key : WaitKeys, phase : Phases,
   answer : Answers, aborted : BOOLEAN]

ASSUME NobodyAssumption == Nobody \notin Calls /\ Nobody \notin CallRecords

Known == {c \in Calls : call[c] # Nobody}
Slot(c) == <<call[c].surface, call[c].id>>   \* requestKey() of a call
Owns(c) == inFlight[Slot(c)] = c

RouterInit ==
  /\ call = [c \in Calls |-> Nobody]
  /\ inFlight = [k \in Surfaces \X Ids |-> Nobody]
  /\ waits = {} /\ unlinked = {} /\ past = {} /\ disposed = FALSE

\* A step leaves the calls of next, and forgets those nothing refers to.
Remembered(next, waiting) ==
  {c \in Calls : next[c] # Nobody /\ (next[c].phase # "settled" \/ c \in waiting)}
Becomes(next, waiting, kept, gone) ==
  LET alive == Remembered(next, waiting) IN
  /\ call' = [c \in Calls |-> IF c \in alive THEN next[c] ELSE Nobody]
  /\ waits' = waiting
  /\ unlinked' = kept \cap alive
  /\ past' = gone \cap alive

-----------------------------------------------------------------------------
(* A message arrives. *)

OccupiedBug(s, i) == FALSE
\* A second envelope with an occupied id is ignored.
Occupied(s, i) == inFlight[<<s, i>>] # Nobody

Arrives(c, r, next, waiting) ==
  /\ ~disposed /\ call[c] = Nobody /\ ~Occupied(r.surface, r.id)
  /\ inFlight' = [inFlight EXCEPT ![<<r.surface, r.id>>] = c]
  /\ Becomes([next EXCEPT ![c] = r], waiting, unlinked, past)
  /\ UNCHANGED disposed

HandleRequest(c, s, i, k) ==
  Arrives(c, NewCall(s, i, "request", k, "running", "none"), call, waits)

\* beginQuestionWait() before the handler runs.
HandleAttach(c, s, i, k) ==
  Arrives(c, NewCall(s, i, "attach", k, "running", "none"), call, waits \cup {c})

\* abortQuestionWait() of every route with the surface's key.
ReleasedByBug(s, k) == {c \in waits : call[c].key = k}
ReleasedBy(s, k) == {c \in waits : call[c].surface = s /\ call[c].key = k}

HandleRelease(c, s, i, k) ==
  Arrives(c, NewCall(s, i, "release", k, "running", "none"), call,
          waits \ ReleasedBy(s, k))

\* The request a cancellation may abort: of the same surface, running, not aborted.
CancelTarget(s, i, target) ==
  {c \in Known : /\ target # i /\ inFlight[<<s, target>>] = c
                 /\ call[c].kind # "cancel" /\ call[c].phase = "running"
                 /\ ~call[c].aborted}

Aborted(cs) ==
  [c \in Calls |-> IF c \in cs THEN [call[c] EXCEPT !.aborted = TRUE] ELSE call[c]]

\* A cancellation is answered at once.  The abort of a request reaches the
\* route it attached, through abortRequest and abortLifetime.
HandleCancel(c, s, i, k, target) ==
  LET targets == CancelTarget(s, i, target) IN
  Arrives(c, NewCall(s, i, "cancel", k, "responding", "done"), Aborted(targets),
          waits \ (targets \ unlinked))

-----------------------------------------------------------------------------
(* What a call awaits. *)

Moved(c, phase, says) == [call EXCEPT ![c].phase = phase, ![c].answer = says]

CompletesBug(c, says, waiting) ==
  Becomes(Moved(c, "responding", says), waiting, unlinked, past)
\* complete(): the response goes out only if the call still owns its id; if
\* it does not, an attach aborts its route.
Completes(c, says, waiting) ==
  IF Owns(c)
  THEN Becomes(Moved(c, "responding", says), waiting, unlinked, past)
  ELSE Becomes(Moved(c, "settled", "none"), waiting \ {c}, unlinked, past)

HandlerReturns(c, active) ==
  /\ c \in Known /\ call[c].phase = "running"
  /\ active => call[c].kind = "attach"
  /\ Completes(c, IF active THEN "active" ELSE "done", waits)
  /\ UNCHANGED <<inFlight, disposed>>

\* It throws, or its response would not parse: the route goes first.
HandlerThrows(c) ==
  /\ c \in Known /\ call[c].phase = "running"
  /\ Completes(c, "error", waits \ {c})
  /\ UNCHANGED <<inFlight, disposed>>

KeepsBug(c, delivered) == call[c].answer = "active"
\* The route of an attach outlives its request only if the Webview took an
\* answer that says so.
Keeps(c, delivered) == delivered /\ call[c].answer = "active"

FreedBug(c) == inFlight
\* The finally of complete(): the id is free again, if it is still the call's.
Freed(c) == IF Owns(c) THEN [inFlight EXCEPT ![Slot(c)] = Nobody] ELSE inFlight

\* postMessage() settles.
PostSettles(c, delivered) ==
  /\ c \in Known /\ call[c].phase = "responding"
  /\ inFlight' = Freed(c)
  /\ Becomes(Moved(c, "settled", call[c].answer),
             IF Keeps(c, delivered) THEN waits ELSE waits \ {c},
             IF Keeps(c, delivered) THEN unlinked \cup {c} ELSE unlinked, past)
  /\ UNCHANGED disposed

-----------------------------------------------------------------------------
(* The end of a surface, and of the extension. *)

\* The requests that run under the ids of a set of surfaces.
RunningOn(S) ==
  {c \in Known : /\ call[c].surface \in S /\ Owns(c)
                 /\ call[c].kind # "cancel" /\ call[c].phase = "running"}

WaitsOfBug(s) == {c \in waits : call[c].surface = s /\ Owns(c)}
WaitsOf(s) == {c \in waits : call[c].surface = s}

CancelSurface(s) ==
  /\ ~disposed
  /\ inFlight' = [k \in DOMAIN inFlight |-> IF k[1] = s THEN Nobody ELSE inFlight[k]]
  /\ Becomes(Aborted(RunningOn({s})), waits \ WaitsOf(s), unlinked,
             past \cup {c \in Known : call[c].surface = s})
  /\ UNCHANGED disposed

\* Only the shutdown of the extension calls it, and no message follows.
CancelAll ==
  /\ ~disposed /\ disposed' = TRUE
  /\ inFlight' = [k \in DOMAIN inFlight |-> Nobody]
  /\ Becomes(Aborted(RunningOn(Surfaces)), {}, unlinked, past)

RouterNext ==
  \/ \E c \in Calls, s \in Surfaces, i \in Ids, k \in WaitKeys :
       \/ HandleRequest(c, s, i, k)
       \/ HandleAttach(c, s, i, k)
       \/ HandleRelease(c, s, i, k)
       \/ \E target \in Ids : HandleCancel(c, s, i, k, target)
  \/ \E c \in Calls, active \in BOOLEAN : HandlerReturns(c, active)
  \/ \E c \in Calls : HandlerThrows(c)
  \/ \E c \in Calls, delivered \in BOOLEAN : PostSettles(c, delivered)
  \/ \E s \in Surfaces : CancelSurface(s)
  \/ CancelAll

RouterSpec == RouterInit /\ [][RouterNext]_routerVars

-----------------------------------------------------------------------------
(* Properties. *)

\* The variables have their types; an id is occupied, and a wait is held, only by
\* a call that is still under way or waited for, so none is occupied for ever.
RouterTypeOK ==
  /\ call \in [Calls -> CallRecords \cup {Nobody}]
  /\ inFlight \in [Surfaces \X Ids -> Known \cup {Nobody}]
  /\ waits \subseteq Known /\ unlinked \subseteq Known /\ past \subseteq Known
  /\ disposed \in BOOLEAN

\* No question wait leaks: a wait the router holds was attached in the present
\* life of its surface, and either its request still occupies its id and has
\* neither failed nor been cancelled, or the Webview took the answer that keeps it.
WaitOwned ==
  \A c \in waits :
    /\ call[c].kind = "attach" /\ c \notin past /\ ~disposed
    /\ \/ Owns(c) /\ ~call[c].aborted /\ call[c].answer # "error"
       \/ c \in unlinked /\ call[c].answer = "active" /\ call[c].phase = "settled"

Responding(c) == call[c] # Nobody /\ call[c].phase = "responding"

\* One terminal answer: a response goes out only in the life of the surface
\* that asked, and while no other response to that id is on its way there.
OneAnswer ==
  [][\A c \in Calls :
       Responding(c)' /\ ~Responding(c) =>
         /\ ~disposed /\ c \notin past
         /\ \A d \in Known \ {c} :
              Responding(d) /\ d \notin past => Slot(d) # Slot(c)']_routerVars

\* A wait the Webview was told is active outlives its request and every other
\* message to its surface or another one: it ends only by a release of its own key
\* from its own surface, by the end of that surface, or with the extension.
WaitKept ==
  [][\A c \in (waits \ waits') \cap unlinked :
       LET s == call[c].surface IN
       \/ CancelAll \/ CancelSurface(s)
       \/ \E d \in Calls, i \in Ids : HandleRelease(d, s, i, call[c].key)]_routerVars
=============================================================================
