--------------------------- MODULE StreamLifecycle ---------------------------
(***************************************************************************)
(* Who reads a stream, and when: listeners come and go, generations fail   *)
(* and unwind, timers open the next one, restarts take a fresh baseline,   *)
(* and a gap of transient chunks asks for one.                             *)
(*   packages/dsh-adapter/src/stream-controller.ts                         *)
(*                                                                         *)
(* What a generation reads is the subject of StreamDelivery; here it is    *)
(* only whether it has read a frame and whether it misses a chunk.  Timers *)
(* fire at any time, so how long they run is left out.  A timer fires only *)
(* between two tasks of the event loop, never between the callbacks that   *)
(* follow one promise; restart() and the one callback that forgets its     *)
(* promise are one step.  The chunks are those of one session, and streams *)
(* without chunks of their own are never restarted.  A definition named    *)
(* ...Bug is not part of the specification: it is a mistake the definition *)
(* after it could contain.                                                 *)
(***************************************************************************)
EXTENDS Integers

CONSTANTS
  Listeners,     \* the callers of subscribe()
  MaxRecoveries  \* MAX_TRANSIENT_RECOVERIES

ASSUME MaxRecoveriesAssumption == MaxRecoveries \in Nat \ {0}

VARIABLES
  ended,      \* this.closed
  listeners,  \* those whose subscription is active
  reading,    \* how far the generation is, if any; fired: its lifetime was aborted
  retry,      \* reconnection timers: named is the one retryTimer holds, and
              \* stray tells whether others are pending that nothing clears
  restarting, \* restart() runs: restartTask is set
  lost,       \* connectionLost
  chunks      \* the transient chunks: missing is history, the rest is kept by
              \* transientRestartTimer, pendingTransientRestarts and the budget

lifeVars == <<ended, listeners, reading, retry, restarting, lost, chunks>>

\* unwinding: a reader has ended and the others are awaited.  reporting: the
\* listeners are being told.  leaving: the finally is about to run.
Stages == {"none", "open", "unwinding", "reporting", "leaving"}

NotReading == [stage |-> "none", fired |-> FALSE, heard |-> FALSE]
Generation == [stage |-> "open", fired |-> FALSE, heard |-> FALSE]

LifeInit ==
  /\ ended = FALSE /\ listeners = {} /\ reading = NotReading
  /\ retry = [named |-> FALSE, stray |-> FALSE]
  /\ restarting = FALSE /\ lost = FALSE
  /\ chunks = [missing |-> FALSE, pending |-> FALSE, cooling |-> FALSE,
               count |-> 0, degraded |-> FALSE]

\* startReading(), asked to when these listen.  A new generation begins with the
\* chunks it is given.
MayRead(ls) == ~ended /\ ls # {}
Opens(ls, kept) ==
  IF MayRead(ls)
  THEN reading' = Generation /\ chunks' = [kept EXCEPT !.missing = FALSE]
  ELSE reading' = NotReading /\ chunks' = kept

\* lifetime.abort()
Aborts == reading' = [reading EXCEPT !.fired = reading.stage # "none"]

ClearedBug == [chunks EXCEPT !.cooling = FALSE]
\* clearTransientRestart()
Cleared == [chunks EXCEPT !.cooling = FALSE, !.pending = FALSE]

-----------------------------------------------------------------------------
(* The callers. *)

\* A listener that comes while a generation unwinds or a restart is under way
\* leaves it to them to read.
Subscribe(l) ==
  /\ ~ended /\ l \notin listeners
  /\ listeners' = listeners \cup {l}
  /\ IF reading.stage = "none" /\ ~restarting
     THEN Opens(listeners', chunks)
     ELSE UNCHANGED <<reading, chunks>>
  /\ UNCHANGED <<ended, retry, restarting, lost>>

Unsubscribe(l) ==
  /\ l \in listeners
  /\ listeners' = listeners \ {l}
  /\ IF listeners' = {}
     THEN Aborts /\ retry' = [retry EXCEPT !.named = FALSE] /\ chunks' = Cleared
     ELSE UNCHANGED <<reading, retry, chunks>>
  /\ UNCHANGED <<ended, restarting, lost>>

CloseController ==
  /\ ~ended /\ ended' = TRUE
  /\ listeners' = {} /\ Aborts
  /\ retry' = [retry EXCEPT !.named = FALSE]
  /\ chunks' = Cleared
  /\ UNCHANGED <<restarting, lost>>

\* What restart() does before it awaits the generation it has aborted.
Restarts(kept) ==
  /\ restarting' = TRUE /\ Aborts
  /\ retry' = [retry EXCEPT !.named = FALSE]
  /\ chunks' = kept

\* restart(), asked for; while one is under way the caller joins it.
RestartAsked ==
  /\ ~ended /\ ~restarting
  /\ Restarts([Cleared EXCEPT !.count = 0, !.degraded = FALSE])
  /\ UNCHANGED <<ended, listeners, lost>>

\* The aborted generation has unwound.
RestartContinues ==
  /\ restarting /\ reading.stage = "none"
  /\ restarting' = FALSE
  /\ Opens(listeners, chunks)
  /\ UNCHANGED <<ended, listeners, retry, lost>>

-----------------------------------------------------------------------------
(* A generation. *)

Hears == reading.stage = "open" /\ ~reading.fired

\* The first frame proves that the connection is back.
FirstFrame ==
  /\ Hears /\ ~reading.heard
  /\ reading' = [reading EXCEPT !.heard = TRUE]
  /\ lost' = FALSE
  /\ UNCHANGED <<ended, listeners, retry, restarting, chunks>>

\* One of its streams ends, by itself or because it was aborted.
StreamEnds ==
  /\ reading.stage = "open"
  /\ reading' = [reading EXCEPT !.stage = "unwinding"]
  /\ UNCHANGED <<ended, listeners, retry, restarting, lost, chunks>>

\* The others have ended too.  Unless it was aborted the listeners are told,
\* and may call back before the reconnection is scheduled.
Unwound ==
  /\ reading.stage = "unwinding"
  /\ reading' = [reading EXCEPT !.stage = IF reading.fired THEN "leaving" ELSE "reporting"]
  /\ lost' = (lost \/ ~reading.fired)
  /\ UNCHANGED <<ended, listeners, retry, restarting, chunks>>

\* scheduleReconnect(): the timer retryTimer held, if any, goes astray.
ScheduleReconnect ==
  /\ reading.stage = "reporting"
  /\ reading' = [reading EXCEPT !.stage = "leaving"]
  /\ retry' = IF ended \/ listeners = {} THEN retry
              ELSE [named |-> TRUE, stray |-> retry.stray \/ retry.named]
  /\ UNCHANGED <<ended, listeners, restarting, lost, chunks>>

LeavesBug ==
  /\ reading.stage = "leaving"
  /\ reading' = NotReading
  /\ UNCHANGED <<chunks, ended, listeners, retry, restarting, lost>>

\* The finally of a generation reads again only if it was aborted: a listener
\* may have come since.  After a failure the timer does.
Leaves ==
  /\ reading.stage = "leaving"
  /\ IF reading.fired /\ ~restarting
     THEN Opens(listeners, chunks)
     ELSE reading' = NotReading /\ UNCHANGED chunks
  /\ UNCHANGED <<ended, listeners, retry, restarting, lost>>

-----------------------------------------------------------------------------
(* Timers. *)

\* No callback of a promise is due.
LoopIsIdle ==
  /\ reading.stage \notin {"reporting", "leaving"}
  /\ ~(restarting /\ reading.stage = "none")

ReconnectsBug ==
  IF reading.stage = "none"
  THEN reading' = Generation /\ chunks' = [chunks EXCEPT !.missing = FALSE]
  ELSE UNCHANGED <<reading, chunks>>
Reconnects ==
  IF reading.stage = "none" THEN Opens(listeners, chunks) ELSE UNCHANGED <<reading, chunks>>

\* It forgets the name retryTimer holds, its own or another's.
ReconnectFires ==
  /\ LoopIsIdle
  /\ \/ retry.named /\ retry' = [retry EXCEPT !.named = FALSE]
     \/ /\ retry.stray
        /\ \E more \in BOOLEAN : retry' = [named |-> FALSE, stray |-> retry.named \/ more]
  /\ Reconnects
  /\ UNCHANGED <<ended, listeners, restarting, lost>>

-----------------------------------------------------------------------------
(* Transient chunks. *)

\* The bounded queue of the host or the transport drops a chunk.
ChunkIsDropped ==
  /\ Hears /\ reading.heard /\ ~chunks.missing
  /\ chunks' = [chunks EXCEPT !.missing = TRUE]
  /\ UNCHANGED <<ended, listeners, reading, retry, restarting, lost>>

\* restartForTransientGap(), with the budget that is left: what no restart can
\* heal any more is given up, what one has to wait for is remembered.
RestartForGap(budget) ==
  IF budget.count >= MaxRecoveries
  THEN /\ chunks' = [budget EXCEPT !.degraded = TRUE]
       /\ UNCHANGED <<reading, retry, restarting>>
  ELSE IF budget.cooling \/ restarting
  THEN /\ chunks' = [budget EXCEPT !.pending = TRUE]
       /\ UNCHANGED <<reading, retry, restarting>>
  ELSE Restarts([budget EXCEPT !.count = @ + 1, !.cooling = TRUE, !.pending = FALSE])

\* A chunk follows the missing one.  Ten seconds after the last restart, and so
\* after its cooldown, the budget is renewed.
GapIsSeen ==
  /\ Hears /\ chunks.missing
  /\ \/ ~chunks.degraded /\ RestartForGap(chunks)
     \/ /\ ~chunks.cooling /\ chunks.count > 0
        /\ RestartForGap([chunks EXCEPT !.count = 0, !.degraded = FALSE])
  /\ UNCHANGED <<ended, listeners, lost>>

CooldownEndsBug ==
  /\ LoopIsIdle /\ chunks.cooling
  /\ chunks' = [chunks EXCEPT !.cooling = FALSE, !.pending = FALSE]
  /\ UNCHANGED <<reading, retry, restarting, ended, listeners, lost>>

\* The cooldown is over: flushTransientRestarts().  After a restart there is
\* nothing to flush, as it empties what is pending and hears no frame.
CooldownEnds ==
  /\ LoopIsIdle /\ chunks.cooling
  /\ LET over == [chunks EXCEPT !.cooling = FALSE] IN
     IF chunks.pending /\ ~restarting
     THEN IF MayRead(listeners) THEN RestartForGap([over EXCEPT !.pending = FALSE])
          ELSE chunks' = [over EXCEPT !.pending = FALSE] /\ UNCHANGED <<reading, retry, restarting>>
     ELSE chunks' = over /\ UNCHANGED <<reading, retry, restarting>>
  /\ UNCHANGED <<ended, listeners, lost>>

-----------------------------------------------------------------------------
LifeNext ==
  \/ \E l \in Listeners : Subscribe(l) \/ Unsubscribe(l)
  \/ CloseController \/ RestartAsked \/ RestartContinues
  \/ FirstFrame \/ StreamEnds \/ Unwound \/ ScheduleReconnect \/ Leaves
  \/ ReconnectFires
  \/ ChunkIsDropped \/ GapIsSeen \/ CooldownEnds

LifeSpec == LifeInit /\ [][LifeNext]_lifeVars

\* Timers fire, callbacks run, and a stream ends once its signal has fired; no
\* stream has to end by itself, and no chunk has to come.
LifeFairness ==
  /\ WF_lifeVars(RestartContinues) /\ WF_lifeVars(reading.fired /\ StreamEnds)
  /\ WF_lifeVars(Unwound) /\ WF_lifeVars(ScheduleReconnect) /\ WF_lifeVars(Leaves)
  /\ WF_lifeVars(ReconnectFires) /\ WF_lifeVars(CooldownEnds)

-----------------------------------------------------------------------------
(* Properties. *)

\* The variables have their types.  A restart leaves no gap pending and no
\* generation that hears; while one hears nobody is left with a lost connection;
\* and what is pending waits for a cooldown.
LifeTypeOK ==
  /\ {ended, restarting, lost} \subseteq BOOLEAN
  /\ listeners \subseteq Listeners
  /\ reading \in [stage : Stages, fired : BOOLEAN, heard : BOOLEAN]
  /\ retry \in [named : BOOLEAN, stray : BOOLEAN]
  /\ chunks \in [missing : BOOLEAN, pending : BOOLEAN, cooling : BOOLEAN,
                 count : 0 .. MaxRecoveries, degraded : BOOLEAN]
  /\ restarting => ~chunks.pending /\ ~Hears
  /\ Hears /\ reading.heard => ~lost
  /\ chunks.pending => chunks.cooling

\* Whoever listens is read for sooner or later, or leaves again: no listener is
\* stranded by a generation that unwinds, a restart or a failure.
NeverStranded ==
  listeners # {} ~> listeners = {} \/ Hears

\* A stream nobody listens to comes to rest, whatever timers and restarts it left
\* behind, and none of them opens it again.
RestsUnheard ==
  listeners = {} ~> listeners # {} \/ (reading.stage = "none" /\ ~restarting)

\* A gap that had to wait is healed by a fresh baseline, or given up, although no
\* frame follows it.
GapsHeal ==
  chunks.pending ~> ~chunks.missing \/ chunks.degraded \/ listeners = {}

\* The state behind NeverStranded and RestsUnheard.  While somebody listens a generation
\* reads, or something that will read again is under way: a generation that tells of its
\* failure or was aborted, a restart, a timer.  What nobody listens to, and what a restart
\* awaits, has been aborted.
ListenersAreServed ==
  /\ listeners # {} =>
       \/ reading.stage \in {"open", "unwinding", "reporting"}
       \/ reading.stage = "leaving" /\ reading.fired
       \/ restarting \/ retry.named \/ retry.stray
  /\ (listeners = {} \/ restarting) => (reading.stage = "none" \/ reading.fired)
  /\ ended => listeners = {}
=============================================================================
