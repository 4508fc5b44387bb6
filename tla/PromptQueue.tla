----------------------------- MODULE PromptQueue -----------------------------
(***************************************************************************)
(* The prompts that wait in the inbox of a session: sending one and        *)
(* learning which row it became, the snapshots of the inbox, and the       *)
(* mutations of its rows.                                                  *)
(*   packages/dsh-adapter/src/repositories/session/prompt-queue.ts         *)
(*                                                                         *)
(* One session, and one prompt that is enqueued again and again: all calls *)
(* have the same key.  A call of enqueuePrompt() is an element of Enqueues *)
(* and names the attempt it begins, its request and the row that the host  *)
(* makes of it.  Timers fire at any time; promise reactions run at once.   *)
(* A definition named ...Bug is not part of the specification: it is a     *)
(* mistake that the definition after it could contain.                     *)
(***************************************************************************)
EXTENDS Naturals, Sequences, FiniteSets

CONSTANTS
  Enqueues,   \* calls of enqueuePrompt()
  Mutations,  \* calls of updateQueuedInput() and the other mutations of a row
  MaxCuts,    \* bound: states of the inbox
  NoCall      \* undefined

ASSUME PromptAssumption == NoCall \notin Enqueues \cup Mutations /\ MaxCuts \in Nat \ {0}

VARIABLES
  profile,   \* which adapter: where its snapshots come from; rows name their request
  inbox,     \* the host's rows, and what of them is under way
  cached,    \* what the repository holds for the session
  prompt,    \* each call of enqueuePrompt()
  attempts,  \* the identity promises that have not settled
  mutation   \* each call of a mutation

queueVars == <<profile, inbox, cached, prompt, attempts, mutation>>

Profiles == [baseline : {"subscription", "control", "control-follow"}, correlates : BOOLEAN]

\* rows, known: queues; cut: queueProjectionSequences, 0 is undefined;
\* pending: pendingQueueIdentities; tails: queueMutationTails.
NothingCached == [rows |-> {}, known |-> FALSE, cut |-> 0, owners |-> {}, pending |-> NoCall,
                  tails |-> [r \in Enqueues |-> NoCall]]

\* earlier: what had been asked for of the same row before.
NoMutation == [pc |-> "new", row |-> NoCall, removes |-> FALSE, behind |-> NoCall, earlier |-> {}]

QueueInit ==
  /\ profile \in Profiles
  /\ inbox = [log |-> <<{}>>, control |-> 1, follow |-> 0, sent |-> {}, gone |-> FALSE]
  /\ cached = NothingCached
  /\ prompt = [c \in Enqueues |-> [pc |-> "new", on |-> NoCall, before |-> {}]]
  /\ attempts = [open |-> {}, watching |-> {}, disowned |-> {}]
  /\ mutation = [m \in Mutations |-> NoMutation]

-----------------------------------------------------------------------------
(* The host.  The control stream carries each state of the inbox or skips   *)
(* to a later one; a follow stream carries the one it was opened at.        *)

Rows == inbox.log[Len(inbox.log)]

Changes(rows) ==
  /\ Len(inbox.log) < MaxCuts
  /\ inbox' = [inbox EXCEPT !.log = Append(@, rows), !.sent = @ \ rows]
  /\ UNCHANGED <<profile, cached, prompt, attempts, mutation>>

Commits(c) == c \in inbox.sent /\ Changes(Rows \cup {c})

\* The agent takes the row, or somebody removes it.
Claims(r) == r \in Rows /\ Changes(Rows \ {r})

FollowOpens ==
  /\ profile.baseline = "control-follow" /\ inbox.follow = 0
  /\ inbox' = [inbox EXCEPT !.follow = Len(inbox.log)]
  /\ UNCHANGED <<profile, cached, prompt, attempts, mutation>>

-----------------------------------------------------------------------------
(* Identity promises. *)

\* findNewQueuedInput(): the rows that may be taken for what an attempt sent.
Candidates(c, rows) ==
  LET new == rows \ prompt[c].before IN
  IF profile.correlates /\ c \in new THEN {c} ELSE new

SettleBug(cache, result) ==
  LET answer(c) == IF result[c] \in Enqueues THEN "ok" ELSE "failed" IN
  /\ cached' = [cache EXCEPT !.pending = IF DOMAIN result # {} THEN NoCall ELSE @,
                             !.owners = @ \cup ({result[c] : c \in DOMAIN result} \cap Enqueues)]
  /\ attempts' = [k \in DOMAIN attempts |-> attempts[k] \ DOMAIN result]
  /\ prompt' = [c \in Enqueues |->
       IF c \in DOMAIN result /\ prompt[c].pc \in {"sending", "confirming"}
       THEN [prompt[c] EXCEPT !.pc = answer(c)]
       ELSE IF prompt[c].pc = "joined" /\ prompt[c].on \in DOMAIN result
       THEN [prompt[c] EXCEPT !.pc = answer(prompt[c].on)]
       ELSE prompt[c]]

\* The attempts that result maps have an outcome: a row, or none.  Whoever waits
\* for one has it too, and the key is free again if it is the attempt's.
Settle(cache, result) ==
  LET answer(c) == IF result[c] \in Enqueues THEN "ok" ELSE "failed" IN
  /\ cached' = [cache EXCEPT !.pending = IF @ \in DOMAIN result THEN NoCall ELSE @,
                             !.owners = @ \cup ({result[c] : c \in DOMAIN result} \cap Enqueues)]
  /\ attempts' = [k \in DOMAIN attempts |-> attempts[k] \ DOMAIN result]
  /\ prompt' = [c \in Enqueues |->
       IF c \in DOMAIN result /\ prompt[c].pc \in {"sending", "confirming"}
       THEN [prompt[c] EXCEPT !.pc = answer(c)]
       ELSE IF prompt[c].pc = "joined" /\ prompt[c].on \in DOMAIN result
       THEN [prompt[c] EXCEPT !.pc = answer(prompt[c].on)]
       ELSE prompt[c]]

-----------------------------------------------------------------------------
(* remember() *)

\* clearQueueState().  Attempts under way go on, but nobody finds them by their key.
Cleared(cache) == [NothingCached EXCEPT !.tails = cache.tails]

Disown == attempts' = [attempts EXCEPT !.disowned = @ \cup attempts.open]

RememberBug(cut, rows) ==
  LET found == {c \in attempts.watching : Candidates(c, rows) # {}} IN
  \E result \in [found -> rows] :
    /\ \A c \in found : result[c] \in Candidates(c, rows)
    /\ Settle([cached EXCEPT !.rows = rows, !.known = TRUE, !.owners = rows,
                             !.cut = IF profile.baseline = "control-follow" THEN cut ELSE @],
              result)

\* A snapshot of the inbox replaces all that is known of its rows, unless it is
\* not newer than the last one, and settles the attempts that find their row in it.
Remember(cut, rows) ==
  IF profile.baseline = "control-follow" /\ cut <= cached.cut
  THEN UNCHANGED <<cached, attempts, prompt>>
  ELSE LET found == {c \in attempts.watching : Candidates(c, rows) # {}} IN
       \E result \in [found -> rows] :
         /\ \A c \in found : result[c] \in Candidates(c, rows)
         /\ Settle([cached EXCEPT !.rows = rows, !.known = TRUE, !.owners = rows,
                                  !.cut = IF profile.baseline = "control-follow" THEN cut ELSE @],
                   result)

ControlArrives ==
  \E cut \in inbox.control + 1 .. Len(inbox.log) :
    /\ inbox' = [inbox EXCEPT !.control = cut]
    /\ Remember(cut, inbox.log[cut])
    /\ UNCHANGED <<profile, mutation>>

FollowArrives ==
  /\ inbox.follow # 0
  /\ inbox' = [inbox EXCEPT !.follow = 0]
  /\ Remember(inbox.follow, inbox.log[inbox.follow])
  /\ UNCHANGED <<profile, mutation>>

\* session.subscribed: the session starts with no rows, and the host's follow.
SubscriptionArrives ==
  /\ profile.baseline = "subscription"
  /\ inbox' = [inbox EXCEPT !.control = IF Rows = {} THEN Len(inbox.log) ELSE Len(inbox.log) - 1]
  /\ cached' = [Cleared(cached) EXCEPT !.known = TRUE]
  /\ Disown
  /\ UNCHANGED <<profile, prompt, mutation>>

RemovalArrives ==
  /\ ~inbox.gone
  /\ inbox' = [inbox EXCEPT !.gone = TRUE]
  /\ cached' = Cleared(cached)
  /\ Disown
  /\ UNCHANGED <<profile, prompt, mutation>>

-----------------------------------------------------------------------------
(* enqueuePrompt() and listQueue() *)

\* The call joins the attempt of its key, or begins one.
Enqueue(c) ==
  /\ prompt[c].pc = "new"
  /\ \/ /\ cached.pending # NoCall
        /\ prompt' = [prompt EXCEPT ![c].pc = "joined", ![c].on = cached.pending]
        /\ UNCHANGED <<inbox, cached, attempts>>
     \/ /\ cached.pending = NoCall
        /\ prompt' = [prompt EXCEPT ![c].pc = "sending", ![c].before = cached.rows]
        /\ cached' = [cached EXCEPT !.pending = c]
        /\ attempts' = [attempts EXCEPT !.open = @ \cup {c}]
        /\ inbox' = [inbox EXCEPT !.sent = @ \cup {c}]
  /\ UNCHANGED <<profile, mutation>>

\* The host has accepted the prompt.  Its row is known already, or waited for.
Accepted(c) ==
  /\ prompt[c].pc = "sending" /\ \E i \in DOMAIN inbox.log : c \in inbox.log[i]
  /\ LET found == Candidates(c, cached.rows) IN
     \/ \E r \in found : Settle(cached, [x \in {c} |-> r])
     \/ /\ found = {}
        /\ prompt' = [prompt EXCEPT ![c].pc = "confirming"]
        /\ attempts' = [attempts EXCEPT !.watching = @ \cup {c}]
        /\ UNCHANGED cached
  /\ UNCHANGED <<profile, inbox, mutation>>

\* The request is refused, cancelled or lost; the host may commit it all the same.
RequestFails(c) ==
  /\ prompt[c].pc = "sending"
  /\ Settle(cached, [x \in {c} |-> "rejected"])
  /\ UNCHANGED <<profile, inbox, mutation>>

\* The timer of waitForQueuedIdentity().
GraceEnds(c) ==
  /\ c \in attempts.watching
  /\ Settle(cached, [x \in {c} |-> "unknown"])
  /\ UNCHANGED <<profile, inbox, mutation>>

\* awaitQueueIdentity(): the deadline of this call, or its signal.
GivesUp(c) ==
  /\ prompt[c].pc \in {"confirming", "joined"}
  /\ prompt' = [prompt EXCEPT ![c].pc = "failed"]
  /\ UNCHANGED <<profile, inbox, cached, attempts, mutation>>

\* listQueue() names the rows of the snapshot again.
ListQueue ==
  /\ cached.known
  /\ cached' = [cached EXCEPT !.owners = @ \cup cached.rows]
  /\ UNCHANGED <<profile, inbox, prompt, attempts, mutation>>

-----------------------------------------------------------------------------
(* Mutations of a row, one after the other. *)

\* ownerOf() and serializeQueueMutation().
Mutate(m, r) ==
  /\ mutation[m].pc = "new" /\ r \in cached.owners
  /\ \E removes \in BOOLEAN :
       mutation' = [mutation EXCEPT ![m] =
         [pc |-> "queued", row |-> r, removes |-> removes, behind |-> cached.tails[r],
          earlier |-> {n \in Mutations : mutation[n].row = r}]]
  /\ cached' = [cached EXCEPT !.tails[r] = m]
  /\ UNCHANGED <<profile, inbox, prompt, attempts>>

ItsTurn(m) == \A n \in Mutations : n = mutation[m].behind => mutation[n].pc = "over"

Begins(m) ==
  /\ mutation[m].pc = "queued" /\ ItsTurn(m)
  /\ mutation' = [mutation EXCEPT ![m].pc = "running"]
  /\ UNCHANGED <<profile, inbox, cached, prompt, attempts>>

ForgottenBug(tails, m) ==
  [r \in Enqueues |-> IF mutation[m].row = r THEN NoCall ELSE tails[r]]

\* The last of a row's mutations takes the row's entry with it.
Forgotten(tails, m) ==
  [r \in Enqueues |-> IF tails[r] = m THEN NoCall ELSE tails[r]]

\* A mutation whose turn has come is refused, because its signal fired or the row
\* has attachments an edit would drop; or its request is answered.
Ends(m) ==
  /\ \/ /\ mutation[m].pc = "queued" /\ ItsTurn(m)
        /\ UNCHANGED inbox
        /\ cached' = [cached EXCEPT !.tails = Forgotten(@, m)]
     \/ /\ mutation[m].pc = "running"
        /\ UNCHANGED inbox
        /\ \E removed \in {{}} \cup (IF mutation[m].removes THEN {{mutation[m].row}} ELSE {}) :
             cached' = [cached EXCEPT !.tails = Forgotten(@, m), !.owners = @ \ removed]
  /\ mutation' = [mutation EXCEPT ![m] = [NoMutation EXCEPT !.pc = "over", !.row = mutation[m].row]]
  /\ UNCHANGED <<profile, prompt, attempts>>

-----------------------------------------------------------------------------
QueueNext ==
  \/ \E c \in Enqueues : \/ Commits(c) \/ Claims(c)
                         \/ Enqueue(c) \/ Accepted(c) \/ RequestFails(c)
                         \/ GraceEnds(c) \/ GivesUp(c)
  \/ FollowOpens \/ ControlArrives \/ FollowArrives
  \/ SubscriptionArrives \/ RemovalArrives \/ ListQueue
  \/ \E m \in Mutations : (\E r \in Enqueues : Mutate(m, r)) \/ Begins(m) \/ Ends(m)

QueueSpec == QueueInit /\ [][QueueNext]_queueVars

-----------------------------------------------------------------------------
(* Properties. *)

\* One prompt for each intent: while the outcome of an attempt is open nothing is
\* sent for the same prompt, however attempts fail, time out or settle late.  For the
\* adapters whose snapshots are not tied to a subscription this holds of every session
\* that is there; for the others, of what has begun since the last subscription.
OneSend ==
  [][\A c \in Enqueues : prompt[c].pc = "new" /\ prompt'[c].pc = "sending" =>
       /\ attempts.open \subseteq attempts.disowned
       /\ attempts.open = {} \/ profile.baseline = "subscription" \/ inbox.gone]_queueVars

\* prompt-queue.ts: "a concurrent identical enqueue issued while this request is in
\* flight must wait for this attempt's outcome instead of sending a second
\* session.prompt to the host".
OneInFlight ==
  ~inbox.gone =>
    \A c, d \in Enqueues : prompt[c].pc = "sending" /\ prompt[d].pc = "sending" => c = d

\* Whatever order the snapshots of the two streams arrive in, the rows shown are
\* the host's once all of them have arrived.
QueueIsCurrent ==
  cached.known /\ ~inbox.gone /\ inbox.control = Len(inbox.log) /\ inbox.follow = 0 =>
    cached.rows = Rows

\* A mutation of a row is sent only when all that were asked for before it, of the
\* same row, have ended.
MutationsInOrder ==
  [][\A m \in Mutations : mutation[m].pc = "queued" /\ mutation'[m].pc = "running" =>
       \A n \in mutation[m].earlier : mutation[n].pc = "over"]_queueVars
=============================================================================
