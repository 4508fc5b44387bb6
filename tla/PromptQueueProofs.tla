------------------------- MODULE PromptQueueProofs -------------------------
(***************************************************************************)
(* What PromptQueue promises, for every set of calls and every history of  *)
(* the inbox.                                                              *)
(*                                                                         *)
(* QueueInv has a part for each property: an attempt that may still have   *)
(* an outcome holds its key (OneSend); the snapshot that is shown is the   *)
(* newest that has arrived (QueueIsCurrent); the mutations of a row form a *)
(* chain that ends in the row's tail (MutationsInOrder).  AttemptsKnown    *)
(* says when an attempt can be forgotten at all (OneRequestInFlight).      *)
(***************************************************************************)
EXTENDS PromptQueue, TLAPS

PromptPhases == {"new", "sending", "confirming", "joined", "ok", "failed"}

Prompts == [pc : PromptPhases, on : Enqueues \cup {NoCall}, before : SUBSET Enqueues]

Caches == [rows : SUBSET Enqueues, known : BOOLEAN, cut : Nat, owners : SUBSET Enqueues,
           pending : Enqueues \cup {NoCall}, tails : [Enqueues -> Mutations \cup {NoCall}]]

Attempts == [open : SUBSET Enqueues, watching : SUBSET Enqueues, disowned : SUBSET Enqueues]

MutationRecords == [pc : {"new", "queued", "running", "over"}, row : Enqueues \cup {NoCall},
                    removes : BOOLEAN, behind : Mutations \cup {NoCall},
                    earlier : SUBSET Mutations]

InboxOK ==
  /\ inbox \in [log : Seq(SUBSET Enqueues), control : Nat, follow : Nat,
                sent : SUBSET Enqueues, gone : BOOLEAN]
  /\ Len(inbox.log) > 0
  /\ inbox.control <= Len(inbox.log) /\ inbox.follow <= Len(inbox.log)

QueueTypeOK ==
  /\ profile \in Profiles
  /\ InboxOK
  /\ cached \in Caches
  /\ prompt \in [Enqueues -> Prompts]
  /\ attempts \in Attempts
  /\ mutation \in [Mutations -> MutationRecords]

\* An attempt that is open, and that no clear has made the repository forget, is
\* the one its key leads to.
KeyIsHeld == \A c \in attempts.open \ attempts.disowned : cached.pending = c

\* Which snapshot is shown.  Without cuts it is the last of the control stream,
\* or older than all of it; with cuts, one not older than the last of that stream.
SnapshotIsNewest ==
  /\ profile.baseline # "control-follow" =>
       /\ inbox.follow = 0
       /\ cached.known /\ inbox.control = Len(inbox.log) => cached.rows = Rows
  /\ profile.baseline = "control-follow" =>
       /\ cached.cut <= Len(inbox.log)
       /\ cached.known => cached.cut > 0 /\ cached.rows = inbox.log[cached.cut]
       /\ ~inbox.gone /\ cached.known => cached.cut >= inbox.control
       /\ ~cached.known => cached.cut = 0 /\ (inbox.gone \/ inbox.control = 1)

\* The mutations of a row that are not over wait in a chain.
RowsInChain ==
  /\ \A m \in Mutations :
       /\ mutation[m].pc = "new" => mutation[m].row = NoCall /\ mutation[m].earlier = {}
       /\ mutation[m].pc = "running" =>
            \A n \in mutation[m].earlier : mutation[n].pc = "over"
       /\ mutation[m].pc = "queued" =>
            \A n \in mutation[m].earlier :
              \/ mutation[n].pc = "over"
              \/ /\ mutation[m].behind \in Mutations
                 /\ mutation[mutation[m].behind].pc # "over"
                 /\ n = mutation[m].behind \/ n \in mutation[mutation[m].behind].earlier
  /\ \A r \in Enqueues :
       /\ cached.tails[r] # NoCall =>
            mutation[cached.tails[r]].row = r /\ mutation[cached.tails[r]].pc # "over"
       /\ \A n \in Mutations :
            mutation[n].row = r /\ mutation[n].pc # "over" =>
              /\ cached.tails[r] # NoCall
              /\ n = cached.tails[r] \/ n \in mutation[cached.tails[r]].earlier

QueueInv == QueueTypeOK /\ KeyIsHeld /\ SnapshotIsNewest /\ RowsInChain

-----------------------------------------------------------------------------
(* What settling attempts changes, and what it leaves. *)

\* Attempts have settled, in a repository that held cache.
Settled(cache) ==
  /\ cached' \in Caches /\ attempts' \in Attempts /\ prompt' \in [Enqueues -> Prompts]
  /\ cached'.rows = cache.rows /\ cached'.known = cache.known
  /\ cached'.cut = cache.cut /\ cached'.tails = cache.tails
  /\ \A c \in attempts'.open \ attempts'.disowned :
       /\ c \in attempts.open \ attempts.disowned
       /\ cache.pending = c => cached'.pending = c
  /\ attempts'.disowned \subseteq attempts.disowned
  /\ \A c \in Enqueues : prompt[c].pc = "new" => prompt'[c].pc = "new"
  /\ \A c \in Enqueues : prompt'[c].pc = "sending" =>
       prompt[c].pc = "sending" /\ (c \in attempts.open => c \in attempts'.open)

\* Settle frees no key but those of the attempts it settles, and starts nothing.
LEMMA Settling ==
  ASSUME QueueTypeOK, NEW cache \in Caches, NEW result, Settle(cache, result)
  PROVE  Settled(cache)
<1> DEFINE D == DOMAIN result
           answer(c) == IF result[c] \in Enqueues THEN "ok" ELSE "failed"
           found == {result[c] : c \in D} \cap Enqueues
<1>1. cached' = [cache EXCEPT !.pending = IF cache.pending \in D THEN NoCall ELSE cache.pending,
                              !.owners = cache.owners \cup found]
  BY DEF Settle, Caches
<1>2. /\ cached' \in Caches
      /\ cached'.rows = cache.rows /\ cached'.known = cache.known
      /\ cached'.cut = cache.cut /\ cached'.tails = cache.tails
      /\ cached'.pending = IF cache.pending \in D THEN NoCall ELSE cache.pending
  <2>1. found \subseteq Enqueues
    OBVIOUS
  <2> HIDE DEF D, found
  <2> QED  BY <1>1, <2>1 DEF Caches
<1>3. /\ attempts' \in Attempts
      /\ attempts'.open = attempts.open \ D /\ attempts'.disowned = attempts.disowned \ D
  <2>1. attempts' = [k \in DOMAIN attempts |-> attempts[k] \ D]
    BY DEF Settle
  <2>2. DOMAIN attempts = {"open", "watching", "disowned"}
    BY DEF QueueTypeOK, Attempts
  <2> HIDE DEF D
  <2> QED  BY <2>1, <2>2 DEF QueueTypeOK, Attempts
<1>4. \A c \in Enqueues :
        /\ prompt'[c] \in Prompts
        /\ prompt[c].pc = "new" => prompt'[c].pc = "new"
  <2> SUFFICES ASSUME NEW c \in Enqueues
               PROVE  /\ prompt'[c] \in Prompts
                      /\ prompt[c].pc = "new" => prompt'[c].pc = "new"
    OBVIOUS
  <2>1. prompt[c] \in Prompts
    BY DEF QueueTypeOK
  <2>2. \/ prompt'[c] = prompt[c]
        \/ /\ prompt[c].pc \in {"sending", "confirming", "joined"}
           /\ prompt'[c] = [prompt[c] EXCEPT !.pc = "ok"] \/ prompt'[c] = [prompt[c] EXCEPT !.pc = "failed"]
    BY DEF Settle
  <2> QED  BY <2>1, <2>2 DEF Prompts, PromptPhases
<1>5. prompt' \in [Enqueues -> Prompts]
  <2>1. prompt' = [c \in Enqueues |-> prompt'[c]]
    BY DEF Settle
  <2> QED  BY <1>4, <2>1
<1>6. \A c \in attempts'.open \ attempts'.disowned :
        /\ c \in attempts.open \ attempts.disowned
        /\ cache.pending = c => cached'.pending = c
  <2> HIDE DEF D
  <2> QED  BY <1>2, <1>3
<1>7. \A c \in Enqueues : prompt'[c].pc = "sending" => prompt[c].pc = "sending" /\ c \notin D
  <2> SUFFICES ASSUME NEW c \in Enqueues, prompt'[c].pc = "sending"
               PROVE  prompt[c].pc = "sending" /\ c \notin D
    OBVIOUS
  <2>1. prompt[c] \in Prompts
    BY DEF QueueTypeOK
  <2>2. \/ prompt'[c] = [prompt[c] EXCEPT !.pc = "ok"]
        \/ prompt'[c] = [prompt[c] EXCEPT !.pc = "failed"]
        \/ prompt'[c] = prompt[c] /\ ~(c \in D /\ prompt[c].pc \in {"sending", "confirming"})
    BY DEF Settle
  <2> HIDE DEF D
  <2> QED  BY <2>1, <2>2 DEF Prompts
<1>8. attempts'.disowned \subseteq attempts.disowned
  BY <1>3
<1> HIDE DEF D
<1> QED  BY <1>2, <1>3, <1>4, <1>5, <1>6, <1>7, <1>8 DEF Settled

\* A snapshot is dropped because it is not newer than the last, or it is shown.
LEMMA Remembering ==
  ASSUME QueueTypeOK, NEW cut \in 1 .. Len(inbox.log), Remember(cut, inbox.log[cut])
  PROVE  LET rows == inbox.log[cut]
             taken == IF profile.baseline = "control-follow" THEN cut ELSE cached.cut
         IN  \/ /\ profile.baseline = "control-follow" /\ cut <= cached.cut
                /\ UNCHANGED <<cached, attempts, prompt>>
             \/ /\ profile.baseline = "control-follow" => cut > cached.cut
                /\ Settled([cached EXCEPT !.rows = rows, !.known = TRUE, !.owners = rows,
                                          !.cut = taken])
<1> DEFINE rows == inbox.log[cut]
           taken == IF profile.baseline = "control-follow" THEN cut ELSE cached.cut
           shown == [cached EXCEPT !.rows = rows, !.known = TRUE, !.owners = rows, !.cut = taken]
<1>1. rows \in SUBSET Enqueues /\ cut \in Nat /\ cached.cut \in Nat
  BY DEF QueueTypeOK, InboxOK, Caches
<1>2. CASE profile.baseline = "control-follow" /\ cut <= cached.cut
  BY <1>2 DEF Remember
<1>3. CASE ~(profile.baseline = "control-follow" /\ cut <= cached.cut)
  <2>1. shown \in Caches
    BY <1>1 DEF QueueTypeOK, Caches
  <2>2. PICK result : Settle(shown, result)
    BY <1>3 DEF Remember, QueueTypeOK, Caches
  <2>3. Settled(shown)
    BY <2>1, <2>2, Settling
  <2> QED  BY <1>1, <1>3, <2>3
<1> QED  BY <1>2, <1>3

-----------------------------------------------------------------------------
(* The invariant is preserved.  The mutations' part is kept by every action *)
(* that is not about them.                                                  *)

\* RowsInChain speaks of the mutations and the tails only.
LEMMA ChainKept ==
  ASSUME RowsInChain, mutation' = mutation, cached'.tails = cached.tails
  PROVE  RowsInChain'
BY DEF RowsInChain

\* A step of the host only lengthens its log; what has arrived stays.
LEMMA HostKeepsInv ==
  ASSUME QueueInv, NEW rows \in SUBSET Enqueues, Changes(rows)
  PROVE  QueueInv'
<1> USE DEF QueueInv
<1>1. /\ UNCHANGED <<profile, cached, prompt, attempts, mutation>>
      /\ inbox' = [inbox EXCEPT !.log = Append(inbox.log, rows), !.sent = inbox.sent \ rows]
  BY DEF Changes
<1>2. /\ inbox'.log = Append(inbox.log, rows) /\ inbox'.log \in Seq(SUBSET Enqueues)
      /\ Len(inbox'.log) = Len(inbox.log) + 1 /\ Len(inbox.log) \in Nat
      /\ \A i \in 1 .. Len(inbox.log) : inbox'.log[i] = inbox.log[i]
      /\ inbox'.control = inbox.control /\ inbox'.follow = inbox.follow
      /\ inbox'.gone = inbox.gone
  BY <1>1 DEF QueueTypeOK, InboxOK
<1>3. QueueTypeOK'
  <2>1. inbox.sent \ rows \in SUBSET Enqueues
    BY DEF QueueTypeOK, InboxOK
  <2>2. inbox'.sent = inbox.sent \ rows /\ DOMAIN inbox' = DOMAIN inbox
    BY <1>1 DEF QueueTypeOK, InboxOK
  <2>3. inbox' = [log |-> inbox'.log, control |-> inbox.control, follow |-> inbox.follow,
                  sent |-> inbox.sent \ rows, gone |-> inbox.gone]
    BY <1>1, <1>2, <2>2 DEF QueueTypeOK, InboxOK
  <2>4. InboxOK'
    BY <1>2, <2>1, <2>3 DEF QueueTypeOK, InboxOK
  <2> QED  BY <1>1, <2>4 DEF QueueTypeOK
<1>4. SnapshotIsNewest'
  BY <1>1, <1>2 DEF QueueTypeOK, InboxOK, SnapshotIsNewest, Caches
<1>5. KeyIsHeld'
  BY <1>1 DEF KeyIsHeld
<1> QED  BY <1>1, <1>3, <1>4, <1>5, ChainKept

\* A follow stream is opened at the state the inbox has then.
LEMMA FollowOpensKeepsInv == QueueInv /\ FollowOpens => QueueInv'
<1> SUFFICES ASSUME QueueInv, FollowOpens PROVE QueueInv'
  OBVIOUS
<1> USE DEF QueueInv
<1>1. QueueTypeOK'
  BY DEF FollowOpens, QueueTypeOK, InboxOK
<1>2. SnapshotIsNewest'
  BY DEF FollowOpens, QueueTypeOK, InboxOK, SnapshotIsNewest, Caches, Rows
<1>3. KeyIsHeld'
  BY DEF FollowOpens, KeyIsHeld
<1>4. RowsInChain'
  BY ChainKept DEF FollowOpens
<1> QED  BY <1>1, <1>2, <1>3, <1>4

\* A step that settles attempts, and shows no other snapshot.
LEMMA SettlingKeepsInv ==
  ASSUME QueueInv, Settled(cached), UNCHANGED <<profile, inbox, mutation>>
  PROVE  QueueInv'
<1> USE DEF QueueInv
<1>1. QueueTypeOK'
  BY DEF Settled, QueueTypeOK, InboxOK
<1>2. KeyIsHeld'
  BY DEF Settled, KeyIsHeld
<1>3. SnapshotIsNewest'
  BY DEF Settled, SnapshotIsNewest, Rows
<1>4. RowsInChain'
  BY ChainKept DEF Settled
<1> QED  BY <1>1, <1>2, <1>3, <1>4

\* The control stream delivers a newer state of the inbox than it did before.
LEMMA ControlKeepsInv == QueueInv /\ ControlArrives => QueueInv'
<1> SUFFICES ASSUME QueueInv, ControlArrives PROVE QueueInv'
  OBVIOUS
<1> USE DEF QueueInv
<1>1. PICK cut \in inbox.control + 1 .. Len(inbox.log) :
        /\ inbox' = [inbox EXCEPT !.control = cut]
        /\ Remember(cut, inbox.log[cut])
        /\ UNCHANGED <<profile, mutation>>
  BY DEF ControlArrives
<1>2. /\ cut \in 1 .. Len(inbox.log) /\ cut \in Nat /\ cut > inbox.control
      /\ inbox'.control = cut /\ inbox'.log = inbox.log /\ inbox'.follow = inbox.follow
      /\ inbox'.gone = inbox.gone /\ inbox.log[cut] \in SUBSET Enqueues
      /\ InboxOK'
  BY <1>1 DEF QueueTypeOK, InboxOK
<1>3. CASE /\ profile.baseline = "control-follow" /\ cut <= cached.cut
           /\ UNCHANGED <<cached, attempts, prompt>>
  <2>1. QueueTypeOK' /\ KeyIsHeld'
    BY <1>1, <1>2, <1>3 DEF QueueTypeOK, KeyIsHeld
  <2>2. SnapshotIsNewest'
    BY <1>1, <1>2, <1>3 DEF SnapshotIsNewest, QueueTypeOK, InboxOK, Caches
  <2>3. RowsInChain'
    BY <1>1, <1>3, ChainKept
  <2> QED  BY <2>1, <2>2, <2>3
<1>4. CASE /\ profile.baseline = "control-follow" => cut > cached.cut
           /\ Settled([cached EXCEPT !.rows = inbox.log[cut], !.known = TRUE,
                          !.owners = inbox.log[cut],
                          !.cut = IF profile.baseline = "control-follow" THEN cut ELSE cached.cut])
  <2>1. QueueTypeOK'
    BY <1>1, <1>2, <1>4 DEF QueueTypeOK, Settled
  <2>2. KeyIsHeld'
    BY <1>4 DEF KeyIsHeld, Settled, QueueTypeOK, Caches
  <2>3. /\ cached'.rows = inbox.log[cut] /\ cached'.known
        /\ cached'.cut = IF profile.baseline = "control-follow" THEN cut ELSE cached.cut
        /\ cached'.tails = cached.tails
    BY <1>4 DEF Settled, QueueTypeOK, Caches
  <2>4. SnapshotIsNewest'
    BY <1>1, <1>2, <2>3 DEF SnapshotIsNewest, QueueTypeOK, InboxOK, Rows
  <2>5. RowsInChain'
    BY <1>1, <2>3, ChainKept
  <2> QED  BY <2>1, <2>2, <2>4, <2>5
<1> QED  BY <1>1, <1>2, <1>3, <1>4, Remembering

\* A follow stream delivers the state it was opened at, however old.
LEMMA FollowKeepsInv == QueueInv /\ FollowArrives => QueueInv'
<1> SUFFICES ASSUME QueueInv, FollowArrives PROVE QueueInv'
  OBVIOUS
<1> USE DEF QueueInv
<1> DEFINE cut == inbox.follow
<1>1. /\ cut # 0 /\ inbox' = [inbox EXCEPT !.follow = 0]
      /\ Remember(cut, inbox.log[cut])
      /\ UNCHANGED <<profile, mutation>>
  BY DEF FollowArrives
<1>2. /\ cut \in 1 .. Len(inbox.log) /\ cut \in Nat
      /\ inbox'.follow = 0 /\ inbox'.log = inbox.log /\ inbox'.control = inbox.control
      /\ inbox'.gone = inbox.gone /\ inbox.log[cut] \in SUBSET Enqueues
      /\ InboxOK' /\ profile.baseline = "control-follow"
  BY <1>1 DEF QueueTypeOK, InboxOK, SnapshotIsNewest
<1> HIDE DEF cut
<1>3. CASE /\ profile.baseline = "control-follow" /\ cut <= cached.cut
           /\ UNCHANGED <<cached, attempts, prompt>>
  <2>1. QueueTypeOK' /\ KeyIsHeld'
    BY <1>1, <1>2, <1>3 DEF QueueTypeOK, KeyIsHeld
  <2>2. SnapshotIsNewest'
    BY <1>1, <1>2, <1>3 DEF SnapshotIsNewest, QueueTypeOK, InboxOK, Caches
  <2>3. RowsInChain'
    BY <1>1, <1>3, ChainKept
  <2> QED  BY <2>1, <2>2, <2>3
<1>4. CASE /\ profile.baseline = "control-follow" => cut > cached.cut
           /\ Settled([cached EXCEPT !.rows = inbox.log[cut], !.known = TRUE,
                          !.owners = inbox.log[cut],
                          !.cut = IF profile.baseline = "control-follow" THEN cut ELSE cached.cut])
  <2>1. QueueTypeOK'
    BY <1>1, <1>2, <1>4 DEF QueueTypeOK, Settled
  <2>2. KeyIsHeld'
    BY <1>4 DEF KeyIsHeld, Settled, QueueTypeOK, Caches
  <2>3. /\ cached'.rows = inbox.log[cut] /\ cached'.known
        /\ cached'.cut = cut
        /\ cached'.tails = cached.tails
    BY <1>2, <1>4 DEF Settled, QueueTypeOK, Caches
  <2>4. SnapshotIsNewest'
    BY <1>1, <1>2, <1>4, <2>3 DEF SnapshotIsNewest, QueueTypeOK, InboxOK, Caches
  <2>5. RowsInChain'
    BY <1>1, <2>3, ChainKept
  <2> QED  BY <2>1, <2>2, <2>4, <2>5
<1> QED  BY <1>1, <1>2, <1>3, <1>4, Remembering

\* A subscription and a removal forget everything but the tails, and every attempt.
LEMMA ClearingKeepsInv == QueueInv /\ (SubscriptionArrives \/ RemovalArrives) => QueueInv'
<1> SUFFICES ASSUME QueueInv, SubscriptionArrives \/ RemovalArrives PROVE QueueInv'
  OBVIOUS
<1> USE DEF QueueInv
<1>1. /\ attempts' = [attempts EXCEPT !.disowned = attempts.disowned \cup attempts.open]
      /\ UNCHANGED <<profile, prompt, mutation>>
  BY DEF SubscriptionArrives, RemovalArrives, Disown
<1>2. \/ cached' = [Cleared(cached) EXCEPT !.known = TRUE]
      \/ cached' = Cleared(cached)
  BY DEF SubscriptionArrives, RemovalArrives
<1>3. /\ cached' \in Caches /\ cached'.tails = cached.tails /\ cached'.rows = {} /\ cached'.cut = 0
  <2>1. cached.tails \in [Enqueues -> Mutations \cup {NoCall}]
    BY DEF QueueTypeOK, Caches
  <2>2. /\ Cleared(cached) \in Caches /\ Cleared(cached).tails = cached.tails
        /\ Cleared(cached).rows = {} /\ Cleared(cached).cut = 0
    <3>1. /\ NothingCached \in Caches
          /\ NothingCached.rows = {} /\ NothingCached.cut = 0
      BY DEF NothingCached, Caches
    <3> QED  BY <2>1, <3>1 DEF Cleared, Caches
  <2> QED  BY <1>2, <2>1, <2>2 DEF Caches
<1>4. InboxOK'
  <2>1. CASE SubscriptionArrives
    <3>1. \E k \in {Len(inbox.log), Len(inbox.log) - 1} : inbox' = [inbox EXCEPT !.control = k]
      BY <2>1 DEF SubscriptionArrives
    <3>2. Len(inbox.log) \in Nat /\ Len(inbox.log) > 0
      BY DEF QueueTypeOK, InboxOK
    <3> QED  BY <3>1, <3>2 DEF QueueTypeOK, InboxOK
  <2>2. CASE RemovalArrives
    BY <2>2 DEF QueueTypeOK, InboxOK, RemovalArrives
  <2> QED  BY <2>1, <2>2
<1>5. QueueTypeOK' /\ KeyIsHeld'
  BY <1>1, <1>3, <1>4 DEF QueueTypeOK, Attempts, KeyIsHeld
<1>6. SnapshotIsNewest'
  <2>1. CASE SubscriptionArrives
    BY <1>3, <2>1 DEF SubscriptionArrives, SnapshotIsNewest, QueueTypeOK, InboxOK, Rows
  <2>2. CASE RemovalArrives
    <3>1. cached'.known = FALSE
      BY <2>2 DEF RemovalArrives, Cleared, NothingCached
    <3> QED  BY <1>3, <2>2, <3>1 DEF RemovalArrives, SnapshotIsNewest, QueueTypeOK, InboxOK, Rows
  <2> QED  BY <2>1, <2>2
<1>7. RowsInChain'
  BY <1>1, <1>3, ChainKept
<1> QED  BY <1>5, <1>6, <1>7

\* A call that sends finds no key held: no attempt can have an outcome unnoticed.
LEMMA EnqueueKeepsInv ==
  ASSUME QueueInv, NEW c \in Enqueues, Enqueue(c)
  PROVE  QueueInv'
<1> USE DEF QueueInv
<1>1. CASE /\ prompt' = [prompt EXCEPT ![c].pc = "joined", ![c].on = cached.pending]
           /\ UNCHANGED <<profile, inbox, cached, attempts, mutation>>
  <2>1. QueueTypeOK'
    <3>1. prompt[c] \in Prompts /\ cached.pending \in Enqueues \cup {NoCall}
      BY DEF QueueTypeOK, Caches
    <3>2. [prompt[c] EXCEPT !.pc = "joined", !.on = cached.pending] \in Prompts
      BY <3>1 DEF Prompts, PromptPhases
    <3>3. prompt' \in [Enqueues -> Prompts]
      BY <1>1, <3>2 DEF QueueTypeOK
    <3> QED  BY <1>1, <3>3 DEF QueueTypeOK, InboxOK
  <2>2. KeyIsHeld' /\ SnapshotIsNewest'
    BY <1>1 DEF KeyIsHeld, SnapshotIsNewest, Rows
  <2>3. RowsInChain'
    BY <1>1, ChainKept
  <2> QED  BY <2>1, <2>2, <2>3
<1>2. CASE /\ cached.pending = NoCall
           /\ prompt' = [prompt EXCEPT ![c].pc = "sending", ![c].before = cached.rows]
           /\ cached' = [cached EXCEPT !.pending = c]
           /\ attempts' = [attempts EXCEPT !.open = attempts.open \cup {c}]
           /\ inbox' = [inbox EXCEPT !.sent = inbox.sent \cup {c}]
           /\ UNCHANGED <<profile, mutation>>
  <2>1. InboxOK' /\ inbox'.log = inbox.log /\ inbox'.control = inbox.control
        /\ inbox'.follow = inbox.follow /\ inbox'.gone = inbox.gone
    BY <1>2 DEF QueueTypeOK, InboxOK
  <2>2. QueueTypeOK'
    <3>1. prompt[c] \in Prompts /\ cached.rows \in SUBSET Enqueues
      BY DEF QueueTypeOK, Caches
    <3>2. [prompt[c] EXCEPT !.pc = "sending", !.before = cached.rows] \in Prompts
      BY <3>1 DEF Prompts, PromptPhases
    <3>3. prompt' \in [Enqueues -> Prompts]
      BY <1>2, <3>2 DEF QueueTypeOK
    <3>4. cached' \in Caches /\ attempts' \in Attempts
      BY <1>2 DEF QueueTypeOK, Caches, Attempts
    <3> QED  BY <1>2, <2>1, <3>3, <3>4 DEF QueueTypeOK
  <2>3. attempts.open \ attempts.disowned = {}
    BY <1>2, PromptAssumption DEF KeyIsHeld, QueueTypeOK, Attempts
  <2>4. KeyIsHeld'
    BY <1>2, <2>3 DEF KeyIsHeld, QueueTypeOK, Attempts, Caches
  <2>5. SnapshotIsNewest'
    BY <1>2, <2>1 DEF SnapshotIsNewest, QueueTypeOK, Caches, Rows
  <2>6. RowsInChain'
    BY <1>2, ChainKept DEF QueueTypeOK, Caches
  <2> QED  BY <2>2, <2>4, <2>5, <2>6
<1> QED  BY <1>1, <1>2 DEF Enqueue

\* What a call of enqueuePrompt() learns of its attempt, or gives up to learn.
LEMMA OutcomeKeepsInv ==
  ASSUME QueueInv, NEW c \in Enqueues,
         Accepted(c) \/ RequestFails(c) \/ GraceEnds(c) \/ GivesUp(c)
  PROVE  QueueInv'
<1> USE DEF QueueInv
<1>1. CASE \E result : Settle(cached, result) /\ UNCHANGED <<profile, inbox, mutation>>
  BY <1>1, Settling, SettlingKeepsInv DEF QueueTypeOK
<1>2. CASE /\ \E p \in {"confirming", "failed"} : prompt' = [prompt EXCEPT ![c].pc = p]
           /\ \/ attempts' = attempts
              \/ attempts' = [attempts EXCEPT !.watching = attempts.watching \cup {c}]
           /\ UNCHANGED <<profile, inbox, cached, mutation>>
  <2>1. QueueTypeOK'
    BY <1>2 DEF QueueTypeOK, InboxOK, Prompts, PromptPhases, Attempts
  <2>2. attempts'.open = attempts.open /\ attempts'.disowned = attempts.disowned
    BY <1>2 DEF QueueTypeOK, Attempts
  <2>3. KeyIsHeld' /\ SnapshotIsNewest'
    BY <1>2, <2>2 DEF KeyIsHeld, SnapshotIsNewest, Rows
  <2>4. RowsInChain'
    BY <1>2, ChainKept
  <2> QED  BY <2>1, <2>3, <2>4
<1>3. CASE Accepted(c)
  BY <1>1, <1>2, <1>3 DEF Accepted, QueueTypeOK, Attempts
<1>4. CASE RequestFails(c) \/ GraceEnds(c)
  BY <1>1, <1>4 DEF RequestFails, GraceEnds
<1>5. CASE GivesUp(c)
  BY <1>2, <1>5 DEF GivesUp
<1> QED  BY <1>3, <1>4, <1>5

\* listQueue() changes nothing but who owns the rows of the snapshot.
LEMMA ListQueueKeepsInv == QueueInv /\ ListQueue => QueueInv'
<1> SUFFICES ASSUME QueueInv, ListQueue PROVE QueueInv'
  OBVIOUS
<1> USE DEF QueueInv
<1>1. /\ cached' \in Caches /\ cached'.rows = cached.rows /\ cached'.known = cached.known
      /\ cached'.cut = cached.cut /\ cached'.pending = cached.pending
      /\ cached'.tails = cached.tails
      /\ UNCHANGED <<profile, inbox, prompt, attempts, mutation>>
  BY DEF ListQueue, QueueTypeOK, Caches
<1>2. QueueTypeOK'
  BY <1>1 DEF QueueTypeOK, InboxOK
<1>3. KeyIsHeld' /\ SnapshotIsNewest'
  BY <1>1 DEF KeyIsHeld, SnapshotIsNewest, Rows
<1>4. RowsInChain'
  BY <1>1, ChainKept
<1> QED  BY <1>2, <1>3, <1>4

\* A mutation that is asked for joins the chain of its row at the end.
LEMMA MutateKeepsInv ==
  ASSUME QueueInv, NEW m \in Mutations, NEW r \in Enqueues, Mutate(m, r)
  PROVE  QueueInv'
<1> USE DEF QueueInv
<1>1. PICK removes \in BOOLEAN :
        mutation' = [mutation EXCEPT ![m] =
          [pc |-> "queued", row |-> r, removes |-> removes, behind |-> cached.tails[r],
           earlier |-> {n \in Mutations : mutation[n].row = r}]]
  BY DEF Mutate
<1>2. /\ mutation[m].pc = "new"
      /\ cached' = [cached EXCEPT !.tails[r] = m]
      /\ UNCHANGED <<profile, inbox, prompt, attempts>>
  BY DEF Mutate
<1>3. cached.tails \in [Enqueues -> Mutations \cup {NoCall}] /\ NoCall \notin Mutations
      /\ NoCall \notin Enqueues
  BY PromptAssumption DEF QueueTypeOK, Caches
<1>4. /\ cached' \in Caches /\ cached'.rows = cached.rows /\ cached'.known = cached.known
      /\ cached'.cut = cached.cut /\ cached'.pending = cached.pending
      /\ cached'.tails = [cached.tails EXCEPT ![r] = m]
  BY <1>2, <1>3 DEF QueueTypeOK, Caches
<1>5. /\ mutation' \in [Mutations -> MutationRecords]
      /\ \A n \in Mutations \ {m} : mutation'[n] = mutation[n]
      /\ mutation'[m].pc = "queued" /\ mutation'[m].row = r
      /\ mutation'[m].behind = cached.tails[r]
      /\ mutation'[m].earlier = {n \in Mutations : mutation[n].row = r}
  <2> DEFINE new == [pc |-> "queued", row |-> r, removes |-> removes, behind |-> cached.tails[r],
                     earlier |-> {n \in Mutations : mutation[n].row = r}]
  <2>1. new \in MutationRecords
    BY <1>3 DEF MutationRecords
  <2>2. mutation' = [mutation EXCEPT ![m] = new] /\ mutation \in [Mutations -> MutationRecords]
    BY <1>1 DEF QueueTypeOK
  <2>3. /\ new.pc = "queued" /\ new.row = r /\ new.behind = cached.tails[r]
        /\ new.earlier = {n \in Mutations : mutation[n].row = r}
    OBVIOUS
  <2> HIDE DEF new
  <2> QED  BY <2>1, <2>2, <2>3
<1>6. QueueTypeOK'
  BY <1>2, <1>4, <1>5 DEF QueueTypeOK, InboxOK
<1>7. KeyIsHeld' /\ SnapshotIsNewest'
  BY <1>2, <1>4 DEF KeyIsHeld, SnapshotIsNewest, Rows
<1>8. RowsInChain'
  <2>1. mutation \in [Mutations -> MutationRecords] /\ mutation[m].row = NoCall
    BY <1>2 DEF QueueTypeOK, RowsInChain
  <2>2. ASSUME NEW k \in Mutations
        PROVE  /\ mutation'[k].pc = "new" =>
                    mutation'[k].row = NoCall /\ mutation'[k].earlier = {}
               /\ mutation'[k].pc = "running" =>
                    \A n \in mutation'[k].earlier : mutation'[n].pc = "over"
               /\ mutation'[k].pc = "queued" =>
                    \A n \in mutation'[k].earlier :
                      \/ mutation'[n].pc = "over"
                      \/ /\ mutation'[k].behind \in Mutations
                         /\ mutation'[mutation'[k].behind].pc # "over"
                         /\ \/ n = mutation'[k].behind
                            \/ n \in mutation'[mutation'[k].behind].earlier
    <3>1. CASE k = m
      <4>1. SUFFICES ASSUME NEW n \in Mutations, mutation[n].row = r, mutation[n].pc # "over"
                     PROVE  /\ cached.tails[r] \in Mutations
                            /\ mutation'[cached.tails[r]].pc # "over"
                            /\ n = cached.tails[r] \/ n \in mutation'[cached.tails[r]].earlier
        BY <1>3, <1>5, <2>1, <3>1
      <4>2. /\ cached.tails[r] \in Mutations /\ mutation[cached.tails[r]].row = r
            /\ n = cached.tails[r] \/ n \in mutation[cached.tails[r]].earlier
        BY <1>3, <4>1 DEF RowsInChain
      <4>3. mutation[cached.tails[r]].pc # "over"
        BY <4>1, <4>2, <1>3 DEF RowsInChain
      <4> QED  BY <1>3, <1>5, <2>1, <4>2, <4>3
    <3>2. CASE k # m
      <4>1. mutation'[k] = mutation[k] /\ mutation[k] \in MutationRecords
        BY <1>5, <2>1, <3>2
      <4>2. \A n \in mutation[k].earlier : n \in Mutations
        BY <4>1 DEF MutationRecords
      <4> QED  BY <1>2, <1>5, <4>1, <4>2 DEF RowsInChain
    <3> QED  BY <3>1, <3>2
  <2>3. ASSUME NEW q \in Enqueues
        PROVE  /\ cached'.tails[q] # NoCall =>
                    mutation'[cached'.tails[q]].row = q /\ mutation'[cached'.tails[q]].pc # "over"
               /\ \A n \in Mutations :
                    mutation'[n].row = q /\ mutation'[n].pc # "over" =>
                      /\ cached'.tails[q] # NoCall
                      /\ n = cached'.tails[q] \/ n \in mutation'[cached'.tails[q]].earlier
    <3>1. CASE q = r
      BY <1>3, <1>4, <1>5, <3>1
    <3>2. CASE q # r
      <4>1. cached'.tails[q] = cached.tails[q] /\ cached.tails[q] \in Mutations \cup {NoCall}
        BY <1>3, <1>4, <3>2
      <4>2. cached.tails[q] # m
        BY <1>3, <2>1 DEF RowsInChain
      <4> QED  BY <1>3, <1>5, <3>2, <4>1, <4>2 DEF RowsInChain
    <3> QED  BY <3>1, <3>2
  <2> QED  BY <2>2, <2>3 DEF RowsInChain
<1> QED  BY <1>6, <1>7, <1>8

\* A mutation whose turn has come has nothing before it.
LEMMA NothingBefore ==
  ASSUME QueueInv, NEW m \in Mutations,
         \/ mutation[m].pc = "queued" /\ ItsTurn(m)
         \/ mutation[m].pc = "running"
  PROVE  \A n \in mutation[m].earlier : mutation[n].pc = "over"
BY DEF QueueInv, RowsInChain, ItsTurn

\* The turn of a mutation has come.
LEMMA BeginsKeepsInv ==
  ASSUME QueueInv, NEW m \in Mutations, Begins(m)
  PROVE  QueueInv'
<1> USE DEF QueueInv
<1>1. /\ mutation' = [mutation EXCEPT ![m].pc = "running"]
      /\ UNCHANGED <<profile, inbox, cached, prompt, attempts>>
      /\ mutation[m].pc = "queued" /\ mutation \in [Mutations -> MutationRecords]
  BY DEF Begins, QueueTypeOK
<1>2. /\ mutation' \in [Mutations -> MutationRecords]
      /\ mutation'[m].pc = "running"
      /\ \A n \in Mutations \ {m} : mutation'[n].pc = mutation[n].pc
      /\ \A n \in Mutations :
           /\ mutation'[n].row = mutation[n].row /\ mutation'[n].behind = mutation[n].behind
           /\ mutation'[n].earlier = mutation[n].earlier
  BY <1>1 DEF MutationRecords
<1>3. \A n \in mutation[m].earlier : mutation[n].pc = "over"
  BY NothingBefore DEF Begins
<1>4. \A k \in Mutations : mutation[k].earlier \subseteq Mutations
  BY <1>1 DEF MutationRecords
<1>5. QueueTypeOK' /\ KeyIsHeld' /\ SnapshotIsNewest'
  BY <1>1, <1>2 DEF QueueTypeOK, InboxOK, KeyIsHeld, SnapshotIsNewest, Rows
<1>6. \A n \in Mutations : mutation'[n].pc = "over" <=> mutation[n].pc = "over"
  BY <1>1, <1>2
<1>7. \A n \in Mutations : n # m => mutation'[n].pc = mutation[n].pc
  BY <1>2
<1>8. cached.tails \in [Enqueues -> Mutations \cup {NoCall}] /\ cached' = cached
  BY <1>1 DEF QueueTypeOK, Caches
<1>9. RowsInChain'
  <2>1. ASSUME NEW k \in Mutations
        PROVE  /\ mutation'[k].pc = "new" =>
                    mutation'[k].row = NoCall /\ mutation'[k].earlier = {}
               /\ mutation'[k].pc = "running" =>
                    \A n \in mutation'[k].earlier : mutation'[n].pc = "over"
               /\ mutation'[k].pc = "queued" =>
                    \A n \in mutation'[k].earlier :
                      \/ mutation'[n].pc = "over"
                      \/ /\ mutation'[k].behind \in Mutations
                         /\ mutation'[mutation'[k].behind].pc # "over"
                         /\ \/ n = mutation'[k].behind
                            \/ n \in mutation'[mutation'[k].behind].earlier
    BY <1>1, <1>2, <1>3, <1>4, <1>6, <1>7 DEF RowsInChain
  <2>2. ASSUME NEW q \in Enqueues
        PROVE  /\ cached'.tails[q] # NoCall =>
                    mutation'[cached'.tails[q]].row = q /\ mutation'[cached'.tails[q]].pc # "over"
               /\ \A n \in Mutations :
                    mutation'[n].row = q /\ mutation'[n].pc # "over" =>
                      /\ cached'.tails[q] # NoCall
                      /\ n = cached'.tails[q] \/ n \in mutation'[cached'.tails[q]].earlier
    BY <1>2, <1>6, <1>8 DEF RowsInChain
  <2> QED  BY <2>1, <2>2 DEF RowsInChain
<1> QED  BY <1>5, <1>9

\* A mutation that ends leaves the chain at its head.
LEMMA EndsKeepsInv ==
  ASSUME QueueInv, NEW m \in Mutations, Ends(m)
  PROVE  QueueInv'
<1> USE DEF QueueInv
<1> DEFINE over == [NoMutation EXCEPT !.pc = "over", !.row = mutation[m].row]
<1>1. /\ mutation' = [mutation EXCEPT ![m] = over]
      /\ UNCHANGED <<profile, inbox, prompt, attempts>>
      /\ mutation \in [Mutations -> MutationRecords]
      /\ mutation[m].pc \in {"queued", "running"}
      /\ \A n \in mutation[m].earlier : mutation[n].pc = "over"
  BY NothingBefore DEF Ends, QueueTypeOK
<1>2. /\ cached' \in Caches /\ cached'.rows = cached.rows /\ cached'.known = cached.known
      /\ cached'.cut = cached.cut /\ cached'.pending = cached.pending
      /\ cached'.tails = Forgotten(cached.tails, m)
  <2>1. Forgotten(cached.tails, m) \in [Enqueues -> Mutations \cup {NoCall}]
    BY DEF Forgotten, QueueTypeOK, Caches
  <2>2. PICK gone : cached' = [cached EXCEPT !.tails = Forgotten(cached.tails, m),
                                             !.owners = cached.owners \ gone]
    <3>1. cached.owners \ {} = cached.owners
      OBVIOUS
    <3>2. CASE cached' = [cached EXCEPT !.tails = Forgotten(cached.tails, m)]
      <4>1. cached' = [cached EXCEPT !.tails = Forgotten(cached.tails, m),
                                     !.owners = cached.owners \ {}]
        BY <3>1, <3>2 DEF QueueTypeOK, Caches
      <4> QED  BY <4>1
    <3>3. CASE \E gone : cached' = [cached EXCEPT !.tails = Forgotten(cached.tails, m),
                                                  !.owners = cached.owners \ gone]
      BY <3>3
    <3> QED  BY <3>2, <3>3 DEF Ends
  <2> QED  BY <2>1, <2>2 DEF QueueTypeOK, Caches
<1>3. /\ mutation' \in [Mutations -> MutationRecords]
      /\ mutation'[m].pc = "over" /\ mutation'[m].row = mutation[m].row
      /\ \A n \in Mutations \ {m} : mutation'[n] = mutation[n]
  <2>1. NoMutation \in MutationRecords
    BY DEF NoMutation, MutationRecords
  <2>2. mutation[m].row \in Enqueues \cup {NoCall}
    BY <1>1 DEF MutationRecords
  <2>3. over \in MutationRecords /\ over.pc = "over" /\ over.row = mutation[m].row
    BY <2>1, <2>2 DEF MutationRecords
  <2> HIDE DEF over
  <2> QED  BY <1>1, <2>3
<1> HIDE DEF over
<1>4. QueueTypeOK' /\ KeyIsHeld' /\ SnapshotIsNewest'
  BY <1>1, <1>2, <1>3 DEF QueueTypeOK, InboxOK, KeyIsHeld, SnapshotIsNewest, Rows
<1>5. RowsInChain'
  <2>1. /\ \A k \in Mutations : mutation[k].earlier \subseteq Mutations
        /\ NoCall \notin Mutations
        /\ cached.tails \in [Enqueues -> Mutations \cup {NoCall}]
    BY <1>1, PromptAssumption DEF MutationRecords, QueueTypeOK, Caches
  <2>2. ASSUME NEW k \in Mutations
        PROVE  /\ mutation'[k].pc = "new" =>
                    mutation'[k].row = NoCall /\ mutation'[k].earlier = {}
               /\ mutation'[k].pc = "running" =>
                    \A n \in mutation'[k].earlier : mutation'[n].pc = "over"
               /\ mutation'[k].pc = "queued" =>
                    \A n \in mutation'[k].earlier :
                      \/ mutation'[n].pc = "over"
                      \/ /\ mutation'[k].behind \in Mutations
                         /\ mutation'[mutation'[k].behind].pc # "over"
                         /\ \/ n = mutation'[k].behind
                            \/ n \in mutation'[mutation'[k].behind].earlier
    <3>1. CASE k = m
      BY <1>3, <3>1
    <3>2. CASE k # m
      <4>1. mutation'[k] = mutation[k]
        BY <1>3, <3>2
      <4>2. \A n \in Mutations : mutation[n].pc = "over" => mutation'[n].pc = "over"
        BY <1>3
      <4>3. \A n \in Mutations : n # m /\ mutation[n].pc # "over" => mutation'[n].pc # "over"
        BY <1>3
      <4>4. ASSUME NEW n \in mutation[k].earlier, mutation[k].pc = "queued",
                   mutation'[n].pc # "over"
            PROVE  /\ mutation[k].behind \in Mutations
                   /\ mutation'[mutation[k].behind].pc # "over"
                   /\ \/ n = mutation[k].behind
                      \/ n \in mutation'[mutation[k].behind].earlier
        <5>1. /\ n \in Mutations /\ n # m /\ mutation[n].pc # "over"
          BY <1>3, <2>1, <4>2, <4>4
        <5>2. /\ mutation[k].behind \in Mutations
              /\ mutation[mutation[k].behind].pc # "over"
              /\ n = mutation[k].behind \/ n \in mutation[mutation[k].behind].earlier
          BY <4>4, <5>1 DEF RowsInChain
        <5>3. mutation[k].behind # m
          BY <1>1, <5>1, <5>2
        <5> QED  BY <1>3, <4>3, <5>2, <5>3
      <4> QED  BY <2>1, <4>1, <4>2, <4>4 DEF RowsInChain
    <3> QED  BY <3>1, <3>2
  <2>3. ASSUME NEW q \in Enqueues
        PROVE  /\ cached'.tails[q] # NoCall =>
                    mutation'[cached'.tails[q]].row = q /\ mutation'[cached'.tails[q]].pc # "over"
               /\ \A n \in Mutations :
                    mutation'[n].row = q /\ mutation'[n].pc # "over" =>
                      /\ cached'.tails[q] # NoCall
                      /\ n = cached'.tails[q] \/ n \in mutation'[cached'.tails[q]].earlier
    <3>1. cached'.tails[q] = IF cached.tails[q] = m THEN NoCall ELSE cached.tails[q]
      BY <1>2 DEF Forgotten
    <3>2. \A n \in Mutations : mutation'[n].row = mutation[n].row
      BY <1>3
    <3>3. CASE cached.tails[q] = m
      BY <1>1, <1>3, <2>1, <3>1, <3>2, <3>3 DEF RowsInChain
    <3>4. CASE cached.tails[q] # m
      BY <1>1, <1>3, <2>1, <3>1, <3>2, <3>4 DEF RowsInChain
    <3> QED  BY <3>3, <3>4
  <2> QED  BY <2>2, <2>3 DEF RowsInChain
<1> QED  BY <1>4, <1>5

-----------------------------------------------------------------------------
(* The theorems. *)

\* In the first state nothing is known, asked for or under way.
LEMMA QueueInitInv == QueueInit => QueueInv
<1> SUFFICES ASSUME QueueInit PROVE QueueInv
  OBVIOUS
<1>1. QueueTypeOK
  <2>1. InboxOK
    BY DEF QueueInit, InboxOK
  <2>2. cached \in Caches
    BY DEF QueueInit, NothingCached, Caches
  <2>3. prompt \in [Enqueues -> Prompts] /\ attempts \in Attempts
    BY DEF QueueInit, Prompts, PromptPhases, Attempts
  <2>4. mutation \in [Mutations -> MutationRecords]
    BY DEF QueueInit, NoMutation, MutationRecords
  <2> QED  BY <2>1, <2>2, <2>3, <2>4 DEF QueueTypeOK, QueueInit
<1>2. KeyIsHeld
  BY DEF QueueInit, KeyIsHeld
<1>3. SnapshotIsNewest
  BY DEF QueueInit, NothingCached, SnapshotIsNewest
<1>4. RowsInChain
  BY PromptAssumption DEF QueueInit, NothingCached, NoMutation, RowsInChain
<1> QED  BY <1>1, <1>2, <1>3, <1>4 DEF QueueInv

\* Every step preserves the invariant.
LEMMA QueueNextInv == QueueInv /\ [QueueNext]_queueVars => QueueInv'
<1> SUFFICES ASSUME QueueInv, [QueueNext]_queueVars PROVE QueueInv'
  OBVIOUS
<1>1. ASSUME NEW c \in Enqueues, Commits(c) \/ Claims(c) PROVE QueueInv'
  <2>1. Rows \in SUBSET Enqueues
    BY DEF Rows, QueueInv, QueueTypeOK, InboxOK
  <2>2. Rows \cup {c} \in SUBSET Enqueues /\ Rows \ {c} \in SUBSET Enqueues
    BY <2>1
  <2> QED  BY <1>1, <2>2, HostKeepsInv DEF Commits, Claims
<1>2. ASSUME NEW c \in Enqueues, Enqueue(c) PROVE QueueInv'
  BY <1>2, EnqueueKeepsInv
<1>3. ASSUME NEW c \in Enqueues, Accepted(c) \/ RequestFails(c) \/ GraceEnds(c) \/ GivesUp(c)
      PROVE  QueueInv'
  BY <1>3, OutcomeKeepsInv
<1>4. CASE FollowOpens
  BY <1>4, FollowOpensKeepsInv
<1>5. CASE ControlArrives
  BY <1>5, ControlKeepsInv
<1>6. CASE FollowArrives
  BY <1>6, FollowKeepsInv
<1>7. CASE SubscriptionArrives \/ RemovalArrives
  BY <1>7, ClearingKeepsInv
<1>8. CASE ListQueue
  BY <1>8, ListQueueKeepsInv
<1>9. ASSUME NEW m \in Mutations, NEW r \in Enqueues, Mutate(m, r) PROVE QueueInv'
  BY <1>9, MutateKeepsInv
<1>10. ASSUME NEW m \in Mutations, Begins(m) PROVE QueueInv'
  BY <1>10, BeginsKeepsInv
<1>11. ASSUME NEW m \in Mutations, Ends(m) PROVE QueueInv'
  BY <1>11, EndsKeepsInv
<1>12. CASE UNCHANGED queueVars
  BY <1>12 DEF queueVars, QueueInv, QueueTypeOK, InboxOK, KeyIsHeld, SnapshotIsNewest, Rows,
               RowsInChain
<1> QED  BY <1>1, <1>2, <1>3, <1>4, <1>5, <1>6, <1>7, <1>8, <1>9, <1>10, <1>11, <1>12
         DEF QueueNext

\* The invariant holds in every reachable state, for every set of calls.
THEOREM QueueInvariance == QueueSpec => []QueueInv
BY QueueInitInv, QueueNextInv, PTL DEF QueueSpec

\* However the frames of the two streams are ordered, what is shown of the queue is
\* the host's once they have arrived (rememberQueue(), prompt-queue.ts).
THEOREM ShownQueueIsCurrent == QueueSpec => []QueueIsCurrent
<1>1. QueueInv => QueueIsCurrent
  BY DEF QueueInv, QueueTypeOK, InboxOK, SnapshotIsNewest, QueueIsCurrent, Rows, Caches
<1> QED  BY <1>1, QueueInvariance, PTL

\* Attempts whose request is in flight are open, and only a subscription, of the adapters
\* whose snapshots come with one, or a removal makes the repository forget one.
AttemptsKnown ==
  /\ \A c \in Enqueues : prompt[c].pc = "sending" => c \in attempts.open
  /\ attempts.disowned # {} => profile.baseline = "subscription" \/ inbox.gone

\* What a step may do to the attempts: one begins, and finds no key held; or some settle;
\* or all are forgotten at once.
LEMMA AttemptsChange ==
  ASSUME QueueInv, [QueueNext]_queueVars
  PROVE  /\ profile' = profile /\ (inbox.gone => inbox'.gone)
         /\ \/ /\ attempts'.open = attempts.open /\ attempts'.disowned = attempts.disowned
               /\ \A c \in Enqueues : prompt'[c].pc \in {"new", "sending"} => prompt'[c] = prompt[c]
            \/ \E cache : Settled(cache)
            \/ /\ SubscriptionArrives \/ RemovalArrives
               /\ prompt' = prompt /\ attempts'.open = attempts.open
            \/ \E c \in Enqueues :
                 /\ cached.pending = NoCall
                 /\ prompt' = [prompt EXCEPT ![c].pc = "sending", ![c].before = cached.rows]
                 /\ attempts' = [attempts EXCEPT !.open = attempts.open \cup {c}]
<1> USE DEF QueueInv
<1>1. prompt \in [Enqueues -> Prompts] /\ attempts \in Attempts /\ InboxOK
  BY DEF QueueTypeOK
<1>2. profile' = profile /\ (inbox.gone => inbox'.gone)
  BY <1>1 DEF QueueNext, queueVars, Commits, Claims, Changes, FollowOpens, ControlArrives, FollowArrives,
     SubscriptionArrives, RemovalArrives, ListQueue, Enqueue, Accepted, RequestFails, GraceEnds,
     GivesUp, Mutate, Begins, Ends, InboxOK
<1>3. ASSUME NEW c \in Enqueues, Enqueue(c)
      PROVE  \/ /\ attempts' = attempts
                /\ prompt' = [prompt EXCEPT ![c].pc = "joined", ![c].on = cached.pending]
             \/ /\ cached.pending = NoCall
                /\ prompt' = [prompt EXCEPT ![c].pc = "sending", ![c].before = cached.rows]
                /\ attempts' = [attempts EXCEPT !.open = attempts.open \cup {c}]
  BY <1>3 DEF Enqueue
<1>4. ASSUME NEW c \in Enqueues, Accepted(c) \/ RequestFails(c) \/ GraceEnds(c) \/ GivesUp(c)
      PROVE  \/ Settled(cached)
             \/ /\ \E p \in {"confirming", "failed"} : prompt' = [prompt EXCEPT ![c].pc = p]
                /\ attempts'.open = attempts.open /\ attempts'.disowned = attempts.disowned
  <2>1. CASE \E result : Settle(cached, result)
    BY <2>1, Settling DEF QueueTypeOK
  <2>2. CASE /\ prompt' = [prompt EXCEPT ![c].pc = "confirming"]
             /\ attempts' = [attempts EXCEPT !.watching = attempts.watching \cup {c}]
    BY <1>1, <2>2 DEF Attempts
  <2>3. CASE GivesUp(c)
    BY <2>3 DEF GivesUp
  <2> QED  BY <1>4, <2>1, <2>2, <2>3 DEF Accepted, RequestFails, GraceEnds
<1>5. ASSUME ControlArrives \/ FollowArrives
      PROVE  UNCHANGED <<attempts, prompt>> \/ \E cache : Settled(cache)
  <2>1. PICK cut \in 1 .. Len(inbox.log) : Remember(cut, inbox.log[cut])
    BY <1>1, <1>5 DEF ControlArrives, FollowArrives, InboxOK
  <2> QED  BY <2>1, Remembering
<1>6. ASSUME SubscriptionArrives \/ RemovalArrives
      PROVE  prompt' = prompt /\ attempts'.open = attempts.open
  BY <1>1, <1>6 DEF SubscriptionArrives, RemovalArrives, Disown, Attempts
<1>7. ASSUME \/ \E c \in Enqueues : Commits(c) \/ Claims(c)
             \/ FollowOpens \/ ListQueue \/ UNCHANGED queueVars
             \/ \E m \in Mutations : (\E r \in Enqueues : Mutate(m, r)) \/ Begins(m) \/ Ends(m)
      PROVE  UNCHANGED <<attempts, prompt>>
  BY <1>7 DEF Commits, Claims, Changes, FollowOpens, ListQueue, queueVars, Mutate, Begins, Ends
<1>8. ASSUME NEW c \in Enqueues, NEW p \in {"joined", "confirming", "failed"},
             NEW on \in Enqueues \cup {NoCall},
             \/ prompt' = [prompt EXCEPT ![c].pc = p]
             \/ prompt' = [prompt EXCEPT ![c].pc = p, ![c].on = on]
      PROVE  \A d \in Enqueues : prompt'[d].pc \in {"new", "sending"} => prompt'[d] = prompt[d]
  BY <1>1, <1>8 DEF Prompts
<1>9. cached.pending \in Enqueues \cup {NoCall}
  BY DEF QueueTypeOK, Caches
<1> QED  BY <1>2, <1>3, <1>4, <1>5, <1>6, <1>7, <1>8, <1>9 DEF QueueNext

\* What is in flight is open, and what is open is known but for a clear.
LEMMA AttemptsStayKnown == QueueInv /\ AttemptsKnown /\ [QueueNext]_queueVars => AttemptsKnown'
<1> SUFFICES ASSUME QueueInv, AttemptsKnown, [QueueNext]_queueVars PROVE AttemptsKnown'
  OBVIOUS
<1>1. prompt \in [Enqueues -> Prompts] /\ attempts \in Attempts /\ InboxOK
  BY DEF QueueInv, QueueTypeOK
<1>2. CASE /\ attempts'.open = attempts.open /\ attempts'.disowned = attempts.disowned
           /\ \A c \in Enqueues : prompt'[c].pc \in {"new", "sending"} => prompt'[c] = prompt[c]
  BY <1>2, AttemptsChange DEF AttemptsKnown
<1>3. CASE \E cache : Settled(cache)
  BY <1>3, AttemptsChange DEF AttemptsKnown, Settled
<1>4. CASE /\ SubscriptionArrives \/ RemovalArrives
           /\ prompt' = prompt /\ attempts'.open = attempts.open
  <2>1. profile.baseline = "subscription" \/ inbox'.gone
    BY <1>1, <1>4 DEF SubscriptionArrives, RemovalArrives, InboxOK
  <2> QED  BY <1>4, <2>1, AttemptsChange DEF AttemptsKnown
<1>5. CASE \E c \in Enqueues :
             /\ prompt' = [prompt EXCEPT ![c].pc = "sending", ![c].before = cached.rows]
             /\ attempts' = [attempts EXCEPT !.open = attempts.open \cup {c}]
  BY <1>1, <1>5, AttemptsChange DEF AttemptsKnown, Prompts, Attempts
<1> QED  BY <1>2, <1>3, <1>4, <1>5, AttemptsChange

\* Both invariants of the attempts hold in every reachable state.
LEMMA AttemptsInvariance == QueueSpec => [](QueueInv /\ AttemptsKnown)
<1>1. QueueInit => AttemptsKnown
  BY DEF QueueInit, AttemptsKnown
<1> QED  BY <1>1, AttemptsStayKnown, QueueInvariance, PTL DEF QueueSpec

\* No second session.prompt is sent for a prompt while the outcome of the first is open:
\* none at all for the adapters whose snapshots come over the control stream, none since the
\* last subscription for the others (enqueuePrompt(), prompt-queue.ts).
THEOREM OnePromptIsSent == QueueSpec => OneSend
<1> DEFINE Alone == /\ attempts.open \subseteq attempts.disowned
                    /\ attempts.open = {} \/ profile.baseline = "subscription" \/ inbox.gone
<1>1. QueueInv /\ AttemptsKnown /\ [QueueNext]_queueVars =>
        [\A c \in Enqueues : prompt[c].pc = "new" /\ prompt'[c].pc = "sending" => Alone]_queueVars
  <2> SUFFICES ASSUME QueueInv, AttemptsKnown, [QueueNext]_queueVars, NEW c \in Enqueues,
                      prompt[c].pc = "new", prompt'[c].pc = "sending"
               PROVE  Alone
    OBVIOUS
  <2>1. cached.pending = NoCall
    BY AttemptsChange DEF Settled
  <2>2. attempts.open \subseteq attempts.disowned
    BY <2>1, PromptAssumption DEF QueueInv, QueueTypeOK, KeyIsHeld, Attempts
  <2> QED  BY <2>2 DEF AttemptsKnown
<1> QED  BY <1>1, AttemptsInvariance, PTL DEF QueueSpec, OneSend

\* Where the snapshots come over the control stream, what the comment in enqueuePrompt() says
\* is true without exception (prompt-queue.ts): of identical calls one has a request in flight.
THEOREM OneRequestInFlight == QueueSpec => [](profile.baseline # "subscription" => OneInFlight)
<1>1. QueueInv /\ AttemptsKnown => (profile.baseline # "subscription" => OneInFlight)
  BY DEF QueueInv, KeyIsHeld, AttemptsKnown, OneInFlight
<1> QED  BY <1>1, AttemptsInvariance, PTL

\* The mutations of one row are sent in the order they were asked for, each after the
\* one before it has ended (serializeQueueMutation(), prompt-queue.ts).
THEOREM MutationsTakeTurns == QueueSpec => MutationsInOrder
<1>1. QueueInv /\ [QueueNext]_queueVars =>
        [\A m \in Mutations : mutation[m].pc = "queued" /\ mutation'[m].pc = "running" =>
           \A n \in mutation[m].earlier : mutation[n].pc = "over"]_queueVars
  <2> SUFFICES ASSUME QueueInv, [QueueNext]_queueVars, NEW m \in Mutations,
                      mutation[m].pc = "queued", mutation'[m].pc = "running"
               PROVE  \A n \in mutation[m].earlier : mutation[n].pc = "over"
    OBVIOUS
  <2>1. mutation \in [Mutations -> MutationRecords] /\ mutation' # mutation
    BY DEF QueueInv, QueueTypeOK
  <2>2. ASSUME NEW k \in Mutations, NEW r \in Enqueues, Mutate(k, r) PROVE FALSE
    <3>1. mutation[k].pc = "new"
          /\ \E x : mutation' = [mutation EXCEPT ![k] = x]
      BY <2>2 DEF Mutate
    <3> QED  BY <2>1, <3>1
  <2>3. ASSUME NEW k \in Mutations, Ends(k) PROVE FALSE
    <3>1. mutation' = [mutation EXCEPT ![k] = [NoMutation EXCEPT !.pc = "over",
                                                                 !.row = mutation[k].row]]
      BY <2>3 DEF Ends
    <3> QED  BY <2>1, <3>1 DEF NoMutation
  <2>4. ASSUME NEW k \in Mutations, Begins(k)
        PROVE  \A n \in mutation[m].earlier : mutation[n].pc = "over"
    <3>1. k = m
      BY <2>1, <2>4 DEF Begins
    <3> QED  BY <2>4, <3>1, NothingBefore DEF Begins
  <2> QED  BY <2>1, <2>2, <2>3, <2>4
           DEF QueueNext, queueVars, Commits, Claims, Changes, Enqueue, Accepted, RequestFails,
               GraceEnds, GivesUp, FollowOpens, ControlArrives, FollowArrives,
               SubscriptionArrives, RemovalArrives, ListQueue
<1> QED  BY <1>1, QueueInvariance, PTL DEF QueueSpec, MutationsInOrder
=============================================================================
