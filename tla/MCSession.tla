----------------------------- MODULE MCSession -----------------------------
(* What the adapter keeps of a session: the ordered delivery of its events,  *)
(* and the queue of its prompts.  The two share no state; a behaviour is one *)
(* of either.  Of the queue, a behaviour is about enqueued prompts, or about *)
(* the mutations of one row.                                                 *)
EXTENDS StreamDelivery, PromptQueue, TLC

VARIABLE part

MCProjections == {1}

MCSymmetry == Permutations(Deliveries)

OneRow == CHOOSE c \in Enqueues : TRUE

SessionInit ==
  /\ Init /\ QueueInit
  /\ \/ part = "stream" /\ profile = [baseline |-> "control", correlates |-> TRUE]
     \/ part \in {"prompts", "mutations"} /\ snapshots = TRUE /\ hostLast = -1

SessionNext ==
  /\ UNCHANGED part
  /\ \/ part = "stream" /\ Next /\ UNCHANGED queueVars
     \/ part = "prompts" /\ QueueNext /\ UNCHANGED <<vars, mutation>>
     \/ /\ part = "mutations" /\ QueueNext /\ UNCHANGED vars
        /\ \A c \in Enqueues \ {OneRow} : prompt'[c].pc = "new"

SessionSpec == SessionInit /\ [][SessionNext]_<<part, vars, queueVars>>
=============================================================================
