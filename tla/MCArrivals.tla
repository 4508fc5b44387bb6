----------------------------- MODULE MCArrivals -----------------------------
(* What has to arrive in the end: the rows a stream owes its listeners, and  *)
(* what a Webview is to learn of the connection.  The two share no state; a  *)
(* behaviour is one of either.                                               *)
EXTENDS ControlDelivery, StreamDelivery

VARIABLE part

MCProjections == {1}

\* A surface that listens and for which nothing is under way.
Resting ==
  /\ host = [state |-> "idle", live |-> 0, bound |-> 0, source |-> 0, replay |-> {},
             asked |-> {}]
  /\ mailbox = Forgotten /\ wire = <<>>
  /\ view = [NewView EXCEPT !.listening = TRUE]
  /\ ready = [r \in Requests |-> NotAsked]

\* What a behaviour about the connection has spent when it begins.  Left are:
\* every connection; or one, a new Webview and a post that fails; or one, and
\* posts that fail until the retries are used up.
Budgets ==
  {[connects |-> 0, reloads |-> MaxReloads, failures |-> MaxFailures],
   [connects |-> MaxConnects - 1, reloads |-> 0, failures |-> MaxFailures - 1],
   [connects |-> MaxConnects - 1, reloads |-> MaxReloads, failures |-> 0]}

ArrivalsInit ==
  /\ Init
  /\ \/ part = "rows" /\ Resting /\ spent = [connects |-> 0, reloads |-> 0, failures |-> 0]
     \/ part = "facts" /\ Starts /\ spent \in Budgets /\ snapshots = TRUE /\ hostLast = -1

ArrivalsNext ==
  /\ UNCHANGED part
  /\ \/ part = "rows" /\ Next /\ UNCHANGED deliveryVars
     \/ part = "facts" /\ DeliveryNext /\ UNCHANGED vars

\* The fairness of both.  Where a part rests nothing of it is enabled; to say
\* which part acts only spares TLC the looking.
ArrivalsSpec ==
  /\ ArrivalsInit /\ [][ArrivalsNext]_<<part, vars, deliveryVars>>
  /\ WF_deliveryVars(part = "facts" /\ Proceeds)
  /\ WF_vars(part = "rows" /\ ReaderStep)
  /\ \A d \in Deliveries : WF_vars(part = "rows" /\ DrainStep(d))
=============================================================================
