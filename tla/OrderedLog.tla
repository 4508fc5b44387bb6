----------------------------- MODULE OrderedLog -----------------------------
(***************************************************************************)
(* What the consumers of one session's stream are promised, whatever the   *)
(* stream underneath goes through: the durable positions come in ascending *)
(* order, each of them is a row or part of an announced gap, none comes    *)
(* twice, and only a new baseline moves the cursor elsewhere.              *)
(***************************************************************************)
EXTENDS Integers

CONSTANT None

VARIABLES
  cursor,  \* the next position the consumers are owed; None: no live tail
  note     \* what the last step handed them

Note(kind, from, to) == [kind |-> kind, from |-> from, to |-> to]

Nothing == Note("nothing", 0, 0)

Init ==
  /\ cursor = None
  /\ note = Nothing

\* A live tail begins at the first position there can be.
Open ==
  /\ cursor = None /\ cursor' = 0
  /\ note' = Nothing

Deliver ==
  /\ cursor # None /\ cursor' = cursor + 1
  /\ note' \in {Note("row", cursor, cursor), Note("projection", cursor, cursor)}

\* A projection the consumers already have a newer value of is passed over.
Pass ==
  /\ cursor # None /\ cursor' = cursor + 1
  /\ note' = Nothing

AnnounceGap ==
  /\ None \notin {cursor, cursor'} /\ cursor' > cursor
  /\ note' = Note("gap", cursor, cursor' - 1)

Baseline ==
  /\ note'.kind = "subscribed"
  /\ cursor' \in {cursor, note'.to + 1} \ {None}

\* Events outside the durable order.
Aside ==
  /\ note'.kind \in {"projection", "replay"}
  /\ UNCHANGED cursor

\* The session is gone, or the stream is restarted or closed.
Forget ==
  /\ cursor' = None
  /\ note' \in {Nothing, Note("removed", 0, 0)}

Quiet ==
  /\ UNCHANGED cursor
  /\ note' = Nothing

Next == Quiet \/ Open \/ Deliver \/ Pass \/ AnnounceGap \/ Baseline \/ Aside \/ Forget

Spec == Init /\ [][Next]_<<cursor, note>>
=============================================================================
