--------------------------- MODULE ManagedProcess ---------------------------
(***************************************************************************)
(* What the callers of start() may rely on, whichever starts, stops and    *)
(* exits interleave: each gets at most one process; a fresh process is the *)
(* only one that runs; only the active one is handed out again; and one    *)
(* that was given up, or has exited, is never active again.                *)
(* This is the contract between dsh-connection-coordinator.ts, which calls *)
(* the port, and process-supervisor.ts, which implements it.               *)
(***************************************************************************)
CONSTANTS Callers, None

VARIABLES
  handed,  \* the process each caller was given; processes are named for callers
  active,  \* the process the next caller is given
  running  \* those that were handed out and have not exited

Init ==
  /\ handed = [c \in Callers |-> None]
  /\ active = None /\ running = {}

\* These callers, who have been given nothing before, are all given p.
Give(cs, p) ==
  /\ cs # {} /\ \A c \in cs : handed[c] = None
  /\ handed' = [c \in Callers |-> IF c \in cs THEN p ELSE handed[c]]

HandOutAgain(cs) ==
  /\ active # None
  /\ Give(cs, active)
  /\ UNCHANGED <<active, running>>

\* It is named for one of those who asked for it; it may have exited by now.
HandOutFresh(cs, p) ==
  /\ active = None
  /\ p \in cs /\ \A c \in Callers : handed[c] # p
  /\ Give(cs, p)
  /\ \/ active' = p /\ running' = {p}
     \/ active' = None /\ running' = {}

\* A stop begins: the process is given up before it has exited.
GiveUp ==
  /\ active # None /\ active' = None
  /\ UNCHANGED <<handed, running>>

Exit(p) ==
  /\ p \in running
  /\ running' = running \ {p}
  /\ active' = IF active = p THEN None ELSE active
  /\ UNCHANGED handed

Next ==
  \/ \E cs \in SUBSET Callers : HandOutAgain(cs) \/ \E p \in cs : HandOutFresh(cs, p)
  \/ GiveUp
  \/ \E p \in running : Exit(p)

Spec == Init /\ [][Next]_<<handed, active, running>>
=============================================================================
