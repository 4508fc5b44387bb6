---------------------------- MODULE MCLifetimes ----------------------------
(* What lives for a while and has to be ended: the children a supervisor     *)
(* starts, and the generations that read a stream.  The two share no state;  *)
(* a behaviour is one of either.                                             *)
EXTENDS ProcessSupervisor, StreamLifecycle

VARIABLE part

LifetimesInit == Init /\ LifeInit /\ part \in {"processes", "generations"}

LifetimesNext ==
  /\ UNCHANGED part
  /\ \/ part = "processes" /\ Next /\ UNCHANGED lifeVars
     \/ part = "generations" /\ LifeNext /\ UNCHANGED vars

LifetimesSpec ==
  LifetimesInit /\ [][LifetimesNext]_<<part, vars, lifeVars>> /\ Fairness /\ LifeFairness
=============================================================================
