----------------------------- MODULE MCSurfaces -----------------------------
(* What the extension keeps for its surfaces: the router of their requests   *)
(* and the policy that follows the session they display.  The two share no   *)
(* state; a behaviour is one of either.                                      *)
EXTENDS MessageRouter, SessionFollow, TLC

VARIABLE part

SurfacesInit == RouterInit /\ FollowInit /\ part \in {"requests", "following"}

SurfacesNext ==
  /\ UNCHANGED part
  /\ \/ part = "requests" /\ RouterNext /\ UNCHANGED followVars
     \/ part = "following" /\ FollowNext /\ UNCHANGED routerVars

SurfacesSpec == SurfacesInit /\ [][SurfacesNext]_<<part, routerVars, followVars>>

SurfacesSymmetry == Permutations(Surfaces)
=============================================================================
