------------------------- MODULE MCManagedConnection -------------------------
(* The coordinator with its supervisor, and requests of every mode. *)
EXTENDS ManagedConnection

CONSTANTS auto, only, isolated, custom, unset

MCModeOf == [r \in Requests |->
               CASE r = auto -> "auto" [] r = only -> "attachOnly"
                 [] r = isolated -> "isolated" [] r = custom -> "custom"
                 [] OTHER -> "customUnset"]
=============================================================================
