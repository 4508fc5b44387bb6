---------------------------- MODULE MCConnection ----------------------------
EXTENDS Connection, TLC

CONSTANTS auto, only, isolated, custom, unset

MCModeOf == [r \in Requests |->
               CASE r = auto -> "auto" [] r = only -> "attachOnly"
                 [] r = isolated -> "isolated" [] r = custom -> "custom"
                 [] OTHER -> "customUnset"]

MCSymmetry == Permutations(Callers) \cup Permutations(Closers)
=============================================================================
