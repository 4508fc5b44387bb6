-------------------------- MODULE MCStreamDelivery --------------------------
EXTENDS StreamDelivery, TLC

MCProjections == {1}

MCSymmetry == Permutations(Deliveries)
=============================================================================
