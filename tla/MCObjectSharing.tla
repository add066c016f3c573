--------------------------- MODULE MCObjectSharing ---------------------------
EXTENDS ObjectSharing, TLC

MCSymmetry == Permutations(MessageId)
=============================================================================
