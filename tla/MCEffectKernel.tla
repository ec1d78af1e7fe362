--------------------------- MODULE MCEffectKernel ---------------------------
EXTENDS EffectKernel, TLC

CONSTANTS w1, w2, p1, p2

\* p1 creates the issue, p2 updates the version that a human edit of it left.
MCEditedBase == p1 :> 0 @@ p2 :> 2

Symmetry == Permutations(Workers)
=============================================================================
