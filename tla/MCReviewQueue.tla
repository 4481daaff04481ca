--------------------------- MODULE MCReviewQueue ---------------------------
(* Model-checking instances of ReviewQueue: the model values of the runs   *)
(* and the symmetry of the safety runs.                                    *)
EXTENDS ReviewQueue, TLC

CONSTANTS j1, j2, w1, w2, p1, p2

Symmetry == Permutations(Workers) \cup Permutations(Jobs)
=============================================================================
