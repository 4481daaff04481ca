---------------------------- MODULE MCBatchPlan ----------------------------
(* Model-checking instances of BatchPlan: the plans and groups of the runs. *)
EXTENDS BatchPlan

CONSTANTS h1, h2

Unit(kind, size) == [kind |-> kind, size |-> size]
OnePrimary == {<<Unit("primary", 1)>>}
PrimaryOrPair == {<<Unit("primary", 1)>>, <<Unit("association", 2)>>}
NoneOrOneGroup == {<<>>, <<2>>}
TwoGroups == {<<1, 1>>}
=============================================================================
