--------------------------- MODULE MCSvnMigration ---------------------------
(* Model-checking instance of SvnMigration: two batches share a source, and *)
(* the second one has a target of the first.                                *)
EXTENDS SvnMigration

TwoBatches == <<
    <<[source |-> "trunk", target |-> "a"], [source |-> "tools", target |-> "b"]>>,
    <<[source |-> "trunk", target |-> "b"]>> >>
=============================================================================
