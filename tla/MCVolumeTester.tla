---------------------------- MODULE MCVolumeTester ----------------------------
(* The volume tester against the shipped configuration. *)
EXTENDS VolumeTester

CONSTANT web

MCKeyRank == [k \in Key |-> 0]

=============================================================================
