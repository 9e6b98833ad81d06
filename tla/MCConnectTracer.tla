--------------------------- MODULE MCConnectTracer ---------------------------
(* A small instance of the tracer for TLC. *)
EXTENDS ConnectTracer, TLC

Threads == Permutations(Thread)

=============================================================================
