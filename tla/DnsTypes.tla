------------------------------ MODULE DnsTypes ------------------------------
(***************************************************************************)
(* What the parser, the tracer and the cache of DNS answers speak of.      *)
(***************************************************************************)
EXTENDS Integers, Sequences

CONSTANTS
    Label, Address,
    TTL,            \* the TTLs of answers, in seconds
    DefaultTTL      \* taken for a TTL of zero (30)

ASSUME TypesAssumption ==
    /\ TTL \subseteq Nat
    /\ DefaultTTL \in Nat \ {0}

\* A domain is its labels; the empty name is none.
Domain == Seq(Label) \ {<<>>}

=============================================================================
