------------------------------ MODULE RecentMap ------------------------------
(***************************************************************************)
(* What a resolver of internal/k8smeta promises: it never follows the      *)
(* cluster, but its map is replaced as a whole by what it saw since some   *)
(* moment, Begin; so whatever an entry says was so at some time since the  *)
(* moment the map goes back to.                                            *)
(***************************************************************************)
CONSTANT Pair       \* a holder, and the address or namespace it may hold

VARIABLES
    holding,        \* who holds what
    since,          \* who held what at some time since the last Begin
    map,            \* the entries in use
    base            \* since, when they were installed

recentVars == <<holding, since, map, base>>

Init == holding = {} /\ since = {} /\ map = {} /\ base = {}

Change ==
    /\ holding' \subseteq Pair
    /\ since' = since \cup holding'
    /\ UNCHANGED <<map, base>>

Begin == since' = holding /\ UNCHANGED <<holding, map, base>>

\* Of those that held the same thing one is chosen, or none.
Install ==
    /\ map' \subseteq since
    /\ \A x, y \in map' : x[2] = y[2] => x = y
    /\ base' = since
    /\ UNCHANGED <<holding, since>>

Next == Change \/ Begin \/ Install

Spec == Init /\ [][Next]_recentVars

=============================================================================
