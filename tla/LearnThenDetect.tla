--------------------------- MODULE LearnThenDetect ---------------------------
(***************************************************************************)
(* What the agent promises, without goroutines, windows or counts: it      *)
(* learns flow keys; once, it publishes what it has learned so far; and    *)
(* from then on every report is judged against exactly that publication.   *)
(* Keys learned after the publication stay unknown to the reports.         *)
(***************************************************************************)
CONSTANTS Key, NotYet

VARIABLES
    learned,     \* keys learned so far
    published,   \* what was published, NotYet before
    reported     \* reports: a key, and whether it was called new

ltdVars == <<learned, published, reported>>

LTDTypeOK == /\ learned \subseteq Key
             /\ published \in SUBSET Key \cup {NotYet}
             /\ reported \subseteq [key: Key, new: BOOLEAN]

LTDInit == learned = {} /\ published = NotYet /\ reported = {}

Learn(k) == /\ learned' = learned \cup {k}
            /\ UNCHANGED <<published, reported>>

Publish == /\ published = NotYet
           /\ published' = learned
           /\ UNCHANGED <<learned, reported>>

Report(k) == /\ published # NotYet
             /\ reported' = reported \cup
                               {[key |-> k, new |-> k \notin published]}
             /\ UNCHANGED <<learned, published>>

LTDNext == Publish \/ \E k \in Key : Learn(k) \/ Report(k)

LTDSpec == LTDInit /\ [][LTDNext]_ltdVars

=============================================================================
