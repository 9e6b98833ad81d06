-------------------------- MODULE MCAnomalyDetector --------------------------
(***************************************************************************)
(* The detector's rules over every baseline a learning period can leave: a *)
(* flow seen on a few days, then its closed windows, most of them with the *)
(* usual count and some with an exceptional one, in any order.             *)
(***************************************************************************)
EXTENDS AnomalyDetector, FiniteSets

CONSTANTS
    MaxDays, Usual, Exceptional, MaxExceptional, MaxWindows, MaxCount

ASSUME BaselineAssumption ==
    /\ {MaxDays, MaxExceptional, MaxWindows, MaxCount} \subseteq Nat
    /\ {Usual} \cup Exceptional \subseteq Nat \ {0}

VARIABLE known   \* the WorkloadFlowAggregate in the snapshot

\* One connection a day, the latest of them in a window still open.
BaselineInit == \E d \in 1..MaxDays :
                    known = [count |-> d, days |-> 1..d, samples |-> <<>>]

ExceptionalWindows ==
    Cardinality({i \in DOMAIN known.samples : known.samples[i] # Usual})

\* A window of the given count is learned and closed.
CloseWindow(count) ==
    /\ Len(known.samples) < MaxWindows
    /\ known' = [known EXCEPT !.count = @ + count,
                              !.samples = Append(@, count)]

BaselineNext ==
    \/ CloseWindow(Usual)
    \/ /\ ExceptionalWindows < MaxExceptional
       /\ \E count \in Exceptional : CloseWindow(count)

-----------------------------------------------------------------------------
IsNearestRank(v, p, s) ==
    LET Reaches(i) ==
            100 * Cardinality({j \in DOMAIN s : s[j] <= s[i]}) >= p * Len(s)
    IN  \E i \in DOMAIN s :
            /\ v = s[i]
            /\ Reaches(i)
            /\ \A j \in DOMAIN s : Reaches(j) => s[i] <= s[j]

(***************************************************************************)
(* percentileUint64 is the nearest-rank percentile: the least sample such  *)
(* that at least p per cent of the samples do not exceed it.               *)
(***************************************************************************)
PercentileIsNearestRank ==
    known.samples # <<>> =>
        \A p \in {1, 50, 90, 95, 99, 100} :
            IsNearestRank(Percentile(known.samples, p), p, known.samples)

(***************************************************************************)
(* A larger window is never less suspicious: whatever rule a count fires,  *)
(* every larger count fires with a score at least as high.                 *)
(***************************************************************************)
LargerWindowsStayAnomalous ==
    \A c \in 1..MaxCount - 1 :
        \A r \in Evaluate(c, known) :
            \E q \in Evaluate(c + 1, known) :
                q.rule = r.rule /\ q.score >= r.score

(***************************************************************************)
(* A window with no more connections than any window of the baseline is    *)
(* never reported, however rare its destination.                           *)
(***************************************************************************)
SteadyTrafficIsQuiet ==
    \A c \in 1..MaxCount :
        (\A i \in DOMAIN known.samples : c <= known.samples[i])
            => Evaluate(c, known) = {}

=============================================================================
