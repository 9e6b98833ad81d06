--------------------------- MODULE AnomalyDetector ---------------------------
(***************************************************************************)
(* internal/anomaly: Detector.Evaluate and the three rules.  Pure          *)
(* functions of one closed window and of what the snapshot knows of its    *)
(* key.  A result is the rule that fired with its score; severity and the  *)
(* wording follow from the score.                                          *)
(*                                                                         *)
(* A multiplier is the fraction Num/Den (3.0 is 3/1 and 1.5 is 3/2), so    *)
(* float64(count) >= float64(avg)*mult is count*Den >= avg*Num.            *)
(***************************************************************************)
EXTENDS Integers, FiniteSets, SequencesExt

CONSTANTS
    Enabled, NewEnabled, RareEnabled, VolumeEnabled,     \* the toggles
    MaxDaysSeen, MaxTotalCount, MinCurrentWinCount,      \* rareDestination
    SpikeNum, SpikeDen,
    MinSampleWindows, MinCurrentCount,                   \* volumeAnomaly
    AvgNum, AvgDen, P95Num, P95Den

ASSUME DetectorAssumption ==
    /\ {Enabled, NewEnabled, RareEnabled, VolumeEnabled} \subseteq BOOLEAN
    /\ {MaxDaysSeen, MinSampleWindows} \subseteq Int
    /\ {MaxTotalCount, MinCurrentWinCount, MinCurrentCount} \subseteq Nat
    /\ {SpikeNum, AvgNum, P95Num} \subseteq Int
    /\ {SpikeDen, AvgDen, P95Den} \subseteq Nat \ {0}

Result == [rule: {"new", "rare", "volume"}, score: {20, 30, 40}]

-----------------------------------------------------------------------------
\* Integer average of the window counts, 0 when there are none.
BaselineAverage(samples) ==
    IF samples = <<>> THEN 0 ELSE FoldSeq(+, 0, samples) \div Len(samples)

\* The k-th of the sorted samples: fewer than k of them are below it, and
\* at least k are not above it.
NthLeast(samples, k) ==
    CHOOSE v \in {samples[i] : i \in DOMAIN samples} :
        /\ Cardinality({i \in DOMAIN samples : samples[i] < v}) < k
        /\ Cardinality({i \in DOMAIN samples : samples[i] <= v}) >= k

\* sort.Slice on a copy
Sorted(samples) == [k \in DOMAIN samples |-> NthLeast(samples, k)]

\* Mutant of Percentile: the rank is one too low, as if math.Ceil were Floor.
Percentile_Floor(samples, p) ==
    LET n      == Len(samples)
        sorted == Sorted(samples)
        rank   == (p * n) \div 100
    IN  CASE n = 0                         -> 0
          [] n > 0 /\ (p <= 0 \/ rank < 1) -> sorted[1]
          [] n > 0 /\ p >= 100             -> sorted[n]
          [] OTHER                         -> sorted[rank]

\* Nearest rank: the element at position Ceil(p * n / 100) of the sorted
\* samples, kept within 1..n.
Percentile(samples, p) ==
    LET n      == Len(samples)
        sorted == Sorted(samples)
        rank   == (p * n + 99) \div 100
    IN  CASE n = 0                         -> 0
          [] n > 0 /\ (p <= 0 \/ rank < 1) -> sorted[1]
          [] n > 0 /\ p >= 100             -> sorted[n]
          [] OTHER                         -> sorted[rank]

\* Mutants of AtLeast: numerator and denominator of the multiplier swapped;
\* exactly the multiple instead of at least that.
AtLeast_Swapped(count, base, num, den) == count * num >= base * den
AtLeast_Exactly(count, base, num, den) == count * den = base * num

AtLeast(count, base, num, den) == count * den >= base * num

RareDestination(count, known) ==
    LET avg == BaselineAverage(known.samples)
    IN  /\ \/ Cardinality(known.days) <= MaxDaysSeen
           \/ known.count <= MaxTotalCount
        /\ count >= MinCurrentWinCount
        /\ avg # 0
        /\ AtLeast(count, avg, SpikeNum, SpikeDen)

AboveAverage(count, samples) ==
    LET avg == BaselineAverage(samples)
    IN  avg > 0 /\ AtLeast(count, avg, AvgNum, AvgDen)

AboveP95(count, samples) ==
    LET p95 == Percentile(samples, 95)
    IN  p95 > 0 /\ AtLeast(count, p95, P95Num, P95Den)

\* The evidences of the volume rule, 20 points each.
VolumeScore(count, known) ==
    IF Len(known.samples) < MinSampleWindows \/ count < MinCurrentCount
    THEN 0
    ELSE (IF AboveAverage(count, known.samples) THEN 20 ELSE 0)
       + (IF AboveP95(count, known.samples) THEN 20 ELSE 0)

-----------------------------------------------------------------------------
\* Evaluate for a window of the given count whose key the snapshot binds to
\* known; a key the snapshot does not bind has known.count = 0.
Evaluate(count, known) ==
    IF ~Enabled THEN {}
    ELSE IF known.count = 0
    THEN IF NewEnabled THEN {[rule |-> "new", score |-> 40]} ELSE {}
    ELSE {r \in Result :
            \/ /\ r = [rule |-> "rare", score |-> 30]
               /\ RareEnabled
               /\ RareDestination(count, known)
            \/ /\ r.rule = "volume"
               /\ VolumeEnabled
               /\ r.score = VolumeScore(count, known)}

=============================================================================
