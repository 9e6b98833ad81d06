--------------------------- MODULE BaselineBuilder ---------------------------
(***************************************************************************)
(* internal/aggregator/workload_baseline_builder.go: BaselineBuilder, the  *)
(* learned traffic of every flow key: how many connections, on which days, *)
(* and the counts of the windows closed while learning.                    *)
(*                                                                         *)
(* A key absent from the Go map is bound to NotLearned (count 0: Add       *)
(* creates and increments an entry under one lock hold).  Success and fail *)
(* counts, first/last seen and the total duration are left out: they are   *)
(* only printed.                                                           *)
(***************************************************************************)
EXTENDS Flows, Sequences

CONSTANTS
    DayLength,   \* ticks in a day
    MaxSamples   \* maxWindowSamples; not positive: samples are never trimmed

ASSUME BuilderAssumption == /\ DayLength \in Nat \ {0}
                            /\ MaxSamples \in Int

VARIABLE builderFlows

FlowAggregate == [count: Nat, days: SUBSET Nat, samples: Seq(Nat)]
Baseline      == [Key -> FlowAggregate]

NotLearned == [count |-> 0, days |-> {}, samples |-> <<>>]

Learned(flows, k) == flows[k].count > 0

EmptyBaseline == [k \in Key |-> NotLearned]

\* ts.Format("2006-01-02"), the key of DaysSeen.
DayOf(ts) == ts \div DayLength

\* Mutant of WithSample: append without the trimming.
WithSample_Untrimmed(samples, count) == Append(samples, count)

\* append, then keep the last MaxSamples.
WithSample(samples, count) ==
    LET all == Append(samples, count)
    IN  IF MaxSamples > 0 /\ Len(all) > MaxSamples
        THEN SubSeq(all, Len(all) - MaxSamples + 1, Len(all))
        ELSE all

-----------------------------------------------------------------------------
Added(agg, ts) == [count   |-> agg.count + 1,
                   days    |-> agg.days \cup {DayOf(ts)},
                   samples |-> agg.samples]

BuilderAdd(k, ts) ==
    builderFlows' = [builderFlows EXCEPT ![k] = Added(@, ts)]

Sampled(agg, count) == [agg EXCEPT !.samples = WithSample(@, count)]

\* What the trimming is for; part of the type of builderFlows.
SamplesTrimmed ==
    MaxSamples > 0 =>
        \A k \in Key : Len(builderFlows[k].samples) <= MaxSamples

\* A sample of a key the builder does not know is dropped.
AppendWindowSample(k, count) ==
    builderFlows' = IF Learned(builderFlows, k)
                    THEN [builderFlows EXCEPT ![k] = Sampled(@, count)]
                    ELSE builderFlows

\* A deep copy: cloneWorkloadFlowAggregate copies DaysSeen and WindowCounts.
ExportSnapshot == builderFlows

=============================================================================
