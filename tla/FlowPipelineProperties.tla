----------------------- MODULE FlowPipelineProperties -----------------------
(***************************************************************************)
(* What the pipeline promises.  TypeOK is in FlowPipeline; the properties  *)
(* here relate the aggregator, the builder, the channel and the snapshot,  *)
(* which the three goroutines change in turns.                             *)
(***************************************************************************)
EXTENDS FlowPipeline

(***************************************************************************)
(* WorkloadWindowAggregator.Add throws the counts of an open window away   *)
(* when the event's window is another one.  Because Handle pops the        *)
(* expired windows first, that only happens to an event older than one     *)
(* that was handled before: with events in order no count is ever lost so. *)
(***************************************************************************)
Overwritten(k) == /\ windowFlows[k].count > 0
                  /\ windowFlows'[k].count > 0
                  /\ windowFlows'[k].start # windowFlows[k].start

OverwritesOnlyWhenOutOfOrder ==
    [][\A k \in Key : Overwritten(k) => ev.ts < newest]_vars

(***************************************************************************)
(* While events come in order, the windows popped for a key follow each    *)
(* other: none is closed twice, as two samples or two detections of the    *)
(* same period, and none overlaps an earlier one.                          *)
(***************************************************************************)
NoWindowClosedTwice ==
    [][\A k \in Key :
          ~late' /\ closed[k].count = 0 /\ closed'[k].count > 0
             => closed'[k].start >= closedUpTo[k]]_vars

(***************************************************************************)
(* Late or not, a window that starts before the end of the last one popped *)
(* for its key, so that its period is closed twice, is opened by an event  *)
(* older than one handled before: never by the newest, nor by another with *)
(* the newest's timestamp.                                                 *)
(***************************************************************************)
Reopened(k) == /\ windowFlows[k].count = 0 \/ Overwritten(k)
               /\ windowFlows'[k].count > 0
               /\ windowFlows'[k].start < closedUpTo[k]

ReopensOnlyWhenOutOfOrder ==
    [][\A k \in Key : Reopened(k) => ev.ts < newest]_vars

(***************************************************************************)
(* Every window handleBaselineLearning passes to AppendWindowSample for a  *)
(* learnable key finds its key in the builder, so the builder never drops  *)
(* a sample, whatever the order of events.                                 *)
(***************************************************************************)
SamplesLand ==
    \A k \in Learnable :
        hpc = "sample" /\ closed[k].count > 0 => Learned(builderFlows, k)

(***************************************************************************)
(* A window passed to AppendWindowSample ended within the learning period: *)
(* no window that reaches to BuildUntil is part of the baseline.           *)
(***************************************************************************)
SamplesEndInLearning ==
    hpc = "sample" => \A k \in Key :
        closed[k].count > 0 => WindowEnd(closed[k]) < BuildUntil

(***************************************************************************)
(* While learning, with events in order and before the reset, the builder  *)
(* and the aggregator agree on every learnable key: the connections the    *)
(* baseline has counted are those in its window samples, in the window     *)
(* being closed and in the open window.  (Between Add on the aggregator    *)
(* and Add on the builder the event is counted in one of them only.)       *)
(***************************************************************************)
Unlearned(k) == IF hpc = "learn" /\ ev.key = k THEN 1 ELSE 0

LearningBalance ==
    ~late /\ newest < BuildUntil /\ epc # "done" =>
        \A k \in Learnable :
            builderFlows[k].count + Unlearned(k)
                = sampled[k] + closed[k].count + windowFlows[k].count

(***************************************************************************)
(* While events come in order, every open window of every key is the one   *)
(* the newest event falls in: an idle key's window does not stay open      *)
(* beside a later one, because any event closes the windows of all keys.   *)
(***************************************************************************)
OneOpenPeriod ==
    ~late => \A k \in Key :
        IsOpen(k) => windowFlows[k].start = Truncate(newest)

(***************************************************************************)
(* Only windows of workloads whose namespace is detectable are reported,   *)
(* and a destination is reported as new only if the published snapshot,    *)
(* which no later event changes, does not have it, and as rare or high in  *)
(* volume only if it does.                                                 *)
(***************************************************************************)
AlertsMatchSnapshot ==
    \A a \in alerts :
        /\ a.window.key \in Learnable
        /\ snapshotHolder # NoSnapshot
        /\ a.result.rule = "new" <=> ~Learned(snapshotHolder, a.window.key)

(***************************************************************************)
(* From its publication on, what the worker reads of every key in the      *)
(* snapshot stays the same, counts, days and window samples: no later      *)
(* export replaces it, and no event learned after it, whose days and       *)
(* samples BaselineBuilder goes on collecting, shows through the copy.     *)
(***************************************************************************)
SnapshotNeverChanges ==
    [][snapshotHolder # NoSnapshot =>
          /\ snapshotHolder' # NoSnapshot
          /\ \A k \in Key : Known(k)' = Known(k)]_vars

\* The worker is about to judge a window of several times the usual count.
SharpIncrease ==
    /\ wpc = "judge"
    /\ snapshotHolder # NoSnapshot
    /\ cw.count >= MinCurrentCount
    /\ AboveAverage(cw.count, Known(cw.key).samples)

\* The rules that report the window the worker is about to judge.
RulesFor(window) == {r.rule : r \in Evaluate(window.count, Known(window.key))}

(***************************************************************************)
(* Handle always returns, whether or not the detector worker runs: the     *)
(* only fairness needed is the handler's own, which every run of these     *)
(* properties assumes.                                                     *)
(***************************************************************************)
HandlerReturns == hpc # "idle" ~> hpc = "idle"

(***************************************************************************)
(* Learning ends: if the exporter is scheduled, the snapshot is published  *)
(* once the build duration is over, though no event comes and the worker   *)
(* never runs.                                                             *)
(***************************************************************************)
SnapshotPublished ==
    WF_vars(ExporterStep) => (clock >= BuildUntil ~> snapshotHolder # NoSnapshot)

(***************************************************************************)
(* If the worker is scheduled, every window that was accepted by the       *)
(* channel is taken out of it, whatever the exporter does.                 *)
(***************************************************************************)
WindowsReachWorker ==
    WF_vars(WorkerStep) =>
        \A k \in Key :
            (\E i \in 1..Len(detectCh) : detectCh[i].key = k)
                ~> (\A i \in 1..Len(detectCh) : detectCh[i].key # k)

=============================================================================
