-------------------------- MODULE PipelineRefinement --------------------------
(***************************************************************************)
(* FlowPipeline implements LearnThenDetect.  The publication is the step   *)
(* in which the exporter copies the builder; the two steps in which it     *)
(* installs the copy and resets the windows, and every event the handler   *)
(* learns between and after them, change nothing a report can see.         *)
(***************************************************************************)
EXTENDS FlowPipelineProperties

\* The nil snapshot is also no set of keys.
ASSUME RefinementAssumption == \A keys \in SUBSET Key : keys # NoSnapshot

Keys(flows) == {k \in Key : Learned(flows, k)}

ReportOf(a) == [key |-> a.window.key, new |-> a.result.rule = "new"]

Promise == INSTANCE LearnThenDetect WITH
    NotYet    <- NoSnapshot,
    learned   <- Keys(builderFlows),
    published <- IF exported = NoSnapshot THEN NoSnapshot ELSE Keys(exported),
    reported  <- {ReportOf(a) : a \in alerts}

\* Every behaviour of the three goroutines is one of LearnThenDetect: the
\* handoff at BuildUntil (exportBaselineSnapshotOnce) acts as one step.
ImplementsLearnThenDetect == Promise!LTDSpec

=============================================================================
