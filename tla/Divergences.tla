----------------------------- MODULE Divergences -----------------------------
(***************************************************************************)
(* What README.md says of the detection, stated of the pipeline as the     *)
(* code has it.  TLC refutes it.                                           *)
(***************************************************************************)
EXTENDS PipelineRefinement

(***************************************************************************)
(* README.md lists as an anomaly "a new destination that was not in the    *)
(* existing baseline".  The worker's test is absence from the snapshot the *)
(* exporter made; an event of the learning period that Handle finishes     *)
(* after the export is in the builder's baseline and not in the snapshot.  *)
(***************************************************************************)
NewMeansNotInBaseline ==
    \A a \in alerts :
        a.result.rule = "new" => ~Learned(builderFlows, a.window.key)

=============================================================================
