----------------------------- MODULE VolumeTester -----------------------------
(***************************************************************************)
(* The pipeline under the traffic of test/volume/volume-anomaly-tester.go, *)
(* started together with the agent: requestsPerMinute connections in each  *)
(* of the first baselineMinutes minutes, silence, and a burst.  A tick is  *)
(* a minute.  The burst's window is closed by whatever event comes later:  *)
(* one of some other process, whose key isNoise rejects.                   *)
(*                                                                         *)
(* Only the exporter's speed is left open: within a minute the handler and *)
(* the worker keep up.                                                     *)
(***************************************************************************)
EXTENDS FlowPipelineProperties

CONSTANTS
    Subject,                     \* the tester's flow key, one of Key
    baselineMinutes, requestsPerMinute,
    burstDelayFromStart, burstRequests  \* minutes and connections: naturals

\* Events that have been made when the minute t is over.
Due(t) ==
    LET baseline == requestsPerMinute *
                       (IF t < baselineMinutes THEN t + 1 ELSE baselineMinutes)
    IN  CASE t < burstDelayFromStart -> baseline
          [] t = burstDelayFromStart -> baseline + burstRequests
          [] OTHER                   -> baseline + burstRequests + 1

Schedule ==
    /\ clock' # clock =>
          /\ handled = Due(clock)
          /\ hpc = "idle" /\ wpc = "receive" /\ detectCh = <<>>
    /\ handled' # handled =>
          /\ handled < Due(clock)
          /\ ev'.key = IF clock > burstDelayFromStart THEN Noise ELSE Subject

TesterSpec == Init /\ [][Next /\ Schedule]_vars

(***************************************************************************)
(* The tester logs its first phase as "building volume baseline": the      *)
(* volume rule judges the burst of the second phase by it.  TLC refutes    *)
(* this: buildDuration is shorter than the phase, the snapshot has four    *)
(* windows where the rule asks for minSampleWindows, which is ten.         *)
(***************************************************************************)
BurstReportedByVolumeRule == SharpIncrease => "volume" \in RulesFor(cw)

=============================================================================
