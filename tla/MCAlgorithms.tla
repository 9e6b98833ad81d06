---------------------------- MODULE MCAlgorithms ----------------------------
(***************************************************************************)
(* The agent's pure computations over bounded inputs: the detector's rules *)
(* over growing baselines, ParseResponse over growing messages.            *)
(***************************************************************************)
EXTENDS MCAnomalyDetector, MCDnsMessage

Init == BaselineInit /\ MsgInit

Next == \/ /\ msg = NoMessage
           /\ BaselineNext
           /\ UNCHANGED msgVars
        \/ /\ known.samples = <<>> /\ known.count = 1
           /\ MsgNext
           /\ UNCHANGED known

Spec == Init /\ [][Next]_<<known, msgVars>>

=============================================================================
