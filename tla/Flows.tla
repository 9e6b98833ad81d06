-------------------------------- MODULE Flows --------------------------------
(***************************************************************************)
(* What the pipeline's components say about a connection.  Handle turns a  *)
(* connect event into a ResolvedFlow and BuildWorkloadKey turns that into  *)
(* a WorkloadFlowKey: the workload of the source pod, or its network       *)
(* namespace and command when no pod was found, with the destination's     *)
(* name and port.  Here a key is a model value, an event is its key and    *)
(* its timestamp, and the tests the code makes on a key's fields are sets. *)
(***************************************************************************)
EXTENDS Integers

CONSTANTS
    Key,         \* the WorkloadFlowKeys
    Noise,       \* stands for the key of an event isNoise rejects
    Resolved,    \* keys made from a pod: IsResolvedSourceKey
    Detectable   \* keys whose namespace isDetectableNamespace accepts

ASSUME FlowsAssumption == /\ Noise \notin Key
                          /\ Resolved \subseteq Key
                          /\ Detectable \subseteq Key

Event == [key: Key \cup {Noise}, ts: Nat]

\* handleBaselineLearning passes these to the builder: a pod was found and
\* its namespace is not one of the cluster's own.
Learnable == Resolved \cap Detectable

=============================================================================
