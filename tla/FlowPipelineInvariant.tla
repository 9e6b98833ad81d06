------------------------ MODULE FlowPipelineInvariant ------------------------
(***************************************************************************)
(* The inductive invariant of FlowPipeline: TypeOK, the safety invariants  *)
(* that are inductive given the rest, and what they rest on.               *)
(***************************************************************************)
EXTENDS FlowPipelineProperties

\* Windows start at multiples of the window size, and none starts after the
\* newest event.
WindowsInv ==
    \A k \in Key : IsOpen(k) => /\ Aligned(windowFlows[k].start)
                                /\ windowFlows[k].start <= newest

\* What each step of Handle knows of its event and of the popped windows.
HandlerInv ==
    /\ hpc = "idle" => closed = NoWindows
    /\ hpc # "idle" =>
          /\ ev.ts <= newest
          /\ ~late => ev.ts = newest
          /\ \A k \in Key :
                closed[k].count > 0 => WindowEnd(closed[k]) <= ev.ts
    /\ hpc = "add" =>
          \A k \in Key : IsOpen(k) => ev.ts < WindowEnd(windowFlows[k])
    /\ hpc \in {"learn", "sample"} => Learning(ev)
    /\ hpc = "send" => ~Learning(ev)

\* A window that ends within the learning period belongs to a learned key,
\* unless its only event is being learned.
LearnedInv ==
    \A k \in Learnable :
        /\ IsOpen(k) /\ WindowEnd(windowFlows[k]) <= BuildUntil
              => Learned(builderFlows, k) \/ (hpc = "learn" /\ ev.key = k)
        /\ closed[k].count > 0 /\ WindowEnd(closed[k]) <= BuildUntil
              => Learned(builderFlows, k)

\* Where the last closed window of a key ends, and that an open one is later.
ClosedInv ==
    \A k \in Key :
        /\ Aligned(closedUpTo[k])
        /\ closedUpTo[k] <= newest
        /\ ~late /\ IsOpen(k) => closedUpTo[k] <= windowFlows[k].start

\* The copy is made once and installed once.
ExporterInv ==
    /\ exported = NoSnapshot <=> epc = "wait"
    /\ snapshotHolder = IF epc \in {"wait", "replace"} THEN NoSnapshot
                                                       ELSE exported

\* Only windows of workloads are sent, only detectable ones are judged.
ChannelInv ==
    /\ \A i \in 1..Len(detectCh) : detectCh[i].key \in Resolved
    /\ wpc = "judge" => cw.key \in Learnable

(***************************************************************************)
(* Everything the proofs carry from step to step: what the handler, the    *)
(* exporter and the worker may rely on at every point of the program.      *)
(***************************************************************************)
IInv == /\ TypeOK
        /\ WindowsInv
        /\ HandlerInv
        /\ LearnedInv
        /\ ClosedInv
        /\ OneOpenPeriod
        /\ LearningBalance
        /\ ExporterInv
        /\ ChannelInv
        /\ AlertsMatchSnapshot

-----------------------------------------------------------------------------
(* What a learning period can leave, which IInv does not need.             *)

\* While events come in order, the learned flows have a sample for no more
\* windows than fit into the learning period, on no more than its days.
FewSamples(flows) ==
    \A k \in Key :
        /\ flows[k].count = 0 => flows[k].samples = <<>>
        /\ flows[k].days \subseteq 0..DayOf(BuildUntil)
        /\ ~late => Len(flows[k].samples) * WindowSize <= BuildUntil

\* The windows sampled and about to be sampled end where the last one ended.
SampledUpTo ==
    \A k \in Key :
        ~late => Len(builderFlows[k].samples) * WindowSize
                   + (IF closed[k].count > 0 THEN WindowSize ELSE 0)
                      <= closedUpTo[k]

(***************************************************************************)
(* What bounds the samples and the days of a baseline.  Events that are    *)
(* not delayed are read in order.                                          *)
(***************************************************************************)
LearnedWindowsInv ==
    /\ newest <= clock /\ (MaxLag = 0 => ~late)
    /\ FewSamples(builderFlows)
    /\ exported # NoSnapshot => FewSamples(exported)
    /\ SampledUpTo

=============================================================================
