----------------------------- MODULE FlowPipeline -----------------------------
(***************************************************************************)
(* cmd/agent: the path of a connection from the ring buffer to an alert.   *)
(* Three goroutines share the window aggregator, the baseline builder, the *)
(* snapshot holder and the detect channel:                                 *)
(*                                                                         *)
(*   handler   the TCP collector's read loop, in TCPConnectEventHandler.   *)
(*             Handle for one event at a time                              *)
(*   exporter  exportBaselineSnapshotOnce, when learning ends              *)
(*   worker    runDetectorWorker                                           *)
(*                                                                         *)
(* A step ends where a mutex is released or a channel operation is done,   *)
(* so everything another goroutine can see between two steps is here.      *)
(*                                                                         *)
(* Time is in ticks of the monotonic clock.  An event carries the time its *)
(* connect call was entered but is queued when the call returns, so events *)
(* of several threads may reach the handler out of order, and any event    *)
(* late.  Which key an event gets (pod, domain and destination lookups) is *)
(* the environment's choice here.                                          *)
(***************************************************************************)
EXTENDS WindowAggregator, BaselineBuilder, AnomalyDetector

CONSTANTS
    KeyRank,      \* order of the keys in sortClosedWindows; ties are possible
    BuildUntil,   \* end of the learning period
    ChanCap,      \* capacity of detectCh
    NoSnapshot,   \* the nil snapshot
    MaxTime, MaxEvents, MaxLag   \* bounds: clock, events read, delay of one

ASSUME PipelineAssumption ==
    /\ KeyRank \in [Key -> Nat]
    /\ {BuildUntil, MaxTime, MaxEvents, MaxLag} \subseteq Nat
    /\ ChanCap \in Nat
    /\ NoSnapshot \notin Baseline

VARIABLES
    clock, handled,            \* the time; events read so far
    hpc, ev, closed,           \* handler: step, its event, popped windows left
    epc, exported,             \* exporter: step, the snapshot it made
    snapshotHolder, detectCh,
    wpc, cw,                   \* worker: step, window it received
    alerts,                    \* the results the worker has logged
    newest, late,              \* history: newest timestamp read; an event
                               \*   older than an earlier one was read
    closedUpTo, sampled        \* history, per key: end of the last window
                               \*   popped; sum of the samples appended

handlerVars  == <<hpc, ev, closed>>
exporterVars == <<epc, exported, snapshotHolder>>
workerVars   == <<wpc, cw, alerts>>
historyVars  == <<newest, late, closedUpTo, sampled>>

vars == <<clock, handled, windowFlows, builderFlows, handlerVars,
          exporterVars, detectCh, workerVars, historyVars>>

ClosedWindow == [key: Key, start: Nat, count: Nat]
NoClosed     == [key |-> Noise, start |-> 0, count |-> 0]
NoEvent      == [key |-> Noise, ts |-> 0]
Alert        == [window: ClosedWindow, result: Result]

TypeOK ==
    /\ clock \in 0..MaxTime /\ handled \in 0..MaxEvents
    /\ windowFlows \in [Key -> Window]
    /\ builderFlows \in Baseline
    /\ SamplesTrimmed
    /\ hpc \in {"idle", "add", "learn", "sample", "send"}
    /\ ev \in Event
    /\ closed \in [Key -> Window]
    /\ epc \in {"wait", "replace", "reset", "done"}
    /\ exported \in Baseline \cup {NoSnapshot}
    /\ snapshotHolder \in Baseline \cup {NoSnapshot}
    /\ detectCh \in Seq(ClosedWindow)
    /\ Len(detectCh) <= ChanCap
    /\ wpc \in {"receive", "judge"}
    /\ cw \in IF wpc = "judge" THEN ClosedWindow ELSE {NoClosed}
    /\ alerts \subseteq Alert
    /\ newest \in Nat /\ late \in BOOLEAN
    /\ closedUpTo \in [Key -> Nat]
    /\ sampled \in [Key -> Nat]

Init ==
    /\ clock = 0 /\ handled = 0
    /\ windowFlows = NoWindows
    /\ builderFlows = EmptyBaseline
    /\ hpc = "idle" /\ ev = NoEvent /\ closed = NoWindows
    /\ epc = "wait" /\ exported = NoSnapshot
    /\ snapshotHolder = NoSnapshot
    /\ detectCh = <<>>
    /\ wpc = "receive" /\ cw = NoClosed
    /\ alerts = {}
    /\ newest = 0 /\ late = FALSE
    /\ closedUpTo = [k \in Key |-> 0]
    /\ sampled = [k \in Key |-> 0]

Tick ==
    /\ clock < MaxTime
    /\ clock' = clock + 1
    /\ UNCHANGED <<handled, windowFlows, builderFlows, handlerVars,
                   exporterVars, detectCh, workerVars, historyVars>>

-----------------------------------------------------------------------------
(* The handler.                                                            *)

\* Handle takes an event and pops the windows that ended by its timestamp.
HandlerPop(e) ==
    /\ hpc = "idle"
    /\ handled < MaxEvents
    /\ e.ts <= clock /\ clock <= e.ts + MaxLag
    /\ handled' = handled + 1
    /\ ev' = e
    /\ closed' = ClosedWindows(e.ts)
    /\ PopExpired(e.ts)
    /\ hpc' = "add"
    /\ late' = (late \/ e.ts < newest)
    /\ newest' = IF e.ts < newest THEN newest ELSE e.ts
    /\ closedUpTo' = [k \in Key |-> IF Expired(k, e.ts)
                                    THEN WindowEnd(windowFlows[k])
                                    ELSE closedUpTo[k]]
    /\ UNCHANGED <<clock, builderFlows, exporterVars, detectCh, workerVars,
                   sampled>>

\* Go on with the popped windows at step pc, or be done with the event.
Continue(pc, batch) ==
    IF batch = NoWindows
    THEN hpc' = "idle" /\ ev' = NoEvent
    ELSE hpc' = pc /\ UNCHANGED ev

\* now.Before(buildUntil): the event's own time decides, not the exporter.
Learning(e) == e.ts < BuildUntil

HandlerAdd ==
    /\ hpc = "add"
    /\ WindowAdd(ev)
    /\ IF Learning(ev)
       THEN hpc' = "learn" /\ UNCHANGED ev
       ELSE Continue("send", closed)
    /\ UNCHANGED <<clock, handled, builderFlows, closed, exporterVars,
                   detectCh, workerVars, historyVars>>

HandlerLearn ==
    /\ hpc = "learn"
    /\ IF ev.key \in Learnable
       THEN BuilderAdd(ev.key, ev.ts)
       ELSE UNCHANGED builderFlows
    /\ Continue("sample", closed)
    /\ UNCHANGED <<clock, handled, windowFlows, closed, exporterVars,
                   detectCh, workerVars, historyVars>>

\* sortClosedWindows: earlier start first, then larger count, then the key.
Before(j, k) ==
    \/ closed[j].start < closed[k].start
    \/ /\ closed[j].start = closed[k].start
       /\ \/ closed[j].count > closed[k].count
          \/ /\ closed[j].count = closed[k].count
             /\ KeyRank[j] < KeyRank[k]

IsNext(k) == /\ closed[k].count > 0
             /\ \A j \in Key : closed[j].count > 0 => ~Before(j, k)

HandlerSample(k) ==
    /\ hpc = "sample"
    /\ IsNext(k)
    /\ IF k \in Resolved
       THEN /\ AppendWindowSample(k, closed[k].count)
            /\ sampled' = IF Learned(builderFlows, k)
                          THEN [sampled EXCEPT ![k] = @ + closed[k].count]
                          ELSE sampled
       ELSE UNCHANGED <<builderFlows, sampled>>
    /\ closed' = [closed EXCEPT ![k] = Absent]
    /\ Continue("sample", closed')
    /\ UNCHANGED <<clock, handled, windowFlows, exporterVars, detectCh,
                   workerVars, newest, late, closedUpTo>>

HasRoom == Len(detectCh) < ChanCap

Closed(k) == [key |-> k, start |-> closed[k].start, count |-> closed[k].count]

\* Mutant of HandlerSend: the send has no default branch and blocks.
HandlerSend_Blocks(k) ==
    /\ hpc = "send"
    /\ IsNext(k)
    /\ IF k \in Resolved
       THEN HasRoom /\ detectCh' = Append(detectCh, Closed(k))
       ELSE UNCHANGED detectCh
    /\ closed' = [closed EXCEPT ![k] = Absent]
    /\ Continue("send", closed')
    /\ UNCHANGED <<clock, handled, windowFlows, builderFlows, exporterVars,
                   workerVars, historyVars>>

\* The send never blocks: a window that finds the channel full is dropped.
HandlerSend(k) ==
    /\ hpc = "send"
    /\ IsNext(k)
    /\ detectCh' = IF k \in Resolved /\ HasRoom
                   THEN Append(detectCh, Closed(k))
                   ELSE detectCh
    /\ closed' = [closed EXCEPT ![k] = Absent]
    /\ Continue("send", closed')
    /\ UNCHANGED <<clock, handled, windowFlows, builderFlows, exporterVars,
                   workerVars, historyVars>>

HandlerStep == \/ HandlerAdd
               \/ HandlerLearn
               \/ \E k \in Key : HandlerSample(k) \/ HandlerSend(k)

ReadEvent == \E k \in Key \cup {Noise}, ts \in 0..MaxTime :
                HandlerPop([key |-> k, ts |-> ts])

-----------------------------------------------------------------------------
(* The exporter.  Its timer fires at BuildUntil or some time after.        *)

\* Mutant of ExporterExport: waits for an event after the learning period
\* instead of the timer.
ExporterExport_ByEvent ==
    /\ epc = "wait"
    /\ newest >= BuildUntil
    /\ exported' = ExportSnapshot
    /\ epc' = "replace"
    /\ UNCHANGED <<clock, handled, windowFlows, builderFlows, handlerVars,
                   snapshotHolder, detectCh, workerVars, historyVars>>

ExporterExport ==
    /\ epc = "wait"
    /\ clock >= BuildUntil
    /\ exported' = ExportSnapshot
    /\ epc' = "replace"
    /\ UNCHANGED <<clock, handled, windowFlows, builderFlows, handlerVars,
                   snapshotHolder, detectCh, workerVars, historyVars>>

\* Mutant of ExporterReplace: publishes the builder as it is by now.
ExporterReplace_ExportsAgain ==
    /\ epc = "replace"
    /\ snapshotHolder' = ExportSnapshot
    /\ epc' = "reset"
    /\ UNCHANGED <<clock, handled, windowFlows, builderFlows, handlerVars,
                   exported, detectCh, workerVars, historyVars>>

ExporterReplace ==
    /\ epc = "replace"
    /\ snapshotHolder' = exported
    /\ epc' = "reset"
    /\ UNCHANGED <<clock, handled, windowFlows, builderFlows, handlerVars,
                   exported, detectCh, workerVars, historyVars>>

\* Mutant of ExporterReset: resets the builder, not the aggregator.
ExporterReset_Builder ==
    /\ epc = "reset"
    /\ builderFlows' = EmptyBaseline
    /\ epc' = "done"
    /\ UNCHANGED <<clock, handled, windowFlows, handlerVars, exported,
                   snapshotHolder, detectCh, workerVars, historyVars>>

ExporterReset ==
    /\ epc = "reset"
    /\ WindowReset
    /\ epc' = "done"
    /\ UNCHANGED <<clock, handled, builderFlows, handlerVars, exported,
                   snapshotHolder, detectCh, workerVars, historyVars>>

ExporterStep == ExporterExport \/ ExporterReplace \/ ExporterReset

-----------------------------------------------------------------------------
(* The worker.                                                             *)

\* Mutant of WorkerReceive: an undetectable namespace ends the worker.
WorkerReceive_Returns ==
    /\ wpc = "receive"
    /\ detectCh # <<>>
    /\ detectCh' = Tail(detectCh)
    /\ IF Head(detectCh).key \in Detectable
       THEN wpc' = "judge" /\ cw' = Head(detectCh)
       ELSE wpc' = "ended" /\ UNCHANGED cw
    /\ UNCHANGED <<clock, handled, windowFlows, builderFlows, handlerVars,
                   exporterVars, alerts, historyVars>>

WorkerReceive ==
    /\ wpc = "receive"
    /\ detectCh # <<>>
    /\ detectCh' = Tail(detectCh)
    /\ IF Head(detectCh).key \in Detectable
       THEN wpc' = "judge" /\ cw' = Head(detectCh)
       ELSE UNCHANGED <<wpc, cw>>
    /\ UNCHANGED <<clock, handled, windowFlows, builderFlows, handlerVars,
                   exporterVars, alerts, historyVars>>

\* Mutant of Known: the snapshot's DaysSeen is the builder's own map.
Known_SharedDays(k) ==
    [snapshotHolder[k] EXCEPT !.days =
        IF Learned(snapshotHolder, k) THEN builderFlows[k].days ELSE @]

\* What the published snapshot's memory holds of k.  Its DaysSeen and
\* WindowCounts are copies, so nothing the builder does later is seen here.
Known(k) == snapshotHolder[k]

\* Mutant of WorkerJudge: judges by the builder instead of the snapshot.
WorkerJudge_ByBuilder ==
    /\ wpc = "judge"
    /\ alerts' = IF snapshotHolder = NoSnapshot THEN alerts
                 ELSE alerts \cup
                    {[window |-> cw, result |-> r] :
                        r \in Evaluate(cw.count, builderFlows[cw.key])}
    /\ wpc' = "receive" /\ cw' = NoClosed
    /\ UNCHANGED <<clock, handled, windowFlows, builderFlows, handlerVars,
                   exporterVars, detectCh, historyVars>>

WorkerJudge ==
    /\ wpc = "judge"
    /\ alerts' = IF snapshotHolder = NoSnapshot THEN alerts
                 ELSE alerts \cup
                    {[window |-> cw, result |-> r] :
                        r \in Evaluate(cw.count, Known(cw.key))}
    /\ wpc' = "receive" /\ cw' = NoClosed
    /\ UNCHANGED <<clock, handled, windowFlows, builderFlows, handlerVars,
                   exporterVars, detectCh, historyVars>>

WorkerStep == WorkerReceive \/ WorkerJudge

-----------------------------------------------------------------------------
\* The bounds are reached and every goroutine waits.
Quiescent ==
    /\ clock = MaxTime /\ handled = MaxEvents
    /\ hpc = "idle" /\ epc = "done" /\ wpc = "receive" /\ detectCh = <<>>
    /\ UNCHANGED vars

Next == Tick \/ ReadEvent \/ HandlerStep \/ ExporterStep \/ WorkerStep
             \/ Quiescent

Spec == Init /\ [][Next]_vars

\* The Go scheduler runs the handler.
HandlerFairSpec == Spec /\ WF_vars(HandlerStep)

=============================================================================
