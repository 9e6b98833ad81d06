------------------------- MODULE FlowPipelineProofs -------------------------
(***************************************************************************)
(* Types, safety and the promise of FlowPipeline, for every value of the   *)
(* constants.                                                              *)
(*                                                                         *)
(* Lemmas about the aggregator's windows and the baseline builder come     *)
(* first: how time.Truncate cuts time into windows, what Add and           *)
(* PopExpired do to one window, what the builder's Add and                 *)
(* AppendWindowSample do to each flow.                                     *)
(*                                                                         *)
(* Each variable of the three goroutines keeps its type whatever order     *)
(* they run in; the part a type error could hide in is the detect channel, *)
(* whose length never passes its capacity.                                 *)
(*                                                                         *)
(* IInv is inductive: one lemma per step of a goroutine says that the step *)
(* keeps it, with one numbered step per conjunct of IInv that the step can *)
(* disturb.  The safety theorems follow from IInv.                         *)
(*                                                                         *)
(* FlowPipeline implements LearnThenDetect: the initial states map to the  *)
(* initial state of the promise, and every step maps to one step of it or  *)
(* leaves its variables alone.                                             *)
(*                                                                         *)
(* LearnedWindowsInv bounds what a learning period can leave behind: with  *)
(* it, a configuration like the shipped one reports a sharp increase, but  *)
(* by the rare rule alone.                                                 *)
(***************************************************************************)
EXTENDS FlowPipelineInvariant, PipelineRefinement, FiniteSetTheorems,
        SequenceTheorems, WellFoundedInduction, TLAPS

\* Division with remainder by the window size.
LEMMA DivisionMod ==
    ASSUME NEW t \in Nat
    PROVE  /\ t \div WindowSize \in Nat
           /\ t % WindowSize \in 0..WindowSize - 1
           /\ t = WindowSize * (t \div WindowSize) + (t % WindowSize)
BY WindowAssumption

\* The window of t starts no later than t and ends after it.
LEMMA TruncateBounds ==
    ASSUME NEW t \in Nat
    PROVE  /\ Truncate(t) \in Nat
           /\ Truncate(t) <= t
           /\ t < Truncate(t) + WindowSize
BY DivisionMod, WindowAssumption DEF Truncate

\* Multiples of the window size are where windows start.
LEMMA MultipleAligned ==
    ASSUME NEW q \in Nat
    PROVE  Aligned(WindowSize * q)
BY WindowAssumption DEF Aligned

\* Multiplying by the window size keeps the order.
LEMMA MultipleMonotone ==
    ASSUME NEW m \in Nat, NEW n \in Nat, m <= n
    PROVE  WindowSize * m <= WindowSize * n
<1>1. PICK d \in Nat : n = m + d
  <2>1. n - m \in Nat /\ n = m + (n - m)
    OBVIOUS
  <2> QED
    BY <2>1
<1>2. WindowSize * n = WindowSize * m + WindowSize * d
  BY <1>1, WindowAssumption
<1>3. WindowSize * d \in Nat /\ WindowSize * m \in Nat
  BY WindowAssumption
<1> QED
  BY <1>2, <1>3

\* Two different window starts are at least a window apart.
LEMMA AlignedGap ==
    ASSUME NEW a \in Nat, NEW b \in Nat, Aligned(a), Aligned(b), a < b
    PROVE  a + WindowSize <= b
<1> DEFINE p == a \div WindowSize
           q == b \div WindowSize
<1>1. a = WindowSize * p /\ b = WindowSize * q /\ p \in Nat /\ q \in Nat
  BY DivisionMod, WindowAssumption DEF Aligned
<1> HIDE DEF p, q
<1>2. p + 1 <= q
  BY <1>1, MultipleMonotone, WindowAssumption
<1>3. WindowSize * (p + 1) <= WindowSize * q
  BY <1>1, <1>2, MultipleMonotone
<1>4. WindowSize * (p + 1) = a + WindowSize
  BY <1>1, WindowAssumption
<1> QED
  BY <1>1, <1>3, <1>4

\* Truncate returns the start of a window.
LEMMA TruncateAligned ==
    ASSUME NEW t \in Nat
    PROVE  Aligned(Truncate(t))
<1>1. Truncate(t) = WindowSize * (t \div WindowSize)
  BY DivisionMod, WindowAssumption DEF Truncate
<1> QED
  BY <1>1, DivisionMod, MultipleAligned

\* A window ends where another starts.
LEMMA AlignedEnd ==
    ASSUME NEW a \in Nat, Aligned(a)
    PROVE  Aligned(a + WindowSize)
<1>1. a = WindowSize * (a \div WindowSize)
  BY DivisionMod, WindowAssumption DEF Aligned
<1>2. a + WindowSize = WindowSize * ((a \div WindowSize) + 1)
  BY <1>1, DivisionMod, WindowAssumption
<1>3. Aligned(WindowSize * ((a \div WindowSize) + 1))
  BY DivisionMod, MultipleAligned
<1> QED
  BY <1>2, <1>3

\* A window start not after t is not after the start of t's window.
LEMMA TruncateIsLatest ==
    ASSUME NEW a \in Nat, NEW t \in Nat, Aligned(a), a <= t
    PROVE  a <= Truncate(t)
<1>1. SUFFICES ASSUME Truncate(t) < a PROVE FALSE
  BY TruncateBounds
<1>2. Truncate(t) + WindowSize <= a
  BY <1>1, AlignedGap, TruncateAligned, TruncateBounds
<1> QED
  BY <1>2, TruncateBounds, WindowAssumption

\* The one aligned window that contains t.
LEMMA TruncateIsUnique ==
    ASSUME NEW a \in Nat, NEW t \in Nat, Aligned(a), a <= t,
           t < a + WindowSize
    PROVE  a = Truncate(t)
<1>1. a <= Truncate(t)
  BY TruncateIsLatest
<1>2. SUFFICES ASSUME a < Truncate(t) PROVE FALSE
  BY <1>1, TruncateBounds
<1>3. a + WindowSize <= Truncate(t)
  BY <1>2, AlignedGap, TruncateAligned, TruncateBounds
<1> QED
  BY <1>3, TruncateBounds, WindowAssumption

-----------------------------------------------------------------------------
\* Add leaves the event's window open, whatever was there.
LEMMA CountedWindow ==
    ASSUME NEW w \in Window, NEW ts \in Nat
    PROVE  /\ Counted(w, ts) \in Window
           /\ Counted(w, ts).count > 0
           /\ Counted(w, ts).start = Truncate(ts)
BY TruncateBounds DEF Counted, Window

\* Add keeps what an open window of the same period has counted.
LEMMA CountedKeeps ==
    ASSUME NEW w \in Window, NEW ts \in Nat,
           w.count > 0 => w.start = Truncate(ts)
    PROVE  Counted(w, ts).count = w.count + 1
BY DEF Counted, Window

\* A window is either popped or kept, and the popped ones have ended.
LEMMA PoppedOrKept ==
    ASSUME windowFlows \in [Key -> Window], NEW now \in Nat, PopExpired(now),
           NEW k \in Key
    PROVE  /\ windowFlows'[k] \in Window
           /\ ClosedWindows(now)[k] \in Window
           /\ ClosedWindows(now)[k].count > 0 =>
                 /\ windowFlows'[k] = Absent
                 /\ ClosedWindows(now)[k] = windowFlows[k]
                 /\ Expired(k, now)
           /\ windowFlows'[k].count > 0 =>
                 /\ windowFlows'[k] = windowFlows[k]
                 /\ now < WindowEnd(windowFlows[k])
           /\ ClosedWindows(now)[k].count + windowFlows'[k].count
                 = windowFlows[k].count
BY WindowAssumption
   DEF PopExpired, ClosedWindows, Expired, IsOpen, Absent, Window, WindowEnd

-----------------------------------------------------------------------------
\* Trimming to the last MaxSamples leaves a sequence of counts.
LEMMA WithSampleType ==
    ASSUME NEW s \in Seq(Nat), NEW n \in Nat
    PROVE  WithSample(s, n) \in Seq(Nat)
<1> DEFINE all == Append(s, n)
<1>1. all \in Seq(Nat) /\ Len(all) \in Nat
  OBVIOUS
<1>2. ASSUME MaxSamples > 0, Len(all) > MaxSamples
      PROVE  SubSeq(all, Len(all) - MaxSamples + 1, Len(all)) \in Seq(Nat)
  BY <1>1, <1>2, BuilderAssumption
<1> QED
  BY <1>1, <1>2 DEF WithSample

\* A sample makes a flow's samples longer by one, or not at all, and never
\* longer than maxWindowSamples.
LEMMA WithSampleLength ==
    ASSUME NEW s \in Seq(Nat), NEW n \in Nat
    PROVE  /\ Len(WithSample(s, n)) \in Nat
           /\ Len(WithSample(s, n)) <= Len(s) + 1
           /\ MaxSamples > 0 => Len(WithSample(s, n)) <= MaxSamples
<1> DEFINE all == Append(s, n)
<1>1. all \in Seq(Nat) /\ Len(all) = Len(s) + 1 /\ Len(s) \in Nat
  OBVIOUS
<1> HIDE DEF all
<1>2. CASE MaxSamples > 0 /\ Len(all) > MaxSamples
  <2>1. PICK from, to : from = Len(all) - MaxSamples + 1 /\ to = Len(all)
    OBVIOUS
  <2>2. /\ MaxSamples \in Int /\ from \in 1..to /\ to \in Nat
        /\ to - from + 1 = MaxSamples
    BY <1>1, <1>2, <2>1, BuilderAssumption
  <2>3. Len(SubSeq(all, from, to)) = to - from + 1
    BY <1>1, <2>1, <2>2
  <2>4. WithSample(s, n) = SubSeq(all, from, to)
    BY <1>2, <2>1 DEF WithSample, all
  <2> QED
    BY <1>1, <1>2, <2>2, <2>3, <2>4
<1>3. CASE ~(MaxSamples > 0 /\ Len(all) > MaxSamples)
  <2>1. WithSample(s, n) = all
    BY <1>3 DEF WithSample, all
  <2> QED
    BY <1>1, <1>3, <2>1, BuilderAssumption
<1> QED
  BY <1>2, <1>3

\* A day is a number.
LEMMA DayType == ASSUME NEW t \in Nat PROVE DayOf(t) \in Nat
BY BuilderAssumption DEF DayOf

\* The empty builder is a baseline that knows no key.
LEMMA EmptyBaselineType ==
    /\ EmptyBaseline \in Baseline
    /\ \A k \in Key : EmptyBaseline[k].count = 0 /\ EmptyBaseline[k].days = {}
BY DEF EmptyBaseline, Baseline, FlowAggregate, NotLearned

\* Add counts one connection more and keeps the days.
LEMMA AddedFlow ==
    ASSUME NEW agg \in FlowAggregate, NEW ts \in Nat
    PROVE  /\ Added(agg, ts) \in FlowAggregate
           /\ Added(agg, ts).count = agg.count + 1
           /\ agg.days \subseteq Added(agg, ts).days
<1>1. DayOf(ts) \in Nat
  BY DayType
<1>2. agg.count \in Nat /\ agg.days \in SUBSET Nat /\ agg.samples \in Seq(Nat)
  BY DEF FlowAggregate
<1>3. agg.days \cup {DayOf(ts)} \in SUBSET Nat
  BY <1>1, <1>2
<1> QED
  BY <1>2, <1>3 DEF Added, FlowAggregate

\* A sample changes neither the count nor the days.
LEMMA SampledFlow ==
    ASSUME NEW agg \in FlowAggregate, NEW n \in Nat
    PROVE  /\ Sampled(agg, n) \in FlowAggregate
           /\ Sampled(agg, n).count = agg.count
           /\ Sampled(agg, n).days = agg.days
<1>1. WithSample(agg.samples, n) \in Seq(Nat)
  BY WithSampleType DEF FlowAggregate
<1> QED
  BY <1>1 DEF Sampled, FlowAggregate

\* Add counts the connection under its key and leaves the others alone.
LEMMA BuilderAddEffect ==
    ASSUME builderFlows \in Baseline, NEW k \in Key, NEW ts \in Nat,
           BuilderAdd(k, ts)
    PROVE  /\ builderFlows' \in Baseline
           /\ builderFlows'[k].count = builderFlows[k].count + 1
           /\ \A j \in Key \ {k} : builderFlows'[j] = builderFlows[j]
           /\ \A j \in Key :
                 /\ builderFlows[j].count <= builderFlows'[j].count
                 /\ builderFlows[j].days \subseteq builderFlows'[j].days
<1>1. \A j \in Key : /\ builderFlows[j] \in FlowAggregate
                     /\ builderFlows[j].count \in Nat
  BY DEF Baseline, FlowAggregate
<1>2. builderFlows' = [builderFlows EXCEPT ![k] = Added(builderFlows[k], ts)]
  BY DEF BuilderAdd
<1>3. /\ builderFlows' \in Baseline
      /\ builderFlows'[k] = Added(builderFlows[k], ts)
      /\ \A j \in Key \ {k} : builderFlows'[j] = builderFlows[j]
  BY <1>1, <1>2, AddedFlow DEF Baseline
<1>4. /\ builderFlows'[k].count = builderFlows[k].count + 1
      /\ builderFlows[k].days \subseteq builderFlows'[k].days
  BY <1>1, <1>3, AddedFlow
<1> QED
  BY <1>1, <1>3, <1>4

\* AppendWindowSample changes no count and no day.
LEMMA AppendWindowSampleEffect ==
    ASSUME builderFlows \in Baseline, NEW k \in Key, NEW n \in Nat,
           AppendWindowSample(k, n)
    PROVE  /\ builderFlows' \in Baseline
           /\ \A j \in Key : /\ builderFlows'[j].count = builderFlows[j].count
                             /\ builderFlows'[j].days = builderFlows[j].days
<1>1. builderFlows[k] \in FlowAggregate
  BY DEF Baseline
<1>2. CASE Learned(builderFlows, k)
  <2>1. builderFlows' = [builderFlows EXCEPT ![k] = Sampled(builderFlows[k], n)]
    BY <1>2 DEF AppendWindowSample
  <2> QED
    BY <1>1, <2>1, SampledFlow DEF Baseline
<1>3. CASE ~Learned(builderFlows, k)
  BY <1>3 DEF AppendWindowSample
<1> QED
  BY <1>2, <1>3

\* The samples stay within maxWindowSamples: Add does not touch them, and
\* AppendWindowSample trims.
LEMMA StaysTrimmed ==
    ASSUME builderFlows \in Baseline, SamplesTrimmed, NEW k \in Key, NEW n \in Nat,
           \/ BuilderAdd(k, n)
           \/ AppendWindowSample(k, n)
           \/ UNCHANGED builderFlows
    PROVE  SamplesTrimmed'
<1> SUFFICES ASSUME MaxSamples > 0, NEW j \in Key
             PROVE  Len(builderFlows'[j].samples) <= MaxSamples
  BY DEF SamplesTrimmed
<1>1. Len(builderFlows[j].samples) <= MaxSamples
  BY DEF SamplesTrimmed
<1>2. builderFlows[k] \in FlowAggregate /\ builderFlows[k].samples \in Seq(Nat)
  BY DEF Baseline, FlowAggregate
<1>3. CASE BuilderAdd(k, n)
  <2>1. builderFlows'[j].samples = builderFlows[j].samples
    BY <1>2, <1>3 DEF BuilderAdd, Added, Baseline
  <2> QED
    BY <1>1, <2>1
<1>4. CASE AppendWindowSample(k, n)
  <2>1. \/ builderFlows'[j].samples = builderFlows[j].samples
        \/ builderFlows'[j].samples = WithSample(builderFlows[k].samples, n)
    BY <1>2, <1>4 DEF AppendWindowSample, Sampled, Baseline, FlowAggregate
  <2> QED
    BY <1>1, <1>2, <2>1, WithSampleLength
<1> QED
  BY <1>1, <1>3, <1>4

-----------------------------------------------------------------------------
\* The value of a key without a window is typed like a window.
LEMMA AbsentWindow == Absent \in Window /\ NoWindows \in [Key -> Window]
BY DEF Absent, NoWindows, Window

\* What idle goroutines hold is typed like an event and a window.
LEMMA NoneTyped == /\ NoEvent \in Event
                   /\ NoClosed.key \in Key \cup {Noise}
BY DEF NoEvent, Event, NoClosed

\* Whatever the rules decide, Evaluate returns results.
LEMMA EvaluateType ==
    ASSUME NEW count, NEW known
    PROVE  Evaluate(count, known) \subseteq Result
BY DEF Evaluate, Result

\* Evaluate's early return: the new-destination result, and no other, comes
\* from a key that the snapshot does not have.
LEMMA EvaluateNew ==
    ASSUME NEW count, NEW known, NEW r \in Evaluate(count, known)
    PROVE  r.rule = "new" <=> known.count = 0
BY DEF Evaluate, Result

\* The bounds and the times are natural numbers.
LEMMA Bounds == /\ BuildUntil \in Nat /\ MaxTime \in Nat /\ MaxEvents \in Nat
                /\ MaxLag \in Nat /\ ChanCap \in Nat
BY PipelineAssumption

\* main starts every component with a value of its type.
LEMMA InitTypeOK == Init => TypeOK
<1> SUFFICES ASSUME Init PROVE TypeOK
  OBVIOUS
<1>1. clock \in 0..MaxTime /\ handled \in 0..MaxEvents
  BY Bounds DEF Init
<1>2. detectCh \in Seq(ClosedWindow) /\ Len(detectCh) <= ChanCap
  BY Bounds DEF Init
<1>3. SamplesTrimmed
  <2>1. \A k \in Key : builderFlows[k].samples = <<>>
    BY DEF Init, EmptyBaseline, NotLearned
  <2>2. MaxSamples > 0 => Len(<<>>) <= MaxSamples
    BY BuilderAssumption
  <2> QED
    BY <2>1, <2>2 DEF SamplesTrimmed
<1> QED
  BY <1>1, <1>2, <1>3, AbsentWindow, NoneTyped, EmptyBaselineType
     DEF Init, TypeOK

\* Between two steps of Handle the step and the event are typed.
LEMMA ContinueType ==
    ASSUME ev \in Event, NEW pc \in {"sample", "send"}, NEW batch,
           Continue(pc, batch)
    PROVE  /\ hpc' \in {"idle", "add", "learn", "sample", "send"}
           /\ ev' \in Event
BY NoneTyped DEF Continue

\* PopExpired moves windows, and windows are all it moves.
LEMMA PopTypeOK ==
    ASSUME TypeOK, NEW e \in Event, HandlerPop(e)
    PROVE  TypeOK'
<1> USE DEF HandlerPop, exporterVars, workerVars
<1>1. handled' \in 0..MaxEvents
  BY Bounds DEF TypeOK
<1>2. /\ windowFlows' \in [Key -> Window]
      /\ closed' \in [Key -> Window]
  <2>1. e.ts \in Nat
    BY DEF Event
  <2>2. DOMAIN windowFlows' = Key /\ DOMAIN closed' = Key
    BY DEF PopExpired, ClosedWindows
  <2> QED
    BY <2>1, <2>2, AbsentWindow DEF PopExpired, ClosedWindows, TypeOK
<1>3. closedUpTo' \in [Key -> Nat]
  BY WindowAssumption DEF TypeOK, Window, WindowEnd
<1>4. newest' \in Nat /\ late' \in BOOLEAN
  BY DEF TypeOK, Event
<1> QED
  BY <1>1, <1>2, <1>3, <1>4 DEF TypeOK, SamplesTrimmed

\* WorkloadWindowAggregator.Add leaves a window of its type.
LEMMA AddTypeOK == ASSUME TypeOK, HandlerAdd PROVE TypeOK'
<1> USE DEF HandlerAdd, exporterVars, workerVars, historyVars
<1>1. windowFlows' \in [Key -> Window]
  <2>1. windowFlows \in [Key -> Window] /\ ev.ts \in Nat
    BY DEF TypeOK, Event
  <2>2. ev.key \in Key => Counted(windowFlows[ev.key], ev.ts) \in Window
    BY <2>1, CountedWindow
  <2> QED
    BY <2>1, <2>2 DEF WindowAdd
<1>2. /\ hpc' \in {"idle", "add", "learn", "sample", "send"}
      /\ ev' \in Event
  BY ContinueType DEF TypeOK
<1> QED
  BY <1>1, <1>2 DEF TypeOK, SamplesTrimmed

\* BaselineBuilder.Add leaves a flow of its type.
LEMMA LearnTypeOK == ASSUME TypeOK, HandlerLearn PROVE TypeOK'
<1> USE DEF HandlerLearn, exporterVars, workerVars, historyVars
<1>1. builderFlows' \in Baseline /\ SamplesTrimmed'
  <2>1. builderFlows \in Baseline /\ ev.ts \in Nat
    BY DEF TypeOK, Event
  <2>2. ev.key \in Learnable => ev.key \in Key
    BY FlowsAssumption DEF Learnable
  <2>3. SamplesTrimmed
    BY DEF TypeOK
  <2>4. CASE ev.key \in Learnable
    BY <2>1, <2>2, <2>3, <2>4, BuilderAddEffect, StaysTrimmed
  <2>5. CASE ev.key \notin Learnable
    BY <2>1, <2>3, <2>5 DEF SamplesTrimmed
  <2> QED
    BY <2>4, <2>5
<1>2. /\ hpc' \in {"idle", "add", "learn", "sample", "send"}
      /\ ev' \in Event
  BY ContinueType DEF TypeOK
<1> QED
  BY <1>1, <1>2 DEF TypeOK

\* AppendWindowSample leaves a flow of its type.
LEMMA SampleTypeOK ==
    ASSUME TypeOK, NEW k \in Key, HandlerSample(k)
    PROVE  TypeOK'
<1> USE DEF HandlerSample, exporterVars, workerVars
<1>1. builderFlows' \in Baseline /\ SamplesTrimmed'
  <2>1. builderFlows \in Baseline /\ closed[k].count \in Nat
    BY DEF TypeOK, Window
  <2>2. SamplesTrimmed
    BY DEF TypeOK
  <2> QED
    BY <2>1, <2>2, AppendWindowSampleEffect, StaysTrimmed
<1>2. sampled' \in [Key -> Nat]
  <2>1. sampled \in [Key -> Nat] /\ closed[k].count \in Nat
    BY DEF TypeOK, Window
  <2>2. sampled' = [sampled EXCEPT ![k] = @ + closed[k].count]
          \/ sampled' = sampled
    OBVIOUS
  <2> QED
    BY <2>1, <2>2
<1>3. closed' \in [Key -> Window]
  BY AbsentWindow DEF TypeOK
<1>4. /\ hpc' \in {"idle", "add", "learn", "sample", "send"}
      /\ ev' \in Event
  BY ContinueType DEF TypeOK
<1> QED
  BY <1>1, <1>2, <1>3, <1>4 DEF TypeOK

\* The send to detectCh never passes the capacity: handleAnomalyDetection
\* drops the window when the channel is full.
LEMMA SendTypeOK ==
    ASSUME TypeOK, NEW k \in Key, HandlerSend(k)
    PROVE  TypeOK'
<1> USE DEF HandlerSend, exporterVars, workerVars, historyVars
<1>1. detectCh' \in Seq(ClosedWindow) /\ Len(detectCh') <= ChanCap
  <2>1. Closed(k) \in ClosedWindow
    BY DEF Closed, ClosedWindow, TypeOK, Window
  <2> QED
    BY <2>1, Bounds DEF TypeOK, HasRoom
<1>2. closed' \in [Key -> Window]
  BY AbsentWindow DEF TypeOK
<1>3. /\ hpc' \in {"idle", "add", "learn", "sample", "send"}
      /\ ev' \in Event
  BY ContinueType DEF TypeOK
<1> QED
  BY <1>1, <1>2, <1>3 DEF TypeOK, SamplesTrimmed

\* exportBaselineSnapshotOnce copies, installs and resets typed values.
LEMMA ExporterTypeOK == ASSUME TypeOK, ExporterStep PROVE TypeOK'
<1> USE DEF handlerVars, workerVars, historyVars
<1>1. CASE ExporterExport
  BY <1>1 DEF ExporterExport, ExportSnapshot, TypeOK, SamplesTrimmed
<1>2. CASE ExporterReplace
  BY <1>2 DEF ExporterReplace, TypeOK, SamplesTrimmed
<1>3. CASE ExporterReset
  BY <1>3, AbsentWindow
     DEF ExporterReset, WindowReset, TypeOK, SamplesTrimmed
<1> QED
  BY <1>1, <1>2, <1>3 DEF ExporterStep

\* The detector worker takes windows out and logs results.
LEMMA WorkerTypeOK == ASSUME TypeOK, WorkerStep PROVE TypeOK'
<1> USE DEF handlerVars, exporterVars, historyVars
<1>1. CASE WorkerReceive
  <2>1. /\ Head(detectCh) \in ClosedWindow
        /\ detectCh' \in Seq(ClosedWindow)
        /\ Len(detectCh') <= ChanCap
    BY <1>1, Bounds, HeadTailProperties DEF WorkerReceive, TypeOK
  <2> QED
    BY <1>1, <2>1 DEF WorkerReceive, TypeOK, SamplesTrimmed
<1>2. CASE WorkerJudge
  <2>1. alerts' \subseteq Alert
    BY <1>2, EvaluateType DEF WorkerJudge, TypeOK, Alert
  <2> QED
    BY <1>2, <2>1 DEF WorkerJudge, TypeOK, SamplesTrimmed
<1> QED
  BY <1>1, <1>2 DEF WorkerStep

\* The clock stays within its bound.
LEMMA StutterTypeOK == ASSUME TypeOK, Tick \/ UNCHANGED vars PROVE TypeOK'
BY Bounds DEF Tick, TypeOK, vars, handlerVars, exporterVars, workerVars,
              historyVars, SamplesTrimmed

\* Every step of every goroutine keeps the types.
LEMMA NextTypeOK == TypeOK /\ [Next]_vars => TypeOK'
<1> SUFFICES ASSUME TypeOK, [Next]_vars PROVE TypeOK'
  OBVIOUS
<1>1. CASE ReadEvent
  BY <1>1, PopTypeOK, Bounds DEF ReadEvent, Event
<1>2. CASE HandlerStep
  BY <1>2, AddTypeOK, LearnTypeOK, SampleTypeOK, SendTypeOK DEF HandlerStep
<1>3. CASE ExporterStep
  BY <1>3, ExporterTypeOK
<1>4. CASE WorkerStep
  BY <1>4, WorkerTypeOK
<1>5. CASE Tick \/ UNCHANGED vars
  BY <1>5, StutterTypeOK
<1> QED
  BY <1>1, <1>2, <1>3, <1>4, <1>5 DEF Next, Quiescent

(***************************************************************************)
(* TypeOK is an invariant: in particular no flow ever has more window      *)
(* samples than maxWindowSamples, however long learning lasts, and the     *)
(* worker judges a window only while it has one.                           *)
(***************************************************************************)
THEOREM TypeCorrect == Spec => []TypeOK
BY InitTypeOK, NextTypeOK, PTL DEF Spec

-----------------------------------------------------------------------------
\* An empty aggregator counts nothing.
LEMMA NoWindowsCount == \A k \in Key : NoWindows[k].count = 0
BY DEF NoWindows, Absent

\* main starts with nothing open, learned, exported or sent.
LEMMA InitIInv == Init => IInv
<1> SUFFICES ASSUME Init PROVE IInv
  OBVIOUS
<1>1. TypeOK
  BY InitTypeOK
<1>2. /\ windowFlows = NoWindows /\ closed = NoWindows
      /\ builderFlows = EmptyBaseline /\ sampled = [k \in Key |-> 0]
      /\ closedUpTo = [k \in Key |-> 0] /\ newest = 0
      /\ hpc = "idle" /\ epc = "wait" /\ wpc = "receive"
      /\ exported = NoSnapshot /\ snapshotHolder = NoSnapshot
      /\ detectCh = <<>> /\ alerts = {}
  BY DEF Init
<1>3. \A k \in Key : windowFlows[k].count = 0 /\ closed[k].count = 0
  <2>1. windowFlows = NoWindows /\ closed = NoWindows
    BY <1>2
  <2> QED
    BY <2>1, NoWindowsCount
<1>4. WindowsInv /\ HandlerInv /\ LearnedInv /\ OneOpenPeriod
  <2>1. \A k \in Learnable : k \in Key
    BY FlowsAssumption DEF Learnable
  <2> QED
    BY <1>2, <1>3, <2>1
       DEF WindowsInv, HandlerInv, LearnedInv, OneOpenPeriod, IsOpen
<1>5. ClosedInv
  <2>1. Aligned(0)
    BY WindowAssumption DEF Aligned
  <2>2. \A k \in Key : closedUpTo[k] = 0
    BY <1>2
  <2>3. newest = 0
    BY <1>2
  <2> SUFFICES ASSUME NEW k \in Key
               PROVE  /\ Aligned(closedUpTo[k])
                      /\ closedUpTo[k] <= newest
                      /\ ~IsOpen(k)
    BY DEF ClosedInv
  <2>4. closedUpTo[k] = 0 /\ windowFlows[k].count = 0
    BY <1>3, <2>2
  <2> QED
    BY <2>1, <2>3, <2>4 DEF IsOpen
<1>6. LearningBalance
  <2>1. \A k \in Key : builderFlows[k].count = 0 /\ sampled[k] = 0
    BY <1>2, EmptyBaselineType
  <2>2. \A k \in Learnable : Unlearned(k) = 0
    BY <1>2 DEF Unlearned
  <2>3. \A k \in Learnable :
            builderFlows[k].count + Unlearned(k)
                = sampled[k] + closed[k].count + windowFlows[k].count
    <3> TAKE k \in Learnable
    <3>1. /\ builderFlows[k].count = 0 /\ Unlearned(k) = 0 /\ sampled[k] = 0
          /\ closed[k].count = 0 /\ windowFlows[k].count = 0
      BY <1>3, <2>1, <2>2, FlowsAssumption DEF Learnable
    <3> QED
      BY <3>1
  <2> QED
    BY <2>3 DEF LearningBalance
<1>7. ExporterInv /\ ChannelInv /\ AlertsMatchSnapshot
  BY <1>2 DEF ExporterInv, ChannelInv, AlertsMatchSnapshot
<1> QED
  BY <1>1, <1>4, <1>5, <1>6, <1>7 DEF IInv

\* PopExpired moves each ended window to the handler's batch, so counts are
\* neither lost nor doubled, and leaves open only windows that end after
\* the event.  Without a late event the open ones contain the event.
LEMMA PopIInv ==
    ASSUME IInv, NEW e \in Event, HandlerPop(e)
    PROVE  IInv'
<1>1. TypeOK /\ TypeOK'
  BY PopTypeOK DEF IInv
<1>2. /\ hpc = "idle" /\ hpc' = "add" /\ ev' = e
      /\ closed' = ClosedWindows(e.ts) /\ PopExpired(e.ts)
      /\ late' = (late \/ e.ts < newest)
      /\ newest' = IF e.ts < newest THEN newest ELSE e.ts
      /\ UNCHANGED <<builderFlows, sampled, epc, exported, snapshotHolder,
                     detectCh, wpc, cw, alerts>>
  BY DEF HandlerPop, exporterVars, workerVars
<1>3. /\ e.ts \in Nat /\ newest \in Nat /\ newest <= newest'
      /\ e.ts <= newest' /\ (~late' => ~late /\ e.ts = newest')
  <2>1. e.ts \in Nat /\ newest \in Nat
    BY <1>1 DEF Event, TypeOK
  <2>2. newest' = IF e.ts < newest THEN newest ELSE e.ts
    BY <1>2
  <2>3. ~late' => ~late /\ ~(e.ts < newest)
    BY <1>2, Zenon
  <2> QED
    BY <2>1, <2>2, <2>3
<1>4. \A k \in Key :
        /\ closed'[k].count > 0 =>
              /\ windowFlows'[k] = Absent
              /\ closed'[k] = windowFlows[k]
              /\ IsOpen(k) /\ WindowEnd(windowFlows[k]) <= e.ts
        /\ windowFlows'[k].count > 0 =>
              /\ windowFlows'[k] = windowFlows[k]
              /\ e.ts < WindowEnd(windowFlows[k])
        /\ closed'[k].count + windowFlows'[k].count = windowFlows[k].count
  <2> SUFFICES ASSUME NEW k \in Key
               PROVE  /\ closed'[k].count > 0 =>
                          /\ windowFlows'[k] = Absent
                          /\ closed'[k] = windowFlows[k]
                          /\ IsOpen(k) /\ WindowEnd(windowFlows[k]) <= e.ts
                      /\ windowFlows'[k].count > 0 =>
                          /\ windowFlows'[k] = windowFlows[k]
                          /\ e.ts < WindowEnd(windowFlows[k])
                      /\ closed'[k].count + windowFlows'[k].count
                            = windowFlows[k].count
    OBVIOUS
  <2>1. windowFlows \in [Key -> Window]
    BY <1>1 DEF TypeOK
  <2>2. WindowEnd(windowFlows[k]) \in Nat
    BY <2>1, WindowAssumption DEF Window, WindowEnd
  <2>3. Expired(k, e.ts) => IsOpen(k) /\ WindowEnd(windowFlows[k]) <= e.ts
    BY <2>2, <1>3 DEF Expired
  <2> QED
    BY <1>2, <1>3, <2>1, <2>3, PoppedOrKept
<1>5. WindowsInv'
  <2> SUFFICES ASSUME NEW k \in Key, windowFlows'[k].count > 0
               PROVE  /\ Aligned(windowFlows'[k].start)
                      /\ windowFlows'[k].start <= newest'
    BY DEF WindowsInv, IsOpen, Aligned
  <2>1. windowFlows'[k] = windowFlows[k] /\ windowFlows[k].start \in Nat
    BY <1>1, <1>4 DEF TypeOK, Window
  <2>2. newest' \in Nat
    BY <1>1 DEF TypeOK
  <2> QED
    BY <1>3, <2>1, <2>2 DEF IInv, WindowsInv, IsOpen
<1>6. HandlerInv'
  BY <1>2, <1>3, <1>4 DEF HandlerInv, IsOpen
<1>7. LearnedInv'
  BY <1>2, <1>4, FlowsAssumption
     DEF IInv, LearnedInv, IsOpen, Learned, Learnable
<1>8. ClosedInv'
  <2> SUFFICES ASSUME NEW k \in Key
               PROVE  /\ Aligned(closedUpTo'[k])
                      /\ closedUpTo'[k] <= newest'
                      /\ ~late' /\ windowFlows'[k].count > 0
                            => closedUpTo'[k] <= windowFlows'[k].start
    BY DEF ClosedInv, IsOpen
  <2>1. closedUpTo'[k] = IF Expired(k, e.ts) THEN WindowEnd(windowFlows[k])
                                             ELSE closedUpTo[k]
    BY DEF HandlerPop
  <2>2. windowFlows[k] \in Window /\ closedUpTo[k] \in Nat /\ newest' \in Nat
    BY <1>1 DEF TypeOK
  <2>3. CASE Expired(k, e.ts)
    <3>1. IsOpen(k) /\ WindowEnd(windowFlows[k]) <= e.ts
      BY <2>2, <2>3, <1>3, WindowAssumption DEF Expired, Window, WindowEnd
    <3>2. Aligned(WindowEnd(windowFlows[k])) /\ WindowEnd(windowFlows[k]) \in Nat
      BY <2>2, <3>1, AlignedEnd, WindowAssumption
         DEF IInv, WindowsInv, WindowEnd, Window
    <3>3. windowFlows'[k] = Absent
      BY <1>2, <2>3 DEF PopExpired
    <3> QED
      BY <1>3, <2>1, <2>2, <2>3, <3>1, <3>2, <3>3 DEF Absent
  <2>4. CASE ~Expired(k, e.ts)
    <3>1. windowFlows'[k] = windowFlows[k] /\ closedUpTo'[k] = closedUpTo[k]
      BY <1>2, <2>1, <2>4 DEF PopExpired
    <3> QED
      BY <1>3, <2>2, <3>1 DEF IInv, ClosedInv, IsOpen
  <2> QED
    BY <2>3, <2>4
<1>9. OneOpenPeriod'
  <2> SUFFICES ASSUME ~late', NEW k \in Key, windowFlows'[k].count > 0
               PROVE  windowFlows'[k].start = Truncate(newest')
    BY DEF OneOpenPeriod, IsOpen, Truncate
  <2>1. windowFlows'[k] = windowFlows[k] /\ e.ts < WindowEnd(windowFlows[k])
    BY <1>4
  <2>2. /\ Aligned(windowFlows[k].start) /\ windowFlows[k].start <= e.ts
        /\ windowFlows[k].start \in Nat
    BY <1>1, <1>3, <2>1 DEF IInv, WindowsInv, IsOpen, TypeOK, Window
  <2> QED
    BY <1>3, <2>1, <2>2, TruncateIsUnique DEF WindowEnd
<1>10. LearningBalance'
  <2> SUFFICES ASSUME ~late', newest' < BuildUntil, epc' # "done",
                      NEW k \in Learnable
               PROVE  builderFlows'[k].count + Unlearned(k)'
                        = sampled'[k] + closed'[k].count + windowFlows'[k].count
    BY DEF LearningBalance
  <2>1. k \in Key
    BY FlowsAssumption DEF Learnable
  <2>2. Unlearned(k) = 0 /\ Unlearned(k)' = 0
    BY <1>2 DEF Unlearned
  <2>3. ~late /\ newest < BuildUntil /\ epc # "done"
    BY <1>1, <1>2, <1>3, Bounds DEF TypeOK
  <2>4. closed[k].count = 0
    BY <1>2, <2>1 DEF IInv, HandlerInv, NoWindows, Absent
  <2>5. /\ builderFlows[k].count \in Nat /\ sampled[k] \in Nat
        /\ closed'[k].count \in Nat /\ windowFlows'[k].count \in Nat
        /\ windowFlows[k].count \in Nat
    BY <1>1, <2>1 DEF TypeOK, Window, Baseline, FlowAggregate
  <2>6. builderFlows[k].count + 0 = sampled[k] + 0 + windowFlows[k].count
    BY <2>2, <2>3, <2>4 DEF IInv, LearningBalance
  <2> QED
    BY <1>2, <1>4, <2>1, <2>2, <2>5, <2>6
<1>11. ExporterInv' /\ ChannelInv' /\ AlertsMatchSnapshot'
  BY <1>2 DEF IInv, ExporterInv, ChannelInv, AlertsMatchSnapshot, Learned
<1> QED
  BY <1>1, <1>5, <1>6, <1>7, <1>8, <1>9, <1>10, <1>11 DEF IInv

\* Add counts the event in the window of its time.  A window with another
\* start would be forgotten: with events in order there is none.
LEMMA AddIInv ==
    ASSUME IInv, HandlerAdd
    PROVE  IInv'
<1>1. TypeOK /\ TypeOK'
  BY AddTypeOK DEF IInv
<1>2. /\ hpc = "add" /\ closed' = closed
      /\ UNCHANGED <<builderFlows, newest, late, closedUpTo, sampled, epc,
                     exported, snapshotHolder, detectCh, wpc, cw, alerts>>
  BY DEF HandlerAdd, exporterVars, workerVars, historyVars
<1>3. \/ Learning(ev) /\ hpc' = "learn" /\ ev' = ev
      \/ ~Learning(ev) /\ hpc' = "idle" /\ closed = NoWindows
      \/ ~Learning(ev) /\ hpc' = "send" /\ ev' = ev
  BY DEF HandlerAdd, Continue
<1>4. /\ ev.ts \in Nat /\ newest \in Nat /\ ev.ts <= newest
      /\ ~late => ev.ts = newest
      /\ \A k \in Key :
            closed[k].count > 0 => WindowEnd(closed[k]) <= ev.ts
      /\ \A k \in Key : IsOpen(k) => ev.ts < WindowEnd(windowFlows[k])
  BY <1>1, <1>2 DEF IInv, HandlerInv, TypeOK, Event
<1>5. ASSUME NEW k \in Key
      PROVE  \/ windowFlows'[k] = windowFlows[k] /\ ev.key # k
             \/ /\ ev.key = k
                /\ windowFlows'[k] = Counted(windowFlows[k], ev.ts)
  BY <1>1, FlowsAssumption DEF HandlerAdd, WindowAdd, TypeOK
<1>6. ASSUME NEW k \in Key
      PROVE  /\ windowFlows[k] \in Window /\ windowFlows'[k] \in Window
             /\ windowFlows[k].start \in Nat /\ windowFlows[k].count \in Nat
             /\ closed[k].count \in Nat
             /\ builderFlows[k].count \in Nat /\ sampled[k] \in Nat
             /\ closedUpTo[k] \in Nat
  BY <1>1 DEF TypeOK, Window, Baseline, FlowAggregate
<1>7. ASSUME NEW k \in Key, ev.key = k
      PROVE  /\ windowFlows'[k].count > 0
             /\ windowFlows'[k].start = Truncate(ev.ts)
  <2>1. windowFlows'[k] = Counted(windowFlows[k], ev.ts)
    BY <1>5, <1>7
  <2>2. windowFlows[k] \in Window /\ ev.ts \in Nat
    BY <1>4, <1>6
  <2> QED
    BY <2>1, <2>2, CountedWindow
<1>8. /\ Truncate(ev.ts) \in Nat /\ Truncate(ev.ts) <= ev.ts
      /\ ev.ts < Truncate(ev.ts) + WindowSize /\ Aligned(Truncate(ev.ts))
  BY <1>4, TruncateBounds, TruncateAligned
<1>9. WindowsInv'
  <2> SUFFICES ASSUME NEW k \in Key, windowFlows'[k].count > 0
               PROVE  /\ Aligned(windowFlows'[k].start)
                      /\ windowFlows'[k].start <= newest'
    BY DEF WindowsInv, IsOpen, Aligned
  <2>1. CASE ev.key = k
    BY <2>1, <1>2, <1>4, <1>7, <1>8
  <2>2. CASE ev.key # k
    BY <2>2, <1>2, <1>5 DEF IInv, WindowsInv, IsOpen
  <2> QED
    BY <2>1, <2>2
<1>10. HandlerInv'
  <2>1. CASE Learning(ev) /\ hpc' = "learn" /\ ev' = ev
    BY <1>2, <1>4, <2>1 DEF HandlerInv, Learning, WindowEnd
  <2>2. CASE ~Learning(ev) /\ hpc' = "idle" /\ closed = NoWindows
    BY <1>2, <2>2 DEF HandlerInv
  <2>3. CASE ~Learning(ev) /\ hpc' = "send" /\ ev' = ev
    BY <1>2, <1>4, <2>3 DEF HandlerInv, Learning, WindowEnd
  <2> QED
    BY <1>3, <2>1, <2>2, <2>3
<1>11. LearnedInv'
  <2> SUFFICES ASSUME NEW k \in Learnable
               PROVE  /\ windowFlows'[k].count > 0
                         /\ WindowEnd(windowFlows'[k]) <= BuildUntil
                            => \/ Learned(builderFlows, k)
                               \/ hpc' = "learn" /\ ev'.key = k
                      /\ closed[k].count > 0 /\ WindowEnd(closed[k]) <= BuildUntil
                            => Learned(builderFlows, k)
    BY <1>2 DEF LearnedInv, IsOpen, Learned, WindowEnd
  <2>1. k \in Key
    BY FlowsAssumption DEF Learnable
  <2>2. CASE ev.key = k /\ WindowEnd(windowFlows'[k]) <= BuildUntil
    <3>1. Learning(ev)
      BY <2>1, <2>2, <1>4, <1>7, <1>8, Bounds, WindowAssumption
         DEF Learning, WindowEnd
    <3> QED
      BY <1>2, <1>3, <2>2, <3>1 DEF IInv, LearnedInv
  <2>3. CASE ev.key # k \/ ~(WindowEnd(windowFlows'[k]) <= BuildUntil)
    BY <1>2, <1>5, <2>1, <2>3 DEF IInv, LearnedInv, IsOpen
  <2> QED
    BY <2>2, <2>3
<1>12. ClosedInv'
  <2> SUFFICES ASSUME NEW k \in Key
               PROVE  /\ Aligned(closedUpTo[k])
                      /\ closedUpTo[k] <= newest
                      /\ ~late /\ windowFlows'[k].count > 0
                            => closedUpTo[k] <= windowFlows'[k].start
    BY <1>2 DEF ClosedInv, IsOpen, Aligned
  <2>1. Aligned(closedUpTo[k]) /\ closedUpTo[k] <= newest
    BY DEF IInv, ClosedInv
  <2>2. CASE ev.key = k
    BY <1>4, <1>6, <1>7, <2>1, <2>2, TruncateIsLatest
  <2>3. CASE ev.key # k
    BY <1>5, <2>1, <2>3 DEF IInv, ClosedInv, IsOpen
  <2> QED
    BY <2>2, <2>3
<1>13. OneOpenPeriod'
  <2> SUFFICES ASSUME ~late, NEW k \in Key, windowFlows'[k].count > 0
               PROVE  windowFlows'[k].start = Truncate(newest)
    BY <1>2 DEF OneOpenPeriod, IsOpen, Truncate
  <2>1. CASE ev.key = k
    BY <1>4, <1>7, <2>1
  <2>2. CASE ev.key # k
    BY <1>5, <2>2 DEF IInv, OneOpenPeriod, IsOpen
  <2> QED
    BY <2>1, <2>2
<1>14. LearningBalance'
  <2> SUFFICES ASSUME ~late, newest < BuildUntil, epc # "done",
                      NEW k \in Learnable
               PROVE  builderFlows[k].count + Unlearned(k)'
                        = sampled[k] + closed[k].count + windowFlows'[k].count
    BY <1>2 DEF LearningBalance
  <2>1. k \in Key
    BY FlowsAssumption DEF Learnable
  <2>2. hpc' = "learn" /\ ev' = ev
    BY <1>3, <1>4 DEF Learning
  <2>3. builderFlows[k].count
          = sampled[k] + closed[k].count + windowFlows[k].count
    <3>1. Unlearned(k) = 0
      BY <1>2 DEF Unlearned
    <3> QED
      BY <1>6, <2>1, <3>1 DEF IInv, LearningBalance
  <2>4. CASE ev.key = k
    <3>1. windowFlows[k].count > 0 => windowFlows[k].start = Truncate(ev.ts)
      BY <1>4, <2>1 DEF IInv, OneOpenPeriod, IsOpen
    <3>2. windowFlows'[k].count = windowFlows[k].count + 1
      BY <1>4, <1>5, <1>6, <2>1, <2>4, <3>1, CountedKeeps
    <3>3. Unlearned(k)' = 1
      BY <2>2, <2>4 DEF Unlearned
    <3> QED
      BY <1>6, <2>1, <2>3, <3>2, <3>3
  <2>5. CASE ev.key # k
    <3>1. Unlearned(k)' = 0 /\ windowFlows'[k] = windowFlows[k]
      BY <1>5, <2>1, <2>2, <2>5 DEF Unlearned
    <3> QED
      BY <1>6, <2>1, <2>3, <3>1
  <2> QED
    BY <2>4, <2>5
<1>15. ExporterInv' /\ ChannelInv' /\ AlertsMatchSnapshot'
  BY <1>2 DEF IInv, ExporterInv, ChannelInv, AlertsMatchSnapshot, Learned
<1> QED
  BY <1>1, <1>9, <1>10, <1>11, <1>12, <1>13, <1>14, <1>15 DEF IInv

\* BaselineBuilder.Add makes the key known before its windows are sampled,
\* and the builder is at least the exported copy.
LEMMA LearnIInv ==
    ASSUME IInv, HandlerLearn
    PROVE  IInv'
<1>1. TypeOK /\ TypeOK'
  BY LearnTypeOK DEF IInv
<1>2. /\ hpc = "learn" /\ closed' = closed
      /\ UNCHANGED <<windowFlows, newest, late, closedUpTo, sampled, epc,
                     exported, snapshotHolder, detectCh, wpc, cw, alerts>>
  BY DEF HandlerLearn, exporterVars, workerVars, historyVars
<1>3. \/ hpc' = "idle" /\ closed = NoWindows
      \/ hpc' = "sample" /\ ev' = ev
  BY DEF HandlerLearn, Continue
<1>4. /\ ev.ts \in Nat /\ ev.ts <= newest /\ Learning(ev)
      /\ ~late => ev.ts = newest
      /\ \A k \in Key :
            closed[k].count > 0 => WindowEnd(closed[k]) <= ev.ts
  BY <1>1, <1>2 DEF IInv, HandlerInv, TypeOK, Event
<1>5. ASSUME NEW k \in Key
      PROVE  /\ builderFlows[k].count \in Nat /\ sampled[k] \in Nat
             /\ builderFlows'[k].count \in Nat
             /\ closed[k].count \in Nat /\ windowFlows[k].count \in Nat
  BY <1>1 DEF TypeOK, Window, Baseline, FlowAggregate
<1>6. ASSUME NEW k \in Key
      PROVE  /\ builderFlows[k].count <= builderFlows'[k].count
             /\ builderFlows'[k].count = builderFlows[k].count +
                   (IF k \in Learnable /\ ev.key = k THEN 1 ELSE 0)
  <2>1. builderFlows \in Baseline
    BY <1>1 DEF TypeOK
  <2>2. CASE ev.key \in Learnable
    <3>1. ev.key \in Key /\ BuilderAdd(ev.key, ev.ts)
      BY <2>2, FlowsAssumption DEF HandlerLearn, Learnable
    <3>2. /\ builderFlows'[ev.key].count = builderFlows[ev.key].count + 1
          /\ \A j \in Key \ {ev.key} : builderFlows'[j] = builderFlows[j]
          /\ \A j \in Key :
                builderFlows[j].count <= builderFlows'[j].count
      BY <1>4, <2>1, <3>1, BuilderAddEffect
    <3> QED
      BY <1>5, <2>2, <3>2
  <2>3. CASE ev.key \notin Learnable
    BY <1>5, <2>3 DEF HandlerLearn
  <2> QED
    BY <2>2, <2>3
<1>7. WindowsInv' /\ ClosedInv' /\ OneOpenPeriod'
  BY <1>2 DEF IInv, WindowsInv, ClosedInv, OneOpenPeriod, IsOpen, Aligned,
              Truncate
<1>8. HandlerInv'
  <2>1. CASE hpc' = "idle" /\ closed = NoWindows
    BY <1>2, <2>1 DEF HandlerInv
  <2>2. CASE hpc' = "sample" /\ ev' = ev
    BY <1>2, <1>4, <2>2 DEF HandlerInv, Learning, WindowEnd
  <2> QED
    BY <1>3, <2>1, <2>2
<1>9. LearnedInv'
  <2> SUFFICES ASSUME NEW k \in Learnable
               PROVE  /\ IsOpen(k) /\ WindowEnd(windowFlows[k]) <= BuildUntil
                            => builderFlows'[k].count > 0
                      /\ closed[k].count > 0 /\ WindowEnd(closed[k]) <= BuildUntil
                            => builderFlows'[k].count > 0
    BY <1>2 DEF LearnedInv, IsOpen, Learned, WindowEnd
  <2>1. k \in Key
    BY FlowsAssumption DEF Learnable
  <2> QED
    BY <1>5, <1>6, <2>1 DEF IInv, LearnedInv, Learned
<1>10. LearningBalance'
  <2> SUFFICES ASSUME ~late, newest < BuildUntil, epc # "done",
                      NEW k \in Learnable
               PROVE  builderFlows'[k].count + Unlearned(k)'
                        = sampled[k] + closed[k].count + windowFlows[k].count
    BY <1>2 DEF LearningBalance
  <2>1. k \in Key
    BY FlowsAssumption DEF Learnable
  <2>2. builderFlows[k].count + Unlearned(k)
          = sampled[k] + closed[k].count + windowFlows[k].count
    BY DEF IInv, LearningBalance
  <2>3. Unlearned(k) = (IF ev.key = k THEN 1 ELSE 0) /\ Unlearned(k)' = 0
    BY <1>2, <1>3 DEF Unlearned
  <2> QED
    BY <1>5, <1>6, <2>1, <2>2, <2>3
<1>11. ExporterInv'
  BY <1>2 DEF IInv, ExporterInv
<1>12. ChannelInv' /\ AlertsMatchSnapshot'
  BY <1>2 DEF IInv, ChannelInv, AlertsMatchSnapshot, Learned
<1> QED
  BY <1>1, <1>7, <1>8, <1>9, <1>10, <1>11, <1>12 DEF IInv

\* AppendWindowSample gets a closed window's count: the window ended in the
\* learning period, so its key is known and the sample is kept.
LEMMA SampleIInv ==
    ASSUME IInv, NEW j \in Key, HandlerSample(j)
    PROVE  IInv'
<1>1. TypeOK /\ TypeOK'
  BY SampleTypeOK DEF IInv
<1>2. /\ hpc = "sample"
      /\ UNCHANGED <<windowFlows, newest, late, closedUpTo, epc, exported,
                     snapshotHolder, detectCh, wpc, cw, alerts>>
  BY DEF HandlerSample, exporterVars, workerVars
<1>3. \/ hpc' = "idle" /\ closed' = NoWindows
      \/ hpc' = "sample" /\ ev' = ev
  BY DEF HandlerSample, Continue
<1>4. /\ ev.ts \in Nat /\ ev.ts <= newest /\ Learning(ev)
      /\ ~late => ev.ts = newest
      /\ \A k \in Key :
            closed[k].count > 0 => WindowEnd(closed[k]) <= ev.ts
  BY <1>1, <1>2 DEF IInv, HandlerInv, TypeOK, Event
<1>5. ASSUME NEW k \in Key
      PROVE  /\ builderFlows[k].count \in Nat /\ sampled[k] \in Nat
             /\ closed[k].count \in Nat /\ windowFlows[k].count \in Nat
  BY <1>1 DEF TypeOK, Window, Baseline, FlowAggregate
<1>6. ASSUME NEW k \in Key
      PROVE  /\ builderFlows'[k].count = builderFlows[k].count
             /\ builderFlows'[k].days = builderFlows[k].days
  <2>1. builderFlows \in Baseline /\ closed[j].count \in Nat
    BY <1>1, <1>5 DEF TypeOK
  <2> QED
    BY <2>1, AppendWindowSampleEffect DEF HandlerSample
<1>7. closed' = [closed EXCEPT ![j] = Absent] /\ closed[j].count > 0
  BY DEF HandlerSample, IsNext
<1>8. ASSUME NEW k \in Key
      PROVE  \/ k = j /\ closed'[k].count = 0
             \/ k # j /\ closed'[k] = closed[k]
  BY <1>1, <1>7 DEF TypeOK, Absent
<1>9. WindowsInv' /\ ClosedInv' /\ OneOpenPeriod'
  BY <1>2 DEF IInv, WindowsInv, ClosedInv, OneOpenPeriod, IsOpen, Aligned,
              Truncate
<1>10. HandlerInv'
  <2>1. CASE hpc' = "idle" /\ closed' = NoWindows
    BY <1>2, <2>1 DEF HandlerInv
  <2>2. CASE hpc' = "sample" /\ ev' = ev
    <3>1. \A k \in Key :
            closed'[k].count > 0 => WindowEnd(closed'[k]) <= ev.ts
      BY <1>4, <1>8
    <3> QED
      BY <1>2, <1>4, <2>2, <3>1 DEF HandlerInv, Learning, WindowEnd
  <2> QED
    BY <1>3, <2>1, <2>2
<1>11. LearnedInv'
  <2> SUFFICES ASSUME NEW k \in Learnable
               PROVE  /\ IsOpen(k) /\ WindowEnd(windowFlows[k]) <= BuildUntil
                            => builderFlows'[k].count > 0
                      /\ closed'[k].count > 0 /\ WindowEnd(closed'[k]) <= BuildUntil
                            => builderFlows'[k].count > 0
    BY <1>2 DEF LearnedInv, IsOpen, Learned, WindowEnd
  <2>1. k \in Key
    BY FlowsAssumption DEF Learnable
  <2> QED
    BY <1>2, <1>6, <1>8, <2>1 DEF IInv, LearnedInv, Learned
<1>12. LearningBalance'
  <2> SUFFICES ASSUME ~late, newest < BuildUntil, epc # "done",
                      NEW k \in Learnable
               PROVE  builderFlows'[k].count + Unlearned(k)'
                        = sampled'[k] + closed'[k].count + windowFlows[k].count
    BY <1>2 DEF LearningBalance
  <2>1. k \in Key /\ k \in Resolved
    BY FlowsAssumption DEF Learnable
  <2>2. builderFlows[k].count + Unlearned(k)
          = sampled[k] + closed[k].count + windowFlows[k].count
    BY DEF IInv, LearningBalance
  <2>3. Unlearned(k) = 0 /\ Unlearned(k)' = 0
    BY <1>2, <1>3 DEF Unlearned
  <2>4. sampled'[k] = IF k = j THEN sampled[k] + closed[k].count
                               ELSE sampled[k]
    <3>1. k = j => Learned(builderFlows, j)
      <4>1. k = j => WindowEnd(closed[j]) <= BuildUntil
        <5>1. closed[j] \in Window
          BY <1>1 DEF TypeOK
        <5>2. WindowEnd(closed[j]) \in Nat
          BY <5>1, WindowAssumption DEF Window, WindowEnd
        <5>3. WindowEnd(closed[j]) <= ev.ts
          BY <1>4, <1>7
        <5> QED
          BY <1>4, <5>2, <5>3, Bounds DEF Learning
      <4> QED
        BY <1>7, <4>1 DEF IInv, LearnedInv
    <3>2. sampled \in [Key -> Nat]
      BY <1>1 DEF TypeOK
    <3> QED
      BY <2>1, <3>1, <3>2 DEF HandlerSample
  <2> QED
    BY <1>5, <1>6, <1>8, <2>1, <2>2, <2>3, <2>4
<1>13. ExporterInv'
  BY <1>2, <1>6 DEF IInv, ExporterInv
<1>14. ChannelInv' /\ AlertsMatchSnapshot'
  BY <1>2 DEF IInv, ChannelInv, AlertsMatchSnapshot, Learned
<1> QED
  BY <1>1, <1>9, <1>10, <1>11, <1>12, <1>13, <1>14 DEF IInv

\* Only windows of workloads are sent to the detect channel.
LEMMA SendIInv ==
    ASSUME IInv, NEW j \in Key, HandlerSend(j)
    PROVE  IInv'
<1>1. TypeOK /\ TypeOK'
  BY SendTypeOK DEF IInv
<1>2. /\ hpc = "send"
      /\ UNCHANGED <<windowFlows, builderFlows, newest, late, closedUpTo,
                     sampled, epc, exported, snapshotHolder, wpc, cw, alerts>>
  BY DEF HandlerSend, exporterVars, workerVars, historyVars
<1>3. \/ hpc' = "idle" /\ closed' = NoWindows
      \/ hpc' = "send" /\ ev' = ev
  BY DEF HandlerSend, Continue
<1>4. /\ ev.ts \in Nat /\ ev.ts <= newest /\ ~Learning(ev)
      /\ newest \in Nat
      /\ ~late => ev.ts = newest
      /\ \A k \in Key :
            closed[k].count > 0 => WindowEnd(closed[k]) <= ev.ts
  BY <1>1, <1>2 DEF IInv, HandlerInv, TypeOK, Event
<1>5. closed' = [closed EXCEPT ![j] = Absent] /\ closed[j].count > 0
  BY DEF HandlerSend, IsNext
<1>6. ASSUME NEW k \in Key
      PROVE  \/ k = j /\ closed'[k].count = 0
             \/ k # j /\ closed'[k] = closed[k]
  BY <1>1, <1>5 DEF TypeOK, Absent
<1>7. WindowsInv' /\ ClosedInv' /\ OneOpenPeriod'
  BY <1>2 DEF IInv, WindowsInv, ClosedInv, OneOpenPeriod, IsOpen, Aligned,
              Truncate
<1>8. HandlerInv'
  <2>1. CASE hpc' = "idle" /\ closed' = NoWindows
    BY <1>2, <2>1 DEF HandlerInv
  <2>2. CASE hpc' = "send" /\ ev' = ev
    <3>1. \A k \in Key :
            closed'[k].count > 0 => WindowEnd(closed'[k]) <= ev.ts
      BY <1>4, <1>6
    <3> QED
      BY <1>2, <1>4, <2>2, <3>1 DEF HandlerInv, Learning, WindowEnd
  <2> QED
    BY <1>3, <2>1, <2>2
<1>9. LearnedInv'
  <2> SUFFICES ASSUME NEW k \in Learnable
               PROVE  /\ IsOpen(k) /\ WindowEnd(windowFlows[k]) <= BuildUntil
                            => Learned(builderFlows, k)
                      /\ closed'[k].count > 0 /\ WindowEnd(closed'[k]) <= BuildUntil
                            => Learned(builderFlows, k)
    BY <1>2 DEF LearnedInv, IsOpen, Learned, WindowEnd
  <2>1. k \in Key
    BY FlowsAssumption DEF Learnable
  <2> QED
    BY <1>2, <1>6, <2>1 DEF IInv, LearnedInv
<1>10. LearningBalance'
  <2>1. ~late => ~(newest < BuildUntil)
    BY <1>4 DEF Learning
  <2> QED
    BY <1>2, <2>1 DEF LearningBalance
<1>11. ExporterInv' /\ AlertsMatchSnapshot'
  BY <1>2 DEF IInv, ExporterInv, AlertsMatchSnapshot, Learned
<1>12. ChannelInv'
  <2>1. CASE detectCh' = detectCh
    BY <1>2, <2>1 DEF IInv, ChannelInv
  <2>2. CASE j \in Resolved /\ detectCh' = Append(detectCh, Closed(j))
    <3>1. detectCh \in Seq(ClosedWindow) /\ closed[j] \in Window
      BY <1>1 DEF TypeOK
    <3>2. Closed(j) \in ClosedWindow /\ Closed(j).key = j
      BY <3>1 DEF Closed, ClosedWindow, Window
    <3>3. \A i \in 1..Len(detectCh) : detectCh[i].key \in Resolved
      BY DEF IInv, ChannelInv
    <3>4. ASSUME NEW i \in 1..Len(detectCh')
          PROVE  detectCh'[i].key \in Resolved
      <4>1. /\ Len(detectCh') = Len(detectCh) + 1
            /\ Len(detectCh) \in Nat
            /\ i \in 1..Len(detectCh) => detectCh'[i] = detectCh[i]
            /\ i = Len(detectCh) + 1 => detectCh'[i] = Closed(j)
        BY <2>2, <3>1, <3>2
      <4>2. i \in 1..Len(detectCh) \/ i = Len(detectCh) + 1
        BY <4>1
      <4> QED
        BY <2>2, <3>2, <3>3, <4>1, <4>2
    <3> QED
      BY <1>2, <3>4 DEF IInv, ChannelInv
  <2> QED
    BY <2>1, <2>2 DEF HandlerSend
<1> QED
  BY <1>1, <1>7, <1>8, <1>9, <1>10, <1>11, <1>12 DEF IInv

\* The exporter's three steps, with the handler at any step: the copy, the
\* holder and the reset of the windows, after which nothing is open.
LEMMA ExporterIInv ==
    ASSUME IInv, ExporterStep
    PROVE  IInv'
<1>1. TypeOK /\ TypeOK'
  BY ExporterTypeOK DEF IInv
<1>2. UNCHANGED <<builderFlows, hpc, ev, closed, newest, late, closedUpTo,
                  sampled, detectCh, wpc, cw, alerts>>
  BY DEF ExporterStep, ExporterExport, ExporterReplace, ExporterReset,
         handlerVars, workerVars, historyVars
<1>3. ChannelInv'
  BY <1>2 DEF IInv, ChannelInv
<1>4. CASE ExporterExport \/ ExporterReplace
  <2>1. /\ windowFlows' = windowFlows
        /\ epc # "done" /\ epc' # "done"
    BY <1>4 DEF ExporterExport, ExporterReplace
  <2>2. WindowsInv' /\ HandlerInv' /\ LearnedInv' /\ ClosedInv'
        /\ OneOpenPeriod' /\ LearningBalance'
    BY <1>2, <2>1
       DEF IInv, WindowsInv, HandlerInv, LearnedInv, ClosedInv, OneOpenPeriod,
           LearningBalance, IsOpen, Aligned, Truncate, WindowEnd, Learned,
           Learning, Unlearned
  <2>3. ExporterInv'
    <3>1. CASE ExporterExport
      <4>1. /\ exported' = builderFlows /\ epc = "wait" /\ epc' = "replace"
            /\ snapshotHolder' = snapshotHolder
        BY <3>1 DEF ExporterExport, ExportSnapshot
      <4>2. builderFlows \in Baseline
        BY <1>1 DEF TypeOK
      <4>3. builderFlows # NoSnapshot
        BY <4>2, PipelineAssumption
      <4> QED
        BY <4>1, <4>3 DEF IInv, ExporterInv
    <3>2. CASE ExporterReplace
      <4>1. /\ exported' = exported /\ epc = "replace" /\ epc' = "reset"
            /\ snapshotHolder' = exported
        BY <3>2 DEF ExporterReplace
      <4> QED
        BY <1>2, <4>1 DEF IInv, ExporterInv
    <3> QED
      BY <1>4, <3>1, <3>2
  <2>4. AlertsMatchSnapshot'
    <3>1. snapshotHolder = NoSnapshot
      BY <1>4 DEF IInv, ExporterInv, ExporterExport, ExporterReplace
    <3>2. alerts = {}
      BY <3>1 DEF IInv, AlertsMatchSnapshot
    <3> QED
      BY <1>2, <3>2 DEF AlertsMatchSnapshot
  <2> QED
    BY <1>1, <1>3, <2>2, <2>3, <2>4 DEF IInv
<1>5. CASE ExporterReset
  <2>1. /\ windowFlows' = NoWindows /\ epc = "reset" /\ epc' = "done"
        /\ UNCHANGED <<exported, snapshotHolder>>
    BY <1>5 DEF ExporterReset, WindowReset
  <2>2. \A k \in Key : ~(windowFlows'[k].count > 0)
    BY <2>1, NoWindowsCount
  <2>3. WindowsInv' /\ OneOpenPeriod'
    BY <2>2 DEF WindowsInv, OneOpenPeriod, IsOpen
  <2>4. HandlerInv'
    BY <1>2, <2>2 DEF IInv, HandlerInv, IsOpen, Learning, WindowEnd
  <2>5. LearnedInv'
    <3>1. Learnable \subseteq Key
      BY FlowsAssumption DEF Learnable
    <3> QED
      BY <1>2, <2>2, <3>1 DEF IInv, LearnedInv, IsOpen, Learned, WindowEnd
  <2>6. ClosedInv'
    BY <1>2, <2>2 DEF IInv, ClosedInv, IsOpen, Aligned
  <2>7. LearningBalance'
    BY <2>1 DEF LearningBalance
  <2>8. ExporterInv' /\ AlertsMatchSnapshot'
    BY <1>2, <2>1 DEF IInv, ExporterInv, AlertsMatchSnapshot, Learned
  <2> QED
    BY <1>1, <1>3, <2>3, <2>4, <2>5, <2>6, <2>7, <2>8 DEF IInv
<1> QED
  BY <1>4, <1>5 DEF ExporterStep

\* The worker judges a detectable window of a workload, by the snapshot the
\* holder has: a destination is new exactly when it is not in it.
LEMMA WorkerIInv ==
    ASSUME IInv, WorkerStep
    PROVE  IInv'
<1>1. TypeOK /\ TypeOK'
  BY WorkerTypeOK DEF IInv
<1>2. UNCHANGED <<windowFlows, builderFlows, hpc, ev, closed, newest, late,
                  closedUpTo, sampled, epc, exported, snapshotHolder>>
  BY DEF WorkerStep, WorkerReceive, WorkerJudge, handlerVars, exporterVars,
         historyVars
<1>3. WindowsInv' /\ HandlerInv' /\ LearnedInv' /\ ClosedInv'
      /\ OneOpenPeriod' /\ LearningBalance' /\ ExporterInv'
  BY <1>2
     DEF IInv, WindowsInv, HandlerInv, LearnedInv, ClosedInv, OneOpenPeriod,
         LearningBalance, ExporterInv, IsOpen, Aligned, Truncate, WindowEnd,
         Learned, Learning, Unlearned
<1>4. CASE WorkerReceive
  <2>1. /\ detectCh # <<>> /\ detectCh' = Tail(detectCh)
        /\ alerts' = alerts
        /\ wpc' = "judge" => /\ cw' = Head(detectCh)
                             /\ Head(detectCh).key \in Detectable
    BY <1>4 DEF WorkerReceive
  <2>2. detectCh \in Seq(ClosedWindow)
    BY <1>1 DEF TypeOK
  <2>3. \A i \in 1..Len(detectCh) : detectCh[i].key \in Resolved
    BY DEF IInv, ChannelInv
  <2>4. ASSUME NEW i \in 1..Len(detectCh')
        PROVE  detectCh'[i].key \in Resolved
    <3>1. /\ i + 1 \in 1..Len(detectCh)
          /\ detectCh'[i] = detectCh[i + 1]
      BY <2>1, <2>2
    <3> QED
      BY <2>3, <3>1
  <2>5. Head(detectCh).key \in Resolved
    <3>1. 1 \in 1..Len(detectCh) /\ Head(detectCh) = detectCh[1]
      BY <2>1, <2>2
    <3> QED
      BY <2>3, <3>1
  <2>6. ChannelInv'
    BY <2>1, <2>4, <2>5 DEF ChannelInv, Learnable
  <2>7. AlertsMatchSnapshot'
    BY <1>2, <2>1 DEF IInv, AlertsMatchSnapshot, Learned
  <2> QED
    BY <1>1, <1>3, <2>6, <2>7 DEF IInv
<1>5. CASE WorkerJudge
  <2>1. /\ wpc = "judge" /\ wpc' = "receive" /\ detectCh' = detectCh
        /\ alerts' = IF snapshotHolder = NoSnapshot THEN alerts
                     ELSE alerts \cup
                        {[window |-> cw, result |-> r] :
                            r \in Evaluate(cw.count, snapshotHolder[cw.key])}
    BY <1>5 DEF WorkerJudge, Known
  <2>2. ChannelInv'
    BY <2>1 DEF IInv, ChannelInv
  <2>3. cw.key \in Learnable /\ cw.key \in Key
    BY <2>1, FlowsAssumption DEF IInv, ChannelInv, Learnable
  <2>4. AlertsMatchSnapshot'
    <3> SUFFICES ASSUME NEW a \in alerts'
                 PROVE  /\ a.window.key \in Learnable
                        /\ snapshotHolder # NoSnapshot
                        /\ a.result.rule = "new" <=>
                              ~Learned(snapshotHolder, a.window.key)
      BY <1>2 DEF AlertsMatchSnapshot, Learned
    <3>1. CASE a \in alerts
      BY <3>1 DEF IInv, AlertsMatchSnapshot
    <3>2. CASE a \notin alerts
      <4>1. snapshotHolder # NoSnapshot
        BY <2>1, <3>2
      <4>2. PICK r \in Evaluate(cw.count, snapshotHolder[cw.key]) :
                    a = [window |-> cw, result |-> r]
        BY <2>1, <3>2, <4>1
      <4>3. snapshotHolder[cw.key].count \in Nat
        BY <1>1, <2>3, <4>1 DEF TypeOK, Baseline, FlowAggregate
      <4>4. r.rule = "new" <=> snapshotHolder[cw.key].count = 0
        BY <4>2, EvaluateNew
      <4> QED
        BY <2>3, <4>1, <4>2, <4>3, <4>4 DEF Learned
    <3> QED
      BY <3>1, <3>2
  <2> QED
    BY <1>1, <1>3, <2>2, <2>4 DEF IInv
<1> QED
  BY <1>4, <1>5 DEF WorkerStep

\* The passing of time changes nothing the invariant speaks of.
LEMMA StutterIInv ==
    ASSUME IInv, Tick \/ UNCHANGED vars
    PROVE  IInv'
<1>1. TypeOK'
  BY StutterTypeOK DEF IInv
<1>2. UNCHANGED <<windowFlows, builderFlows, hpc, ev, closed, newest, late,
                  closedUpTo, sampled, epc, exported, snapshotHolder,
                  detectCh, wpc, cw, alerts>>
  BY DEF Tick, vars, handlerVars, exporterVars, workerVars, historyVars
<1>3. WindowsInv' /\ HandlerInv' /\ LearnedInv' /\ ClosedInv'
      /\ OneOpenPeriod' /\ LearningBalance' /\ ExporterInv'
  BY <1>2
     DEF IInv, WindowsInv, HandlerInv, LearnedInv, ClosedInv, OneOpenPeriod,
         LearningBalance, ExporterInv, IsOpen, Aligned, Truncate, WindowEnd,
         Learned, Learning, Unlearned
<1>4. ChannelInv' /\ AlertsMatchSnapshot'
  BY <1>2 DEF IInv, ChannelInv, AlertsMatchSnapshot, Learned
<1> QED
  BY <1>1, <1>3, <1>4 DEF IInv

\* Every step of every goroutine keeps the invariant.
LEMMA NextIInv == IInv /\ [Next]_vars => IInv'
<1> SUFFICES ASSUME IInv, [Next]_vars PROVE IInv'
  OBVIOUS
<1>1. CASE Tick \/ Quiescent \/ UNCHANGED vars
  BY <1>1, StutterIInv DEF Quiescent
<1>2. CASE ReadEvent
  <2>1. PICK k \in Key \cup {Noise}, ts \in 0..MaxTime :
                HandlerPop([key |-> k, ts |-> ts])
    BY <1>2 DEF ReadEvent
  <2>2. [key |-> k, ts |-> ts] \in Event
    BY DEF Event
  <2> QED
    BY <2>1, <2>2, PopIInv
<1>3. CASE HandlerStep
  <2>1. CASE HandlerAdd
    BY <2>1, AddIInv
  <2>2. CASE HandlerLearn
    BY <2>2, LearnIInv
  <2>3. ASSUME NEW k \in Key, HandlerSample(k) PROVE IInv'
    BY <2>3, SampleIInv
  <2>4. ASSUME NEW k \in Key, HandlerSend(k) PROVE IInv'
    BY <2>4, SendIInv
  <2> QED
    BY <1>3, <2>1, <2>2, <2>3, <2>4 DEF HandlerStep
<1>4. CASE ExporterStep
  BY <1>4, ExporterIInv
<1>5. CASE WorkerStep
  BY <1>5, WorkerIInv
<1> QED
  BY <1>1, <1>2, <1>3, <1>4, <1>5 DEF Next

(***************************************************************************)
(* The inductive invariant holds in every state the agent reaches.         *)
(***************************************************************************)
THEOREM Inductive == Spec => []IInv
BY InitIInv, NextIInv, PTL DEF Spec

(***************************************************************************)
(* handleBaselineLearning never loses a window sample: the builder knows   *)
(* the key of every learnable window it appends, in whatever order events  *)
(* come and wherever the exporter is.                                      *)
(***************************************************************************)
THEOREM SamplesAlwaysLand == Spec => []SamplesLand
<1>1. IInv => SamplesLand
  <2> SUFFICES ASSUME IInv, NEW k \in Learnable,
                      hpc = "sample", closed[k].count > 0
               PROVE  Learned(builderFlows, k)
    BY DEF SamplesLand
  <2>1. k \in Key
    BY FlowsAssumption DEF Learnable
  <2>2. ev.ts \in Nat /\ closed[k] \in Window
    BY <2>1 DEF IInv, TypeOK, Event
  <2>3. WindowEnd(closed[k]) <= ev.ts /\ ev.ts < BuildUntil
    BY <2>1 DEF IInv, HandlerInv, Learning
  <2>4. WindowEnd(closed[k]) \in Nat
    BY <2>2, WindowAssumption DEF Window, WindowEnd
  <2>5. WindowEnd(closed[k]) <= BuildUntil
    BY <2>2, <2>3, <2>4, Bounds
  <2> QED
    BY <2>5 DEF IInv, LearnedInv
<1> QED
  BY <1>1, Inductive, PTL

(***************************************************************************)
(* No window sample reaches to the end of the learning period.             *)
(***************************************************************************)
THEOREM SamplesAlwaysEndInLearning == Spec => []SamplesEndInLearning
<1>1. IInv => SamplesEndInLearning
  <2> SUFFICES ASSUME IInv, hpc = "sample",
                      NEW k \in Key, closed[k].count > 0
               PROVE  WindowEnd(closed[k]) < BuildUntil
    BY DEF SamplesEndInLearning
  <2>1. ev.ts \in Nat /\ closed[k] \in Window
    BY DEF IInv, TypeOK, Event
  <2>2. WindowEnd(closed[k]) <= ev.ts /\ ev.ts < BuildUntil
    BY DEF IInv, HandlerInv, Learning
  <2>3. WindowEnd(closed[k]) \in Nat
    BY <2>1, WindowAssumption DEF Window, WindowEnd
  <2> QED
    BY <2>1, <2>2, <2>3, Bounds
<1> QED
  BY <1>1, Inductive, PTL

(***************************************************************************)
(* While learning with events in order, the builder's count of a key is    *)
(* the sum of its samples, of the window being closed and of the open one: *)
(* the two structures Handle updates one after the other agree.            *)
(***************************************************************************)
THEOREM LearningAlwaysBalanced == Spec => []LearningBalance
<1>1. IInv => LearningBalance
  BY DEF IInv
<1> QED
  BY <1>1, Inductive, PTL

(***************************************************************************)
(* With events in order, no window stays open past its period.             *)
(***************************************************************************)
THEOREM AlwaysOneOpenPeriod == Spec => []OneOpenPeriod
<1>1. IInv => OneOpenPeriod
  BY DEF IInv
<1> QED
  BY <1>1, Inductive, PTL

(***************************************************************************)
(* Every result the worker logs is about a detectable workload and agrees  *)
(* with the one published snapshot on whether its key was learned.         *)
(***************************************************************************)
THEOREM AlertsAlwaysMatchSnapshot == Spec => []AlertsMatchSnapshot
<1>1. IInv => AlertsMatchSnapshot
  BY DEF IInv
<1> QED
  BY <1>1, Inductive, PTL

(***************************************************************************)
(* The snapshot the worker judges by is installed once, and what it says   *)
(* of every key stays as it was exported, whatever is learned after it.    *)
(***************************************************************************)
THEOREM SnapshotStaysAsPublished == Spec => SnapshotNeverChanges
<1>1. IInv /\ [Next]_vars =>
        [snapshotHolder # NoSnapshot =>
            /\ snapshotHolder' # NoSnapshot
            /\ \A k \in Key : Known(k)' = Known(k)]_vars
  <2> SUFFICES ASSUME IInv, [Next]_vars, snapshotHolder # NoSnapshot
               PROVE  snapshotHolder' = snapshotHolder
    BY DEF Known
  <2>1. ~ExporterReplace
    BY DEF IInv, ExporterInv, ExporterReplace
  <2>2. CASE ReadEvent \/ HandlerStep
    BY <2>2 DEF ReadEvent, HandlerPop, HandlerStep, HandlerAdd, HandlerLearn,
                HandlerSample, HandlerSend, exporterVars
  <2>3. CASE ExporterExport \/ ExporterReset
    BY <2>3 DEF ExporterExport, ExporterReset
  <2>4. CASE WorkerStep \/ Tick \/ Quiescent \/ UNCHANGED vars
    BY <2>4 DEF WorkerStep, WorkerReceive, WorkerJudge, Tick, Quiescent, vars,
                exporterVars
  <2> QED
    BY <2>1, <2>2, <2>3, <2>4 DEF Next, ExporterStep
<1> QED
  BY <1>1, Inductive, PTL DEF Spec, SnapshotNeverChanges

\* A window enters the handler's batch only when an event is read.
LEMMA OnlyPopCloses ==
    ASSUME IInv, [Next]_vars, NEW k \in Key,
           closed[k].count = 0, closed'[k].count > 0
    PROVE  \E e \in Event : HandlerPop(e)
<1>1. closed' # closed
  BY DEF IInv, TypeOK, Window
<1>2. ASSUME NEW j \in Key, closed' = [closed EXCEPT ![j] = Absent]
      PROVE  FALSE
  BY <1>2 DEF IInv, TypeOK, Absent
<1>3. ASSUME NEW j \in Key PROVE ~HandlerSample(j) /\ ~HandlerSend(j)
  BY <1>2 DEF HandlerSample, HandlerSend
<1>4. ~(HandlerAdd \/ HandlerLearn \/ ExporterStep \/ WorkerStep \/ Tick
          \/ Quiescent \/ UNCHANGED vars)
  BY <1>1 DEF HandlerAdd, HandlerLearn, ExporterStep, ExporterExport,
              ExporterReplace, ExporterReset, WorkerStep, WorkerReceive,
              WorkerJudge, Tick, Quiescent, vars, handlerVars
<1>5. ReadEvent
  BY <1>3, <1>4 DEF Next, HandlerStep
<1> QED
  BY <1>5 DEF ReadEvent, Event

(***************************************************************************)
(* With events in order, the windows popped for a key never overlap: the   *)
(* same connections are never sampled or judged in two windows.            *)
(***************************************************************************)
THEOREM NeverClosedTwice == Spec => NoWindowClosedTwice
<1>1. IInv /\ [Next]_vars =>
        [\A k \in Key :
            ~late' /\ closed[k].count = 0 /\ closed'[k].count > 0
               => closed'[k].start >= closedUpTo[k]]_vars
  <2> SUFFICES ASSUME IInv, [Next]_vars, NEW k \in Key, ~late',
                      closed[k].count = 0, closed'[k].count > 0
               PROVE  closed'[k].start >= closedUpTo[k]
    OBVIOUS
  <2>1. PICK e \in Event : HandlerPop(e)
    BY OnlyPopCloses
  <2>2. closed' = ClosedWindows(e.ts) /\ late' = (late \/ e.ts < newest)
    BY <2>1 DEF HandlerPop
  <2>3. ~late
    BY <2>2, Zenon
  <2>4. Expired(k, e.ts) /\ closed'[k] = windowFlows[k]
    BY <2>2 DEF ClosedWindows, Absent
  <2>5. closedUpTo[k] <= windowFlows[k].start
    BY <2>3, <2>4 DEF IInv, ClosedInv, Expired
  <2>6. closedUpTo[k] \in Nat /\ windowFlows[k].start \in Nat
    BY DEF IInv, TypeOK, Window
  <2> QED
    BY <2>4, <2>5, <2>6
<1> QED
  BY <1>1, Inductive, PTL DEF Spec, NoWindowClosedTwice

\* Only Add opens a window, or replaces an open one by another.
LEMMA OnlyAddOpens ==
    ASSUME IInv, [Next]_vars, NEW k \in Key, windowFlows'[k].count > 0,
           windowFlows[k].count = 0 \/ Overwritten(k)
    PROVE  HandlerAdd
<1>1. windowFlows'[k] # windowFlows[k] /\ windowFlows' # windowFlows
  <2>1. windowFlows[k].count \in Nat
    BY DEF IInv, TypeOK, Window
  <2> QED
    BY <2>1 DEF Overwritten
<1>2. \A e \in Event : ~HandlerPop(e)
  <2> SUFFICES ASSUME NEW e \in Event, HandlerPop(e) PROVE FALSE
    OBVIOUS
  <2>1. windowFlows'[k] = Absent \/ windowFlows'[k] = windowFlows[k]
    BY DEF HandlerPop, PopExpired
  <2> QED
    BY <1>1, <2>1 DEF Absent
<1>3. ~ReadEvent
  <2> SUFFICES ASSUME ReadEvent PROVE FALSE
    OBVIOUS
  <2>1. PICK j \in Key \cup {Noise}, ts \in 0..MaxTime :
                HandlerPop([key |-> j, ts |-> ts])
    BY DEF ReadEvent
  <2>2. [key |-> j, ts |-> ts] \in Event
    BY DEF Event
  <2> QED
    BY <1>2, <2>1, <2>2
<1>4. ~ExporterReset
  <2> SUFFICES ASSUME windowFlows' = NoWindows PROVE FALSE
    BY DEF ExporterReset, WindowReset
  <2>1. windowFlows'[k].count = 0
    BY NoWindowsCount
  <2> QED
    BY <2>1
<1>5. ~(HandlerLearn \/ ExporterExport \/ ExporterReplace \/ WorkerStep \/ Tick
          \/ Quiescent \/ UNCHANGED vars
          \/ \E j \in Key : HandlerSample(j) \/ HandlerSend(j))
  BY <1>1 DEF HandlerLearn, HandlerSample, HandlerSend, ExporterExport,
              ExporterReplace, WorkerStep, WorkerReceive, WorkerJudge, Tick,
              Quiescent, vars
<1> QED
  BY <1>3, <1>4, <1>5 DEF Next, HandlerStep, ExporterStep

(***************************************************************************)
(* An open window's counts are thrown away only by an event older than one *)
(* read before it, whatever the window size.                               *)
(***************************************************************************)
THEOREM OverwritesOutOfOrder == Spec => OverwritesOnlyWhenOutOfOrder
<1>1. IInv /\ [Next]_vars =>
        [\A k \in Key : Overwritten(k) => ev.ts < newest]_vars
  <2> SUFFICES ASSUME IInv, [Next]_vars, NEW k \in Key, Overwritten(k)
               PROVE  ev.ts < newest
    OBVIOUS
  <2>1. HandlerAdd
    BY OnlyAddOpens DEF Overwritten
  <2>2. /\ windowFlows \in [Key -> Window] /\ windowFlows[k].start \in Nat
        /\ windowFlows[k].count \in Nat
        /\ ev.ts \in Nat /\ newest \in Nat
    BY DEF IInv, TypeOK, Window, Event
  <2>3. IsOpen(k) /\ windowFlows'[k].start # windowFlows[k].start
    BY DEF Overwritten, IsOpen
  <2>4. /\ ev.ts <= newest /\ ev.ts < WindowEnd(windowFlows[k])
        /\ Aligned(windowFlows[k].start)
        /\ windowFlows[k].start <= newest
    BY <2>1, <2>3 DEF IInv, HandlerInv, WindowsInv, HandlerAdd
  <2>5. windowFlows'[k] = Counted(windowFlows[k], ev.ts)
    BY <2>1, <2>2, <2>3, FlowsAssumption DEF HandlerAdd, WindowAdd
  <2>6. windowFlows'[k].start = Truncate(ev.ts)
    BY <2>2, <2>5, CountedWindow
  <2>7. CASE ev.ts = newest
    <3>1. windowFlows[k].start = Truncate(ev.ts)
      BY <2>2, <2>4, <2>7, TruncateIsUnique DEF WindowEnd
    <3> QED
      BY <2>3, <2>6, <3>1
  <2> QED
    BY <2>2, <2>4, <2>7
<1> QED
  BY <1>1, Inductive, PTL DEF Spec, OverwritesOnlyWhenOutOfOrder

(***************************************************************************)
(* A period that was closed for a key is opened again only by an event     *)
(* older than one read before it, whether events were late before or not.  *)
(***************************************************************************)
THEOREM ReopensOutOfOrder == Spec => ReopensOnlyWhenOutOfOrder
<1>1. IInv /\ [Next]_vars =>
        [\A k \in Key : Reopened(k) => ev.ts < newest]_vars
  <2> SUFFICES ASSUME IInv, [Next]_vars, NEW k \in Key, Reopened(k)
               PROVE  ev.ts < newest
    OBVIOUS
  <2>1. HandlerAdd
    BY OnlyAddOpens DEF Reopened
  <2>2. /\ windowFlows \in [Key -> Window] /\ windowFlows[k] \in Window
        /\ closedUpTo[k] \in Nat /\ ev.ts \in Nat /\ newest \in Nat
    BY DEF IInv, TypeOK, Event
  <2>3. windowFlows'[k] # windowFlows[k]
    <3>1. windowFlows[k].count \in Nat
      BY <2>2 DEF Window
    <3> QED
      BY <3>1 DEF Reopened, Overwritten
  <2>4. windowFlows'[k] = Counted(windowFlows[k], ev.ts)
    BY <2>1, <2>2, <2>3, FlowsAssumption DEF HandlerAdd, WindowAdd
  <2>5. windowFlows'[k].start = Truncate(ev.ts)
    BY <2>2, <2>4, CountedWindow
  <2>6. ev.ts <= newest /\ Aligned(closedUpTo[k]) /\ closedUpTo[k] <= newest
    BY <2>1 DEF IInv, HandlerInv, ClosedInv, HandlerAdd
  <2>7. CASE ev.ts = newest
    <3>1. closedUpTo[k] <= Truncate(ev.ts)
      BY <2>2, <2>6, <2>7, TruncateIsLatest
    <3>2. Truncate(ev.ts) \in Nat
      BY <2>2, TruncateBounds
    <3> QED
      BY <2>2, <2>5, <3>1, <3>2 DEF Reopened
  <2> QED
    BY <2>2, <2>6, <2>7
<1> QED
  BY <1>1, Inductive, PTL DEF Spec, ReopensOnlyWhenOutOfOrder

-----------------------------------------------------------------------------
\* What the builder or a snapshot has learned is a set of keys, never nil.
LEMMA KeysAreNotNil == \A flows : Keys(flows) # NoSnapshot
BY RefinementAssumption DEF Keys

\* Nothing is learned, published or reported at the start.
LEMMA InitImplements == Init => Promise!LTDInit
<1> SUFFICES ASSUME Init PROVE Promise!LTDInit
  OBVIOUS
<1>1. builderFlows = EmptyBaseline /\ exported = NoSnapshot /\ alerts = {}
  BY DEF Init
<1>2. Keys(builderFlows) = {}
  BY <1>1, EmptyBaselineType DEF Keys, Learned
<1> QED
  BY <1>1, <1>2 DEF Promise!LTDInit

\* A connection counted by the builder learns its key.
LEMMA LearnImplements ==
    ASSUME IInv, HandlerLearn
    PROVE  [Promise!LTDNext]_(Promise!ltdVars)
<1>1. exported' = exported /\ alerts' = alerts
  BY DEF HandlerLearn, exporterVars, workerVars
<1>2. CASE ev.key \in Learnable
  <2>1. ev.key \in Key /\ BuilderAdd(ev.key, ev.ts)
    BY <1>2, FlowsAssumption DEF HandlerLearn, Learnable
  <2>2. builderFlows \in Baseline /\ ev.ts \in Nat
    BY DEF IInv, TypeOK, Event
  <2>3. /\ builderFlows'[ev.key].count = builderFlows[ev.key].count + 1
        /\ \A j \in Key \ {ev.key} : builderFlows'[j] = builderFlows[j]
        /\ builderFlows[ev.key].count \in Nat
    BY <2>1, <2>2, BuilderAddEffect DEF Baseline, FlowAggregate
  <2>4. Keys(builderFlows') = Keys(builderFlows) \cup {ev.key}
    BY <2>1, <2>3 DEF Keys, Learned
  <2>5. Promise!Learn(ev.key)
    BY <1>1, <2>4 DEF Promise!Learn
  <2> QED
    BY <2>1, <2>5 DEF Promise!LTDNext
<1>3. CASE ev.key \notin Learnable
  BY <1>1, <1>3 DEF HandlerLearn, Promise!ltdVars
<1> QED
  BY <1>2, <1>3

\* The snapshot's copy publishes what has been learned so far.
LEMMA ExportImplements ==
    ASSUME IInv, ExporterExport
    PROVE  Promise!Publish
<1>1. /\ exported = NoSnapshot /\ exported' = builderFlows
      /\ builderFlows' = builderFlows /\ alerts' = alerts
  BY DEF IInv, ExporterInv, ExporterExport, ExportSnapshot, workerVars
<1>2. exported' # NoSnapshot
  BY <1>1, PipelineAssumption DEF IInv, TypeOK
<1> QED
  BY <1>1, <1>2 DEF Promise!Publish

\* The worker's results for one window are one report on its key.
LEMMA JudgeImplements ==
    ASSUME IInv, WorkerJudge
    PROVE  [Promise!LTDNext]_(Promise!ltdVars)
<1> DEFINE results == Evaluate(cw.count, snapshotHolder[cw.key])
           report  == [key |-> cw.key, new |-> cw.key \notin Keys(exported)]
           logged  == {[window |-> cw, result |-> r] : r \in results}
<1>1. /\ builderFlows' = builderFlows /\ exported' = exported
      /\ alerts' = IF snapshotHolder = NoSnapshot THEN alerts
                                                  ELSE alerts \cup logged
  BY DEF WorkerJudge, Known, exporterVars
<1>2. CASE alerts' = alerts
  BY <1>1, <1>2 DEF Promise!ltdVars
<1>3. CASE alerts' # alerts
  <2>1. /\ snapshotHolder # NoSnapshot
        /\ alerts' = alerts \cup logged
        /\ results # {}
    BY <1>1, <1>3
  <2>2. exported # NoSnapshot /\ snapshotHolder = exported
    BY <2>1 DEF IInv, ExporterInv
  <2>3. cw.key \in Key /\ exported[cw.key].count \in Nat
    BY <2>2, FlowsAssumption
       DEF IInv, ChannelInv, WorkerJudge, Learnable, TypeOK, Baseline,
           FlowAggregate
  <2>4. \A r \in results :
            ReportOf([window |-> cw, result |-> r]) = report
    <3> SUFFICES ASSUME NEW r \in results
                 PROVE  (r.rule = "new") = (cw.key \notin Keys(exported))
      BY DEF ReportOf
    <3>1. r.rule = "new" <=> exported[cw.key].count = 0
      BY <2>2, EvaluateNew
    <3> QED
      BY <2>3, <3>1 DEF Keys, Learned
  <2>5. {ReportOf(a) : a \in alerts'}
            = {ReportOf(a) : a \in alerts} \cup {report}
    <3>1. {ReportOf(a) : a \in logged} = {report}
      BY <2>1, <2>4
    <3> HIDE DEF report, logged, results
    <3> QED
      BY <2>1, <3>1
  <2>6. Promise!Report(cw.key)
    BY <1>1, <2>2, <2>5, KeysAreNotNil DEF Promise!Report
  <2> QED
    BY <2>3, <2>6 DEF Promise!LTDNext
<1> QED
  BY <1>2, <1>3

\* A window sample is nothing the reports can see.
LEMMA SampleImplements ==
    ASSUME IInv, NEW j \in Key, HandlerSample(j)
    PROVE  UNCHANGED Promise!ltdVars
<1>1. exported' = exported /\ alerts' = alerts
  BY DEF HandlerSample, exporterVars, workerVars
<1>2. \A k \in Key : builderFlows'[k].count = builderFlows[k].count
  <2>1. builderFlows \in Baseline /\ closed[j].count \in Nat
    BY DEF IInv, TypeOK, Window
  <2> QED
    BY <2>1, AppendWindowSampleEffect DEF HandlerSample
<1>3. Keys(builderFlows') = Keys(builderFlows)
  BY <1>2 DEF Keys, Learned
<1> QED
  BY <1>1, <1>3 DEF Promise!ltdVars

\* Every step of the pipeline is a step of the promise or none.
LEMMA NextImplements ==
    IInv /\ [Next]_vars => [Promise!LTDNext]_(Promise!ltdVars)
<1> SUFFICES ASSUME IInv, [Next]_vars
             PROVE  [Promise!LTDNext]_(Promise!ltdVars)
  OBVIOUS
<1>1. CASE HandlerLearn
  BY <1>1, LearnImplements
<1>2. CASE ExporterExport
  BY <1>2, ExportImplements DEF Promise!LTDNext
<1>3. CASE WorkerJudge
  BY <1>3, JudgeImplements
<1>4. ASSUME NEW j \in Key, HandlerSample(j)
      PROVE  UNCHANGED Promise!ltdVars
  BY <1>4, SampleImplements
<1>5. CASE \/ HandlerAdd \/ ReadEvent \/ ExporterReplace \/ ExporterReset
           \/ WorkerReceive \/ Tick \/ Quiescent \/ UNCHANGED vars
           \/ \E j \in Key : HandlerSend(j)
  <2>1. UNCHANGED <<builderFlows, exported, alerts>>
    BY <1>5 DEF HandlerAdd, ReadEvent, HandlerPop, ExporterReplace,
                ExporterReset, WorkerReceive, Tick, Quiescent, HandlerSend,
                vars, exporterVars, workerVars
  <2> QED
    BY <2>1 DEF Promise!ltdVars
<1> QED
  BY <1>1, <1>2, <1>3, <1>4, <1>5
     DEF Next, HandlerStep, ExporterStep, WorkerStep

(***************************************************************************)
(* exportBaselineSnapshotOnce hands the baseline over in three steps while *)
(* events and windows go on; to a reader of the reports it is one step.    *)
(* Every report is judged by exactly the keys learned up to that step.     *)
(***************************************************************************)
THEOREM PipelineImplementsPromise == Spec => ImplementsLearnThenDetect
<1>1. IInv /\ [Next]_vars => [Promise!LTDNext]_(Promise!ltdVars)
  BY NextImplements
<1> QED
  BY <1>1, InitImplements, Inductive, PTL
     DEF Spec, ImplementsLearnThenDetect, Promise!LTDSpec

-----------------------------------------------------------------------------
\* No time up to the end of learning is on a later day than that.
LEMMA DayBound ==
    ASSUME NEW t \in Nat, t <= BuildUntil
    PROVE  DayOf(t) \in 0..DayOf(BuildUntil)
<1>1. PICK d, b : d = DayLength /\ b = BuildUntil
  OBVIOUS
<1>2. d \in Nat \ {0} /\ b \in Nat /\ t <= b
  BY <1>1, BuilderAssumption, Bounds
<1>3. /\ t \div d \in Int /\ b \div d \in Int
      /\ t = d * (t \div d) + (t % d) /\ t % d \in 0..d - 1
      /\ b = d * (b \div d) + (b % d) /\ b % d \in 0..d - 1
  BY <1>2
<1>4. t \div d >= 0
  BY <1>2
<1>5. t \div d <= b \div d
  <2> SUFFICES ASSUME t \div d >= b \div d + 1 PROVE FALSE
    BY <1>3
  <2>1. PICK x, y : x = t \div d /\ y = b \div d
    OBVIOUS
  <2>2. d * x >= d * (y + 1)
    BY <1>2, <1>3, <2>1
  <2>3. d * (y + 1) = d * y + d
    BY <1>2, <1>3, <2>1
  <2> QED
    BY <1>2, <1>3, <2>1, <2>2, <2>3
<1> QED
  BY <1>1, <1>3, <1>4, <1>5 DEF DayOf

\* Nothing has been learned when the agent starts.
LEMMA InitLearnedWindows == Init => LearnedWindowsInv
<1> SUFFICES ASSUME Init PROVE LearnedWindowsInv
  OBVIOUS
<1>1. \A k \in Key : builderFlows[k] = NotLearned /\ closed[k].count = 0
                     /\ closedUpTo[k] = 0
  BY DEF Init, EmptyBaseline, NoWindows, Absent
<1>2. 0 * WindowSize = 0 /\ 0 <= BuildUntil /\ Len(<<>>) = 0
  BY WindowAssumption, Bounds
<1>3. FewSamples(builderFlows)
  <2> SUFFICES ASSUME NEW k \in Key
               PROVE  /\ builderFlows[k].samples = <<>>
                      /\ builderFlows[k].days \subseteq 0..DayOf(BuildUntil)
                      /\ Len(builderFlows[k].samples) * WindowSize <= BuildUntil
    BY DEF FewSamples
  <2>1. builderFlows[k].samples = <<>> /\ builderFlows[k].days = {}
    BY <1>1 DEF NotLearned
  <2> QED
    BY <1>2, <2>1
<1>4. SampledUpTo
  <2> SUFFICES ASSUME NEW k \in Key
               PROVE  Len(builderFlows[k].samples) * WindowSize
                        + (IF closed[k].count > 0 THEN WindowSize ELSE 0)
                          <= closedUpTo[k]
    BY DEF SampledUpTo
  <2>1. builderFlows[k].samples = <<>> /\ ~(closed[k].count > 0)
    BY <1>1 DEF NotLearned
  <2>2. Len(builderFlows[k].samples) * WindowSize = 0 /\ closedUpTo[k] = 0
    BY <1>1, <1>2, <2>1
  <2> QED
    BY <2>1, <2>2
<1> QED
  BY <1>3, <1>4 DEF Init, LearnedWindowsInv

\* A step that learns nothing and closes nothing; it may export.
LEMMA OtherLearnedWindows ==
    ASSUME LearnedWindowsInv, TypeOK,
           UNCHANGED <<builderFlows, newest, late, closedUpTo>>,
           clock' \in {clock, clock + 1},
           exported' \in {exported, builderFlows},
           \A k \in Key : closed'[k].count > 0 => closed[k].count > 0
    PROVE  LearnedWindowsInv'
<1>1. clock \in Nat /\ newest \in Nat /\ newest <= clock
  BY Bounds DEF TypeOK, LearnedWindowsInv
<1>2. newest' <= clock' /\ (MaxLag = 0 => ~late')
  BY <1>1 DEF LearnedWindowsInv
<1>3. FewSamples(builderFlows)' /\ (exported' # NoSnapshot => FewSamples(exported)')
  BY DEF LearnedWindowsInv, FewSamples
<1>4. SampledUpTo'
  <2> SUFFICES ASSUME NEW k \in Key, ~late
               PROVE  Len(builderFlows[k].samples) * WindowSize
                        + (IF closed'[k].count > 0 THEN WindowSize ELSE 0)
                          <= closedUpTo[k]
    BY DEF SampledUpTo
  <2>1. PICK n, w, u : /\ n = Len(builderFlows[k].samples) * WindowSize
                       /\ w = WindowSize /\ u = closedUpTo[k]
    OBVIOUS
  <2>2. n \in Nat /\ w \in Nat /\ u \in Nat
    <3>1. Len(builderFlows[k].samples) \in Nat
      BY DEF TypeOK, Baseline, FlowAggregate
    <3>2. u \in Nat
      BY <2>1 DEF TypeOK
    <3> QED
      BY <2>1, <3>1, <3>2, WindowAssumption
  <2>3. n + (IF closed[k].count > 0 THEN w ELSE 0) <= u
    BY <2>1 DEF LearnedWindowsInv, SampledUpTo
  <2> QED
    BY <2>1, <2>2, <2>3
<1> QED
  BY <1>2, <1>3, <1>4 DEF LearnedWindowsInv

\* A window that is popped starts where the one before it ended, or later.
LEMMA PopLearnedWindows ==
    ASSUME IInv, LearnedWindowsInv, NEW e \in Event, HandlerPop(e)
    PROVE  LearnedWindowsInv'
<1>1. TypeOK
  BY DEF IInv
<1>2. /\ hpc = "idle" /\ closed' = ClosedWindows(e.ts)
      /\ e.ts <= clock /\ clock <= e.ts + MaxLag
      /\ late' = (late \/ e.ts < newest)
      /\ newest' = IF e.ts < newest THEN newest ELSE e.ts
      /\ closedUpTo' = [k \in Key |-> IF Expired(k, e.ts)
                                      THEN WindowEnd(windowFlows[k])
                                      ELSE closedUpTo[k]]
      /\ UNCHANGED <<clock, builderFlows, exported>>
  BY DEF HandlerPop, exporterVars
<1>3. /\ e.ts \in Nat /\ clock \in Nat /\ newest \in Nat /\ MaxLag \in Nat
      /\ newest <= clock
  BY <1>1, Bounds DEF Event, TypeOK, LearnedWindowsInv
<1>4. newest' <= clock' /\ (MaxLag = 0 => ~late')
  <2>1. newest' \in {newest, e.ts}
    BY <1>2
  <2>2. MaxLag = 0 => ~(e.ts < newest)
    BY <1>2, <1>3
  <2>3. MaxLag = 0 => ~late
    BY DEF LearnedWindowsInv
  <2> QED
    BY <1>2, <1>3, <2>1, <2>2, <2>3
<1>5. ~late' => ~late
  BY <1>2, Zenon
<1>6. FewSamples(builderFlows)' /\ (exported' # NoSnapshot => FewSamples(exported)')
  BY <1>2, <1>5 DEF LearnedWindowsInv, FewSamples
<1>7. SampledUpTo'
  <2> SUFFICES ASSUME NEW k \in Key, ~late
               PROVE  Len(builderFlows[k].samples) * WindowSize
                        + (IF closed'[k].count > 0 THEN WindowSize ELSE 0)
                          <= closedUpTo'[k]
    BY <1>2, <1>5 DEF SampledUpTo
  <2>1. PICK n, w, u : /\ n = Len(builderFlows[k].samples) * WindowSize
                       /\ w = WindowSize /\ u = closedUpTo[k]
    OBVIOUS
  <2>2. n \in Nat /\ w \in Nat /\ u \in Nat
    <3>1. Len(builderFlows[k].samples) \in Nat
      BY <1>1 DEF TypeOK, Baseline, FlowAggregate
    <3>2. u \in Nat
      BY <1>1, <2>1 DEF TypeOK
    <3> QED
      BY <2>1, <3>1, <3>2, WindowAssumption
  <2>3. n <= u
    <3>1. closed[k].count = 0
      BY <1>2, NoWindowsCount DEF IInv, HandlerInv
    <3>2. n + (IF closed[k].count > 0 THEN w ELSE 0) <= u
      BY <2>1 DEF LearnedWindowsInv, SampledUpTo
    <3>3. ~(closed[k].count > 0)
      BY <3>1
    <3> QED
      BY <2>2, <3>2, <3>3
  <2>4. CASE Expired(k, e.ts)
    <3>1. IsOpen(k) /\ closedUpTo'[k] = windowFlows[k].start + w
      BY <1>2, <2>1, <2>4 DEF Expired, WindowEnd
    <3>2. u <= windowFlows[k].start /\ windowFlows[k].start \in Nat
      BY <1>1, <2>1, <3>1 DEF IInv, ClosedInv, TypeOK, Window
    <3>3. PICK s : s = windowFlows[k].start
      OBVIOUS
    <3>4. n + w <= s + w /\ n <= s + w
      BY <2>2, <2>3, <3>2, <3>3
    <3>5. PICK c : c = IF closed'[k].count > 0 THEN WindowSize ELSE 0
      OBVIOUS
    <3>6. n + c <= s + w
      <4>1. c \in {0, w}
        BY <2>1, <3>5
      <4>2. CASE c = 0
        BY <2>2, <3>4, <4>2
      <4>3. CASE c = w
        BY <3>4, <4>3
      <4> QED
        BY <4>1, <4>2, <4>3
    <3>7. closedUpTo'[k] = s + w
      BY <3>1, <3>3
    <3> QED
      BY <2>1, <3>5, <3>6, <3>7, Zenon
  <2>5. CASE ~Expired(k, e.ts)
    <3>1. closed'[k].count = 0 /\ closedUpTo'[k] = u
      BY <1>2, <2>1, <2>5 DEF ClosedWindows, Absent
    <3> QED
      BY <2>1, <2>2, <2>3, <3>1
  <2> QED
    BY <2>4, <2>5
<1> QED
  BY <1>4, <1>6, <1>7 DEF LearnedWindowsInv

\* Add makes its key a learned one and adds the event's day, no sample.
LEMMA LearnLearnedWindows ==
    ASSUME IInv, LearnedWindowsInv, HandlerLearn
    PROVE  LearnedWindowsInv'
<1>1. TypeOK /\ hpc = "learn" /\ Learning(ev)
  BY DEF IInv, HandlerInv, HandlerLearn
<1>2. UNCHANGED <<clock, closed, exported, newest, late, closedUpTo>>
  BY DEF HandlerLearn, exporterVars, historyVars
<1>3. CASE ev.key \notin Learnable
  <2>1. builderFlows' = builderFlows
    BY <1>3 DEF HandlerLearn
  <2> QED
    BY <1>1, <1>2, <2>1, OtherLearnedWindows
<1>4. CASE ev.key \in Learnable
  <2>1. PICK k : k = ev.key
    OBVIOUS
  <2>2. k \in Key /\ ev.ts \in Nat /\ BuilderAdd(k, ev.ts)
    BY <1>1, <1>4, <2>1, FlowsAssumption
       DEF Learnable, TypeOK, Event, HandlerLearn
  <2>3. \A j \in Key : builderFlows[j] \in FlowAggregate
    BY <1>1 DEF TypeOK, Baseline
  <2>4. \A j \in Key :
          \/ builderFlows'[j] = builderFlows[j]
          \/ /\ builderFlows'[j].count = builderFlows[j].count + 1
             /\ builderFlows'[j].days = builderFlows[j].days \cup {DayOf(ev.ts)}
             /\ builderFlows'[j].samples = builderFlows[j].samples
    BY <1>1, <2>2 DEF BuilderAdd, Added, TypeOK, Baseline
  <2>5. DayOf(ev.ts) \in 0..DayOf(BuildUntil)
    BY <1>1, <2>2, DayBound, Bounds DEF Learning
  <2>6. \A j \in Key : builderFlows[j].count \in Nat
    BY <2>3 DEF FlowAggregate
  <2>7. FewSamples(builderFlows)'
    <3> SUFFICES ASSUME NEW j \in Key
                 PROVE  /\ builderFlows'[j].count = 0
                              => builderFlows'[j].samples = <<>>
                        /\ builderFlows'[j].days \subseteq 0..DayOf(BuildUntil)
                        /\ ~late => Len(builderFlows'[j].samples) * WindowSize
                                      <= BuildUntil
      BY <1>2 DEF FewSamples
    <3>1. /\ builderFlows[j].count = 0 => builderFlows[j].samples = <<>>
          /\ builderFlows[j].days \subseteq 0..DayOf(BuildUntil)
          /\ ~late => Len(builderFlows[j].samples) * WindowSize <= BuildUntil
      BY DEF LearnedWindowsInv, FewSamples
    <3>2. CASE builderFlows'[j] = builderFlows[j]
      BY <3>1, <3>2
    <3>3. CASE builderFlows'[j] # builderFlows[j]
      <4>1. /\ builderFlows'[j].count = builderFlows[j].count + 1
            /\ builderFlows'[j].days = builderFlows[j].days \cup {DayOf(ev.ts)}
            /\ builderFlows'[j].samples = builderFlows[j].samples
        BY <2>4, <3>3
      <4>2. builderFlows'[j].count # 0
        BY <2>6, <4>1
      <4> QED
        BY <2>5, <3>1, <4>1, <4>2
    <3> QED
      BY <3>2, <3>3
  <2>8. SampledUpTo'
    <3>1. \A j \in Key : builderFlows'[j].samples = builderFlows[j].samples
      BY <2>4
    <3> QED
      BY <1>2, <3>1 DEF LearnedWindowsInv, SampledUpTo
  <2> QED
    BY <1>2, <2>7, <2>8 DEF LearnedWindowsInv, FewSamples
<1> QED
  BY <1>3, <1>4

\* The sample is of the window that was popped, which ended while learning.
LEMMA SampleLearnedWindows ==
    ASSUME IInv, LearnedWindowsInv, NEW k \in Key, HandlerSample(k)
    PROVE  LearnedWindowsInv'
<1>1. /\ TypeOK /\ hpc = "sample" /\ Learning(ev) /\ ev.ts \in Nat
      /\ newest \in Nat /\ (~late => ev.ts = newest)
  BY DEF IInv, HandlerInv, HandlerSample, TypeOK, Event
<1>2. UNCHANGED <<clock, exported, newest, late, closedUpTo>>
  BY DEF HandlerSample, exporterVars
<1>3. /\ closed[k].count > 0 /\ closed[k].count \in Nat
      /\ closed' = [closed EXCEPT ![k] = Absent]
  BY <1>1 DEF HandlerSample, IsNext, TypeOK, Window
<1>4. \A j \in Key : closed'[j].count > 0 => j # k /\ closed[j].count > 0
  BY <1>1, <1>3 DEF TypeOK, Absent
<1>5. CASE builderFlows' = builderFlows
  BY <1>1, <1>2, <1>4, <1>5, OtherLearnedWindows
<1>6. CASE builderFlows' # builderFlows
  <2>1. /\ Learned(builderFlows, k)
        /\ builderFlows' = [builderFlows EXCEPT
                              ![k] = Sampled(builderFlows[k], closed[k].count)]
    BY <1>6 DEF HandlerSample, AppendWindowSample
  <2>2. /\ \A j \in Key \ {k} : builderFlows'[j] = builderFlows[j]
        /\ builderFlows'[k] = Sampled(builderFlows[k], closed[k].count)
        /\ builderFlows[k] \in FlowAggregate /\ builderFlows[k].count > 0
    BY <1>1, <2>1 DEF TypeOK, Baseline, Learned
  <2>3. PICK s : s = builderFlows[k].samples
    OBVIOUS
  <2>4. /\ builderFlows'[k].count = builderFlows[k].count
        /\ builderFlows'[k].days = builderFlows[k].days
        /\ builderFlows'[k].samples = WithSample(s, closed[k].count)
        /\ s \in Seq(Nat) /\ Len(s) \in Nat /\ builderFlows[k].count # 0
    BY <2>2, <2>3 DEF Sampled, FlowAggregate
  <2>5. /\ Len(builderFlows'[k].samples) \in Nat
        /\ Len(builderFlows'[k].samples) <= Len(s) + 1
    BY <1>3, <2>4, WithSampleLength
  <2>6. ~late => /\ Len(builderFlows'[k].samples) * WindowSize <= closedUpTo[k]
                 /\ Len(builderFlows'[k].samples) * WindowSize <= BuildUntil
    <3> SUFFICES ASSUME ~late
                 PROVE  /\ Len(builderFlows'[k].samples) * WindowSize
                              <= closedUpTo[k]
                        /\ Len(builderFlows'[k].samples) * WindowSize
                              <= BuildUntil
      OBVIOUS
    <3>1. PICK m, n, w, u : /\ m = Len(builderFlows'[k].samples) /\ n = Len(s)
                            /\ w = WindowSize /\ u = closedUpTo[k]
      OBVIOUS
    <3>2. /\ m \in Nat /\ n \in Nat /\ m <= n + 1 /\ w \in Nat
          /\ u \in Nat /\ u <= BuildUntil /\ BuildUntil \in Nat
      <4>1. u \in Nat /\ u <= newest
        BY <1>1, <3>1 DEF IInv, ClosedInv, TypeOK
      <4>2. newest < BuildUntil /\ BuildUntil \in Nat
        BY <1>1, Bounds DEF Learning
      <4> QED
        BY <1>1, <2>4, <2>5, <3>1, <4>1, <4>2, WindowAssumption
    <3>3. n * w + w <= u
      BY <1>3, <2>3, <3>1 DEF LearnedWindowsInv, SampledUpTo
    <3>4. m * w <= (n + 1) * w /\ (n + 1) * w = n * w + w
      BY <3>2
    <3>5. m * w \in Nat /\ n * w \in Nat
      BY <3>2
    <3>6. m * w <= u /\ m * w <= BuildUntil
      <4>1. PICK x, y : x = m * w /\ y = n * w
        OBVIOUS
      <4>2. x \in Nat /\ y \in Nat /\ x <= y + w /\ y + w <= u
        BY <3>3, <3>4, <3>5, <4>1
      <4>3. x <= u /\ x <= BuildUntil
        BY <3>2, <4>2
      <4> QED
        BY <4>1, <4>3
    <3> QED
      BY <3>1, <3>6, Zenon
  <2>7. FewSamples(builderFlows)'
    <3> SUFFICES ASSUME NEW j \in Key
                 PROVE  /\ builderFlows'[j].count = 0
                              => builderFlows'[j].samples = <<>>
                        /\ builderFlows'[j].days \subseteq 0..DayOf(BuildUntil)
                        /\ ~late => Len(builderFlows'[j].samples) * WindowSize
                                      <= BuildUntil
      BY <1>2 DEF FewSamples
    <3>1. CASE j = k
      BY <2>4, <2>6, <3>1 DEF LearnedWindowsInv, FewSamples
    <3>2. CASE j # k
      BY <2>2, <3>2 DEF LearnedWindowsInv, FewSamples
    <3> QED
      BY <3>1, <3>2
  <2>8. SampledUpTo'
    <3> SUFFICES ASSUME NEW j \in Key, ~late
                 PROVE  Len(builderFlows'[j].samples) * WindowSize
                          + (IF closed'[j].count > 0 THEN WindowSize ELSE 0)
                            <= closedUpTo[j]
      BY <1>2 DEF SampledUpTo
    <3>1. CASE j = k
      <4>1. ~(closed'[k].count > 0)
        BY <1>4
      <4>2. Len(builderFlows'[k].samples) * WindowSize \in Nat
        BY <2>5, WindowAssumption
      <4> QED
        BY <2>6, <3>1, <4>1, <4>2
    <3>2. CASE j # k
      <4>1. closed'[j] = closed[j] /\ builderFlows'[j] = builderFlows[j]
        BY <1>1, <1>3, <2>2, <3>2 DEF TypeOK
      <4> QED
        BY <4>1 DEF LearnedWindowsInv, SampledUpTo
    <3> QED
      BY <3>1, <3>2
  <2> QED
    BY <1>2, <2>7, <2>8 DEF LearnedWindowsInv, FewSamples
<1> QED
  BY <1>5, <1>6

\* Every step keeps what bounds the samples.
LEMMA NextLearnedWindows ==
    IInv /\ LearnedWindowsInv /\ [Next]_vars => LearnedWindowsInv'
<1> SUFFICES ASSUME IInv, LearnedWindowsInv, [Next]_vars
             PROVE  LearnedWindowsInv'
  OBVIOUS
<1>1. TypeOK
  BY DEF IInv
<1>2. CASE Tick \/ UNCHANGED vars
  <2>1. /\ UNCHANGED <<builderFlows, newest, late, closedUpTo, exported, closed>>
        /\ clock' \in {clock, clock + 1}
    BY <1>2 DEF Tick, vars, historyVars, handlerVars, exporterVars
  <2> QED
    BY <1>1, <2>1, OtherLearnedWindows
<1>3. CASE ReadEvent
  <2>1. PICK k \in Key \cup {Noise}, ts \in 0..MaxTime :
                HandlerPop([key |-> k, ts |-> ts])
    BY <1>3 DEF ReadEvent
  <2>2. [key |-> k, ts |-> ts] \in Event
    BY DEF Event
  <2> QED
    BY <2>1, <2>2, PopLearnedWindows
<1>4. CASE HandlerAdd
  <2>1. UNCHANGED <<builderFlows, newest, late, closedUpTo, exported, closed,
                    clock>>
    BY <1>4 DEF HandlerAdd, historyVars, exporterVars
  <2> QED
    BY <1>1, <2>1, OtherLearnedWindows
<1>5. ASSUME NEW k \in Key, HandlerSend(k) PROVE LearnedWindowsInv'
  <2>1. /\ UNCHANGED <<builderFlows, newest, late, closedUpTo, exported, clock>>
        /\ closed' = [closed EXCEPT ![k] = Absent]
    BY <1>5 DEF HandlerSend, historyVars, exporterVars
  <2>2. \A j \in Key : closed'[j].count > 0 => closed[j].count > 0
    BY <1>1, <2>1 DEF TypeOK, Absent
  <2> QED
    BY <1>1, <2>1, <2>2, OtherLearnedWindows
<1>6. CASE ExporterStep
  <2>1. /\ UNCHANGED <<builderFlows, newest, late, closedUpTo, closed, clock>>
        /\ exported' \in {exported, builderFlows}
    BY <1>6 DEF ExporterStep, ExporterExport, ExporterReplace, ExporterReset,
                ExportSnapshot, handlerVars, historyVars
  <2> QED
    BY <1>1, <2>1, OtherLearnedWindows
<1>7. CASE WorkerStep
  <2>1. UNCHANGED <<builderFlows, newest, late, closedUpTo, exported, closed,
                    clock>>
    BY <1>7 DEF WorkerStep, WorkerReceive, WorkerJudge, handlerVars,
                historyVars, exporterVars
  <2> QED
    BY <1>1, <2>1, OtherLearnedWindows
<1> QED
  BY <1>2, <1>3, <1>4, <1>5, <1>6, <1>7, LearnLearnedWindows,
     SampleLearnedWindows DEF Next, HandlerStep, Quiescent

(***************************************************************************)
(* With events in order a learning period leaves no key more samples than  *)
(* windows fit into it, nor more days than it touches.                     *)
(***************************************************************************)
THEOREM BaselinesAlwaysShort == Spec => []LearnedWindowsInv
<1>1. Init => LearnedWindowsInv
  BY InitLearnedWindows
<1> QED
  BY <1>1, NextLearnedWindows, Inductive, PTL DEF Spec

\* A configuration, such as the one shipped, whose learning period is too
\* short for the volume rule and for a destination not to be rare, and whose
\* rare rule asks for no more than the volume rule.
ShortLearning ==
    /\ MaxLag = 0
    /\ BuildUntil < MinSampleWindows * WindowSize
    /\ DayOf(BuildUntil) < MaxDaysSeen
    /\ MinCurrentWinCount <= MinCurrentCount
    /\ SpikeNum * AvgDen <= AvgNum * SpikeDen
    /\ Enabled /\ RareEnabled

\* Then every learned key is rare, and has too few samples.
LEMMA EveryKeyRare ==
    ASSUME ShortLearning, TypeOK, LearnedWindowsInv, exported # NoSnapshot,
           NEW k \in Key
    PROVE  /\ exported[k] \in FlowAggregate
           /\ Cardinality(exported[k].days) <= MaxDaysSeen
           /\ Len(exported[k].samples) < MinSampleWindows
           /\ exported[k].count = 0 => exported[k].samples = <<>>
<1>1. exported[k] \in FlowAggregate
  BY DEF TypeOK, Baseline
<1>2. /\ exported[k].count = 0 => exported[k].samples = <<>>
      /\ exported[k].days \subseteq 0..DayOf(BuildUntil)
      /\ Len(exported[k].samples) * WindowSize <= BuildUntil
  BY DEF LearnedWindowsInv, FewSamples, ShortLearning
<1>3. Cardinality(exported[k].days) <= MaxDaysSeen
  <2>1. PICK d : d = DayOf(BuildUntil)
    OBVIOUS
  <2>2. d \in Nat /\ d < MaxDaysSeen /\ MaxDaysSeen \in Int
    BY <2>1, Bounds, DayType, DetectorAssumption DEF ShortLearning
  <2>3. IsFiniteSet(0..d) /\ Cardinality(0..d) = d + 1
    BY <2>2, FS_Interval
  <2>4. /\ Cardinality(exported[k].days) <= Cardinality(0..d)
        /\ Cardinality(exported[k].days) \in Nat
    <3>1. exported[k].days \in SUBSET (0..d)
      BY <1>2, <2>1
    <3> QED
      BY <2>3, <3>1, FS_Subset, FS_CardinalityType
  <2> QED
    BY <2>2, <2>3, <2>4
<1>4. Len(exported[k].samples) < MinSampleWindows
  <2>1. PICK n, m, w : /\ n = Len(exported[k].samples)
                       /\ m = MinSampleWindows /\ w = WindowSize
    OBVIOUS
  <2>2. n \in Nat /\ m \in Int /\ w \in Nat \ {0} /\ BuildUntil \in Nat
    BY <1>1, <2>1, DetectorAssumption, WindowAssumption, Bounds
       DEF FlowAggregate
  <2>3. n * w <= BuildUntil /\ BuildUntil < m * w
    BY <1>2, <2>1 DEF ShortLearning
  <2>4. n >= m => n * w >= m * w
    BY <2>2
  <2>5. n * w \in Int /\ m * w \in Int
    BY <2>2
  <2> QED
    BY <2>1, <2>2, <2>3, <2>4, <2>5
<1> QED
  BY <1>1, <1>2, <1>3, <1>4

(***************************************************************************)
(* Induction over the naturals, for a set instead of a predicate.          *)
(***************************************************************************)
LEMMA NatSetInduction ==
    ASSUME NEW T \in SUBSET Nat, 0 \in T, \A n \in T : n + 1 \in T
    PROVE  T = Nat
<1> SUFFICES ASSUME Nat \ T # {} PROVE FALSE
  OBVIOUS
<1> DEFINE R == {ss \in Nat \X Nat : ss[1] < ss[2]}
<1>1. IsWellFoundedOn(R, Nat)
  BY NatLessThanWellFounded DEF OpToRel
<1>2. PICK x \in Nat \ T : \A y \in Nat \ T : <<y, x>> \notin R
  <2> HIDE DEF R
  <2> QED
    BY <1>1, WFMin
<1>3. x # 0 /\ x - 1 \in Nat /\ <<x - 1, x>> \in R
  BY <1>2
<1>4. x - 1 \in T
  BY <1>2, <1>3
<1> QED
  BY <1>2, <1>3, <1>4

\* The domain of a sequence of length n has n members.
LEMMA IntervalSize ==
    ASSUME NEW n \in Nat
    PROVE  IsFiniteSet(1..n) /\ Cardinality(1..n) = n
<1>1. 1 \in Int /\ n \in Int
  OBVIOUS
<1>2. /\ IsFiniteSet(1..n)
      /\ Cardinality(1..n) = IF 1 > n THEN 0 ELSE n - 1 + 1
  BY <1>1, FS_Interval, Zenon
<1> QED
  BY <1>2

\* g has the sums of v over the subsets of D; pick says in which order.
Sums(g, D, v, pick) ==
    \A t \in SUBSET D :
        g[t] = IF t = {} THEN 0 ELSE v[pick[t]] + g[t \ {pick[t]}]

(***************************************************************************)
(* A sum over a finite set, which takes its members in the order of pick,  *)
(* exists.                                                                 *)
(***************************************************************************)
LEMMA SumExists ==
    ASSUME NEW D, IsFiniteSet(D), NEW v \in [D -> Nat],
           NEW pick \in [SUBSET D -> D \cup {D}],
           \A t \in SUBSET D : t # {} => pick[t] \in t
    PROVE  \E g \in [SUBSET D -> Nat] : Sums(g, D, v, pick)
<1> DEFINE Adds(g, t) ==
              g[t] = IF t = {} THEN 0 ELSE v[pick[t]] + g[t \ {pick[t]}]
           Upto == {n \in Nat : \E g \in [SUBSET D -> Nat] :
                       \A t \in SUBSET D : Cardinality(t) <= n => Adds(g, t)}
<1>1. \A t \in SUBSET D : Cardinality(t) \in Nat /\ (Cardinality(t) = 0 <=> t = {})
  BY FS_Subset, FS_CardinalityType, FS_EmptySet
<1>2. \A t \in SUBSET D : t # {} =>
         /\ t \ {pick[t]} \in SUBSET D
         /\ Cardinality(t \ {pick[t]}) = Cardinality(t) - 1
  BY FS_Subset, FS_RemoveElement
<1>3. 0 \in Upto
  <2> DEFINE g == [t \in SUBSET D |-> 0]
  <2>1. g \in [SUBSET D -> Nat]
    OBVIOUS
  <2>2. \A t \in SUBSET D : Cardinality(t) <= 0 => Adds(g, t)
    BY <1>1
  <2> QED
    BY <2>1, <2>2
<1>4. ASSUME NEW n \in Upto PROVE n + 1 \in Upto
  <2>0. n \in Nat /\ n + 1 \in Nat
    OBVIOUS
  <2>1. PICK g \in [SUBSET D -> Nat] :
           \A t \in SUBSET D : Cardinality(t) <= n => Adds(g, t)
    OBVIOUS
  <2> DEFINE h == [t \in SUBSET D |->
                      IF Cardinality(t) <= n \/ t = {} THEN g[t]
                      ELSE v[pick[t]] + g[t \ {pick[t]}]]
  <2>2. h \in [SUBSET D -> Nat]
    <3> SUFFICES ASSUME NEW t \in SUBSET D, t # {}
                 PROVE  v[pick[t]] + g[t \ {pick[t]}] \in Nat
      OBVIOUS
    <3>1. pick[t] \in D /\ t \ {pick[t]} \in SUBSET D
      BY <1>2
    <3> QED
      BY <3>1
  <2>3. ASSUME NEW t \in SUBSET D, Cardinality(t) <= n + 1
        PROVE  Adds(h, t)
    <3>1. CASE t = {}
      <4>1. Cardinality(t) <= n
        BY <1>1, <2>0, <3>1
      <4>2. g[t] = 0 /\ h[t] = g[t]
        BY <2>1, <3>1, <4>1
      <4> QED
        BY <3>1, <4>2
    <3>2. CASE t # {}
      <4>1. /\ t \ {pick[t]} \in SUBSET D
            /\ Cardinality(t \ {pick[t]}) <= n
        BY <1>1, <1>2, <2>3, <3>2
      <4>2. h[t \ {pick[t]}] = g[t \ {pick[t]}]
        BY <4>1
      <4>3. Cardinality(t) <= n => Adds(g, t)
        BY <2>1
      <4>4. h[t] = v[pick[t]] + g[t \ {pick[t]}]
        BY <3>2, <4>3
      <4> QED
        BY <3>2, <4>2, <4>4
    <3> QED
      BY <3>1, <3>2
  <2> HIDE DEF h
  <2>4. \E f \in [SUBSET D -> Nat] :
           \A t \in SUBSET D : Cardinality(t) <= n + 1 => Adds(f, t)
    BY <2>2, <2>3
  <2> QED
    BY <2>0, <2>4
<1>5. Upto = Nat
  <2> HIDE DEF Upto
  <2>1. Upto \in SUBSET Nat
    BY DEF Upto
  <2> QED
    BY <1>3, <1>4, <2>1, NatSetInduction
<1>6. Cardinality(D) \in Upto
  BY <1>5, FS_CardinalityType
<1>7. \A t \in SUBSET D : Cardinality(t) <= Cardinality(D)
  BY FS_Subset
<1> QED
  BY <1>6, <1>7 DEF Sums

\* What satisfies the equation of such a sum is a number.
LEMMA SumType ==
    ASSUME NEW D, IsFiniteSet(D), NEW v \in [D -> Nat],
           NEW pick, \A t \in SUBSET D : t # {} => pick[t] \in t,
           NEW g, Sums(g, D, v, pick)
    PROVE  g[D] \in Nat
<1> DEFINE Upto == {n \in Nat : \A t \in SUBSET D :
                                   Cardinality(t) <= n => g[t] \in Nat}
<1>1. \A t \in SUBSET D : Cardinality(t) \in Nat /\ (Cardinality(t) = 0 <=> t = {})
  BY FS_Subset, FS_CardinalityType, FS_EmptySet
<1>2. ASSUME NEW t \in SUBSET D, t # {}
      PROVE  /\ pick[t] \in D
             /\ t \ {pick[t]} \in SUBSET D
             /\ Cardinality(t \ {pick[t]}) = Cardinality(t) - 1
  BY <1>2, FS_Subset, FS_RemoveElement
<1>3. g[{}] \in Nat
  <2>1. g[{}] = 0
    BY DEF Sums
  <2> QED
    BY <2>1
<1>4. 0 \in Upto
  <2>1. \A t \in SUBSET D : Cardinality(t) <= 0 => t = {}
    BY <1>1
  <2>2. \A t \in SUBSET D : Cardinality(t) <= 0 => g[t] \in Nat
    BY <1>3, <2>1
  <2> QED
    BY <2>2
<1>5. ASSUME NEW n \in Upto PROVE n + 1 \in Upto
  <2>1. n \in Nat /\ \A t \in SUBSET D : Cardinality(t) <= n => g[t] \in Nat
    OBVIOUS
  <2>2. ASSUME NEW t \in SUBSET D, Cardinality(t) <= n + 1, t # {}
        PROVE  g[t] \in Nat
    <3>1. Cardinality(t \ {pick[t]}) <= n
      BY <1>1, <1>2, <2>1, <2>2
    <3>2. g[t \ {pick[t]}] \in Nat
      BY <1>2, <2>1, <2>2, <3>1
    <3>3. g[t] = v[pick[t]] + g[t \ {pick[t]}] /\ v[pick[t]] \in Nat
      BY <1>2, <2>2 DEF Sums
    <3> QED
      BY <3>2, <3>3
  <2>3. \A t \in SUBSET D : Cardinality(t) <= n + 1 => g[t] \in Nat
    BY <1>3, <2>2
  <2> QED
    BY <2>1, <2>3
<1>6. Upto = Nat
  <2> HIDE DEF Upto
  <2>1. Upto \in SUBSET Nat
    BY DEF Upto
  <2> QED
    BY <1>4, <1>5, <2>1, NatSetInduction
<1>7. Cardinality(D) \in Upto
  BY <1>6, FS_CardinalityType
<1> QED
  BY <1>1, <1>7

\* The average of window counts is a count, 0 when there are none.
LEMMA AverageType ==
    ASSUME NEW s \in Seq(Nat)
    PROVE  BaselineAverage(s) \in Nat /\ (s = <<>> => BaselineAverage(s) = 0)
<1> DEFINE D == DOMAIN s
           any(t) == CHOOSE x \in t : TRUE
           pick == [t \in SUBSET D |-> IF t = {} THEN D ELSE any(t)]
           Adds(g) == g = [t \in SUBSET D |->
                             IF t = {} THEN 0 ELSE s[any(t)] + g[t \ {any(t)}]]
           iter == CHOOSE g : Adds(g)
<1>1. /\ D = 1..Len(s) /\ Len(s) \in Nat /\ s \in [D -> Nat]
      /\ IsFiniteSet(D) /\ Cardinality(D) = Len(s)
  <2>1. D = 1..Len(s) /\ Len(s) \in Nat /\ s \in [D -> Nat]
    OBVIOUS
  <2> HIDE DEF D
  <2> QED
    BY <2>1, IntervalSize
<1>2. \A t \in SUBSET D : t # {} => pick[t] \in t /\ pick[t] = any(t)
  OBVIOUS
<1>3. pick \in [SUBSET D -> D \cup {D}]
  BY <1>2
<1>4. Adds(iter)
  <2>1. PICK g \in [SUBSET D -> Nat] : Sums(g, D, s, pick)
    <3> HIDE DEF D, pick
    <3>1. \A t \in SUBSET D : t # {} => pick[t] \in t
      BY <1>2
    <3>2. /\ IsFiniteSet(D) /\ s \in [D -> Nat]
          /\ pick \in [SUBSET D -> D \cup {D}]
      BY <1>1, <1>3
    <3> QED
      BY <3>1, <3>2, SumExists, Zenon
  <2>2. Adds(g)
    BY <1>2, <2>1 DEF Sums
  <2> QED
    BY <2>2
<1>5. iter[D] \in Nat
  <2>1. Sums(iter, D, s, pick)
    BY <1>2, <1>4 DEF Sums
  <2> HIDE DEF D, pick, iter
  <2>2. \A t \in SUBSET D : t # {} => pick[t] \in t
    BY <1>2
  <2> QED
    BY <1>1, <2>1, <2>2, SumType, Zenon
<1>6. BaselineAverage(s) = IF s = <<>> THEN 0 ELSE iter[D] \div Len(s)
  BY DEF BaselineAverage, FoldSeq, FoldFunction, FoldFunctionOnSet,
         MapThenFoldSet
<1> HIDE DEF iter, D
<1>7. s # <<>> => Len(s) > 0
  OBVIOUS
<1> QED
  BY <1>1, <1>5, <1>6, <1>7

\* A multiple of the average that the volume rule asks for is one that the
\* rare rule asks for.
LEMMA RareFollows ==
    ASSUME NEW count \in Nat, NEW avg \in Nat, ShortLearning,
           AtLeast(count, avg, AvgNum, AvgDen)
    PROVE  AtLeast(count, avg, SpikeNum, SpikeDen)
<1>1. PICK an, ad, sn, sd : /\ an = AvgNum /\ ad = AvgDen
                            /\ sn = SpikeNum /\ sd = SpikeDen
  OBVIOUS
<1>2. /\ an \in Int /\ sn \in Int /\ ad \in Nat \ {0} /\ sd \in Nat \ {0}
      /\ count * ad >= avg * an /\ sn * ad <= an * sd
  BY <1>1, DetectorAssumption DEF AtLeast, ShortLearning
<1>3. (count * ad) * sd >= (avg * an) * sd
  BY <1>2
<1>4. avg * (sn * ad) <= avg * (an * sd)
  BY <1>2
<1>5. (count * sd) * ad >= (avg * sn) * ad
  BY <1>2, <1>3, <1>4
<1>6. count * sd >= avg * sn
  BY <1>2, <1>5
<1> QED
  BY <1>1, <1>6 DEF AtLeast

(***************************************************************************)
(* Why the volume rule is silent when the volume tester expects it: under  *)
(* every configuration that learns as briefly as the shipped one, and from *)
(* every traffic whose events are not delayed, a sharp increase is         *)
(* reported, and by the rare rule alone.                                   *)
(***************************************************************************)
THEOREM OnlyTheRareRuleReports ==
    ShortLearning => (Spec => [](SharpIncrease => RulesFor(cw) = {"rare"}))
<1> SUFFICES ASSUME ShortLearning
             PROVE  Spec => [](SharpIncrease => RulesFor(cw) = {"rare"})
  OBVIOUS
<1>1. ASSUME IInv, LearnedWindowsInv, SharpIncrease
      PROVE  RulesFor(cw) = {"rare"}
  <2>1. PICK k, count, known : k = cw.key /\ count = cw.count
                               /\ known = snapshotHolder[cw.key]
    OBVIOUS
  <2>2. /\ TypeOK /\ wpc = "judge" /\ snapshotHolder # NoSnapshot
        /\ count >= MinCurrentCount /\ AboveAverage(count, known.samples)
    BY <1>1, <2>1 DEF IInv, SharpIncrease, Known
  <2>3. cw \in ClosedWindow /\ k \in Key /\ count \in Nat
    BY <2>1, <2>2 DEF TypeOK, ClosedWindow
  <2>4. snapshotHolder = exported
    BY <1>1, <2>2 DEF IInv, ExporterInv
  <2>5. /\ known \in FlowAggregate
        /\ Cardinality(known.days) <= MaxDaysSeen
        /\ Len(known.samples) < MinSampleWindows
        /\ known.count = 0 => known.samples = <<>>
    BY <1>1, <2>1, <2>2, <2>3, <2>4, EveryKeyRare
  <2>6. PICK avg : avg = BaselineAverage(known.samples)
    OBVIOUS
  <2>7. avg > 0 /\ AtLeast(count, avg, AvgNum, AvgDen)
    BY <2>2, <2>6 DEF AboveAverage
  <2>8. avg \in Nat /\ (known.samples = <<>> => avg = 0)
    <3>1. known.samples \in Seq(Nat)
      BY <2>5 DEF FlowAggregate
    <3> QED
      BY <2>6, <3>1, AverageType, Zenon
  <2>9. known.samples # <<>> /\ known.count # 0
    BY <2>5, <2>7, <2>8
  <2>10. RareDestination(count, known)
    <3>1. count >= MinCurrentWinCount
      BY <2>2, <2>3, DetectorAssumption DEF ShortLearning
    <3>2. AtLeast(count, avg, SpikeNum, SpikeDen) /\ avg # 0
      BY <2>3, <2>7, <2>8, RareFollows
    <3> QED
      BY <2>5, <2>6, <3>1, <3>2 DEF RareDestination
  <2>11. VolumeScore(count, known) = 0
    BY <2>5 DEF VolumeScore
  <2>12. /\ [rule |-> "rare", score |-> 30] \in Evaluate(count, known)
         /\ \A r \in Evaluate(count, known) : r.rule = "rare"
    BY <2>9, <2>10, <2>11 DEF Evaluate, Result, ShortLearning
  <2> QED
    BY <2>1, <2>12 DEF RulesFor, Known
<1>2. IInv /\ LearnedWindowsInv => (SharpIncrease => RulesFor(cw) = {"rare"})
  BY <1>1
<1> QED
  BY <1>2, Inductive, BaselinesAlwaysShort, PTL

=============================================================================
