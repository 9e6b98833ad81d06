------------------------- MODULE ConnectTracerProofs -------------------------
(***************************************************************************)
(* The safety properties of ConnectTracer, for any number of threads and   *)
(* any capacities: whatever probes are attached and whichever returns the  *)
(* kernel skips.                                                           *)
(***************************************************************************)
EXTENDS ConnectTracer, FiniteSetTheorems, SequenceTheorems, TLAPS

\* Until Close, a function whose return is probed has its entry probed too.
AttachInv ==
    phase # "closing" =>
        \A fn \in Function :
            <<fn, "return">> \in attached => <<fn, "entry">> \in attached

\* Until Close, the record that a return probe may find is of its connect.
ArmedInv ==
    phase # "closing" =>
        \A t \in Thread : \A i \in 1..Len(calls[t]) :
            calls[t][i].armed /\ inflight[t] # None
                => inflight[t].of = connects[t]

RingInv ==
    phase # "closing" =>
        \A i \in 1..Len(ring) : ring[i].record.of = ring[i].at

\* Once an event was submitted nothing is left to submit in its connect.
ReportInv ==
    \A t \in Thread :
        /\ reports[t] <= 1
        /\ reports[t] = 1 => inflight[t] = None /\ t \notin nesting

TracerInv == /\ TypeOK
             /\ AttachInv
             /\ ArmedInv
             /\ RingInv
             /\ ReportInv
             /\ EventsOfTheirConnect
             /\ RecordsLeakOnlyBySkips

Records == {t \in Thread : inflight[t] # None}

\* The threads with a record, and those that left one, are finitely many.
LEMMA RecordsFinite ==
    /\ IsFiniteSet(Records) /\ Cardinality(Records) \in Nat
    /\ IsFiniteSet(Leaked) /\ Cardinality(Leaked) \in Nat
<1>1. Records \subseteq Thread /\ Leaked \subseteq Thread
  BY DEF Records, Leaked
<1> QED
  BY <1>1, TracerAssumption, FS_Subset, FS_CardinalityType

\* The constants are capacities and bounds.
LEMMA TracerBounds == /\ MapCap \in Nat /\ RingCap \in Nat
                      /\ MaxConnects \in Nat /\ MaxSkipped \in Nat
BY TracerAssumption

\* A smaller set of records or leaks is not counted higher.
LEMMA FewerIsLess ==
    ASSUME NEW S, NEW T, IsFiniteSet(T), S \subseteq T
    PROVE  IsFiniteSet(S) /\ Cardinality(S) <= Cardinality(T)
BY FS_Subset

\* A set with one element more is counted one higher at most.
LEMMA OneMore ==
    ASSUME NEW S, NEW T, NEW x, IsFiniteSet(T), S \subseteq T \cup {x}
    PROVE  Cardinality(S) <= Cardinality(T) + 1
<1>1. /\ IsFiniteSet(T \cup {x})
      /\ Cardinality(T \cup {x}) = Cardinality(T)
            \/ Cardinality(T \cup {x}) = Cardinality(T) + 1
  BY FS_AddElement
<1>2. Cardinality(S) <= Cardinality(T \cup {x})
  BY <1>1, FS_Subset
<1>3. Cardinality(T) \in Nat /\ Cardinality(S) \in Nat
  BY <1>1, FS_CardinalityType, FS_Subset
<1> QED
  BY <1>1, <1>2, <1>3

\* Nothing is attached or stored before Start.
LEMMA InitTracerInv == Init => TracerInv
<1> SUFFICES ASSUME Init PROVE TracerInv
  OBVIOUS
<1>1. /\ phase = "starting" /\ attached = {} /\ nesting = {} /\ ring = <<>>
      /\ connects = [t \in Thread |-> 0] /\ calls = [t \in Thread |-> <<>>]
      /\ inflight = [t \in Thread |-> None] /\ delivered = {}
      /\ reports = [t \in Thread |-> 0] /\ skipped = 0
  BY DEF Init
<1>2. Records = {} /\ Leaked = {} /\ Cardinality({}) = 0
  BY <1>1, FS_EmptySet DEF Records, Leaked
<1>3. TypeOK
  <2>1. Cardinality({t \in Thread : inflight[t] # None}) <= MapCap
    <3>1. 0 <= MapCap
      BY TracerBounds
    <3>2. {t \in Thread : inflight[t] # None} = {}
      BY <1>2 DEF Records
    <3> QED
      BY <1>2, <3>1, <3>2
  <2>2. calls \in [Thread -> Seq(Call)]
    BY <1>1
  <2>3. ring \in Seq(Submission) /\ Len(ring) <= RingCap
    <3>1. ring \in Seq(Submission) /\ Len(ring) = 0
      BY <1>1
    <3> QED
      BY <3>1, TracerBounds
  <2>4. connects \in [Thread -> 0..MaxConnects]
    BY <1>1, TracerBounds
  <2> QED
    BY <1>1, <2>1, <2>2, <2>3, <2>4 DEF TypeOK
<1>4. AttachInv /\ ArmedInv /\ RingInv /\ ReportInv /\ EventsOfTheirConnect
  BY <1>1 DEF AttachInv, ArmedInv, RingInv, ReportInv, EventsOfTheirConnect
<1>5. RecordsLeakOnlyBySkips
  BY <1>1, <1>2 DEF RecordsLeakOnlyBySkips
<1> QED
  BY <1>3, <1>4, <1>5 DEF TracerInv

\* An entry probe stores a record of the connect in progress, or cannot
\* because the map is full and holds none of this thread.
LEMMA EnterEffect ==
    ASSUME TypeOK, NEW t \in Thread, NEW fn \in Function, Enter(t, fn),
           connects'[t] \in Nat
    PROVE  /\ inflight' \in [Thread -> Record \cup {None}]
           /\ Cardinality(Records') <= MapCap
           /\ \A u \in Thread \ {t} : /\ inflight'[u] = inflight[u]
                                      /\ calls'[u] = calls[u]
           /\ \/ inflight'[t] = inflight[t]
              \/ inflight'[t] = [of |-> connects'[t], fn |-> fn]
           /\ <<fn, "entry">> \in attached =>
                 \/ inflight'[t] = None
                 \/ inflight'[t] = [of |-> connects'[t], fn |-> fn]
           /\ calls' \in [Thread -> Seq(Call)]
           /\ \E armed \in BOOLEAN :
                 /\ calls'[t] = Append(calls[t], [fn |-> fn, armed |-> armed])
                 /\ armed => <<fn, "return">> \in attached
<1> DEFINE new == [of |-> connects'[t], fn |-> fn]
<1>1. /\ inflight \in [Thread -> Record \cup {None}]
      /\ calls \in [Thread -> Seq(Call)]
      /\ Cardinality(Records) <= MapCap
  BY DEF TypeOK, Records
<1>2. new \in Record /\ new # None
  BY TracerAssumption DEF Record, Function
<1>3. \/ /\ <<fn, "entry">> \in attached /\ Stored(t)
         /\ inflight' = [inflight EXCEPT ![t] = new]
      \/ /\ ~(<<fn, "entry">> \in attached /\ Stored(t))
         /\ inflight' = inflight
  BY DEF Enter, EnterProbe
<1>4. PICK armed \in BOOLEAN :
         /\ calls' = [calls EXCEPT ![t] =
                         Append(calls[t], [fn |-> fn, armed |-> armed])]
         /\ armed => <<fn, "return">> \in attached
  BY DEF Enter, Armed
<1>5. /\ calls' \in [Thread -> Seq(Call)]
      /\ calls'[t] = Append(calls[t], [fn |-> fn, armed |-> armed])
      /\ \A u \in Thread \ {t} : calls'[u] = calls[u]
  <2>1. [fn |-> fn, armed |-> armed] \in Call
    BY DEF Call
  <2> QED
    BY <1>1, <1>4, <2>1
<1>6. /\ inflight' \in [Thread -> Record \cup {None}]
      /\ \A u \in Thread \ {t} : inflight'[u] = inflight[u]
      /\ inflight'[t] = inflight[t] \/ inflight'[t] = new
      /\ <<fn, "entry">> \in attached =>
            inflight'[t] = None \/ inflight'[t] = new
  BY <1>1, <1>2, <1>3 DEF Stored
<1>7. Cardinality(Records') <= MapCap
  <2>1. CASE inflight' = inflight
    BY <1>1, <2>1 DEF Records
  <2>2. CASE inflight[t] # None /\ inflight' = [inflight EXCEPT ![t] = new]
    <3>1. Records' = Records
      BY <1>1, <1>2, <2>2 DEF Records
    <3> QED
      BY <1>1, <3>1
  <2>3. CASE /\ Cardinality(Records) < MapCap
             /\ inflight' = [inflight EXCEPT ![t] = new]
    <3>1. Records' \subseteq Records \cup {t}
      BY <1>1, <2>3 DEF Records
    <3>2. IsFiniteSet(Records) /\ Cardinality(Records) \in Nat
      BY RecordsFinite
    <3>3. Cardinality(Records') <= Cardinality(Records) + 1
      BY <3>1, <3>2, OneMore
    <3>4. Cardinality(Records') \in Nat
      BY <3>1, <3>2, FS_AddElement, FS_Subset, FS_CardinalityType
    <3> QED
      BY <2>3, <3>2, <3>3, <3>4, TracerBounds
  <2> QED
    BY <1>3, <2>1, <2>2, <2>3 DEF Stored, Records
<1> QED
  BY <1>5, <1>6, <1>7, <1>4

\* A record that an entry probe stored is of the connect in progress, and so
\* are the records that earlier armed calls of it may find.
LEMMA ConnectTracerInv ==
    ASSUME TracerInv, NEW t \in Thread, NEW fn \in Function,
           Connect(t, fn) \/ (NestedConnect(t) /\ fn = "v4")
    PROVE  TracerInv'
<1>1. /\ Enter(t, fn)
      /\ UNCHANGED <<phase, attached, ring, delivered, skipped>>
      /\ TypeOK
  BY DEF Connect, NestedConnect, TracerInv
<1>2. \/ /\ calls[t] = <<>> /\ reports' = [reports EXCEPT ![t] = 0]
         /\ connects[t] < MaxConnects
         /\ connects' = [connects EXCEPT ![t] = @ + 1]
         /\ nesting' \subseteq nesting \cup {t} /\ nesting \subseteq nesting'
      \/ /\ t \in nesting /\ nesting' = nesting \ {t}
         /\ UNCHANGED <<connects, reports>>
  BY DEF Connect, NestedConnect, InConnect
<1>3. /\ connects' \in [Thread -> 0..MaxConnects]
      /\ reports' \in [Thread -> Nat]
      /\ nesting' \subseteq Thread
      /\ \A u \in Thread \ {t} : /\ connects'[u] = connects[u]
                                 /\ reports'[u] = reports[u]
                                 /\ u \in nesting' <=> u \in nesting
  <2>1. /\ connects \in [Thread -> 0..MaxConnects]
        /\ reports \in [Thread -> Nat] /\ nesting \subseteq Thread
    BY <1>1 DEF TypeOK
  <2>2. CASE /\ reports' = [reports EXCEPT ![t] = 0]
             /\ connects[t] < MaxConnects
             /\ connects' = [connects EXCEPT ![t] = @ + 1]
             /\ nesting' \subseteq nesting \cup {t}
             /\ nesting \subseteq nesting'
    <3>1. connects[t] + 1 \in 0..MaxConnects
      BY <2>1, <2>2, TracerBounds
    <3>2. connects' \in [Thread -> 0..MaxConnects]
      BY <2>1, <2>2, <3>1
    <3>3. reports' \in [Thread -> Nat]
      BY <2>1, <2>2
    <3> QED
      BY <2>1, <2>2, <3>2, <3>3
  <2>3. CASE t \in nesting /\ nesting' = nesting \ {t}
             /\ UNCHANGED <<connects, reports>>
    BY <2>1, <2>3
  <2> QED
    BY <1>2, <2>2, <2>3
<1>4. connects'[t] \in Nat
  BY <1>3
<1>5. /\ inflight' \in [Thread -> Record \cup {None}]
      /\ Cardinality(Records') <= MapCap
      /\ \A u \in Thread \ {t} : /\ inflight'[u] = inflight[u]
                                 /\ calls'[u] = calls[u]
      /\ calls' \in [Thread -> Seq(Call)]
  BY <1>1, <1>4, EnterEffect
<1>6. /\ \/ inflight'[t] = inflight[t]
         \/ inflight'[t] = [of |-> connects'[t], fn |-> fn]
      /\ <<fn, "entry">> \in attached =>
            \/ inflight'[t] = None
            \/ inflight'[t] = [of |-> connects'[t], fn |-> fn]
  BY <1>1, <1>4, EnterEffect
<1>7. PICK armed \in BOOLEAN :
         /\ calls'[t] = Append(calls[t], [fn |-> fn, armed |-> armed])
         /\ armed => <<fn, "return">> \in attached
  BY <1>1, <1>4, EnterEffect
<1>8. TypeOK'
  BY <1>1, <1>3, <1>5 DEF TypeOK, Records
<1>9. AttachInv' /\ RingInv' /\ EventsOfTheirConnect'
  BY <1>1 DEF TracerInv, AttachInv, RingInv, EventsOfTheirConnect
<1>10. ReportInv'
  <2> SUFFICES ASSUME NEW u \in Thread
               PROVE  /\ reports'[u] <= 1
                      /\ reports'[u] = 1 => inflight'[u] = None
                                            /\ u \notin nesting'
    BY DEF ReportInv
  <2>1. CASE u # t
    BY <2>1, <1>3, <1>5 DEF TracerInv, ReportInv
  <2>2. CASE u = t
    <3>1. reports[t] \in Nat /\ reports[t] <= 1
      BY <1>1 DEF TypeOK, TracerInv, ReportInv
    <3>2. t \in nesting => reports[t] # 1
      BY DEF TracerInv, ReportInv
    <3>3. reports'[t] = 0
      BY <1>1, <1>2, <3>1, <3>2 DEF TypeOK
    <3> QED
      BY <2>2, <3>3
  <2> QED
    BY <2>1, <2>2
<1>11. ArmedInv'
  <2> SUFFICES ASSUME phase # "closing", NEW u \in Thread,
                      NEW i \in 1..Len(calls'[u]), calls'[u][i].armed,
                      inflight'[u] # None
               PROVE  inflight'[u].of = connects'[u]
    BY <1>1 DEF ArmedInv
  <2>1. CASE u # t
    BY <2>1, <1>3, <1>5 DEF TracerInv, ArmedInv
  <2>2. CASE u = t
    <3>1. CASE inflight'[t] = [of |-> connects'[t], fn |-> fn]
      BY <2>2, <3>1
    <3>2. CASE inflight'[t] = inflight[t] /\ <<fn, "entry">> \notin attached
      <4>1. ~armed
        BY <1>7, <3>2 DEF TracerInv, AttachInv
      <4>2. calls[t] \in Seq(Call) /\ Len(calls[t]) \in Nat
        BY <1>1 DEF TypeOK
      <4>3. i \in 1..Len(calls[t]) /\ calls[t][i].armed
        BY <1>7, <2>2, <4>1, <4>2
      <4>4. connects'[t] = connects[t]
        BY <1>2, <4>3
      <4> QED
        BY <2>2, <3>2, <4>3, <4>4 DEF TracerInv, ArmedInv
    <3> QED
      BY <1>6, <2>2, <3>1, <3>2
  <2> QED
    BY <2>1, <2>2
<1>12. RecordsLeakOnlyBySkips'
  <2>1. calls[t] \in Seq(Call) /\ calls'[t] # <<>>
    <3>1. calls[t] \in Seq(Call)
      BY <1>1 DEF TypeOK
    <3> QED
      BY <1>7, <3>1, AppendProperties
  <2>2. Leaked' \subseteq Leaked
    BY <1>5, <2>1 DEF Leaked, InConnect
  <2>3. Cardinality(Leaked') <= Cardinality(Leaked)
    BY <2>2, RecordsFinite, FewerIsLess
  <2>4. Cardinality(Leaked') \in Nat
    BY <2>2, RecordsFinite, FewerIsLess, FS_CardinalityType
  <2>5. skipped \in Nat /\ Cardinality(Leaked) <= skipped
    BY <1>1 DEF TypeOK, TracerInv, RecordsLeakOnlyBySkips
  <2> QED
    BY <1>1, <2>3, <2>4, <2>5, RecordsFinite DEF RecordsLeakOnlyBySkips
<1> QED
  BY <1>8, <1>9, <1>10, <1>11, <1>12 DEF TracerInv

\* A return probe submits the record, if any, and deletes it; a skipped one
\* may leave a record behind, and is counted.
LEMMA ReturnTracerInv ==
    ASSUME TracerInv, NEW t \in Thread, Return(t)
    PROVE  TracerInv'
<1>1. /\ TypeOK /\ calls[t] # <<>> /\ t \notin nesting
      /\ calls' = [calls EXCEPT ![t] = SubSeq(@, 1, Len(@) - 1)]
      /\ UNCHANGED <<phase, attached, connects, nesting, delivered>>
  BY DEF Return, InConnect, TracerInv
<1>2. /\ calls[t] \in Seq(Call) /\ Len(calls[t]) \in Nat /\ Len(calls[t]) > 0
      /\ inflight \in [Thread -> Record \cup {None}]
      /\ reports \in [Thread -> Nat] /\ connects[t] \in Nat
      /\ ring \in Seq(Submission) /\ Len(ring) <= RingCap /\ Len(ring) \in Nat
      /\ skipped \in Nat
  BY <1>1 DEF TypeOK
<1>3. /\ calls'[t] = SubSeq(calls[t], 1, Len(calls[t]) - 1)
      /\ \A u \in Thread \ {t} : calls'[u] = calls[u]
      /\ calls' \in [Thread -> Seq(Call)]
  <2>1. SubSeq(calls[t], 1, Len(calls[t]) - 1) \in Seq(Call)
    BY <1>2
  <2>2. calls \in [Thread -> Seq(Call)]
    BY <1>1 DEF TypeOK
  <2> QED
    BY <1>1, <2>1, <2>2
<1>4. \A i \in 1..Len(calls'[t]) :
         i \in 1..Len(calls[t]) /\ calls'[t][i] = calls[t][i]
  BY <1>2, <1>3
<1>5. CASE Probed(LastCall(t))
  <2>1. /\ inflight' = [inflight EXCEPT ![t] = None]
        /\ skipped' = skipped
        /\ \/ UNCHANGED <<ring, reports>>
           \/ /\ inflight[t] # None /\ Len(ring) < RingCap
              /\ ring' = Append(ring, [thread |-> t, record |-> inflight[t],
                                       at |-> connects[t]])
              /\ reports' = [reports EXCEPT ![t] = @ + 1]
    BY <1>5 DEF Return, SubmitProbe
  <2>2. /\ inflight'[t] = None
        /\ \A u \in Thread \ {t} : inflight'[u] = inflight[u]
        /\ inflight' \in [Thread -> Record \cup {None}]
    BY <1>2, <2>1
  <2>3. TypeOK'
    <3>1. Records' \subseteq Records
      BY <2>2 DEF Records
    <3>2. Cardinality(Records') <= Cardinality(Records)
      BY <3>1, RecordsFinite, FewerIsLess
    <3>3. Cardinality(Records') \in Nat
      BY <3>1, RecordsFinite, FewerIsLess, FS_CardinalityType
    <3>4. Cardinality(Records') <= MapCap
      BY <1>1, <3>2, <3>3, RecordsFinite, TracerBounds DEF TypeOK, Records
    <3>5. ring' \in Seq(Submission) /\ Len(ring') <= RingCap
      <4>1. inflight[t] # None => [thread |-> t, record |-> inflight[t],
                                   at |-> connects[t]] \in Submission
        BY <1>2 DEF Submission
      <4>2. CASE UNCHANGED <<ring, reports>>
        BY <1>2, <4>2
      <4>3. CASE /\ inflight[t] # None /\ Len(ring) < RingCap
                 /\ ring' = Append(ring, [thread |-> t,
                                          record |-> inflight[t],
                                          at |-> connects[t]])
        <5>1. ring' \in Seq(Submission) /\ Len(ring') = Len(ring) + 1
          BY <1>2, <4>1, <4>3, AppendProperties
        <5> QED
          BY <1>2, <4>3, <5>1, TracerBounds
      <4> QED
        BY <2>1, <4>2, <4>3
    <3>6. reports' \in [Thread -> Nat]
      BY <1>2, <2>1
    <3> QED
      BY <1>1, <1>3, <2>1, <2>2, <3>4, <3>5, <3>6 DEF TypeOK, Records
  <2>4. AttachInv' /\ EventsOfTheirConnect'
    BY <1>1 DEF TracerInv, AttachInv, EventsOfTheirConnect
  <2>5. ArmedInv'
    <3> SUFFICES ASSUME phase # "closing", NEW u \in Thread,
                        NEW i \in 1..Len(calls'[u]), calls'[u][i].armed,
                        inflight'[u] # None
                 PROVE  inflight'[u].of = connects'[u]
      BY <1>1 DEF ArmedInv
    <3>1. u # t /\ calls'[u] = calls[u] /\ inflight'[u] = inflight[u]
      BY <1>3, <2>2
    <3> QED
      BY <1>1, <3>1 DEF TracerInv, ArmedInv
  <2>6. RingInv'
    <3> SUFFICES ASSUME phase # "closing", NEW i \in 1..Len(ring')
                 PROVE  ring'[i].record.of = ring'[i].at
      BY <1>1 DEF RingInv
    <3>1. CASE ring' = ring
      BY <3>1 DEF TracerInv, RingInv
    <3>2. CASE /\ inflight[t] # None
               /\ ring' = Append(ring, [thread |-> t, record |-> inflight[t],
                                        at |-> connects[t]])
      <4>1. inflight[t].of = connects[t]
        <5>1. Len(calls[t]) \in 1..Len(calls[t])
              /\ calls[t][Len(calls[t])].armed
          BY <1>2, <1>5 DEF Probed, LastCall
        <5> QED
          BY <3>2, <5>1 DEF TracerInv, ArmedInv
      <4>2. CASE i \in 1..Len(ring)
        <5>1. ring'[i] = ring[i]
          BY <1>2, <3>2, <4>2
        <5> QED
          BY <4>2, <5>1 DEF TracerInv, RingInv
      <4>3. CASE i = Len(ring) + 1
        <5>1. ring'[i] = [thread |-> t, record |-> inflight[t],
                          at |-> connects[t]]
          BY <1>2, <3>2, <4>3
        <5> QED
          BY <4>1, <5>1
      <4>4. Len(ring') = Len(ring) + 1
        BY <1>2, <3>2
      <4> QED
        BY <1>2, <4>2, <4>3, <4>4
    <3> QED
      BY <2>1, <3>1, <3>2
  <2>7. ReportInv'
    <3> SUFFICES ASSUME NEW u \in Thread
                 PROVE  /\ reports'[u] <= 1
                        /\ reports'[u] = 1 => inflight'[u] = None
                                              /\ u \notin nesting
      BY <1>1 DEF ReportInv
    <3>1. CASE reports'[u] = reports[u]
      BY <2>2, <3>1 DEF TracerInv, ReportInv
    <3>2. CASE reports'[u] # reports[u]
      <4>1. u = t /\ inflight[t] # None /\ reports'[t] = reports[t] + 1
        BY <1>2, <2>1, <3>2
      <4>2. reports[t] = 0
        BY <1>2, <4>1 DEF TracerInv, ReportInv
      <4> QED
        BY <1>1, <2>2, <4>1, <4>2
    <3> QED
      BY <3>1, <3>2
  <2>8. RecordsLeakOnlyBySkips'
    <3>1. Leaked' \subseteq Leaked
      BY <1>3, <2>2 DEF Leaked, InConnect
    <3>2. Cardinality(Leaked') <= Cardinality(Leaked)
      BY <3>1, RecordsFinite, FewerIsLess
    <3>3. Cardinality(Leaked') \in Nat
      BY <3>1, RecordsFinite, FewerIsLess, FS_CardinalityType
    <3> QED
      BY <1>2, <2>1, <3>2, <3>3, RecordsFinite
         DEF TracerInv, RecordsLeakOnlyBySkips
  <2> QED
    BY <2>3, <2>4, <2>5, <2>6, <2>7, <2>8 DEF TracerInv
<1>6. CASE ~Probed(LastCall(t))
  <2>1. skipped' = skipped + 1 /\ UNCHANGED <<inflight, ring, reports>>
    BY <1>6 DEF Return
  <2>2. TypeOK'
    BY <1>1, <1>2, <1>3, <2>1 DEF TypeOK
  <2>3. AttachInv' /\ EventsOfTheirConnect' /\ RingInv' /\ ReportInv'
    BY <1>1, <2>1
       DEF TracerInv, AttachInv, EventsOfTheirConnect, RingInv, ReportInv
  <2>4. ArmedInv'
    <3> SUFFICES ASSUME phase # "closing", NEW u \in Thread,
                        NEW i \in 1..Len(calls'[u]), calls'[u][i].armed,
                        inflight[u] # None
                 PROVE  inflight[u].of = connects[u]
      BY <1>1, <2>1 DEF ArmedInv
    <3>1. i \in 1..Len(calls[u]) /\ calls[u][i].armed
      BY <1>3, <1>4
    <3> QED
      BY <3>1 DEF TracerInv, ArmedInv
  <2>5. RecordsLeakOnlyBySkips'
    <3>1. Leaked' \subseteq Leaked \cup {t}
      BY <1>3, <2>1 DEF Leaked, InConnect
    <3>2. Cardinality(Leaked') <= Cardinality(Leaked) + 1
      BY <3>1, RecordsFinite, OneMore
    <3>3. Cardinality(Leaked') \in Nat
      BY <3>1, RecordsFinite, FS_AddElement, FS_Subset, FS_CardinalityType
    <3> QED
      BY <1>2, <2>1, <3>2, <3>3, RecordsFinite
         DEF TracerInv, RecordsLeakOnlyBySkips
  <2> QED
    BY <2>2, <2>3, <2>4, <2>5 DEF TracerInv
<1> QED
  BY <1>5, <1>6

\* The collector's steps: probes come and go entry before return, and events
\* are read before Close only.
LEMMA CollectorTracerInv ==
    ASSUME TracerInv,
           Attach \/ OpenReader \/ Read \/ CloseReader \/ Detach
              \/ UNCHANGED tracerVars
    PROVE  TracerInv'
<1>1. /\ TypeOK
      /\ UNCHANGED <<connects, calls, nesting, inflight, reports, skipped>>
      /\ phase = "closing" => phase' = "closing"
  BY DEF Attach, OpenReader, Read, CloseReader, Detach, tracerVars, TracerInv
<1>2. /\ Leaked' = Leaked /\ Records' = Records
  BY <1>1 DEF Leaked, Records, InConnect
<1>3. ArmedInv' /\ ReportInv' /\ RecordsLeakOnlyBySkips'
  BY <1>1, <1>2
     DEF TracerInv, ArmedInv, ReportInv, RecordsLeakOnlyBySkips
<1>4. AttachInv'
  <2>1. CASE UNCHANGED attached
    BY <1>1, <2>1 DEF TracerInv, AttachInv
  <2>2. CASE Attach
    BY <2>2 DEF TracerInv, AttachInv, Attach, AttachOrder, Function
  <2>3. CASE Detach
    BY <2>3 DEF Detach, AttachInv
  <2> QED
    BY <2>1, <2>2, <2>3 DEF OpenReader, Read, CloseReader, tracerVars
<1>5. CASE Read
  <2>1. /\ phase = "running" /\ phase' = phase /\ ring # <<>>
        /\ ring' = Tail(ring) /\ attached' = attached
        /\ delivered' = delivered \cup {Head(ring)}
    BY <1>5 DEF Read
  <2>2. ring \in Seq(Submission) /\ Len(ring) <= RingCap
    BY <1>1 DEF TypeOK
  <2>3. /\ ring' \in Seq(Submission) /\ Len(ring') <= RingCap
        /\ Head(ring) = ring[1] /\ 1 \in 1..Len(ring)
        /\ Head(ring) \in Submission
    BY <2>1, <2>2, TracerBounds, HeadTailProperties
  <2>4. \A i \in 1..Len(ring') : i + 1 \in 1..Len(ring)
                                 /\ ring'[i] = ring[i + 1]
    BY <2>1, <2>2
  <2>5. \A i \in 1..Len(ring) : ring[i].record.of = ring[i].at
    BY <2>1 DEF TracerInv, RingInv
  <2>6. RingInv' /\ EventsOfTheirConnect'
    BY <2>1, <2>3, <2>4, <2>5 DEF TracerInv, RingInv, EventsOfTheirConnect
  <2>7. TypeOK'
    BY <1>1, <2>1, <2>3 DEF TypeOK
  <2> QED
    BY <1>3, <1>4, <2>6, <2>7 DEF TracerInv
<1>6. CASE ~Read
  <2>1. UNCHANGED <<ring, delivered>>
        /\ phase' \in {"starting", "running", "closing"}
    BY <1>1, <1>6
       DEF Attach, OpenReader, CloseReader, Detach, tracerVars, TypeOK
  <2>2. attached' \subseteq Probe
    <3>1. CASE Attach
      BY <1>1, <3>1 DEF Attach, AttachOrder, TypeOK, Probe, Function
    <3>2. CASE Detach
      BY <1>1, <3>2 DEF Detach, TypeOK
    <3>3. CASE UNCHANGED attached
      BY <1>1, <3>3 DEF TypeOK
    <3> QED
      BY <1>6, <3>1, <3>2, <3>3 DEF OpenReader, CloseReader, tracerVars
  <2>3. TypeOK'
    BY <1>1, <2>1, <2>2 DEF TypeOK
  <2>4. RingInv' /\ EventsOfTheirConnect'
    BY <1>1, <2>1 DEF TracerInv, RingInv, EventsOfTheirConnect
  <2> QED
    BY <1>3, <1>4, <2>3, <2>4 DEF TracerInv
<1> QED
  BY <1>5, <1>6

\* Every step of a thread or of the collector keeps the invariant.
LEMMA NextTracerInv == TracerInv /\ [Next]_tracerVars => TracerInv'
<1> SUFFICES ASSUME TracerInv, [Next]_tracerVars PROVE TracerInv'
  OBVIOUS
<1>1. ASSUME NEW t \in Thread, ThreadStep(t) PROVE TracerInv'
  <2>1. ASSUME NEW fn \in Function, Connect(t, fn) PROVE TracerInv'
    BY <2>1, ConnectTracerInv
  <2>2. CASE NestedConnect(t)
    <3>1. "v4" \in Function
      BY DEF Function
    <3> QED
      BY <2>2, <3>1, ConnectTracerInv
  <2>3. CASE Return(t)
    BY <2>3, ReturnTracerInv
  <2> QED
    BY <1>1, <2>1, <2>2, <2>3 DEF ThreadStep
<1> QED
  BY <1>1, CollectorTracerInv DEF Next

(***************************************************************************)
(* The tracer's invariant holds in every state: types and capacities, and  *)
(* what the probes may rely on.                                            *)
(***************************************************************************)
THEOREM TracerInductive == Spec => []TracerInv
BY InitTracerInv, NextTracerInv, PTL DEF Spec

(***************************************************************************)
(* A connect is reported at most once, though the probes of a connect to   *)
(* an IPv4-mapped address run twice.                                       *)
(***************************************************************************)
THEOREM AlwaysOneEvent == Spec => []OneEventPerConnect
<1>1. TracerInv => OneEventPerConnect
  BY DEF TracerInv, ReportInv, OneEventPerConnect
<1> QED
  BY <1>1, TracerInductive, PTL

(***************************************************************************)
(* What Handle is given was recorded by the connect that returned, during  *)
(* start-up, operation and shutdown, whatever return probes were skipped.  *)
(***************************************************************************)
THEOREM EventsAlwaysOfTheirConnect == Spec => []EventsOfTheirConnect
<1>1. TracerInv => EventsOfTheirConnect
  BY DEF TracerInv
<1> QED
  BY <1>1, TracerInductive, PTL

(***************************************************************************)
(* inflight loses a slot to a connect that is over only for a return that  *)
(* ran no probe: never because the ring buffer was full.                   *)
(***************************************************************************)
THEOREM LeaksOnlyBySkips == Spec => []RecordsLeakOnlyBySkips
<1>1. TracerInv => RecordsLeakOnlyBySkips
  BY DEF TracerInv
<1> QED
  BY <1>1, TracerInductive, PTL

=============================================================================
