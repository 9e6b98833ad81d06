---------------------------- MODULE ConnectTracer ----------------------------
(***************************************************************************)
(* bpf/tcp_connect.c and internal/tcp: from a thread's connect to the      *)
(* event that readLoop hands to Handle.                                    *)
(*                                                                         *)
(* A probe at the entry of tcp_v4_connect or tcp_v6_connect stores a       *)
(* record under the thread in the hash map inflight; the probe at the      *)
(* return turns it into an event in the ring buffer and deletes it.        *)
(* tcp_v6_connect calls tcp_v4_connect for an IPv4-mapped address, so the  *)
(* probes of one connect may nest.  Start attaches the four probes one     *)
(* after the other while threads connect, Close detaches them in the same  *)
(* order after it has closed the reader.                                   *)
(*                                                                         *)
(* A probe runs in the thread it probes and touches that thread's record   *)
(* only, so a probe is one step.  A record's data stands for the number of *)
(* the connect that stored it and the function it was stored at.           *)
(***************************************************************************)
EXTENDS Integers, Sequences, FiniteSets

CONSTANTS
    Thread,
    MapCap, RingCap,        \* capacities of inflight and of the ring buffer
    None,                   \* no record
    MaxConnects, MaxSkipped \* bounds: connects of a thread, skipped returns
                            \*   after which the kernel skips no more

ASSUME TracerAssumption ==
    /\ IsFiniteSet(Thread)
    /\ {MapCap, RingCap, MaxConnects, MaxSkipped} \subseteq Nat
    /\ None \notin [of: Nat, fn: {"v4", "v6"}]

VARIABLES
    phase,       \* the collector: "starting", "running" or "closing"
    attached,    \* probes attached: <<function, "entry" or "return">>
    connects,    \* connects begun by a thread: the number of its last one
    calls,       \* a thread's calls of the two functions, innermost last
    nesting,     \* threads whose tcp_v6_connect has tcp_v4_connect to call
    inflight, ring,
    delivered,   \* events readLoop has read
    reports,     \* history: events submitted for the thread's last connect
    skipped      \* history: calls that returned without a return probe

tracerVars == <<phase, attached, connects, calls, nesting, inflight, ring,
                delivered, reports, skipped>>

Function == {"v4", "v6"}
Probe    == Function \X {"entry", "return"}
Record   == [of: Nat, fn: Function]
Call     == [fn: Function, armed: BOOLEAN]

\* What the probes know, and the connect that was returning (history).
Submission == [thread: Thread, record: Record, at: Nat]

TypeOK ==
    /\ phase \in {"starting", "running", "closing"}
    /\ attached \subseteq Probe
    /\ connects \in [Thread -> 0..MaxConnects]
    /\ calls \in [Thread -> Seq(Call)]
    /\ nesting \subseteq Thread
    /\ inflight \in [Thread -> Record \cup {None}]
    /\ ring \in Seq(Submission)
    /\ Len(ring) <= RingCap
    /\ delivered \subseteq Submission
    /\ reports \in [Thread -> Nat]
    /\ Cardinality({t \in Thread : inflight[t] # None}) <= MapCap
    /\ skipped \in Nat

Init ==
    /\ phase = "starting" /\ attached = {}
    /\ connects = [t \in Thread |-> 0]
    /\ calls = [t \in Thread |-> <<>>]
    /\ nesting = {}
    /\ inflight = [t \in Thread |-> None]
    /\ ring = <<>> /\ delivered = {}
    /\ reports = [t \in Thread |-> 0]
    /\ skipped = 0

-----------------------------------------------------------------------------
(* The probes.                                                             *)

InConnect(t) == calls[t] # <<>>

\* bpf_map_update_elem with BPF_ANY: a full map takes no new key.
Stored(t) == \/ inflight[t] # None
             \/ Cardinality({u \in Thread : inflight[u] # None}) < MapCap

\* enter_ipv4, enter_ipv6, if the entry probe of fn is attached.
EnterProbe(t, fn) ==
    inflight' = IF <<fn, "entry">> \in attached /\ Stored(t)
                THEN [inflight EXCEPT ![t] = [of |-> connects'[t], fn |-> fn]]
                ELSE inflight

\* Mutant of SubmitProbe: a full ring leaves the record in the map.
SubmitProbe_KeepsWhenFull(t) ==
    IF inflight[t] = None \/ Len(ring) >= RingCap
    THEN UNCHANGED <<inflight, ring, reports>>
    ELSE /\ ring' = Append(ring, [thread |-> t, record |-> inflight[t],
                                  at |-> connects[t]])
         /\ reports' = [reports EXCEPT ![t] = @ + 1]
         /\ inflight' = [inflight EXCEPT ![t] = None]

\* Mutant of SubmitProbe: the record is not deleted.
SubmitProbe_NoDelete(t) ==
    /\ inflight' = inflight
    /\ IF inflight[t] # None /\ Len(ring) < RingCap
       THEN /\ ring' = Append(ring, [thread |-> t, record |-> inflight[t],
                                     at |-> connects[t]])
            /\ reports' = [reports EXCEPT ![t] = @ + 1]
       ELSE UNCHANGED <<ring, reports>>

\* submit_from_state: with or without room in the ring, the record goes.
SubmitProbe(t) ==
    /\ inflight' = [inflight EXCEPT ![t] = None]
    /\ IF inflight[t] # None /\ Len(ring) < RingCap
       THEN /\ ring' = Append(ring, [thread |-> t, record |-> inflight[t],
                                     at |-> connects[t]])
            /\ reports' = [reports EXCEPT ![t] = @ + 1]
       ELSE UNCHANGED <<ring, reports>>

-----------------------------------------------------------------------------
(* The kernel.  A return probe runs only for calls that found it attached  *)
(* and an instance free when they were entered.                            *)

Armed(fn) ==
    IF <<fn, "return">> \notin attached THEN {FALSE}
    ELSE IF skipped < MaxSkipped THEN BOOLEAN ELSE {TRUE}

Enter(t, fn) ==
    /\ \E armed \in Armed(fn) :
          calls' = [calls EXCEPT ![t] =
                       Append(@, [fn |-> fn, armed |-> armed])]
    /\ EnterProbe(t, fn)

Connect(t, fn) ==
    /\ ~InConnect(t)
    /\ connects[t] < MaxConnects
    /\ connects' = [connects EXCEPT ![t] = @ + 1]
    /\ reports' = [reports EXCEPT ![t] = 0]
    /\ \/ UNCHANGED nesting
       \/ fn = "v6" /\ nesting' = nesting \cup {t}   \* a mapped address
    /\ Enter(t, fn)
    /\ UNCHANGED <<phase, attached, ring, delivered, skipped>>

NestedConnect(t) ==
    /\ t \in nesting
    /\ nesting' = nesting \ {t}
    /\ UNCHANGED connects
    /\ Enter(t, "v4")
    /\ UNCHANGED <<phase, attached, ring, delivered, reports, skipped>>

LastCall(t) == calls[t][Len(calls[t])]

Probed(call) == call.armed /\ <<call.fn, "return">> \in attached

Return(t) ==
    /\ InConnect(t)
    /\ t \notin nesting
    /\ calls' = [calls EXCEPT ![t] = SubSeq(@, 1, Len(@) - 1)]
    /\ IF Probed(LastCall(t))
       THEN SubmitProbe(t) /\ UNCHANGED skipped
       ELSE /\ skipped' = skipped + 1
            /\ UNCHANGED <<inflight, ring, reports>>
    /\ UNCHANGED <<phase, attached, connects, nesting, delivered>>

-----------------------------------------------------------------------------
(* The collector.                                                          *)

AttachOrder == <<<<"v4", "entry">>, <<"v4", "return">>,
                 <<"v6", "entry">>, <<"v6", "return">>>>

Attach ==
    /\ phase = "starting"
    /\ \E i \in 1..4 :
          /\ attached = {AttachOrder[j] : j \in 1..(i - 1)}
          /\ attached' = attached \cup {AttachOrder[i]}
    /\ UNCHANGED <<phase, connects, calls, nesting, inflight, ring, delivered,
                   reports, skipped>>

OpenReader ==
    /\ phase = "starting"
    /\ attached = Probe
    /\ phase' = "running"
    /\ UNCHANGED <<attached, connects, calls, nesting, inflight, ring,
                   delivered, reports, skipped>>

\* Mutant of Read: events are read until the probes are gone.
Read_WhileClosing ==
    /\ phase = "running" \/ (phase = "closing" /\ attached # {})
    /\ ring # <<>>
    /\ delivered' = delivered \cup {Head(ring)}
    /\ ring' = Tail(ring)
    /\ UNCHANGED <<phase, attached, connects, calls, nesting, inflight,
                   reports, skipped>>

Read ==
    /\ phase = "running"
    /\ ring # <<>>
    /\ delivered' = delivered \cup {Head(ring)}
    /\ ring' = Tail(ring)
    /\ UNCHANGED <<phase, attached, connects, calls, nesting, inflight,
                   reports, skipped>>

\* Close, when the agent is stopped or a later step of Start has failed.
CloseReader ==
    /\ phase # "closing"
    /\ phase' = "closing"
    /\ UNCHANGED <<attached, connects, calls, nesting, inflight, ring,
                   delivered, reports, skipped>>

Detach ==
    /\ phase = "closing"
    /\ \E i \in 1..4 :
          /\ AttachOrder[i] \in attached
          /\ \A j \in 1..(i - 1) : AttachOrder[j] \notin attached
          /\ attached' = attached \ {AttachOrder[i]}
    /\ UNCHANGED <<phase, connects, calls, nesting, inflight, ring, delivered,
                   reports, skipped>>

-----------------------------------------------------------------------------
ThreadStep(t) == \/ \E fn \in Function : Connect(t, fn)
                 \/ NestedConnect(t)
                 \/ Return(t)

Next == \/ \E t \in Thread : ThreadStep(t)
        \/ Attach \/ OpenReader \/ Read \/ CloseReader \/ Detach

Spec == Init /\ [][Next]_tracerVars

-----------------------------------------------------------------------------
(***************************************************************************)
(* However the two functions and their probes nest, a connect is reported  *)
(* at most once: the inner return takes the record, the outer one finds    *)
(* none.                                                                   *)
(***************************************************************************)
OneEventPerConnect == \A t \in Thread : reports[t] <= 1

(***************************************************************************)
(* An event that Handle sees was built from the record of the connect that *)
(* returned, never from one that an earlier connect left in inflight       *)
(* because its return probe did not run.                                   *)
(***************************************************************************)
EventsOfTheirConnect == \A e \in delivered : e.record.of = e.at

(***************************************************************************)
(* inflight does not fill up with records of connects that are over: at    *)
(* most one is left for each return that the kernel skipped or that came   *)
(* while its probe was not attached, and a full ring leaves none.          *)
(***************************************************************************)
Leaked == {t \in Thread : ~InConnect(t) /\ inflight[t] # None}

RecordsLeakOnlyBySkips == Cardinality(Leaked) <= skipped

=============================================================================
