------------------------------- MODULE DnsPath -------------------------------
(***************************************************************************)
(* From a DNS answer on the bridge to the name of a connection: the tracer *)
(* of bpf/dns_capture.c, its ring buffer, the collector's read loop        *)
(* (internal/dns/dns_response_collector.go) with ParseResponse and         *)
(* DNSRespHandler.Handle, and the cache, which the connect handler looks   *)
(* up at any time: nothing orders its ring buffer with this one.           *)
(***************************************************************************)
EXTENDS DnsCache, DnsCapture

CONSTANT MaxCaptured   \* bound: records submitted

ASSUME PathAssumption == MaxCaptured \in Nat

VARIABLES
    captured, taken,    \* history: records submitted and read
    latest              \* history: the domain of the last answer captured
                        \*   for an address

pathVars == <<cacheVars, dns_events, captured, taken, latest>>

\* ParseResponse for the payloads there are.
Responses == [record \in {Payload[f] : f \in DOMAIN Payload} |->
                 ParseResponse(record)]

PathTypeOK ==
    /\ TypeOK
    /\ Len(dns_events) <= DnsRingCap
    /\ \A i \in 1..Len(dns_events) : Bytes(dns_events[i].body) <= MaxPayload
    /\ captured \in 0..MaxCaptured
    /\ taken = captured - Len(dns_events)
    /\ latest \in [Address -> Domain \cup {None}]

PathInit ==
    /\ Init
    /\ dns_events = <<>>
    /\ captured = 0 /\ taken = 0
    /\ latest = [a \in Address |-> None]

-----------------------------------------------------------------------------
\* What a frame's message says as a whole, if it is one that the tracer can
\* read and the part of it in the payload can be understood.
Answer ==
    [f \in Frame |->
        LET room == Min({f.len - (14 + 4 * f.ihl + 8), MaxPayload})
        IN  IF /\ f.ethertype = "IPv4" /\ f.protocol = "UDP"
               /\ room >= HeaderWidth
               /\ ParseResponse(Clip(f.msg, room)) # Fail
            THEN ParseResponse(f.msg) ELSE Fail]

FrameCaptured(f) ==
    /\ captured < MaxCaptured
    /\ Capture(f)
    /\ captured' = captured + 1
    /\ latest' = LET said == Answer[f]
                 IN  [a \in Address |-> IF said # Fail /\ a \in said.ips
                                        THEN said.domain ELSE latest[a]]
    /\ UNCHANGED <<cacheVars, taken>>

\* Mutant of ReadRecord: the loop ends at a record it cannot use.
ReadRecord_Returns ==
    /\ adding = None /\ dns_events # <<>>
    /\ dns_events' = Tail(dns_events)
    /\ taken' = taken + 1
    /\ LET resp == Responses[Head(dns_events)]
       IN  resp # Fail /\ AddBegin(resp.domain, resp.ips, resp.ttl)
    /\ UNCHANGED <<captured, latest>>

\* readLoop up to the lock of Add; a record that is no answer is skipped.
ReadRecord ==
    /\ adding = None /\ dns_events # <<>>
    /\ dns_events' = Tail(dns_events)
    /\ taken' = taken + 1
    /\ LET resp == Responses[Head(dns_events)]
       IN  IF resp = Fail THEN UNCHANGED cacheVars
           ELSE AddBegin(resp.domain, resp.ips, resp.ttl)
    /\ UNCHANGED <<captured, latest>>

CacheStep ==
    /\ Tick \/ AddStore
          \/ AnyLookup \/ LookupHit \/ LookupExpired \/ LookupDelete
    /\ UNCHANGED <<dns_events, captured, taken, latest>>

PathNext == \/ \E f \in Frame : FrameCaptured(f)
            \/ ReadRecord
            \/ CacheStep

PathSpec == PathInit /\ [][PathNext]_pathVars

\* The Go scheduler runs the read loop when it has something to do.
FairPathSpec ==
    /\ PathSpec
    /\ WF_pathVars(ReadRecord)
    /\ WF_pathVars(AddStore /\ UNCHANGED <<dns_events, captured, taken, latest>>)

-----------------------------------------------------------------------------
\* An answer for a is in the ring buffer, or about to be stored.
Pending(a) ==
    \/ adding # None /\ a \in adding.ips
    \/ \E i \in 1..Len(dns_events) :
           LET resp == Responses[dns_events[i]]
           IN  resp # Fail /\ a \in resp.ips

(***************************************************************************)
(* A lookup of an address finds the domain of the last answer captured for *)
(* it; the only other possibilities are that the answer is still under     *)
(* way, has expired, or was deleted in place of an expired one.  So it is  *)
(* these, and a full ring, that make a flow be keyed by address.           *)
(***************************************************************************)
AnswersNameConnections ==
    \A a \in Address :
        latest[a] # None =>
            \/ Pending(a)
            \/ newest[a] # None /\ now > newest[a].expiry
            \/ a \in lost
            \/ ipToDomain[a] # None /\ ipToDomain[a].domain = latest[a]

(***************************************************************************)
(* Every record submitted is read, also behind records that do not parse.  *)
(***************************************************************************)
RecordsRead ==
    \A n \in 1..MaxCaptured : captured >= n ~> taken >= n

=============================================================================
