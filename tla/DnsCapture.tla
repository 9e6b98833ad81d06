------------------------------ MODULE DnsCapture ------------------------------
(***************************************************************************)
(* bpf/dns_capture.c: which frames that leave the bridge reach the agent,  *)
(* and how much of them.  The program runs for one frame at a time on each *)
(* processor and keeps nothing but the ring buffer.                        *)
(*                                                                         *)
(* A frame has the fields the program tests, the length of what it can     *)
(* read of it (data to data_end), and the DNS message after its UDP        *)
(* header.                                                                 *)
(***************************************************************************)
EXTENDS DnsMessage

CONSTANTS
    Frame,          \* frames on the bridge
    MaxPayload,     \* bytes of dns_event.payload (512)
    DnsRingCap      \* records the ring buffer holds

ASSUME CaptureAssumption ==
    /\ {MaxPayload, DnsRingCap} \subseteq Nat \ {0}
    /\ \A f \in Frame : /\ {f.len, f.ihl} \subseteq Nat
                        /\ IsMessage(f.msg)

VARIABLE dns_events

EthLen == 14
IpLen  == 20    \* of a struct iphdr: a header without options
UdpLen == 8

\* Mutant of IhlLen: no options are expected.
IhlLen_Fixed(f) == IpLen

IhlLen(f) == 4 * f.ihl

DnsOffset(f) == EthLen + IhlLen(f) + UdpLen

\* Mutant of PayloadLen: what the frame has, without the cap.
PayloadLen_Uncapped(f) == f.len - DnsOffset(f)

PayloadLen(f) == Min({f.len - DnsOffset(f), MaxPayload})

\* The tests of parse_ipv4_dns, each of which ends it.
IsDns(f) ==
    /\ f.len >= EthLen + IpLen /\ f.ethertype = "IPv4"
    /\ f.protocol = "UDP"
    /\ IhlLen(f) >= IpLen /\ f.len >= DnsOffset(f)
    /\ 53 \in {f.sport, f.dport}
    /\ PayloadLen(f) >= HeaderWidth

\* What is no DNS message reads as none.
Garbage == [response |-> FALSE, qdcount |-> 0, ancount |-> 0, body |-> <<>>]

\* The bytes from DnsOffset on, PayloadLen of them.
Payload == [f \in {g \in Frame : IsDns(g)} |->
               IF DnsOffset(f) = EthLen + 4 * f.ihl + UdpLen
               THEN Clip(f.msg, PayloadLen(f)) ELSE Garbage]

HasRoom == Len(dns_events) < DnsRingCap

\* The record is submitted.  When the ring is full, or bpf_skb_load_bytes
\* fails, the frame passes and nothing changes.
Capture(f) ==
    /\ f \in DOMAIN Payload /\ HasRoom
    /\ dns_events' = Append(dns_events, Payload[f])

=============================================================================
