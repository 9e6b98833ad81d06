------------------------------ MODULE MCDnsPath ------------------------------
(* A small instance of the path from DNS answers to names, for TLC. *)
EXTENDS DnsPath

CONSTANTS ip1, ip2, web, db

\* A response for a domain of one label: each answer points at the question.
Response2(l, as, ttl) ==
    [response |-> TRUE, qdcount |-> 1, ancount |-> Len(as),
     body |-> <<Text(l), Root, Question>> \o
              FlattenSeq([i \in 1..Len(as) |->
                  <<Jump(1), Record(TRUE, ttl, 1), IP(as[i])>>])]

Query(l) ==
    [response |-> FALSE, qdcount |-> 1, ancount |-> 0,
     body |-> <<Text(l), Root, Question>>]

\* UDP frames from or to port 53, all of them in reach.
Udp(msg, ihl, sport, dport) ==
    [ethertype |-> "IPv4", protocol |-> "UDP", ihl |-> ihl,
     sport |-> sport, dport |-> dport,
     len |-> 14 + 4 * ihl + 8 + Bytes(msg.body), msg |-> msg]

Frames ==
    { Udp(Response2(web, <<ip1>>, 0), 5, 53, 4000),
      Udp(Response2(db, <<ip1>>, 1), 6, 53, 4000),
      Udp(Response2(web, <<ip2, ip1>>, 1), 5, 53, 4000),
      \* The third answer is beyond MaxPayload.
      Udp(Response2(db, <<ip1, ip2, ip2>>, 1), 5, 53, 4000),
      \* Its one answer is not, only what follows it.
      [Udp(Response2(db, <<ip2, ip1, ip1>>, 0), 5, 53, 4000)
           EXCEPT !.msg.ancount = 1],
      Udp(Query(web), 5, 4000, 53),
      [Udp(Response2(db, <<ip1>>, 1), 5, 53, 4000) EXCEPT !.protocol = "TCP"],
      [Udp(Response2(db, <<ip1>>, 1), 5, 53, 4000) EXCEPT !.ethertype = "IPv6"],
      \* Less than a DNS header can be read.
      [Udp(Response2(db, <<ip1>>, 1), 5, 53, 4000) EXCEPT !.len = 50] }

=============================================================================
