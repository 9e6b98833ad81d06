---------------------------- MODULE DnsPathProofs ----------------------------
(***************************************************************************)
(* From DNS answers to the names of connections, for any frames, names,    *)
(* addresses, TTLs and time: what the cache keeps and answers, that the    *)
(* path from the tracer uses it as it may be used, and what can keep a     *)
(* connection from the name of its last answer.                            *)
(***************************************************************************)
EXTENDS DnsPath, DnsMessageProofs, SequenceTheorems

\* The map has the newest answer, or none: then it has expired or was lost.
StoredInv ==
    \A a \in Address :
        \/ ipToDomain[a] = newest[a]
        \/ ipToDomain[a] = None /\ (now > newest[a].expiry \/ a \in lost)

\* Unless it was overtaken, Lookup's entry is the one in the map.
LookupInv ==
    /\ lpc # "idle" /\ ~overtaken => entry = ipToDomain[key]
    /\ lpc = "delete" => now > entry.expiry

CacheInv == TypeOK /\ StoredInv /\ LookupInv

\* None is no answer.
LEMMA NoneIsNoEntry == None \notin Entry /\ None \notin Response
BY CacheAssumption

\* The cache starts empty.
LEMMA InitCacheInv == Init => CacheInv
<1> SUFFICES ASSUME Init PROVE CacheInv
  OBVIOUS
<1>1. TypeOK
  BY DEF Init, TypeOK
<1>2. StoredInv
  BY DEF Init, StoredInv
<1>3. LookupInv
  BY DEF Init, LookupInv
<1> QED
  BY <1>1, <1>2, <1>3 DEF CacheInv

\* The clock only makes more answers expire.
LEMMA TickCacheInv == ASSUME CacheInv, Tick PROVE CacheInv'
<1>1. /\ now \in Nat /\ now' = now + 1
      /\ UNCHANGED <<ipToDomain, adding, lpc, key, entry, newest, overtaken,
                     lost>>
      /\ TypeOK /\ StoredInv /\ LookupInv
  BY DEF CacheInv, TypeOK, Tick
<1>2. TypeOK'
  BY <1>1 DEF TypeOK
<1>3. StoredInv'
  <2> SUFFICES ASSUME NEW a \in Address,
                      ipToDomain[a] # newest[a]
               PROVE  ipToDomain[a] = None
                      /\ (now' > newest[a].expiry \/ a \in lost)
    BY <1>1 DEF StoredInv
  <2>1. /\ ipToDomain[a] = None
        /\ newest[a] \in Entry
        /\ now > newest[a].expiry \/ a \in lost
    BY <1>1 DEF StoredInv, TypeOK
  <2> QED
    BY <1>1, <2>1 DEF Entry
<1>4. LookupInv'
  BY <1>1 DEF LookupInv, TypeOK, Entry
<1> QED
  BY <1>2, <1>3, <1>4 DEF CacheInv

\* What is being stored is the newest answer of its addresses, and Lookup is
\* overtaken if it is under way for one of them.
LEMMA AddCacheInv == ASSUME CacheInv, AnyAdd \/ AddStore PROVE CacheInv'
<1>1. TypeOK /\ StoredInv /\ LookupInv
  BY DEF CacheInv
<1>2. CASE AnyAdd
  <2>1. /\ UNCHANGED <<now, ipToDomain, lpc, key, entry, newest, overtaken,
                       lost>>
        /\ adding' \in Response
    <3>1. PICK d \in Domain, ips \in SUBSET Address, ttl \in TTL :
             AddBegin(d, ips, ttl)
      BY <1>2 DEF AnyAdd
    <3>2. now + Lifetime(ttl) \in Nat
      BY <1>1, TypesAssumption DEF TypeOK, Lifetime
    <3> QED
      BY <3>1, <3>2 DEF AddBegin, Response, Entry
  <2> QED
    BY <1>1, <2>1 DEF CacheInv, TypeOK, StoredInv, LookupInv
<1>3. CASE AddStore
  <2>1. /\ adding \in Response /\ adding.entry \in Entry
        /\ adding.ips \in SUBSET Address
        /\ adding' = None
        /\ UNCHANGED <<now, lpc, key, entry>>
    BY <1>1, <1>3 DEF AddStore, TypeOK, Response
  <2>2. /\ ipToDomain' = [a \in Address |-> IF a \in adding.ips
                                            THEN adding.entry
                                            ELSE ipToDomain[a]]
        /\ newest' = [a \in Address |-> IF a \in adding.ips
                                        THEN adding.entry ELSE newest[a]]
        /\ overtaken' = (overtaken \/ (lpc # "idle" /\ key \in adding.ips))
        /\ lost' = lost \ adding.ips
    BY <1>3 DEF AddStore, Stored
  <2>3. TypeOK'
    BY <1>1, <2>1, <2>2 DEF TypeOK
  <2>4. StoredInv'
    BY <1>1, <2>1, <2>2 DEF StoredInv
  <2>5. LookupInv'
    BY <1>1, <2>1, <2>2 DEF LookupInv, TypeOK
  <2> QED
    BY <2>3, <2>4, <2>5 DEF CacheInv
<1> QED
  BY <1>2, <1>3

\* Lookup's delete removes what has expired, or what overtook it.
LEMMA LookupCacheInv ==
    ASSUME CacheInv, AnyLookup \/ LookupHit \/ LookupExpired \/ LookupDelete
    PROVE  CacheInv'
<1>1. /\ TypeOK /\ StoredInv /\ LookupInv
      /\ UNCHANGED <<now, adding, newest>>
  BY DEF CacheInv, AnyLookup, LookupRead, LookupHit, LookupExpired,
         LookupDelete
<1>2. CASE AnyLookup
  <2>1. PICK a \in Address : LookupRead(a)
    BY <1>2 DEF AnyLookup
  <2>2. /\ lpc = "idle" /\ ipToDomain[a] # None
        /\ lpc' = "check" /\ key' = a /\ entry' = ipToDomain[a]
        /\ UNCHANGED <<ipToDomain, overtaken, lost>>
    BY <2>1 DEF LookupRead, Found
  <2> QED
    BY <1>1, <2>2 DEF CacheInv, TypeOK, StoredInv, LookupInv
<1>3. CASE LookupHit
  BY <1>1, <1>3
     DEF LookupHit, Return, CacheInv, TypeOK, StoredInv, LookupInv
<1>4. CASE LookupExpired
  BY <1>1, <1>4
     DEF LookupExpired, Expired, CacheInv, TypeOK, StoredInv, LookupInv
<1>5. CASE LookupDelete
  <2>1. /\ lpc = "delete" /\ lpc' = "idle" /\ overtaken' = FALSE
        /\ ipToDomain' = [ipToDomain EXCEPT ![key] = None]
        /\ lost' = IF overtaken THEN lost \cup {key} ELSE lost
    BY <1>5 DEF LookupDelete, Return
  <2>2. TypeOK' /\ LookupInv'
    BY <1>1, <2>1 DEF TypeOK, LookupInv
  <2>3. StoredInv'
    <3> SUFFICES ASSUME NEW a \in Address
                 PROVE  \/ ipToDomain'[a] = newest[a]
                        \/ /\ ipToDomain'[a] = None
                           /\ now > newest[a].expiry \/ a \in lost'
      BY <1>1 DEF StoredInv
    <3>1. CASE a # key
      BY <1>1, <2>1, <3>1 DEF TypeOK, StoredInv
    <3>2. CASE a = key /\ overtaken
      BY <1>1, <2>1, <3>2 DEF TypeOK
    <3>3. CASE a = key /\ ~overtaken
      <4>1. entry = ipToDomain[key] /\ now > entry.expiry /\ entry \in Entry
        BY <1>1, <2>1, <3>3 DEF LookupInv, TypeOK
      <4>2. ipToDomain[key] = newest[key]
        BY <1>1, <3>3, <4>1, NoneIsNoEntry DEF StoredInv
      <4> QED
        BY <1>1, <2>1, <3>3, <4>1, <4>2 DEF TypeOK
    <3> QED
      BY <3>1, <3>2, <3>3
  <2> QED
    BY <2>2, <2>3 DEF CacheInv
<1> QED
  BY <1>2, <1>3, <1>4, <1>5

\* Every step of the clock, of Add and of Lookup keeps the invariant.
LEMMA NextCacheInv == CacheInv /\ [Next]_cacheVars => CacheInv'
<1> SUFFICES ASSUME CacheInv, [Next]_cacheVars PROVE CacheInv'
  OBVIOUS
<1>1. CASE UNCHANGED cacheVars
  BY <1>1 DEF cacheVars, CacheInv, TypeOK, StoredInv, LookupInv
<1> QED
  BY <1>1, TickCacheInv, AddCacheInv, LookupCacheInv DEF Next

(***************************************************************************)
(* The types, the map against the newest answers, and Lookup's locals.     *)
(***************************************************************************)
THEOREM CacheInductive == Spec => []CacheInv
BY InitCacheInv, NextCacheInv, PTL DEF Spec

(***************************************************************************)
(* What Add stored is found until it has expired; only an answer stored    *)
(* between the two locks of a Lookup of its address is lost.               *)
(***************************************************************************)
LEMMA CacheKeepsLive == CacheInv => LiveAnswersKept
<1> SUFFICES ASSUME CacheInv, NEW a \in Address, Live(newest[a])
             PROVE  ipToDomain[a] = newest[a] \/ a \in lost
  BY DEF LiveAnswersKept
<1>1. now \in Nat /\ newest[a] \in Entry /\ now <= newest[a].expiry
  BY DEF CacheInv, TypeOK, Live
<1> QED
  BY <1>1 DEF CacheInv, StoredInv, Entry

(***************************************************************************)
(* An answer that Lookup returns has not expired, and is the newest unless *)
(* a newer one came while the lookup was under way.                        *)
(***************************************************************************)
LEMMA CacheHitsCurrent == Spec => HitsAreCurrent
<1>1. ASSUME CacheInv, LookupHit
      PROVE  Live(entry) /\ (entry = newest[key] \/ overtaken)
  <2>1. /\ lpc = "check" /\ now \in Nat /\ entry \in Entry /\ key \in Address
        /\ ~(now > entry.expiry)
    BY <1>1 DEF LookupHit, Expired, CacheInv, TypeOK
  <2>2. Live(entry)
    BY <2>1, NoneIsNoEntry DEF Live, Entry
  <2>3. ~overtaken => entry = newest[key]
    BY <1>1, <2>1, NoneIsNoEntry DEF CacheInv, StoredInv, LookupInv
  <2> QED
    BY <1>1, <2>2, <2>3 DEF CacheInv, TypeOK
<1>2. CacheInv /\ [Next]_cacheVars
        => [LookupHit => Live(entry) /\ (entry = newest[key] \/ overtaken)]_cacheVars
  BY <1>1
<1> QED
  BY <1>2, CacheInductive, PTL DEF Spec, HitsAreCurrent

-----------------------------------------------------------------------------
\* Min of the community modules, for two numbers.
LEMMA LesserOfTwo ==
    ASSUME NEW x \in Int, NEW y \in Int
    PROVE  Min({x, y}) \in {x, y} /\ Min({x, y}) <= x /\ Min({x, y}) <= y
<1>1. \E m \in {x, y} : \A k \in {x, y} : m <= k
  OBVIOUS
<1>2. Min({x, y}) = CHOOSE m \in {x, y} : \A k \in {x, y} : m <= k
  BY DEF Min
<1>3. Min({x, y}) \in {x, y} /\ \A k \in {x, y} : Min({x, y}) <= k
  BY <1>1, <1>2, Zenon
<1> QED
  BY <1>3

\* What the tracer cuts off a message it captures.
LEMMA PayloadIsClip ==
    ASSUME NEW f \in Frame, IsDns(f)
    PROVE  /\ f \in DOMAIN Payload /\ IsMessage(f.msg)
           /\ Payload[f] = Clip(f.msg, PayloadLen(f))
           /\ PayloadLen(f) \in Nat /\ PayloadLen(f) >= HeaderWidth
           /\ PayloadLen(f) <= MaxPayload
<1>1. f \in {g \in Frame : IsDns(g)}
  OBVIOUS
<1>2. /\ f.len \in Nat /\ f.ihl \in Nat /\ MaxPayload \in Nat
      /\ IsMessage(f.msg)
  BY CaptureAssumption
<1>3. DnsOffset(f) = EthLen + 4 * f.ihl + UdpLen /\ DnsOffset(f) \in Nat
  BY <1>2 DEF DnsOffset, IhlLen, EthLen, UdpLen
<1>4. /\ PayloadLen(f) \in Nat /\ PayloadLen(f) >= HeaderWidth
      /\ PayloadLen(f) <= MaxPayload
  <2>1. f.len >= DnsOffset(f) /\ PayloadLen(f) >= HeaderWidth
    BY DEF IsDns
  <2>2. f.len - DnsOffset(f) \in Nat
    BY <1>2, <1>3, <2>1
  <2>3. /\ PayloadLen(f) \in {f.len - DnsOffset(f), MaxPayload}
        /\ PayloadLen(f) <= MaxPayload
    <3>1. f.len - DnsOffset(f) \in Int /\ MaxPayload \in Int
      BY <1>2, <2>2
    <3> QED
      BY <3>1, LesserOfTwo, Zenon DEF PayloadLen
  <2> QED
    BY <1>2, <2>1, <2>2, <2>3
<1>5. Payload[f] = Clip(f.msg, PayloadLen(f))
  BY <1>1, <1>3 DEF Payload
<1> QED
  BY <1>1, <1>2, <1>4, <1>5 DEF Payload

\* A record's payload is no longer than the array it is loaded into.
LEMMA PayloadFits ==
    ASSUME NEW record \in DOMAIN Responses
    PROVE  Bytes(record.body) <= MaxPayload
<1>1. PICK f \in DOMAIN Payload : record = Payload[f]
  BY DEF Responses
<1>2. f \in Frame /\ IsDns(f)
  BY DEF Payload
<1>3. /\ record = Clip(f.msg, PayloadLen(f)) /\ IsMessage(f.msg)
      /\ PayloadLen(f) \in Nat /\ PayloadLen(f) >= HeaderWidth
      /\ PayloadLen(f) <= MaxPayload
  BY <1>1, <1>2, PayloadIsClip
<1>4. /\ Bytes(record.body) <= PayloadLen(f)
      /\ IsMessage(record)
  BY <1>3, ClipIsCut DEF Begins
<1>5. Bytes(record.body) \in Nat /\ MaxPayload \in Nat
  BY <1>4, MessageBody, BytesType, CaptureAssumption
<1> QED
  BY <1>3, <1>4, <1>5

\* What ParseResponse makes of a payload is what the message says as a whole,
\* if the frame can be read.
LEMMA PayloadSaysAnswer ==
    ASSUME NEW f \in DOMAIN Payload
    PROVE  /\ f \in Frame /\ IsDns(f)
           /\ Payload[f] \in DOMAIN Responses
           /\ Responses[Payload[f]] = Answer[f]
<1>1. f \in Frame /\ IsDns(f)
  BY DEF Payload
<1>2. Payload[f] \in DOMAIN Responses
      /\ Responses[Payload[f]] = ParseResponse(Payload[f])
  BY DEF Responses
<1> DEFINE room == Min({f.len - (14 + 4 * f.ihl + 8), MaxPayload})
<1>3. room = PayloadLen(f)
  <2>1. f.ihl \in Nat
    BY <1>1, CaptureAssumption
  <2>2. DnsOffset(f) = 14 + 4 * f.ihl + 8
    BY <2>1 DEF DnsOffset, IhlLen, EthLen, UdpLen
  <2> QED
    BY <2>2 DEF PayloadLen
<1>4. /\ Payload[f] = Clip(f.msg, room) /\ IsMessage(f.msg)
      /\ room \in Nat /\ room >= HeaderWidth
  BY <1>1, <1>3, PayloadIsClip
<1>5. ParseResponse(Clip(f.msg, room)) \in {Fail, ParseResponse(f.msg)}
  BY <1>4, ClippedAllOrNothing
<1>6. Answer[f] = IF ParseResponse(Clip(f.msg, room)) # Fail
                  THEN ParseResponse(f.msg) ELSE Fail
  <2>1. f.ethertype = "IPv4" /\ f.protocol = "UDP"
    BY <1>1 DEF IsDns
  <2>2. Answer[f] = IF /\ f.ethertype = "IPv4" /\ f.protocol = "UDP"
                       /\ room >= HeaderWidth
                       /\ ParseResponse(Clip(f.msg, room)) # Fail
                    THEN ParseResponse(f.msg) ELSE Fail
    BY <1>1 DEF Answer
  <2> QED
    BY <1>4, <2>1, <2>2
<1> QED
  BY <1>1, <1>2, <1>4, <1>5, <1>6

\* What the read loop takes from the ring buffer.
LEMMA ResponsesTyped ==
    ASSUME NEW record \in DOMAIN Responses, Responses[record] # Fail
    PROVE  /\ Responses[record].domain \in Domain
           /\ Responses[record].ips \in SUBSET Address
           /\ Responses[record].ips # {}
           /\ \E t \in TTL : Responses[record].ttl = EffectiveTTL(t)
<1>1. PICK f \in DOMAIN Payload : record = Payload[f]
  BY DEF Responses
<1>2. f \in Frame /\ IsDns(f) /\ Responses[record] = Answer[f]
  BY <1>1, PayloadSaysAnswer
<1>3. IsMessage(f.msg)
  BY <1>2, CaptureAssumption
<1>4. Answer[f] \in {Fail, ParseResponse(f.msg)}
  BY <1>2 DEF Answer
<1>5. Responses[record] = ParseResponse(f.msg)
  BY <1>2, <1>4
<1> QED
  BY <1>3, <1>5, ResponseTyped

-----------------------------------------------------------------------------
\* The ring buffer, and the counts of its records.
RingInv ==
    /\ dns_events \in Seq(DOMAIN Responses)
    /\ Len(dns_events) <= DnsRingCap
    /\ captured \in 0..MaxCaptured
    /\ taken = captured - Len(dns_events)
    /\ latest \in [Address -> Domain \cup {None}]

Says(i, a) == LET resp == Responses[dns_events[i]]
              IN  resp # Fail /\ a \in resp.ips

\* No record about a is in the ring buffer behind the first n.
NoneAfter(n, a) == \A i \in 1..Len(dns_events) : i > n => ~Says(i, a)

\* Of the answers about a that were captured, the last is the one that is
\* last in the ring buffer; if there is none in it, the one that is being
\* stored; if there is none, the newest in the cache.
LastAnswer(a) ==
    /\ \A i \in 1..Len(dns_events) :
          Says(i, a) /\ NoneAfter(i, a)
              => Responses[dns_events[i]].domain = latest[a]
    /\ NoneAfter(0, a) /\ adding # None /\ a \in adding.ips
              => adding.entry.domain = latest[a]
    /\ ~Pending(a) /\ latest[a] # None
              => newest[a] # None /\ newest[a].domain = latest[a]

OrderInv == \A a \in Address : LastAnswer(a)

PathInv == CacheInv /\ RingInv /\ OrderInv

\* An answer is under way: it is being stored, or in the ring buffer.
LEMMA PendingMeans ==
    ASSUME NEW a
    PROVE  Pending(a) <=> \/ adding # None /\ a \in adding.ips
                          \/ ~NoneAfter(0, a)
<1>1. \A i \in 1..Len(dns_events) : i > 0
  OBVIOUS
<1> QED
  BY <1>1 DEF Pending, NoneAfter, Says

\* Nothing has been captured, nothing stored.
LEMMA InitPathInv == PathInit => PathInv
<1> SUFFICES ASSUME PathInit PROVE PathInv
  OBVIOUS
<1>1. CacheInv
  BY InitCacheInv DEF PathInit
<1>2. dns_events \in Seq(DOMAIN Responses) /\ Len(dns_events) = 0
  BY DEF PathInit
<1>3. RingInv
  <2>1. captured = 0 /\ taken = 0 /\ latest = [a \in Address |-> None]
    BY DEF PathInit
  <2>2. 0 \in 0..MaxCaptured /\ 0 <= DnsRingCap /\ 0 = 0 - 0
    BY CaptureAssumption, PathAssumption
  <2> QED
    BY <1>2, <2>1, <2>2 DEF RingInv
<1>4. OrderInv
  BY <1>2 DEF PathInit, Init, OrderInv, LastAnswer
<1> QED
  BY <1>1, <1>3, <1>4 DEF PathInv

\* A frame is captured: it is the last of all answers about its addresses.
LEMMA FrameCapturedInv ==
    ASSUME PathInv, NEW f \in Frame, FrameCaptured(f)
    PROVE  PathInv'
<1>1. /\ f \in DOMAIN Payload /\ Len(dns_events) < DnsRingCap
      /\ dns_events' = Append(dns_events, Payload[f])
      /\ captured < MaxCaptured /\ captured' = captured + 1
      /\ UNCHANGED <<cacheVars, taken>>
  BY DEF FrameCaptured, Capture, HasRoom
<1>2. /\ Payload[f] \in DOMAIN Responses
      /\ Responses[Payload[f]] = Answer[f]
  BY <1>1, PayloadSaysAnswer
<1>3. PICK n, said : n = Len(dns_events) /\ said = Answer[f]
  OBVIOUS
<1>4. latest' = [a \in Address |-> IF said # Fail /\ a \in said.ips
                                   THEN said.domain ELSE latest[a]]
  BY <1>3 DEF FrameCaptured
<1>5. /\ n \in Nat /\ dns_events' \in Seq(DOMAIN Responses)
      /\ Len(dns_events') = n + 1 /\ dns_events'[n + 1] = Payload[f]
      /\ \A i \in 1..n : dns_events'[i] = dns_events[i]
  BY <1>1, <1>2, <1>3 DEF PathInv, RingInv
<1>6. CacheInv'
  BY <1>1, NextCacheInv DEF PathInv, cacheVars
<1>7. RingInv'
  <2>1. latest' \in [Address -> Domain \cup {None}]
    <3>1. said # Fail => said.domain \in Domain
      BY <1>2, <1>3, ResponsesTyped
    <3> QED
      BY <1>4, <3>1 DEF PathInv, RingInv
  <2>2. captured \in Nat /\ captured' \in 0..MaxCaptured /\ DnsRingCap \in Nat
    BY <1>1, PathAssumption, CaptureAssumption DEF PathInv, RingInv
  <2>3. Len(dns_events') <= DnsRingCap /\ taken' = captured' - Len(dns_events')
    BY <1>1, <1>3, <1>5, <2>2 DEF PathInv, RingInv
  <2> QED
    BY <1>5, <2>1, <2>2, <2>3 DEF RingInv
<1>8. ASSUME NEW a \in Address PROVE LastAnswer(a)'
  <2>1. /\ adding' = adding /\ newest' = newest /\ LastAnswer(a)
    BY <1>1 DEF cacheVars, PathInv, OrderInv
  <2>2. Says(n + 1, a)' <=> said # Fail /\ a \in said.ips
    BY <1>2, <1>3, <1>5 DEF Says
  <2>3. \A i \in 1..n : /\ Says(i, a)' <=> Says(i, a)
                        /\ i \in 1..n + 1 /\ n + 1 > i /\ i # n + 1
    <3>1. \A i \in 1..n : Says(i, a)' <=> Says(i, a)
      BY <1>5 DEF Says
    <3> QED
      BY <1>5, <3>1
  <2>4. n + 1 \in 1..n + 1 /\ n + 1 > 0
        /\ \A i \in 1..n + 1 : i \in 1..n \/ i = n + 1
    BY <1>5
  <2>5. CASE said # Fail /\ a \in said.ips
    <3>1. latest'[a] = said.domain
      BY <1>4, <2>5
    <3>2. Says(n + 1, a)' /\ ~NoneAfter(0, a)'
      BY <1>5, <2>2, <2>4, <2>5 DEF NoneAfter
    <3>3. ASSUME NEW i \in 1..n PROVE ~NoneAfter(i, a)'
      BY <1>5, <2>3, <2>4, <3>2 DEF NoneAfter
    <3>4. Pending(a)'
      <4>1. \E i \in 1..Len(dns_events') :
               LET resp == Responses[dns_events'[i]]
               IN  resp # Fail /\ a \in resp.ips
        BY <1>5, <2>4, <3>2 DEF Says
      <4> QED
        BY <4>1 DEF Pending
    <3> QED
      BY <1>2, <1>3, <1>5, <2>4, <3>1, <3>2, <3>3, <3>4 DEF LastAnswer
  <2>6. CASE ~(said # Fail /\ a \in said.ips)
    <3>1. latest'[a] = latest[a] /\ ~Says(n + 1, a)'
      BY <1>4, <2>2, <2>6
    <3>2. ASSUME NEW k \in 0..n PROVE NoneAfter(k, a)' <=> NoneAfter(k, a)
      BY <1>3, <1>5, <2>3, <2>4, <3>1 DEF NoneAfter
    <3>3. Pending(a)' <=> Pending(a)
      <4>1. Pending(a) <=> \/ adding # None /\ a \in adding.ips
                           \/ \E i \in 1..n : Says(i, a)
        BY <1>3 DEF Pending, Says
      <4>2. Pending(a)' <=> \/ adding # None /\ a \in adding.ips
                            \/ \E i \in 1..n + 1 : Says(i, a)'
        BY <1>5, <2>1 DEF Pending, Says
      <4> QED
        BY <2>3, <2>4, <3>1, <4>1, <4>2
    <3>4. 0 \in 0..n /\ \A i \in 1..n : i \in 0..n
      BY <1>5
    <3>5. ASSUME NEW i \in 1..n + 1, Says(i, a)', NoneAfter(i, a)'
          PROVE  Responses[dns_events'[i]].domain = latest'[a]
      <4>1. i \in 1..n /\ Says(i, a) /\ NoneAfter(i, a)
        BY <2>3, <2>4, <3>1, <3>2, <3>4, <3>5
      <4> QED
        BY <1>3, <1>5, <2>1, <3>1, <4>1 DEF LastAnswer
    <3> QED
      BY <1>5, <2>1, <3>1, <3>2, <3>3, <3>4, <3>5 DEF LastAnswer
  <2> QED
    BY <2>5, <2>6
<1> QED
  BY <1>6, <1>7, <1>8 DEF PathInv, OrderInv

\* The read loop gives Add only what it may be given.
LEMMA ReadRecordIsAdd == ASSUME PathInv, ReadRecord PROVE [Next]_cacheVars
<1>1. PICK resp : resp = Responses[Head(dns_events)]
  OBVIOUS
<1>2. Head(dns_events) \in DOMAIN Responses
  BY DEF ReadRecord, PathInv, RingInv
<1>3. CASE resp = Fail
  BY <1>1, <1>3 DEF ReadRecord
<1>4. CASE resp # Fail
  <2>1. AddBegin(resp.domain, resp.ips, resp.ttl)
    BY <1>1, <1>4 DEF ReadRecord
  <2>2. PICK t \in TTL : /\ resp.domain \in Domain
                         /\ resp.ips \in SUBSET Address
                         /\ resp.ttl = EffectiveTTL(t)
    BY <1>1, <1>2, <1>4, ResponsesTyped
  <2>3. Lifetime(resp.ttl) = Lifetime(t)
    BY <2>2, TypesAssumption DEF Lifetime, EffectiveTTL
  <2>4. AddBegin(resp.domain, resp.ips, t)
    BY <2>1, <2>3 DEF AddBegin
  <2> QED
    BY <2>2, <2>4 DEF AnyAdd, Next
<1> QED
  BY <1>3, <1>4

\* The read loop takes the first record: if it is an answer, that is the one
\* that Add is about to store.
LEMMA ReadRecordInv == ASSUME PathInv, ReadRecord PROVE PathInv'
<1>1. PICK n, resp : /\ n = Len(dns_events)
                     /\ resp = Responses[Head(dns_events)]
  OBVIOUS
<1>2. /\ dns_events \in Seq(DOMAIN Responses) /\ dns_events # <<>>
      /\ adding = None /\ taken' = taken + 1
      /\ dns_events' = Tail(dns_events)
      /\ UNCHANGED <<captured, latest>>
  BY DEF ReadRecord, PathInv, RingInv
<1>3. /\ n \in Nat /\ n > 0 /\ Head(dns_events) = dns_events[1]
      /\ dns_events[1] \in DOMAIN Responses
      /\ dns_events' \in Seq(DOMAIN Responses) /\ Len(dns_events') = n - 1
      /\ \A i \in 1..n - 1 : dns_events'[i] = dns_events[i + 1]
  BY <1>1, <1>2
<1>4. \/ resp = Fail /\ UNCHANGED cacheVars
      \/ resp # Fail /\ AddBegin(resp.domain, resp.ips, resp.ttl)
  BY <1>1 DEF ReadRecord
<1>5. /\ newest' = newest
      /\ \/ resp = Fail /\ adding' = None
         \/ /\ resp # Fail /\ adding' # None
            /\ adding'.ips = resp.ips /\ adding'.entry.domain = resp.domain
  <2>1. CASE resp = Fail
    BY <1>2, <1>4, <2>1 DEF cacheVars
  <2>2. CASE resp # Fail
    <3>1. AddBegin(resp.domain, resp.ips, resp.ttl)
      BY <1>4, <2>2
    <3>2. adding' = [entry |-> [domain |-> resp.domain,
                                expiry |-> now + Lifetime(resp.ttl)],
                     ips   |-> resp.ips]
          /\ newest' = newest
      BY <3>1 DEF AddBegin
    <3>3. adding' # None
      <4>1. /\ now + Lifetime(resp.ttl) \in Nat
            /\ resp.domain \in Domain /\ resp.ips \in SUBSET Address
        <5>1. resp.ttl \in Nat
          BY <1>1, <1>3, <2>2, ResponsesTyped, TypesAssumption
             DEF EffectiveTTL
        <5> QED
          BY <1>1, <1>3, <2>2, <5>1, ResponsesTyped, TypesAssumption
             DEF Lifetime, PathInv, CacheInv, TypeOK
      <4> QED
        BY <3>2, <4>1, NoneIsNoEntry DEF Response, Entry
    <3> QED
      BY <2>2, <3>2, <3>3
  <2> QED
    BY <2>1, <2>2
<1>6. [Next]_cacheVars
  BY ReadRecordIsAdd
<1>7. CacheInv'
  BY <1>6, NextCacheInv DEF PathInv
<1>8. RingInv'
  <2>1. /\ captured \in 0..MaxCaptured /\ DnsRingCap \in Nat /\ n <= DnsRingCap
        /\ taken = captured - n /\ latest \in [Address -> Domain \cup {None}]
    BY <1>1, CaptureAssumption DEF PathInv, RingInv
  <2>2. n - 1 <= DnsRingCap /\ taken + 1 = captured - (n - 1)
    BY <1>3, <2>1, PathAssumption
  <2> QED
    BY <1>2, <1>3, <2>1, <2>2 DEF RingInv
<1>9. ASSUME NEW a \in Address PROVE LastAnswer(a)'
  <2>1. /\ LastAnswer(a) /\ latest'[a] = latest[a] /\ newest'[a] = newest[a]
    BY <1>2, <1>5 DEF PathInv, OrderInv
  <2>2. Says(1, a) <=> resp # Fail /\ a \in resp.ips
    BY <1>1, <1>3 DEF Says
  <2>3. \A i \in 1..n - 1 : i + 1 \in 1..n /\ (Says(i, a)' <=> Says(i + 1, a))
    BY <1>3 DEF Says
  <2>4. \A i \in 1..n : i = 1 \/ (i - 1 \in 1..n - 1 /\ (i - 1) + 1 = i)
    BY <1>3
  <2>5. ASSUME NEW k \in 0..n - 1
        PROVE  NoneAfter(k, a)' <=> NoneAfter(k + 1, a)
    <3>1. NoneAfter(k, a)' <=> \A i \in 1..n - 1 : i > k => ~Says(i, a)'
      BY <1>3 DEF NoneAfter
    <3>2. NoneAfter(k + 1, a) <=> \A i \in 1..n : i > k + 1 => ~Says(i, a)
      BY <1>1 DEF NoneAfter
    <3>3. ~(1 > k + 1) /\ \A i \in 1..n : i > k + 1 => i - 1 > k
      BY <1>3
    <3>4. \A i \in 1..n - 1 : i > k => i + 1 > k + 1
      BY <1>3
    <3> QED
      BY <2>3, <2>4, <3>1, <3>2, <3>3, <3>4
  <2>6. 0 \in 0..n - 1 /\ 1 \in 1..n /\ (\A i \in 1..n - 1 : i \in 0..n - 1)
        /\ 0 + 1 = 1
    BY <1>3
  <2>7. ASSUME NEW i \in 1..n - 1, Says(i, a)', NoneAfter(i, a)'
        PROVE  Responses[dns_events'[i]].domain = latest'[a]
    <3>1. i + 1 \in 1..n /\ Says(i + 1, a) /\ NoneAfter(i + 1, a)
      BY <2>3, <2>5, <2>6, <2>7
    <3> QED
      BY <1>1, <1>3, <2>1, <3>1 DEF LastAnswer
  <2>8. ASSUME NoneAfter(0, a)', adding' # None, a \in adding'.ips
        PROVE  adding'.entry.domain = latest'[a]
    <3>1. resp # Fail /\ a \in resp.ips /\ adding'.entry.domain = resp.domain
      BY <1>5, <2>8
    <3>2. Says(1, a) /\ NoneAfter(1, a)
      BY <2>2, <2>5, <2>6, <2>8, <3>1
    <3>3. Responses[dns_events[1]].domain = latest[a]
      BY <1>1, <2>1, <2>6, <3>2 DEF LastAnswer
    <3> QED
      BY <1>1, <1>3, <2>1, <3>1, <3>3
  <2>9. ASSUME ~Pending(a)' PROVE ~Pending(a)
    <3>1. NoneAfter(0, a)' /\ ~(adding' # None /\ a \in adding'.ips)
      <4>1. ~(adding' # None /\ a \in adding'.ips)
        BY <2>9 DEF Pending
      <4>2. \A i \in 1..Len(dns_events') : ~Says(i, a)'
        BY <2>9 DEF Pending, Says
      <4> QED
        BY <4>1, <4>2 DEF NoneAfter
    <3>2. ~Says(1, a)
      BY <1>5, <2>2, <3>1
    <3>3. NoneAfter(1, a)
      BY <2>5, <2>6, <3>1
    <3>4. \A i \in 1..n : i = 1 \/ i > 1
      BY <1>3
    <3>5. \A i \in 1..Len(dns_events) : ~Says(i, a)
      BY <1>1, <3>2, <3>3, <3>4 DEF NoneAfter
    <3> QED
      BY <1>2, <3>5 DEF Pending, Says
  <2> QED
    BY <1>3, <2>1, <2>7, <2>8, <2>9 DEF LastAnswer
<1> QED
  BY <1>7, <1>8, <1>9 DEF PathInv, OrderInv

\* A step of the clock, of Add or of Lookup: what was being stored becomes
\* the newest answer.
LEMMA CacheStepInv == ASSUME PathInv, CacheStep PROVE PathInv'
<1>1. UNCHANGED <<dns_events, captured, taken, latest>> /\ [Next]_cacheVars
  BY DEF CacheStep, Next
<1>2. CacheInv'
  BY <1>1, NextCacheInv DEF PathInv
<1>3. RingInv'
  BY <1>1 DEF PathInv, RingInv
<1>4. ASSUME NEW a \in Address PROVE LastAnswer(a)'
  <2>1. LastAnswer(a) /\ \A i : Says(i, a)' <=> Says(i, a)
    BY <1>1 DEF PathInv, OrderInv, Says
  <2>2. \A k : NoneAfter(k, a)' <=> NoneAfter(k, a)
    BY <1>1, <2>1 DEF NoneAfter
  <2>3. CASE AddStore
    <3>1. /\ adding # None /\ adding' = None
          /\ newest'[a] = IF a \in adding.ips THEN adding.entry ELSE newest[a]
      BY <2>3 DEF AddStore
    <3>2. adding.entry # None
      BY <3>1, NoneIsNoEntry DEF PathInv, CacheInv, TypeOK, Response
    <3>3. ASSUME ~Pending(a)' PROVE NoneAfter(0, a)
      BY <1>1, <3>3 DEF Pending, NoneAfter, Says
    <3>4. ASSUME NoneAfter(0, a), a \notin adding.ips PROVE ~Pending(a)
      BY <3>4, PendingMeans
    <3> QED
      BY <1>1, <2>1, <2>2, <3>1, <3>2, <3>3, <3>4 DEF LastAnswer
  <2>4. CASE ~AddStore
    <3>1. UNCHANGED <<adding, newest>>
      BY <2>4 DEF CacheStep, Tick, AnyLookup, LookupRead, LookupHit,
                  LookupExpired, LookupDelete
    <3>2. Pending(a)' <=> Pending(a)
      BY <1>1, <3>1 DEF Pending
    <3> QED
      BY <1>1, <2>1, <2>2, <3>1, <3>2 DEF LastAnswer
  <2> QED
    BY <2>3, <2>4
<1> QED
  BY <1>2, <1>3, <1>4 DEF PathInv, OrderInv

\* Every step of the path keeps the invariant.
LEMMA NextPathInv == PathInv /\ [PathNext]_pathVars => PathInv'
<1> SUFFICES ASSUME PathInv, [PathNext]_pathVars PROVE PathInv'
  OBVIOUS
<1>1. CASE UNCHANGED pathVars
  <2>1. UNCHANGED <<dns_events, captured, taken, latest>>
        /\ UNCHANGED cacheVars /\ UNCHANGED <<adding, newest>>
    BY <1>1 DEF pathVars, cacheVars
  <2>2. CacheInv'
    BY <2>1, NextCacheInv DEF PathInv
  <2> QED
    BY <2>1, <2>2 DEF PathInv, RingInv, OrderInv, LastAnswer, NoneAfter, Says,
                      Pending
<1> QED
  BY <1>1, FrameCapturedInv, ReadRecordInv, CacheStepInv DEF PathNext

(***************************************************************************)
(* Along the path from the tracer to the cache: the cache's invariant, the *)
(* ring buffer's counts, and where the last answer about an address is.    *)
(***************************************************************************)
THEOREM PathInductive == PathSpec => []PathInv
BY InitPathInv, NextPathInv, PTL DEF PathSpec

(***************************************************************************)
(* The path uses the cache as it may be used: only with names, addresses   *)
(* and TTLs of answers, and never a second Add before the first is done.   *)
(***************************************************************************)
THEOREM PathImplementsCache == PathSpec => Spec
<1>1. PathInit => Init
  BY DEF PathInit
<1>2. PathInv /\ [PathNext]_pathVars => [Next]_cacheVars
  <2> SUFFICES ASSUME PathInv, [PathNext]_pathVars PROVE [Next]_cacheVars
    OBVIOUS
  <2>1. CASE UNCHANGED pathVars
    BY <2>1 DEF pathVars
  <2>2. ASSUME NEW f \in Frame, FrameCaptured(f) PROVE [Next]_cacheVars
    BY <2>2 DEF FrameCaptured
  <2>3. CASE ReadRecord
    BY <2>3, ReadRecordIsAdd
  <2>4. CASE CacheStep
    BY <2>4 DEF CacheStep, Next
  <2> QED
    BY <2>1, <2>2, <2>3, <2>4 DEF PathNext
<1> QED
  BY <1>1, <1>2, PathInductive, PTL DEF PathSpec, Spec

(***************************************************************************)
(* Types: no record is longer than its payload array, and records are read *)
(* as often as they are taken from the ring buffer.                        *)
(***************************************************************************)
THEOREM PathAlwaysTyped == PathSpec => []PathTypeOK
<1>1. PathInv => PathTypeOK
  <2>1. PathInv =>
          \A i \in 1..Len(dns_events) : Bytes(dns_events[i].body) <= MaxPayload
    <3>1. ASSUME PathInv, NEW i \in 1..Len(dns_events)
          PROVE  dns_events[i] \in DOMAIN Responses
      BY <3>1 DEF PathInv, RingInv
    <3> QED
      BY <3>1, PayloadFits
  <2> QED
    BY <2>1 DEF PathInv, CacheInv, RingInv, PathTypeOK
<1> QED
  BY <1>1, PathInductive, PTL

(***************************************************************************)
(* What Add stored is found until it has expired; only an answer stored    *)
(* between the two locks of a Lookup of its address is lost.               *)
(***************************************************************************)
THEOREM LiveAnswersAlwaysKept == PathSpec => []LiveAnswersKept
BY CacheKeepsLive, PathInductive, PTL DEF PathInv

(***************************************************************************)
(* An answer that Lookup returns has not expired, and is the newest unless *)
(* a newer one came while the lookup was under way.                        *)
(***************************************************************************)
THEOREM HitsAlwaysCurrent == PathSpec => HitsAreCurrent
BY PathImplementsCache, CacheHitsCurrent

(***************************************************************************)
(* A lookup finds the domain of the last answer that was captured for its  *)
(* address, unless that is under way, has expired, or was lost.            *)
(***************************************************************************)
THEOREM AnswersAlwaysNameConnections == PathSpec => []AnswersNameConnections
<1>1. ASSUME PathInv, NEW a \in Address, latest[a] # None
      PROVE  \/ Pending(a)
             \/ newest[a] # None /\ now > newest[a].expiry
             \/ a \in lost
             \/ ipToDomain[a] # None /\ ipToDomain[a].domain = latest[a]
  <2> SUFFICES ASSUME ~Pending(a)
               PROVE  \/ newest[a] # None /\ now > newest[a].expiry
                      \/ a \in lost
                      \/ /\ ipToDomain[a] # None
                         /\ ipToDomain[a].domain = latest[a]
    OBVIOUS
  <2>1. newest[a] # None /\ newest[a].domain = latest[a]
    BY <1>1 DEF PathInv, OrderInv, LastAnswer
  <2> QED
    BY <1>1, <2>1 DEF PathInv, CacheInv, StoredInv
<1>2. PathInv => AnswersNameConnections
  BY <1>1 DEF AnswersNameConnections
<1> QED
  BY <1>2, PathInductive, PTL

=============================================================================
