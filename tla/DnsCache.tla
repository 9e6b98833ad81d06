------------------------------ MODULE DnsCache ------------------------------
(***************************************************************************)
(* internal/dns/dns_cache.go under its two users: the DNS collector's read *)
(* loop hands each response to Add, the connect handler asks Lookup for    *)
(* the name of a destination.                                              *)
(*                                                                         *)
(* A step ends where the cache's mutex is released or the clock has been   *)
(* read.  Lookup holds the lock once to read and once to delete; Add       *)
(* computes the expiry before it waits for the lock.                       *)
(***************************************************************************)
EXTENDS DnsTypes

CONSTANTS
    None,           \* no entry
    MaxTime         \* bound

Entry    == [domain: Domain, expiry: Nat]
Response == [entry: Entry, ips: SUBSET Address]

ASSUME CacheAssumption ==
    /\ MaxTime \in Nat
    /\ None \notin Entry \cup Response

VARIABLES
    now,
    ipToDomain,
    adding,         \* the response that Add is about to store, or None
    lpc,            \* Lookup: "idle", "check" or "delete"
    key, entry,     \* its locals
    newest,         \* history: the last answer stored for an address
    overtaken,      \* history: key was stored since Lookup read it
    lost            \* history: addresses whose answer was deleted because
                    \*   it overtook a lookup

cacheVars ==
    <<now, ipToDomain, adding, lpc, key, entry, newest, overtaken, lost>>

TypeOK ==
    /\ now \in Nat
    /\ ipToDomain \in [Address -> Entry \cup {None}]
    /\ adding \in Response \cup {None}
    /\ lpc \in {"idle", "check", "delete"}
    /\ lpc # "idle" => key \in Address /\ entry \in Entry
    /\ newest \in [Address -> Entry \cup {None}]
    /\ overtaken \in BOOLEAN
    /\ lost \subseteq Address

Init ==
    /\ now = 0
    /\ ipToDomain = [a \in Address |-> None]
    /\ adding = None
    /\ lpc = "idle" /\ key = None /\ entry = None
    /\ newest = [a \in Address |-> None]
    /\ overtaken = FALSE
    /\ lost = {}

Tick == /\ now < MaxTime
        /\ now' = now + 1
        /\ UNCHANGED <<ipToDomain, adding, lpc, key, entry, newest, overtaken,
                       lost>>

-----------------------------------------------------------------------------
\* Mutant of Expired: the last second of an answer is taken away.
Expired_OneEarly(e) == now >= e.expiry

\* time.Now().After(e.Expiry)
Expired(e) == now > e.expiry

Lifetime(ttl) == IF ttl = 0 THEN DefaultTTL ELSE ttl

\* Add up to the lock; Handle gives it at least one address.
AddBegin(d, ips, ttl) ==
    /\ adding = None
    /\ ips # {}
    /\ adding' = [entry |-> [domain |-> d, expiry |-> now + Lifetime(ttl)],
                  ips   |-> ips]
    /\ UNCHANGED <<now, ipToDomain, lpc, key, entry, newest, overtaken, lost>>

\* Mutant of Stored: an address keeps its first name until that has expired.
Stored_KeepsLive(a) ==
    IF ipToDomain[a] # None /\ ~Expired(ipToDomain[a])
    THEN ipToDomain[a] ELSE adding.entry

Stored(a) == adding.entry

\* Add under the lock.
AddStore ==
    /\ adding # None
    /\ ipToDomain' = [a \in Address |-> IF a \in adding.ips THEN Stored(a)
                                        ELSE ipToDomain[a]]
    /\ newest' = [a \in Address |-> IF a \in adding.ips THEN adding.entry
                                    ELSE newest[a]]
    /\ overtaken' = (overtaken \/ (lpc # "idle" /\ key \in adding.ips))
    /\ lost' = lost \ adding.ips
    /\ adding' = None
    /\ UNCHANGED <<now, lpc, key, entry>>

-----------------------------------------------------------------------------
Return == lpc' = "idle" /\ key' = None /\ entry' = None /\ overtaken' = FALSE

Found(a) == ipToDomain[a] # None

\* Lookup under the read lock; an unknown address is a miss.
LookupRead(a) ==
    /\ lpc = "idle"
    /\ Found(a)
    /\ lpc' = "check" /\ key' = a /\ entry' = ipToDomain[a]
    /\ UNCHANGED <<now, ipToDomain, adding, newest, overtaken, lost>>

LookupHit ==
    /\ lpc = "check"
    /\ ~Expired(entry)
    /\ Return
    /\ UNCHANGED <<now, ipToDomain, adding, newest, lost>>

LookupExpired ==
    /\ lpc = "check"
    /\ Expired(entry)
    /\ lpc' = "delete"
    /\ UNCHANGED <<now, ipToDomain, adding, key, entry, newest, overtaken,
                   lost>>

\* delete(c.ipToDomain, key): whatever is there by now.
LookupDelete ==
    /\ lpc = "delete"
    /\ ipToDomain' = [ipToDomain EXCEPT ![key] = None]
    /\ lost' = IF overtaken THEN lost \cup {key} ELSE lost
    /\ Return
    /\ UNCHANGED <<now, adding, newest>>

-----------------------------------------------------------------------------
AnyAdd    == \E d \in Domain, ips \in SUBSET Address, ttl \in TTL :
                AddBegin(d, ips, ttl)
AnyLookup == \E a \in Address : LookupRead(a)

Next == \/ Tick
        \/ AnyAdd \/ AddStore
        \/ AnyLookup \/ LookupHit \/ LookupExpired \/ LookupDelete

Spec == Init /\ [][Next]_cacheVars

Live(e) == e # None /\ now <= e.expiry

(***************************************************************************)
(* A lookup answers with the newest answer for its address, or with the    *)
(* one a newer answer replaced while the lookup was under way; and the     *)
(* answer has not expired.                                                 *)
(***************************************************************************)
HitsAreCurrent ==
    [][LookupHit => Live(entry) /\ (entry = newest[key] \/ overtaken)]_cacheVars

(***************************************************************************)
(* What Add stored is found until it has expired, whatever lookups delete. *)
(* The one exception is an answer stored between the two locks of a Lookup *)
(* of its address: it is deleted in place of the expired one, and the      *)
(* address has no name until it is answered again.                         *)
(***************************************************************************)
LiveAnswersKept ==
    \A a \in Address :
        Live(newest[a]) => ipToDomain[a] = newest[a] \/ a \in lost

=============================================================================
