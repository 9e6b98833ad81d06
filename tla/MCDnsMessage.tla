---------------------------- MODULE MCDnsMessage ----------------------------
(***************************************************************************)
(* Every small message a DNS server can write: questions, then answers,    *)
(* with names that end in a zero byte or in a pointer into a name before   *)
(* them, or into themselves, which is an error.  Beside the message the    *)
(* server keeps what it means.                                             *)
(***************************************************************************)
EXTENDS DnsMessage

CONSTANTS MaxQuestions, MaxAnswers, MaxCells

VARIABLES
    msg,
    means,      \* of a position where a name or its rest starts: its labels,
    ends,       \*   or Fail, and the position after it
    written     \* the last question's name and the A records; Fail if a
                \*   name on the way cannot be read

\* What a message means, short of an error.
Meant == [qname: Seq(Label), found: SUBSET [ip: Address, ttl: TTL]]

ASSUME WriterAssumption ==
    /\ {MaxQuestions, MaxAnswers, MaxCells} \subseteq Nat
    /\ Fail \notin Meant

msgVars == <<msg, means, ends, written>>

NoMessage == [response |-> TRUE, qdcount |-> 0, ancount |-> 0, body |-> <<>>]

MsgInit ==
    /\ msg = NoMessage
    /\ means = <<>> /\ ends = <<>>
    /\ written = [qname |-> <<>>, found |-> {}]

\* A name of at most one label before its end.
Prefix == {<<>>} \cup {<<Text(l)>> : l \in Label}

\* The names that can be written next, with their meanings.
Names ==
    LET here == Len(msg.body)
    IN  { [cells |-> p \o <<Root>>, rest |-> <<>>] : p \in Prefix } \cup
        { [cells |-> p \o <<Jump(o)>>,
           rest |-> IF o \in DOMAIN means THEN means[o] ELSE Fail] :
             p \in Prefix, o \in DOMAIN means \cup {here + 1} }

Labels(cells) == [i \in 1..Len(cells) - 1 |-> cells[i].text]

\* What the name means from its i-th cell on.
Meaning(name, i) ==
    IF name.rest = Fail THEN Fail
    ELSE SubSeq(Labels(name.cells), i, Len(name.cells) - 1) \o name.rest

WriteName(name) ==
    LET here == Len(msg.body)
        at   == here + 1 .. here + Len(name.cells)
    IN  /\ means' = [o \in DOMAIN means \cup at |->
                        IF o \in at THEN Meaning(name, o - here) ELSE means[o]]
        /\ ends' = [o \in DOMAIN ends \cup at |->
                        IF o \in at THEN here + Len(name.cells) + 1 ELSE ends[o]]

AddQuestion(name) ==
    /\ msg.qdcount < MaxQuestions /\ msg.ancount = 0
    /\ WriteName(name)
    /\ msg' = [msg EXCEPT !.qdcount = @ + 1,
                          !.body = @ \o name.cells \o <<Question>>]
    /\ written' = IF written = Fail \/ Meaning(name, 1) = Fail THEN Fail
                  ELSE [written EXCEPT !.qname = Meaning(name, 1)]

AddA(name, a, ttl) ==
    /\ WriteName(name)
    /\ msg' = [msg EXCEPT !.ancount = @ + 1,
                          !.body = @ \o name.cells \o <<Record(TRUE, ttl, 1), IP(a)>>]
    /\ written' = IF written = Fail \/ Meaning(name, 1) = Fail THEN Fail
                  ELSE [written EXCEPT !.found = @ \cup {[ip |-> a, ttl |-> ttl]}]

\* An answer that is not an A record: its data is a name, of one label here.
AddCNAME(name, l) ==
    /\ WriteName(name)
    /\ msg' = [msg EXCEPT !.ancount = @ + 1,
                          !.body = @ \o name.cells
                                     \o <<Record(FALSE, 1, 2), Text(l), Root>>]
    /\ written' = IF Meaning(name, 1) = Fail THEN Fail ELSE written

AddAnswer(name) ==
    /\ msg.ancount < MaxAnswers
    /\ \/ \E a \in Address, ttl \in TTL : AddA(name, a, ttl)
       \/ \E l \in Label : AddCNAME(name, l)

MsgNext ==
    \E name \in Names :
        /\ AddQuestion(name) \/ AddAnswer(name)
        /\ Len(msg'.body) <= MaxCells

-----------------------------------------------------------------------------
(***************************************************************************)
(* readName reads every name back as it was written, over any number of    *)
(* pointers, and finds where it ends; a name that never ends is an error,  *)
(* and its limit on turns refuses no name that does.                       *)
(***************************************************************************)
NamesReadBack ==
    \A o \in DOMAIN means :
        LET read == ReadName(msg.body, o)
        IN  IF means[o] = Fail THEN read = Fail
            ELSE read = [labels |-> means[o], next |-> ends[o]]

(***************************************************************************)
(* ParseResponse gives the last question's name with the addresses of all  *)
(* A records, and a TTL that no record's is shorter than, but for a TTL of *)
(* zero, which makes it 30 seconds.                                        *)
(***************************************************************************)
ParsedAsWritten ==
    LET parsed == ParseResponse(msg)
        shortest(t) == \A r \in written.found : t <= r.ttl
    IN  IF written = Fail \/ written.qname = <<>> \/ written.found = {}
        THEN parsed = Fail
        ELSE /\ parsed.domain = written.qname
             /\ parsed.ips = {r.ip : r \in written.found}
             /\ shortest(parsed.ttl) \/ (parsed.ttl = DefaultTTL /\ ~shortest(1))

(***************************************************************************)
(* A message cut by the tracer's 512 bytes, or by a packet that has not    *)
(* all of it, is understood as the whole is, or not at all: no cut leaves  *)
(* some of its addresses, or a TTL or name that is not its own.            *)
(***************************************************************************)
CutsAllOrNothing ==
    \A i \in 0..Len(msg.body) :
        ParseResponse(Clip(msg, Bytes(SubSeq(msg.body, 1, i))))
            \in {Fail, ParseResponse(msg)}

=============================================================================
