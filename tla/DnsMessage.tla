------------------------------ MODULE DnsMessage ------------------------------
(***************************************************************************)
(* internal/dns/dns_response_parser.go: what ParseResponse makes of a DNS  *)
(* message.                                                                *)
(*                                                                         *)
(* A message is its three header fields and a body of cells: the labels,   *)
(* zero bytes and compression pointers of names, the type and class that   *)
(* end a question, the ten bytes before a record's data, and an address.   *)
(* A position in the body stands for the byte offset of a cell.  A cut in  *)
(* the middle of a cell is a cut before it: the code's bounds test for the *)
(* cell fails in both.  Pointers are to cells of names.                    *)
(***************************************************************************)
EXTENDS DnsTypes, FiniteSetsExt, SequencesExt

CONSTANT Fail   \* an error is returned

Root      == [kind |-> "root"]
Question  == [kind |-> "question"]
Text(l)   == [kind |-> "label", text |-> l]
Jump(o)   == [kind |-> "pointer", to |-> o]
IP(a)     == [kind |-> "address", ip |-> a]
\* A record's header: is it an A record, its TTL, the cells of its data.
Record(a, ttl, cells) ==
    [kind |-> "record", isA |-> a, ttl |-> ttl, cells |-> cells]

\* Bytes of a cell; labels are of one letter.
Width(cell) == CASE cell.kind = "root"     -> 1
                 [] cell.kind = "label"    -> 2
                 [] cell.kind = "pointer"  -> 2
                 [] cell.kind = "question" -> 4
                 [] cell.kind = "address"  -> 4
                 [] cell.kind = "record"   -> 10

HeaderWidth == 12

Bytes(body) == HeaderWidth + FoldLeft(LAMBDA n, c : n + Width(c), 0, body)

\* The cells there are; the data of an A record is an address.
Cell ==
    [kind: {"root", "question"}] \cup [kind: {"label"}, text: Label] \cup
    [kind: {"pointer"}, to: Nat \ {0}] \cup [kind: {"address"}, ip: Address] \cup
    [kind: {"record"}, isA: BOOLEAN, ttl: Nat, cells: Nat \ {0}]

IsBody(body) ==
    /\ body \in Seq(Cell)
    /\ \A o \in 1..Len(body) - 1 :
           body[o].kind = "record" /\ body[o].isA
               => body[o].ttl \in TTL /\ body[o + 1].kind = "address"

IsMessage(m) ==
    /\ m = [response |-> m.response, qdcount |-> m.qdcount,
            ancount |-> m.ancount, body |-> m.body]
    /\ m.response \in BOOLEAN /\ {m.qdcount, m.ancount} \subseteq Nat
    /\ IsBody(m.body)

\* What readName, the two loops of ParseResponse and the parser return.
Name       == [labels: Seq(Label), next: Nat]
Questions  == [qname: Seq(Label), at: Nat]
Answers    == [found: SUBSET [ip: Address, ttl: TTL], at: Nat]

\* An error is none of these.
ASSUME FailAssumption == Fail \notin Seq(Label) \cup Name \cup Questions \cup Answers

-----------------------------------------------------------------------------
\* Turns of readName's loop before it reports a compression loop.
SeenLimit(body) == Bytes(body)

\* Mutant of After: the name ends where the name pointed at ends.
After_Followed(o, target) == target.next

\* Where the name with a pointer at o ends, whatever it points at.
After(o, target) == o + 1

\* What a pointer at o, or a label, adds to what was read behind it.
Jumped(o, target) ==
    IF target = Fail THEN Fail
    ELSE [labels |-> target.labels, next |-> After(o, target)]

Labelled(text, rest) ==
    IF rest = Fail THEN Fail ELSE [rest EXCEPT !.labels = <<text>> \o @]

\* A turn of readName's loop at o, behind which later reads on.
NameTurn(body, limit, later, seen, o) ==
    IF o > Len(body) \/ seen > limit THEN Fail
    ELSE CASE body[o].kind = "root" ->
                 [labels |-> <<>>, next |-> o + 1]
           [] body[o].kind = "pointer" ->
                 Jumped(o, IF body[o].to > Len(body) THEN Fail
                           ELSE later[<<seen + 1, body[o].to>>])
           [] body[o].kind = "label" ->
                 Labelled(body[o].text, later[<<seen + 1, o + 1>>])
           [] OTHER -> Fail

\* readName: the labels, and the position after the name.
ReadName(body, start) ==
    LET Limit == SeenLimit(body)
        Turn[at \in (0..Limit + 1) \X (1..Len(body) + 1)] ==
            NameTurn(body, Limit, Turn, at[1], at[2])
    IN  Turn[<<0, start>>]

-----------------------------------------------------------------------------
\* The name was read; its type and class follow.
QuestionRead(m, name) ==
    IF name = Fail \/ name.next > Len(m.body) THEN Fail
    ELSE [qname |-> name.labels, at |-> name.next + 1]

NextQuestion(m, q) ==
    IF q = Fail THEN Fail ELSE QuestionRead(m, ReadName(m.body, q.at))

\* The first loop of ParseResponse: the last question's name, and where the
\* answers start.
ReadQuestions(m) ==
    LET Q[i \in 0..m.qdcount] ==
            IF i = 0 THEN [qname |-> <<>>, at |-> 1] ELSE NextQuestion(m, Q[i-1])
    IN  Q[m.qdcount]

\* Mutant of OutOfBounds: a message that ends early is good up to there.
OutOfBounds_Stops(before) == before

\* An answer that reaches beyond the message spoils those before it.
OutOfBounds(before) == Fail

\* The record at o, behind its name.
RecordRead(m, before, o) ==
    IF \/ o > Len(m.body)
       \/ m.body[o].kind # "record"
       \/ o + m.body[o].cells > Len(m.body)
    THEN OutOfBounds(before)
    ELSE [found |-> before.found \cup
                        IF m.body[o].isA
                        THEN {[ip |-> m.body[o + 1].ip, ttl |-> m.body[o].ttl]}
                        ELSE {},
          at    |-> o + 1 + m.body[o].cells]

AnswerRead(m, before, name) ==
    IF name = Fail THEN OutOfBounds(before) ELSE RecordRead(m, before, name.next)

NextAnswer(m, before) ==
    IF before = Fail THEN Fail
    ELSE AnswerRead(m, before, ReadName(m.body, before.at))

\* The second loop: the addresses of the A records with their TTLs.
ReadAnswers(m, start) ==
    LET A[i \in 0..m.ancount] ==
            IF i = 0 THEN [found |-> {}, at |-> start] ELSE NextAnswer(m, A[i-1])
    IN  A[m.ancount]

\* Mutant of LeastTTL: the longest TTL wins.
LeastTTL_Greatest(found) == Max({r.ttl : r \in found})

LeastTTL(found) == Min({r.ttl : r \in found})

EffectiveTTL(ttl) == IF ttl = 0 THEN DefaultTTL ELSE ttl

Parsed(qname, a) ==
    IF a = Fail \/ qname = <<>> \/ a.found = {} THEN Fail
    ELSE [domain |-> qname,
          ips    |-> {r.ip : r \in a.found},
          ttl    |-> EffectiveTTL(LeastTTL(a.found))]

Answered(m, q) == IF q = Fail THEN Fail
                  ELSE Parsed(q.qname, ReadAnswers(m, q.at))

ParseResponse(m) == IF m.response THEN Answered(m, ReadQuestions(m)) ELSE Fail

\* The cells of m that lie within n bytes.
Clip(m, n) ==
    LET fits == {i \in 0..Len(m.body) : Bytes(SubSeq(m.body, 1, i)) <= n}
    IN  [m EXCEPT !.body = SubSeq(m.body, 1, Max(fits))]

=============================================================================
