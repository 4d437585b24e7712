----------------------------- MODULE MCDnsReply -----------------------------
(* An instance of DnsReply: names of one-letter labels, one of them as long *)
(* as a name can be, and messages that sit on the limits of the codec.      *)
EXTENDS DnsReply

h == <<104>>
a == <<97>>
b == <<98>>
x == <<120>>
home == <<h>>
a_home == <<a, h>>
b_a_home == <<b, a, h>>

long == [i \in 1..63 |-> 120]
longest == <<long, long, long, SubSeq(long, 1, 61)>>  \* 255 octets on the wire

ip == <<10, 0, 0, 1>>
ip2 == <<10, 0, 0, 200>>
ip6 == [i \in 1..16 |-> IF i \in {1, 16} THEN 15 * i + 1 ELSE i]

(* ------------------------------ the forms ------------------------------ *)

Form(star, labels, dots, type, value) ==
    [name |-> [star |-> star, labels |-> labels, dots |-> dots], type |-> type, value |-> value,
     ttl |-> <<0, 300>>]

MCForms ==
    {Form(FALSE, home, 0, 1, ip), Form(FALSE, home, 2, 1, ip2), Form(FALSE, home, 0, 28, ip6),
     Form(FALSE, a_home, 1, 1, ip), Form(FALSE, <<b>>, 0, 1, ip),
     Form(TRUE, home, 0, 1, ip2), Form(TRUE, <<<<65>>, h>>, 0, 28, ip6), Form(TRUE, <<>>, 0, 1, ip),
     Form(FALSE, <<<<45, 97>>>>, 0, 1, ip)}

(* The zones: a suffix within a suffix, one without a target, a bad one.   *)
MCZoneRows ==
    <<[suffix |-> home, target |-> "t1"], [suffix |-> <<<<65>>, h>>, target |-> "t2"],
      [suffix |-> <<x>>, target |-> NoTarget], [suffix |-> <<<<>>, x>>, target |-> "t3"]>>

(* A list in both formats: names, comments, several names to a line, a     *)
(* field that is no name, and a name a zone takes.                          *)
sink == <<<<48>>, <<48>>, <<48>>, <<48>>>>
MCText ==
    <<<<sink, <<<<88>>>>, longest>>, <<sink, a_home>>, <<Bang, <<a, x>>>>, <<>>, <<sink, Hash, <<a, x>>>>,
      <<<<a, x>>, Hash, <<x>>>>, <<sink, <<<<45>>>>>>>>
MCBodies == {[format |-> f, text |-> t] : f \in BlocklistFormat, t \in {<<>>, MCText}}

(* ----------------------------- the messages ---------------------------- *)

Question(name, qtype) == WriteName(name) \o WriteU16(qtype) \o WriteU16(Qclass.In)

Cookie(n) == [i \in 1..n |-> i]

Opt(size, cookie) ==
    <<0>> \o WriteU16(OPT_TYPE) \o WriteU16(size) \o WriteU32(<<0, 32768>>)
        \o IF cookie = <<>> THEN WriteU16(5) \o WriteU16(3) \o WriteU16(1) \o <<7>>
           ELSE WriteU16(4 + Len(cookie)) \o WriteU16(10) \o WriteU16(Len(cookie)) \o cookie

\* A query with RD and an OPT, if any, behind `before`, a record of the additional section.
Asks(about, id, question, before, opt, size, cookie) ==
    [about |-> about, opt |-> opt, size |-> size, cookie |-> IF ValidCookieLen(Len(cookie)) THEN cookie ELSE <<>>,
     ptr |-> NoAddr,
     raw |-> WriteHeader([With(NewHeader(id), "rd", 1) EXCEPT !.qdcount = 1,
                             !.arcount = (IF opt THEN 1 ELSE 0) + (IF before = <<>> THEN 0 ELSE 1)])
                 \o question \o before \o IF opt THEN Opt(size, cookie) ELSE <<>>]

Plain(about, id, name, qtype) == Asks(about, id, Question(name, qtype), <<>>, FALSE, 0, <<>>)

LocalQueries ==
    {Plain("local", 7, n, t) : n \in {home, a_home, b_a_home, <<b>>, <<a, x>>}, t \in {1, 28}}
        \cup {[Plain("local", 7, ReverseQuery(v), 12) EXCEPT !.ptr = v] : v \in {ip, ip2, ip6}}

\* A TSIG-like record whose owner points back at the question.
Record == OWNER_PTR \o WriteU16(250) \o WriteU16(255) \o WriteU32(<<0, 0>>) \o WriteU16(2) \o <<1, 2>>

WellFormed ==
    {Plain("wire", 513, <<x>>, 1), Plain("wire", 513, <<x>>, 12),
     Asks("wire", 2, Question(<<<<88>>>>, 1), <<>>, TRUE, 0, Cookie(8)),
     Asks("wire", 3, Question(<<x>>, 1), Record, TRUE, 4096, Cookie(40)),
     Asks("wire", 4, Question(<<x>>, 1), <<>>, TRUE, 600, Cookie(9)),
     Asks("wire", 5, Question(longest, 1), Record, TRUE, 512, Cookie(40)),
     Asks("wire", 6, Question(<<>>, 28), <<>>, TRUE, 1232, <<>>)}

Header(id, f, v, qd) == WriteHeader([With(NewHeader(id), f, v) EXCEPT !.qdcount = qd])

\* An unreadable record before the OPT, two pointers that go nowhere, and what the
\* parse refuses.
Malformed ==
    {[Plain("wire", 8, <<x>>, 1) EXCEPT !.raw = raw] : raw \in
        {<<>>, SubSeq(Plain("wire", 8, <<x>>, 1).raw, 1, 17), Header(8, "qr", 1, 1) \o Question(<<x>>, 1),
         Header(8, "opcode", 5, 1), Header(8, "rd", 1, 0), Header(8, "rd", 1, 2) \o Question(<<x>>, 1),
         Header(8, "rd", 1, 1) \o <<192, 12, 0, 1, 0, 1>>,
         Header(8, "rd", 1, 1) \o <<1, 45, 0, 0, 1, 0, 1>>,
         Header(8, "rd", 1, 1) \o Question(<<long, long, long, SubSeq(long, 1, 62)>>, 1),
         WriteHeader([NewHeader(8) EXCEPT !.qdcount = 1, !.arcount = 2]) \o Question(<<x>>, 1)
             \o <<192, 19>> \o SubSeq(Record, 3, Len(Record)) \o Opt(4096, <<>>),
         WriteHeader([NewHeader(8) EXCEPT !.qdcount = 1, !.arcount = 2]) \o Question(<<x>>, 1)
             \o <<1, 97, 192, 19>> \o SubSeq(Record, 3, Len(Record)) \o Opt(4096, <<>>)}}

MCMessages == LocalQueries \cup WellFormed \cup Malformed

(* ------------------------ the upstream's replies ------------------------ *)

Rr(owner, type, ttl, rdata) ==
    [owner |-> owner, rtype |-> type, class |-> 1, ttl |-> ttl, rdata |-> rdata]

OptRr == [owner |-> <<0>>, rtype |-> OPT_TYPE, class |-> 1232, ttl |-> <<0, 32768>>, rdata |-> <<>>]

\* n addresses; each owner points at the owner before it.
Chain(n, ttl) ==
    [i \in 1..n |-> Rr(IF i = 1 THEN OWNER_PTR ELSE WriteU16(49152 + 19 + 16 * (i - 2)), 1, ttl, ip)]

\* With 75 addresses of x., 1232 octets if its text is empty and 1233 if it is not.
Txt(rdata) == Rr(OWNER_PTR, 16, <<0, 30>>, rdata)

Many(n) == [i \in 1..n |-> Rr(OWNER_PTR, 1, <<0, 30>>, ip)]

\* x. is an alias of a.x., which has two addresses; the owners are compressed.
Alias ==
    <<Rr(OWNER_PTR, 5, <<1, 2>>, <<1, 97, 192, 12>>), Rr(<<192, 31>>, 1, <<0, 3>>, ip),
      Rr(<<1, 98, 192, 31>>, 1, <<32768, 0>>, ip2)>>

Soa == Rr(OWNER_PTR, 6, <<0, 900>>, <<0, 0>> \o [i \in 1..20 |-> 0])

Reply(q, rcode, answers, authority, additional, negative, ttl) ==
    [answers |-> answers, authority |-> authority, additional |-> additional, rcode |-> rcode,
     is_negative |-> negative, negative_ttl |-> ttl,
     bytes |-> UpstreamReply(q, 4660, rcode, answers, authority, additional)]

MCUpstreams(q) ==
    IF q.name = <<x>> /\ q.qtype = 1
    THEN {Reply(q, 0, Alias, <<>>, <<OptRr>>, FALSE, <<>>),
          Reply(q, 0, Chain(16, <<0, 60>>), <<>>, <<OptRr>>, FALSE, <<>>),
          Reply(q, 0, Chain(17, <<0, 60>>), <<>>, <<>>, FALSE, <<>>),
          Reply(q, 0, Many(36), <<>>, <<>>, FALSE, <<>>),
          Reply(q, 0, Many(75), <<>>, <<Txt(<<0>>)>>, FALSE, <<>>),
          Reply(q, 0, Many(75), <<>>, <<Txt(<<1, 97>>)>>, FALSE, <<>>),
          Reply(q, 3, <<>>, <<Soa>>, <<OptRr>>, TRUE, <<<<0, 900>>>>),
          Reply(q, 0, <<>>, <<>>, <<>>, TRUE, <<>>),
          Reply(q, 2, <<>>, <<>>, <<OptRr>>, FALSE, <<>>)}
    ELSE IF q.name = longest THEN {Reply(q, 0, Many(31), <<>>, <<>>, FALSE, <<>>)}
    ELSE {}

MCClients == {ip, ip6}
MCPtrNames == {<<x>>}
MCModes == {NxDomain, NullIp, [v4 |-> ip, v6 |-> ip6]}
MCAges == {<<0, 0>>, <<0, 5>>, <<0, 40>>}
MCTtlFloor == <<0, 10>>
MCTtlCeiling == <<1, 0>>
MCNegativeCap == <<0, 300>>
=============================================================================
