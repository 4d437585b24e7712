------------------------------ MODULE DnsCodec ------------------------------
(***************************************************************************)
(* The DNS wire format, octet by octet (src/src/codec): bounds-checked     *)
(* reads, the header, names with and without compression, the shallow      *)
(* parse of a query, the walk over resource records that finds EDNS and    *)
(* TTLs, and the synthesis of replies.                                     *)
(*                                                                         *)
(* A message is a sequence of octets, a Reader the offset (from zero) of   *)
(* the next one.  Every error of codec::Error ends a parse, so a failed    *)
(* read is the one offset Failed; which error it was is kept only where    *)
(* the listener tells them apart.  The limits are the ones of the code.    *)
(* TLC's integers are narrower than a u32, which is a pair of halves here. *)
(***************************************************************************)
EXTENDS Integers, Sequences, SequencesExt

-----------------------------------------------------------------------------
(* Reader and Writer.                                                      *)

Failed == -1

\* read_slice, and every fixed-width read: the offset after n octets.
ReadSlice(m, p, n) == IF p # Failed /\ p + n <= Len(m) THEN p + n ELSE Failed

\* The values at an offset known to be readable.
U8(m, p) == m[p + 1]
U16(m, p) == 256 * m[p + 1] + m[p + 2]
U32(m, p) == <<U16(m, p), U16(m, p + 2)>>

Slice(m, from, to) == SubSeq(m, from + 1, to)

WriteU16(v) == <<(v \div 256) % 256, v % 256>>
WriteU32(v) == WriteU16(v[1]) \o WriteU16(v[2])

\* u32's order and its saturating subtraction.
LessU32(v, w) == v[1] < w[1] \/ (v[1] = w[1] /\ v[2] < w[2])

SaturatingSub(v, w) ==
    IF LessU32(v, w) THEN <<0, 0>>
    ELSE IF v[2] >= w[2] THEN <<v[1] - w[1], v[2] - w[2]>>
    ELSE <<v[1] - w[1] - 1, v[2] + 65536 - w[2]>>

-----------------------------------------------------------------------------
(* Framing: a message on a TCP stream carries its length in two octets.    *)

MAX_MESSAGE_LEN == 65535

EncodeLengthPrefix(m) == WriteU16(Len(m)) \o m

DecodeLengthPrefix(frame) == U16(frame, 0)

-----------------------------------------------------------------------------
(* The header.                                                             *)

HeaderLen == 12

Opcode == [Query |-> 0, IQuery |-> 1, Status |-> 2, Notify |-> 4, Update |-> 5]

Rcode == [NoError |-> 0, FormErr |-> 1, ServFail |-> 2, NxDomain |-> 3, NotImpl |-> 4,
          Refused |-> 5]

\* Where each field of the flags word lies: the weight of its last bit, and the
\* number of its values.
Flags ==
    [qr |-> <<32768, 2>>, opcode |-> <<2048, 16>>, aa |-> <<1024, 2>>, tc |-> <<512, 2>>,
     rd |-> <<256, 2>>, ra |-> <<128, 2>>, z |-> <<16, 8>>, rcode |-> <<1, 16>>]

NewHeader(id) ==
    [id |-> id, flags |-> 0, qdcount |-> 0, ancount |-> 0, nscount |-> 0, arcount |-> 0]

Flag(h, f) == (h.flags \div Flags[f][1]) % Flags[f][2]

\* set_qr and the other setters: the field is cleared, then set.
SetFlag(flags, f, v) ==
    flags - Flags[f][1] * ((flags \div Flags[f][1]) % Flags[f][2]) + Flags[f][1] * v

With(h, f, v) == [h EXCEPT !.flags = SetFlag(@, f, v)]

ReadHeader(m) ==
    [id |-> U16(m, 0), flags |-> U16(m, 2), qdcount |-> U16(m, 4), ancount |-> U16(m, 6),
     nscount |-> U16(m, 8), arcount |-> U16(m, 10)]

WriteHeader(h) ==
    WriteU16(h.id) \o WriteU16(h.flags) \o WriteU16(h.qdcount) \o WriteU16(h.ancount)
        \o WriteU16(h.nscount) \o WriteU16(h.arcount)

-----------------------------------------------------------------------------
(* Names: a sequence of labels, each a sequence of octets, in lower case.  *)

MAX_LABEL_LEN == 63
MAX_NAME_WIRE_LEN == 255
MAX_SKIP_HOPS == 16

Digits == 48..57
Lower == 97..122
Upper == 65..90
Hyphen == 45
Underscore == 95

ToLower(label) == [i \in DOMAIN label |-> IF label[i] \in Upper THEN label[i] + 32 ELSE label[i]]

\* Letters, digits, hyphens within, underscores.
ValidLabel(label) ==
    /\ label[1] # Hyphen /\ label[Len(label)] # Hyphen
    /\ ToSet(label) \subseteq Digits \cup Lower \cup Upper \cup {Hyphen, Underscore}

WireLen(labels) == 1 + FoldLeft(LAMBDA sum, l : sum + 1 + Len(l), 0, labels)

NoName == [name |-> <<>>, end |-> Failed]

\* read_question from offset p, with `wire` octets of the name already used up.
RECURSIVE ReadLabels(_, _, _)
ReadLabels(m, p, wire) ==
    LET end == ReadSlice(m, p, 1)
        n == U8(m, p)
        after == ReadSlice(m, end, n)
        label == Slice(m, end, after)
        rest == ReadLabels(m, after, wire + 1 + n)
    IN CASE end = Failed -> NoName
         [] end # Failed /\ n = 0 -> [name |-> <<>>, end |-> end]
         [] end # Failed /\ n > MAX_LABEL_LEN -> NoName  \* pointers are among these
         [] OTHER ->
              IF wire + 1 + n > MAX_NAME_WIRE_LEN \/ after = Failed \/ ~ValidLabel(label)
                 \/ rest.end = Failed
              THEN NoName
              ELSE [rest EXCEPT !.name = <<ToLower(label)>> \o @]

ReadName(m, p) == ReadLabels(m, p, 1)

WriteName(name) ==
    FlattenSeq([i \in 1..Len(name) |-> <<Len(name[i])>> \o name[i]]) \o <<0>>

\* from_str, of a text split at its dots (the last dot is optional; the empty text
\* is the root): no empty label, the same limits and the same alphabet.
FromStr(labels) ==
    /\ \A i \in DOMAIN labels :
          labels[i] # <<>> /\ Len(labels[i]) <= MAX_LABEL_LEN /\ ValidLabel(labels[i])
    /\ WireLen(labels) <= MAX_NAME_WIRE_LEN

Normalized(labels) == [i \in DOMAIN labels |-> ToLower(labels[i])]

\* skip_rr's loop: p is cur_pos, end the reader's offset once the first pointer has
\* fixed it, hops and seen what bounds the walk.  A pointer leads strictly back.
RECURSIVE SkipFrom(_, _, _, _, _)
SkipFrom(m, p, end, hops, seen) ==
    IF p + 1 > Len(m) THEN Failed
    ELSE LET n == U8(m, p) IN
      IF n >= 192
      THEN IF p + 2 > Len(m) \/ U16(m, p) - 49152 >= p \/ hops = MAX_SKIP_HOPS THEN Failed
           ELSE SkipFrom(m, U16(m, p) - 49152, IF end = Failed THEN p + 2 ELSE end,
                         hops + 1, seen)
      ELSE IF n = 0 THEN IF end = Failed THEN p + 1 ELSE end
      ELSE IF n > MAX_LABEL_LEN \/ seen + n > MAX_NAME_WIRE_LEN \/ p + 1 + n > Len(m)
      THEN Failed
      ELSE SkipFrom(m, p + 1 + n, end, hops, seen + n)

SkipRr(m, p) == IF p = Failed THEN Failed ELSE SkipFrom(m, p, Failed, 0, 0)

-----------------------------------------------------------------------------
(* Reverse names.  An address is its 4 or 16 octets.                       *)

InAddr == <<105, 110, 45, 97, 100, 100, 114>>
Ip6 == <<105, 112, 54>>
Arpa == <<97, 114, 112, 97>>

NoAddr == <<>>

\* u8::from_str, which takes leading zeros; 256 stands for what it refuses.
ParseDecimal(label) ==
    FoldLeft(LAMBDA v, b : IF b \in Digits /\ 10 * v + b - 48 <= 255
                           THEN 10 * v + b - 48 ELSE 256, 0, label)

\* char::to_digit(16) of a one-character label; 16 stands for what it refuses.
ParseHex(label) ==
    IF Len(label) # 1 THEN 16
    ELSE IF label[1] \in Digits THEN label[1] - 48
    ELSE IF label[1] \in 97..102 THEN label[1] - 87
    ELSE 16

ParseInAddrArpa(labels) ==
    IF Len(labels) = 4 /\ \A i \in 1..4 : ParseDecimal(labels[i]) < 256
    THEN [i \in 1..4 |-> ParseDecimal(labels[5 - i])]
    ELSE NoAddr

ParseIp6Arpa(labels) ==
    IF Len(labels) = 32 /\ \A i \in 1..32 : ParseHex(labels[i]) < 16
    THEN [i \in 1..16 |-> 16 * ParseHex(labels[34 - 2 * i]) + ParseHex(labels[33 - 2 * i])]
    ELSE NoAddr

ReverseAddr(name) ==
    LET k == Len(name) IN
    IF k > 2 /\ name[k] = Arpa /\ name[k - 1] = InAddr
    THEN ParseInAddrArpa(SubSeq(name, 1, k - 2))
    ELSE IF k > 2 /\ name[k] = Arpa /\ name[k - 1] = Ip6
    THEN ParseIp6Arpa(SubSeq(name, 1, k - 2))
    ELSE NoAddr

Decimal(n) ==
    LET digits == <<n \div 100, (n \div 10) % 10, n % 10>>
        first == CHOOSE i \in 1..3 : (digits[i] # 0 \/ i = 3) /\ \A j \in 1..(i - 1) : digits[j] = 0
    IN [i \in 1..(4 - first) |-> 48 + digits[first + i - 1]]

Nibble(n) == <<IF n < 10 THEN 48 + n ELSE 87 + n>>

ReverseQuery(addr) ==
    IF Len(addr) = 4
    THEN [i \in 1..4 |-> Decimal(addr[5 - i])] \o <<InAddr, Arpa>>
    ELSE [i \in 1..32 |-> LET octet == addr[16 - (i - 1) \div 2]
                          IN Nibble(IF i % 2 = 1 THEN octet % 16 ELSE octet \div 16)]
             \o <<Ip6, Arpa>>

-----------------------------------------------------------------------------
(* The question and the shallow parse of a query.                          *)

Qtype == [A |-> 1, Aaaa |-> 28, Ptr |-> 12]
Qclass == [In |-> 1]

ReadQuestion(m, p) ==
    LET n == ReadName(m, p)
        end == ReadSlice(m, n.end, 4)
    IN [name |-> n.name, end |-> end,
        qtype |-> IF end = Failed THEN 0 ELSE U16(m, n.end),
        qclass |-> IF end = Failed THEN 0 ELSE U16(m, n.end + 2)]

\* Query::parse: the first check that fails decides, and with it whether the id is
\* known.  An error is the RejectAction it leads to.
Parse(m) ==
    LET h == ReadHeader(m)
        q == ReadQuestion(m, HeaderLen)
    IN CASE Len(m) > MAX_MESSAGE_LEN \/ Len(m) < HeaderLen -> [reject |-> "drop"]
         [] OTHER ->
              IF Flag(h, "qr") = 1 THEN [reject |-> "drop"]
              ELSE IF Flag(h, "opcode") # Opcode.Query THEN [reject |-> "notimp", id |-> h.id]
              ELSE IF h.qdcount # 1 \/ q.end = Failed THEN [reject |-> "formerr", id |-> h.id]
              ELSE [reject |-> "none", raw |-> m, header |-> h,
                    question |-> [name |-> q.name, qtype |-> q.qtype, qclass |-> q.qclass],
                    end |-> q.end]

QuestionWire(query) == Slice(query.raw, HeaderLen, query.end)

-----------------------------------------------------------------------------
(* The walk over resource records.                                         *)

OPT_TYPE == 41

RECURSIVE SkipQuestions(_, _, _)
SkipQuestions(m, p, n) ==
    IF n = 0 \/ p = Failed THEN p
    ELSE SkipQuestions(m, ReadSlice(m, SkipRr(m, p), 4), n - 1)

\* The record at p: its fixed part follows the owner name, RDATA ends at `end`.
RecordAt(m, p) ==
    LET fixed == SkipRr(m, p)
        data == ReadSlice(m, fixed, 10)
        end == IF data = Failed THEN Failed ELSE ReadSlice(m, data, U16(m, data - 2))
    IN [fixed |-> fixed, data |-> data, end |-> end]

\* The first n records, as many of them as can be read.
RECURSIVE Records(_, _, _)
Records(m, p, n) ==
    IF n = 0 \/ p = Failed THEN <<>>
    ELSE LET r == RecordAt(m, p)
         IN IF r.end = Failed THEN <<>> ELSE <<r>> \o Records(m, r.end, n - 1)

NoScan == [ok |-> FALSE, ttl_offsets |-> <<>>]

\* Mutation: the pseudo record's extended flags are taken for a TTL.
TtlScanWithOpt(m) ==
    LET h == ReadHeader(m)
        n == h.ancount + h.nscount + h.arcount
        start == SkipQuestions(m, HeaderLen, h.qdcount)
        rrs == Records(m, start, n)
    IN IF Len(m) < HeaderLen \/ start = Failed \/ Len(rrs) < n THEN NoScan
       ELSE [ok |-> TRUE, ttl_offsets |-> [i \in 1..Len(rrs) |-> rrs[i].fixed + 4]]

\* TtlScan::scan: where the TTLs are; an OPT has none.
TtlScan(m) ==
    LET h == ReadHeader(m)
        n == h.ancount + h.nscount + h.arcount
        start == SkipQuestions(m, HeaderLen, h.qdcount)
        rrs == Records(m, start, n)
        real == SelectSeq(rrs, LAMBDA r : U16(m, r.fixed) # OPT_TYPE)
    IN IF Len(m) < HeaderLen \/ start = Failed \/ Len(rrs) < n THEN NoScan
       ELSE [ok |-> TRUE, ttl_offsets |-> [i \in 1..Len(real) |-> real[i].fixed + 4]]

Ttls(m, offsets) == {U32(m, offsets[i]) : i \in DOMAIN offsets}

\* min_ttl, where there is one.
MinTtl(m, offsets) ==
    CHOOSE t \in Ttls(m, offsets) : \A u \in Ttls(m, offsets) : ~LessU32(u, t)

-----------------------------------------------------------------------------
(* EDNS.                                                                   *)

SERVER_UDP_PAYLOAD_SIZE == 1232
EDNS_OPTION_COOKIE == 10
EDNS_CLIENT_COOKIE_LEN == 8
EDNS_COOKIE_MAX_LEN == 40

NoCookie == <<>>
NoEdns == [opt |-> FALSE, udp_payload_size |-> 0, cookie |-> NoCookie]

ValidCookieLen(n) ==
    n = EDNS_CLIENT_COOKIE_LEN \/ n \in (2 * EDNS_CLIENT_COOKIE_LEN)..EDNS_COOKIE_MAX_LEN

RECURSIVE ExtractCookie(_)
ExtractCookie(rdata) ==
    IF Len(rdata) < 4 \/ 4 + U16(rdata, 2) > Len(rdata) THEN NoCookie
    ELSE LET end == 4 + U16(rdata, 2) IN
         IF U16(rdata, 0) = EDNS_OPTION_COOKIE
         THEN IF ValidCookieLen(U16(rdata, 2)) THEN Slice(rdata, 4, end) ELSE NoCookie
         ELSE ExtractCookie(Slice(rdata, end, Len(rdata)))

\* Mutation: only the first additional record is looked at.
EdnsScanFirst(query) ==
    LET m == query.raw
        h == query.header
        before == h.ancount + h.nscount
        rrs == Records(m, SkipQuestions(m, HeaderLen, h.qdcount), before + 1)
    IN IF h.arcount = 0 \/ Len(rrs) <= before THEN NoEdns
       ELSE IF U16(m, rrs[before + 1].fixed) # OPT_TYPE THEN NoEdns
       ELSE LET r == rrs[before + 1]
            IN [opt |-> TRUE, udp_payload_size |-> U16(m, r.fixed + 2),
                cookie |-> ExtractCookie(Slice(m, r.data, r.end))]

\* EdnsInfo::scan: the first OPT of the additional section, unless a record before
\* it cannot be read.
EdnsScan(query) ==
    LET m == query.raw
        h == query.header
        rrs == Records(m, SkipQuestions(m, HeaderLen, h.qdcount),
                       h.ancount + h.nscount + h.arcount)
        opts == {i \in (h.ancount + h.nscount + 1)..Len(rrs) : U16(m, rrs[i].fixed) = OPT_TYPE}
    IN IF opts = {} THEN NoEdns
       ELSE LET r == rrs[CHOOSE i \in opts : \A j \in opts : i <= j]
            IN [opt |-> TRUE, udp_payload_size |-> U16(m, r.fixed + 2),
                cookie |-> ExtractCookie(Slice(m, r.data, r.end))]

-----------------------------------------------------------------------------
(* Synthesis of replies.                                                   *)

OWNER_PTR == <<192, 12>>

WriteAnswerRr(rr) ==
    OWNER_PTR \o WriteU16(rr.rtype) \o WriteU16(Qclass.In) \o WriteU32(rr.ttl)
        \o WriteU16(Len(rr.rdata)) \o rr.rdata

WriteOpt(edns) ==
    <<0>> \o WriteU16(OPT_TYPE) \o WriteU16(SERVER_UDP_PAYLOAD_SIZE) \o WriteU32(<<0, 0>>)
        \o IF edns.cookie = NoCookie THEN WriteU16(0)
           ELSE WriteU16(4 + Len(edns.cookie)) \o WriteU16(EDNS_OPTION_COOKIE)
                    \o WriteU16(Len(edns.cookie)) \o edns.cookie

\* QR, RD as asked, RA; one question; an OPT if the query had one.
ReplyHeader(query, rcode, edns) ==
    [With(With(With(With(NewHeader(query.header.id), "qr", 1), "rd", Flag(query.header, "rd")),
               "ra", 1), "rcode", rcode)
        EXCEPT !.qdcount = 1, !.arcount = IF edns.opt THEN 1 ELSE 0]

Sections(query, answers, edns) ==
    QuestionWire(query) \o FlattenSeq([i \in 1..Len(answers) |-> WriteAnswerRr(answers[i])])
        \o IF edns.opt THEN WriteOpt(edns) ELSE <<>>

\* Mutation: the additional section is written but not counted.
BuildUncounted(query, rcode, aa, answers, edns) ==
    WriteHeader([With(ReplyHeader(query, rcode, NoEdns), "aa", aa)
                    EXCEPT !.ancount = Len(answers)]) \o Sections(query, answers, edns)

Build(query, rcode, aa, answers, edns) ==
    WriteHeader([With(ReplyHeader(query, rcode, edns), "aa", aa)
                    EXCEPT !.ancount = Len(answers)]) \o Sections(query, answers, edns)

BuildTc(query, edns) ==
    WriteHeader(With(ReplyHeader(query, Rcode.NoError, edns), "tc", 1))
        \o Sections(query, <<>>, edns)

\* Response::block.  A mode is NXDOMAIN or a pair of addresses.
NxDomain == [v4 |-> NoAddr, v6 |-> NoAddr]
NullIp == [v4 |-> [i \in 1..4 |-> 0], v6 |-> [i \in 1..16 |-> 0]]

Block(query, mode, ttl, edns) ==
    LET q == query.question.qtype
        answer == [rtype |-> q, ttl |-> ttl,
                   rdata |-> IF q = Qtype.A THEN mode.v4 ELSE mode.v6]
    IN IF mode = NxDomain THEN Build(query, Rcode.NxDomain, 0, <<>>, edns)
       ELSE IF q \in {Qtype.A, Qtype.Aaaa} THEN Build(query, Rcode.NoError, 0, <<answer>>, edns)
       ELSE Build(query, Rcode.NoError, 0, <<>>, edns)

Local(query, addr, ttl, edns) ==
    Build(query, Rcode.NoError, 1,
          <<[rtype |-> query.question.qtype, ttl |-> ttl, rdata |-> addr]>>, edns)

LocalNodata(query, edns) == Build(query, Rcode.NoError, 1, <<>>, edns)

LocalPtr(query, target, ttl, edns) ==
    Build(query, Rcode.NoError, 1,
          <<[rtype |-> Qtype.Ptr, ttl |-> ttl, rdata |-> WriteName(target)]>>, edns)

ErrorResponse(query, rcode, edns) == Build(query, rcode, 0, <<>>, edns)

\* formerr and notimp: a bare header with the id.
BareError(id, rcode) == WriteHeader(With(With(NewHeader(id), "qr", 1), "rcode", rcode))

\* with_txn_id.
WithTxnId(m, id) == IF Len(m) < 2 THEN m ELSE WriteU16(id) \o Slice(m, 2, Len(m))

\* CachedResponse::patched_for: the client's id, and each TTL less what has passed.
PatchedFor(m, id, offsets, elapsed) ==
    FoldLeft(LAMBDA buf, o :
                IF o + 4 <= Len(buf)
                THEN Slice(buf, 0, o) \o WriteU32(SaturatingSub(U32(buf, o), elapsed))
                         \o Slice(buf, o + 4, Len(buf))
                ELSE buf,
             WithTxnId(m, id), offsets)
=============================================================================
