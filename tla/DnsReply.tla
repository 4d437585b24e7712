------------------------------ MODULE DnsReply ------------------------------
(***************************************************************************)
(* What a client gets back: a message is parsed, who answers for the name  *)
(* is decided, a reply is synthesized, taken from the cache or forwarded,  *)
(* and fitted to the transport (src/src/resolver/pipeline: listener.rs,    *)
(* layers.rs, cache_layer.rs, forward.rs), while the admin edits the local *)
(* records and pages look up clients' host names (resolver/reverse.rs).    *)
(* Messages are octets (DnsCodec), the tables those of NameTables and the  *)
(* block list's text that of ListParse.  One message is under way at a     *)
(* time: what the stages of several queries see of concurrent changes is   *)
(* DecisionStack's subject, and which entries the cache holds is           *)
(* QueryCache's.  A host name lookup may take any time.                    *)
(***************************************************************************)
EXTENDS ListParse

CONSTANTS
    Messages,      \* what clients send: the octets, and the OPT in them, if any
    Forms,         \* the records an admin types in
    ZoneRows,      \* the enabled conditional-forward zones
    Bodies,        \* block lists: a format and a text
    Upstreams(_),  \* the replies an upstream may give to a question
    Modes,         \* the block modes
    Ages,          \* ages at which a cache entry is asked for
    TtlFloor,      \* settings: cache_min_ttl
    TtlCeiling,    \* settings: cache_max_ttl
    NegativeCap,   \* settings: negative_ttl_cap
    Clients,       \* addresses whose host names the pages show
    PtrNames,      \* names an upstream may give for an address
    MaxRows        \* bound: rows of local_records

VARIABLES
    rows,    \* the table local_records
    local,   \* ResolverState::local
    listed,  \* the body of the one block list
    blocked, \* ResolverState::blocklist
    cache,   \* DnsCache: question to entry
    job,     \* the message under way and its reply
    hosts,   \* ReverseResolver::cache: address to name
    lookup   \* the reverse lookup under way

reverseVars == <<hosts, lookup>>
listVars == <<listed, blocked>>
vars == <<rows, local, listVars, cache, job, reverseVars>>

BLOCK_TTL_SECS == <<0, 60>>
UDP_DEFAULT_LIMIT == 512
UDP_MAX_LIMIT == 1232

Idle == [phase |-> "idle"]
NoLookup == [addr |-> NoAddr]

Init ==
    /\ rows = {}
    /\ local = EmptyLocal
    /\ listed \in Bodies
    /\ blocked = ParseList(listed)
    /\ cache = <<>>
    /\ job = Idle
    /\ hosts = <<>>
    /\ lookup = NoLookup

-----------------------------------------------------------------------------
(* The admin's edits (web/records.rs): write, then rebuild the snapshot.   *)

\* Mutation: the host names are left to expire.
ReloadOnly(table) ==
    /\ local' \in IF Loadable(table) THEN Snapshots(table) ELSE {local}
    /\ UNCHANGED reverseVars

\* ReverseResolver::clear comes last; it does not reach a lookup under way, which
\* is marked here and stores its name all the same.
Reload(table) ==
    IF Loadable(table)
    THEN /\ local' \in Snapshots(table)
         /\ hosts' = <<>>
         /\ lookup' = IF lookup = NoLookup THEN lookup ELSE [lookup EXCEPT !.straddles = TRUE]
    ELSE UNCHANGED <<local, reverseVars>>

LocalAdd(form) ==
    LET row == [form EXCEPT !.name = NormalizeLocalName(@)] IN
    /\ job = Idle /\ cache = <<>>
    /\ Cardinality(rows) < MaxRows
    /\ ValidateLocal(form)
    /\ ~Conflicts(rows, row)
    /\ rows' = rows \cup {row}
    /\ Reload(rows')
    /\ UNCHANGED <<listVars, cache, job>>

LocalRemove(row) ==
    /\ job = Idle
    /\ rows' = rows \ {row}
    /\ Reload(rows')
    /\ UNCHANGED <<listVars, cache, job>>

\* A restart hydrates the snapshot from the table; it fails on a row that does not load.
Restart ==
    /\ job = Idle
    /\ Loadable(rows)
    /\ local' \in Snapshots(rows)
    /\ cache' = <<>>
    /\ hosts' = <<>> /\ lookup' = NoLookup
    /\ UNCHANGED <<rows, listVars, job>>

\* A refresh parses the list's new body and installs the names; when and with what
\* failures is BlocklistScheduler's.
InstallList(body) ==
    /\ job = Idle /\ cache = <<>> /\ rows = {} /\ hosts = <<>> /\ lookup = NoLookup
    /\ listed' = body
    /\ blocked' = ParseList(body)
    /\ UNCHANGED <<rows, local, cache, job, reverseVars>>

-----------------------------------------------------------------------------
(* Receiving: Query::try_from and DnsRequest::new.                         *)

Reject(query) ==
    BareError(query.id, IF query.reject = "formerr" THEN Rcode.FormErr ELSE Rcode.NotImpl)

\* The bound on the product of tables and messages: what is malformed or forwarded
\* is sent while there are no local records, and none beside host name lookups.
Receive(m, transport) ==
    LET query == Parse(m.raw) IN
    /\ job = Idle
    /\ m.about = "wire" => rows = {}
    /\ hosts = <<>> /\ lookup = NoLookup
    /\ job' = IF query.reject = "drop"
              THEN [phase |-> "dropped", sent |-> m, transport |-> transport]
              ELSE IF query.reject # "none"
              THEN [phase |-> "answered", sent |-> m, transport |-> transport, by |-> "reject",
                    edns |-> NoEdns, reply |-> Reject(query)]
              ELSE [phase |-> "parsed", sent |-> m, transport |-> transport, query |-> query,
                    edns |-> EdnsScan(query), route |-> NoTarget]
    /\ UNCHANGED <<rows, local, listVars, cache, reverseVars>>

\* An upstream's reply to a question: its octets and what hickory says of them.
UpstreamReply(q, id, rcode, answers, authority, additional) ==
    LET Rr(r) == r.owner \o WriteU16(r.rtype) \o WriteU16(r.class) \o WriteU32(r.ttl)
                     \o WriteU16(Len(r.rdata)) \o r.rdata
        all == answers \o authority \o additional
        h == With(With(With(NewHeader(id), "qr", 1), "ra", 1), "rcode", rcode)
    IN WriteHeader([h EXCEPT !.qdcount = 1, !.ancount = Len(answers),
                             !.nscount = Len(authority), !.arcount = Len(additional)])
           \o WriteName(q.name) \o WriteU16(q.qtype) \o WriteU16(q.qclass)
           \o FlattenSeq([i \in 1..Len(all) |-> Rr(all[i])])

\* A handler of the service sets the reply.
Answer(by, reply) ==
    job' = [job EXCEPT !.phase = "answered"] @@ [by |-> by, reply |-> reply]

\* run_service: an error of the protective middleware becomes a reply.
RejectionPolicy(rcode) ==
    /\ job.phase = "parsed" /\ job.sent.about = "wire"
    /\ rcode \in {Rcode.Refused, Rcode.ServFail}
    /\ Answer("middleware", ErrorResponse(job.query, rcode, job.edns))
    /\ UNCHANGED <<rows, local, listVars, cache, reverseVars>>

-----------------------------------------------------------------------------
(* The decision stack.                                                     *)

LocalReply(query, edns) ==
    LET q == query.question
        addr == IF q.qtype = Qtype.Ptr THEN ReverseAddr(q.name) ELSE NoAddr
        found == Lookup(local, q.name, q.qtype)
    IN IF Owns(local, addr)
       THEN LocalPtr(query, local.reverse[addr].name, local.reverse[addr].ttl, edns)
       ELSE IF found.match = "answer" THEN Local(query, found.addr, found.ttl, edns)
       ELSE IF found.match = "nodata" THEN LocalNodata(query, edns)
       ELSE <<>>

AnswerLocal ==
    /\ job.phase = "parsed"
    /\ LocalReply(job.query, job.edns) # <<>>
    /\ Answer("local", LocalReply(job.query, job.edns))
    /\ UNCHANGED <<rows, local, listVars, cache, reverseVars>>

MissLocal ==
    /\ job.phase = "parsed"
    /\ LocalReply(job.query, job.edns) = <<>>
    /\ job' = [job EXCEPT !.phase = "missed",
                          !.route = MatchTarget(BuildZoneSet(ZoneRows), job.query.question.name)]
    /\ UNCHANGED <<rows, local, listVars, cache, reverseVars>>

\* Stages 2 and 4: the lists hold whole names, and a zone's names are not blocked.
Blocked == job.route = NoTarget /\ job.query.question.name \in blocked

AnswerBlocked(mode) ==
    /\ job.phase = "missed"
    /\ Blocked
    /\ Answer("block", Block(job.query, mode, BLOCK_TTL_SECS, job.edns))
    /\ UNCHANGED <<rows, local, listVars, cache, reverseVars>>

-----------------------------------------------------------------------------
(* The cache layer and the forward leaf.                                   *)

ClampTtl(ttl) ==
    IF LessU32(ttl, TtlFloor) THEN TtlFloor
    ELSE IF LessU32(TtlCeiling, ttl) THEN TtlCeiling ELSE ttl

AnswerCached(age) ==
    LET q == job.query.question IN
    /\ job.phase = "missed" /\ ~Blocked
    /\ q \in DOMAIN cache
    /\ LessU32(age, cache[q].expiry)
    /\ job' = [job EXCEPT !.phase = "answered"]
                @@ [by |-> "cached", age |-> age,
                    reply |-> PatchedFor(cache[q].bytes, job.query.header.id,
                                         cache[q].ttl_offsets, age)]
    /\ UNCHANGED <<rows, local, listVars, cache, reverseVars>>

\* An entry's time is up.
Expire(q) ==
    /\ job = Idle
    /\ cache' = [k \in DOMAIN cache \ {q} |-> cache[k]]
    /\ UNCHANGED <<rows, local, listVars, job, reverseVars>>

\* Whether a reply may be stored and for how long: <<>> where it may not.
Expiry(r) ==
    LET scan == TtlScan(r.bytes)
        lower == IF LessU32(NegativeCap, r.negative_ttl[1]) THEN NegativeCap ELSE r.negative_ttl[1]
    IN IF ~scan.ok THEN <<>>
       ELSE IF r.is_negative THEN IF r.negative_ttl = <<>> THEN <<>> ELSE <<lower>>
       ELSE IF scan.ttl_offsets = <<>> THEN <<>>
       ELSE <<MinTtl(r.bytes, scan.ttl_offsets)>>

AnswerForwarded(r) ==
    LET q == job.query.question
        expiry == Expiry(r)
    IN /\ job.phase = "missed" /\ ~Blocked
       /\ q \notin DOMAIN cache
       /\ cache' = IF expiry = <<>> THEN cache
                   ELSE (q :> [bytes |-> r.bytes, ttl_offsets |-> TtlScan(r.bytes).ttl_offsets,
                               expiry |-> ClampTtl(expiry[1]), from |-> r]) @@ cache
       /\ Answer("forward", WithTxnId(r.bytes, job.query.header.id))
       /\ UNCHANGED <<rows, local, listVars, reverseVars>>

AnswerFailed ==
    /\ job.phase = "missed" /\ ~Blocked
    /\ job.query.question \notin DOMAIN cache
    /\ Answer("failed", ErrorResponse(job.query, Rcode.ServFail, job.edns))
    /\ UNCHANGED <<rows, local, listVars, cache, reverseVars>>

-----------------------------------------------------------------------------
(* Sending.                                                                *)

\* Mutation: the egress cap is left out.
UdpReplyLimitUncapped(edns) ==
    IF edns.opt /\ edns.udp_payload_size > UDP_DEFAULT_LIMIT
    THEN edns.udp_payload_size ELSE UDP_DEFAULT_LIMIT

UdpReplyLimit(edns) ==
    LET advertised == IF edns.opt /\ edns.udp_payload_size > UDP_DEFAULT_LIMIT
                      THEN edns.udp_payload_size ELSE UDP_DEFAULT_LIMIT
    IN IF advertised > UDP_MAX_LIMIT THEN UDP_MAX_LIMIT ELSE advertised

\* What goes on the wire; a message too long for a frame closes the connection.
Final ==
    IF job.transport = "tcp"
    THEN IF Len(job.reply) > MAX_MESSAGE_LEN THEN <<>> ELSE EncodeLengthPrefix(job.reply)
    ELSE IF job.by # "reject" /\ Len(job.reply) > UdpReplyLimit(job.edns)
    THEN BuildTc(job.query, job.edns)
    ELSE job.reply

Send ==
    /\ job.phase = "answered"
    /\ job' = [job EXCEPT !.phase = "sent"] @@ [wire |-> Final]
    /\ UNCHANGED <<rows, local, listVars, cache, reverseVars>>

\* The handler ends; a TCP connection reads on or, after a drop, is closed.
Done ==
    /\ job.phase \in {"sent", "dropped"}
    /\ job' = Idle
    /\ UNCHANGED <<rows, local, listVars, cache, reverseVars>>

-----------------------------------------------------------------------------
(* Host names of clients (ReverseResolver), through a decision stack of    *)
(* its own without the protective middleware and the telemetry.            *)

PtrQueryDatagram(addr) ==
    WriteHeader([With(NewHeader(0), "rd", 1) EXCEPT !.qdcount = 1])
        \o WriteName(ReverseQuery(addr)) \o WriteU16(Qtype.Ptr) \o WriteU16(Qclass.In)

NoHost == <<>>

\* The first PTR answer's name.
ExtractPtr(m) ==
    LET h == ReadHeader(m)
        ptrs == SelectSeq(Records(m, SkipQuestions(m, HeaderLen, h.qdcount), h.ancount),
                          LAMBDA r : U16(m, r.fixed) = Qtype.Ptr)
    IN IF ptrs = <<>> THEN NoHost ELSE ReadName(m, ptrs[1].data).name

\* lookup's query and stage 1.  What is not local is forwarded: an answer without a
\* PTR, a block and an error all give no name.
Warm(addr) ==
    LET query == Parse(PtrQueryDatagram(addr))
        reply == LocalReply(query, NoEdns)
    IN /\ job = Idle /\ cache = <<>>
       /\ lookup = NoLookup /\ addr \notin DOMAIN hosts
       /\ \E name \in IF reply = <<>> THEN {NoHost} \cup PtrNames ELSE {ExtractPtr(reply)} :
             lookup' = [addr |-> addr, straddles |-> FALSE, name |-> name]
       /\ UNCHANGED <<rows, local, listVars, cache, job, hosts>>

\* get_with stores the name, or that there is none.
StoreName ==
    /\ job = Idle
    /\ lookup # NoLookup
    /\ hosts' = (lookup.addr :> [name |-> lookup.name, straddles |-> lookup.straddles]) @@ hosts
    /\ lookup' = NoLookup
    /\ UNCHANGED <<rows, local, listVars, cache, job>>

\* A cached name's 15 minutes are over.
Forget(addr) ==
    /\ job = Idle
    /\ hosts' = [k \in DOMAIN hosts \ {addr} |-> hosts[k]]
    /\ UNCHANGED <<rows, local, listVars, cache, job, lookup>>

Next ==
    \/ \E form \in Forms : LocalAdd(form)
    \/ \E row \in rows : LocalRemove(row)
    \/ Restart
    \/ \E body \in Bodies : InstallList(body)
    \/ \E m \in Messages, transport \in {"udp", "tcp"} : Receive(m, transport)
    \/ \E rcode \in {Rcode.Refused, Rcode.ServFail} : RejectionPolicy(rcode)
    \/ AnswerLocal
    \/ MissLocal
    \/ \E mode \in Modes : AnswerBlocked(mode)
    \/ \E age \in Ages : AnswerCached(age)
    \/ \E r \in (IF job.phase = "missed" THEN Upstreams(job.query.question) ELSE {}) :
          AnswerForwarded(r)
    \/ \E q \in DOMAIN cache : Expire(q)
    \/ AnswerFailed
    \/ Send
    \/ Done
    \/ \E addr \in Clients : Warm(addr)
    \/ StoreName
    \/ \E addr \in DOMAIN hosts : Forget(addr)

Spec == Init /\ [][Next]_vars

-----------------------------------------------------------------------------
(* Properties.                                                             *)

Sent == job.phase = "sent"

\* The message that was sent, without TCP's length.
Body == IF job.transport = "tcp" THEN Slice(job.wire, 2, Len(job.wire)) ELSE job.wire

Truncated == Sent /\ job.by # "reject" /\ Body # job.reply

\* The replies this server composes itself.
Synthesized ==
    Sent /\ (Truncated \/ job.by \in {"middleware", "local", "block", "failed"})

RecordsOf(m) ==
    LET h == ReadHeader(m)
    IN Records(m, SkipQuestions(m, HeaderLen, h.qdcount), h.ancount + h.nscount + h.arcount)

OptsOf(m) == SelectSeq(RecordsOf(m), LAMBDA r : U16(m, r.fixed) = OPT_TYPE)

\* Two servers never answer each other for ever: whatever is sent is dropped by a
\* server that receives it.  A composed or cached reply is a whole DNS message: its
\* sections hold as many records as its header counts and end where the message
\* ends.  It carries the client's id, and a composed one the client's question,
\* octet for octet (0x20 case included), and its RD bit (message.rs:290-306,
\* synth.rs:486-530, cache.rs:85-129).
RepliesDecode ==
    /\ Sent => Parse(Body).reject = "drop"
    /\ Synthesized \/ (Sent /\ job.by = "cached") =>
        LET h == ReadHeader(Body)
            rrs == RecordsOf(Body)
        IN /\ h.id = job.query.header.id /\ Flag(h, "qr") = 1
           /\ Len(rrs) = h.ancount + h.nscount + h.arcount
           /\ Len(Body) = IF rrs = <<>> THEN SkipQuestions(Body, HeaderLen, h.qdcount)
                          ELSE rrs[Len(rrs)].end
           /\ Synthesized =>
                 /\ Slice(Body, HeaderLen, job.query.end) = Slice(job.sent.raw, HeaderLen, job.query.end)
                 /\ Flag(h, "rd") = Flag(job.query.header, "rd")

\* A reply over UDP fits what the client can take (512 octets, or what its OPT says
\* up to 1232), is cut to a bare TC=1 reply only if it would not, and that one fits
\* too, whatever the length of the name and the cookie it echoes; over TCP nothing
\* is cut and the prefix is the length (listener.rs:73-84, 466-484, synth.rs:455-484).
FitsTransport ==
    Sent =>
        LET size == IF job.sent.opt THEN job.sent.size ELSE 0
            limit == CHOOSE l \in {512, size, 1232} :
                        IF size < 512 THEN l = 512 ELSE IF size > 1232 THEN l = 1232 ELSE l = size
        IN IF job.transport = "tcp"
           THEN DecodeLengthPrefix(job.wire) = Len(job.reply) /\ Body = job.reply
           ELSE /\ Len(job.wire) <= limit
                /\ Truncated <=> Len(job.reply) > limit
                /\ Truncated => Flag(ReadHeader(Body), "tc") = 1 /\ ReadHeader(Body).ancount = 0

\* A client's OPT is seen behind any question and any records it sends, and answered
\* by exactly one OPT with its cookie; without one there is none (RFC 6891;
\* synth.rs:118-183, 560-598, name.rs:338-495).
EdnsHonoured ==
    Synthesized =>
        LET opts == OptsOf(Body) IN
        IF ~job.sent.opt THEN opts = <<>>
        ELSE /\ Len(opts) = 1
             /\ ExtractCookie(Slice(Body, opts[1].data, opts[1].end)) = job.sent.cookie

\* A hit is the upstream's reply as it would be at that age: every TTL of every
\* section less the age, not below zero, the OPT's flags and all names, compressed
\* or not, as they were, and the client's id (ttl.rs:84-157, cache.rs:85-129).
HitAgesOnlyTtls ==
    Sent /\ job.by = "cached" /\ ~Truncated =>
        LET from == cache[job.query.question].from
            Aged(rrs) == [i \in 1..Len(rrs) |->
                             IF rrs[i].rtype = OPT_TYPE THEN rrs[i]
                             ELSE [rrs[i] EXCEPT !.ttl = SaturatingSub(@, job.age)]]
        IN Body = UpstreamReply(job.query.question, job.query.header.id, from.rcode,
                                Aged(from.answers), Aged(from.authority), Aged(from.additional))

\* The rows that speak for a name: those of the name itself, else the wildcards of
\* its longest proper suffix.
Covering(name) ==
    LET exactly == {r \in rows : ~r.name.star /\ Normalized(r.name.labels) = name}
        wild == {r \in rows : /\ r.name.star
                              /\ \E i \in 2..Len(name) :
                                    SubSeq(name, i, Len(name)) = Normalized(r.name.labels)}
    IN IF exactly # {} THEN exactly
       ELSE {r \in wild : \A s \in wild : Len(s.name.labels) <= Len(r.name.labels)}

\* The names with a row of their own for this address; of rows that differ in their
\* trailing dots only, the last of the table counts.
Holders(addr) ==
    {Normalized(r.name.labels) : r \in
        {r \in rows : /\ ~r.name.star /\ r.value = addr
                      /\ \A s \in rows \ {r} :
                            ~s.name.star /\ s.type = r.type
                                /\ Normalized(s.name.labels) = Normalized(r.name.labels)
                                => s.name.dots < r.name.dots}}

Zone(name) ==
    LET usable == {z \in ToSet(ZoneRows) :
                      /\ z.target # NoTarget /\ FromStr(z.suffix)
                      /\ \E i \in 1..Len(name) : SubSeq(name, i, Len(name)) = Normalized(z.suffix)}
    IN IF usable = {} THEN NoTarget
       ELSE (CHOOSE z \in usable : \A y \in usable : Len(y.suffix) <= Len(z.suffix)).target

\* The body lists the name.
Listed(name) ==
    \E i \in DOMAIN listed.text : \E j \in DOMAIN listed.text[i] :
        LET line == listed.text[i] IN
        /\ line[j] \notin {Hash, Bang} /\ Normalized(line[j]) = name
        /\ Head(line) # Bang /\ \A k \in 1..j : line[k] # Hash
        /\ IF listed.format = "hosts" THEN j > 1
           ELSE j = 1 /\ (Len(line) = 1 \/ line[2] = Hash)

\* The right authority answers.  A name with rows is answered from them, with an
\* address of the type asked for or an empty answer and never by an upstream; the
\* apex of a wildcard is not covered by it.  A reverse name of an address some name
\* holds gives the shortest, then first such name, in whatever order the hash map
\* yields them.  All other names go to the zone of their longest suffix, if any; the
\* rest is blocked if and only if the block list's text names it, in any case, on a
\* line of the list's format and in front of any comment
\* (local.rs:192-250, 335-399, name.rs:227-334, forward_zone.rs:138-165, parse.rs:69-190).
AuthorityIsRight ==
  /\ job.phase = "answered" /\ job.by \in {"block", "cached", "forward", "failed"} =>
        (job.by = "block" <=> Zone(job.query.question.name) = NoTarget
                                /\ Listed(job.query.question.name))
  /\ job.phase \in {"missed", "answered"} /\ (job.phase = "answered" => job.by = "local") =>
        LET q == job.query.question
            rrs == RecordsOf(job.reply)
            data == Slice(job.reply, rrs[1].data, rrs[1].end)
            address == {r.value : r \in {r \in Covering(q.name) : r.type = q.qtype}}
            best == CHOOSE n \in Holders(job.sent.ptr) :
                       \A o \in Holders(job.sent.ptr) \ {n} : IsMoreCanonical(n, o)
        IN IF job.sent.ptr # NoAddr /\ Holders(job.sent.ptr) # {}
           THEN job.phase = "answered" /\ data = WriteName(best)
           ELSE IF Covering(q.name) = {}
           THEN job.phase = "missed" /\ job.route = Zone(q.name)
           ELSE /\ job.phase = "answered"
                /\ IF address = {} THEN ReadHeader(job.reply).ancount = 0
                   ELSE ReadHeader(job.reply).ancount = 1 /\ data \in address

\* A page shows a client's present name: what the reverse cache holds for an address
\* is the name the records give it now, or what an upstream says where they give
\* none; only a lookup that was under way when they changed may store an older one,
\* for its 15 minutes (reverse.rs:97-130, web/records.rs:34-47).
HostNamesFollowRecords ==
    \A addr \in DOMAIN hosts :
        \/ hosts[addr].straddles
        \/ hosts[addr].name \in IF Owns(local, addr) THEN {local.reverse[addr].name}
                                ELSE {NoHost} \cup PtrNames
=============================================================================
