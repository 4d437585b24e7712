----------------------------- MODULE NameTables -----------------------------
(***************************************************************************)
(* The tables that decide who answers for a name: the authoritative local  *)
(* records with their wildcards and their reverse index                    *)
(* (src/src/resolver/local.rs, storage/local_records.rs, web/records.rs)   *)
(* and the suffix match of the conditional-forward zones                   *)
(* (resolver/forward_zone.rs).                                             *)
(*                                                                         *)
(* A name as an admin types it is split at its dots: whether it starts     *)
(* with a `*` label, the labels after that, and how many dots end it.      *)
(***************************************************************************)
EXTENDS DnsCodec, TLC

-----------------------------------------------------------------------------
(* The text of a name, and SQLite's and Rust's order on texts.             *)

Dot == <<46>>

\* as_str: every label with its dot; the root is a dot.
Text(name) ==
    IF name = <<>> THEN Dot ELSE FlattenSeq([i \in DOMAIN name |-> name[i] \o Dot])

LessText(s, t) ==
    \E i \in 1..Len(t) :
        /\ \A j \in 1..(i - 1) : j <= Len(s) /\ s[j] = t[j]
        /\ i <= Len(s) => s[i] < t[i]

RowText(row) ==
    (IF row.name.star THEN <<42, 46>> ELSE <<>>)
        \o FlattenSeq([i \in DOMAIN row.name.labels |->
               row.name.labels[i]
                   \o [d \in 1..(IF i < Len(row.name.labels) THEN 1 ELSE row.name.dots) |-> 46]])

-----------------------------------------------------------------------------
(* The table local_records.                                                *)

\* normalize_local_name: one dot is taken off and one is put on.
NormalizeLocalName(name) ==
    [name EXCEPT !.labels = Normalized(@), !.dots = IF @ = 0 THEN 1 ELSE @]

\* LocalRecordsBuilder::add refuses a wildcard without a suffix and what
\* Name::from_str refuses; the trailing dots are off.
BuilderAccepts(name) ==
    /\ name.star => name.labels # <<>>
    /\ FromStr(name.labels)

\* The value parses as an address of the record's type.
ValueParses(row) == Len(row.value) = IF row.type = Qtype.A THEN 4 ELSE 16

\* validate_local.
ValidateLocal(row) == ValueParses(row) /\ BuilderAccepts(row.name)

\* UNIQUE (name, record_type).
Conflicts(rows, row) == \E r \in rows : r.name = row.name /\ r.type = row.type

\* list: ORDER BY name, record_type.
LoadAll(rows) ==
    SetToSortSeq(rows, LAMBDA r, s : \/ LessText(RowText(r), RowText(s))
                                     \/ RowText(r) = RowText(s) /\ r.type < s.type)

-----------------------------------------------------------------------------
(* The snapshot: names and wildcard suffixes to the records of each type.  *)

\* fill_entry.
FillEntry(map, key, type, record) ==
    (key :> ((type :> record) @@ (IF key \in DOMAIN map THEN map[key] ELSE <<>>))) @@ map

BuilderAdd(b, row) ==
    LET key == Normalized(row.name.labels)
        record == [addr |-> row.value, ttl |-> row.ttl]
    IN IF row.name.star
       THEN [b EXCEPT !.wildcard = FillEntry(@, key, row.type, record)]
       ELSE [b EXCEPT !.exact = FillEntry(@, key, row.type, record)]

IsMoreCanonical(c, cur) ==
    LET s == Text(c) t == Text(cur)
    IN Len(s) < Len(t) \/ (Len(s) = Len(t) /\ LessText(s, t))

\* Mutation: the last name of the iteration stays.
InsertReverseLast(reverse, name, record) ==
    (record.addr :> [name |-> name, ttl |-> record.ttl]) @@ reverse

InsertReverse(reverse, name, record) ==
    IF record.addr \notin DOMAIN reverse \/ IsMoreCanonical(name, reverse[record.addr].name)
    THEN (record.addr :> [name |-> name, ttl |-> record.ttl]) @@ reverse
    ELSE reverse

\* build_reverse, over the names in the order the HashMap yields them.
BuildReverse(exact, order) ==
    FoldLeft(LAMBDA rev, name :
                FoldLeft(LAMBDA r, type : InsertReverse(r, name, exact[name][type]), rev,
                         SelectSeq(<<Qtype.A, Qtype.Aaaa>>, LAMBDA t : t \in DOMAIN exact[name])),
             <<>>, order)

\* build_local_records fails on a value that does not parse and on a name the builder
\* refuses; Loadable says it does not.
Loadable(rows) == \A r \in rows : ValueParses(r) /\ BuilderAccepts(r.name)

BuildExact(rows) == FoldLeft(BuilderAdd, [exact |-> <<>>, wildcard |-> <<>>], LoadAll(rows))

EmptyLocal == [exact |-> <<>>, wildcard |-> <<>>, reverse |-> <<>>]

\* Every snapshot the rows can give: one for each order of the names.
Snapshots(rows) ==
    LET b == BuildExact(rows) IN
    {[exact |-> b.exact, wildcard |-> b.wildcard, reverse |-> BuildReverse(b.exact, order)] :
        order \in SetToSeqs(DOMAIN b.exact)}

-----------------------------------------------------------------------------
(* Lookups.                                                                *)

Miss == [match |-> "miss"]

\* NameEntry::resolve.
Resolve(entry, qtype) ==
    IF qtype \in DOMAIN entry
    THEN [match |-> "answer", addr |-> entry[qtype].addr, ttl |-> entry[qtype].ttl]
    ELSE [match |-> "nodata"]

\* The suffix probe: a label is taken off before each look.
RECURSIVE Probe(_, _, _)
Probe(wildcard, search, qtype) ==
    IF Len(search) <= 1 THEN Miss
    ELSE IF Tail(search) \in DOMAIN wildcard THEN Resolve(wildcard[Tail(search)], qtype)
    ELSE Probe(wildcard, Tail(search), qtype)

Lookup(local, name, qtype) ==
    IF name \in DOMAIN local.exact THEN Resolve(local.exact[name], qtype)
    ELSE Probe(local.wildcard, name, qtype)

\* reverse_lookup, of an address or of no address.
Owns(local, addr) == addr # NoAddr /\ addr \in DOMAIN local.reverse

NoTarget == "none"

\* ForwardZoneSet::build: the suffixes of the rows that can be used; a later row of
\* the same suffix replaces an earlier one.
BuildZoneSet(rows) ==
    FoldLeft(LAMBDA zones, row :
                IF row.target # NoTarget /\ FromStr(row.suffix)
                THEN (Normalized(row.suffix) :> row.target) @@ zones ELSE zones,
             <<>>, rows)

\* match_target: the name itself is looked up before a label is taken off.
RECURSIVE MatchTarget(_, _)
MatchTarget(zones, search) ==
    IF search \in DOMAIN zones THEN zones[search]
    ELSE IF Len(search) <= 1 THEN NoTarget
    ELSE MatchTarget(zones, Tail(search))
=============================================================================
