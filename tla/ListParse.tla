------------------------------ MODULE ListParse ------------------------------
(***************************************************************************)
(* The text of a block list and the names it lists                         *)
(* (src/src/blocklist/parse.rs).  A line is the sequence of its tokens: a  *)
(* token is split at its dots; Hash stands for what starts with `#` and    *)
(* Bang for what starts with `!`.                                          *)
(***************************************************************************)
EXTENDS NameTables

Hash == <<<<35>>>>
Bang == <<<<33>>>>

BlocklistFormat == {"hosts", "domain-list"}

\* preprocess: what is left of a line, nothing for a blank line or a comment.
Preprocess(line) ==
    LET hashes == {i \in DOMAIN line : line[i] = Hash}
        kept == IF hashes = {} THEN line
                ELSE SubSeq(line, 1, (CHOOSE i \in hashes : \A j \in hashes : i <= j) - 1)
    IN IF kept # <<>> /\ Head(kept) = Bang THEN <<>> ELSE kept

\* HostsParser: the first field is the sink's address.
HostsFields(line) == IF Preprocess(line) = <<>> THEN <<>> ELSE Tail(Preprocess(line))

\* DomainListParser: a line of several tokens is skipped.
DomainListFields(line) == IF Len(Preprocess(line)) = 1 THEN Preprocess(line) ELSE <<>>

\* Parser::parse: fields that are no names are skipped.
ParseList(body) ==
    LET Fields(line) == IF body.format = "hosts" THEN HostsFields(line) ELSE DomainListFields(line)
    IN {Normalized(n) : n \in {f \in UNION {ToSet(Fields(body.text[i])) : i \in DOMAIN body.text} :
                                  FromStr(f)}}
=============================================================================
