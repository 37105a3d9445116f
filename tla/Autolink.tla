------------------------------ MODULE Autolink ------------------------------
(***************************************************************************)
(* extensions/autolink.c: links found in plain text, www. and :// while    *)
(* inlines are parsed, addresses afterwards in the text nodes.             *)
(***************************************************************************)
EXTENDS Escape

CONSTANT MaxPeriods   \* 10 in the code: past it, underscores are not counted
ASSUME MaxPeriodsAssumption == MaxPeriods \in Nat

is_valid_hostchar(c) == c \in Char \ (Punct \cup {"SP", "TAB", "LF", "CR", "FF"})

\* How much of the first n characters of s stays in a link.
Trailing == {"?", "!", ".", ",", ":", "*", "_", "~", "SQ", "DQ"}
Count(c, s, n) == Cardinality({k \in 1 .. n : s[k] = c})
RECURSIVE TrimEnd(_, _)
TrimEnd(s, n) ==
    LET amp == {k \in 1 .. n - 2 : s[k] = "&" /\ \A j \in k + 1 .. n - 1 : s[j] \in Letter}
    IN  IF n = 0 THEN 0
        ELSE CASE s[n] = ")" /\ Count(")", s, n) > Count("(", s, n) -> TrimEnd(s, n - 1)
               [] s[n] \in Trailing -> TrimEnd(s, n - 1)
               [] s[n] = ";" -> TrimEnd(s, IF amp # {} THEN Max(amp) - 1 ELSE n - 1)
               [] OTHER -> n
autolink_delim(s, link_end) ==
    TrimEnd(s, Min({link_end} \cup {k - 1 : k \in {k \in 1 .. link_end : s[k] = "<"}}))

\* The length of a domain that starts s, 0 when it is none. The first and the
\* last character are not looked at.
RECURSIVE DomainFrom(_, _, _, _, _)
DomainFrom(s, i, np, uscore1, uscore2) ==
    LET k == IF s[i] = "BS" /\ i < Len(s) - 1 THEN i + 1 ELSE i
    IN  IF i >= Len(s) THEN [end |-> i, np |-> np, uscores |-> uscore1 + uscore2]
        ELSE CASE s[k] = "_" -> DomainFrom(s, k + 1, np, uscore1, uscore2 + 1)
               [] s[k] = "." -> DomainFrom(s, k + 1, np + 1, uscore2, 0)
               [] is_valid_hostchar(s[k]) \/ s[k] = "-" -> DomainFrom(s, k + 1, np, uscore1, uscore2)
               [] OTHER -> [end |-> k, np |-> np, uscores |-> uscore1 + uscore2]
check_domain(s, allow_short) ==
    LET d == DomainFrom(s, 2, 0, 0, 0)
    IN  IF (d.uscores > 0 /\ d.np <= MaxPeriods) \/ (~ allow_short /\ d.np = 0) THEN 0
        ELSE d.end - 1

\* To the next space or "<", then without what does not belong to the link.
Link(s, n) ==
    LET stops == {k \in n + 1 .. Len(s) : s[k] \in spacechar \cup {"<"}}
    IN  autolink_delim(s, Min(stops \cup {Len(s) + 1}) - 1)

\* The length of a link at p. A link that :// makes also takes back
\* characters before p: rewind.
NoLink == [len |-> 0, rewind |-> 0]
www_match(text, p) ==
    LET s == SubSeq(text, p, Len(text))
        n == check_domain(s, FALSE)
    IN  IF (p > 1 => text[p - 1] \in {"*", "_", "~", "("} \cup spacechar)
           /\ IsPrefix(<<"www", ".">>, s) /\ n > 0
        THEN [len |-> Link(s, n), rewind |-> 0] ELSE NoLink
url_match(text, p) ==
    LET s == SubSeq(text, p, Len(text))
        alpha == {k \in 1 .. p - 1 : \A j \in k .. p - 1 : text[j] \in Letter}
        rewind == Cardinality(alpha)
        n == check_domain(SubSeq(s, 4, Len(s)), TRUE)
    IN  IF Len(s) >= 4 /\ IsPrefix(<<":", "/", "/">>, s)
           /\ rewind = 1 /\ text[p - 1] = "http" /\ is_valid_hostchar(s[4]) /\ n > 0
        THEN [len |-> Link(s, n + 3), rewind |-> rewind] ELSE NoLink

-----------------------------------------------------------------------------
\* Addresses in the text node s: the nodes that take its place.
TextNode(s, from, to) == [type |-> "text", lit |-> SubSeq(s, from, to), mailto |-> FALSE]
Address(s, from, to, mailto) == [type |-> "link", lit |-> SubSeq(s, from, to), mailto |-> mailto]

\* A ":" is part of an address after mailto or xmpp, as a word of its own, at or
\* after position from.
validate_protocol(protocol, s, k, from) ==
    k - 1 >= from /\ s[k - 1] = protocol /\ (k - 1 > from => s[k - 2] \notin Alnum)
UserChar(s, k, from) ==
    \/ s[k] \in Alnum \cup {".", "+", "-", "_"}
    \/ s[k] = ":" /\ \E w \in {"mailto", "xmpp"} : validate_protocol(w, s, k, from)
HostChar(s, k, xmpp) ==
    \/ s[k] \in Alnum \cup {"-", "_"}
    \/ s[k] = "." /\ k < Len(s) /\ s[k + 1] \in Alnum
    \/ s[k] = "/" /\ xmpp

\* The variables that one turn of the loop starts with.
Fresh == [np |-> 0, mailto |-> TRUE, xmpp |-> FALSE]

\* start: where the remaining text begins; from: where the search goes on; at:
\* an "@"; v: what found_at finds in the variables np, auto_mailto and is_xmpp.
RECURSIVE postprocess_text(_, _, _), found_at(_, _, _, _, _)
postprocess_text(s, start, from) ==
    LET ats == {k \in from .. Len(s) : s[k] = "@"}
    IN  IF ats = {} THEN <<TextNode(s, start, Len(s))>>
        ELSE found_at(s, start, from, Min(ats), Fresh)
found_at(s, start, from, at, v) ==
    LET first == Min({at} \cup {k \in from .. at - 1 : \A j \in k .. at - 1 : UserChar(s, j, from)})
        colons == {k \in first .. at - 1 : s[k] = ":"}
        xmpp == v.xmpp \/ \E k \in colons : s[k - 1] = "xmpp"
        mailto == v.mailto /\ colons = {}
        stop == Min({Len(s) + 1} \cup {k \in at + 1 .. Len(s) : ~ HostChar(s, k, xmpp)})
        np == v.np + Cardinality({k \in at + 1 .. stop - 1 : s[k] = "."})
        len == autolink_delim(SubSeq(s, at, Len(s)), stop - at)
    IN  IF first = at THEN postprocess_text(s, start, at + 1)
        ELSE IF CharAt(s, stop) = "@"
        THEN found_at(s, start, at + 1, stop, [np |-> np, mailto |-> mailto, xmpp |-> xmpp])
        ELSE IF stop < at + 2 \/ np = 0 \/ s[stop - 1] \notin Letter \cup {"."}
        THEN postprocess_text(s, start, stop)
        ELSE <<TextNode(s, start, first - 1), Address(s, first, at + len - 1, mailto)>>
             \o postprocess_text(s, at + len, at + len)
=============================================================================
