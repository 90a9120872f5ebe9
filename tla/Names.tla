------------------------------- MODULE Names -------------------------------
(***************************************************************************)
(* What the two crates do with domain names: the routing domains of a      *)
(* configuration (dns-host-config, src/config.rs) and the name of a query  *)
(* on its way to a resolver and back (dns-stack, src/dns.rs and            *)
(* examples/basic.rs).                                                     *)
(*                                                                         *)
(* A name is a sequence of ASCII codes: the properties are about where a   *)
(* label ends, about case, and about which characters a label may have.    *)
(***************************************************************************)
EXTENDS Naturals, Sequences, SequencesExt

Dot == 46
Upper == 65..90
Lower == 97..122
Digit == 48..57
Hyphen == 45
-----------------------------------------------------------------------------
(* The standard library's part. *)

to_ascii_lowercase(s) == [i \in DOMAIN s |-> IF s[i] \in Upper THEN s[i] + 32 ELSE s[i]]

\* Without its dots at the end, all of them.
trim_end_matches(s) ==
  LET last(n) == \A i \in (n + 1)..Len(s) : s[i] = Dot
  IN  SubSeq(s, 1, CHOOSE n \in 0..Len(s) : last(n) /\ \A m \in 0..(n - 1) : ~last(m))

\* The parts between the dots; one more than there are dots, the empty ones included.
split(s) ==
  LET parts[n \in 0..Len(s)] ==
        IF n = 0 THEN << <<>> >>
        ELSE IF s[n] = Dot THEN Append(parts[n - 1], <<>>)
        ELSE Append(Front(parts[n - 1]), Append(Last(parts[n - 1]), s[n]))
  IN  parts[Len(s)]

\* The order of str: that of its octets, a prefix first.
Before(s, t) ==
  \E n \in 0..Len(s) :
    /\ n < Len(t) /\ SubSeq(s, 1, n) = SubSeq(t, 1, n)
    /\ n = Len(s) \/ s[n + 1] < t[n + 1]

\* Where those after it begin.
Insert(list, x) ==
  LET k == CHOOSE k \in 0..Len(list) :
             /\ \A i \in 1..k : ~Before(x, list[i])
             /\ \A i \in (k + 1)..Len(list) : Before(x, list[i])
  IN  InsertAt(list, k + 1, x)

sort_unstable(list) ==
  LET sorted[n \in 0..Len(list)] == IF n = 0 THEN <<>> ELSE Insert(sorted[n - 1], list[n])
  IN  sorted[Len(list)]

\* Of equal neighbours only the first stays.
dedup(list) ==
  LET kept[n \in 0..Len(list)] ==
        IF n = 0 THEN <<>>
        ELSE IF n # 1 /\ Last(kept[n - 1]) = list[n] THEN kept[n - 1]
        ELSE Append(kept[n - 1], list[n])
  IN  kept[Len(list)]
-----------------------------------------------------------------------------
(* config.rs *)

\* Slip: a label may be empty.
is_valid_domainEmpty(domain) ==
  /\ trim_end_matches(domain) # <<>>
  /\ \A label \in Range(split(trim_end_matches(domain))) :
       Range(label) \subseteq Upper \cup Lower \cup Digit \cup {Hyphen}

is_valid_domain(domain) ==
  /\ trim_end_matches(domain) # <<>>
  /\ \A label \in Range(split(trim_end_matches(domain))) :
       label # <<>> /\ Range(label) \subseteq Upper \cup Lower \cup Digit \cup {Hyphen}

\* Slips: the list is not sorted, so that equal domains need not be neighbours; the
\* final dots go last, when equal domains were looked for.
normalize_domainsUnsorted(domains) ==
  dedup([i \in DOMAIN domains |-> to_ascii_lowercase(trim_end_matches(domains[i]))])
normalize_domainsTrimLast(domains) ==
  LET kept == dedup(sort_unstable([i \in DOMAIN domains |-> to_ascii_lowercase(domains[i])]))
  IN  [i \in DOMAIN kept |-> trim_end_matches(kept[i])]

normalize_domains(domains) ==
  dedup(sort_unstable(
    [i \in DOMAIN domains |-> to_ascii_lowercase(trim_end_matches(domains[i]))]))

\* DnsRouteConfig::new.
new(servers, routing_domains) ==
  LET invalid == {i \in DOMAIN routing_domains : ~is_valid_domain(routing_domains[i])}
      first == CHOOSE i \in invalid : \A j \in invalid : i <= j
  IN
  IF servers = <<>> THEN [err |-> "NoServers"]
  ELSE IF invalid # {} THEN [err |-> "InvalidDomain", domain |-> routing_domains[first]]
  ELSE [servers |-> servers, routing_domains |-> normalize_domains(routing_domains)]
-----------------------------------------------------------------------------
(* dns.rs and examples/basic.rs *)

\* Slip: the end of the name is compared and what comes before it is not looked at.
matches_suffixAnywhere(name, suffix) ==
  IsSuffix(to_ascii_lowercase(suffix), to_ascii_lowercase(name))

matches_suffix(name, suffix) ==
  /\ Len(name) >= Len(suffix)
  /\ LET head == SubSeq(name, 1, Len(name) - Len(suffix))
         tail == SubSeq(name, Len(name) - Len(suffix) + 1, Len(name))
     IN  /\ to_ascii_lowercase(tail) = to_ascii_lowercase(suffix)
         /\ head = <<>> \/ Last(head) = Dot

\* StaticResolver::resolve, with its map from names to addresses and its suffix.
resolve(map, suffix, query) ==
  IF ~matches_suffix(query.name, suffix) THEN [reply |-> "NotMine"]
  ELSE IF query.name \in DOMAIN map THEN [reply |-> "Answer", addrs |-> <<map[query.name]>>]
  ELSE [reply |-> "NxDomain"]

\* The types of RFC 1035 and RFC 3596 that ask for an address.
from_qtype(qtype) ==
  CASE qtype = 1 -> "A" [] qtype = 28 -> "Aaaa" [] OTHER -> "Other"

\* Slip: the resolver gets the name as the client spelt it.
QueryAsSpelt(question) == [name |-> question.qname, kind |-> from_qtype(question.qtype)]

Query(question) ==
  [name |-> to_ascii_lowercase(question.qname), kind |-> from_qtype(question.qtype)]

\* The answer section: the addresses of the family that was asked for.
Records(kind, addrs) ==
  LET asked(addr) == \/ kind = "A" /\ addr.family = 4
                     \/ kind = "Aaaa" /\ addr.family = 6
      answers[n \in 0..Len(addrs)] ==
        IF n = 0 THEN <<>>
        ELSE IF asked(addrs[n]) THEN Append(answers[n - 1], addrs[n])
        ELSE answers[n - 1]
  IN  answers[Len(addrs)]

\* handle_packet, from the question to the reply's code and its records.
ReplyTo(map, suffix, question) ==
  LET query == Query(question)
      verdict == resolve(map, suffix, query)
  IN  CASE verdict.reply = "NotMine" -> [rcode |-> "Refused", answers |-> <<>>]
        [] verdict.reply = "NxDomain" -> [rcode |-> "NameError", answers |-> <<>>]
        [] verdict.reply = "Answer" ->
             [rcode |-> "NoError", answers |-> Records(query.kind, verdict.addrs)]
=============================================================================
