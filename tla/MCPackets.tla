----------------------------- MODULE MCPackets -----------------------------
(***************************************************************************)
(* The code that only computes, on inputs that grow a step at a time up to *)
(* the bounds: the octets of Packets, read back by a receiver that follows *)
(* the RFCs and not the code, and the names of Names, compared label by    *)
(* label.  The inputs are a payload and the DNS part of an RaConfig for    *)
(* the first, a name and a list of routing domains for the second; only    *)
(* one of them grows in a behaviour.                                       *)
(***************************************************************************)
EXTENDS Packets, Names

CONSTANTS
  Octets,     \* of the payload
  MaxPayload, \* bound on its length
  ManyServers, \* bound: so many servers the length octet just holds them
  MaxName,    \* bound on the length of the name
  MaxDomains  \* bound on the number of routing domains

VARIABLES payload, dns_servers, search_domains, name, routing_domains

vars == <<payload, dns_servers, search_domains, name, routing_domains>>

Address(first, last) == <<first>> \o [i \in 1..14 |-> 0] \o <<last>>
Client == Address(254, 1)
Server == Address(253, 255)
Ones == [i \in 1..16 |-> 255]

\* Labels of one to five octets, so that names end everywhere in a group of eight.
Domains == {<< <<1>> >>, << <<7, 7, 7>>, <<9, 9>> >>, << <<3, 3, 3, 3, 3>> >>}

Config(lifetime) ==
  [link_local_src |-> Client, dns_servers |-> dns_servers,
   search_domains |-> search_domains, lifetime_secs |-> lifetime,
   router_lifetime_secs |-> 0]

\* A dot, a hyphen, the last letter in both cases, and the character that follows it
\* among the capitals.
Characters == {Dot, Hyphen, 90, 122, 91}

\* Domains in several spellings, two of them not valid.
Spellings ==
  {<<122>>, <<90>>, <<122, Dot>>, <<122, Dot, Dot>>, <<Hyphen>>, <<90, Dot, 122>>,
   <<122, Dot, 90, Dot>>, <<Hyphen, Dot, 122>>, <<Dot, 122>>, <<91>>}

Init ==
  /\ payload = <<>> /\ search_domains = <<>> /\ name = <<>> /\ routing_domains = <<>>
  /\ dns_servers \in {<<Server>>, [i \in 1..(ManyServers - 1) |-> Server]}

AddOctet ==
  /\ Len(payload) < MaxPayload /\ dns_servers = <<Server>> /\ search_domains = <<>>
  /\ name = <<>> /\ routing_domains = <<>>
  /\ \E o \in Octets : payload' = Append(payload, o)
  /\ UNCHANGED <<dns_servers, search_domains, name, routing_domains>>

AddServer ==
  /\ payload = <<>> /\ name = <<>> /\ routing_domains = <<>>
  /\ Len(dns_servers) \in {1, 2, ManyServers - 1}
  /\ \E a \in {Client, Ones} : dns_servers' = Append(dns_servers, a)
  /\ UNCHANGED <<payload, search_domains, name, routing_domains>>

AddDomain ==
  /\ payload = <<>> /\ name = <<>> /\ routing_domains = <<>>
  /\ Len(search_domains) < 3
  /\ \E d \in Domains : search_domains' = Append(search_domains, d)
  /\ UNCHANGED <<payload, dns_servers, name, routing_domains>>

AddCharacter ==
  /\ payload = <<>> /\ dns_servers = <<Server>> /\ search_domains = <<>>
  /\ routing_domains = <<>> /\ Len(name) < MaxName
  /\ \E c \in Characters : name' = Append(name, c)
  /\ UNCHANGED <<payload, dns_servers, search_domains, routing_domains>>

AddRoutingDomain ==
  /\ payload = <<>> /\ dns_servers = <<Server>> /\ search_domains = <<>>
  /\ name = <<>> /\ Len(routing_domains) < MaxDomains
  /\ \E d \in Spellings : routing_domains' = Append(routing_domains, d)
  /\ UNCHANGED <<payload, dns_servers, search_domains, name>>

Next == AddOctet \/ AddServer \/ AddDomain \/ AddCharacter \/ AddRoutingDomain

Spec == Init /\ [][Next]_vars
-----------------------------------------------------------------------------
(* The receiver. *)

DatagramFrom(src, sport, dst) == build_udp_packet(src, dst, sport, 4660, payload, 64)
Datagram(src, dst) == DatagramFrom(src, 53, dst)

Ports == 0..65535

\* Source ports with which the words add up to 2^16 - 1 or twice that, so that the
\* checksum comes out as zero, or to one more, so that adding the carry carries.
EdgePorts(src, dst) ==
  LET rest == checksum_accumulate(0, src \o dst \o payload) + UDP_NEXT_HEADER + 4660
                + 2 * (8 + Len(payload))
  IN  {p \in {k * 65535 + e - rest : k \in 1..8, e \in {0, 1}} : p \in Ports}
Few == Len(dns_servers) < ManyServers - 1
Advertisement == build_router_advertisement(Config(600), ALL_NODES_MULTICAST)

\* RFC 1071: the words of the pseudo-header and the message with its checksum add up
\* to zero in one's complement, that is to a multiple of 2^16 - 1.
WordsOf(src_dst, next_header, message) ==
  src_dst \o BE32(Len(message)) \o <<0, 0, 0, next_header>> \o message
    \o (IF Len(message) % 2 = 0 THEN <<>> ELSE <<0>>)

OnesComplementSum(words) ==
  LET sum[i \in 0..(Len(words) \div 2)] ==
        IF i = 0 THEN 0 ELSE (sum[i - 1] + Octet16(words, 2 * i - 1)) % 65535
  IN  sum[Len(words) \div 2]

Verifies(pkt) ==
  OnesComplementSum(WordsOf(SubSeq(pkt, 9, 40), pkt[7], SubSeq(pkt, 41, Len(pkt)))) = 0

\* RFC 4861: each option is as long as its second octet says, in units of eight.
ReadOptions(octets) ==
  LET last[left \in 0..Len(octets)] ==
        LET start == Len(octets) - left
            size == 8 * octets[start + 2]
        IN  IF left = 0 THEN <<>>
            ELSE IF left = 1 \/ size = 0 \/ size > left THEN <<Panic>>
            ELSE <<SubSeq(octets, start + 1, start + size)>> \o last[left - size]
  IN  last[Len(octets)]

\* RFC 1035: a label after its length, or the zero that ends a name or is padding.
ReadLabel(octets, read) ==
  LET size == octets[read.at + 1] IN
  IF read.at = Len(octets) THEN read
  ELSE IF read.at + 1 + size > Len(octets)
  THEN [at |-> Len(octets), labels |-> <<>>, names |-> Append(read.names, Panic)]
  ELSE IF size # 0
  THEN [at |-> read.at + 1 + size,
        labels |-> Append(read.labels, SubSeq(octets, read.at + 2, read.at + 1 + size)),
        names |-> read.names]
  ELSE [at |-> read.at + 1, labels |-> <<>>,
        names |-> IF read.labels = <<>> THEN read.names ELSE Append(read.names, read.labels)]

\* Names one after the other, up to the padding.
ReadNames(octets) ==
  LET read[n \in 0..Len(octets)] ==
        IF n = 0 THEN [at |-> 0, labels |-> <<>>, names |-> <<>>]
        ELSE ReadLabel(octets, read[n - 1])
      end == read[Len(octets)]
  IN  IF end.labels = <<>> THEN end.names ELSE Append(end.names, Panic)

ReadRdnss(option) ==
  [type |-> option[1],
   servers |-> [k \in 1..((Len(option) - 8) \div 16) |->
                  SubSeq(option, 16 * k - 7, 16 * k + 8)]]

ReadDnssl(option) ==
  [type |-> option[1], domains |-> ReadNames(SubSeq(option, 9, Len(option)))]
-----------------------------------------------------------------------------
(* Names as RFC 1034 compares them. *)

\* Label by label, whatever the case.
Labels(text) == split(to_ascii_lowercase(text))

\* A domain spelt with its final dot, or dots, is the domain.
Denoted(list) == {Labels(trim_end_matches(list[i])) : i \in DOMAIN list}

Served == {<<>>, <<122>>, <<90, Hyphen>>, <<91>>, <<122, Dot, 90>>, <<Hyphen, Dot, 122>>}

\* Two names under the suffix z, one of each family of addresses, in lower case.
AddressMap ==
  [host \in {<<122>>, <<Hyphen, Dot, 122>>} |->
     IF host = <<122>> THEN [family |-> 4, address |-> 1] ELSE [family |-> 6, address |-> 2]]
-----------------------------------------------------------------------------
\* Every packet the stack builds passes the receiver's checksum test, whatever the
\* carries and the parity of its length, and no datagram goes out with a checksum
\* of zero, which stands for none.
ChecksumsVerify ==
  /\ \A src, dst \in {Client, Server, Ones} :
       \A sport \in {53} \cup EdgePorts(src, dst) :
         LET pkt == DatagramFrom(src, sport, dst) IN Verifies(pkt) /\ Octet16(pkt, 47) # 0
  /\ Few => Verifies(Advertisement)

\* What is built is what is parsed, also when the link has padded the packet.
DatagramRoundTrip ==
  \A padding \in {<<>>, <<0, 0, 0>>} :
    parse_ipv6_udp(Datagram(Server, Client) \o padding) =
      [src_ip |-> Server, dst_ip |-> Client, src_port |-> 53, dst_port |-> 4660,
       payload |-> payload]

\* However short the packet is cut, and whatever its length field says then, the
\* parser either gives it up or stays within it.
ParseStaysInBounds ==
  \A cut \in {0, 7, 39, 40, 47} \cup 48..(48 + Len(payload)), len \in {0, 7, 8, 9, 12, 255} :
    LET sent == Datagram(Server, Client)
        pkt == [i \in 1..cut |-> IF i = 6 THEN len ELSE sent[i]]
        parsed == parse_ipv6_udp(pkt)
    IN  parsed # NoPacket => parsed.payload # Panic

\* A host that reads the options of an advertisement one by one finds the servers
\* and the domains of the configuration, in order, and nothing else; the stack
\* itself, should the link hand it back, does not take it for a solicitation.
AdvertisementDecodes ==
  LET options == ReadOptions(DnsOptions(Config(600))) IN
  /\ options # <<>> /\ options[1] # Panic
  /\ ReadRdnss(options[1]) = [type |-> OPT_RDNSS, servers |-> dns_servers]
  /\ IF search_domains = <<>> THEN Len(options) = 1
     ELSE /\ Len(options) = 2 /\ options[2] # Panic
          /\ ReadDnssl(options[2]) = [type |-> OPT_DNSSL, domains |-> search_domains]
  /\ Few => /\ Octet16(Advertisement, 5) = Len(Advertisement) - 40
            /\ SubSeq(Advertisement, 57, Len(Advertisement)) = DnsOptions(Config(600))
            /\ ~is_router_solicitation(Advertisement)

\* Split DNS sends each question where it belongs, whatever the case the client spelt
\* it in.  A suffix stands for the names that end in its labels, not in its letters.
\* A name outside the served suffix is refused, so that the client asks its other
\* resolvers; a name inside is answered with the mapped address if that is of the
\* family asked for, with an empty answer if it is not, and only a name that is not
\* mapped at all is said not to exist.
RefusesExactlyOthers ==
  /\ \A suffix \in Served :
       matches_suffix(name, suffix) <=> IsSuffix(Labels(suffix), Labels(name))
  /\ \A qtype \in {1, 15, 28} :
       LET reply == ReplyTo(AddressMap, <<122>>, [qname |-> name, qtype |-> qtype])
           mapped == {n \in DOMAIN AddressMap : Labels(n) = Labels(name)}
           asked == IF qtype = 1 THEN 4 ELSE IF qtype = 28 THEN 6 ELSE 0
       IN  /\ (reply.rcode = "Refused") <=> (Last(Labels(name)) # <<122>>)
           /\ reply.rcode = "NoError" <=> mapped # {}
           /\ ToSet(reply.answers) =
                {addr \in {AddressMap[n] : n \in mapped} : addr.family = asked}

\* A routing domain is accepted exactly if it is labels of letters, digits and hyphens
\* with a dot between two of them, and dots at the end: no dot comes first, and
\* nothing but dots comes after two in a row.
AcceptsExactlyDomains ==
  is_valid_domain(name) <=>
    /\ name # <<>> /\ name[1] # Dot
    /\ \A i \in DOMAIN name : name[i] # 91
    /\ \A i \in 1..(Len(name) - 2) :
         name[i] = Dot /\ name[i + 1] = Dot => name[i + 2] = Dot

\* Normalisation neither loses nor invents a domain, leaves none in twice, and two
\* configurations are equal exactly if their lists denote the same domains, whatever
\* the order, the case, the final dots and the repetitions of either.  The first
\* domain that is not valid is the one reported.
EqualConfigsRouteAlike ==
  LET lists == {<<>>} \cup {<<d, e>> : d, e \in Spellings}
      config(list) == new(<<Server>>, list)
      mine == config(routing_domains)
      bad == {i \in DOMAIN routing_domains : routing_domains[i] \in {<<Dot, 122>>, <<91>>}}
  IN  IF bad # {}
      THEN \E i \in bad : /\ \A j \in bad : i <= j
                          /\ mine = [err |-> "InvalidDomain", domain |-> routing_domains[i]]
      ELSE /\ Denoted(mine.routing_domains) = Denoted(routing_domains)
           /\ Len(mine.routing_domains) = Cardinality(Denoted(routing_domains))
           /\ \A list \in lists :
                mine = config(list) <=>
                  "err" \notin DOMAIN config(list) /\ Denoted(list) = Denoted(routing_domains)
=============================================================================
