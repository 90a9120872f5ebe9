------------------------------ MODULE Packets ------------------------------
(***************************************************************************)
(* The octets of what dns-stack puts on the link and reads off it: the     *)
(* IPv6, UDP and ICMPv6 headers with their checksum (src/packet.rs) and    *)
(* the Router Advertisement with its DNS options (src/ra.rs).              *)
(*                                                                         *)
(* An octet string is a sequence of 0..255, a u16 is taken % 2^16 where    *)
(* the code casts.  A search domain is the sequence of its labels, as      *)
(* split('.') gives them.                                                  *)
(***************************************************************************)
EXTENDS Integers, Sequences, SequencesExt

CONSTANTS
  NoPacket,  \* the parser's None
  Panic      \* a slice index out of range

U8(n) == n % 256
U16(n) == n % 65536
BE16(n) == <<U16(n) \div 256, n % 256>>
BE32(n) == BE16(n \div 65536) \o BE16(n)
Octet16(octets, i) == octets[i] * 256 + octets[i + 1]

IPV6_HEADER_LEN == 40
ICMPV6_NEXT_HEADER == 58
UDP_NEXT_HEADER == 17

-----------------------------------------------------------------------------
(* packet.rs *)

build_ipv6_header(src, dst, next_header, hop_limit, payload_len) ==
  <<96, 0, 0, 0>> \o BE16(payload_len) \o <<next_header, hop_limit>> \o src \o dst

\* Octets in pairs, an odd one out left alone.  The sum is a u32 in the code and does not
\* wrap here: no sum of at most 2^16 words exceeds one, and no packet has as many.
chunks_exact_sum(sum, octets) ==
  LET after[i \in 0..(Len(octets) \div 2)] ==
        IF i = 0 THEN sum ELSE after[i - 1] + Octet16(octets, 2 * i - 1)
  IN  after[Len(octets) \div 2]

\* Slip: the odd one out is left out.
checksum_accumulateEven(sum, data) == chunks_exact_sum(sum, data)

\* It is padded with a zero.
checksum_accumulate(sum, data) ==
  chunks_exact_sum(sum, IF Len(data) % 2 = 0 THEN data ELSE Append(data, 0))

\* Slip: the carry is added once, and the carry of that is lost.
checksum_finishOnce(sum) == 65535 - U16((sum % 65536) + (sum \div 65536))

checksum_finish(sum) ==
  LET fold[s \in Nat] == IF s \div 65536 = 0 THEN s ELSE fold[(s % 65536) + (s \div 65536)]
  IN  65535 - fold[sum]

\* The length of the message, in two words, and its next header are summed too.
pseudo_header_sum(src, dst, next_header, len) ==
  LET addresses == checksum_accumulate(checksum_accumulate(0, src), dst)
  IN  addresses + U16(len \div 65536) + U16(len) + next_header

upper_layer_checksum(src, dst, next_header, message) ==
  checksum_finish(
    checksum_accumulate(pseudo_header_sum(src, dst, next_header, Len(message)), message))

\* Slip: a checksum that comes out as zero is sent as it is.
build_udp_packetZero(src, dst, sport, dport, payload, hop_limit) ==
  LET len == U16(8 + Len(payload))
      udp(sum) == BE16(sport) \o BE16(dport) \o BE16(len) \o BE16(sum) \o payload
      sum == upper_layer_checksum(src, dst, UDP_NEXT_HEADER, udp(0))
  IN  build_ipv6_header(src, dst, UDP_NEXT_HEADER, hop_limit, len) \o udp(sum)

build_udp_packet(src, dst, sport, dport, payload, hop_limit) ==
  LET len == U16(8 + Len(payload))
      udp(sum) == BE16(sport) \o BE16(dport) \o BE16(len) \o BE16(sum) \o payload
      sum == upper_layer_checksum(src, dst, UDP_NEXT_HEADER, udp(0))
  IN  build_ipv6_header(src, dst, UDP_NEXT_HEADER, hop_limit, len)
        \o udp(IF sum = 0 THEN 65535 ELSE sum)

\* &octets[from..to], counted from 1; out of range it panics.
Slice(octets, from, to) == IF to <= Len(octets) THEN SubSeq(octets, from, to) ELSE Panic

UdpV6(pkt, payload_len) ==
  LET udp == SubSeq(pkt, IPV6_HEADER_LEN + 1, Len(pkt))
      end == IF payload_len > 8 THEN payload_len ELSE 8
  IN  [src_ip |-> SubSeq(pkt, 9, 24), dst_ip |-> SubSeq(pkt, 25, 40),
       src_port |-> Octet16(udp, 1), dst_port |-> Octet16(udp, 3),
       payload |-> Slice(udp, 9, end)]

\* Slips of parse_ipv6_udp: the length in the header is trusted; it is not looked at.
parse_ipv6_udpUnchecked(pkt) ==
  IF \/ Len(pkt) < IPV6_HEADER_LEN + 8
     \/ pkt[1] \div 16 # 6
     \/ pkt[7] # UDP_NEXT_HEADER
  THEN NoPacket ELSE UdpV6(pkt, Octet16(pkt, 5))

parse_ipv6_udpWhole(pkt) ==
  IF \/ Len(pkt) < IPV6_HEADER_LEN + 8
     \/ pkt[1] \div 16 # 6
     \/ pkt[7] # UDP_NEXT_HEADER
  THEN NoPacket ELSE UdpV6(pkt, Len(pkt) - IPV6_HEADER_LEN)

parse_ipv6_udp(pkt) ==
  IF \/ Len(pkt) < IPV6_HEADER_LEN + 8
     \/ pkt[1] \div 16 # 6
     \/ pkt[7] # UDP_NEXT_HEADER
     \/ Len(pkt) - IPV6_HEADER_LEN < Octet16(pkt, 5)
  THEN NoPacket ELSE UdpV6(pkt, Octet16(pkt, 5))

-----------------------------------------------------------------------------
(* ra.rs *)

ALL_NODES_MULTICAST == <<255, 2>> \o [i \in 1..13 |-> 0] \o <<1>>
ICMPV6_RTR_SOLICIT == 133
ICMPV6_RTR_ADVERT == 134
RA_HOP_LIMIT == 255
OPT_RDNSS == 25
OPT_DNSSL == 31

encode_label(label) == <<U8(Len(label))>> \o label

\* Slip: no zero octet after a name.
encode_dnssl_namesOpen(domains) ==
  FlattenSeq([d \in DOMAIN domains |->
    FlattenSeq([l \in DOMAIN domains[d] |-> encode_label(domains[d][l])])])

encode_dnssl_names(domains) ==
  FlattenSeq([d \in DOMAIN domains |->
    FlattenSeq([l \in DOMAIN domains[d] |-> encode_label(domains[d][l])]) \o <<0>>])

build_rdnss_option(servers, lifetime) ==
  <<OPT_RDNSS, U8(1 + 2 * Len(servers)), 0, 0>> \o BE32(lifetime) \o FlattenSeq(servers)

\* Zeros up to a multiple of eight octets.
Padding(n) == [i \in 1..((8 - (n % 8)) % 8) |-> 0]

build_dnssl_option(domains, lifetime) ==
  LET names == encode_dnssl_names(domains)
      padded == names \o Padding(Len(names))
  IN  <<OPT_DNSSL, U8((8 + Len(padded)) \div 8), 0, 0>> \o BE32(lifetime) \o padded

\* Slip: the option is there even when there is no domain to put into it.
DnsOptionsAlways(cfg) ==
  build_rdnss_option(cfg.dns_servers, cfg.lifetime_secs)
    \o build_dnssl_option(cfg.search_domains, cfg.lifetime_secs)

DnsOptions(cfg) ==
  build_rdnss_option(cfg.dns_servers, cfg.lifetime_secs)
    \o (IF cfg.search_domains = <<>> THEN <<>>
        ELSE build_dnssl_option(cfg.search_domains, cfg.lifetime_secs))

build_router_advertisement(cfg, dst) ==
  LET icmp(sum) == <<ICMPV6_RTR_ADVERT, 0>> \o BE16(sum) \o <<64, 0>>
                     \o BE16(cfg.router_lifetime_secs) \o BE32(0) \o BE32(0) \o DnsOptions(cfg)
      sum == upper_layer_checksum(cfg.link_local_src, dst, ICMPV6_NEXT_HEADER, icmp(0))
  IN  build_ipv6_header(cfg.link_local_src, dst, ICMPV6_NEXT_HEADER, RA_HOP_LIMIT,
                        U16(Len(icmp(0))))
        \o icmp(sum)

is_router_solicitation(pkt) ==
  /\ Len(pkt) >= IPV6_HEADER_LEN + 8
  /\ pkt[8] = 255
  /\ pkt[7] = ICMPV6_NEXT_HEADER
  /\ pkt[IPV6_HEADER_LEN + 1] = ICMPV6_RTR_SOLICIT

solicitation_src(pkt) == IF Len(pkt) < 24 THEN NoPacket ELSE SubSeq(pkt, 9, 24)
=============================================================================
