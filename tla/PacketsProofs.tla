--------------------------- MODULE PacketsProofs ----------------------------
(***************************************************************************)
(* Packets of any length, between any two addresses: what a receiver reads *)
(* in them.                                                                *)
(***************************************************************************)
EXTENDS MCPackets, ChecksumProofs

Addresses == {a \in Seq(Octet) : Len(a) = 16}

\* An octet is what the modules say an octet is.
LEMMA OctetRange ==
  Octet = 0..255
  BY DEF Octet
-----------------------------------------------------------------------------
(* Layout. *)

\* Where the parts of two strings put together are.
LEMMA PartsOf ==
  ASSUME NEW a \in Seq(Octet), NEW b \in Seq(Octet)
  PROVE  /\ a \o b \in Seq(Octet) /\ Len(a \o b) = Len(a) + Len(b)
         /\ \A i \in 1..Len(a) : (a \o b)[i] = a[i]
         /\ \A i \in 1..Len(b) : (a \o b)[Len(a) + i] = b[i]
<1>1. Len(a) \in Nat /\ Len(b) \in Nat
  BY LenProperties
<1>2. /\ a \o b \in Seq(Octet) /\ Len(a \o b) = Len(a) + Len(b)
      /\ \A i \in 1..Len(a) + Len(b) : (a \o b)[i] = IF i <= Len(a) THEN a[i] ELSE b[i - Len(a)]
  BY ConcatProperties
<1>3. ASSUME NEW i \in 1..Len(b)
      PROVE  (a \o b)[Len(a) + i] = b[i]
  <2>1. Len(a) + i \in 1..Len(a) + Len(b) /\ ~(Len(a) + i <= Len(a)) /\ (Len(a) + i) - Len(a) = i
    BY <1>1
  <2> QED
    BY <1>2, <2>1
<1>4. ASSUME NEW i \in 1..Len(a)
      PROVE  (a \o b)[i] = a[i]
  BY <1>1, <1>2
<1> QED
  BY <1>2, <1>3, <1>4

LEMMA Associative ==
  ASSUME NEW a \in Seq(Octet), NEW b \in Seq(Octet), NEW c \in Seq(Octet)
  PROVE  (a \o b) \o c = a \o (b \o c)
  BY ConcatAssociative

\* A part is cut out whole.
LEMMA CutOut ==
  ASSUME NEW s \in Seq(Octet), NEW part \in Seq(Octet), NEW m \in Nat,
         m + Len(part) <= Len(s), \A i \in 1..Len(part) : s[m + i] = part[i]
  PROVE  SubSeq(s, m + 1, m + Len(part)) = part
<1> DEFINE n == m + Len(part)
           cut == SubSeq(s, m + 1, n)
<1>1. Len(part) \in Nat /\ Len(s) \in Nat
  BY LenProperties
<1>2. \A i \in (m + 1)..n : s[i] \in Octet
  BY <1>1, ElementOfSeq
<1>3. /\ cut \in Seq(Octet) /\ Len(cut) = Len(part)
      /\ \A i \in 1..Len(part) : cut[i] = s[(m + 1) + i - 1]
  <2>1. m + 1 \in Int /\ n \in Int /\ n - (m + 1) + 1 = Len(part)
        /\ (m + 1 <= n <=> Len(part) # 0)
    BY <1>1
  <2> HIDE DEF n
  <2> QED
    BY <1>1, <1>2, <2>1, SubSeqProperties
<1>4. \A i \in 1..Len(part) : cut[i] = part[i]
  BY <1>1, <1>3
<1> HIDE DEF cut
<1>5. cut = part
  BY <1>3, <1>4, SeqEqual
<1> QED
  BY <1>5 DEF cut

\* pkt is a header of these fields and what comes after it.
IsPacket(pkt, src, dst, next_header, hop_limit, len, body) ==
  /\ pkt \in Seq(Octet) /\ Len(pkt) = 40 + Len(body)
  /\ pkt[1] = 96 /\ Octet16(pkt, 5) = len
  /\ pkt[7] = next_header /\ pkt[8] = hop_limit
  /\ SubSeq(pkt, 9, 24) = src /\ SubSeq(pkt, 25, 40) = dst
  /\ \A i \in 1..Len(body) : pkt[40 + i] = body[i]

LEMMA HeaderFields ==
  ASSUME NEW src \in Addresses, NEW dst \in Addresses, NEW next_header \in Octet,
         NEW hop_limit \in Octet, NEW len \in Word, NEW body \in Seq(Octet)
  PROVE  LET header == build_ipv6_header(src, dst, next_header, hop_limit, len) IN
         /\ header \in Seq(Octet) /\ Len(header) = 40
         /\ IsPacket(header \o body, src, dst, next_header, hop_limit, len, body)
<1> DEFINE h1 == <<96, 0, 0, 0>>
           h2 == h1 \o BE16(len)
           tail == <<next_header, hop_limit>>
           h3 == h2 \o tail
           h4 == h3 \o src
           h5 == h4 \o dst
           pkt == h5 \o body
<1>1. h1 \in Seq(Octet) /\ Len(h1) = 4 /\ h1[1] = 96
  <2>1. 96 \in Octet /\ 0 \in Octet
    BY DEF Octet
  <2> QED
    BY <2>1
<1>2. /\ BE16(len) \in Seq(Octet) /\ Len(BE16(len)) = 2 /\ Octet16(BE16(len), 1) = len
  BY WordOctets DEF Word
<1>3. /\ tail \in Seq(Octet) /\ Len(tail) = 2 /\ tail[1] = next_header /\ tail[2] = hop_limit
  OBVIOUS
<1>4. src \in Seq(Octet) /\ Len(src) = 16 /\ dst \in Seq(Octet) /\ Len(dst) = 16
  BY DEF Addresses
<1>5. Len(body) \in Nat
  BY LenProperties
<1> HIDE DEF h1, tail
<1>6. /\ h2 \in Seq(Octet) /\ Len(h2) = 6 /\ h2[1] = 96
      /\ h2[5] = BE16(len)[1] /\ h2[6] = BE16(len)[2]
  <2>1. /\ h2 \in Seq(Octet) /\ Len(h2) = Len(h1) + Len(BE16(len))
        /\ \A i \in 1..Len(h1) : h2[i] = h1[i]
        /\ \A i \in 1..Len(BE16(len)) : h2[Len(h1) + i] = BE16(len)[i]
    BY <1>1, <1>2, PartsOf, ZenonT(60)
  <2> HIDE DEF h2
  <2> QED
    BY <1>1, <1>2, <2>1
<1> HIDE DEF h2
<1>7. /\ h3 \in Seq(Octet) /\ Len(h3) = 8 /\ \A i \in 1..6 : h3[i] = h2[i]
      /\ h3[7] = next_header /\ h3[8] = hop_limit
  <2>1. /\ h3 \in Seq(Octet) /\ Len(h3) = Len(h2) + Len(tail)
        /\ \A i \in 1..Len(h2) : h3[i] = h2[i]
        /\ \A i \in 1..Len(tail) : h3[Len(h2) + i] = tail[i]
    BY <1>3, <1>6, PartsOf
  <2> HIDE DEF h3
  <2> QED
    BY <1>3, <1>6, <2>1
<1> HIDE DEF h3
<1>8. /\ h4 \in Seq(Octet) /\ Len(h4) = 24 /\ \A i \in 1..8 : h4[i] = h3[i]
      /\ \A i \in 1..16 : h4[8 + i] = src[i]
  <2>1. /\ h4 \in Seq(Octet) /\ Len(h4) = Len(h3) + Len(src)
        /\ \A i \in 1..Len(h3) : h4[i] = h3[i]
        /\ \A i \in 1..Len(src) : h4[Len(h3) + i] = src[i]
    BY <1>4, <1>7, PartsOf, ZenonT(60)
  <2>2. Len(h3) = 8 /\ Len(src) = 16
    BY <1>4, <1>7
  <2> HIDE DEF h4
  <2> QED
    BY <2>1, <2>2
<1> HIDE DEF h4
<1>9. /\ h5 \in Seq(Octet) /\ Len(h5) = 40 /\ \A i \in 1..24 : h5[i] = h4[i]
      /\ \A i \in 1..16 : h5[24 + i] = dst[i]
  <2>1. /\ h5 \in Seq(Octet) /\ Len(h5) = Len(h4) + Len(dst)
        /\ \A i \in 1..Len(h4) : h5[i] = h4[i]
        /\ \A i \in 1..Len(dst) : h5[Len(h4) + i] = dst[i]
    BY <1>4, <1>8, PartsOf, ZenonT(60)
  <2>2. Len(h4) = 24 /\ Len(dst) = 16
    BY <1>4, <1>8
  <2> HIDE DEF h5
  <2> QED
    BY <2>1, <2>2
<1> HIDE DEF h5
<1>10. /\ pkt \in Seq(Octet) /\ Len(pkt) = 40 + Len(body) /\ \A i \in 1..40 : pkt[i] = h5[i]
       /\ \A i \in 1..Len(body) : pkt[40 + i] = body[i]
  <2>1. /\ pkt \in Seq(Octet) /\ Len(pkt) = Len(h5) + Len(body)
        /\ \A i \in 1..Len(h5) : pkt[i] = h5[i]
        /\ \A i \in 1..Len(body) : pkt[Len(h5) + i] = body[i]
    BY <1>9, PartsOf, ZenonT(60)
  <2>2. Len(h5) = 40
    BY <1>9
  <2> HIDE DEF pkt
  <2> QED
    BY <2>1, <2>2, <1>5
<1>11. h5 = build_ipv6_header(src, dst, next_header, hop_limit, len)
  BY DEF build_ipv6_header, h5, h4, h3, h2, h1, tail
<1> HIDE DEF pkt
<1>12. ASSUME NEW i \in 1..8
       PROVE  pkt[i] = h3[i]
  <2>1. i \in 1..24 /\ i \in 1..40
    OBVIOUS
  <2> QED
    BY <1>8, <1>9, <1>10, <2>1, Zenon
<1>13. pkt[1] = 96 /\ pkt[5] = BE16(len)[1] /\ pkt[6] = BE16(len)[2]
  BY <1>6, <1>7, <1>12
<1>14. Octet16(pkt, 5) = len
  BY <1>2, <1>13 DEF Octet16
<1>15. pkt[7] = next_header /\ pkt[8] = hop_limit
  BY <1>7, <1>12
<1>16. SubSeq(pkt, 9, 24) = src
  <2>1. ASSUME NEW i \in 1..Len(src)
        PROVE  pkt[8 + i] = src[i]
    <3>1. i \in 1..16
      BY <1>4
    <3>2. 8 + i \in 1..40 /\ 8 + i \in 1..24
      BY <3>1
    <3>3. pkt[8 + i] = h4[8 + i]
      BY <1>9, <1>10, <3>2, Zenon
    <3> QED
      BY <1>8, <3>1, <3>3, Zenon
  <2>2. 8 \in Nat /\ 8 + Len(src) <= Len(pkt)
    BY <1>4, <1>5, <1>10
  <2>3. SubSeq(pkt, 8 + 1, 8 + Len(src)) = src
    BY <1>4, <1>10, <2>1, <2>2, CutOut
  <2> QED
    BY <1>4, <2>3
<1>17. SubSeq(pkt, 25, 40) = dst
  <2>1. ASSUME NEW i \in 1..Len(dst)
        PROVE  pkt[24 + i] = dst[i]
    <3>1. i \in 1..16
      BY <1>4
    <3>2. 24 + i \in 1..40
      BY <3>1
    <3> QED
      BY <1>9, <1>10, <3>1, <3>2, Zenon
  <2>2. 24 \in Nat /\ 24 + Len(dst) <= Len(pkt)
    BY <1>4, <1>5, <1>10
  <2>3. SubSeq(pkt, 24 + 1, 24 + Len(dst)) = dst
    BY <1>4, <1>10, <2>1, <2>2, CutOut
  <2> QED
    BY <1>4, <2>3
<1>18. IsPacket(pkt, src, dst, next_header, hop_limit, len, body)
  BY <1>10, <1>13, <1>14, <1>15, <1>16, <1>17 DEF IsPacket
<1> QED
  BY <1>9, <1>11, <1>18 DEF pkt

\* The UDP header and what it carries.
UdpMessage(sport, dport, len, sum, body) ==
  BE16(sport) \o BE16(dport) \o BE16(len) \o BE16(sum) \o body

LEMMA UdpFields ==
  ASSUME NEW sport \in Word, NEW dport \in Word, NEW len \in Word, NEW sum \in Word,
         NEW body \in Seq(Octet)
  PROVE  LET udp == UdpMessage(sport, dport, len, sum, body) IN
         /\ udp \in Seq(Octet) /\ Len(udp) = 8 + Len(body)
         /\ Octet16(udp, 1) = sport /\ Octet16(udp, 3) = dport /\ Octet16(udp, 7) = sum
         /\ \A i \in 1..Len(body) : udp[8 + i] = body[i]
<1> DEFINE u2 == BE16(sport) \o BE16(dport)
           u3 == u2 \o BE16(len)
           u4 == u3 \o BE16(sum)
           udp == u4 \o body
<1>1. ASSUME NEW n \in Word
      PROVE  BE16(n) \in Seq(Octet) /\ Len(BE16(n)) = 2 /\ Octet16(BE16(n), 1) = n
  BY WordOctets DEF Word
<1>2. /\ u2 \in Seq(Octet) /\ Len(u2) = 4
      /\ u2[1] = BE16(sport)[1] /\ u2[2] = BE16(sport)[2]
      /\ u2[3] = BE16(dport)[1] /\ u2[4] = BE16(dport)[2]
  <2>1. /\ u2 \in Seq(Octet) /\ Len(u2) = Len(BE16(sport)) + Len(BE16(dport))
        /\ \A i \in 1..Len(BE16(sport)) : u2[i] = BE16(sport)[i]
        /\ \A i \in 1..Len(BE16(dport)) : u2[Len(BE16(sport)) + i] = BE16(dport)[i]
    BY <1>1, PartsOf
  <2> HIDE DEF u2
  <2>2. Len(BE16(sport)) = 2 /\ Len(BE16(dport)) = 2
    BY <1>1
  <2> QED
    BY <2>1, <2>2
<1> HIDE DEF u2
<1>3. u3 \in Seq(Octet) /\ Len(u3) = 6 /\ \A i \in 1..4 : u3[i] = u2[i]
  <2>1. /\ u3 \in Seq(Octet) /\ Len(u3) = Len(u2) + Len(BE16(len))
        /\ \A i \in 1..Len(u2) : u3[i] = u2[i]
    BY <1>1, <1>2, PartsOf
  <2>2. Len(u2) = 4 /\ Len(BE16(len)) = 2
    BY <1>1, <1>2
  <2> HIDE DEF u3
  <2> QED
    BY <2>1, <2>2
<1> HIDE DEF u3
<1>4. /\ u4 \in Seq(Octet) /\ Len(u4) = 8 /\ \A i \in 1..6 : u4[i] = u3[i]
      /\ u4[7] = BE16(sum)[1] /\ u4[8] = BE16(sum)[2]
  <2>1. /\ u4 \in Seq(Octet) /\ Len(u4) = Len(u3) + Len(BE16(sum))
        /\ \A i \in 1..Len(u3) : u4[i] = u3[i]
        /\ \A i \in 1..Len(BE16(sum)) : u4[Len(u3) + i] = BE16(sum)[i]
    BY <1>1, <1>3, PartsOf
  <2>2. Len(u3) = 6 /\ Len(BE16(sum)) = 2
    BY <1>1, <1>3
  <2> HIDE DEF u4
  <2> QED
    BY <2>1, <2>2
<1> HIDE DEF u4
<1>5. /\ udp \in Seq(Octet) /\ Len(udp) = 8 + Len(body) /\ \A i \in 1..8 : udp[i] = u4[i]
      /\ \A i \in 1..Len(body) : udp[8 + i] = body[i]
  <2>1. /\ udp \in Seq(Octet) /\ Len(udp) = Len(u4) + Len(body)
        /\ \A i \in 1..Len(u4) : udp[i] = u4[i]
        /\ \A i \in 1..Len(body) : udp[Len(u4) + i] = body[i]
    BY <1>4, PartsOf
  <2>2. Len(u4) = 8
    BY <1>4
  <2> HIDE DEF udp
  <2> QED
    BY <2>1, <2>2
<1>6. udp = UdpMessage(sport, dport, len, sum, body)
  BY DEF UdpMessage, u4, u3, u2
<1> HIDE DEF udp
<1>7. /\ udp[1] = BE16(sport)[1] /\ udp[2] = BE16(sport)[2]
      /\ udp[3] = BE16(dport)[1] /\ udp[4] = BE16(dport)[2]
      /\ udp[7] = BE16(sum)[1] /\ udp[8] = BE16(sum)[2]
  BY <1>2, <1>3, <1>4, <1>5
<1>8. Octet16(udp, 1) = sport /\ Octet16(udp, 3) = dport /\ Octet16(udp, 7) = sum
  BY <1>1, <1>7 DEF Octet16
<1> QED
  BY <1>5, <1>6, <1>8

\* A datagram that is built is a header of the right length, and a message with a
\* checksum that adds up and is not zero.
LEMMA BuiltDatagram ==
  ASSUME NEW src \in Addresses, NEW dst \in Addresses, NEW sport \in Word, NEW dport \in Word,
         NEW body \in Seq(Octet), NEW hop_limit \in Octet
  PROVE  LET len == U16(8 + Len(body)) IN
         /\ len \in Word
         /\ \E sum \in Word \ {0} :
              LET udp == UdpMessage(sport, dport, len, sum, body) IN
              /\ build_udp_packet(src, dst, sport, dport, body, hop_limit) =
                   build_ipv6_header(src, dst, UDP_NEXT_HEADER, hop_limit, len) \o udp
              /\ udp \in Seq(Octet)
              /\ AddsUp(src, dst, UDP_NEXT_HEADER, udp)
<1> DEFINE len == U16(8 + Len(body))
           udp(n) == UdpMessage(sport, dport, len, n, body)
           front == BE16(sport) \o BE16(dport) \o BE16(len)
           sum == upper_layer_checksum(src, dst, UDP_NEXT_HEADER, udp(0))
           sent == IF sum = 0 THEN AllOnes ELSE sum
<1>1. len \in Word
  BY LenProperties DEF U16, Word
<1>2. /\ build_udp_packet(src, dst, sport, dport, body, hop_limit) =
           build_ipv6_header(src, dst, UDP_NEXT_HEADER, hop_limit, len) \o udp(sent)
  BY DEF build_udp_packet, UdpMessage, AllOnes
<1> HIDE DEF len
<1>3. front \in Seq(Octet) /\ Len(front) = 6
  <2>1. ASSUME NEW n \in Word
        PROVE  BE16(n) \in Seq(Octet) /\ Len(BE16(n)) = 2
    BY WordOctets DEF Word
  <2> DEFINE ports == BE16(sport) \o BE16(dport)
  <2>2. ports \in Seq(Octet) /\ Len(ports) = Len(BE16(sport)) + Len(BE16(dport))
    BY <2>1, PartsOf
  <2>3. Len(ports) = 4
    <3>1. Len(BE16(sport)) = 2 /\ Len(BE16(dport)) = 2
      BY <2>1
    <3> HIDE DEF ports
    <3> QED
      BY <2>2, <3>1
  <2>4. BE16(len) \in Seq(Octet) /\ Len(BE16(len)) = 2
    BY <1>1, <2>1
  <2> HIDE DEF ports
  <2>5. ports \o BE16(len) \in Seq(Octet) /\ Len(ports \o BE16(len)) = Len(ports) + Len(BE16(len))
    BY <2>2, <2>4, PartsOf
  <2> QED
    BY <2>3, <2>4, <2>5 DEF ports
<1>4. \A n : udp(n) = WithSum(front, n, body)
  BY DEF UdpMessage, WithSum
<1>5. src \in Seq(Octet) /\ dst \in Seq(Octet) /\ UDP_NEXT_HEADER \in Octet
  BY DEF Addresses, UDP_NEXT_HEADER, Octet
<1>6. /\ sum \in Word
      /\ AddsUp(src, dst, UDP_NEXT_HEADER, udp(sum))
      /\ sum = 0 => AddsUp(src, dst, UDP_NEXT_HEADER, udp(AllOnes))
  <2> HIDE DEF front, udp
  <2>1. Len(front) % 2 = 0
    BY <1>3
  <2> DEFINE check == upper_layer_checksum(src, dst, UDP_NEXT_HEADER, WithSum(front, 0, body))
  <2>2. /\ check \in Word
        /\ AddsUp(src, dst, UDP_NEXT_HEADER, WithSum(front, check, body))
        /\ check = 0 => AddsUp(src, dst, UDP_NEXT_HEADER, WithSum(front, AllOnes, body))
    BY <1>3, <1>5, <2>1, MessagesAddUp, Zenon
  <2>3. sum = check
    BY <1>4
  <2> HIDE DEF check, sum
  <2> QED
    BY <1>4, <2>2, <2>3
<1> HIDE DEF front, udp, sum
<1>7. sent \in Word \ {0} /\ AddsUp(src, dst, UDP_NEXT_HEADER, udp(sent))
  BY <1>6 DEF Word, AllOnes
<1> HIDE DEF sent
<1>8. udp(sent) \in Seq(Octet)
  BY <1>1, <1>7, UdpFields DEF udp
<1> QED
  BY <1>1, <1>2, <1>7, <1>8 DEF udp, len
-----------------------------------------------------------------------------
(* The parser. *)

\* For every string of octets: the parser gives it up, or finds a payload that lies
\* within it, as long as the length field says but for the header.
THEOREM ParserStaysInside ==
  ASSUME NEW pkt \in Seq(Octet), parse_ipv6_udp(pkt) # NoPacket
  PROVE  LET len == Octet16(pkt, 5)
             end == 40 + IF len > 8 THEN len ELSE 8
         IN  /\ end <= Len(pkt)
             /\ parse_ipv6_udp(pkt).payload = SubSeq(pkt, 49, end)
             /\ parse_ipv6_udp(pkt).payload \in Seq(Octet)
<1> DEFINE len == Octet16(pkt, 5)
           end == IF len > 8 THEN len ELSE 8
           udp == SubSeq(pkt, 41, Len(pkt))
<1>1. Len(pkt) \in Nat
  BY LenProperties
<1>2. /\ Len(pkt) >= 48 /\ Len(pkt) - 40 >= len /\ parse_ipv6_udp(pkt) = UdpV6(pkt, len)
  <2>1. ~(Len(pkt) < 48) /\ ~(Len(pkt) - 40 < len) /\ parse_ipv6_udp(pkt) = UdpV6(pkt, len)
    BY DEF parse_ipv6_udp, IPV6_HEADER_LEN
  <2>2. 5 \in 1..(Len(pkt) - 1)
    BY <1>1, <2>1
  <2>3. len \in Nat
    BY <2>2, PairIsWord DEF Word
  <2> QED
    BY <1>1, <2>1, <2>3
<1>3. len \in Nat
  <2>1. 5 \in 1..(Len(pkt) - 1)
    BY <1>1, <1>2
  <2> QED
    BY <2>1, PairIsWord DEF Word
<1>4. parse_ipv6_udp(pkt).payload = Slice(udp, 9, end)
  BY <1>2 DEF UdpV6, IPV6_HEADER_LEN
<1> HIDE DEF len
<1>5. end \in Nat /\ end >= 8 /\ end <= Len(pkt) - 40
  BY <1>1, <1>2, <1>3
<1> HIDE DEF end
<1>6. udp \in Seq(Octet) /\ Len(udp) = Len(pkt) - 40
  <2>1. \A i \in 41..Len(pkt) : pkt[i] \in Octet
    BY <1>1, ElementOfSeq
  <2> QED
    BY <1>1, <1>2, <2>1, SubSeqProperties
<1>7. Slice(udp, 9, end) = SubSeq(udp, 9, end)
  BY <1>5, <1>6 DEF Slice
<1>8. SubSeq(udp, 9, end) = SubSeq(pkt, 49, 40 + end)
  <2>1. CASE end = 8
    <3>1. SubSeq(udp, 9, end) = <<>>
      BY <2>1, SubSeqEmpty
    <3>2. SubSeq(pkt, 49, 40 + end) = <<>>
      BY <2>1, SubSeqEmpty
    <3> QED
      BY <3>1, <3>2
  <2>2. CASE end # 8
    <3>1. /\ 41 \in 1..Len(pkt) /\ Len(pkt) \in 1..Len(pkt)
          /\ 9 \in 1..(Len(pkt) - 41 + 1) /\ end \in 1..(Len(pkt) - 41 + 1)
          /\ 41 + 9 - 1 = 49 /\ 41 + end - 1 = 40 + end
      BY <1>1, <1>2, <1>5, <2>2
    <3> QED
      BY <3>1, SubSeqOfSubSeq
  <2> QED
    BY <2>1, <2>2
<1>9. SubSeq(udp, 9, end) \in Seq(Octet)
  <2>1. \A i \in 9..end : udp[i] \in Octet
    BY <1>5, <1>6, ElementOfSeq
  <2> QED
    BY <1>5, <2>1, SubSeqProperties
<1>10. 40 + end <= Len(pkt)
  BY <1>1, <1>5
<1>11. /\ parse_ipv6_udp(pkt).payload = SubSeq(pkt, 49, 40 + end)
       /\ parse_ipv6_udp(pkt).payload \in Seq(Octet)
  <2> HIDE DEF udp
  <2> QED
    BY <1>4, <1>7, <1>8, <1>9, Zenon
<1> QED
  BY <1>10, <1>11 DEF end, len

\* The longest payload whose datagram has a length of 16 bits.
LongestPayload == 65527

\* What is built is what is parsed: whatever the addresses, the ports, the payload that
\* a datagram can hold, and what the link has put after it.
THEOREM RoundTrip ==
  ASSUME NEW src \in Addresses, NEW dst \in Addresses, NEW sport \in Word, NEW dport \in Word,
         NEW body \in Seq(Octet), Len(body) <= LongestPayload, NEW hop_limit \in Octet,
         NEW padding \in Seq(Octet)
  PROVE  parse_ipv6_udp(build_udp_packet(src, dst, sport, dport, body, hop_limit) \o padding) =
           [src_ip |-> src, dst_ip |-> dst, src_port |-> sport, dst_port |-> dport,
            payload |-> body]
<1> DEFINE len == U16(8 + Len(body))
           udp(n) == UdpMessage(sport, dport, len, n, body)
           header == build_ipv6_header(src, dst, UDP_NEXT_HEADER, hop_limit, len)
           built == build_udp_packet(src, dst, sport, dport, body, hop_limit)
           pkt == built \o padding
<1>0. Len(body) \in Nat /\ Len(padding) \in Nat
  BY LenProperties
<1>1. len \in Word /\ len = 8 + Len(body)
  BY <1>0 DEF U16, Word, LongestPayload
<1>2. PICK sum \in Word \ {0} :
        /\ built = header \o udp(sum)
        /\ udp(sum) \in Seq(Octet)
        /\ AddsUp(src, dst, UDP_NEXT_HEADER, udp(sum))
  BY BuiltDatagram
<1> DEFINE message == udp(sum)
           rest == message \o padding
<1> HIDE DEF len, built
<1>3. /\ message \in Seq(Octet) /\ Len(message) = 8 + Len(body)
      /\ Octet16(message, 1) = sport /\ Octet16(message, 3) = dport
      /\ \A i \in 1..Len(body) : message[8 + i] = body[i]
  <2>1. sum \in Word /\ len \in Word
    BY <1>1
  <2> QED
    BY <2>1, UdpFields, SMTT(30)
<1>4. UDP_NEXT_HEADER \in Octet
  BY DEF UDP_NEXT_HEADER, Octet
<1> HIDE DEF udp
<1>5. /\ rest \in Seq(Octet) /\ Len(rest) = 8 + Len(body) + Len(padding)
      /\ \A i \in 1..(8 + Len(body)) : rest[i] = message[i]
  <2>1. /\ rest \in Seq(Octet) /\ Len(rest) = Len(message) + Len(padding)
        /\ \A i \in 1..Len(message) : rest[i] = message[i]
    BY <1>3, PartsOf
  <2> HIDE DEF rest
  <2> QED
    BY <1>3, <2>1
<1>6. header \in Seq(Octet)
  BY <1>1, <1>3, <1>4, HeaderFields
<1>7. pkt = header \o rest
  <2>1. pkt = (header \o message) \o padding
    BY <1>2
  <2> HIDE DEF pkt, header, message
  <2> QED
    BY <1>3, <1>6, <2>1, Associative
<1>8. /\ pkt \in Seq(Octet) /\ Len(pkt) = 40 + Len(rest)
      /\ pkt[1] = 96 /\ Octet16(pkt, 5) = len /\ pkt[7] = UDP_NEXT_HEADER
      /\ SubSeq(pkt, 9, 24) = src /\ SubSeq(pkt, 25, 40) = dst
      /\ \A i \in 1..Len(rest) : pkt[40 + i] = rest[i]
  <2> HIDE DEF pkt, rest
  <2>1. len \in Word /\ rest \in Seq(Octet)
    BY <1>1, <1>5
  <2>2. IsPacket(header \o rest, src, dst, UDP_NEXT_HEADER, hop_limit, len, rest)
    BY <1>4, <2>1, HeaderFields
  <2> QED
    BY <1>7, <2>2 DEF IsPacket
<1> HIDE DEF pkt, message, rest, header
<1>9. SubSeq(pkt, 41, Len(pkt)) = rest
  <2>1. 40 \in Nat /\ 40 + Len(rest) <= Len(pkt) /\ Len(pkt) = 40 + Len(rest)
    BY <1>0, <1>5, <1>8
  <2>2. SubSeq(pkt, 40 + 1, 40 + Len(rest)) = rest
    BY <1>5, <1>8, <2>1, CutOut
  <2> QED
    BY <2>1, <2>2
<1>10. Octet16(rest, 1) = sport /\ Octet16(rest, 3) = dport
  <2>1. rest[1] = message[1] /\ rest[2] = message[2] /\ rest[3] = message[3] /\ rest[4] = message[4]
    BY <1>0, <1>5
  <2> QED
    BY <1>3, <2>1 DEF Octet16
<1>11. Slice(rest, 9, 8 + Len(body)) = body
  <2>1. ASSUME NEW i \in 1..Len(body)
        PROVE  rest[8 + i] = body[i]
    <3>1. 8 + i \in 1..(8 + Len(body))
      BY <1>0
    <3> QED
      BY <1>3, <1>5, <3>1, Zenon
  <2>2. 8 \in Nat /\ 8 + Len(body) <= Len(rest)
    BY <1>0, <1>5
  <2>3. SubSeq(rest, 8 + 1, 8 + Len(body)) = body
    BY <1>5, <2>1, <2>2, CutOut
  <2> QED
    BY <2>2, <2>3 DEF Slice
<1>12. parse_ipv6_udp(pkt) = UdpV6(pkt, len)
  <2>1. ~(Len(pkt) < 48) /\ ~(Len(pkt) - 40 < len)
    <3>1. Len(pkt) = 48 + Len(body) + Len(padding)
      BY <1>0, <1>5, <1>8
    <3> QED
      BY <1>0, <1>1, <3>1
  <2>2. 96 \div 16 = 6
    OBVIOUS
  <2> QED
    BY <1>8, <2>1, <2>2 DEF parse_ipv6_udp, IPV6_HEADER_LEN
<1>13. (IF len > 8 THEN len ELSE 8) = 8 + Len(body)
  BY <1>0, <1>1
<1>14. UdpV6(pkt, len) =
         [src_ip |-> src, dst_ip |-> dst, src_port |-> sport, dst_port |-> dport,
          payload |-> body]
  <2>1. UdpV6(pkt, len) =
          [src_ip |-> SubSeq(pkt, 9, 24), dst_ip |-> SubSeq(pkt, 25, 40),
           src_port |-> Octet16(rest, 1), dst_port |-> Octet16(rest, 3),
           payload |-> Slice(rest, 9, IF len > 8 THEN len ELSE 8)]
    <3>1. IPV6_HEADER_LEN + 1 = 41
      BY DEF IPV6_HEADER_LEN
    <3> QED
      BY <1>9, <3>1, Zenon DEF UdpV6
  <2> QED
    BY <1>8, <1>10, <1>11, <1>13, <2>1, Zenon
<1> QED
  BY <1>12, <1>14 DEF pkt, built
-----------------------------------------------------------------------------
(* The receiver's checksum test. *)

\* The receiver adds in one's complement: what it gets is the sum modulo 2^16 - 1.
ReceiverAt(words, h, i) ==
  IF i = 0 THEN 0 ELSE (h[i - 1] + Octet16(words, 2 * i - 1)) % 65535

ReceiverTurn(words, h) == [i \in 0..(Len(words) \div 2) |-> ReceiverAt(words, h, i)]

LEMMA ReceiverAdds ==
  ASSUME NEW words \in Seq(Octet)
  PROVE  OnesComplementSum(words) = chunks_exact_sum(0, words) % 65535
<1> DEFINE n == Len(words) \div 2
           h == CHOOSE g : g = ReceiverTurn(words, g)
           word(i) == Octet16(words, 2 * i - 1)
<1>1. PICK f : Runs(f, 0, words)
  BY RunExists
<1> DEFINE folded == [i \in 0..n |-> f[i] % 65535]
           T == {i \in 0..n : h[i] # folded[i]}
<1>2. n \in Nat /\ \A i \in 1..n : 2 * i - 1 \in 1..(Len(words) - 1)
  <2>1. Len(words) \in Nat
    BY LenProperties
  <2> QED
    BY <2>1
<1>3. \A i \in 1..n : word(i) \in Nat
  BY <1>2, PairIsWord DEF Word
<1>4. /\ f \in [0..n -> Nat] /\ f[0] = 0
      /\ \A i \in 1..n : f[i] = f[i - 1] + word(i)
  BY <1>1 DEF Runs
<1> HIDE DEF word
<1>5. \A a, b \in Nat : (a + b) % 65535 = ((a % 65535) + b) % 65535
  OBVIOUS
<1>6. ASSUME NEW i \in 1..n
      PROVE  folded[i] = (folded[i - 1] + word(i)) % 65535
  <2>1. i \in 0..n /\ i - 1 \in 0..n
    BY <1>2
  <2>2. f[i - 1] \in Nat /\ word(i) \in Nat
    BY <1>3, <1>4, <2>1
  <2>3. folded[i] = (f[i - 1] + word(i)) % 65535 /\ folded[i - 1] = f[i - 1] % 65535
    BY <1>4, <2>1
  <2> HIDE DEF folded
  <2> QED
    BY <1>5, <2>2, <2>3
<1>7. folded = ReceiverTurn(words, folded)
  <2>1. folded[0] = 0
    BY <1>2, <1>4
  <2>2. folded = [i \in 0..n |-> folded[i]]
    OBVIOUS
  <2> HIDE DEF folded, n
  <2>3. ASSUME NEW i \in 0..n
        PROVE  folded[i] = ReceiverAt(words, folded, i)
    <3>1. i = 0 \/ i \in 1..n
      BY <1>2
    <3> QED
      BY <1>6, <2>1, <3>1 DEF ReceiverAt, word
  <2> QED
    BY <2>2, <2>3 DEF ReceiverTurn, n
<1>8. h = ReceiverTurn(words, h)
  BY <1>7
<1> HIDE DEF h, folded, n
<1>9. \A i \in 0..n : h[i] = IF i = 0 THEN 0 ELSE (h[i - 1] + word(i)) % 65535
  BY <1>8, SMTT(30) DEF ReceiverTurn, ReceiverAt, n, word
<1>10. T = {}
  <2> SUFFICES ASSUME T # {} PROVE FALSE
    OBVIOUS
  <2>1. PICK m \in T : \A i \in T : m <= i
    <3>1. T \subseteq Nat
      BY <1>2
    <3> HIDE DEF T
    <3> QED
      BY <3>1, LeastNumber
  <2>2. m \in 0..n /\ h[m] # folded[m] /\ m \in Nat
    BY <1>2
  <2>3. m # 0
    BY <1>2, <1>4, <1>9, <2>2 DEF folded
  <2>4. m \in 1..n /\ m - 1 \in 0..n /\ ~(m <= m - 1)
    BY <1>2, <2>2, <2>3
  <2>5. h[m - 1] = folded[m - 1]
    <3> HIDE DEF T
    <3>1. m - 1 \notin T
      BY <2>1, <2>4
    <3> USE DEF T
    <3> QED
      BY <2>4, <3>1
  <2> HIDE DEF T
  <2> QED
    BY <1>6, <1>9, <2>2, <2>3, <2>4, <2>5
<1>11. h[n] = f[n] % 65535
  <2>1. n \in 0..n
    BY <1>2
  <2>2. h[n] = folded[n]
    BY <1>10, <2>1
  <2> QED
    BY <2>1, <2>2 DEF folded
<1>12. chunks_exact_sum(0, words) = f[n]
  BY <1>1, LoopRuns DEF n
<1>13. OnesComplementSum(words) = h[n]
  BY DEF OnesComplementSum, h, n, ReceiverTurn, ReceiverAt
<1> QED
  BY <1>11, <1>12, <1>13

\* A word on its own, and two of them.
LEMMA SumBE32 ==
  ASSUME NEW n \in Nat
  PROVE  /\ BE32(n) \in Seq(Octet) /\ Len(BE32(n)) = 4
         /\ Sum(BE32(n)) = U16(n \div 65536) + U16(n)
<1> DEFINE high == BE16(n \div 65536)
           low == BE16(n)
<1>1. n \div 65536 \in Nat
  OBVIOUS
<1>2. high \in Seq(Octet) /\ low \in Seq(Octet) /\ Len(high) = 2 /\ Len(low) = 2
  BY <1>1, WordOctets
<1>3. Octet16(high, 1) = U16(n \div 65536) /\ Octet16(low, 1) = U16(n)
  BY <1>1, WordOctets
<1>4. BE32(n) = high \o low
  BY DEF BE32
<1> HIDE DEF high, low
<1>5. high \o low \in Seq(Octet) /\ Len(high \o low) = Len(high) + Len(low)
  BY <1>2, PartsOf
<1>6. Sum(high \o low) = Sum(high) + Sum(low)
  <2>1. Len(high) % 2 = 0
    BY <1>2
  <2> QED
    BY <1>2, <2>1, SumConcat
<1>7. Sum(high) = Octet16(high, 1) /\ Sum(low) = Octet16(low, 1)
  BY <1>2, SumWord
<1> QED
  BY <1>2, <1>3, <1>4, <1>5, <1>6, <1>7

LEMMA SumNextHeader ==
  ASSUME NEW o \in Octet
  PROVE  /\ <<0, 0, 0, o>> \in Seq(Octet) /\ Len(<<0, 0, 0, o>>) = 4
         /\ Sum(<<0, 0, 0, o>>) = o
<1> DEFINE a == <<0, 0>>
           b == <<0, o>>
<1>1. a \in Seq(Octet) /\ b \in Seq(Octet) /\ <<0, 0, 0, o>> \in Seq(Octet) /\ o \in Nat
  BY DEF Octet
<1>2. <<0, 0, 0, o>> = a \o b /\ Len(a) = 2 /\ Len(b) = 2
  OBVIOUS
<1>3. Octet16(a, 1) = 0 /\ Octet16(b, 1) = o
  BY <1>1 DEF Octet16
<1> HIDE DEF a, b
<1>4. Sum(a \o b) = Sum(a) + Sum(b)
  BY <1>1, <1>2, SumConcat
<1>5. Sum(a) = 0 /\ Sum(b) = o
  BY <1>1, <1>2, <1>3, SumWord
<1>6. Sum(a) + Sum(b) = o
  BY <1>1, <1>5
<1>7. Sum(<<0, 0, 0, o>>) = o
  BY <1>2, <1>4, <1>6, Zenon
<1>8. Len(<<0, 0, 0, o>>) = 4
  OBVIOUS
<1> QED
  BY <1>1, <1>7, <1>8

\* A packet whose words add up passes the test.
LEMMA AddsUpVerifies ==
  ASSUME NEW src \in Addresses, NEW dst \in Addresses, NEW next_header \in Octet,
         NEW hop_limit, NEW len, NEW message \in Seq(Octet),
         NEW pkt, IsPacket(pkt, src, dst, next_header, hop_limit, len, message),
         AddsUp(src, dst, next_header, message)
  PROVE  Verifies(pkt)
<1> DEFINE a1 == src \o dst
           size == BE32(Len(message))
           a2 == a1 \o size
           upper == <<0, 0, 0, next_header>>
           a3 == a2 \o upper
           words == a3 \o message \o Pad(message)
<1>1. Len(message) \in Nat /\ src \in Seq(Octet) /\ dst \in Seq(Octet)
      /\ Len(src) = 16 /\ Len(dst) = 16
  BY LenProperties DEF Addresses
<1>2. a1 \in Seq(Octet) /\ Len(a1) = 32 /\ Sum(a1) = Sum(src) + Sum(dst)
  <2>1. a1 \in Seq(Octet) /\ Len(a1) = Len(src) + Len(dst)
    BY <1>1, PartsOf
  <2>2. Len(src) % 2 = 0
    BY <1>1
  <2>3. Sum(a1) = Sum(src) + Sum(dst)
    BY <1>1, <2>2, SumConcat
  <2> HIDE DEF a1
  <2> QED
    BY <1>1, <2>1, <2>3
<1>3. size \in Seq(Octet) /\ Len(size) = 4
  BY <1>1, SumBE32
<1>s. Sum(size) = U16(Len(message) \div 65536) + U16(Len(message))
  BY <1>1, SumBE32
<1>4. upper \in Seq(Octet) /\ Len(upper) = 4 /\ Sum(upper) = next_header
  BY SumNextHeader
<1> HIDE DEF a1, size, upper
<1>5. a2 \in Seq(Octet) /\ Len(a2) = 36 /\ Sum(a2) = Sum(a1) + Sum(size)
  <2>1. a2 \in Seq(Octet) /\ Len(a2) = Len(a1) + Len(size)
    BY <1>2, <1>3, PartsOf
  <2>2. Len(a1) % 2 = 0
    BY <1>2
  <2>3. Sum(a2) = Sum(a1) + Sum(size)
    BY <1>2, <1>3, <2>2, SumConcat
  <2> HIDE DEF a2
  <2> QED
    BY <1>2, <1>3, <2>1, <2>3
<1> HIDE DEF a2
<1>6. a3 \in Seq(Octet) /\ Len(a3) = 40 /\ Sum(a3) = Sum(a2) + Sum(upper)
  <2>1. a3 \in Seq(Octet) /\ Len(a3) = Len(a2) + Len(upper)
    BY <1>4, <1>5, PartsOf
  <2>2. Len(a2) % 2 = 0
    BY <1>5
  <2>3. Sum(a3) = Sum(a2) + Sum(upper)
    BY <1>4, <1>5, <2>2, SumConcat
  <2> HIDE DEF a3
  <2> QED
    BY <1>4, <1>5, <2>1, <2>3
<1> HIDE DEF a3
<1>7. /\ words \in Seq(Octet) /\ Len(words) % 2 = 0
      /\ Sum(words) = Sum(a3) + Sum(message)
  <2>1. Pairs(message) \in Seq(Octet) /\ Len(Pairs(message)) % 2 = 0
    BY PairsAreEven
  <2>2. Pad(message) \in Seq(Octet)
    <3>1. <<>> \in Seq(Octet) /\ <<0>> \in Seq(Octet)
      BY DEF Octet
    <3> QED
      BY <3>1 DEF Pad
  <2>3. words = a3 \o Pairs(message)
    BY <1>6, <2>2, Associative DEF Pairs
  <2>4. Len(a3) % 2 = 0
    BY <1>6
  <2>5. Sum(a3 \o Pairs(message)) = Sum(a3) + Sum(Pairs(message))
    BY <1>6, <2>1, <2>4, SumConcat
  <2>6. /\ a3 \o Pairs(message) \in Seq(Octet)
        /\ Len(a3 \o Pairs(message)) = Len(a3) + Len(Pairs(message))
    BY <1>6, <2>1, PartsOf
  <2>7. \A i \in Nat : i % 2 = 0 => (40 + i) % 2 = 0
    OBVIOUS
  <2>8. Len(Pairs(message)) \in Nat
    BY <2>1, LenProperties
  <2> HIDE DEF words
  <2> QED
    BY <1>6, <2>1, <2>3, <2>5, <2>6, <2>7, <2>8, SumPairs
<1>8. Sum(words) = pseudo_header_sum(src, dst, next_header, Len(message)) + Sum(message)
  <2>1. pseudo_header_sum(src, dst, next_header, Len(message)) =
          Sum(src) + Sum(dst) + U16(Len(message) \div 65536) + U16(Len(message)) + next_header
    BY <1>1, PseudoHeaderAdds
  <2>2. Sum(src) \in Nat /\ Sum(dst) \in Nat /\ Sum(message) \in Nat
    <3>1. 0 \in Nat
      OBVIOUS
    <3> QED
      BY <1>1, <3>1, AccumulateAdds
  <2>3. U16(Len(message) \div 65536) \in Nat /\ U16(Len(message)) \in Nat /\ next_header \in Nat
    BY <1>1 DEF U16, Octet
  <2> HIDE DEF words
  <2> QED
    BY <1>2, <1>3, <1>s, <1>4, <1>5, <1>6, <1>7, <2>1, <2>2, <2>3
<1>9. chunks_exact_sum(0, words) % 65535 = 0
  <2>1. Sum(words) = chunks_exact_sum(0, words)
    BY <1>7 DEF Sum, checksum_accumulate
  <2> QED
    BY <1>8, <2>1 DEF AddsUp
<1>10. /\ SubSeq(pkt, 9, 40) = src \o dst /\ SubSeq(pkt, 41, Len(pkt)) = message
       /\ pkt[7] = next_header
  <2>1. /\ pkt \in Seq(Octet) /\ Len(pkt) = 40 + Len(message)
        /\ pkt[7] = next_header
        /\ SubSeq(pkt, 9, 24) = src /\ SubSeq(pkt, 25, 40) = dst
        /\ \A i \in 1..Len(message) : pkt[40 + i] = message[i]
    BY DEF IsPacket
  <2>2. /\ 9 \in 1..(Len(pkt) + 1) /\ 24 \in (9 - 1)..Len(pkt)
        /\ 40 \in 24..Len(pkt) /\ 24 + 1 = 25
    <3>1. Len(pkt) \in Nat /\ Len(pkt) >= 40
      BY <1>1, <2>1
    <3> QED
      BY <3>1
  <2>3. SubSeq(pkt, 9, 24) \o SubSeq(pkt, 25, 40) = SubSeq(pkt, 9, 40)
    BY <2>1, <2>2, ConcatAdjacentSubSeq
  <2>4. 40 \in Nat /\ 40 + Len(message) <= Len(pkt) /\ 40 + 1 = 41
    BY <1>1, <2>1
  <2>5. SubSeq(pkt, 40 + 1, 40 + Len(message)) = message
    BY <2>1, <2>4, CutOut
  <2> QED
    BY <2>1, <2>3, <2>4, <2>5
<1>11. WordsOf(SubSeq(pkt, 9, 40), pkt[7], SubSeq(pkt, 41, Len(pkt))) = words
  BY <1>10, Zenon DEF WordsOf, Pad, a1, size, upper, a2, a3
<1> HIDE DEF words
<1>12. OnesComplementSum(words) = 0
  BY <1>7, <1>9, ReceiverAdds
<1> QED
  BY <1>11, <1>12 DEF Verifies

\* Every datagram, between any two addresses, with a payload of any length: it passes
\* the receiver's test, and its checksum is not zero, which would stand for none.
THEOREM DatagramsVerify ==
  ASSUME NEW src \in Addresses, NEW dst \in Addresses, NEW sport \in Word, NEW dport \in Word,
         NEW body \in Seq(Octet), NEW hop_limit \in Octet
  PROVE  LET pkt == build_udp_packet(src, dst, sport, dport, body, hop_limit)
         IN  Verifies(pkt) /\ Octet16(pkt, 47) # 0
<1> DEFINE len == U16(8 + Len(body))
           pkt == build_udp_packet(src, dst, sport, dport, body, hop_limit)
           udp(n) == UdpMessage(sport, dport, len, n, body)
<1>1. len \in Word
  BY BuiltDatagram
<1>2. PICK sum \in Word \ {0} :
        /\ pkt = build_ipv6_header(src, dst, UDP_NEXT_HEADER, hop_limit, len) \o udp(sum)
        /\ udp(sum) \in Seq(Octet)
        /\ AddsUp(src, dst, UDP_NEXT_HEADER, udp(sum))
  BY BuiltDatagram
<1> HIDE DEF len, pkt
<1>3. UDP_NEXT_HEADER \in Octet
  BY DEF UDP_NEXT_HEADER, Octet
<1>4. Len(udp(sum)) = 8 + Len(body) /\ Octet16(udp(sum), 7) = sum
  BY <1>1, <1>2, UdpFields
<1> DEFINE message == udp(sum)
<1> HIDE DEF udp
<1>5. IsPacket(pkt, src, dst, UDP_NEXT_HEADER, hop_limit, len, message)
  BY <1>1, <1>2, <1>3, HeaderFields
<1>6. Verifies(pkt)
  BY <1>2, <1>3, <1>5, AddsUpVerifies
<1>7. pkt[47] = message[7] /\ pkt[48] = message[8]
  <2>1. 7 \in 1..Len(message) /\ 8 \in 1..Len(message)
    <3>1. Len(body) \in Nat
      BY LenProperties
    <3> QED
      BY <1>4, <3>1
  <2>2. \A i \in 1..Len(message) : pkt[40 + i] = message[i]
    BY <1>5 DEF IsPacket
  <2>3. pkt[40 + 7] = message[7] /\ pkt[40 + 8] = message[8]
    BY <2>1, <2>2
  <2> QED
    BY <2>3
<1>8. Octet16(pkt, 47) # 0
  <2>1. 47 + 1 = 48 /\ 7 + 1 = 8
    OBVIOUS
  <2>2. Octet16(pkt, 47) = Octet16(message, 7)
    BY <1>7, <2>1, Zenon DEF Octet16
  <2>3. sum # 0
    BY <1>2, Zenon
  <2> QED
    BY <1>4, <2>2, <2>3, Zenon
<1> QED
  BY <1>6, <1>8 DEF pkt
-----------------------------------------------------------------------------
(* Strings of octets put together by a loop. *)

FlattenAt(strings, h, i) == IF i = 1 THEN strings[i] ELSE h[i - 1] \o strings[i]

FlattenTurn(strings, h) == [i \in 1..Len(strings) |-> FlattenAt(strings, h, i)]

\* h is the octets of the first strings, up to the m-th.
Flattens(strings, h, m) ==
  /\ h \in [1..m -> Seq(Octet)]
  /\ \A i \in 1..m : h[i] = FlattenAt(strings, h, i)

LEMMA FlattenExists ==
  ASSUME NEW strings \in Seq(Seq(Octet))
  PROVE  \E h : Flattens(strings, h, Len(strings))
<1> DEFINE n == Len(strings)
           T == {m \in 0..n : ~\E h : Flattens(strings, h, m)}
<1>1. n \in Nat /\ \A i \in 1..n : strings[i] \in Seq(Octet)
  BY LenProperties, ElementOfSeq
<1> HIDE DEF n
<1>2. T = {}
  <2> SUFFICES ASSUME T # {} PROVE FALSE
    OBVIOUS
  <2>1. PICK m \in T : \A i \in T : m <= i
    <3>1. T \subseteq Nat
      BY <1>1
    <3> HIDE DEF T
    <3> QED
      BY <3>1, LeastNumber
  <2>2. m \in Nat /\ m \in 0..n /\ ~\E h : Flattens(strings, h, m)
    BY <1>1
  <2>3. CASE m = 0
    <3>1. Flattens(strings, [i \in 1..0 |-> <<>>], 0)
      BY DEF Flattens
    <3> QED
      BY <2>2, <2>3, <3>1
  <2>4. CASE m # 0
    <3>1. m \in 1..n /\ m - 1 \in 0..n /\ ~(m <= m - 1) /\ m - 1 \in Nat
      BY <1>1, <2>2, <2>4
    <3>2. \E h : Flattens(strings, h, m - 1)
      <4> HIDE DEF T
      <4>1. m - 1 \notin T
        BY <2>1, <3>1
      <4> USE DEF T
      <4> QED
        BY <3>1, <4>1
    <3>3. PICK h : Flattens(strings, h, m - 1)
      BY <3>2
    <3>4. /\ h \in [1..(m - 1) -> Seq(Octet)]
          /\ \A i \in 1..(m - 1) : h[i] = FlattenAt(strings, h, i)
      BY <3>3 DEF Flattens
    <3> DEFINE g == [i \in 1..m |-> IF i = m THEN FlattenAt(strings, h, m) ELSE h[i]]
    <3>5. FlattenAt(strings, h, m) \in Seq(Octet)
      <4>1. strings[m] \in Seq(Octet)
        BY <1>1, <3>1
      <4>2. CASE m = 1
        BY <4>1, <4>2 DEF FlattenAt
      <4>3. CASE m # 1
        <5>1. m - 1 \in 1..(m - 1)
          BY <2>2, <2>4, <4>3
        <5>2. h[m - 1] \in Seq(Octet)
          BY <3>4, <5>1
        <5>3. h[m - 1] \o strings[m] \in Seq(Octet)
          BY <4>1, <5>2, PartsOf
        <5> QED
          BY <4>3, <5>3 DEF FlattenAt
      <4> QED
        BY <4>2, <4>3
    <3>6. g \in [1..m -> Seq(Octet)]
      <4>1. ASSUME NEW i \in 1..m, i # m
            PROVE  h[i] \in Seq(Octet)
        <5>1. i \in 1..(m - 1)
          BY <2>2, <4>1
        <5> QED
          BY <3>4, <5>1
      <4> QED
        BY <3>5, <4>1
    <3>7. ASSUME NEW i \in 1..m
          PROVE  g[i] = FlattenAt(strings, g, i)
      <4>1. i # 1 => /\ i - 1 \in 1..m /\ i - 1 # m
        BY <2>2
      <4>2. i # 1 => g[i - 1] = h[i - 1]
        BY <4>1
      <4>3. FlattenAt(strings, g, i) = FlattenAt(strings, h, i)
        <5> HIDE DEF g
        <5> QED
          BY <4>2 DEF FlattenAt
      <4>4. CASE i = m
        BY <4>3, <4>4
      <4>5. CASE i # m
        <5>1. i \in 1..(m - 1)
          BY <2>2, <4>5
        <5>2. g[i] = h[i]
          BY <4>5
        <5> QED
          BY <3>4, <4>3, <5>1, <5>2
      <4> QED
        BY <4>4, <4>5
    <3>8. Flattens(strings, g, m)
      <4> HIDE DEF g
      <4> QED
        BY <3>6, <3>7 DEF Flattens
    <3> QED
      BY <2>2, <3>8
  <2> QED
    BY <2>3, <2>4
<1>3. n \in 0..n
  BY <1>1
<1> QED
  BY <1>2, <1>3 DEF n

LEMMA FunctionIsSeq ==
  ASSUME NEW S, NEW n \in Nat, NEW f \in [1..n -> S]
  PROVE  f \in Seq(S) /\ Len(f) = n
  OBVIOUS

\* H is what has been put together, string by string.
Joined(strings, H, all) ==
  /\ H \in [0..Len(strings) -> Seq(Octet)]
  /\ H[0] = <<>> /\ H[Len(strings)] = all
  /\ \A m \in 1..Len(strings) : H[m] = H[m - 1] \o strings[m]

LEMMA FlattenRuns ==
  ASSUME NEW strings \in Seq(Seq(Octet))
  PROVE  \E H : Joined(strings, H, FlattenSeq(strings))
<1> DEFINE n == Len(strings)
           flatten == CHOOSE h : h = FlattenTurn(strings, h)
           H == [m \in 0..n |-> IF m = 0 THEN <<>> ELSE flatten[m]]
<1>1. n \in Nat /\ \A i \in 1..n : strings[i] \in Seq(Octet)
  BY LenProperties, ElementOfSeq
<1>2. \E h : h = FlattenTurn(strings, h)
  <2>1. PICK h : Flattens(strings, h, n)
    BY FlattenExists
  <2>2. h = FlattenTurn(strings, h)
    BY <2>1 DEF Flattens, FlattenTurn
  <2> QED
    BY <2>2
<1>3. flatten = FlattenTurn(strings, flatten)
  BY <1>2
<1>4. n # 0 => FlattenSeq(strings) = flatten[n]
  BY DEF FlattenSeq, FlattenTurn, FlattenAt
<1>5. n = 0 => FlattenSeq(strings) = <<>>
  <2>1. n = 0 => strings = <<>>
    BY EmptySeq
  <2> QED
    BY <2>1 DEF FlattenSeq
<1> HIDE DEF flatten
<1>6. \A i \in 1..n : flatten[i] = IF i = 1 THEN strings[i] ELSE flatten[i - 1] \o strings[i]
  BY <1>3 DEF FlattenTurn, FlattenAt
<1> HIDE DEF n
<1>7. ASSUME NEW m \in 1..n
      PROVE  H[m] = H[m - 1] \o strings[m]
  <2>1. m \in 0..n /\ m # 0 /\ m - 1 \in 0..n /\ (m = 1 <=> m - 1 = 0) /\ strings[m] \in Seq(Octet)
    BY <1>1
  <2>2. <<>> \o strings[m] = strings[m]
    BY <2>1, ConcatEmptySeq
  <2> QED
    BY <1>6, <2>1, <2>2
<1>8. H[0] = <<>> /\ H[n] = FlattenSeq(strings)
  BY <1>1, <1>4, <1>5
<1> HIDE DEF H
<1> DEFINE T == {m \in 0..n : H[m] \in Seq(Octet)}
<1>9. 0 \in T
  <2>1. 0 \in 0..n /\ <<>> \in Seq(Octet)
    BY <1>1
  <2> QED
    BY <1>8, <2>1
<1>10. ASSUME NEW m \in 1..n, m - 1 \in T
       PROVE  m \in T
  <2>1. H[m - 1] \o strings[m] \in Seq(Octet)
    BY <1>1, <1>10, PartsOf
  <2>2. m \in 0..n
    BY <1>1
  <2> QED
    BY <1>7, <2>1, <2>2
<1> HIDE DEF T
<1>11. 0..n \subseteq T
  BY <1>1, <1>9, <1>10, Upwards
<1>12. H \in [0..n -> Seq(Octet)]
  <2>1. H = [m \in 0..n |-> H[m]]
    BY DEF H
  <2>2. \A m \in 0..n : H[m] \in Seq(Octet)
    BY <1>11 DEF T
  <2> QED
    BY <2>1, <2>2
<1> QED
  BY <1>7, <1>8, <1>12 DEF Joined, n

\* Strings of octets, put together, are a string of octets.
LEMMA FlattenTyped ==
  ASSUME NEW strings \in Seq(Seq(Octet))
  PROVE  FlattenSeq(strings) \in Seq(Octet)
<1>1. PICK H : Joined(strings, H, FlattenSeq(strings))
  BY FlattenRuns
<1>2. Len(strings) \in 0..Len(strings)
  BY LenProperties
<1> QED
  BY <1>1, <1>2 DEF Joined

\* p is where each string ends in all of them.
Places(strings, all, p) ==
  /\ p \in [0..Len(strings) -> Nat]
  /\ p[0] = 0 /\ p[Len(strings)] = Len(all)
  /\ \A m \in 1..Len(strings) :
       /\ p[m] = p[m - 1] + Len(strings[m]) /\ p[m] <= Len(all)
       /\ \A i \in 1..Len(strings[m]) : all[p[m - 1] + i] = strings[m][i]

LEMMA FlattenPlaces ==
  ASSUME NEW strings \in Seq(Seq(Octet))
  PROVE  \E p : Places(strings, FlattenSeq(strings), p)
<1> DEFINE n == Len(strings)
           all == FlattenSeq(strings)
<1>1. n \in Nat /\ \A i \in 1..n : strings[i] \in Seq(Octet) /\ Len(strings[i]) \in Nat
  BY LenProperties, ElementOfSeq
<1>2. PICK H : Joined(strings, H, all)
  BY FlattenRuns
<1> HIDE DEF all, n
<1>3. /\ H \in [0..n -> Seq(Octet)] /\ H[0] = <<>> /\ H[n] = all
      /\ \A m \in 1..n : H[m] = H[m - 1] \o strings[m]
  BY <1>2 DEF Joined, n
<1> DEFINE p == [m \in 0..n |-> Len(H[m])]
<1>4. p \in [0..n -> Nat] /\ \A m \in 0..n : p[m] = Len(H[m])
  BY <1>3, LenProperties
<1>5. p[0] = 0 /\ p[n] = Len(all)
  BY <1>1, <1>3, <1>4
<1> HIDE DEF p
<1>6. ASSUME NEW m \in 1..n
      PROVE  /\ p[m] = p[m - 1] + Len(strings[m])
             /\ \A i \in 1..p[m - 1] : H[m][i] = H[m - 1][i]
             /\ \A i \in 1..Len(strings[m]) : H[m][p[m - 1] + i] = strings[m][i]
  <2> DEFINE a == H[m - 1]
             b == strings[m]
  <2>1. m \in 0..n /\ m - 1 \in 0..n
    BY <1>1
  <2>2. a \in Seq(Octet) /\ b \in Seq(Octet) /\ H[m] = a \o b /\ p[m - 1] = Len(a) /\ p[m] = Len(a \o b)
    BY <1>1, <1>3, <1>4, <2>1
  <2> HIDE DEF a, b
  <2>3. /\ Len(a \o b) = Len(a) + Len(b)
        /\ \A i \in 1..Len(a) : (a \o b)[i] = a[i]
        /\ \A i \in 1..Len(b) : (a \o b)[Len(a) + i] = b[i]
    BY <2>2, PartsOf
  <2> QED
    BY <2>2, <2>3 DEF a, b
<1> DEFINE Placed(k, m) == /\ p[m] <= p[k]
                           /\ \A i \in 1..Len(strings[m]) : H[k][p[m - 1] + i] = strings[m][i]
           T == {k \in 0..n : \A m \in 1..k : Placed(k, m)}
<1>7. 0 \in T
  BY <1>1
<1>8. ASSUME NEW k \in 1..n, k - 1 \in T
      PROVE  k \in T
  <2>1. k \in 0..n /\ k - 1 \in 0..n /\ p[k] \in Nat /\ p[k - 1] \in Nat /\ p[k - 1] <= p[k]
    BY <1>1, <1>4, <1>6
  <2>2. ASSUME NEW m \in 1..k
        PROVE  Placed(k, m)
    <3>1. CASE m = k
      BY <1>6, <2>1, <3>1
    <3>2. CASE m # k
      <4>1. m \in 1..(k - 1) /\ m \in 1..n /\ m \in 0..n /\ m - 1 \in 0..n
        BY <1>1, <2>1, <3>2
      <4>2. Placed(k - 1, m)
        BY <1>8, <4>1
      <4>3. p[m] = p[m - 1] + Len(strings[m]) /\ p[m] \in Nat /\ p[m - 1] \in Nat /\ Len(strings[m]) \in Nat
        BY <1>1, <1>4, <1>6, <4>1
      <4>4. p[m] <= p[k]
        BY <2>1, <4>2, <4>3
      <4>5. ASSUME NEW i \in 1..Len(strings[m])
            PROVE  H[k][p[m - 1] + i] = strings[m][i]
        <5>1. p[m - 1] + i \in 1..p[k - 1]
          <6> DEFINE from == p[m - 1]
                     to == p[k - 1]
                     size == Len(strings[m])
          <6>1. /\ from \in Nat /\ to \in Nat /\ size \in Nat /\ i \in 1..size
                /\ from + size <= to
            BY <2>1, <4>2, <4>3
          <6> HIDE DEF from, to, size
          <6>2. from + i \in 1..to
            BY <6>1
          <6> QED
            BY <6>2 DEF from, to
        <5>2. H[k][p[m - 1] + i] = H[k - 1][p[m - 1] + i]
          BY <1>6, <5>1
        <5> QED
          BY <4>2, <5>2
      <4> QED
        BY <4>4, <4>5
    <3> QED
      BY <3>1, <3>2
  <2> HIDE DEF Placed
  <2> QED
    BY <2>1, <2>2
<1> HIDE DEF T
<1>9. 0..n \subseteq T
  BY <1>1, <1>7, <1>8, Upwards
<1>10. \A m \in 1..n : Placed(n, m)
  <2>1. n \in T
    BY <1>1, <1>9
  <2> QED
    BY <2>1 DEF T
<1>11. Places(strings, all, p)
  BY <1>3, <1>4, <1>5, <1>6, <1>10 DEF Places, n
<1> QED
  BY <1>11 DEF all

\* Strings put together are no longer than so many of the longest.
LEMMA FlattenBound ==
  ASSUME NEW strings \in Seq(Seq(Octet)), NEW k \in Nat,
         \A m \in 1..Len(strings) : Len(strings[m]) <= k
  PROVE  Len(FlattenSeq(strings)) <= Len(strings) * k
<1> DEFINE n == Len(strings)
           all == FlattenSeq(strings)
<1>1. n \in Nat /\ \A i \in 1..n : Len(strings[i]) \in Nat
  BY LenProperties, ElementOfSeq
<1>2. PICK p : Places(strings, all, p)
  BY FlattenPlaces
<1> HIDE DEF n, all
<1>3. /\ p \in [0..n -> Nat] /\ p[0] = 0 /\ p[n] = Len(all)
      /\ \A m \in 1..n : p[m] = p[m - 1] + Len(strings[m])
  BY <1>2 DEF Places, n
<1> DEFINE T == {m \in 0..n : p[m] <= m * k}
<1>4. 0 \in T
  BY <1>1, <1>3
<1>5. ASSUME NEW m \in 1..n, m - 1 \in T
      PROVE  m \in T
  <2>1. m \in 0..n /\ m - 1 \in 0..n
    BY <1>1
  <2>2. p[m] = p[m - 1] + Len(strings[m]) /\ p[m - 1] <= (m - 1) * k /\ Len(strings[m]) <= k
        /\ p[m - 1] \in Nat /\ Len(strings[m]) \in Nat
    BY <1>1, <1>3, <1>5, <2>1 DEF n
  <2>3. (m - 1) * k + k = m * k /\ m * k \in Nat /\ (m - 1) * k \in Nat
    BY <1>1, <2>1
  <2> QED
    BY <2>1, <2>2, <2>3
<1> HIDE DEF T
<1>6. 0..n \subseteq T
  BY <1>1, <1>4, <1>5, Upwards
<1>7. n \in T
  BY <1>1, <1>6
<1> QED
  BY <1>3, <1>7 DEF T, n, all

\* What a configuration of the advertisement is made of.
RaConfigs ==
  [link_local_src : Addresses, dns_servers : Seq(Addresses),
   search_domains : Seq(Seq(Seq(Octet))), lifetime_secs : Nat, router_lifetime_secs : Nat]

LEMMA NamesTyped ==
  ASSUME NEW domains \in Seq(Seq(Seq(Octet)))
  PROVE  encode_dnssl_names(domains) \in Seq(Octet)
<1> DEFINE labels(d) == [l \in DOMAIN domains[d] |-> encode_label(domains[d][l])]
           names == [d \in DOMAIN domains |-> FlattenSeq(labels(d)) \o <<0>>]
<1>1. <<0>> \in Seq(Octet)
  BY DEF Octet
<1>2. ASSUME NEW label \in Seq(Octet)
      PROVE  encode_label(label) \in Seq(Octet)
  <2>1. Len(label) \in Nat
    BY LenProperties
  <2>2. U8(Len(label)) \in Octet
    BY <2>1 DEF U8, Octet
  <2>3. <<U8(Len(label))>> \in Seq(Octet)
    BY <2>2
  <2> QED
    BY <2>3, PartsOf DEF encode_label
<1>3. ASSUME NEW d \in DOMAIN domains
      PROVE  FlattenSeq(labels(d)) \o <<0>> \in Seq(Octet)
  <2>1. /\ domains[d] \in Seq(Seq(Octet)) /\ Len(domains[d]) \in Nat
        /\ DOMAIN domains[d] = 1..Len(domains[d])
    BY LenProperties, ElementOfSeq
  <2>2. \A l \in DOMAIN domains[d] : domains[d][l] \in Seq(Octet)
    BY <2>1, ElementOfSeq
  <2>3. labels(d) \in [1..Len(domains[d]) -> Seq(Octet)]
    BY <1>2, <2>1, <2>2
  <2> HIDE DEF labels
  <2>4. labels(d) \in Seq(Seq(Octet))
    BY <2>1, <2>3, FunctionIsSeq
  <2>5. FlattenSeq(labels(d)) \in Seq(Octet)
    BY <2>4, FlattenTyped
  <2> QED
    BY <1>1, <2>5, PartsOf
<1> HIDE DEF labels
<1>4. names \in Seq(Seq(Octet))
  <2>1. Len(domains) \in Nat /\ DOMAIN domains = 1..Len(domains)
    BY LenProperties
  <2>2. names \in [1..Len(domains) -> Seq(Octet)]
    BY <1>3, <2>1
  <2> HIDE DEF names
  <2> QED
    BY <2>1, <2>2, FunctionIsSeq
<1>5. FlattenSeq(names) \in Seq(Octet)
  BY <1>4, FlattenTyped
<1> QED
  BY <1>5 DEF encode_dnssl_names, names, labels

LEMMA OptionsTyped ==
  ASSUME NEW cfg \in RaConfigs
  PROVE  DnsOptions(cfg) \in Seq(Octet)
<1> DEFINE servers == cfg.dns_servers
           domains == cfg.search_domains
           lifetime == cfg.lifetime_secs
           names == encode_dnssl_names(domains)
           padding == Padding(Len(names))
           padded == names \o padding
<1>1. /\ servers \in Seq(Addresses) /\ domains \in Seq(Seq(Seq(Octet))) /\ lifetime \in Nat
  BY DEF RaConfigs
<1>2. servers \in Seq(Seq(Octet)) /\ Len(servers) \in Nat
  BY <1>1, LenProperties DEF Addresses
<1> HIDE DEF servers, domains, lifetime
<1>3. BE32(lifetime) \in Seq(Octet)
  BY <1>1, SumBE32
<1>4. ASSUME NEW kind \in Octet, NEW size \in Octet, NEW body \in Seq(Octet)
      PROVE  <<kind, size, 0, 0>> \o BE32(lifetime) \o body \in Seq(Octet)
  <2>1. <<kind, size, 0, 0>> \in Seq(Octet)
    BY DEF Octet
  <2>2. <<kind, size, 0, 0>> \o BE32(lifetime) \in Seq(Octet)
    BY <1>3, <2>1, PartsOf
  <2> QED
    BY <2>2, PartsOf
<1>5. \A n \in Nat : U8(n) \in Octet
  BY DEF U8, Octet
<1>6. OPT_RDNSS \in Octet /\ OPT_DNSSL \in Octet
  BY DEF OPT_RDNSS, OPT_DNSSL, Octet
<1>7. build_rdnss_option(servers, lifetime) \in Seq(Octet)
  <2>1. FlattenSeq(servers) \in Seq(Octet)
    BY <1>2, FlattenTyped
  <2>2. U8(1 + 2 * Len(servers)) \in Octet
    BY <1>2, <1>5
  <2> QED
    BY <1>4, <1>6, <2>1, <2>2 DEF build_rdnss_option
<1>8. build_dnssl_option(domains, lifetime) \in Seq(Octet)
  <2>1. names \in Seq(Octet)
    BY <1>1, NamesTyped
  <2>2. padding \in Seq(Octet)
    <3>1. Len(names) \in Nat
      BY <2>1, LenProperties
    <3> DEFINE zeros == (8 - (Len(names) % 8)) % 8
    <3>2. zeros \in Nat
      BY <3>1
    <3>3. 0 \in Octet
      BY DEF Octet
    <3>4. padding = [i \in 1..zeros |-> 0]
      BY DEF Padding
    <3> HIDE DEF zeros, padding
    <3>5. padding \in [1..zeros -> Octet]
      BY <3>3, <3>4
    <3> QED
      BY <3>2, <3>5, FunctionIsSeq
  <2> HIDE DEF names, padding
  <2>3. padded \in Seq(Octet)
    BY <2>1, <2>2, PartsOf
  <2>4. build_dnssl_option(domains, lifetime) =
          <<OPT_DNSSL, U8((8 + Len(padded)) \div 8), 0, 0>> \o BE32(lifetime) \o padded
    BY DEF build_dnssl_option, padded, names, padding
  <2> HIDE DEF padded
  <2>5. U8((8 + Len(padded)) \div 8) \in Octet
    <3>1. Len(padded) \in Nat
      BY <2>3, LenProperties
    <3>2. (8 + Len(padded)) \div 8 \in Nat
      BY <3>1
    <3> QED
      BY <1>5, <3>2
  <2> QED
    BY <1>4, <1>6, <2>3, <2>4, <2>5
<1>9. (IF domains = <<>> THEN <<>> ELSE build_dnssl_option(domains, lifetime)) \in Seq(Octet)
  <2>1. <<>> \in Seq(Octet)
    OBVIOUS
  <2> QED
    BY <1>8, <2>1
<1>10. DnsOptions(cfg) = build_rdnss_option(servers, lifetime)
         \o (IF domains = <<>> THEN <<>> ELSE build_dnssl_option(domains, lifetime))
  BY DEF DnsOptions, servers, domains, lifetime
<1> QED
  BY <1>7, <1>9, <1>10, PartsOf

\* What an advertisement carries after its checksum.
AfterChecksum(cfg) ==
  <<64, 0>> \o BE16(cfg.router_lifetime_secs) \o BE32(0) \o BE32(0) \o DnsOptions(cfg)

LEMMA AfterChecksumFields ==
  ASSUME NEW cfg \in RaConfigs
  PROVE  LET back == AfterChecksum(cfg)
             options == DnsOptions(cfg)
         IN  /\ back \in Seq(Octet) /\ Len(back) = 12 + Len(options)
             /\ \A i \in 1..Len(options) : back[12 + i] = options[i]
             /\ \A first \in Seq(Octet) :
                  first \o <<64, 0>> \o BE16(cfg.router_lifetime_secs) \o BE32(0) \o BE32(0)
                    \o options = first \o back
<1> DEFINE a == <<64, 0>>
           b == BE16(cfg.router_lifetime_secs)
           c == BE32(0)
           d == DnsOptions(cfg)
           ab == a \o b
           abc == ab \o c
           abcc == abc \o c
           back == abcc \o d
<1>1. a \in Seq(Octet) /\ Len(a) = 2
  BY DEF Octet
<1>2. b \in Seq(Octet) /\ Len(b) = 2
  BY WordOctets DEF RaConfigs
<1>3. c \in Seq(Octet) /\ Len(c) = 4
  BY SumBE32
<1>4. d \in Seq(Octet) /\ Len(d) \in Nat
  BY OptionsTyped, LenProperties
<1> HIDE DEF a, b, c, d
<1>5. ab \in Seq(Octet) /\ Len(ab) = 4
  <2>1. ab \in Seq(Octet) /\ Len(ab) = Len(a) + Len(b)
    BY <1>1, <1>2, PartsOf
  <2> HIDE DEF ab
  <2> QED
    BY <1>1, <1>2, <2>1
<1> HIDE DEF ab
<1>6. abc \in Seq(Octet) /\ Len(abc) = 8
  <2>1. abc \in Seq(Octet) /\ Len(abc) = Len(ab) + Len(c)
    BY <1>3, <1>5, PartsOf
  <2> HIDE DEF abc
  <2> QED
    BY <1>3, <1>5, <2>1
<1> HIDE DEF abc
<1>7. abcc \in Seq(Octet) /\ Len(abcc) = 12
  <2>1. abcc \in Seq(Octet) /\ Len(abcc) = Len(abc) + Len(c)
    BY <1>3, <1>6, PartsOf
  <2> HIDE DEF abcc
  <2> QED
    BY <1>3, <1>6, <2>1
<1> HIDE DEF abcc
<1>8. /\ back \in Seq(Octet) /\ Len(back) = 12 + Len(d)
      /\ \A i \in 1..Len(d) : back[12 + i] = d[i]
  <2>1. /\ back \in Seq(Octet) /\ Len(back) = Len(abcc) + Len(d)
        /\ \A i \in 1..Len(d) : back[Len(abcc) + i] = d[i]
    BY <1>4, <1>7, PartsOf, ZenonT(60)
  <2>2. Len(abcc) = 12
    BY <1>7
  <2> HIDE DEF back
  <2> QED
    BY <2>1, <2>2
<1>9. ASSUME NEW first \in Seq(Octet)
      PROVE  first \o a \o b \o c \o c \o d = first \o back
  <2>1. (first \o a) \o b = first \o ab
    BY <1>1, <1>2, Associative DEF ab
  <2>2. (first \o ab) \o c = first \o abc
    BY <1>3, <1>5, Associative DEF abc
  <2>3. (first \o abc) \o c = first \o abcc
    BY <1>3, <1>6, Associative DEF abcc
  <2>4. (first \o abcc) \o d = first \o back
    BY <1>4, <1>7, Associative
  <2> HIDE DEF back
  <2> QED
    BY <2>1, <2>2, <2>3, <2>4
<1>10. back = AfterChecksum(cfg)
  BY DEF AfterChecksum, a, b, c, d, ab, abc, abcc
<1> HIDE DEF back
<1> QED
  BY <1>8, <1>9, <1>10 DEF a, b, c, d

\* What comes before it.
BeforeChecksum == <<ICMPV6_RTR_ADVERT, 0>>

\* An advertisement that is built is a header, and a message with a checksum that adds
\* up.
LEMMA BuiltAdvertisement ==
  ASSUME NEW cfg \in RaConfigs, NEW dst \in Addresses
  PROVE  LET len == U16(16 + Len(DnsOptions(cfg))) IN
         /\ len \in Word
         /\ \E sum \in Word :
              LET message == WithSum(BeforeChecksum, sum, AfterChecksum(cfg)) IN
              /\ build_router_advertisement(cfg, dst) =
                   build_ipv6_header(cfg.link_local_src, dst, ICMPV6_NEXT_HEADER,
                                     RA_HOP_LIMIT, len) \o message
              /\ message \in Seq(Octet) /\ Len(message) = 16 + Len(DnsOptions(cfg))
              /\ message[1] = ICMPV6_RTR_ADVERT
              /\ \A i \in 1..Len(DnsOptions(cfg)) : message[16 + i] = DnsOptions(cfg)[i]
              /\ AddsUp(cfg.link_local_src, dst, ICMPV6_NEXT_HEADER, message)
<1> DEFINE front == BeforeChecksum
           back == AfterChecksum(cfg)
           options == DnsOptions(cfg)
           src == cfg.link_local_src
           len == U16(16 + Len(options))
           icmp(n) == front \o BE16(n) \o <<64, 0>> \o BE16(cfg.router_lifetime_secs)
                        \o BE32(0) \o BE32(0) \o options
           message(n) == WithSum(front, n, back)
           sum == upper_layer_checksum(src, dst, ICMPV6_NEXT_HEADER, icmp(0))
<1>1. /\ front \in Seq(Octet) /\ Len(front) = 2 /\ front[1] = ICMPV6_RTR_ADVERT
  BY DEF BeforeChecksum, ICMPV6_RTR_ADVERT, Octet
<1>2. /\ back \in Seq(Octet) /\ Len(back) = 12 + Len(options)
      /\ \A i \in 1..Len(options) : back[12 + i] = options[i]
      /\ \A first \in Seq(Octet) :
           first \o <<64, 0>> \o BE16(cfg.router_lifetime_secs) \o BE32(0) \o BE32(0)
             \o options = first \o back
  BY AfterChecksumFields
<1>3. src \in Seq(Octet) /\ dst \in Seq(Octet) /\ ICMPV6_NEXT_HEADER \in Octet
  BY DEF RaConfigs, Addresses, ICMPV6_NEXT_HEADER, Octet
<1>4. Len(options) \in Nat
  BY OptionsTyped, LenProperties
<1>5. len \in Word
  BY <1>4 DEF U16, Word
<1>6. build_router_advertisement(cfg, dst) =
        build_ipv6_header(src, dst, ICMPV6_NEXT_HEADER, RA_HOP_LIMIT, U16(Len(icmp(0))))
          \o icmp(sum)
  BY DEF build_router_advertisement, BeforeChecksum
<1> HIDE DEF front, back, options, src, len, sum
<1>7. ASSUME NEW n \in Word
      PROVE  /\ icmp(n) = message(n)
             /\ message(n) \in Seq(Octet) /\ Len(message(n)) = 16 + Len(options)
             /\ message(n)[1] = ICMPV6_RTR_ADVERT
             /\ \A i \in 1..Len(options) : message(n)[16 + i] = options[i]
  <2> DEFINE first == front \o BE16(n)
  <2>1. BE16(n) \in Seq(Octet) /\ Len(BE16(n)) = 2
    BY WordOctets DEF Word
  <2>2. first \in Seq(Octet) /\ Len(first) = 4 /\ first[1] = ICMPV6_RTR_ADVERT
    <3>1. /\ first \in Seq(Octet) /\ Len(first) = Len(front) + Len(BE16(n))
          /\ \A i \in 1..Len(front) : first[i] = front[i]
      BY <1>1, <2>1, PartsOf
    <3> HIDE DEF first
    <3> QED
      BY <1>1, <2>1, <3>1
  <2>3. icmp(n) = first \o back
    BY <1>2, <2>2
  <2>4. message(n) = first \o back
    BY DEF WithSum
  <2> HIDE DEF first, icmp, message
  <2>5. /\ first \o back \in Seq(Octet) /\ Len(first \o back) = Len(first) + Len(back)
        /\ \A i \in 1..Len(first) : (first \o back)[i] = first[i]
        /\ \A i \in 1..Len(back) : (first \o back)[Len(first) + i] = back[i]
    BY <1>2, <2>2, PartsOf
  <2>6. message(n) \in Seq(Octet) /\ Len(message(n)) = 16 + Len(options)
        /\ message(n)[1] = ICMPV6_RTR_ADVERT
    BY <1>2, <1>4, <2>2, <2>4, <2>5
  <2>7. ASSUME NEW i \in 1..Len(options)
        PROVE  message(n)[16 + i] = options[i]
    <3>1. 12 + i \in 1..Len(back) /\ 4 + (12 + i) = 16 + i
      BY <1>2, <1>4
    <3>2. (first \o back)[4 + (12 + i)] = back[12 + i]
      BY <2>2, <2>5, <3>1
    <3> QED
      BY <1>2, <2>4, <3>1, <3>2
  <2> QED
    BY <2>3, <2>4, <2>6, <2>7
<1>8. 0 \in Word
  BY DEF Word
<1>9. sum \in Word /\ AddsUp(src, dst, ICMPV6_NEXT_HEADER, message(sum))
  <2> HIDE DEF icmp
  <2>1. icmp(0) = message(0)
    BY <1>7, <1>8
  <2> DEFINE check == upper_layer_checksum(src, dst, ICMPV6_NEXT_HEADER, message(0))
  <2>2. Len(front) % 2 = 0
    BY <1>1
  <2>3. check \in Word /\ AddsUp(src, dst, ICMPV6_NEXT_HEADER, message(check))
    BY <1>1, <1>2, <1>3, <2>2, MessagesAddUp, Zenon
  <2>4. sum = check
    BY <2>1 DEF sum
  <2> HIDE DEF check, message
  <2> QED
    BY <2>3, <2>4
<1>10. U16(Len(icmp(0))) = len
  <2> HIDE DEF icmp, message
  <2> QED
    BY <1>7, <1>8 DEF len
<1> HIDE DEF icmp
<1>11. build_router_advertisement(cfg, dst) =
         build_ipv6_header(src, dst, ICMPV6_NEXT_HEADER, RA_HOP_LIMIT, len) \o message(sum)
  <2> HIDE DEF message
  <2> QED
    BY <1>6, <1>7, <1>9, <1>10
<1> QED
  BY <1>5, <1>7, <1>9, <1>11 DEF front, back, options, src, len

\* Every advertisement, of any configuration, to any address, passes the receiver's
\* test.
THEOREM AdvertisementsVerify ==
  ASSUME NEW cfg \in RaConfigs, NEW dst \in Addresses
  PROVE  Verifies(build_router_advertisement(cfg, dst))
<1> DEFINE len == U16(16 + Len(DnsOptions(cfg)))
<1>1. len \in Word
  BY BuiltAdvertisement
<1>2. PICK sum \in Word :
        LET message == WithSum(BeforeChecksum, sum, AfterChecksum(cfg)) IN
        /\ build_router_advertisement(cfg, dst) =
             build_ipv6_header(cfg.link_local_src, dst, ICMPV6_NEXT_HEADER, RA_HOP_LIMIT, len)
               \o message
        /\ message \in Seq(Octet)
        /\ AddsUp(cfg.link_local_src, dst, ICMPV6_NEXT_HEADER, message)
  BY BuiltAdvertisement
<1> HIDE DEF len
<1> DEFINE message == WithSum(BeforeChecksum, sum, AfterChecksum(cfg))
           pkt == build_router_advertisement(cfg, dst)
<1>3. cfg.link_local_src \in Addresses /\ ICMPV6_NEXT_HEADER \in Octet /\ RA_HOP_LIMIT \in Octet
  BY DEF RaConfigs, ICMPV6_NEXT_HEADER, RA_HOP_LIMIT, Octet
<1> HIDE DEF message, pkt
<1>4. /\ pkt = build_ipv6_header(cfg.link_local_src, dst, ICMPV6_NEXT_HEADER, RA_HOP_LIMIT, len)
                 \o message
      /\ message \in Seq(Octet)
      /\ AddsUp(cfg.link_local_src, dst, ICMPV6_NEXT_HEADER, message)
  BY <1>2 DEF message, pkt
<1>5. IsPacket(pkt, cfg.link_local_src, dst, ICMPV6_NEXT_HEADER, RA_HOP_LIMIT, len, message)
  BY <1>1, <1>3, <1>4, HeaderFields
<1>6. Verifies(pkt)
  BY <1>3, <1>4, <1>5, AddsUpVerifies
<1> QED
  BY <1>6 DEF pkt

\* The longest options whose message has a length of 16 bits.
LongestOptions == 65519

\* Whatever the configuration, an advertisement says how long it is, carries the DNS
\* options behind its fixed fields and nothing after them, and the stack does not take
\* it for a solicitation when the link hands it back.
THEOREM AdvertisementLayout ==
  ASSUME NEW cfg \in RaConfigs, NEW dst \in Addresses, Len(DnsOptions(cfg)) <= LongestOptions
  PROVE  LET pkt == build_router_advertisement(cfg, dst) IN
         /\ Octet16(pkt, 5) = Len(pkt) - 40
         /\ SubSeq(pkt, 57, Len(pkt)) = DnsOptions(cfg)
         /\ ~is_router_solicitation(pkt)
<1> DEFINE options == DnsOptions(cfg)
           len == U16(16 + Len(options))
           pkt == build_router_advertisement(cfg, dst)
<1>0. options \in Seq(Octet) /\ Len(options) \in Nat
  BY OptionsTyped, LenProperties
<1>1. len \in Word /\ len = 16 + Len(options)
  BY <1>0 DEF U16, Word, LongestOptions
<1>2. PICK sum \in Word :
        LET message == WithSum(BeforeChecksum, sum, AfterChecksum(cfg)) IN
        /\ pkt = build_ipv6_header(cfg.link_local_src, dst, ICMPV6_NEXT_HEADER, RA_HOP_LIMIT, len)
                   \o message
        /\ message \in Seq(Octet) /\ Len(message) = 16 + Len(options)
        /\ message[1] = ICMPV6_RTR_ADVERT
        /\ \A i \in 1..Len(options) : message[16 + i] = options[i]
  BY BuiltAdvertisement
<1> DEFINE message == WithSum(BeforeChecksum, sum, AfterChecksum(cfg))
<1>3. cfg.link_local_src \in Addresses /\ ICMPV6_NEXT_HEADER \in Octet /\ RA_HOP_LIMIT \in Octet
  BY DEF RaConfigs, ICMPV6_NEXT_HEADER, RA_HOP_LIMIT, Octet
<1> HIDE DEF message, pkt, len, options
<1>4. /\ pkt = build_ipv6_header(cfg.link_local_src, dst, ICMPV6_NEXT_HEADER, RA_HOP_LIMIT, len)
                 \o message
      /\ message \in Seq(Octet) /\ Len(message) = 16 + Len(options)
      /\ message[1] = ICMPV6_RTR_ADVERT
      /\ \A i \in 1..Len(options) : message[16 + i] = options[i]
  BY <1>2 DEF message
<1>5. IsPacket(pkt, cfg.link_local_src, dst, ICMPV6_NEXT_HEADER, RA_HOP_LIMIT, len, message)
  BY <1>1, <1>3, <1>4, HeaderFields
<1>6. /\ pkt \in Seq(Octet) /\ Len(pkt) = 40 + Len(message) /\ Octet16(pkt, 5) = len
      /\ \A i \in 1..Len(message) : pkt[40 + i] = message[i]
  BY <1>5 DEF IsPacket
<1>7. Octet16(pkt, 5) = Len(pkt) - 40
  BY <1>0, <1>1, <1>4, <1>6
<1>8. SubSeq(pkt, 57, Len(pkt)) = options
  <2>1. ASSUME NEW i \in 1..Len(options)
        PROVE  pkt[56 + i] = options[i]
    <3>1. 16 + i \in 1..Len(message) /\ 40 + (16 + i) = 56 + i
      BY <1>0, <1>4
    <3>2. pkt[40 + (16 + i)] = message[16 + i]
      BY <1>6, <3>1
    <3> QED
      BY <1>4, <3>1, <3>2
  <2>2. 56 \in Nat /\ 56 + Len(options) <= Len(pkt) /\ Len(pkt) = 56 + Len(options)
    BY <1>0, <1>4, <1>6
  <2>3. SubSeq(pkt, 56 + 1, 56 + Len(options)) = options
    BY <1>0, <1>6, <2>1, <2>2, CutOut
  <2> QED
    BY <2>2, <2>3
<1>9. ~is_router_solicitation(pkt)
  <2>1. 1 \in 1..Len(message)
    BY <1>0, <1>4
  <2>2. pkt[40 + 1] = 134
    BY <1>4, <1>6, <2>1 DEF ICMPV6_RTR_ADVERT
  <2> QED
    BY <2>2 DEF is_router_solicitation, IPV6_HEADER_LEN, ICMPV6_RTR_SOLICIT
<1> QED
  BY <1>7, <1>8, <1>9 DEF pkt, options
-----------------------------------------------------------------------------
(* Options, one after the other. *)

\* Of the option that so many last octets begin with: its length, whether it is not one,
\* and its octets.
SizeAt(octets, left) == 8 * octets[(Len(octets) - left) + 2]
StopsAt(octets, left) == left = 1 \/ SizeAt(octets, left) = 0 \/ SizeAt(octets, left) > left
OptionAt(octets, left) ==
  SubSeq(octets, (Len(octets) - left) + 1, (Len(octets) - left) + SizeAt(octets, left))

OptionsTurn(octets, h) ==
  [left \in 0..Len(octets) |->
     IF left = 0 THEN <<>>
     ELSE IF StopsAt(octets, left) THEN <<Panic>>
     ELSE <<OptionAt(octets, left)>> \o h[left - SizeAt(octets, left)]]

\* h is what is read from the last octets, for any number of them.
OptionsRead(octets, h, all) ==
  /\ h[0] = <<>> /\ h[Len(octets)] = all
  /\ \A left \in 1..Len(octets) :
       ~StopsAt(octets, left) =>
         h[left] = <<OptionAt(octets, left)>> \o h[left - SizeAt(octets, left)]

LEMMA OptionsAreRead ==
  ASSUME NEW octets \in Seq(Octet)
  PROVE  \E h : OptionsRead(octets, h, ReadOptions(octets))
<1> DEFINE N == Len(octets)
           X == Seq(Octet) \cup {Panic}
           V == Seq(X)
           size(left) == SizeAt(octets, left)
           stops(left) == StopsAt(octets, left)
           prev == [left \in 1..N |-> IF stops(left) THEN 0 ELSE left - size(left)]
           step == [left \in 1..N |-> [v \in V |->
                      IF stops(left) THEN <<Panic>> ELSE <<OptionAt(octets, left)>> \o v]]
           h == CHOOSE g : g = OptionsTurn(octets, g)
<1>1. N \in Nat /\ \A i \in 1..N : octets[i] \in Nat
  BY LenProperties, ElementOfSeq DEF Octet
<1>2. ASSUME NEW left \in 1..N, ~stops(left)
      PROVE  size(left) \in 1..left /\ OptionAt(octets, left) \in X
  <2>1. left # 1 /\ size(left) # 0 /\ ~(size(left) > left)
    BY <1>2 DEF StopsAt
  <2>2. (N - left) + 2 \in 1..N
    BY <1>1, <2>1
  <2>3. size(left) \in Nat
    BY <1>1, <2>2 DEF SizeAt
  <2>4. size(left) \in 1..left
    BY <1>1, <2>1, <2>3
  <2> DEFINE m == N - left
  <2>5. m + 1 \in Int /\ m + size(left) \in Int /\ \A i \in (m + 1)..(m + size(left)) : i \in 1..N
    BY <1>1, <2>4
  <2> HIDE DEF size
  <2>6. \A i \in (m + 1)..(m + size(left)) : octets[i] \in Octet
    BY <2>5, ElementOfSeq
  <2>7. SubSeq(octets, m + 1, m + size(left)) \in Seq(Octet)
    BY <2>5, <2>6, SubSeqProperties
  <2> USE DEF size
  <2> QED
    BY <2>4, <2>7 DEF OptionAt
<1> HIDE DEF stops, size
<1>3. prev \in [1..N -> Nat] /\ \A left \in 1..N : prev[left] < left
  <2>1. ASSUME NEW left \in 1..N
        PROVE  /\ (IF stops(left) THEN 0 ELSE left - size(left)) \in Nat
               /\ (IF stops(left) THEN 0 ELSE left - size(left)) < left
    BY <1>1, <1>2
  <2> QED
    BY <2>1
<1>4. step \in [1..N -> [V -> V]]
  <2>1. ASSUME NEW left \in 1..N, NEW v \in V
        PROVE  (IF stops(left) THEN <<Panic>> ELSE <<OptionAt(octets, left)>> \o v) \in V
    <3>1. ASSUME NEW x \in X
          PROVE  <<x>> \in V
      OBVIOUS
    <3>2. Panic \in X
      OBVIOUS
    <3>3. CASE stops(left)
      BY <3>1, <3>2, <3>3
    <3>4. CASE ~stops(left)
      <4> DEFINE y == <<OptionAt(octets, left)>>
      <4>1. y \in V
        BY <1>2, <3>1, <3>4
      <4> HIDE DEF y, X
      <4>2. y \o v \in V
        BY <4>1, ConcatProperties
      <4> QED
        BY <3>4, <4>2 DEF y
    <3> QED
      BY <3>3, <3>4
  <2> HIDE DEF V
  <2> QED
    BY <2>1
<1>5. <<>> \in V
  OBVIOUS
<1>6. \A left \in 1..N, v \in V : step[left][v] =
        IF stops(left) THEN <<Panic>> ELSE <<OptionAt(octets, left)>> \o v
  OBVIOUS
<1>7. \A left \in 1..N : prev[left] = IF stops(left) THEN 0 ELSE left - size(left)
  OBVIOUS
<1> HIDE DEF step, prev, V, X, N
<1>8. PICK f : Jumps(f, N, V, <<>>, prev, step)
  BY <1>1, <1>3, <1>4, <1>5, JumpsExist
<1>9. f \in [0..N -> V] /\ f[0] = <<>> /\ \A left \in 1..N : f[left] = step[left][f[prev[left]]]
  BY <1>8 DEF Jumps
<1>10. ASSUME NEW left \in 1..N
       PROVE  f[left] = IF stops(left) THEN <<Panic>>
                        ELSE <<OptionAt(octets, left)>> \o f[left - size(left)]
  <2>1. prev[left] \in 0..N
    BY <1>1, <1>3
  <2>2. f[prev[left]] \in V
    BY <1>9, <2>1
  <2> QED
    BY <1>6, <1>7, <1>9, <2>2
<1>11. f = OptionsTurn(octets, f)
  <2>1. f = [left \in 0..N |-> f[left]]
    BY <1>9
  <2>2. ASSUME NEW left \in 0..N
        PROVE  f[left] = IF left = 0 THEN <<>>
                         ELSE IF stops(left) THEN <<Panic>>
                         ELSE <<OptionAt(octets, left)>> \o f[left - size(left)]
    <3>1. left = 0 \/ (left # 0 /\ left \in 1..N)
      BY <1>1
    <3> QED
      BY <1>9, <1>10, <3>1
  <2> QED
    BY <2>1, <2>2 DEF OptionsTurn, N, stops, size
<1>12. h = OptionsTurn(octets, h)
  BY <1>11
<1>13. ReadOptions(octets) = h[N]
  BY DEF ReadOptions, OptionsTurn, StopsAt, SizeAt, OptionAt, h, N
<1> HIDE DEF h
<1>14. \A left \in 0..N : h[left] = IF left = 0 THEN <<>>
                         ELSE IF stops(left) THEN <<Panic>>
                         ELSE <<OptionAt(octets, left)>> \o h[left - size(left)]
  BY <1>12 DEF OptionsTurn, N, stops, size
<1>15. h[0] = <<>> /\ \A left \in 1..N :
         ~stops(left) => h[left] = <<OptionAt(octets, left)>> \o h[left - size(left)]
  <2>1. 0 \in 0..N /\ \A left \in 1..N : left \in 0..N /\ left # 0
    BY <1>1
  <2> QED
    BY <1>14, <2>1
<1>16. OptionsRead(octets, h, ReadOptions(octets))
  BY <1>13, <1>15 DEF OptionsRead, N, stops, size
<1> QED
  BY <1>16

\* An option, wherever it is, is read whole if its second octet gives its length.
LEMMA OptionIsRead ==
  ASSUME NEW octets \in Seq(Octet), NEW h, NEW all, OptionsRead(octets, h, all),
         NEW m \in Nat, NEW option \in Seq(Octet), m + Len(option) <= Len(octets),
         \A i \in 1..Len(option) : octets[m + i] = option[i],
         Len(option) >= 8, Len(option) = 8 * option[2]
  PROVE  h[Len(octets) - m] = <<option>> \o h[(Len(octets) - m) - Len(option)]
<1> DEFINE left == Len(octets) - m
           size == Len(option)
<1>1. Len(octets) \in Nat /\ size \in Nat
  BY LenProperties
<1>2. left \in 1..Len(octets) /\ Len(octets) - left = m /\ 2 \in 1..size /\ size <= left
      /\ left # 1 /\ size # 0
  BY <1>1
<1>3. octets[m + 2] = option[2]
  BY <1>2
<1>4. SizeAt(octets, left) = size
  <2>1. SizeAt(octets, left) = 8 * octets[m + 2]
    BY <1>2 DEF SizeAt
  <2> QED
    BY <1>3, <2>1
<1>5. ~StopsAt(octets, left)
  BY <1>1, <1>2, <1>4 DEF StopsAt
<1>6. OptionAt(octets, left) = option
  <2>1. OptionAt(octets, left) = SubSeq(octets, m + 1, m + size)
    BY <1>2, <1>4 DEF OptionAt
  <2> QED
    BY <2>1, CutOut
<1> QED
  BY <1>2, <1>4, <1>5, <1>6 DEF OptionsRead

LEMMA Pair ==
  ASSUME NEW X, NEW a \in X, NEW b \in X
  PROVE  <<a>> \o <<b>> = <<a, b>>
<1> DEFINE s == <<a>>
           t == <<a, b>>
           u == Append(s, b)
<1>1. s \in Seq(X) /\ Len(s) = 1 /\ s[1] = a
  OBVIOUS
<1>2. t \in Seq(X) /\ Len(t) = 2 /\ t[1] = a /\ t[2] = b
  OBVIOUS
<1> HIDE DEF s, t
<1>3. u \in Seq(X) /\ Len(u) = 2 /\ u[1] = a /\ u[2] = b
  <2>1. /\ u \in Seq(X) /\ Len(u) = Len(s) + 1 /\ u[Len(s) + 1] = b
        /\ \A i \in 1..Len(s) : u[i] = s[i]
    <3>1. ASSUME NEW q \in Seq(X), NEW e \in X
          PROVE  /\ Append(q, e) \in Seq(X) /\ Len(Append(q, e)) = Len(q) + 1
                 /\ Append(q, e)[Len(q) + 1] = e
                 /\ \A i \in 1..Len(q) : Append(q, e)[i] = q[i]
      BY AppendProperties
    <3> QED
      BY <1>1, <3>1
  <2> HIDE DEF u
  <2>2. Len(s) + 1 = 2 /\ 1 \in 1..Len(s)
    BY <1>1
  <2> QED
    BY <1>1, <2>1, <2>2
<1>4. u = s \o <<b>>
  BY <1>1, AppendIsConcat
<1> HIDE DEF u
<1>5. u = t
  <2>1. \A i \in 1..2 : i = 1 \/ i = 2
    OBVIOUS
  <2>2. \A i \in 1..Len(u) : u[i] = t[i]
    BY <1>2, <1>3, <2>1
  <2> QED
    BY <1>2, <1>3, <2>2, SeqEqual
<1> QED
  BY <1>4, <1>5 DEF s, t

\* A string of octets that is one option, or one and another after it.
LEMMA OptionsReadBack ==
  ASSUME NEW a \in Seq(Octet), NEW b \in Seq(Octet), Len(a) >= 8, Len(a) = 8 * a[2],
         b = <<>> \/ (Len(b) >= 8 /\ Len(b) = 8 * b[2])
  PROVE  ReadOptions(a \o b) = IF b = <<>> THEN <<a>> ELSE <<a, b>>
<1> DEFINE octets == a \o b
           all == ReadOptions(octets)
<1>1. Len(a) \in Nat /\ Len(b) \in Nat
  BY LenProperties
<1>2. /\ octets \in Seq(Octet) /\ Len(octets) = Len(a) + Len(b)
      /\ \A i \in 1..Len(a) : octets[i] = a[i]
      /\ \A i \in 1..Len(b) : octets[Len(a) + i] = b[i]
  BY PartsOf
<1>3. PICK h : OptionsRead(octets, h, all)
  BY <1>2, OptionsAreRead
<1> HIDE DEF octets, all
<1>4. h[0] = <<>> /\ h[Len(octets)] = all
  BY <1>3 DEF OptionsRead
<1>5. h[Len(octets)] = <<a>> \o h[Len(b)]
  <2>1. /\ 0 \in Nat /\ 0 + Len(a) <= Len(octets) /\ \A i \in 1..Len(a) : octets[0 + i] = a[i]
        /\ Len(octets) - 0 = Len(octets) /\ Len(octets) - Len(a) = Len(b)
    BY <1>1, <1>2
  <2>2. h[Len(octets) - 0] = <<a>> \o h[(Len(octets) - 0) - Len(a)]
    BY <1>2, <1>3, <2>1, OptionIsRead, ZenonT(60)
  <2> QED
    BY <2>1, <2>2
<1>6. \A x \in Seq(Octet) : <<x>> \o <<>> = <<x>>
  <2>1. ASSUME NEW x \in Seq(Octet)
        PROVE  <<x>> \o <<>> = <<x>>
    <3> DEFINE y == <<x>>
    <3>1. y \in Seq(Seq(Octet))
      OBVIOUS
    <3> HIDE DEF y
    <3>2. y \o <<>> = y
      BY <3>1, ConcatEmptySeq
    <3> QED
      BY <3>2 DEF y
  <2> QED
    BY <2>1
<1>7. CASE b = <<>>
  <2>1. Len(b) = 0
    BY <1>7
  <2>2. <<a>> \o <<>> = <<a>>
    BY <1>6
  <2> QED
    BY <1>4, <1>5, <1>7, <2>1, <2>2 DEF octets, all
<1>8. CASE b # <<>>
  <2>1. /\ Len(a) + Len(b) <= Len(octets) /\ Len(octets) - Len(a) = Len(b)
        /\ Len(b) - Len(b) = 0
    BY <1>1, <1>2
  <2>2. h[Len(octets) - Len(a)] = <<b>> \o h[(Len(octets) - Len(a)) - Len(b)]
    BY <1>1, <1>2, <1>3, <1>8, <2>1, OptionIsRead, ZenonT(60)
  <2>3. h[Len(b)] = <<b>> \o <<>>
    BY <1>4, <2>1, <2>2
  <2>4. <<a>> \o (<<b>> \o <<>>) = <<a, b>>
    <3>1. <<b>> \o <<>> = <<b>>
      BY <1>6
    <3>2. <<a>> \o <<b>> = <<a, b>>
      BY Pair
    <3> QED
      BY <3>1, <3>2
  <2> QED
    BY <1>4, <1>5, <1>8, <2>3, <2>4 DEF octets, all
<1> QED
  BY <1>7, <1>8
-----------------------------------------------------------------------------
(* The servers. *)

\* The octets of an option: its head and its body.
IsOption(option, kind, body) ==
  /\ option \in Seq(Octet) /\ Len(option) = 8 + Len(body)
  /\ option[1] = kind
  /\ \A i \in 1..Len(body) : option[8 + i] = body[i]

LEMMA OptionLayout ==
  ASSUME NEW kind \in Octet, NEW size \in Octet, NEW lifetime \in Nat, NEW body \in Seq(Octet)
  PROVE  LET option == <<kind, size, 0, 0>> \o BE32(lifetime) \o body
         IN  IsOption(option, kind, body) /\ option[2] = size
<1> DEFINE a == <<kind, size, 0, 0>>
           b == BE32(lifetime)
           ab == a \o b
           option == ab \o body
<1>1. a \in Seq(Octet) /\ Len(a) = 4 /\ a[1] = kind /\ a[2] = size
  BY DEF Octet
<1>2. b \in Seq(Octet) /\ Len(b) = 4
  BY SumBE32
<1> HIDE DEF a, b
<1>3. ab \in Seq(Octet) /\ Len(ab) = 8 /\ ab[1] = kind /\ ab[2] = size
  <2>1. /\ ab \in Seq(Octet) /\ Len(ab) = Len(a) + Len(b)
        /\ \A i \in 1..Len(a) : ab[i] = a[i]
    BY <1>1, <1>2, PartsOf
  <2> HIDE DEF ab
  <2>2. 1 \in 1..Len(a) /\ 2 \in 1..Len(a)
    BY <1>1
  <2> QED
    BY <1>1, <1>2, <2>1, <2>2
<1> HIDE DEF ab
<1>4. /\ option \in Seq(Octet) /\ Len(option) = Len(ab) + Len(body)
      /\ \A i \in 1..Len(ab) : option[i] = ab[i]
      /\ \A i \in 1..Len(body) : option[Len(ab) + i] = body[i]
  BY <1>3, PartsOf
<1> HIDE DEF option
<1>5. 1 \in 1..Len(ab) /\ 2 \in 1..Len(ab)
  BY <1>3
<1>6. IsOption(option, kind, body) /\ option[2] = size
  BY <1>3, <1>4, <1>5 DEF IsOption
<1> QED
  BY <1>6 DEF option, ab, a, b

\* As many servers as the length octet counts are read back.
RdnssReadBack(option, servers) ==
  /\ option \in Seq(Octet) /\ Len(option) >= 8 /\ Len(option) = 8 * option[2]
  /\ ReadRdnss(option) = [type |-> OPT_RDNSS, servers |-> servers]

LEMMA ServersReadBack ==
  ASSUME NEW servers \in Seq(Addresses), Len(servers) <= 127, NEW lifetime \in Nat
  PROVE  RdnssReadBack(build_rdnss_option(servers, lifetime), servers)
<1> DEFINE n == Len(servers)
           body == FlattenSeq(servers)
           size == 1 + 2 * n
           option == build_rdnss_option(servers, lifetime)
<1>1. n \in Nat /\ servers \in Seq(Seq(Octet)) /\ \A k \in 1..n : servers[k] \in Addresses
  BY LenProperties, ElementOfSeq DEF Addresses
<1>2. PICK p : Places(servers, body, p)
  BY <1>1, FlattenPlaces
<1>3. body \in Seq(Octet) /\ Len(body) \in Nat
  BY <1>1, FlattenTyped, LenProperties
<1> HIDE DEF body
<1>4. /\ p \in [0..n -> Nat] /\ p[0] = 0 /\ p[n] = Len(body)
      /\ \A k \in 1..n : /\ p[k] = p[k - 1] + Len(servers[k])
                         /\ \A i \in 1..Len(servers[k]) : body[p[k - 1] + i] = servers[k][i]
  BY <1>2 DEF Places
<1>5. \A k \in 1..n : servers[k] \in Seq(Octet) /\ Len(servers[k]) = 16
  BY <1>1 DEF Addresses
<1> HIDE DEF n
<1> DEFINE T == {k \in 0..n : p[k] = 16 * k}
<1>6. 0 \in T
  BY <1>1, <1>4
<1>7. ASSUME NEW k \in 1..n, k - 1 \in T
      PROVE  k \in T
  <2>1. k \in 0..n /\ p[k - 1] = 16 * (k - 1)
    BY <1>1, <1>7
  <2>2. p[k] = p[k - 1] + 16
    BY <1>4, <1>5
  <2> QED
    BY <2>1, <2>2
<1> HIDE DEF T
<1>8. 0..n \subseteq T
  BY <1>1, <1>6, <1>7, Upwards
<1>9. \A k \in 0..n : p[k] = 16 * k
  BY <1>8 DEF T
<1>10. Len(body) = 16 * n
  BY <1>1, <1>4, <1>9
<1>11. size \in Octet /\ U8(size) = size
  <2>1. \A z \in Nat : z < 256 => z \in Octet /\ U8(z) = z
    BY DEF Octet, U8
  <2>2. size \in Nat /\ size < 256
    BY <1>1 DEF n
  <2> QED
    BY <2>1, <2>2
<1>12. OPT_RDNSS \in Octet
  BY DEF OPT_RDNSS, Octet
<1>13. option = <<OPT_RDNSS, size, 0, 0>> \o BE32(lifetime) \o body
  BY <1>11 DEF build_rdnss_option, body, n
<1> HIDE DEF size
<1>14. IsOption(option, OPT_RDNSS, body) /\ option[2] = size
  BY <1>3, <1>11, <1>12, <1>13, OptionLayout
<1> HIDE DEF option
<1>15. /\ option \in Seq(Octet) /\ Len(option) = 8 + 16 * n /\ option[1] = OPT_RDNSS
       /\ \A i \in 1..Len(body) : option[8 + i] = body[i]
  BY <1>10, <1>14 DEF IsOption
<1>16. Len(option) >= 8 /\ Len(option) = 8 * option[2]
  BY <1>1, <1>14, <1>15 DEF size
<1>17. (Len(option) - 8) \div 16 = n
  BY <1>1, <1>15
<1>18. ASSUME NEW k \in 1..n
       PROVE  SubSeq(option, 16 * k - 7, 16 * k + 8) = servers[k]
  <2> DEFINE m == 16 * k - 8
             s == servers[k]
  <2>1. m \in Nat /\ m + 1 = 16 * k - 7 /\ m + 16 = 16 * k + 8 /\ m + 16 <= Len(option)
        /\ m = 8 + 16 * (k - 1) /\ k - 1 \in 0..n
    BY <1>1, <1>15
  <2>2. s \in Seq(Octet) /\ Len(s) = 16 /\ \A i \in 1..16 : body[16 * (k - 1) + i] = s[i]
    BY <1>4, <1>5, <1>9, <2>1, ZenonT(60)
  <2>3. \A i \in 1..16 : option[m + i] = s[i]
    <3>1. ASSUME NEW i \in 1..16
          PROVE  option[m + i] = s[i]
      <4>1. 16 * (k - 1) + i \in 1..Len(body) /\ m + i = 8 + (16 * (k - 1) + i)
        BY <1>1, <1>10, <2>1
      <4> QED
        BY <1>15, <2>2, <4>1
    <3> QED
      BY <3>1
  <2> HIDE DEF m, s
  <2>4. SubSeq(option, m + 1, m + Len(s)) = s
    BY <1>15, <2>1, <2>2, <2>3, CutOut, ZenonT(60)
  <2> QED
    BY <2>1, <2>2, <2>4 DEF s
<1>19. [k \in 1..n |-> SubSeq(option, 16 * k - 7, 16 * k + 8)] = servers
  <2>1. [k \in 1..n |-> SubSeq(option, 16 * k - 7, 16 * k + 8)] = [k \in 1..n |-> servers[k]]
    BY <1>18
  <2>2. servers = [k \in 1..n |-> servers[k]]
    BY SeqDef DEF n
  <2> QED
    BY <2>1, <2>2
<1> QED
  BY <1>15, <1>16, <1>17, <1>19 DEF RdnssReadBack, ReadRdnss, option
-----------------------------------------------------------------------------
(* The names. *)

\* Where the reader is, the labels of the name it reads, and the names before it.
Reader(m, labels, names) == [at |-> m, labels |-> labels, names |-> names]

NamesTurn(octets, h) ==
  [n \in 0..Len(octets) |->
     IF n = 0 THEN Reader(0, <<>>, <<>>) ELSE ReadLabel(octets, h[n - 1])]

\* h is the reader after so many labels and zeros.
NamesRead(octets, h, all) ==
  /\ h[0] = Reader(0, <<>>, <<>>)
  /\ \A n \in 1..Len(octets) : h[n] = ReadLabel(octets, h[n - 1])
  /\ all = IF h[Len(octets)].labels = <<>> THEN h[Len(octets)].names
           ELSE Append(h[Len(octets)].names, Panic)

LEMMA NamesAreRead ==
  ASSUME NEW octets \in Seq(Octet)
  PROVE  \E h : NamesRead(octets, h, ReadNames(octets))
<1> DEFINE N == Len(octets)
           Ls == Seq(Seq(Octet))
           Ns == Seq(Ls \cup {Panic})
           V == [at : 0..N, labels : Ls, names : Ns]
           first == Reader(0, <<>>, <<>>)
           step == [n \in 1..N |-> [r \in V |-> ReadLabel(octets, r)]]
           h == CHOOSE g : g = NamesTurn(octets, g)
<1>1. N \in Nat /\ \A i \in 1..N : octets[i] \in Nat
  BY LenProperties, ElementOfSeq DEF Octet
<1>2. first \in V
  BY <1>1 DEF Reader
<1>3. ASSUME NEW r \in V
      PROVE  ReadLabel(octets, r) \in V
  <2> DEFINE at == r.at
             size == octets[at + 1]
             label == SubSeq(octets, at + 2, at + 1 + size)
  <2>1. at \in 0..N /\ r.labels \in Ls /\ r.names \in Ns
    OBVIOUS
  <2>2. CASE at = N
    BY <2>2 DEF ReadLabel
  <2>3. CASE at # N
    <3>1. at + 1 \in 1..N /\ size \in Nat
      BY <1>1, <2>1, <2>3
    <3>2. N \in 0..N /\ <<>> \in Ls
      BY <1>1
    <3>3. \A x \in Ls \cup {Panic} : Append(r.names, x) \in Ns
      BY <2>1, AppendProperties
    <3>4. CASE at + 1 + size > N
      <4>1. ReadLabel(octets, r) =
              [at |-> N, labels |-> <<>>, names |-> Append(r.names, Panic)]
        BY <2>3, <3>4 DEF ReadLabel
      <4> HIDE DEF Ls, Ns
      <4> QED
        BY <3>2, <3>3, <4>1
    <3>5. CASE ~(at + 1 + size > N) /\ size # 0
      <4>1. at + 1 + size \in 0..N
        BY <1>1, <3>1, <3>5
      <4>2. label \in Seq(Octet)
        <5>1. at + 2 \in Int /\ at + 1 + size \in Int
              /\ \A i \in (at + 2)..(at + 1 + size) : i \in 1..N
          BY <1>1, <3>1, <3>5
        <5> HIDE DEF size
        <5>2. \A i \in (at + 2)..(at + 1 + size) : octets[i] \in Octet
          BY <5>1, ElementOfSeq
        <5> QED
          BY <5>1, <5>2, SubSeqProperties
      <4>3. Append(r.labels, label) \in Ls
        BY <2>1, <4>2, AppendProperties
      <4>4. ReadLabel(octets, r) =
              [at |-> at + 1 + size, labels |-> Append(r.labels, label), names |-> r.names]
        BY <2>3, <3>5 DEF ReadLabel
      <4> HIDE DEF Ls, Ns, label
      <4> QED
        BY <2>1, <4>1, <4>3, <4>4
    <3>6. CASE ~(at + 1 + size > N) /\ size = 0
      <4> DEFINE names == IF r.labels = <<>> THEN r.names ELSE Append(r.names, r.labels)
      <4>1. ReadLabel(octets, r) = [at |-> at + 1, labels |-> <<>>, names |-> names]
        BY <2>3, <3>6 DEF ReadLabel
      <4>2. at + 1 \in 0..N /\ names \in Ns
        BY <2>1, <3>1, <3>3
      <4> HIDE DEF Ls, Ns, names
      <4> QED
        BY <3>2, <4>1, <4>2
    <3> QED
      BY <3>4, <3>5, <3>6
  <2> QED
    BY <2>2, <2>3
<1>4. step \in [1..N -> [V -> V]]
  <2> HIDE DEF V
  <2> QED
    BY <1>3
<1>5. \A n \in 1..N, r \in V : step[n][r] = ReadLabel(octets, r)
  OBVIOUS
<1> HIDE DEF step, V, N, first
<1>6. PICK f : Steps(f, N, V, first, step)
  BY <1>1, <1>2, <1>4, Recursion
<1>7. f \in [0..N -> V] /\ f[0] = first /\ \A n \in 1..N : f[n] = step[n][f[n - 1]]
  BY <1>6 DEF Steps
<1>8. f = NamesTurn(octets, f)
  <2>1. f = [n \in 0..N |-> f[n]]
    BY <1>7
  <2>2. ASSUME NEW n \in 0..N
        PROVE  f[n] = IF n = 0 THEN first ELSE ReadLabel(octets, f[n - 1])
    <3>1. n = 0 \/ (n # 0 /\ n \in 1..N /\ n - 1 \in 0..N)
      BY <1>1
    <3> QED
      BY <1>5, <1>7, <3>1
  <2> QED
    BY <2>1, <2>2 DEF NamesTurn, N, first
<1>9. h = NamesTurn(octets, h)
  BY <1>8
<1>10. ReadNames(octets) = IF h[N].labels = <<>> THEN h[N].names ELSE Append(h[N].names, Panic)
  BY DEF ReadNames, NamesTurn, Reader, h, N
<1> HIDE DEF h
<1>11. \A n \in 0..N : h[n] = IF n = 0 THEN first ELSE ReadLabel(octets, h[n - 1])
  BY <1>9 DEF NamesTurn, N, first
<1>12. h[0] = first /\ \A n \in 1..N : h[n] = ReadLabel(octets, h[n - 1])
  <2>1. 0 \in 0..N /\ \A n \in 1..N : n \in 0..N /\ n # 0
    BY <1>1
  <2> QED
    BY <1>11, <2>1
<1>13. NamesRead(octets, h, ReadNames(octets))
  BY <1>10, <1>12 DEF NamesRead, N, first
<1> QED
  BY <1>13

\* The reader gets there, and with at least one octet to each step in time.
Reached(octets, h, r) ==
  r.at \in 0..Len(octets) /\ \E n \in 0..r.at : h[n] = r

LEMMA ReachedNext ==
  ASSUME NEW octets \in Seq(Octet), NEW h, NEW all, NamesRead(octets, h, all),
         NEW r, Reached(octets, h, r), r.at # Len(octets),
         NEW next, next = ReadLabel(octets, r),
         next.at \in 0..Len(octets), next.at > r.at
  PROVE  Reached(octets, h, next)
<1>1. Len(octets) \in Nat /\ r.at \in 0..Len(octets)
  BY LenProperties DEF Reached
<1>2. PICK n \in 0..r.at : h[n] = r
  BY DEF Reached
<1>3. n + 1 \in 1..Len(octets) /\ (n + 1) - 1 = n /\ n + 1 \in 0..next.at
  BY <1>1
<1>4. h[n + 1] = next
  BY <1>2, <1>3 DEF NamesRead
<1> QED
  BY <1>3, <1>4 DEF Reached

LEMMA ReachedEnd ==
  ASSUME NEW octets \in Seq(Octet), NEW h, NEW all, NamesRead(octets, h, all),
         NEW r, Reached(octets, h, r), r.at = Len(octets)
  PROVE  h[Len(octets)] = r
<1> DEFINE N == Len(octets)
<1>1. N \in Nat
  BY LenProperties
<1>2. PICK n \in 0..N : h[n] = r
  BY DEF Reached
<1>3. ReadLabel(octets, r) = r
  BY DEF ReadLabel
<1>4. \A i \in 1..N : h[i] = ReadLabel(octets, h[i - 1])
  BY DEF NamesRead
<1> HIDE DEF N
<1> DEFINE T == {i \in 0..N : i < n \/ h[i] = r}
<1>5. 0 \in T
  <2>1. 0 < n \/ 0 = n
    BY <1>1
  <2> QED
    BY <1>1, <1>2, <2>1
<1>6. ASSUME NEW i \in 1..N, i - 1 \in T
      PROVE  i \in T
  <2>1. i \in 0..N /\ (i < n \/ i = n \/ ~(i - 1 < n))
    BY <1>1
  <2> QED
    BY <1>2, <1>3, <1>4, <1>6, <2>1
<1> HIDE DEF T
<1>7. 0..N \subseteq T
  BY <1>1, <1>5, <1>6, Upwards
<1>8. N \in T
  BY <1>1, <1>7
<1> QED
  BY <1>1, <1>8 DEF T, N

\* A label, and the zero after a name or among the padding.
LEMMA LabelReached ==
  ASSUME NEW octets \in Seq(Octet), NEW h, NEW all, NamesRead(octets, h, all),
         NEW m \in Nat, NEW labels, NEW names, Reached(octets, h, Reader(m, labels, names)),
         NEW label \in Seq(Octet), Len(label) # 0, m + 1 + Len(label) <= Len(octets),
         octets[m + 1] = Len(label), \A i \in 1..Len(label) : octets[(m + 1) + i] = label[i]
  PROVE  Reached(octets, h, Reader(m + 1 + Len(label), Append(labels, label), names))
<1> DEFINE r == Reader(m, labels, names)
           size == Len(label)
           next == Reader(m + 1 + size, Append(labels, label), names)
<1>1. Len(octets) \in Nat /\ size \in Nat
  BY LenProperties
<1>2. r.at = m /\ r.labels = labels /\ r.names = names /\ next.at = m + 1 + size
  BY DEF Reader
<1>3. m # Len(octets) /\ ~(m + 1 + size > Len(octets)) /\ m + 1 + size > m
      /\ m + 1 + size \in 0..Len(octets)
  BY <1>1
<1>4. SubSeq(octets, m + 2, m + 1 + size) = label
  <2>1. SubSeq(octets, (m + 1) + 1, (m + 1) + Len(label)) = label
    <3>1. m + 1 \in Nat /\ (m + 1) + Len(label) <= Len(octets)
      BY <1>1
    <3> QED
      BY <3>1, CutOut
  <2>2. (m + 1) + 1 = m + 2
    OBVIOUS
  <2> QED
    BY <2>1, <2>2
<1> HIDE DEF size
<1>5. octets[m + 1] = size
  BY DEF size
<1>6. size # 0
  BY DEF size
<1>7. next = ReadLabel(octets, r)
  BY <1>2, <1>3, <1>4, <1>5, <1>6 DEF ReadLabel, Reader
<1> HIDE DEF next, r
<1>8. Reached(octets, h, next)
  <2>1. Reached(octets, h, r)
    BY DEF r
  <2> QED
    BY <1>2, <1>3, <1>7, <2>1, ReachedNext
<1> QED
  BY <1>8 DEF next, size

LEMMA ZeroReached ==
  ASSUME NEW octets \in Seq(Octet), NEW h, NEW all, NamesRead(octets, h, all),
         NEW m \in Nat, NEW labels, NEW names, Reached(octets, h, Reader(m, labels, names)),
         m + 1 <= Len(octets), octets[m + 1] = 0
  PROVE  Reached(octets, h, Reader(m + 1, <<>>, IF labels = <<>> THEN names
                                                 ELSE Append(names, labels)))
<1> DEFINE r == Reader(m, labels, names)
           next == Reader(m + 1, <<>>, IF labels = <<>> THEN names ELSE Append(names, labels))
<1>1. Len(octets) \in Nat
  BY LenProperties
<1>2. r.at = m /\ r.labels = labels /\ r.names = names /\ next.at = m + 1
  BY DEF Reader
<1>3. m # Len(octets) /\ ~(m + 1 + 0 > Len(octets)) /\ m + 1 > m /\ m + 1 \in 0..Len(octets)
  BY <1>1
<1>4. next = ReadLabel(octets, r)
  BY <1>2, <1>3 DEF ReadLabel, Reader
<1> HIDE DEF next, r
<1>5. Reached(octets, h, next)
  <2>1. Reached(octets, h, r)
    BY DEF r
  <2> QED
    BY <1>2, <1>3, <1>4, <2>1, ReachedNext
<1> QED
  BY <1>5 DEF next

\* A name as it goes into the option.
NameOf(domain) == FlattenSeq([l \in DOMAIN domain |-> encode_label(domain[l])]) \o <<0>>

\* A domain as RFC 1035 has it: of labels, each of 1 to 63 octets.
Encodable == {d \in Seq(Seq(Octet)) : d # <<>> /\ \A l \in DOMAIN d : Len(d[l]) \in 1..63}

LEMMA LabelString ==
  ASSUME NEW label \in Seq(Octet), Len(label) \in 1..63
  PROVE  LET string == encode_label(label) IN
         /\ string \in Seq(Octet) /\ Len(string) = 1 + Len(label) /\ string[1] = Len(label)
         /\ \A i \in 1..Len(label) : string[1 + i] = label[i]
<1> DEFINE n == Len(label)
           a == <<n>>
           string == a \o label
<1>1. n \in Octet /\ U8(n) = n
  <2>1. \A z \in 1..63 : z \in Octet /\ U8(z) = z
    BY DEF Octet, U8
  <2> QED
    BY <2>1
<1>2. encode_label(label) = string
  BY <1>1 DEF encode_label
<1> HIDE DEF n
<1>3. a \in Seq(Octet) /\ Len(a) = 1 /\ a[1] = n
  BY <1>1
<1> HIDE DEF a
<1>4. /\ string \in Seq(Octet) /\ Len(string) = Len(a) + Len(label)
      /\ \A i \in 1..Len(a) : string[i] = a[i]
      /\ \A i \in 1..Len(label) : string[Len(a) + i] = label[i]
  BY <1>3, PartsOf
<1> HIDE DEF string
<1>5. 1 \in 1..Len(a)
  BY <1>3
<1> QED
  BY <1>2, <1>3, <1>4, <1>5 DEF n

LEMMA NameTyped ==
  ASSUME NEW domain \in Encodable
  PROVE  NameOf(domain) \in Seq(Octet)
<1> DEFINE n == Len(domain)
           strings == [l \in DOMAIN domain |-> encode_label(domain[l])]
<1>1. /\ domain \in Seq(Seq(Octet)) /\ n \in Nat /\ DOMAIN domain = 1..n
      /\ \A l \in 1..n : domain[l] \in Seq(Octet) /\ Len(domain[l]) \in 1..63
  BY LenProperties, ElementOfSeq DEF Encodable
<1>2. \A l \in 1..n : encode_label(domain[l]) \in Seq(Octet)
  BY <1>1, LabelString
<1>3. strings \in Seq(Seq(Octet))
  <2>1. strings \in [1..n -> Seq(Octet)]
    BY <1>1, <1>2
  <2> HIDE DEF strings
  <2> QED
    BY <1>1, <2>1, FunctionIsSeq
<1> HIDE DEF strings
<1>4. FlattenSeq(strings) \in Seq(Octet) /\ <<0>> \in Seq(Octet)
  BY <1>3, FlattenTyped DEF Octet
<1> QED
  BY <1>4, PartsOf DEF NameOf, strings

\* A name, wherever it is, is read label by label to its end.
LEMMA NameReached ==
  ASSUME NEW octets \in Seq(Octet), NEW h, NEW all, NamesRead(octets, h, all),
         NEW m \in Nat, NEW names, Reached(octets, h, Reader(m, <<>>, names)),
         NEW domain \in Encodable, m + Len(NameOf(domain)) <= Len(octets),
         \A i \in 1..Len(NameOf(domain)) : octets[m + i] = NameOf(domain)[i]
  PROVE  Reached(octets, h, Reader(m + Len(NameOf(domain)), <<>>, Append(names, domain)))
<1> DEFINE n == Len(domain)
           strings == [l \in DOMAIN domain |-> encode_label(domain[l])]
           flat == FlattenSeq(strings)
           zero == <<0>>
           name_ == flat \o zero
           first(l) == SubSeq(domain, 1, l)
<1>1. /\ domain \in Seq(Seq(Octet)) /\ domain # <<>> /\ n \in Nat /\ DOMAIN domain = 1..n
      /\ \A l \in 1..n : domain[l] \in Seq(Octet) /\ Len(domain[l]) \in 1..63
  BY LenProperties, ElementOfSeq DEF Encodable
<1>2. ASSUME NEW l \in 1..n
      PROVE  /\ strings[l] \in Seq(Octet) /\ Len(strings[l]) = 1 + Len(domain[l])
             /\ strings[l][1] = Len(domain[l])
             /\ \A i \in 1..Len(domain[l]) : strings[l][1 + i] = domain[l][i]
  <2> DEFINE label == domain[l]
  <2>1. label \in Seq(Octet) /\ Len(label) \in 1..63 /\ strings[l] = encode_label(label)
    BY <1>1
  <2> HIDE DEF label, strings
  <2> QED
    BY <2>1, LabelString DEF label
<1>3. strings \in Seq(Seq(Octet)) /\ Len(strings) = n
  <2>1. strings \in [1..n -> Seq(Octet)]
    BY <1>1, <1>2
  <2> HIDE DEF strings
  <2> QED
    BY <1>1, <2>1, FunctionIsSeq
<1>4. PICK q : Places(strings, flat, q)
  BY <1>3, FlattenPlaces
<1>5. flat \in Seq(Octet) /\ Len(flat) \in Nat
  BY <1>3, FlattenTyped, LenProperties
<1>6. NameOf(domain) = name_
  BY DEF NameOf
<1> HIDE DEF strings, flat
<1>7. zero \in Seq(Octet) /\ Len(zero) = 1 /\ zero[1] = 0
  BY DEF Octet
<1> HIDE DEF zero
<1>8. /\ Len(name_) = Len(flat) + 1 /\ name_[Len(flat) + 1] = 0
      /\ \A i \in 1..Len(flat) : name_[i] = flat[i]
  <2>1. /\ Len(name_) = Len(flat) + Len(zero)
        /\ \A i \in 1..Len(flat) : name_[i] = flat[i]
        /\ \A i \in 1..Len(zero) : name_[Len(flat) + i] = zero[i]
    BY <1>5, <1>7, PartsOf
  <2> HIDE DEF name_
  <2> QED
    BY <1>7, <2>1
<1> HIDE DEF name_
<1>9. /\ Len(octets) \in Nat /\ m + Len(flat) + 1 <= Len(octets)
      /\ octets[m + (Len(flat) + 1)] = 0
      /\ \A i \in 1..Len(flat) : octets[m + i] = flat[i]
  <2>1. Len(octets) \in Nat /\ \A i \in 1..(Len(flat) + 1) : octets[m + i] = name_[i]
    BY <1>6, <1>8, LenProperties
  <2>2. Len(flat) + 1 \in 1..(Len(flat) + 1) /\ \A i \in 1..Len(flat) : i \in 1..(Len(flat) + 1)
    BY <1>5
  <2>3. m + Len(flat) + 1 <= Len(octets)
    BY <1>5, <1>6, <1>8, <2>1
  <2> QED
    BY <1>8, <2>1, <2>2, <2>3
<1>10. /\ q \in [0..n -> Nat] /\ q[0] = 0 /\ q[n] = Len(flat)
       /\ \A l \in 1..n :
            /\ q[l] = q[l - 1] + Len(strings[l]) /\ q[l] <= Len(flat)
            /\ \A i \in 1..Len(strings[l]) : flat[q[l - 1] + i] = strings[l][i]
  BY <1>3, <1>4 DEF Places
<1>11. /\ first(0) = <<>> /\ first(n) = domain
       /\ \A l \in 1..n : first(l) = Append(first(l - 1), domain[l])
  <2>1. first(0) = <<>> /\ first(n) = domain
    BY <1>1, SubSeqEmpty, SubSeqFull
  <2>2. ASSUME NEW l \in 1..n
        PROVE  SubSeq(domain, 1, l) = Append(SubSeq(domain, 1, l - 1), domain[l])
    <3>1. 1 \in 1..(n + 1) /\ l \in 1..n
      BY <1>1
    <3> QED
      BY <1>1, <3>1, SubSeqRecursiveSecond
  <2> QED
    BY <2>1, <2>2
<1> HIDE DEF first, n
<1> DEFINE T == {l \in 0..n : Reached(octets, h, Reader(m + q[l], first(l), names))}
<1>12. 0 \in T
  <2>1. 0 \in 0..n /\ m + q[0] = m
    BY <1>1, <1>10
  <2> QED
    BY <1>11, <2>1
<1>13. ASSUME NEW l \in 1..n, l - 1 \in T
       PROVE  l \in T
  <2> DEFINE label == domain[l]
             at == m + q[l - 1]
  <2>1. l \in 0..n /\ l - 1 \in 0..n
    BY <1>1
  <2>2. q[l - 1] \in Nat /\ q[l] \in Nat /\ label \in Seq(Octet) /\ Len(label) \in 1..63
    BY <1>1, <1>10, <2>1
  <2>3. q[l] = q[l - 1] + (1 + Len(label)) /\ q[l] <= Len(flat)
    BY <1>2, <1>10
  <2>4. \A i \in 1..(1 + Len(label)) : octets[at + i] = strings[l][i]
    <3>1. ASSUME NEW i \in 1..(1 + Len(label))
          PROVE  octets[at + i] = strings[l][i]
      <4>1. q[l - 1] + i \in 1..Len(flat) /\ m + (q[l - 1] + i) = at + i
        <5> DEFINE before == q[l - 1]
                   size == Len(label)
                   flatLen == Len(flat)
        <5>1. /\ before \in Nat /\ size \in Nat /\ flatLen \in Nat /\ i \in 1..(1 + size)
              /\ before + (1 + size) <= flatLen /\ at = m + before
          BY <1>5, <2>2, <2>3
        <5> HIDE DEF before, size, flatLen, at
        <5>2. before + i \in 1..flatLen /\ m + (before + i) = at + i
          BY <5>1
        <5> QED
          BY <5>2 DEF before, flatLen
      <4>2. octets[m + (q[l - 1] + i)] = flat[q[l - 1] + i]
        BY <1>9, <4>1
      <4>3. flat[q[l - 1] + i] = strings[l][i]
        BY <1>2, <1>10
      <4> QED
        BY <4>1, <4>2, <4>3
    <3> QED
      BY <3>1
  <2>5. Reached(octets, h, Reader(at, first(l - 1), names))
    BY <1>13
  <2>6. at \in Nat /\ at + 1 + Len(label) <= Len(octets) /\ Len(label) # 0
        /\ at + 1 + Len(label) = m + q[l]
    <3> DEFINE size == Len(label)
               before == q[l - 1]
               after == q[l]
               whole == Len(octets)
               flatLen == Len(flat)
    <3>1. /\ m \in Nat /\ before \in Nat /\ after \in Nat /\ whole \in Nat /\ flatLen \in Nat
          /\ size \in 1..63 /\ after = before + (1 + size) /\ after <= flatLen
          /\ m + flatLen + 1 <= whole /\ at = m + before
      BY <1>5, <1>9, <2>2, <2>3
    <3> HIDE DEF size, before, after, whole, flatLen, at
    <3>2. at \in Nat /\ at + 1 + size <= whole /\ size # 0 /\ at + 1 + size = m + after
      BY <3>1
    <3> QED
      BY <3>2 DEF size, before, after, whole, at
  <2>7. octets[at + 1] = Len(label) /\ \A i \in 1..Len(label) : octets[(at + 1) + i] = label[i]
    <3>1. 1 \in 1..(1 + Len(label))
      BY <2>2
    <3>2. octets[at + 1] = Len(label)
      BY <1>2, <2>4, <3>1
    <3>3. ASSUME NEW i \in 1..Len(label)
          PROVE  octets[(at + 1) + i] = label[i]
      <4>1. 1 + i \in 1..(1 + Len(label)) /\ (at + 1) + i = at + (1 + i)
        <5> DEFINE size == Len(label)
        <5>1. size \in Nat /\ at \in Nat /\ i \in 1..size
          BY <2>2, <2>6
        <5> HIDE DEF size, at
        <5>2. 1 + i \in 1..(1 + size) /\ (at + 1) + i = at + (1 + i)
          BY <5>1
        <5> QED
          BY <5>2 DEF size
      <4>2. octets[at + (1 + i)] = strings[l][1 + i]
        BY <2>4, <4>1
      <4> QED
        BY <1>2, <4>1, <4>2
    <3> QED
      BY <3>2, <3>3
  <2> HIDE DEF label, at
  <2>8. Reached(octets, h, Reader(at + 1 + Len(label), Append(first(l - 1), label), names))
    BY <2>2, <2>5, <2>6, <2>7, LabelReached
  <2>9. first(l) = Append(first(l - 1), label)
    BY <1>11 DEF label
  <2> QED
    BY <2>1, <2>6, <2>8, <2>9
<1> HIDE DEF T
<1>14. 0..n \subseteq T
  BY <1>1, <1>12, <1>13, Upwards
<1>15. Reached(octets, h, Reader(m + Len(flat), domain, names))
  <2>1. n \in T
    BY <1>1, <1>14
  <2> QED
    BY <1>10, <1>11, <2>1 DEF T
<1> DEFINE at == m + Len(flat)
<1>16. at \in Nat /\ at + 1 <= Len(octets) /\ octets[at + 1] = 0
       /\ at + 1 = m + Len(NameOf(domain))
  <2>1. at \in Nat /\ at + 1 <= Len(octets) /\ at + 1 = m + (Len(flat) + 1)
    BY <1>5, <1>9
  <2>2. octets[at + 1] = 0
    BY <1>9, <2>1
  <2> QED
    BY <1>6, <1>8, <2>1, <2>2
<1> HIDE DEF at
<1>17. Reached(octets, h, Reader(at + 1, <<>>, IF domain = <<>> THEN names
                                                ELSE Append(names, domain)))
  <2>1. Reached(octets, h, Reader(at, domain, names))
    BY <1>15 DEF at
  <2> QED
    BY <1>16, <2>1, ZeroReached
<1> QED
  BY <1>1, <1>16, <1>17

\* The names of any list of domains, with whatever zeros after them, are read back.
LEMMA NamesReadBack ==
  ASSUME NEW domains \in Seq(Encodable), NEW k \in Nat
  PROVE  ReadNames(encode_dnssl_names(domains) \o [i \in 1..k |-> 0]) = domains
<1> DEFINE n == Len(domains)
           strings == [d \in DOMAIN domains |-> NameOf(domains[d])]
           flat == FlattenSeq(strings)
           zeros == [i \in 1..k |-> 0]
           octets == flat \o zeros
           all == ReadNames(octets)
           first(d) == SubSeq(domains, 1, d)
<1>1. /\ n \in Nat /\ DOMAIN domains = 1..n
      /\ \A d \in 1..n : domains[d] \in Encodable
  BY LenProperties, ElementOfSeq
<1>2. flat = encode_dnssl_names(domains)
  BY DEF encode_dnssl_names, NameOf
<1>3. \A d \in 1..n : strings[d] = NameOf(domains[d]) /\ strings[d] \in Seq(Octet)
  <2>1. ASSUME NEW d \in 1..n
        PROVE  NameOf(domains[d]) \in Seq(Octet)
    BY <1>1, NameTyped
  <2> QED
    BY <1>1, <2>1
<1>4. strings \in Seq(Seq(Octet)) /\ Len(strings) = n
  <2>1. strings \in [1..n -> Seq(Octet)]
    BY <1>1, <1>3
  <2> HIDE DEF strings
  <2> QED
    BY <1>1, <2>1, FunctionIsSeq
<1>5. PICK p : Places(strings, flat, p)
  BY <1>4, FlattenPlaces
<1>6. flat \in Seq(Octet) /\ Len(flat) \in Nat
  BY <1>4, FlattenTyped, LenProperties
<1> HIDE DEF strings, flat
<1>7. zeros \in Seq(Octet) /\ Len(zeros) = k /\ \A i \in 1..k : zeros[i] = 0
  <2>1. zeros \in [1..k -> Octet] /\ \A i \in 1..k : zeros[i] = 0
    BY DEF Octet
  <2> HIDE DEF zeros
  <2> QED
    BY <2>1, FunctionIsSeq
<1> HIDE DEF zeros
<1>8. /\ octets \in Seq(Octet) /\ Len(octets) = Len(flat) + k
      /\ \A i \in 1..Len(flat) : octets[i] = flat[i]
      /\ \A i \in 1..k : octets[Len(flat) + i] = 0
  <2>1. /\ octets \in Seq(Octet) /\ Len(octets) = Len(flat) + Len(zeros)
        /\ \A i \in 1..Len(flat) : octets[i] = flat[i]
        /\ \A i \in 1..Len(zeros) : octets[Len(flat) + i] = zeros[i]
    BY <1>6, <1>7, PartsOf
  <2> HIDE DEF octets
  <2> QED
    BY <1>7, <2>1
<1>9. PICK h : NamesRead(octets, h, all)
  BY <1>8, NamesAreRead
<1> HIDE DEF octets, all
<1>10. /\ p \in [0..n -> Nat] /\ p[0] = 0 /\ p[n] = Len(flat)
       /\ \A d \in 1..n :
            /\ p[d] = p[d - 1] + Len(strings[d]) /\ p[d] <= Len(flat)
            /\ \A i \in 1..Len(strings[d]) : flat[p[d - 1] + i] = strings[d][i]
  BY <1>4, <1>5 DEF Places
<1>11. /\ first(0) = <<>> /\ first(n) = domains
       /\ \A d \in 1..n : first(d) = Append(first(d - 1), domains[d])
  <2>1. first(0) = <<>> /\ first(n) = domains
    BY <1>1, SubSeqEmpty, SubSeqFull
  <2>2. ASSUME NEW d \in 1..n
        PROVE  SubSeq(domains, 1, d) = Append(SubSeq(domains, 1, d - 1), domains[d])
    <3>1. 1 \in 1..(n + 1) /\ d \in 1..n
      BY <1>1
    <3> QED
      BY <1>1, <3>1, SubSeqRecursiveSecond
  <2> QED
    BY <2>1, <2>2
<1> HIDE DEF first, n
<1> DEFINE T == {d \in 0..n : Reached(octets, h, Reader(p[d], <<>>, first(d)))}
<1>12. 0 \in T
  <2>1. 0 \in 0..n /\ 0 \in 0..Len(octets) /\ 0 \in 0..0
    BY <1>1, <1>6, <1>8
  <2>2. h[0] = Reader(0, <<>>, <<>>) /\ Reader(0, <<>>, <<>>).at = 0
    BY <1>9 DEF NamesRead, Reader
  <2>3. Reached(octets, h, Reader(0, <<>>, <<>>))
    BY <2>1, <2>2 DEF Reached
  <2> QED
    BY <1>10, <1>11, <2>1, <2>3
<1>13. ASSUME NEW d \in 1..n, d - 1 \in T
       PROVE  d \in T
  <2> DEFINE m == p[d - 1]
             domain == domains[d]
             size == Len(NameOf(domain))
  <2>1. d \in 0..n /\ d - 1 \in 0..n
    BY <1>1
  <2>2. m \in Nat /\ domain \in Encodable /\ NameOf(domain) \in Seq(Octet) /\ size \in Nat
    BY <1>1, <1>3, <1>10, <2>1, LenProperties
  <2>3. p[d] = m + size /\ m + size <= Len(flat)
    BY <1>3, <1>10
  <2>4. m + size <= Len(octets)
    BY <1>6, <1>8, <2>2, <2>3
  <2>5. ASSUME NEW i \in 1..size
        PROVE  octets[m + i] = NameOf(domain)[i]
    <3>1. m + i \in 1..Len(flat)
      BY <1>6, <2>2, <2>3
    <3>2. flat[m + i] = NameOf(domain)[i]
      BY <1>3, <1>10
    <3> QED
      BY <1>8, <3>1, <3>2
  <2>6. Reached(octets, h, Reader(m, <<>>, first(d - 1)))
    BY <1>13
  <2> HIDE DEF m, domain
  <2>7. Reached(octets, h, Reader(m + size, <<>>, Append(first(d - 1), domain)))
    BY <1>8, <1>9, <2>2, <2>4, <2>5, <2>6, NameReached
  <2>8. first(d) = Append(first(d - 1), domain)
    BY <1>11 DEF domain
  <2> QED
    BY <2>1, <2>3, <2>7, <2>8
<1> HIDE DEF T
<1>14. 0..n \subseteq T
  BY <1>1, <1>12, <1>13, Upwards
<1>15. Reached(octets, h, Reader(Len(flat), <<>>, domains))
  <2>1. n \in T
    BY <1>1, <1>14
  <2> QED
    BY <1>10, <1>11, <2>1 DEF T
<1> DEFINE Z == {j \in 0..k : Reached(octets, h, Reader(Len(flat) + j, <<>>, domains))}
<1>16. 0 \in Z
  <2>1. Len(flat) + 0 = Len(flat)
    BY <1>6
  <2> QED
    BY <1>15, <2>1
<1>17. ASSUME NEW j \in 1..k, j - 1 \in Z
       PROVE  j \in Z
  <2> DEFINE m == Len(flat) + (j - 1)
  <2>1. j \in 0..k /\ m \in Nat /\ m + 1 = Len(flat) + j /\ m + 1 <= Len(octets)
    BY <1>6, <1>8
  <2>2. Reached(octets, h, Reader(m, <<>>, domains))
    BY <1>17
  <2>3. octets[m + 1] = 0
    BY <1>8, <2>1
  <2> HIDE DEF m
  <2>4. Reached(octets, h, Reader(m + 1, <<>>, IF <<>> = <<>> THEN domains
                                                ELSE Append(domains, <<>>)))
    BY <1>8, <1>9, <2>1, <2>2, <2>3, ZeroReached
  <2> QED
    BY <2>1, <2>4
<1> HIDE DEF Z
<1>18. 0..k \subseteq Z
  BY <1>16, <1>17, Upwards
<1>19. Reached(octets, h, Reader(Len(octets), <<>>, domains))
  <2>1. k \in Z
    BY <1>18
  <2> QED
    BY <1>8, <2>1 DEF Z
<1>20. h[Len(octets)] = Reader(Len(octets), <<>>, domains)
  <2> DEFINE r == Reader(Len(octets), <<>>, domains)
  <2>1. r.at = Len(octets)
    BY DEF Reader
  <2> HIDE DEF r
  <2>2. Reached(octets, h, r)
    BY <1>19 DEF r
  <2> QED
    BY <1>8, <1>9, <2>1, <2>2, ReachedEnd DEF r
<1>21. all = domains
  BY <1>9, <1>20 DEF NamesRead, Reader
<1> QED
  BY <1>2, <1>21 DEF all, octets, zeros
-----------------------------------------------------------------------------
(* Both options. *)

\* So many octets of names are as much as the length octet counts.
LongestNames == 2032

\* The domains are read back, however far the names are from a multiple of eight octets.
DnsslReadBack(option, domains) ==
  /\ option \in Seq(Octet) /\ Len(option) >= 8 /\ Len(option) = 8 * option[2]
  /\ ReadDnssl(option) = [type |-> OPT_DNSSL, domains |-> domains]

LEMMA PaddingFills ==
  ASSUME NEW n \in 0..LongestNames
  PROVE  LET k == (8 - (n % 8)) % 8
             size == (8 + (n + k)) \div 8
         IN  k \in Nat /\ U8(size) = size /\ size \in Octet /\ 8 * size = 8 + (n + k)
<1> DEFINE r == n % 8
           q == n \div 8
           k == (8 - r) % 8
           size == (8 + (n + k)) \div 8
<1>1. n \in Nat /\ n <= 2032
  BY DEF LongestNames
<1>2. q \in Nat /\ r \in 0..7 /\ n = 8 * q + r
  BY <1>1
<1> HIDE DEF q, r
<1>3. (k = 0 /\ r = 0) \/ (k = 8 - r /\ r # 0)
  <2>1. r \in {0, 1, 2, 3, 4, 5, 6, 7}
    BY <1>2
  <2> QED
    BY <2>1
<1>4. k \in Nat
  BY <1>2
<1> HIDE DEF k
<1>5. \E z \in Nat : 8 + (n + k) = 8 * z /\ z < 256
  <2>1. CASE k = 0 /\ r = 0
    <3>1. 1 + q \in Nat /\ 8 + (n + k) = 8 * (1 + q) /\ 1 + q < 256
      BY <1>1, <1>2, <2>1
    <3> QED
      BY <3>1
  <2>2. CASE k = 8 - r /\ r # 0
    <3>1. 2 + q \in Nat /\ 8 + (n + k) = 8 * (2 + q)
      BY <1>1, <1>2, <2>2
    <3>2. q < 254
      BY <1>1, <1>2, <2>2
    <3>3. 2 + q < 256
      BY <1>2, <3>2
    <3> QED
      BY <3>1, <3>3
  <2> QED
    BY <1>3, <2>1, <2>2
<1>6. PICK z \in Nat : 8 + (n + k) = 8 * z /\ z < 256
  BY <1>5
<1>7. size = z
  <2>1. (8 * z) \div 8 = z
    OBVIOUS
  <2> QED
    BY <1>6, <2>1
<1>8. z \in Octet /\ U8(z) = z
  BY <1>6 DEF Octet, U8
<1> HIDE DEF size
<1>9. k \in Nat /\ U8(size) = size /\ size \in Octet /\ 8 * size = 8 + (n + k)
  BY <1>4, <1>6, <1>7, <1>8
<1> QED
  BY <1>9 DEF size, k, r

LEMMA DomainsReadBack ==
  ASSUME NEW domains \in Seq(Encodable), Len(encode_dnssl_names(domains)) <= LongestNames,
         NEW lifetime \in Nat
  PROVE  DnsslReadBack(build_dnssl_option(domains, lifetime), domains)
<1> DEFINE names == encode_dnssl_names(domains)
           n == Len(names)
           k == (8 - (n % 8)) % 8
           zeros == [i \in 1..k |-> 0]
           padded == names \o zeros
           size == (8 + Len(padded)) \div 8
           option == build_dnssl_option(domains, lifetime)
<1>1. names \in Seq(Octet) /\ n \in 0..LongestNames
  <2>1. domains \in Seq(Seq(Seq(Octet)))
    BY DEF Encodable
  <2>2. names \in Seq(Octet)
    BY <2>1, NamesTyped
  <2>3. n \in Nat /\ n <= LongestNames
    BY <2>2, LenProperties
  <2> HIDE DEF n
  <2>4. n \in 0..LongestNames
    BY <2>3 DEF LongestNames
  <2> QED
    BY <2>2, <2>4
<1>2. option = <<OPT_DNSSL, U8(size), 0, 0>> \o BE32(lifetime) \o padded
  BY DEF build_dnssl_option, Padding
<1> HIDE DEF names, option
<1>3. k \in Nat /\ zeros \in Seq(Octet) /\ Len(zeros) = k
  <2>1. k \in Nat
    BY <1>1, PaddingFills
  <2> HIDE DEF k
  <2>2. zeros \in [1..k -> Octet]
    BY DEF Octet
  <2> HIDE DEF zeros
  <2> QED
    BY <2>1, <2>2, FunctionIsSeq
<1>4. padded \in Seq(Octet) /\ Len(padded) = n + k
  <2> HIDE DEF k, zeros
  <2>1. padded \in Seq(Octet) /\ Len(padded) = Len(names) + Len(zeros)
    BY <1>1, <1>3, PartsOf
  <2> HIDE DEF padded
  <2> QED
    BY <1>3, <2>1
<1>5. U8(size) = size /\ size \in Octet /\ 8 * size = 8 + Len(padded)
  <2> DEFINE filled == (8 + (n + k)) \div 8
  <2>1. U8(filled) = filled /\ filled \in Octet /\ 8 * filled = 8 + (n + k)
    BY <1>1, PaddingFills
  <2> HIDE DEF n, k, padded
  <2>2. size = filled
    BY <1>4
  <2> HIDE DEF size, filled
  <2> QED
    BY <1>4, <2>1, <2>2
<1>6. ReadNames(padded) = domains
  <2> HIDE DEF k
  <2>1. ReadNames(encode_dnssl_names(domains) \o [i \in 1..k |-> 0]) = domains
    BY <1>3, NamesReadBack
  <2> QED
    BY <2>1 DEF names
<1> HIDE DEF padded, size, zeros, k, n
<1>7. OPT_DNSSL \in Octet
  BY DEF OPT_DNSSL, Octet
<1>8. IsOption(option, OPT_DNSSL, padded) /\ option[2] = size
  BY <1>2, <1>4, <1>5, <1>7, OptionLayout
<1>9. /\ option \in Seq(Octet) /\ Len(option) = 8 + Len(padded) /\ option[1] = OPT_DNSSL
      /\ \A i \in 1..Len(padded) : option[8 + i] = padded[i]
  BY <1>8 DEF IsOption
<1>10. Len(padded) \in Nat
  BY <1>4, LenProperties
<1>11. Len(option) >= 8 /\ Len(option) = 8 * option[2]
  BY <1>5, <1>8, <1>9, <1>10
<1>12. SubSeq(option, 9, Len(option)) = padded
  <2>1. 8 + Len(padded) <= Len(option) /\ 8 \in Nat
    BY <1>9, <1>10
  <2>2. SubSeq(option, 8 + 1, 8 + Len(padded)) = padded
    BY <1>4, <1>9, <2>1, CutOut
  <2> QED
    BY <1>9, <2>2
<1>13. DnsslReadBack(option, domains)
  BY <1>6, <1>9, <1>11, <1>12 DEF DnsslReadBack, ReadDnssl
<1> QED
  BY <1>13 DEF option

\* A host finds in the octets the servers and the domains, in order, and nothing else.
OptionsReadAs(octets, servers, domains) ==
  LET options == ReadOptions(octets) IN
  /\ options # <<>> /\ options[1] \in Seq(Octet)
  /\ ReadRdnss(options[1]) = [type |-> OPT_RDNSS, servers |-> servers]
  /\ IF domains = <<>> THEN Len(options) = 1
     ELSE /\ Len(options) = 2 /\ options[2] \in Seq(Octet)
          /\ ReadDnssl(options[2]) = [type |-> OPT_DNSSL, domains |-> domains]

\* A configuration the two length octets have room for.
Fits(cfg) ==
  /\ cfg \in RaConfigs /\ cfg.search_domains \in Seq(Encodable)
  /\ Len(cfg.dns_servers) <= 127
  /\ Len(encode_dnssl_names(cfg.search_domains)) <= LongestNames

\* Whatever the servers and the domains, as long as they fit, a host that reads the
\* options one by one, each as long as its second octet says, finds exactly them.
THEOREM OptionsDecode ==
  ASSUME NEW cfg, Fits(cfg)
  PROVE  /\ OptionsReadAs(DnsOptions(cfg), cfg.dns_servers, cfg.search_domains)
         /\ Len(DnsOptions(cfg)) <= LongestOptions
<1> DEFINE servers == cfg.dns_servers
           domains == cfg.search_domains
           lifetime == cfg.lifetime_secs
           a == build_rdnss_option(servers, lifetime)
           dnssl == build_dnssl_option(domains, lifetime)
           b == IF domains = <<>> THEN <<>> ELSE dnssl
           octets == DnsOptions(cfg)
           options == ReadOptions(octets)
<1>1. /\ servers \in Seq(Addresses) /\ Len(servers) <= 127 /\ lifetime \in Nat
      /\ domains \in Seq(Encodable) /\ Len(encode_dnssl_names(domains)) <= LongestNames
  BY DEF Fits, RaConfigs
<1>2. octets = a \o b
  BY DEF DnsOptions
<1> HIDE DEF servers, domains, lifetime, octets
<1>3. RdnssReadBack(a, servers)
  BY <1>1, ServersReadBack
<1>4. DnsslReadBack(dnssl, domains)
  BY <1>1, DomainsReadBack
<1> HIDE DEF a, dnssl
<1>5. /\ a \in Seq(Octet) /\ Len(a) >= 8 /\ Len(a) = 8 * a[2]
      /\ ReadRdnss(a) = [type |-> OPT_RDNSS, servers |-> servers]
  BY <1>3 DEF RdnssReadBack
<1>6. /\ dnssl \in Seq(Octet) /\ Len(dnssl) >= 8 /\ Len(dnssl) = 8 * dnssl[2]
      /\ ReadDnssl(dnssl) = [type |-> OPT_DNSSL, domains |-> domains]
  BY <1>4 DEF DnsslReadBack
<1>7. dnssl # <<>>
  <2>1. Len(<<>>) = 0
    OBVIOUS
  <2> QED
    BY <1>6, <2>1
<1>8. /\ b \in Seq(Octet) /\ (b = <<>> <=> domains = <<>>)
      /\ (b = <<>> \/ (Len(b) >= 8 /\ Len(b) = 8 * b[2]))
      /\ (domains # <<>> => b = dnssl)
  <2>1. CASE domains = <<>>
    BY <2>1
  <2>2. CASE domains # <<>>
    BY <1>6, <1>7, <2>2
  <2> QED
    BY <2>1, <2>2
<1> HIDE DEF b
<1>9. options = IF b = <<>> THEN <<a>> ELSE <<a, b>>
  BY <1>2, <1>5, <1>8, OptionsReadBack
<1> HIDE DEF options
<1>10. OptionsReadAs(octets, servers, domains)
  <2>1. CASE domains = <<>>
    <3>1. options = <<a>> /\ Len(options) = 1 /\ options[1] = a /\ options # <<>>
      BY <1>8, <1>9, <2>1
    <3> QED
      BY <1>5, <2>1, <3>1 DEF OptionsReadAs, options
  <2>2. CASE domains # <<>>
    <3>1. options = <<a, dnssl>>
      BY <1>8, <1>9, <2>2
    <3>2. Len(options) = 2 /\ options[1] = a /\ options[2] = dnssl /\ options # <<>>
      BY <3>1
    <3> QED
      BY <1>5, <1>6, <2>2, <3>2 DEF OptionsReadAs, options
  <2> QED
    BY <2>1, <2>2
<1>11. Len(octets) <= LongestOptions
  <2>1. ASSUME NEW s \in Seq(Octet), Len(s) >= 8, Len(s) = 8 * s[2]
        PROVE  Len(s) \in Nat /\ Len(s) <= 2040
    <3>1. Len(s) \in Nat /\ 2 \in 1..Len(s)
      BY <2>1, LenProperties
    <3>2. s[2] \in Octet
      BY <3>1, ElementOfSeq
    <3>3. \A z \in Octet : 8 * z <= 2040
      BY DEF Octet
    <3> QED
      BY <2>1, <3>1, <3>2, <3>3
  <2>2. Len(a) \in Nat /\ Len(a) <= 2040
    BY <1>5, <2>1
  <2>3. Len(b) \in Nat /\ Len(b) <= 2040
    <3>1. CASE b = <<>>
      BY <3>1
    <3>2. CASE b # <<>>
      BY <1>8, <2>1, <3>2
    <3> QED
      BY <3>1, <3>2
  <2>4. Len(octets) = Len(a) + Len(b)
    BY <1>2, <1>5, <1>8, PartsOf
  <2> QED
    BY <2>2, <2>3, <2>4 DEF LongestOptions
<1> QED
  BY <1>10, <1>11 DEF octets, servers, domains
-----------------------------------------------------------------------------
(* The packets of every reachable state of MCPackets. *)

\* The inputs of a behaviour stay what the code is given.
InputsInv ==
  /\ payload \in Seq(Octet) /\ Len(payload) <= MaxPayload
  /\ dns_servers \in Seq(Addresses)
  /\ search_domains \in Seq(Seq(Seq(Octet)))

\* What the values of the constants are.
OctetsAreOctets == Octets \subseteq Octet
BoundsAreNumbers == MaxPayload \in Nat /\ ManyServers \in Nat \ {0}

LEMMA AddressTyped ==
  ASSUME NEW first \in Octet, NEW last \in Octet
  PROVE  Address(first, last) \in Addresses
<1> DEFINE zeros == [i \in 1..14 |-> 0]
           front == <<first>> \o zeros
           a == front \o <<last>>
<1>1. 0 \in Octet
  BY DEF Octet
<1>2. zeros \in Seq(Octet) /\ Len(zeros) = 14
  <2>1. zeros \in [1..14 -> Octet]
    BY <1>1
  <2> HIDE DEF zeros
  <2> QED
    BY <2>1, FunctionIsSeq
<1> HIDE DEF zeros
<1>3. front \in Seq(Octet) /\ Len(front) = 15
  <2>1. <<first>> \in Seq(Octet) /\ Len(<<first>>) = 1
    OBVIOUS
  <2>2. front \in Seq(Octet) /\ Len(front) = Len(<<first>>) + Len(zeros)
    BY <1>2, <2>1, PartsOf
  <2> HIDE DEF front
  <2> QED
    BY <1>2, <2>1, <2>2
<1> HIDE DEF front
<1>4. a \in Seq(Octet) /\ Len(a) = 16
  <2>1. <<last>> \in Seq(Octet) /\ Len(<<last>>) = 1
    OBVIOUS
  <2>2. a \in Seq(Octet) /\ Len(a) = Len(front) + Len(<<last>>)
    BY <1>3, <2>1, PartsOf
  <2> HIDE DEF a
  <2> QED
    BY <1>3, <2>1, <2>2
<1>5. Address(first, last) = a
  BY DEF Address, a, front, zeros
<1> HIDE DEF a
<1> QED
  BY <1>4, <1>5 DEF Addresses

LEMMA HostsTyped ==
  Client \in Addresses /\ Server \in Addresses /\ Ones \in Addresses
<1>1. 1 \in Octet /\ 253 \in Octet /\ 254 \in Octet /\ 255 \in Octet
  BY DEF Octet
<1>2. Ones \in Addresses
  <2>1. Ones \in [1..16 -> Octet] /\ 16 \in Nat
    BY <1>1 DEF Ones
  <2> QED
    BY <2>1, FunctionIsSeq, ZenonT(60) DEF Addresses
<1> QED
  BY <1>1, <1>2, AddressTyped DEF Client, Server

LEMMA AllNodesTyped ==
  ALL_NODES_MULTICAST \in Addresses
<1> DEFINE front == <<255, 2>>
           zeros == [i \in 1..13 |-> 0]
           last == <<1>>
           prefix == front \o zeros
           a == prefix \o last
<1>1. front \in Seq(Octet) /\ Len(front) = 2 /\ last \in Seq(Octet) /\ Len(last) = 1 /\ 0 \in Octet
  BY DEF Octet
<1>2. zeros \in Seq(Octet) /\ Len(zeros) = 13
  <2>1. zeros \in [1..13 -> Octet]
    BY <1>1
  <2> HIDE DEF zeros
  <2> QED
    BY <2>1, FunctionIsSeq
<1> HIDE DEF front, zeros, last
<1>3. prefix \in Seq(Octet) /\ Len(prefix) = 15
  <2>1. prefix \in Seq(Octet) /\ Len(prefix) = Len(front) + Len(zeros)
    BY <1>1, <1>2, PartsOf
  <2> HIDE DEF prefix
  <2> QED
    BY <1>1, <1>2, <2>1
<1> HIDE DEF prefix
<1>4. a \in Seq(Octet) /\ Len(a) = 16
  <2>1. a \in Seq(Octet) /\ Len(a) = Len(prefix) + Len(last)
    BY <1>1, <1>3, PartsOf
  <2> HIDE DEF a
  <2> QED
    BY <1>1, <1>3, <2>1
<1>5. ALL_NODES_MULTICAST = a
  BY DEF ALL_NODES_MULTICAST, a, prefix, front, zeros, last
<1> HIDE DEF a
<1> QED
  BY <1>4, <1>5 DEF Addresses

LEMMA DomainsTyped ==
  Domains \subseteq Seq(Seq(Octet))
<1>1. 1 \in Octet /\ 3 \in Octet /\ 7 \in Octet /\ 9 \in Octet
  BY DEF Octet
<1>2. /\ <<1>> \in Seq(Octet) /\ <<7, 7, 7>> \in Seq(Octet) /\ <<9, 9>> \in Seq(Octet)
      /\ <<3, 3, 3, 3, 3>> \in Seq(Octet)
  BY <1>1
<1>3. ASSUME NEW a \in Seq(Octet), NEW b \in Seq(Octet)
      PROVE  <<a>> \in Seq(Seq(Octet)) /\ <<a, b>> \in Seq(Seq(Octet))
  OBVIOUS
<1> QED
  BY <1>2, <1>3, Zenon DEF Domains

LEMMA InputsInit ==
  ASSUME BoundsAreNumbers, Init
  PROVE  InputsInv
<1>1. payload \in Seq(Octet) /\ Len(payload) <= MaxPayload
  BY DEF Init, BoundsAreNumbers
<1>2. search_domains \in Seq(Seq(Seq(Octet)))
  BY DEF Init
<1>3. dns_servers \in Seq(Addresses)
  <2>1. Server \in Addresses
    BY HostsTyped
  <2> HIDE DEF Server
  <2>2. <<Server>> \in Seq(Addresses)
    BY <2>1
  <2>3. [i \in 1..(ManyServers - 1) |-> Server] \in Seq(Addresses)
    <3>1. ManyServers - 1 \in Nat
      BY DEF BoundsAreNumbers
    <3>2. [i \in 1..(ManyServers - 1) |-> Server] \in [1..(ManyServers - 1) -> Addresses]
      BY <2>1
    <3> QED
      BY <3>1, <3>2, FunctionIsSeq
  <2> QED
    BY <2>2, <2>3 DEF Init
<1> QED
  BY <1>1, <1>2, <1>3 DEF InputsInv

LEMMA InputsNext ==
  ASSUME OctetsAreOctets, BoundsAreNumbers, InputsInv, [Next]_vars
  PROVE  InputsInv'
<1>1. CASE AddOctet
  <2>1. Len(payload) < MaxPayload /\ UNCHANGED <<dns_servers, search_domains>>
    BY <1>1 DEF AddOctet
  <2>2. PICK o \in Octets : payload' = Append(payload, o)
    BY <1>1 DEF AddOctet
  <2>3. o \in Octet /\ payload \in Seq(Octet)
    BY DEF OctetsAreOctets, InputsInv
  <2>4. payload' \in Seq(Octet) /\ Len(payload') = Len(payload) + 1
    BY <2>2, <2>3, AppendProperties
  <2>5. Len(payload') <= MaxPayload
    <3>1. Len(payload) \in Nat
      BY <2>3, LenProperties
    <3> QED
      BY <2>1, <2>4, <3>1 DEF BoundsAreNumbers
  <2> QED
    BY <2>1, <2>4, <2>5 DEF InputsInv
<1>2. CASE AddServer
  <2>1. UNCHANGED <<payload, search_domains>>
    BY <1>2 DEF AddServer
  <2>2. PICK a \in {Client, Ones} : dns_servers' = Append(dns_servers, a)
    BY <1>2 DEF AddServer
  <2>3. a \in Addresses /\ dns_servers \in Seq(Addresses)
    BY HostsTyped DEF InputsInv
  <2>4. dns_servers' \in Seq(Addresses)
    BY <2>2, <2>3, AppendProperties
  <2> QED
    BY <2>1, <2>4 DEF InputsInv
<1>3. CASE AddDomain
  <2>1. UNCHANGED <<payload, dns_servers>>
    BY <1>3 DEF AddDomain
  <2>2. PICK d \in Domains : search_domains' = Append(search_domains, d)
    BY <1>3 DEF AddDomain
  <2>3. d \in Seq(Seq(Octet)) /\ search_domains \in Seq(Seq(Seq(Octet)))
    BY DomainsTyped DEF InputsInv
  <2>4. search_domains' \in Seq(Seq(Seq(Octet)))
    BY <2>2, <2>3, AppendProperties
  <2> QED
    BY <2>1, <2>4 DEF InputsInv
<1>4. CASE AddCharacter
  BY <1>4 DEF AddCharacter, InputsInv
<1>5. CASE AddRoutingDomain
  BY <1>5 DEF AddRoutingDomain, InputsInv
<1>6. CASE UNCHANGED vars
  BY <1>6 DEF vars, InputsInv
<1> QED
  BY <1>1, <1>2, <1>3, <1>4, <1>5, <1>6 DEF Next

LEMMA InputsInvariance ==
  ASSUME OctetsAreOctets, BoundsAreNumbers
  PROVE  Spec => []InputsInv
<1>1. Init => InputsInv
  BY InputsInit
<1>2. InputsInv /\ [Next]_vars => InputsInv'
  BY InputsNext
<1> QED
  BY <1>1, <1>2, PTL DEF Spec

LEMMA PortsTyped ==
  53 \in Word /\ 4660 \in Word /\ 64 \in Octet /\ Ports \subseteq Word
<1>1. ASSUME NEW n \in Nat, n < 65536
      PROVE  0..n \subseteq Word
  <2> SUFFICES ASSUME NEW i \in 0..n PROVE i \in Word
    OBVIOUS
  <2>1. i \in Nat /\ i < 65536
    BY <1>1
  <2> QED
    BY <2>1 DEF Word
<1>2. AllOnes \in Nat /\ AllOnes < 65536
  BY DEF AllOnes
<1>3. 0..AllOnes \subseteq Word
  BY <1>1, <1>2
<1>4. Ports = 0..AllOnes
  BY DEF Ports, AllOnes
<1>5. Ports \subseteq Word
  BY <1>3, <1>4
<1>6. 53 \in Word /\ 4660 \in Word /\ 64 \in Octet
  BY DEF Word, Octet
<1> QED
  BY <1>5, <1>6

LEMMA DatagramTyped ==
  ASSUME NEW src \in Addresses, NEW dst \in Addresses, NEW sport \in Word, NEW dport \in Word,
         NEW body \in Seq(Octet), NEW hop_limit \in Octet
  PROVE  LET pkt == build_udp_packet(src, dst, sport, dport, body, hop_limit)
         IN  pkt \in Seq(Octet) /\ Len(pkt) = 48 + Len(body)
<1> DEFINE len == U16(8 + Len(body))
           pkt == build_udp_packet(src, dst, sport, dport, body, hop_limit)
           udp(n) == UdpMessage(sport, dport, len, n, body)
<1>1. len \in Word
  BY BuiltDatagram, ZenonT(60)
<1>2. PICK sum \in Word \ {0} :
        /\ pkt = build_ipv6_header(src, dst, UDP_NEXT_HEADER, hop_limit, len) \o udp(sum)
        /\ udp(sum) \in Seq(Octet)
  BY BuiltDatagram, ZenonT(60)
<1> HIDE DEF len, pkt
<1>3. UDP_NEXT_HEADER \in Octet
  BY DEF UDP_NEXT_HEADER, Octet
<1>4. Len(udp(sum)) = 8 + Len(body) /\ Len(body) \in Nat
  BY <1>1, <1>2, UdpFields, LenProperties
<1> DEFINE message == udp(sum)
<1> HIDE DEF udp
<1>5. IsPacket(pkt, src, dst, UDP_NEXT_HEADER, hop_limit, len, message)
  BY <1>1, <1>2, <1>3, HeaderFields
<1> QED
  BY <1>4, <1>5 DEF IsPacket, pkt

\* DatagramRoundTrip, as long as the payload fits a datagram.
THEOREM DatagramsRoundTrip ==
  ASSUME OctetsAreOctets, BoundsAreNumbers, MaxPayload <= LongestPayload
  PROVE  Spec => []DatagramRoundTrip
<1>1. ASSUME InputsInv
      PROVE  DatagramRoundTrip
  <2>1. payload \in Seq(Octet) /\ Len(payload) <= LongestPayload
    <3>1. payload \in Seq(Octet) /\ Len(payload) <= MaxPayload
      BY <1>1 DEF InputsInv
    <3>2. Len(payload) \in Nat
      BY <3>1, LenProperties
    <3> QED
      BY <3>1, <3>2 DEF BoundsAreNumbers, LongestPayload
  <2>2. <<>> \in Seq(Octet) /\ <<0, 0, 0>> \in Seq(Octet)
    BY DEF Octet
  <2> DEFINE ReadBack(padding) ==
               parse_ipv6_udp(Datagram(Server, Client) \o padding) =
                 [src_ip |-> Server, dst_ip |-> Client, src_port |-> 53, dst_port |-> 4660,
                  payload |-> payload]
  <2>3. ASSUME NEW padding \in Seq(Octet)
        PROVE  ReadBack(padding)
    BY <2>1, HostsTyped, PortsTyped, RoundTrip DEF Datagram, DatagramFrom
  <2> HIDE DEF ReadBack
  <2>4. \A padding \in {<<>>, <<0, 0, 0>>} : ReadBack(padding)
    BY <2>2, <2>3, Zenon
  <2> SUFFICES ASSUME NEW padding \in {<<>>, <<0, 0, 0>>}
               PROVE  ReadBack(padding)
    BY ZenonT(60) DEF DatagramRoundTrip, ReadBack
  <2> QED
    BY <2>4
<1>2. InputsInv => DatagramRoundTrip
  BY <1>1
<1> QED
  BY <1>2, InputsInvariance, PTL

\* ParseStaysInBounds, if what stands for a panic is not itself a string of octets.
THEOREM ParsesStayInBounds ==
  ASSUME OctetsAreOctets, BoundsAreNumbers, Panic \notin Seq(Octet)
  PROVE  Spec => []ParseStaysInBounds
<1>1. ASSUME InputsInv
      PROVE  ParseStaysInBounds
  <2> DEFINE sent == Datagram(Server, Client)
             pkt(cut, len) == [i \in 1..cut |-> IF i = 6 THEN len ELSE sent[i]]
  <2>1. sent \in Seq(Octet) /\ Len(sent) = 48 + Len(payload)
    BY <1>1, HostsTyped, PortsTyped, DatagramTyped DEF Datagram, DatagramFrom, InputsInv
  <2> HIDE DEF sent
  <2>2. Len(payload) \in Nat
    BY <1>1, LenProperties DEF InputsInv
  <2>3. ASSUME NEW cut \in {0, 7, 39, 40, 47} \cup 48..(48 + Len(payload)),
               NEW len \in {0, 7, 8, 9, 12, 255},
               parse_ipv6_udp(pkt(cut, len)) # NoPacket
        PROVE  parse_ipv6_udp(pkt(cut, len)).payload # Panic
    <3>1. cut \in Nat /\ cut <= Len(sent)
      BY <2>1, <2>2
    <3>2. len \in Octet
      BY DEF Octet
    <3>3. \A i \in 1..cut : sent[i] \in Octet
      <4>1. \A i \in 1..Len(sent) : sent[i] \in Octet
        BY <2>1, ElementOfSeq
      <4> QED
        BY <2>1, <2>2, <3>1, <4>1
    <3>4. pkt(cut, len) \in [1..cut -> Octet]
      BY <3>2, <3>3
    <3> HIDE DEF pkt
    <3>5. pkt(cut, len) \in Seq(Octet)
      BY <3>1, <3>4, FunctionIsSeq
    <3>6. parse_ipv6_udp(pkt(cut, len)).payload \in Seq(Octet)
      BY <2>3, <3>5, ParserStaysInside
    <3> QED
      BY <3>6
  <2> QED
    BY <2>3 DEF ParseStaysInBounds, sent
<1>2. InputsInv => ParseStaysInBounds
  BY <1>1
<1> QED
  BY <1>2, InputsInvariance, PTL

\* ChecksumsVerify, whatever the bounds: no carry and no parity is left out.
THEOREM PacketsVerify ==
  ASSUME OctetsAreOctets, BoundsAreNumbers
  PROVE  Spec => []ChecksumsVerify
<1>1. ASSUME InputsInv
      PROVE  ChecksumsVerify
  <2>1. ASSUME NEW src \in {Client, Server, Ones}, NEW dst \in {Client, Server, Ones},
               NEW sport \in {53} \cup EdgePorts(src, dst)
        PROVE  /\ Verifies(DatagramFrom(src, sport, dst))
               /\ Octet16(DatagramFrom(src, sport, dst), 47) # 0
    <3>1. src \in Addresses /\ dst \in Addresses
      BY HostsTyped
    <3>2. sport \in Word
      <4>1. CASE sport = 53
        BY <4>1, PortsTyped
      <4>2. CASE sport \in EdgePorts(src, dst)
        <5> DEFINE rest == checksum_accumulate(0, src \o dst \o payload) + UDP_NEXT_HEADER
                             + 4660 + 2 * (8 + Len(payload))
                   edges == {k * 65535 + e - rest : k \in 1..8, e \in {0, 1}}
        <5>1. EdgePorts(src, dst) = {p \in edges : p \in Ports}
          BY DEF EdgePorts
        <5> HIDE DEF edges
        <5> QED
          BY <4>2, <5>1, PortsTyped
      <4> QED
        BY <2>1, <4>1, <4>2
    <3>3. payload \in Seq(Octet)
      BY <1>1 DEF InputsInv
    <3> QED
      BY <3>1, <3>2, <3>3, PortsTyped, DatagramsVerify DEF DatagramFrom
  <2>2. Verifies(Advertisement)
    <3>1. Config(600) \in RaConfigs
      <4>1. Client \in Addresses
        BY HostsTyped
      <4> HIDE DEF Client
      <4> QED
        BY <1>1, <4>1 DEF Config, RaConfigs, InputsInv
    <3>2. ALL_NODES_MULTICAST \in Addresses
      BY AllNodesTyped
    <3> QED
      BY <3>1, <3>2, AdvertisementsVerify DEF Advertisement
  <2> QED
    BY <2>1, <2>2 DEF ChecksumsVerify
<1>2. InputsInv => ChecksumsVerify
  BY <1>1
<1> QED
  BY <1>2, InputsInvariance, PTL

\* The servers of a behaviour fit the option, and its domains are the short ones.
FittingInv ==
  /\ Len(dns_servers) <= 127
  /\ search_domains \in Seq(Domains) /\ Len(search_domains) <= 3

LEMMA FittingInit ==
  ASSUME BoundsAreNumbers, ManyServers <= 127, Init
  PROVE  FittingInv
<1>1. Len(dns_servers) <= 127
  <2> HIDE DEF Server
  <2>1. CASE dns_servers = <<Server>>
    BY <2>1
  <2>2. CASE dns_servers = [i \in 1..(ManyServers - 1) |-> Server]
    <3> DEFINE n == ManyServers - 1
               f == [i \in 1..n |-> Server]
    <3>1. n \in Nat /\ n <= 127
      BY DEF BoundsAreNumbers
    <3>2. f \in [1..n -> {Server}]
      OBVIOUS
    <3> HIDE DEF n, f
    <3>3. Len(f) = n
      BY <3>1, <3>2, FunctionIsSeq
    <3> QED
      BY <2>2, <3>1, <3>3 DEF f, n
  <2> QED
    BY <2>1, <2>2 DEF Init
<1>2. search_domains = <<>>
  BY DEF Init
<1> HIDE DEF Domains
<1>3. search_domains \in Seq(Domains) /\ Len(search_domains) <= 3
  BY <1>2
<1> QED
  BY <1>1, <1>3 DEF FittingInv

LEMMA FittingNext ==
  ASSUME BoundsAreNumbers, ManyServers <= 127, InputsInv, FittingInv, [Next]_vars
  PROVE  FittingInv'
<1> HIDE DEF Domains
<1>1. CASE AddOctet
  BY <1>1 DEF AddOctet, FittingInv
<1>2. CASE AddServer
  <2>1. UNCHANGED search_domains /\ Len(dns_servers) \in {1, 2, ManyServers - 1}
    BY <1>2 DEF AddServer
  <2>2. PICK a \in {Client, Ones} : dns_servers' = Append(dns_servers, a)
    BY <1>2 DEF AddServer
  <2>3. dns_servers \in Seq(Addresses) /\ a \in Addresses
    BY HostsTyped DEF InputsInv
  <2>4. Len(dns_servers') = Len(dns_servers) + 1
    BY <2>2, <2>3, AppendProperties
  <2> DEFINE n == Len(dns_servers)
             m == Len(dns_servers')
  <2>5. (n = 1 \/ n = 2 \/ n = ManyServers - 1) /\ m = n + 1
    BY <2>1, <2>4
  <2> HIDE DEF n, m
  <2>6. m <= 127
    <3>1. ManyServers \in Nat
      BY DEF BoundsAreNumbers
    <3> QED
      BY <2>5, <3>1
  <2> QED
    BY <2>1, <2>6 DEF FittingInv, m
<1>3. CASE AddDomain
  <2>1. UNCHANGED dns_servers /\ Len(search_domains) < 3
    BY <1>3 DEF AddDomain
  <2>2. PICK d \in Domains : search_domains' = Append(search_domains, d)
    BY <1>3 DEF AddDomain
  <2>3. search_domains \in Seq(Domains)
    BY DEF FittingInv
  <2>4. search_domains' \in Seq(Domains) /\ Len(search_domains') = Len(search_domains) + 1
    BY <2>2, <2>3, AppendProperties
  <2>5. Len(search_domains) \in Nat
    BY <2>3, LenProperties
  <2> QED
    BY <2>1, <2>4, <2>5 DEF FittingInv
<1>4. CASE AddCharacter
  BY <1>4 DEF AddCharacter, FittingInv
<1>5. CASE AddRoutingDomain
  BY <1>5 DEF AddRoutingDomain, FittingInv
<1>6. CASE UNCHANGED vars
  BY <1>6 DEF vars, FittingInv
<1> QED
  BY <1>1, <1>2, <1>3, <1>4, <1>5, <1>6 DEF Next

LEMMA FittingInvariance ==
  ASSUME OctetsAreOctets, BoundsAreNumbers, ManyServers <= 127
  PROVE  Spec => [](InputsInv /\ FittingInv)
<1>1. Init => InputsInv /\ FittingInv
  BY InputsInit, FittingInit
<1>2. InputsInv /\ FittingInv /\ [Next]_vars => (InputsInv /\ FittingInv)'
  BY InputsNext, FittingNext
<1> QED
  BY <1>1, <1>2, PTL DEF Spec

\* The domains are short: none takes more than thirteen octets, with its zero.
LEMMA ShortNames ==
  ASSUME NEW d \in Domains
  PROVE  d \in Encodable /\ NameOf(d) \in Seq(Octet) /\ Len(NameOf(d)) <= 13
<1> DEFINE Short == {l \in Seq(Octet) : Len(l) \in 1..5}
<1>1. /\ <<1>> \in Short /\ <<7, 7, 7>> \in Short /\ <<9, 9>> \in Short
      /\ <<3, 3, 3, 3, 3>> \in Short
  <2>1. 1 \in Octet /\ 3 \in Octet /\ 7 \in Octet /\ 9 \in Octet
    BY DEF Octet
  <2>2. <<1>> \in Seq(Octet) /\ Len(<<1>>) = 1
    BY <2>1
  <2>3. <<7, 7, 7>> \in Seq(Octet) /\ Len(<<7, 7, 7>>) = 3
    BY <2>1
  <2>4. <<9, 9>> \in Seq(Octet) /\ Len(<<9, 9>>) = 2
    BY <2>1
  <2>5. <<3, 3, 3, 3, 3>> \in Seq(Octet) /\ Len(<<3, 3, 3, 3, 3>>) = 5
    BY <2>1
  <2> QED
    BY <2>2, <2>3, <2>4, <2>5
<1> HIDE DEF Short
<1>2. d \in Seq(Short) /\ Len(d) \in 1..2
  <2>1. ASSUME NEW a \in Short, NEW b \in Short
        PROVE  /\ <<a>> \in Seq(Short) /\ Len(<<a>>) \in 1..2
               /\ <<a, b>> \in Seq(Short) /\ Len(<<a, b>>) \in 1..2
    OBVIOUS
  <2> QED
    BY <1>1, <2>1, Zenon DEF Domains
<1> DEFINE n == Len(d)
           strings == [l \in DOMAIN d |-> encode_label(d[l])]
<1>3. DOMAIN d = 1..n /\ n \in 1..2 /\ \A l \in 1..n : d[l] \in Short
  BY <1>2, LenProperties, ElementOfSeq
<1>4. \A l \in 1..n : d[l] \in Seq(Octet) /\ Len(d[l]) \in 1..5
  BY <1>3 DEF Short
<1>5. d \in Encodable
  <2>1. d \in Seq(Seq(Octet))
    BY <1>2 DEF Short
  <2>2. d # <<>>
    <3>1. Len(d) # 0
      <4>1. \A z \in 1..2 : z # 0
        OBVIOUS
      <4> QED
        BY <1>2, <4>1, Zenon
    <3>2. Len(<<>>) = 0
      OBVIOUS
    <3> QED
      BY <3>1, <3>2, Zenon
  <2>3. \A l \in DOMAIN d : Len(d[l]) \in 1..63
    <3>1. \A z \in 1..5 : z \in 1..63
      OBVIOUS
    <3> QED
      BY <1>3, <1>4, <3>1
  <2> QED
    BY <2>1, <2>2, <2>3 DEF Encodable
<1>6. NameOf(d) \in Seq(Octet)
  BY <1>5, NameTyped
<1>7. ASSUME NEW l \in 1..n
      PROVE  strings[l] \in Seq(Octet) /\ Len(strings[l]) <= 6
  <2> DEFINE label == d[l]
  <2>1. label \in Seq(Octet) /\ Len(label) \in 1..5 /\ strings[l] = encode_label(label)
    BY <1>3, <1>4
  <2> HIDE DEF label, strings
  <2>2. Len(label) \in 1..63 /\ 1 + Len(label) <= 6
    <3>1. \A z \in 1..5 : z \in 1..63 /\ 1 + z <= 6
      OBVIOUS
    <3> QED
      BY <2>1, <3>1
  <2>3. encode_label(label) \in Seq(Octet) /\ Len(encode_label(label)) = 1 + Len(label)
    BY <2>1, <2>2, LabelString
  <2> QED
    BY <2>1, <2>2, <2>3
<1>8. strings \in Seq(Seq(Octet)) /\ Len(strings) = n
  <2>1. strings \in [1..n -> Seq(Octet)] /\ n \in Nat
    BY <1>3, <1>7
  <2> HIDE DEF strings, n
  <2> QED
    BY <2>1, FunctionIsSeq
<1> DEFINE flat == FlattenSeq(strings)
<1>9. flat \in Seq(Octet) /\ Len(flat) <= n * 6
  <2> HIDE DEF strings, n
  <2> QED
    BY <1>7, <1>8, FlattenTyped, FlattenBound
<1>10. NameOf(d) = flat \o <<0>>
  BY DEF NameOf
<1> HIDE DEF flat
<1>11. Len(NameOf(d)) = Len(flat) + 1 /\ Len(flat) \in Nat
  <2>1. <<0>> \in Seq(Octet) /\ Len(<<0>>) = 1
    BY DEF Octet
  <2> QED
    BY <1>9, <1>10, <2>1, PartsOf, LenProperties
<1> HIDE DEF n
<1>12. Len(NameOf(d)) <= 13
  <2>1. n = 1 \/ n = 2
    BY <1>3
  <2> QED
    BY <1>9, <1>11, <2>1
<1> QED
  BY <1>5, <1>6, <1>12

LEMMA ConfigFits ==
  ASSUME InputsInv, FittingInv
  PROVE  Fits(Config(600))
<1> DEFINE domains == search_domains
           n == Len(domains)
           names == [d \in DOMAIN domains |-> NameOf(domains[d])]
<1>1. Config(600) \in RaConfigs
  <2>1. Client \in Addresses
    BY HostsTyped
  <2> HIDE DEF Client
  <2> QED
    BY <2>1 DEF Config, RaConfigs, InputsInv
<1>2. /\ n \in Nat /\ n <= 3 /\ DOMAIN domains = 1..n /\ domains \in Seq(Domains)
      /\ \A d \in 1..n : domains[d] \in Domains
  BY LenProperties, ElementOfSeq DEF FittingInv
<1>3. domains \in Seq(Encodable)
  <2>1. Domains \subseteq Encodable
    BY ShortNames
  <2> HIDE DEF Domains
  <2> QED
    BY <1>2, <2>1
<1>4. \A d \in 1..n : names[d] \in Seq(Octet) /\ Len(names[d]) <= 13
  BY <1>2, ShortNames
<1>5. names \in Seq(Seq(Octet)) /\ Len(names) = n
  <2>1. names \in [1..n -> Seq(Octet)]
    BY <1>2, <1>4
  <2> HIDE DEF names
  <2> QED
    BY <1>2, <2>1, FunctionIsSeq
<1>6. encode_dnssl_names(domains) = FlattenSeq(names)
  BY DEF encode_dnssl_names, NameOf
<1> HIDE DEF names, n
<1>7. FlattenSeq(names) \in Seq(Octet) /\ Len(FlattenSeq(names)) <= n * 13
  BY <1>4, <1>5, FlattenTyped, FlattenBound
<1>8. Len(encode_dnssl_names(domains)) <= LongestNames
  <2> DEFINE m == Len(FlattenSeq(names))
  <2>1. m \in Nat /\ m <= n * 13
    BY <1>7, LenProperties
  <2> HIDE DEF m
  <2>2. m <= LongestNames
    BY <1>2, <2>1 DEF LongestNames
  <2> QED
    BY <1>6, <2>2 DEF m
<1>9. /\ Config(600).search_domains = search_domains
      /\ Config(600).dns_servers = dns_servers
  BY DEF Config
<1> QED
  BY <1>1, <1>3, <1>8, <1>9 DEF Fits, FittingInv

\* AdvertisementDecodes, if what stands for a panic is not itself a string of octets: no
\* more servers than the length octet counts, and any number below.
THEOREM AdvertisementsDecode ==
  ASSUME OctetsAreOctets, BoundsAreNumbers, ManyServers <= 127, Panic \notin Seq(Octet)
  PROVE  Spec => []AdvertisementDecodes
<1>1. ASSUME InputsInv, FittingInv
      PROVE  AdvertisementDecodes
  <2> DEFINE cfg == Config(600)
             octets == DnsOptions(cfg)
             options == ReadOptions(octets)
  <2>1. Fits(cfg)
    BY <1>1, ConfigFits
  <2>2. cfg.dns_servers = dns_servers /\ cfg.search_domains = search_domains
    BY DEF Config
  <2>3. ALL_NODES_MULTICAST \in Addresses
    BY AllNodesTyped
  <2>4. Advertisement = build_router_advertisement(cfg, ALL_NODES_MULTICAST)
    BY DEF Advertisement
  <2> HIDE DEF cfg
  <2>5. OptionsReadAs(octets, dns_servers, search_domains) /\ Len(octets) <= LongestOptions
    BY <2>1, <2>2, OptionsDecode
  <2>6. cfg \in RaConfigs
    BY <2>1 DEF Fits
  <2>7. /\ Octet16(Advertisement, 5) = Len(Advertisement) - 40
        /\ SubSeq(Advertisement, 57, Len(Advertisement)) = octets
        /\ ~is_router_solicitation(Advertisement)
    BY <2>3, <2>4, <2>5, <2>6, AdvertisementLayout
  <2>8. /\ options # <<>> /\ options[1] # Panic
        /\ ReadRdnss(options[1]) = [type |-> OPT_RDNSS, servers |-> dns_servers]
        /\ IF search_domains = <<>> THEN Len(options) = 1
           ELSE /\ Len(options) = 2 /\ options[2] # Panic
                /\ ReadDnssl(options[2]) = [type |-> OPT_DNSSL, domains |-> search_domains]
    BY <2>5 DEF OptionsReadAs
  <2> QED
    BY <2>7, <2>8 DEF AdvertisementDecodes, cfg
<1>2. InputsInv /\ FittingInv => AdvertisementDecodes
  BY <1>1
<1> QED
  BY <1>2, FittingInvariance, PTL
=============================================================================
