----------------------------- MODULE MCDnsStack -----------------------------
(***************************************************************************)
(* A small instance of DnsStack for TLC: a solicitation, two queries of    *)
(* different clients and families, and two packets that must not be        *)
(* answered (an off-link solicitation, a query to another address), over   *)
(* channels of one and two places.                                         *)
(***************************************************************************)
EXTENDS DnsStack

CONSTANTS Router, Ula, Host1, Host2

MCAddrs == {Router, Ula, Host1, Host2, AllNodes}

MCPackets ==
  {[proto |-> "icmp6", id |-> 1, src |-> Host1, hop |-> 255, type |-> 133],
   [proto |-> "icmp6", id |-> 2, src |-> Host2, hop |-> 64, type |-> 133],
   [proto |-> "udp", id |-> 3, src |-> Host1, sport |-> 4000, dst |-> Ula,
    dport |-> 53, query |-> "A"],
   [proto |-> "udp", id |-> 4, src |-> Host2, sport |-> 4001, dst |-> Ula,
    dport |-> 53, query |-> "AAAA"],
   [proto |-> "udp", id |-> 5, src |-> Host1, sport |-> 4002, dst |-> Router,
    dport |-> 53, query |-> "A"]}

MCVerdicts ==
  {[kind |-> "NotMine"],
   [kind |-> "Answer", addrs |-> <<[family |-> "A", host |-> 1], [family |-> "AAAA", host |-> 1]>>]}
=============================================================================
