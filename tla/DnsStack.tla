------------------------------ MODULE DnsStack ------------------------------
(***************************************************************************)
(* The two tasks DnsStack::spawn starts (crates/dns-stack/src/lib.rs) and  *)
(* the two bounded tokio channels they share with the bridge: the beacon,  *)
(* which pushes unsolicited Router Advertisements onto `outgoing` at every *)
(* tick of an interval, and the dispatcher, which takes packets off        *)
(* `incoming` one by one, has the application's resolver decide on each    *)
(* DNS query, and pushes the replies onto `outgoing` too.                  *)
(*                                                                         *)
(* The packets are records of the header fields the code looks at; how     *)
(* they are laid out in octets is the subject of module Packet.            *)
(***************************************************************************)
EXTENDS Naturals, Sequences, FiniteSets, Functions

CONSTANTS
  Packets,     \* what the bridge reads off the link, each packet once
  Verdicts,    \* what the resolver may say of a query
  Addrs,       \* IPv6 addresses
  ServerAddr,  \* DnsConfig::server_addr
  AllNodes,    \* ALL_NODES_MULTICAST
  NoQuery,     \* the payload is not DNS, or asks no question
  NoPacket,    \* the dispatcher handles no packet
  InCapacity, OutCapacity,  \* of the channels
  MaxDue       \* bound: interval periods that may pass unserved

\* solicitation: an ICMPv6 message (next header 58) of type 133 and the hop limit
\* it came with; udp: a datagram with its ports and the first question in it.
Solicitation == [proto : {"icmp6"}, id : Nat, src : Addrs, hop : 0..255, type : 0..255]
Datagram == [proto : {"udp"}, id : Nat, src : Addrs, sport : 0..65535, dst : Addrs,
             dport : 0..65535, query : {"A", "AAAA", "Other", NoQuery}]
OtherPacket == [proto : {"other"}, id : Nat]

ASSUME ConstantsAssumption ==
  /\ Packets \subseteq Solicitation \cup Datagram \cup OtherPacket
  /\ NoPacket \notin Packets
  /\ ServerAddr \in Addrs /\ AllNodes \in Addrs
  /\ InCapacity \in Nat \ {0} /\ OutCapacity \in Nat \ {0}
  /\ MaxDue \in Nat \ {0}

VARIABLES
  incoming,   \* the channel from the bridge
  inOpen,     \* the bridge still holds its sender
  outgoing,   \* the channel to the bridge
  outOpen,    \* the bridge still holds its receiver
  senders,    \* tasks in outgoing.send(), first come first served
  beacon,     \* "tick" | "sending" | "stopped"
  due,        \* interval periods passed that no tick() has returned for
  dispatcher, \* "recv" | "resolving" | "sending" | "stopped"
  current,    \* the packet the dispatcher handles
  reply,      \* what it is sending, as a sequence of length at most one
  offered,    \* history: packets the bridge has pushed
  replied     \* history: replies of the dispatcher that went onto `outgoing`

inVars == <<incoming, inOpen, offered>>
beaconVars == <<beacon, due>>
dispatcherVars == <<dispatcher, current, reply>>
vars == <<inVars, outgoing, outOpen, senders, beaconVars, dispatcherVars, replied>>

-----------------------------------------------------------------------------
DNS_PORT == 53

is_router_solicitation(p) == p.proto = "icmp6" /\ p.hop = 255 /\ p.type = 133

\* What handle_packet() hands to the resolver.
IsQuery(p) ==
  p.proto = "udp" /\ p.dst = ServerAddr /\ p.dport = DNS_PORT /\ p.query # NoQuery

RouterAdvertisement(dst) == [kind |-> "ra", dst |-> dst]

\* Only records of the family asked for; none for any other type.
Answers(kind, addrs) == SelectSeq(addrs, LAMBDA a : a.family = kind)

\* The end of handle_packet(): the verdict on query p as a datagram back to its source.
DnsReply(p, verdict) ==
  [kind |-> "dns", src |-> p.dst, sport |-> DNS_PORT, dst |-> p.src, dport |-> p.sport,
   id |-> p.id,
   rcode |-> CASE verdict.kind = "NotMine" -> "REFUSED"
               [] verdict.kind = "NxDomain" -> "NXDOMAIN"
               [] verdict.kind = "Answer" -> "NOERROR",
   answers |-> IF verdict.kind = "Answer" THEN Answers(p.query, verdict.addrs) ELSE <<>>]

Asks(p) == is_router_solicitation(p) \/ IsQuery(p)

RepliesTo(p) ==
  IF is_router_solicitation(p) THEN {RouterAdvertisement(p.src)}
  ELSE {DnsReply(p, v) : v \in Verdicts}

AllReplies == UNION {RepliesTo(p) : p \in {q \in Packets : Asks(q)}}
Tasks == {"beacon", "dispatcher"}

TypeOK ==
  /\ incoming \in Seq(Packets) /\ Len(incoming) <= InCapacity
  /\ outgoing \in Seq(AllReplies \cup {RouterAdvertisement(AllNodes)})
  /\ Len(outgoing) <= OutCapacity
  /\ inOpen \in BOOLEAN /\ outOpen \in BOOLEAN
  /\ senders \in Seq(Tasks)
  /\ beacon \in {"tick", "sending", "stopped"}
  /\ due \in 0..MaxDue
  /\ dispatcher \in {"recv", "resolving", "sending", "stopped"}
  /\ current \in Packets \cup {NoPacket}
  /\ reply \in Seq(AllReplies)
  /\ offered \subseteq Packets
  /\ replied \in Seq(AllReplies)

-----------------------------------------------------------------------------
\* DnsStack::spawn.  The first tick of a tokio interval is due at once.
Init ==
  /\ incoming = <<>> /\ inOpen = TRUE /\ offered = {}
  /\ outgoing = <<>> /\ outOpen = TRUE /\ senders = <<>>
  /\ beacon = "tick" /\ due = 1
  /\ dispatcher = "recv" /\ current = NoPacket /\ reply = <<>>
  /\ replied = <<>>

(***************************************************************************)
(* mpsc::Sender::send: a task queues for a place in the channel and gets   *)
(* it in its turn, or an error once the receiver is gone, which ends the   *)
(* queue.                                                                  *)
(***************************************************************************)
BeginSend(task) == senders' = IF outOpen THEN Append(senders, task) ELSE senders

\* Slips of Deliver: the channel is unbounded; any waiting task gets the place.
DeliverUnbounded(task, message) ==
  /\ outOpen
  /\ senders # <<>> /\ Head(senders) = task
  /\ senders' = Tail(senders)
  /\ outgoing' = Append(outgoing, message)

DeliverAnyTurn(task, message) ==
  /\ outOpen /\ Len(outgoing) < OutCapacity
  /\ senders' = SelectSeq(senders, LAMBDA t : t # task)
  /\ outgoing' = Append(outgoing, message)

Deliver(task, message) ==
  /\ outOpen /\ Len(outgoing) < OutCapacity
  /\ senders # <<>> /\ Head(senders) = task
  /\ senders' = Tail(senders)
  /\ outgoing' = Append(outgoing, message)

(* ra_beacon_loop *)

\* A period ends.  Ticks nobody awaited are made up for in a burst.
Elapse ==
  /\ due < MaxDue
  /\ due' = due + 1
  /\ UNCHANGED <<inVars, outgoing, outOpen, senders, beacon, dispatcherVars, replied>>

BeaconTick ==
  /\ beacon = "tick" /\ due > 0
  /\ due' = due - 1
  /\ beacon' = "sending"
  /\ BeginSend("beacon")
  /\ UNCHANGED <<inVars, outgoing, outOpen, dispatcherVars, replied>>

\* Slip of BeaconSend: one advertisement and the task is done.
BeaconSendOnce ==
  /\ beacon = "sending"
  /\ Deliver("beacon", RouterAdvertisement(AllNodes))
  /\ beacon' = "stopped"
  /\ UNCHANGED <<inVars, outOpen, due, dispatcherVars, replied>>

BeaconSend ==
  /\ beacon = "sending"
  /\ Deliver("beacon", RouterAdvertisement(AllNodes))
  /\ beacon' = "tick"
  /\ UNCHANGED <<inVars, outOpen, due, dispatcherVars, replied>>

\* Slip of BeaconStop: a failed send is ignored.
BeaconGoesOn ==
  /\ beacon = "sending" /\ ~outOpen
  /\ beacon' = "tick"
  /\ UNCHANGED <<inVars, outgoing, outOpen, senders, due, dispatcherVars, replied>>

BeaconStop ==
  /\ beacon = "sending" /\ ~outOpen
  /\ beacon' = "stopped"
  /\ UNCHANGED <<inVars, outgoing, outOpen, senders, due, dispatcherVars, replied>>

(* dispatch_loop *)

\* recv() returned packet p: a solicitation is answered from here.
TakeSolicitation(p) ==
  /\ is_router_solicitation(p)
  /\ dispatcher' = "sending"
  /\ current' = p
  /\ reply' = <<RouterAdvertisement(p.src)>>
  /\ BeginSend("dispatcher")

\* A query goes to the resolver.
TakeQuery(p) ==
  /\ ~is_router_solicitation(p) /\ IsQuery(p)
  /\ dispatcher' = "resolving"
  /\ current' = p
  /\ UNCHANGED <<reply, senders>>

\* Anything else is dropped.
TakeOther(p) ==
  /\ ~is_router_solicitation(p) /\ ~IsQuery(p)
  /\ UNCHANGED <<dispatcherVars, senders>>

Receive ==
  /\ dispatcher = "recv" /\ incoming # <<>>
  /\ incoming' = Tail(incoming)
  /\ LET p == Head(incoming) IN TakeSolicitation(p) \/ TakeQuery(p) \/ TakeOther(p)
  /\ UNCHANGED <<inOpen, offered, outgoing, outOpen, beaconVars, replied>>

\* Slip of Resolve: a name that is not ours gets no reply at all.
ResolveOrDrop ==
  /\ dispatcher = "resolving"
  /\ \E v \in Verdicts :
       \/ /\ v.kind = "NotMine"
          /\ dispatcher' = "recv" /\ current' = NoPacket
          /\ UNCHANGED <<reply, senders>>
       \/ /\ v.kind # "NotMine"
          /\ reply' = <<DnsReply(current, v)>>
          /\ dispatcher' = "sending" /\ current' = current
          /\ BeginSend("dispatcher")
  /\ UNCHANGED <<inVars, outgoing, outOpen, beaconVars, replied>>

\* resolver.resolve(&query).await returns: it may take any time to.
Resolve ==
  /\ dispatcher = "resolving"
  /\ \E v \in Verdicts : reply' = <<DnsReply(current, v)>>
  /\ dispatcher' = "sending"
  /\ BeginSend("dispatcher")
  /\ UNCHANGED <<inVars, outgoing, outOpen, beaconVars, current, replied>>

DispatcherSend ==
  /\ dispatcher = "sending"
  /\ Deliver("dispatcher", Head(reply))
  /\ replied' = Append(replied, Head(reply))
  /\ dispatcher' = "recv"
  /\ current' = NoPacket
  /\ reply' = <<>>
  /\ UNCHANGED <<inVars, outOpen, beaconVars>>

\* Slip of DispatcherStop: the task ends as soon as the bridge hangs up.
DispatcherStopEarly ==
  /\ \/ dispatcher = "sending" /\ ~outOpen
     \/ dispatcher = "recv" /\ ~inOpen
  /\ dispatcher' = "stopped"
  /\ incoming' = <<>>
  /\ current' = NoPacket
  /\ reply' = <<>>
  /\ UNCHANGED <<inOpen, offered, outgoing, outOpen, senders, beaconVars, replied>>

\* Either way the task ends, its receiver goes, and with it what it had not read.
DispatcherStop ==
  /\ \/ dispatcher = "sending" /\ ~outOpen
     \/ dispatcher = "recv" /\ incoming = <<>> /\ ~inOpen
  /\ dispatcher' = "stopped"
  /\ incoming' = <<>>
  /\ current' = NoPacket
  /\ reply' = <<>>
  /\ UNCHANGED <<inOpen, offered, outgoing, outOpen, senders, beaconVars, replied>>

(***************************************************************************)
(* The bridge, which is the application's: a task that reads the link, one *)
(* that writes it (examples/basic.rs), and the end of either.              *)
(***************************************************************************)
Push(p) ==
  /\ inOpen /\ dispatcher # "stopped" /\ Len(incoming) < InCapacity
  /\ p \notin offered
  /\ offered' = offered \cup {p}
  /\ incoming' = Append(incoming, p)
  /\ UNCHANGED <<inOpen, outgoing, outOpen, senders, beaconVars, dispatcherVars, replied>>

Drain ==
  /\ outOpen /\ outgoing # <<>>
  /\ outgoing' = Tail(outgoing)
  /\ UNCHANGED <<inVars, outOpen, senders, beaconVars, dispatcherVars, replied>>

CloseIncoming ==
  /\ inOpen' = FALSE
  /\ UNCHANGED <<incoming, offered, outgoing, outOpen, senders, beaconVars, dispatcherVars,
                 replied>>

CloseOutgoing ==
  /\ outOpen' = FALSE
  /\ outgoing' = <<>> /\ senders' = <<>>
  /\ UNCHANGED <<inVars, beaconVars, dispatcherVars, replied>>

Beacon == BeaconTick \/ BeaconSend \/ BeaconStop
Dispatcher == Receive \/ DispatcherSend \/ DispatcherStop
Bridge == (\E p \in Packets : Push(p)) \/ Drain \/ CloseIncoming \/ CloseOutgoing

Next == Elapse \/ Beacon \/ Dispatcher \/ Resolve \/ Bridge

(***************************************************************************)
(* The runtime runs every task that is ready, time passes, and the         *)
(* application's writer keeps reading.  That its resolver returns is not   *)
(* to be relied on: there is no timeout, and properties that need it say   *)
(* so.                                                                     *)
(***************************************************************************)
Fairness ==
  WF_vars(Elapse) /\ WF_vars(Beacon) /\ WF_vars(Dispatcher) /\ WF_vars(Drain)

ResolverReturns == WF_vars(Resolve)

Spec == Init /\ [][Next]_vars
FairSpec == Spec /\ Fairness
-----------------------------------------------------------------------------
(***************************************************************************)
(* Properties.                                                             *)
(***************************************************************************)

\* What the bridge has pushed and the stack has not dealt with.
Pending == (IF current = NoPacket THEN <<>> ELSE <<current>>) \o incoming

Server == INSTANCE Responder WITH
  Replies <- RepliesTo, pending <- Pending, replies <- replied, open <- outOpen

\* Every solicitation and every query gets one reply, its own, in the order they
\* came in, however the beacon and the resolver's delays interleave with them.
ImplementsResponder == Server!Spec

\* The dispatcher does not stop early: when it has, and somebody is still there to
\* take replies, everything the bridge ever pushed has had its reply.
StopsOnlyWhenDone ==
  dispatcher = "stopped" /\ outOpen =>
    ~inOpen /\ Len(replied) = Cardinality({p \in offered : Asks(p)})

\* Nobody starves: every packet is dealt with, which for a question means answered
\* (ImplementsResponder), the beacon's bursts, a slow writer and the packets before
\* it notwithstanding, as long as replies are taken at all and the resolver returns.
EveryPacketHandled ==
  ResolverReturns => \A p \in Packets : p \in Range(Pending) ~> p \notin Range(Pending) \/ ~outOpen

\* As long as they are taken, advertisements keep being sent, under any load, also
\* when the resolver never returns and the dispatcher hangs with it.
BeaconKeepsBeating == <>~outOpen \/ []<><<BeaconSend>>_vars

\* Shutting down the bridge's side of a channel stops the task that works on it:
\* the beacon at its next tick, the dispatcher when it has read what is left, which
\* takes a resolver that returns.
ClosedChannelsStopTasks ==
  /\ ~outOpen ~> beacon = "stopped"
  /\ ResolverReturns => (~inOpen ~> dispatcher = "stopped")

\* DnsStack::spawn, "Both tasks stop cleanly once `outgoing` has no more live
\* receivers (send fails) or `incoming` closes (recv returns None)": the second half.
BothTasksStop ==
  ResolverReturns => (~inOpen ~> beacon = "stopped" /\ dispatcher = "stopped")
=============================================================================
