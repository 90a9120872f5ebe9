--------------------------- MODULE DnsStackProofs ---------------------------
(***************************************************************************)
(* Theorems about DnsStack, for channels of any capacity, any packets and  *)
(* any verdicts of the resolver.                                           *)
(***************************************************************************)
EXTENDS DnsStack, FiniteSetTheorems, SequenceTheorems, TLAPS

-----------------------------------------------------------------------------
(* Queues that hold nothing twice. *)

Distinct(q) == \A i, j \in DOMAIN q : q[i] = q[j] => i = j

LEMMA AppendDistinct ==
  ASSUME NEW S, NEW q \in Seq(S), Distinct(q), NEW x \in S, x \notin Range(q)
  PROVE  Distinct(Append(q, x)) /\ Range(Append(q, x)) = Range(q) \cup {x}
<1> DEFINE r == Append(q, x)
<1>1. /\ r \in Seq(S) /\ Len(r) = Len(q) + 1
      /\ \A i \in 1..Len(q) : r[i] = q[i]
      /\ r[Len(q) + 1] = x
  OBVIOUS
<1>2. DOMAIN r = 1..(Len(q) + 1) /\ DOMAIN q = 1..Len(q) /\ Len(q) \in Nat
  BY <1>1
<1>3. \A i \in 1..Len(q) : q[i] # x
  BY <1>2 DEF Range
<1> HIDE DEF r
<1>4. Distinct(r)
  BY <1>1, <1>2, <1>3 DEF Distinct
<1>5. ASSUME NEW i \in DOMAIN r PROVE r[i] \in Range(q) \cup {x}
  BY <1>1, <1>2 DEF Range
<1>6. ASSUME NEW y \in Range(q) PROVE y \in Range(r)
  <2>1. PICK i \in 1..Len(q) : y = q[i]
    BY <1>2 DEF Range
  <2> QED  BY <1>1, <1>2, <2>1 DEF Range
<1>7. x \in Range(r)
  BY <1>1, <1>2 DEF Range
<1>8. Range(r) = Range(q) \cup {x}
  BY <1>5, <1>6, <1>7 DEF Range
<1> QED  BY <1>4, <1>8 DEF r

LEMMA TailDistinct ==
  ASSUME NEW S, NEW q \in Seq(S), Distinct(q), q # <<>>
  PROVE  Distinct(Tail(q)) /\ Range(Tail(q)) = Range(q) \ {Head(q)}
<1> DEFINE r == Tail(q)
<1>1. /\ r \in Seq(S) /\ Len(r) = Len(q) - 1 /\ Head(q) = q[1] /\ Len(q) > 0
      /\ \A i \in 1..Len(q) - 1 : r[i] = q[i + 1]
  OBVIOUS
<1>2. DOMAIN r = 1..(Len(q) - 1) /\ DOMAIN q = 1..Len(q) /\ Len(q) \in Nat
  BY <1>1
<1>3. \A i \in 2..Len(q) : q[i] # q[1] /\ r[i - 1] = q[i]
  BY <1>1, <1>2 DEF Distinct
<1> HIDE DEF r
<1>4. ASSUME NEW i \in DOMAIN r, NEW j \in DOMAIN r, r[i] = r[j] PROVE i = j
  <2>1. i + 1 \in DOMAIN q /\ j + 1 \in DOMAIN q /\ q[i + 1] = q[j + 1]
    BY <1>1, <1>2, <1>4
  <2>2. i + 1 = j + 1
    BY <2>1 DEF Distinct
  <2> QED  BY <1>2, <2>2
<1>5. ASSUME NEW i \in DOMAIN r PROVE r[i] \in Range(q) \ {q[1]}
  <2>1. i + 1 \in 2..Len(q) /\ r[i] = q[i + 1]
    BY <1>1, <1>2
  <2> QED  BY <1>2, <1>3, <2>1 DEF Range
<1>6. ASSUME NEW y \in Range(q) \ {q[1]} PROVE y \in Range(r)
  <2>1. PICK i \in 2..Len(q) : y = q[i]
    BY <1>1, <1>2 DEF Range
  <2>2. i - 1 \in DOMAIN r /\ r[i - 1] = y
    BY <1>2, <1>3, <2>1
  <2> QED  BY <2>2 DEF Range
<1>7. Range(r) \subseteq Range(q) \ {q[1]}
  BY <1>5 DEF Range
<1>8. Range(r) = Range(q) \ {Head(q)}
  BY <1>1, <1>6, <1>7
<1>9. Distinct(r)
  BY <1>4 DEF Distinct
<1> QED  BY <1>8, <1>9 DEF r
-----------------------------------------------------------------------------
(* Types. *)

\* What the dispatcher holds at each step; part of the type, since it sends the head
\* of `reply`.
HandlingInv ==
  /\ dispatcher \in {"recv", "stopped"} => current = NoPacket /\ reply = <<>>
  /\ dispatcher = "resolving" =>
       current \in Packets /\ IsQuery(current) /\ ~is_router_solicitation(current)
  /\ dispatcher = "sending" =>
       /\ current \in Packets /\ Asks(current)
       /\ \E r \in RepliesTo(current) : reply = <<r>>

LEMMA RepliesAreReplies ==
  ASSUME NEW p \in Packets, Asks(p), NEW r \in RepliesTo(p)
  PROVE  r \in AllReplies
BY DEF AllReplies

LEMMA TypeInit == Init => TypeOK /\ HandlingInv
<1> SUFFICES ASSUME Init PROVE TypeOK /\ HandlingInv
  OBVIOUS
<1>1. /\ <<>> \in Seq(Packets) /\ <<>> \in Seq(AllReplies) /\ <<>> \in Seq(Tasks)
      /\ <<>> \in Seq(AllReplies \cup {RouterAdvertisement(AllNodes)})
      /\ Len(<<>>) = 0
  OBVIOUS
<1> QED  BY <1>1, ConstantsAssumption DEF Init, TypeOK, HandlingInv

LEMMA TypeNext == TypeOK /\ HandlingInv /\ [Next]_vars => TypeOK' /\ HandlingInv'
<1> SUFFICES ASSUME TypeOK, HandlingInv, [Next]_vars PROVE TypeOK' /\ HandlingInv'
  OBVIOUS
<1> DEFINE Messages == AllReplies \cup {RouterAdvertisement(AllNodes)}
<1> USE ConstantsAssumption DEF TypeOK, HandlingInv, inVars, beaconVars, dispatcherVars, Tasks
<1>a. BeginSend("beacon") \/ BeginSend("dispatcher") => senders' \in Seq(Tasks)
  <2>1. ASSUME NEW t \in Tasks, BeginSend(t) PROVE senders' \in Seq(Tasks)
    <3>1. Append(senders, t) \in Seq(Tasks)
      OBVIOUS
    <3> QED  BY <2>1, <3>1 DEF BeginSend
  <2>2. "beacon" \in Tasks /\ "dispatcher" \in Tasks
    OBVIOUS
  <2> QED  BY <2>1, <2>2
<1>b. ASSUME NEW t, NEW m \in Messages, Deliver(t, m)
      PROVE  /\ senders' \in Seq(Tasks)
             /\ outgoing' \in Seq(Messages) /\ Len(outgoing') <= OutCapacity
  BY <1>b DEF Deliver
<1> HIDE DEF Messages
<1>1. CASE UNCHANGED vars
  BY <1>1 DEF vars
<1>2. CASE Elapse
  BY <1>2 DEF Elapse
<1>3. CASE BeaconTick
  BY <1>3, <1>a DEF BeaconTick
<1>4. CASE BeaconSend
  BY <1>4, <1>b DEF BeaconSend, Messages
<1>5. CASE BeaconStop
  BY <1>5 DEF BeaconStop
<1>6. CASE Receive
  <2> DEFINE p == Head(incoming)
  <2>1. p \in Packets /\ incoming' \in Seq(Packets) /\ Len(incoming') <= InCapacity
    BY <1>6 DEF Receive
  <2>2. CASE TakeSolicitation(p)
    <3>1. RouterAdvertisement(p.src) \in RepliesTo(p) /\ Asks(p)
      BY <2>2 DEF TakeSolicitation, RepliesTo, Asks
    <3>2. RouterAdvertisement(p.src) \in AllReplies
      BY <2>1, <3>1, RepliesAreReplies
    <3> QED  BY <1>6, <1>a, <2>1, <2>2, <3>1, <3>2 DEF Receive, TakeSolicitation
  <2>3. CASE TakeQuery(p)
    BY <1>6, <2>1, <2>3 DEF Receive, TakeQuery
  <2>4. CASE TakeOther(p)
    BY <1>6, <2>1, <2>4 DEF Receive, TakeOther
  <2> QED  BY <1>6, <2>2, <2>3, <2>4 DEF Receive
<1>7. CASE Resolve
  <2>1. PICK v \in Verdicts : reply' = <<DnsReply(current, v)>>
    BY <1>7 DEF Resolve
  <2>2. Asks(current) /\ DnsReply(current, v) \in RepliesTo(current)
    BY <1>7 DEF Resolve, RepliesTo, Asks
  <2>3. DnsReply(current, v) \in AllReplies
    BY <1>7, <2>2, RepliesAreReplies DEF Resolve
  <2> QED  BY <1>7, <1>a, <2>1, <2>2, <2>3 DEF Resolve
<1>8. CASE DispatcherSend
  <2>1. PICK r \in RepliesTo(current) : reply = <<r>>
    BY <1>8 DEF DispatcherSend
  <2>2. r \in AllReplies /\ Head(reply) = r
    BY <1>8, <2>1, RepliesAreReplies DEF DispatcherSend
  <2> QED  BY <1>8, <1>b, <2>2 DEF DispatcherSend, Messages
<1>9. CASE DispatcherStop
  BY <1>9 DEF DispatcherStop
<1>10. ASSUME NEW p \in Packets, Push(p) PROVE TypeOK' /\ HandlingInv'
  BY <1>10 DEF Push
<1>11. CASE Drain
  BY <1>11 DEF Drain, Messages
<1>12. CASE CloseIncoming
  BY <1>12 DEF CloseIncoming
<1>13. CASE CloseOutgoing
  <2>1. outgoing' = <<>> /\ senders' = <<>> /\ outOpen' = FALSE
    BY <1>13 DEF CloseOutgoing
  <2>2. <<>> \in Seq(Messages) /\ <<>> \in Seq(Tasks) /\ Len(<<>>) = 0
    OBVIOUS
  <2>3. outgoing' \in Seq(Messages) /\ Len(outgoing') <= OutCapacity /\ senders' \in Seq(Tasks)
    BY <2>1, <2>2
  <2> QED  BY <1>13, <2>1, <2>3 DEF CloseOutgoing, Messages
<1> QED
  BY <1>1, <1>2, <1>3, <1>4, <1>5, <1>6, <1>7, <1>8, <1>9, <1>10, <1>11, <1>12, <1>13
  DEF Next, Beacon, Dispatcher, Bridge

LEMMA Handling == Spec => [](TypeOK /\ HandlingInv)
BY TypeInit, TypeNext, PTL DEF Spec

\* Every variable keeps its type; in particular neither channel overflows.
THEOREM TypeCorrect == Spec => []TypeOK
BY Handling, PTL
-----------------------------------------------------------------------------
(* DnsStack implements Responder. *)

LEMMA PendingInit == Init => Server!Init
BY DEF Init, Server!Init, Pending

LEMMA PendingNext ==
  TypeOK /\ HandlingInv /\ [Next]_vars => [Server!Next]_(Server!vars)
<1> SUFFICES ASSUME TypeOK, HandlingInv, [Next]_vars
             PROVE  Server!Next \/ UNCHANGED Server!vars
  BY DEF Server!Next, Server!vars
<1> USE ConstantsAssumption DEF inVars, beaconVars, dispatcherVars
<1>a. incoming \in Seq(Packets) /\ current \in Packets \cup {NoPacket}
  BY DEF TypeOK
<1>b. ASSUME UNCHANGED <<incoming, current, replied, outOpen>> PROVE UNCHANGED Server!vars
  BY <1>b DEF Server!vars, Pending
<1>1. CASE UNCHANGED vars
  BY <1>1, <1>b DEF vars
<1>2. CASE Elapse
  BY <1>2, <1>b DEF Elapse
<1>3. CASE Beacon
  BY <1>3, <1>b DEF Beacon, BeaconTick, BeaconSend, BeaconStop
<1>4. CASE Resolve
  BY <1>4, <1>b DEF Resolve
<1>5. CASE Receive
  <2> DEFINE p == Head(incoming)
  <2>1. /\ incoming # <<>> /\ incoming' = Tail(incoming) /\ p \in Packets
        /\ current = NoPacket /\ Pending = incoming
        /\ replied' = replied /\ outOpen' = outOpen
    BY <1>5, <1>a DEF Receive, HandlingInv, Pending
  <2>2. CASE TakeSolicitation(p) \/ TakeQuery(p)
    <3>1. current' = p
      BY <2>2 DEF TakeSolicitation, TakeQuery
    <3>2. Pending' = <<p>> \o Tail(incoming)
      BY <2>1, <3>1 DEF Pending
    <3>3. Pending' = Pending
      BY <1>a, <2>1, <3>2
    <3> QED  BY <2>1, <3>3 DEF Server!vars
  <2>3. CASE TakeOther(p)
    <3>1. current' = NoPacket /\ ~Asks(p)
      BY <2>1, <2>3 DEF TakeOther, Asks
    <3>2. Pending' = Tail(incoming)
      BY <1>a, <2>1, <3>1 DEF Pending
    <3> QED  BY <2>1, <3>1, <3>2 DEF Server!Next, Server!PassOver
  <2> QED  BY <1>5, <2>2, <2>3 DEF Receive
<1>6. CASE DispatcherSend
  <2>1. PICK r \in RepliesTo(current) : reply = <<r>>
    BY <1>6 DEF DispatcherSend, HandlingInv
  <2>2. /\ replied' = Append(replied, r) /\ outOpen /\ outOpen' = outOpen
        /\ incoming' = incoming /\ current' = NoPacket
    BY <1>6, <2>1 DEF DispatcherSend, Deliver
  <2>3. current \in Packets /\ Asks(current)
    BY <1>6 DEF DispatcherSend, HandlingInv
  <2>4. Pending = <<current>> \o incoming /\ Pending' = incoming
    BY <1>a, <2>2, <2>3 DEF Pending
  <2>5. Pending # <<>> /\ Head(Pending) = current /\ Tail(Pending) = incoming
    BY <1>a, <2>3, <2>4
  <2> QED  BY <2>2, <2>3, <2>4, <2>5 DEF Server!Next, Server!Answer
<1>7. CASE DispatcherStop
  <2>1. Pending' = <<>> /\ replied' = replied /\ outOpen' = outOpen
    BY <1>7 DEF DispatcherStop, Pending
  <2>2. CASE ~outOpen
    BY <2>1, <2>2 DEF Server!Next, Server!Drop
  <2>3. CASE dispatcher = "recv" /\ incoming = <<>>
    <3>1. Pending = <<>>
      BY <2>3 DEF HandlingInv, Pending
    <3> QED  BY <2>1, <3>1 DEF Server!vars
  <2> QED  BY <1>7, <2>2, <2>3 DEF DispatcherStop
<1>8. ASSUME NEW p \in Packets, Push(p) PROVE Server!Accept(p)
  <2>1. incoming' = Append(incoming, p) /\ UNCHANGED <<current, replied, outOpen>>
    BY <1>8 DEF Push
  <2>2. Pending' = Append(Pending, p)
    BY <1>a, <2>1 DEF Pending
  <2> QED  BY <2>1, <2>2 DEF Server!Accept
<1>9. CASE Drain
  BY <1>9, <1>b DEF Drain
<1>10. CASE CloseIncoming
  BY <1>10, <1>b DEF CloseIncoming
<1>11. CASE CloseOutgoing
  BY <1>11 DEF CloseOutgoing, Pending, Server!Next, Server!Close
<1> QED
  BY <1>1, <1>2, <1>3, <1>4, <1>5, <1>6, <1>7, <1>8, <1>9, <1>10, <1>11
  DEF Next, Dispatcher, Bridge, Server!Next

\* One reply to everything that asks for one, its own, in order: the two tasks and
\* the channels between them implement the sequential server, whatever their
\* capacity and however the tasks, the resolver and the bridge interleave.
THEOREM StackImplementsResponder == Spec => ImplementsResponder
BY PendingInit, PendingNext, Handling, PTL DEF Spec, ImplementsResponder, Server!Spec

-----------------------------------------------------------------------------
(* Counting. *)

\* The questions that are neither waiting nor in hand.
Answered == {p \in offered : Asks(p) /\ p \notin Range(incoming) /\ p # current}

\* Inductive, given types: what waits and what is in hand are different packets the
\* bridge has pushed, and the other questions have had a reply each as long as there is
\* somebody to take it.
CountInv ==
  /\ IsFiniteSet(offered)
  /\ Distinct(incoming)
  /\ Range(incoming) \subseteq offered \ {current}
  /\ current \in offered \cup {NoPacket}
  /\ outOpen => Len(replied) = Cardinality(Answered)
  /\ dispatcher = "stopped" => incoming = <<>> /\ (outOpen => ~inOpen)

LEMMA CountInit == Init => CountInv
<1> SUFFICES ASSUME Init PROVE CountInv
  OBVIOUS
<1>1. Answered = {} /\ Len(replied) = 0 /\ offered = {} /\ Range(incoming) = {}
  BY DEF Init, Answered, Range
<1> QED  BY <1>1, FS_EmptySet DEF Init, CountInv, Distinct

LEMMA CountNext == TypeOK /\ HandlingInv /\ CountInv /\ [Next]_vars => CountInv'
<1> SUFFICES ASSUME TypeOK, HandlingInv, CountInv, [Next]_vars PROVE CountInv'
  OBVIOUS
<1> USE ConstantsAssumption DEF CountInv, inVars, beaconVars, dispatcherVars
<1>a. /\ incoming \in Seq(Packets) /\ offered \subseteq Packets /\ replied \in Seq(AllReplies)
      /\ NoPacket \notin Packets
  BY DEF TypeOK
<1>b. IsFiniteSet(Answered)
  BY FS_Subset DEF Answered
<1>1. ASSUME UNCHANGED <<offered, incoming, current, outOpen, replied, dispatcher, inOpen>>
      PROVE  CountInv'
  BY <1>1 DEF Answered
<1>2. CASE UNCHANGED vars \/ Elapse \/ Beacon \/ Drain
  BY <1>1, <1>2 DEF vars, Elapse, Beacon, BeaconTick, BeaconSend, BeaconStop, Drain
<1>3. CASE Receive
  <2> DEFINE p == Head(incoming)
  <2>1. /\ incoming # <<>> /\ incoming' = Tail(incoming) /\ current = NoPacket
        /\ UNCHANGED <<offered, outOpen, replied>> /\ p \in Range(incoming)
    BY <1>3, <1>a DEF Receive, HandlingInv, Range
  <2>2. Distinct(incoming') /\ Range(incoming') = Range(incoming) \ {p}
    BY <1>a, <2>1, TailDistinct
  <2>3. dispatcher' # "stopped"
    BY <1>3 DEF Receive, TakeSolicitation, TakeQuery, TakeOther
  <2>4. CASE current' = p
    <3>1. Answered' = Answered
      BY <1>a, <2>1, <2>2, <2>4 DEF Answered
    <3> QED  BY <2>1, <2>2, <2>3, <2>4, <3>1
  <2>5. CASE current' = NoPacket /\ ~Asks(p)
    <3>1. Answered' = Answered
      BY <1>a, <2>1, <2>2, <2>5 DEF Answered
    <3> QED  BY <1>a, <2>1, <2>2, <2>3, <2>5, <3>1
  <2> QED
    BY <1>3, <2>1, <2>4, <2>5 DEF Receive, TakeSolicitation, TakeQuery, TakeOther, Asks
<1>4. CASE Resolve
  BY <1>4 DEF Resolve, Answered
<1>5. CASE DispatcherSend
  <2>1. /\ current \in offered /\ Asks(current) /\ outOpen
        /\ current' = NoPacket /\ dispatcher' = "recv"
        /\ UNCHANGED <<offered, incoming, outOpen>>
    BY <1>5 DEF DispatcherSend, Deliver, HandlingInv
  <2>2. replied' \in Seq(AllReplies) /\ Len(replied') = Len(replied) + 1
    <3>1. Head(reply) \in AllReplies /\ replied' = Append(replied, Head(reply))
      <4>1. PICK r \in RepliesTo(current) : reply = <<r>>
        BY <1>5 DEF DispatcherSend, HandlingInv
      <4> QED  BY <1>5, <2>1, <4>1, RepliesAreReplies DEF DispatcherSend, TypeOK
    <3> QED  BY <1>a, <3>1
  <2>3. Answered' = Answered \cup {current} /\ current \notin Answered
    BY <1>a, <2>1 DEF Answered
  <2>4. Cardinality(Answered') = Cardinality(Answered) + 1
    BY <1>b, <2>3, FS_AddElement
  <2> QED  BY <1>a, <2>1, <2>2, <2>4
<1>6. CASE DispatcherStop
  <2>1. /\ incoming' = <<>> /\ current' = NoPacket /\ dispatcher' = "stopped"
        /\ UNCHANGED <<inOpen, offered, outOpen, replied>>
    BY <1>6 DEF DispatcherStop
  <2>2. Distinct(incoming') /\ Range(incoming') = {}
    BY <2>1 DEF Distinct, Range
  <2>3. outOpen => ~inOpen /\ incoming = <<>> /\ current = NoPacket
    BY <1>6 DEF DispatcherStop, HandlingInv
  <2>4. outOpen => Answered' = Answered
    BY <2>1, <2>3 DEF Answered
  <2> QED  BY <2>1, <2>2, <2>3, <2>4
<1>7. ASSUME NEW p \in Packets, Push(p) PROVE CountInv'
  <2>1. /\ p \notin offered /\ p # current /\ p \notin Range(incoming)
        /\ offered' = offered \cup {p} /\ incoming' = Append(incoming, p)
        /\ dispatcher' # "stopped" /\ UNCHANGED <<current, outOpen, replied>>
    BY <1>7, <1>a DEF Push
  <2>2. Distinct(incoming') /\ Range(incoming') = Range(incoming) \cup {p}
    BY <1>a, <2>1, AppendDistinct
  <2>3. Answered' = Answered
    BY <2>1, <2>2 DEF Answered
  <2> QED  BY <2>1, <2>2, <2>3, FS_AddElement
<1>8. CASE CloseIncoming
  BY <1>8 DEF CloseIncoming, Answered
<1>9. CASE CloseOutgoing
  BY <1>9 DEF CloseOutgoing
<1> QED
  BY <1>2, <1>3, <1>4, <1>5, <1>6, <1>7, <1>8, <1>9 DEF Next, Dispatcher, Bridge

\* The dispatcher only stops of itself when the bridge has hung up and every question
\* it ever pushed has been answered, however many there were and whatever the
\* capacities; the other way to stop it is to take no more replies.
THEOREM StopsWhenDone == Spec => []StopsOnlyWhenDone
<1>1. TypeOK /\ HandlingInv /\ CountInv => StopsOnlyWhenDone
  <2> SUFFICES ASSUME TypeOK, HandlingInv, CountInv, dispatcher = "stopped", outOpen
               PROVE  ~inOpen /\ Len(replied) = Cardinality({p \in offered : Asks(p)})
    BY DEF StopsOnlyWhenDone
  <2>1. incoming = <<>> /\ current = NoPacket /\ NoPacket \notin Packets
    BY ConstantsAssumption DEF CountInv, HandlingInv
  <2>2. Answered = {p \in offered : Asks(p)}
    BY <2>1 DEF Answered, Range, TypeOK
  <2> QED  BY <2>2 DEF CountInv
<1> QED  BY <1>1, CountInit, CountNext, Handling, PTL DEF Spec
=============================================================================
