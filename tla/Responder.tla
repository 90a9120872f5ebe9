----------------------------- MODULE Responder -----------------------------
(***************************************************************************)
(* What a client of dns-stack may rely on: a server that takes packets in  *)
(* the order they come, answers each that calls for a reply once, to       *)
(* whoever asked, and passes over the others, until it is shut down.       *)
(***************************************************************************)
EXTENDS Sequences

CONSTANTS
  Packets,
  Asks(_),      \* the packet calls for a reply
  Replies(_)    \* the replies it may get

VARIABLES
  pending,   \* packets accepted and not yet dealt with
  replies,   \* replies given, in order
  open       \* somebody is still there to take replies

vars == <<pending, replies, open>>

Init == pending = <<>> /\ replies = <<>> /\ open = TRUE

Accept(p) == pending' = Append(pending, p) /\ UNCHANGED <<replies, open>>

Answer ==
  /\ open /\ pending # <<>> /\ Asks(Head(pending))
  /\ \E r \in Replies(Head(pending)) : replies' = Append(replies, r)
  /\ pending' = Tail(pending)
  /\ open' = open

PassOver ==
  /\ pending # <<>> /\ ~Asks(Head(pending))
  /\ pending' = Tail(pending)
  /\ UNCHANGED <<replies, open>>

Close == open' = FALSE /\ UNCHANGED <<pending, replies>>

\* With nobody to take replies, what is pending is dropped sooner or later.
Drop == ~open /\ pending' = <<>> /\ UNCHANGED <<replies, open>>

Next == (\E p \in Packets : Accept(p)) \/ Answer \/ PassOver \/ Close \/ Drop

Spec == Init /\ [][Next]_vars
=============================================================================
