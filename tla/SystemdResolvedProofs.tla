----------------------- MODULE SystemdResolvedProofs -----------------------
(***************************************************************************)
(* Theorems about SystemdResolved, for any interfaces, configs, number of  *)
(* ifindexes and faults.                                                   *)
(***************************************************************************)
EXTENDS SystemdResolved, TLAPS

-----------------------------------------------------------------------------
(* Links. *)

\* No ifindex is handed out twice, so no two interfaces share one.
OneInterface ==
  \A i, j \in Interfaces : ifindex[i] = ifindex[j] /\ ifindex[i] # NoLink => i = j

\* A link a call or the instance remembers is as live after an interface was made as
\* before: what is made has a new index.
LEMMA LinkUpLive ==
  ASSUME TypeOK, NEW i \in Interfaces, LinkUp(i)
  PROVE  Live' = Live \cup {lastIndex + 1} /\ lastIndex + 1 \in Links
<1>1. lastIndex + 1 # NoLink /\ lastIndex + 1 \in Links /\ ifindex[i] = NoLink
  BY ConstantsAssumption DEF LinkUp, TypeOK, Links, NoLink
<1>2. ifindex' = [ifindex EXCEPT ![i] = lastIndex + 1] /\ ifindex \in [Interfaces -> 0..lastIndex]
  BY DEF LinkUp, TypeOK
<1> QED  BY <1>1, <1>2 DEF Live

\* A link that goes is the only one that does.
LEMMA LinkDownLive ==
  ASSUME TypeOK, OneInterface, NEW i \in Interfaces, LinkDown(i)
  PROVE  Live' = Live \ {ifindex[i]} /\ ifindex[i] \in Links
<1>1. ifindex' = [ifindex EXCEPT ![i] = NoLink] /\ ifindex \in [Interfaces -> 0..lastIndex]
      /\ ifindex[i] # NoLink
  BY DEF LinkDown, TypeOK
<1>2. ifindex[i] \in Links
  BY <1>1, ConstantsAssumption DEF TypeOK, Links, NoLink
<1>3. \A j \in Interfaces : j # i => ifindex'[j] = ifindex[j] /\ (ifindex[j] # ifindex[i])
  BY <1>1 DEF OneInterface
<1> QED  BY <1>1, <1>2, <1>3 DEF Live
-----------------------------------------------------------------------------
(* Types. *)

LEMMA LiveType == TypeOK => Live \subseteq Links
BY ConstantsAssumption DEF TypeOK, Live, Links, NoLink

LEMMA TypeInit == Init => TypeOK /\ OneInterface
BY ConstantsAssumption DEF Init, TypeOK, OneInterface, Live, Links, NoLink, SetSteps, ResetSteps

Typed == TypeOK /\ OneInterface

LEMMA TypeNext == Typed /\ [Next]_vars => Typed'
<1> SUFFICES ASSUME TypeOK, OneInterface, [Next]_vars PROVE TypeOK' /\ OneInterface'
  BY DEF Typed
<1> USE DEF SetSteps, ResetSteps, Return, SetBegins, host, resolved
<1>a. Live \subseteq Links
  BY LiveType
<1>b. UNCHANGED host => Live' = Live /\ OneInterface'
  BY DEF Live, OneInterface
<1>1. CASE UNCHANGED vars
  BY <1>1, <1>b DEF vars, TypeOK
<1>2. CASE Set
  BY <1>2, <1>b, <1>a, ConstantsAssumption
     DEF Set, SetLink, SetServers, SetFinish, SetGone, SetDNS, SetDomains, TypeOK, NoLink, Links
<1>3. CASE Reset
  <2> USE DEF TypeOK, NoLink
  <2>1. CASE ResetNoop
    BY <2>1, <1>b DEF ResetNoop
  <2>2. CASE ResetBegin
    BY <2>2, <1>b, ConstantsAssumption DEF ResetBegin, Links
  <2>3. CASE ResetLink \/ ResetLinkGone
    BY <2>3, <1>b DEF ResetLink, ResetLinkGone
  <2>4. CASE ResetServers
    BY <2>4, <1>b, <1>a DEF ResetServers, SetDNS
  <2>5. CASE ResetFinish
    BY <2>5, <1>b, <1>a DEF ResetFinish, SetDomains
  <2>6. CASE ResetGone
    BY <2>6, <1>b, ConstantsAssumption DEF ResetGone
  <2> QED  BY <1>3, <2>1, <2>2, <2>3, <2>4, <2>5, <2>6 DEF Reset
<1>4. CASE CallFails
  BY <1>4, <1>b, <1>a DEF CallFails, SetDNS, SetDomains, IfMidway, Midway, TypeOK, NoLink
<1>5. CASE Crash
  BY <1>5, <1>b, <1>a DEF Crash, IfMidway, Midway, TypeOK, NoLink
<1>6. ASSUME NEW i \in Interfaces, LinkUp(i) PROVE TypeOK' /\ OneInterface'
  <2>1. Live' = Live \cup {lastIndex + 1} /\ lastIndex + 1 \in Links
    BY <1>6, LinkUpLive
  <2>2. lastIndex' = lastIndex + 1 /\ lastIndex' \in 0..MaxIndex
        /\ ifindex' \in [Interfaces -> 0..lastIndex']
    BY <1>6, ConstantsAssumption DEF LinkUp, TypeOK
  <2>3. OneInterface'
    <3>1. \A j \in Interfaces : ifindex[j] \in 0..lastIndex /\ ifindex[j] # lastIndex + 1
      BY ConstantsAssumption DEF TypeOK
    <3> QED  BY <1>6, <3>1 DEF LinkUp, OneInterface, TypeOK
  <2>4. TypeOK'
    BY <1>6, <2>1, <2>2, ConstantsAssumption DEF LinkUp, TypeOK
  <2> QED  BY <2>3, <2>4
<1>7. ASSUME NEW i \in Interfaces, LinkDown(i) PROVE TypeOK' /\ OneInterface'
  <2>1. Live' = Live \ {ifindex[i]} /\ ifindex[i] \in Links
    BY <1>7, LinkDownLive
  <2>2. ifindex' \in [Interfaces -> 0..lastIndex'] /\ OneInterface'
    BY <1>7 DEF LinkDown, TypeOK, OneInterface, NoLink
  <2>3. TypeOK'
    BY <1>7, <2>1, <2>2 DEF LinkDown, TypeOK
  <2> QED  BY <2>2, <2>3
<1>8. ASSUME NEW i \in Interfaces, SetNoInterface(i) PROVE TypeOK' /\ OneInterface'
  BY <1>8, <1>b DEF SetNoInterface, TypeOK, NoLink
<1>9. ASSUME NEW i \in Interfaces, NEW c \in Configs, SetBegin(i, c)
      PROVE  TypeOK' /\ OneInterface'
  <2>1. ifindex[i] \in Links /\ ifindex[i] \in 0..lastIndex
    BY <1>9, ConstantsAssumption DEF SetBegin, TypeOK, Links, NoLink
  <2> QED  BY <1>9, <1>b, <2>1 DEF SetBegin, TypeOK, NoLink
<1> QED  BY <1>1, <1>2, <1>3, <1>4, <1>5, <1>6, <1>7, <1>8, <1>9 DEF Next

\* Every variable keeps its type, a link that is gone keeps nothing, and a call is only
\* ever about a link that has existed.
THEOREM TypeCorrect == Spec => []TypeOK
<1>1. Init => Typed
  BY TypeInit DEF Typed
<1>2. Typed => TypeOK
  BY DEF Typed
<1> QED  BY <1>1, <1>2, TypeNext, PTL DEF Spec
-----------------------------------------------------------------------------
(* What a call knows of its link half way, and what an instance remembers. *)

\* The second call of a pair finds what the first has done, unless the link is gone.
PairInv ==
  /\ pc # "idle" => ret = "none"
  /\ pc = "set_domains" /\ link \in Live => dns[link] = cfg
  /\ pc = "reset_domains" => dns[link] = NoConfig

\* active_link is the link that a reset() is still to undo: while one runs, and after
\* one that returned Ok, there is none.  A link that is remembered has servers and
\* domains, also while a set() gives it others.
ActiveInv ==
  /\ pc \in ResetSteps \/ ret = "resetOk" => active_link = NoLink
  /\ active_link \in Live => dns[active_link] # NoConfig /\ domains[active_link] # NoConfig

\* The link of the last set() to return Ok is the one that is remembered, or the one
\* that a reset() is at, or has been undone.
OwedInv ==
  owed # NoLink =>
    IF pc \in ResetSteps THEN link = owed
    ELSE IF ret = "resetOk" THEN dns[owed] = NoConfig /\ domains[owed] = NoConfig
    ELSE active_link = owed

\* Servers and domains are of one config, but for the link a call is half way with and
\* those an earlier one has left like that.
EvenInv ==
  \A l \in Links : dns[l] = domains[l] \/ l \in torn \/ (Midway /\ link = l)

IInv == PairInv /\ SetOkIsWhole /\ ActiveInv /\ OwedInv /\ EvenInv

LEMMA IInit == Init => IInv
BY ConstantsAssumption
   DEF Init, IInv, PairInv, SetOkIsWhole, ActiveInv, OwedInv, EvenInv, Live, NoLink,
       ResetSteps

LEMMA INext ==
  ASSUME Typed, IInv, [Next]_vars
  PROVE  IInv'
<1> USE DEF IInv, PairInv, SetOkIsWhole, ActiveInv, OwedInv, EvenInv, Midway
<1> USE DEF SetSteps, ResetSteps, Return, SetBegins, host, resolved, NoLink
<1>t. TypeOK /\ Typed' /\ TypeOK'
  BY TypeNext DEF Typed
<1>a. Live \subseteq Links /\ NoLink \notin Live /\ NoConfig \notin Configs
  BY <1>t, LiveType, ConstantsAssumption DEF Links
<1>b. UNCHANGED host => Live' = Live
  BY DEF Live
<1>c. \A l \in Links \ Live : dns[l] = NoConfig /\ domains[l] = NoConfig
  BY <1>t DEF TypeOK
<1>d. /\ pc # "idle" => link \in Links
      /\ pc \in SetSteps => cfg \in Configs
      /\ owed # NoLink => owed \in Links
      /\ active_link # NoLink => active_link \in Links
  BY <1>t, ConstantsAssumption DEF TypeOK, Links
<1>e. /\ dns \in [Links -> Configs \cup {NoConfig}]
      /\ domains \in [Links -> Configs \cup {NoConfig}]
  BY <1>t DEF TypeOK
<1>1. CASE UNCHANGED vars
  BY <1>1, <1>b DEF vars
<1>2. CASE SetLink
  BY <1>2, <1>b DEF SetLink
<1>3. CASE SetServers
  BY <1>3, <1>a, <1>b, <1>d, <1>e DEF SetServers, SetDNS
<1>4. CASE SetFinish
  BY <1>4, <1>a, <1>b, <1>d, <1>e DEF SetFinish, SetDomains
<1>5. CASE SetGone
  BY <1>5, <1>b DEF SetGone
<1>6. CASE ResetNoop
  BY <1>6, <1>b DEF ResetNoop
<1>7. CASE ResetBegin
  BY <1>7, <1>a, <1>b DEF ResetBegin
<1>8. CASE ResetLink
  BY <1>8, <1>b DEF ResetLink
<1>9. CASE ResetLinkGone
  BY <1>9, <1>b, <1>c, <1>d DEF ResetLinkGone
<1>10. CASE ResetServers
  BY <1>10, <1>a, <1>b, <1>d, <1>e DEF ResetServers, SetDNS
<1>11. CASE ResetFinish
  BY <1>11, <1>a, <1>b, <1>d, <1>e DEF ResetFinish, SetDomains
<1>12. CASE ResetGone
  BY <1>12, <1>b DEF ResetGone
<1>13. CASE CallFails
  BY <1>13, <1>a, <1>b, <1>d, <1>e DEF CallFails, SetDNS, SetDomains, IfMidway
<1>14. CASE Crash
  BY <1>14, <1>a, <1>b DEF Crash, IfMidway
<1>15. ASSUME NEW i \in Interfaces, LinkUp(i) PROVE IInv'
  <2>1. Live' = Live \cup {lastIndex + 1}
    BY <1>15, <1>t, LinkUpLive
  <2>2. link # lastIndex + 1 /\ active_link # lastIndex + 1
    BY <1>t DEF TypeOK
  <2> QED  BY <1>15, <2>1, <2>2 DEF LinkUp
<1>16. ASSUME NEW i \in Interfaces, LinkDown(i) PROVE IInv'
  <2>1. Live' = Live \ {ifindex[i]} /\ ifindex[i] \in Links
    BY <1>16, LinkDownLive DEF Typed
  <2> QED  BY <1>16, <1>a, <1>d, <1>e, <2>1 DEF LinkDown
<1>17. ASSUME NEW i \in Interfaces, SetNoInterface(i) PROVE IInv'
  BY <1>17, <1>b DEF SetNoInterface
<1>18. ASSUME NEW i \in Interfaces, NEW c \in Configs, SetBegin(i, c) PROVE IInv'
  BY <1>18, <1>b DEF SetBegin
<1> QED
  BY <1>1, <1>2, <1>3, <1>4, <1>5, <1>6, <1>7, <1>8, <1>9, <1>10, <1>11, <1>12, <1>13,
     <1>14, <1>15, <1>16, <1>17, <1>18 DEF Next, Set, Reset

LEMMA Invariance == Spec => [](Typed /\ IInv)
<1>1. Init => Typed /\ IInv
  BY TypeInit, IInit DEF Typed
<1>2. (Typed /\ IInv) /\ [Next]_vars => (Typed /\ IInv)'
  BY TypeNext, INext
<1> QED  BY <1>1, <1>2, PTL DEF Spec

\* A set() that returned Ok is whole on its link as long as that lives, whatever goes
\* on around it, and its reset() is going to find it.
THEOREM SetsAreWhole == Spec => []SetOkIsWhole
<1>1. Typed /\ IInv => SetOkIsWhole
  BY DEF IInv
<1> QED  BY <1>1, Invariance, PTL

\* The link the instance remembers is never left with servers and no domains.
THEOREM ActiveLinksRoute == Spec => []ActiveLinkRoutes
<1>1. Typed /\ IInv => ActiveLinkRoutes
  BY DEF IInv, ActiveInv, ActiveLinkRoutes
<1> QED  BY <1>1, Invariance, PTL

\* A reset() that returns Ok has undone the last set() that did.
THEOREM ResetsUndoSets == Spec => []ResetUndoesSet
<1>1. Typed /\ IInv => ResetUndoesSet
  <2> SUFFICES ASSUME Typed, IInv, ret = "resetOk", owed # NoLink
               PROVE  dns[owed] = NoConfig /\ domains[owed] = NoConfig
    BY DEF ResetUndoesSet
  <2>1. pc \notin ResetSteps
    BY DEF IInv, PairInv, ResetSteps
  <2> QED  BY <2>1 DEF IInv, OwedInv
<1> QED  BY <1>1, Invariance, PTL
-----------------------------------------------------------------------------
(* The refinement. *)

\* What a link shows is a config, whole, or nothing.
LEMMA ShownWhole ==
  ASSUME EvenInv, NEW l \in Links
  PROVE  Shown(l) = <<dns[l], dns[l]>>
BY DEF EvenInv, Shown

LEMMA RouteInit ==
  ASSUME Init, NEW l \in Links
  PROVE  Route(l)!Init
BY DEF Init, Route!Init, Shown, Midway

LEMMA RouteNext ==
  ASSUME Typed, IInv, [Next]_vars, NEW l \in Links
  PROVE  [Route(l)!Next]_(Route(l)!vars)
<1>1. Shown(l)' = <<dns'[l], dns'[l]>> /\ dns'[l] \in Configs \cup {NoConfig}
  <2>1. TypeOK' /\ EvenInv'
    BY TypeNext, INext DEF Typed, IInv
  <2> QED  BY <2>1, ShownWhole DEF TypeOK, EvenInv, Shown
<1>2. CASE dns'[l] \in Configs
  BY <1>1, <1>2 DEF Route!Next, Route!Set
<1>3. CASE dns'[l] = NoConfig
  BY <1>1, <1>3 DEF Route!Next, Route!Reset
<1> QED  BY <1>1, <1>2, <1>3

\* Link by link, the backend is a DnsRoute.
THEOREM ResolvedImplementsDnsRoute == Spec => ImplementsDnsRoute
<1>1. Init => \A l \in Links : Route(l)!Init
  BY RouteInit
<1>2. Typed /\ IInv /\ [Next]_vars => \A l \in Links : [Route(l)!Next]_(Route(l)!vars)
  BY RouteNext
<1> QED  BY <1>1, <1>2, Invariance, PTL DEF Spec, ImplementsDnsRoute
=============================================================================
