-------------------------- MODULE SystemdResolved --------------------------
(***************************************************************************)
(* The systemd-resolved backend of dns-host-config                         *)
(* (crates/dns-host-config/src/linux/systemd_resolved.rs): set() finds the *)
(* link of an interface and gives it servers, then routing domains, with   *)
(* one D-Bus call each; reset() empties both on the link it remembers.     *)
(* One action stands for one D-Bus call, between which links come and go:  *)
(* an interface that is made anew gets an ifindex no link had before, and  *)
(* resolved forgets what it knew of a link with the link.                  *)
(***************************************************************************)
EXTENDS Naturals

CONSTANTS
  Interfaces,  \* names
  Configs,     \* the DnsRouteConfigs callers pass to set()
  NoConfig,    \* a link resolved was told nothing about
  MaxIndex,    \* bound: ifindexes the kernel ever hands out
  Faults       \* what can go wrong, see FaultKinds

(***************************************************************************)
(* "links"  interfaces are removed and made at any time                    *)
(* "dbus"   a call to resolved returns an error, or the future is dropped  *)
(*          while it waits for one: the call may have been obeyed or not   *)
(* "crash"  the process dies, or drops the backend without a reset()       *)
(***************************************************************************)
FaultKinds == {"links", "dbus", "crash"}

ASSUME ConstantsAssumption ==
  /\ Faults \subseteq FaultKinds
  /\ NoConfig \notin Configs
  /\ MaxIndex \in Nat

\* Ifindexes start at 1: 0 stands for none.
NoLink == 0
Links == 1..MaxIndex

VARIABLES
  ifindex,     \* per interface, its index, or NoLink
  lastIndex,   \* the last one handed out
  dns,         \* per link, the config whose servers SetDNS gave it
  domains,     \* per link, the config whose domains SetDomains gave it
  pc,          \* "idle", or the D-Bus call that set() or reset() makes next
  link, cfg,   \* their local idx and config
  active_link, \* SystemdResolved::active_link
  ret,         \* what the last call returned
  owed,        \* history: the link of the last set() to return Ok, up to the first set()
               \* after a reset() that did, or to the end of a reset() that did not
  torn         \* history: links on which a failure or a crash left one of a pair of
               \* calls done and the other not, until a later pair is complete

host == <<ifindex, lastIndex>>
resolved == <<dns, domains>>
vars == <<host, resolved, pc, link, cfg, active_link, ret, owed, torn>>

Live == {ifindex[i] : i \in Interfaces} \ {NoLink}

SetSteps == {"set_link", "set_dns", "set_domains"}
ResetSteps == {"reset_link", "reset_dns", "reset_domains"}

TypeOK ==
  /\ lastIndex \in 0..MaxIndex
  /\ ifindex \in [Interfaces -> 0..lastIndex]
  /\ dns \in [Links -> Configs \cup {NoConfig}]
  /\ domains \in [Links -> Configs \cup {NoConfig}]
  /\ \A l \in Links \ Live : dns[l] = NoConfig /\ domains[l] = NoConfig
  /\ pc \in {"idle"} \cup SetSteps \cup ResetSteps
  /\ link \in 0..lastIndex
  /\ pc # "idle" => link \in Links
  /\ cfg \in Configs \cup {NoConfig}
  /\ pc \in SetSteps => cfg \in Configs
  /\ active_link \in 0..lastIndex
  /\ ret \in {"none", "setOk", "setErr", "resetOk", "resetErr"}
  /\ owed \in 0..lastIndex
  /\ torn \subseteq Live
-----------------------------------------------------------------------------
\* probe() has connected: see the chain of backends for what it looks at first.
Init ==
  /\ ifindex = [i \in Interfaces |-> NoLink] /\ lastIndex = 0
  /\ dns = [l \in Links |-> NoConfig] /\ domains = [l \in Links |-> NoConfig]
  /\ pc = "idle" /\ link = NoLink /\ cfg = NoConfig
  /\ active_link = NoLink /\ ret = "none" /\ owed = NoLink /\ torn = {}

Return(r) == pc' = "idle" /\ ret' = r

SetDNS(c) == dns' = [dns EXCEPT ![link] = c]
SetDomains(c) == domains' = [domains EXCEPT ![link] = c]

(* set() *)

SetBegins == owed' = IF ret = "resetOk" THEN NoLink ELSE owed

SetNoInterface(i) ==
  /\ pc = "idle" /\ ifindex[i] = NoLink
  /\ Return("setErr")
  /\ SetBegins
  /\ UNCHANGED <<host, resolved, link, cfg, active_link, torn>>

SetBegin(i, c) ==
  /\ pc = "idle" /\ ifindex[i] # NoLink
  /\ pc' = "set_link" /\ link' = ifindex[i] /\ cfg' = c /\ ret' = "none"
  /\ SetBegins
  /\ UNCHANGED <<host, resolved, active_link, torn>>

\* GetLink
SetLink ==
  /\ pc = "set_link" /\ link \in Live
  /\ pc' = "set_dns"
  /\ UNCHANGED <<host, resolved, link, cfg, active_link, ret, owed, torn>>

\* Slips of SetServers: a link that is gone is not noticed; the link is remembered
\* before the call is over.
SetServersBlind ==
  /\ pc = "set_dns"
  /\ SetDNS(cfg)
  /\ pc' = "set_domains"
  /\ UNCHANGED <<host, domains, link, cfg, active_link, ret, owed, torn>>

SetServersActive ==
  /\ pc = "set_dns" /\ link \in Live
  /\ SetDNS(cfg)
  /\ active_link' = link
  /\ pc' = "set_domains"
  /\ UNCHANGED <<host, domains, link, cfg, ret, owed, torn>>

SetServers ==
  /\ pc = "set_dns" /\ link \in Live
  /\ SetDNS(cfg)
  /\ pc' = "set_domains"
  /\ UNCHANGED <<host, domains, link, cfg, active_link, ret, owed, torn>>

\* Slips of SetFinish: a link remembered already is kept; the domains are left to a
\* link that has some.
SetFinishKeeps ==
  /\ pc = "set_domains" /\ link \in Live
  /\ SetDomains(cfg)
  /\ active_link' = IF active_link = NoLink THEN link ELSE active_link
  /\ owed' = link
  /\ torn' = torn \ {link}
  /\ Return("setOk")
  /\ UNCHANGED <<host, dns, link, cfg>>

SetFinishOnce ==
  /\ pc = "set_domains" /\ link \in Live
  /\ SetDomains(IF domains[link] = NoConfig THEN cfg ELSE domains[link])
  /\ active_link' = link
  /\ owed' = link
  /\ torn' = torn \ {link}
  /\ Return("setOk")
  /\ UNCHANGED <<host, dns, link, cfg>>

SetFinish ==
  /\ pc = "set_domains" /\ link \in Live
  /\ SetDomains(cfg)
  /\ active_link' = link
  /\ owed' = link
  /\ torn' = torn \ {link}
  /\ Return("setOk")
  /\ UNCHANGED <<host, dns, link, cfg>>

\* The `?` on a call about a link that is gone.
SetGone ==
  /\ pc \in SetSteps /\ link \notin Live
  /\ Return("setErr")
  /\ UNCHANGED <<host, resolved, link, cfg, active_link, owed, torn>>

(* reset() *)

ResetNoop ==
  /\ pc = "idle" /\ active_link = NoLink
  /\ Return("resetOk")
  /\ UNCHANGED <<host, resolved, link, cfg, active_link, owed, torn>>

\* active_link.take(): whatever happens, it is not tried again.
ResetBegin ==
  /\ pc = "idle" /\ active_link # NoLink
  /\ pc' = "reset_link" /\ link' = active_link /\ ret' = "none"
  /\ active_link' = NoLink
  /\ UNCHANGED <<host, resolved, cfg, owed, torn>>

ResetLink ==
  /\ pc = "reset_link" /\ link \in Live
  /\ pc' = "reset_dns"
  /\ UNCHANGED <<host, resolved, link, cfg, active_link, ret, owed, torn>>

\* "nothing left to undo"
ResetLinkGone ==
  /\ pc = "reset_link" /\ link \notin Live
  /\ Return("resetOk")
  /\ UNCHANGED <<host, resolved, link, cfg, active_link, owed, torn>>

\* Slip of ResetServers: the domains are left behind.
ResetServersOnly ==
  /\ pc = "reset_dns" /\ link \in Live
  /\ SetDNS(NoConfig)
  /\ Return("resetOk")
  /\ UNCHANGED <<host, domains, link, cfg, active_link, owed, torn>>

ResetServers ==
  /\ pc = "reset_dns" /\ link \in Live
  /\ SetDNS(NoConfig)
  /\ pc' = "reset_domains"
  /\ UNCHANGED <<host, domains, link, cfg, active_link, ret, owed, torn>>

ResetFinish ==
  /\ pc = "reset_domains" /\ link \in Live
  /\ SetDomains(NoConfig)
  /\ torn' = torn \ {link}
  /\ Return("resetOk")
  /\ UNCHANGED <<host, dns, link, cfg, active_link, owed>>

ResetGone ==
  /\ pc \in {"reset_dns", "reset_domains"} /\ link \notin Live
  /\ Return("resetErr")
  /\ owed' = NoLink
  /\ UNCHANGED <<host, resolved, link, cfg, active_link, torn>>

(* Faults *)

Midway == pc \in {"set_domains", "reset_domains"} /\ link \in Live
IfMidway == IF Midway THEN torn \cup {link} ELSE torn

\* The call at hand fails, obeyed or not.  reset() takes an error of GetLink for
\* "the link is gone" and returns Ok.
CallFails ==
  /\ "dbus" \in Faults /\ pc # "idle"
  /\ \/ UNCHANGED resolved /\ torn' = IfMidway
     \/ /\ link \in Live /\ UNCHANGED domains
        /\ \/ pc = "set_dns" /\ SetDNS(cfg)
           \/ pc = "reset_dns" /\ SetDNS(NoConfig)
        /\ torn' = torn \cup {link}
     \/ /\ link \in Live /\ UNCHANGED dns
        /\ \/ pc = "set_domains" /\ SetDomains(cfg)
           \/ pc = "reset_domains" /\ SetDomains(NoConfig)
        /\ torn' = torn \ {link}
  /\ Return(IF pc \in SetSteps THEN "setErr"
            ELSE IF pc = "reset_link" THEN "resetOk" ELSE "resetErr")
  /\ owed' = IF pc \in SetSteps THEN owed ELSE NoLink
  /\ UNCHANGED <<host, link, cfg, active_link>>

Crash ==
  /\ "crash" \in Faults
  /\ Return("none")
  /\ active_link' = NoLink /\ owed' = NoLink /\ torn' = IfMidway
  /\ UNCHANGED <<host, resolved, link, cfg>>

(* The kernel. *)

LinkUp(i) ==
  /\ pc = "idle" \/ "links" \in Faults
  /\ ifindex[i] = NoLink /\ lastIndex < MaxIndex
  /\ lastIndex' = lastIndex + 1
  /\ ifindex' = [ifindex EXCEPT ![i] = lastIndex + 1]
  /\ UNCHANGED <<resolved, pc, link, cfg, active_link, ret, owed, torn>>

LinkDown(i) ==
  /\ "links" \in Faults /\ ifindex[i] # NoLink
  /\ ifindex' = [ifindex EXCEPT ![i] = NoLink]
  /\ dns' = [dns EXCEPT ![ifindex[i]] = NoConfig]
  /\ domains' = [domains EXCEPT ![ifindex[i]] = NoConfig]
  /\ torn' = torn \ {ifindex[i]}
  /\ UNCHANGED <<lastIndex, pc, link, cfg, active_link, ret, owed>>

Set == SetLink \/ SetServers \/ SetFinish \/ SetGone

Reset ==
  \/ ResetNoop \/ ResetBegin \/ ResetLink \/ ResetLinkGone
  \/ ResetServers \/ ResetFinish \/ ResetGone

Next ==
  \/ Set \/ Reset \/ CallFails \/ Crash
  \/ \E i \in Interfaces :
       \/ LinkUp(i) \/ LinkDown(i) \/ SetNoInterface(i)
       \/ \E c \in Configs : SetBegin(i, c)

Spec == Init /\ [][Next]_vars
-----------------------------------------------------------------------------
(***************************************************************************)
(* Properties.                                                             *)
(***************************************************************************)

\* When set() returns Ok its link, unless it is gone by then, has the servers and the
\* domains of one and the same config, and the reset() to come will find it.
SetOkIsWhole ==
  ret = "setOk" /\ link \in Live =>
    dns[link] = cfg /\ domains[link] = cfg /\ active_link = link

\* Servers without routing domains make a link a candidate for every query.  The
\* link the backend holds to be configured is never left like that between calls,
\* whatever call failed or was abandoned before.
ActiveLinkRoutes ==
  pc = "idle" /\ active_link \in Live =>
    dns[active_link] # NoConfig /\ domains[active_link] # NoConfig

\* What a set() that returned Ok did, a reset() that returns Ok has undone, whatever
\* failed in between, unless that was a reset().
ResetUndoesSet ==
  ret = "resetOk" /\ owed # NoLink => dns[owed] = NoConfig /\ domains[owed] = NoConfig

\* The trait's words (lib.rs): "Undoes whatever the last set() did.  A no-op if set()
\* was never called or has already been undone."
ResetOkMeansUndone ==
  ret = "resetOk" => \A l \in Live : dns[l] = NoConfig /\ domains[l] = NoConfig

\* The trait's promise, link by link: resolved has nothing of ours on it, or one config
\* whole.  Between its two calls to resolved a set() or a reset() counts as done, and a
\* link one of them has left torn is excused for its domains until it is whole again.
Shown(l) ==
  <<dns[l], IF (Midway /\ link = l) \/ l \in torn THEN dns[l] ELSE domains[l]>>

Route(l) == INSTANCE DnsRoute WITH
  HostViews <- {<<NoConfig, NoConfig>>},
  View <- LAMBDA c, h : <<c, c>>,
  host <- <<NoConfig, NoConfig>>,
  view <- Shown(l)

\* \A l \in Links : Route(l)!Spec, with the quantifier inside the box.
ImplementsDnsRoute ==
  /\ \A l \in Links : Route(l)!Init
  /\ [][\A l \in Links : [Route(l)!Next]_(Route(l)!vars)]_vars
=============================================================================
