------------------------------ MODULE DnsRoute ------------------------------
(***************************************************************************)
(* What the DnsRoute trait (crates/dns-host-config/src/lib.rs) promises of *)
(* the host's resolver configuration, seen from outside: at every moment   *)
(* it is either what the rest of the host put there, untouched, or the     *)
(* view set() builds from one config and that text as it is now.  A set()  *)
(* replaces the previous one, a reset() undoes whatever the last did, each *)
(* in one step; nothing else ever shows.                                   *)
(***************************************************************************)
CONSTANTS
  Configs,     \* what callers may pass to set()
  HostViews,   \* what the rest of the host may configure
  View(_, _)   \* the view set() builds from a config and the host's text

VARIABLES
  host,   \* what the rest of the host configured last
  view    \* what the stub resolver reads

Init == host \in HostViews /\ view = host

Set == \E c \in Configs : view' = View(c, host) /\ UNCHANGED host

Reset == view' = host /\ UNCHANGED host

HostChange == host' \in HostViews /\ view' = host'

Next == Set \/ Reset \/ HostChange

vars == <<host, view>>

Spec == Init /\ [][Next]_vars
=============================================================================
