------------------------- MODULE MCStaticResolvConf -------------------------
(***************************************************************************)
(* Small instances of StaticResolvConf for TLC: two addresses the host     *)
(* uses and one of ours, two configs that differ in servers and in kind,   *)
(* and three texts of other software: an empty one (an existing file of    *)
(* length zero), one with a resolver, one with two and other directives.   *)
(***************************************************************************)
EXTENDS StaticResolvConf

CONSTANTS Vpn, Lan, Isp

MCAddrs == {Vpn, Lan, Isp}

MCConfigs ==
  {[servers |-> <<Vpn>>, routing |-> TRUE],
   [servers |-> <<Vpn, Lan>>, routing |-> FALSE]}

MCHostTexts ==
  {EmptyText,
   [owner |-> NoOwner, nameservers |-> <<Lan>>, rest |-> FALSE],
   [owner |-> NoOwner, nameservers |-> <<Isp, Lan>>, rest |-> TRUE]}

\* Two owners feed each other's rendered text back as "original": bound its length.
BoundedTexts ==
  \A f \in {file, backup} : Len(Content(f).nameservers) <= 4
=============================================================================
