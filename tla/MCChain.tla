------------------------------ MODULE MCChain ------------------------------
(***************************************************************************)
(* Hosts to probe: resolv.conf as resolved (in both forms), Debian's       *)
(* resolvconf and anybody else leave it, or linked to a copy of what       *)
(* resolved once wrote; a PATH without the binary, with it behind a        *)
(* directory of that name, and with the shim before it; the knob left      *)
(* alone, turned off, on again, or cleared.                                *)
(***************************************************************************)
EXTENDS Chain

MCLinks ==
  {NotALink, ResolvconfLink, <<"..", "run", "systemd", "resolve", "stub-resolv.conf">>,
   <<"run", "systemd", "resolve", "resolv.conf">>,
   <<"root", "old-systemd", "resolve", "old-resolv.conf">>}

MCPaths == {<<"none", "none">>, <<"directory", "real">>, <<"shim", "real">>}

MCDefaults == {<<>>, <<"no">>, <<"no", "yes">>, <<"no", "">>}

\* Hosts whose link leads to resolved if it looks like it, without resolvconf(8).
PlainLinks == {target \in MCLinks : resolv_conf_points_at_resolved(target) => LeadsToResolved(target)}
NoPaths == {<<>>}
NoDefaults == {<<>>}

\* A variable that is not set takes the branch of one that names no backend.
MCOverrides == Backends \cup {"not-a-backend"}
=============================================================================
