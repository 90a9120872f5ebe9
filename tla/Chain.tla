------------------------------- MODULE Chain -------------------------------
(***************************************************************************)
(* LinuxDnsRoute (crates/dns-host-config/src/linux/chain.rs): probe() asks *)
(* the host which backend to use, one look at a time, and set() and        *)
(* reset() go to the one it picked.  The looks are those of the backends'  *)
(* own probes (systemd_resolved.rs, resolvconf.rs).                        *)
(*                                                                         *)
(* The host is another actor: which program owns resolv.conf, whether the  *)
(* system bus is up and resolved answers on it, what is on PATH and how    *)
(* resolvconf(8) is configured may change between any two looks, and       *)
(* between a look and a call.  A call is one step here, for an interface   *)
(* that is there; what can happen inside it, and interfaces that come and  *)
(* go, are in the backends' modules.                                       *)
(***************************************************************************)
EXTENDS Naturals, Sequences

CONSTANTS
  Interfaces,   \* the interfaces callers pass to set()
  NoInterface,  \* none of them
  Configs,      \* the DnsRouteConfigs callers pass to set()
  Loopback,     \* those whose first server is a loopback address
  NoConfig,     \* nothing of ours
  Links,        \* what /etc/resolv.conf may be: the components of a symlink's target
  Paths,        \* what the directories of PATH may hold under the name resolvconf
  Defaults,     \* the values /etc/default/resolvconf may assign to the knob, in order
  Overrides,    \* values of DNS_HOST_CONFIG_BACKEND
  Changes       \* does the host change once the first probe() has begun?

Backends == {"systemd-resolved", "resolvconf", "static-resolv-conf"}

\* Not a symlink: a plain file, or none.
NotALink == <<>>
\* Where Debian's resolvconf keeps the file it generates.
ResolvconfLink == <<"run", "resolvconf", "resolv.conf">>

Entries == {"none", "directory", "shim", "real"}

ASSUME ConstantsAssumption ==
  /\ NoInterface \notin Interfaces
  /\ Loopback \subseteq Configs /\ NoConfig \notin Configs
  /\ Links \subseteq Seq(STRING) /\ NotALink \in Links
  /\ Paths \subseteq Seq(Entries)
  /\ Defaults \subseteq Seq(STRING)
  /\ Overrides \subseteq STRING
  /\ Changes \in BOOLEAN

VARIABLES
  resolv_conf, \* the target of /etc/resolv.conf, or NotALink
  bus,         \* can the system bus be connected to?
  resolved,    \* does resolved run, and answer those who are on the bus?
  path,        \* PATH, as the entries named resolvconf in its directories
  libc,        \* does the knob occur in resolvconf's libc updater (Debian's)?
  defaults,    \* the knob's assignments in /etc/default/resolvconf
  links,       \* the configs resolved holds of ours, per interface
  record,      \* the config resolvconf(8) holds of ours, under the name of the owner
  text,        \* the config that the text of resolv.conf is made from, if it is ours
  override,    \* the environment variable
  pc,          \* "down" | "ready", or the look probe() takes next
  named,       \* is it probe_named(), for the override?
  binary,      \* the directory of PATH find_in_path() has found, or 0
  backend,     \* LinuxDnsRoute::backend, or "none"
  active,      \* does the backend know of something to undo?  (not systemd-resolved)
  active_link, \* the interface systemd-resolved will undo, or NoInterface
  cfg, ret,    \* result of the last call, up to the next change of the host, and its
               \* config if the result is "setOk"
  last,        \* history: the interface of this instance's last set() that returned Ok
  changed,     \* history: "never", or the host last changed "before" the last probe()
               \* began or "since"
  steady       \* history: the backends before the static one that were usable when the
               \* probe() under way began, and whose part of the host nobody touched since

services == <<bus, resolved>>
host == <<resolv_conf, services, path, libc, defaults>>
ours == <<links, record, text>>
probing == <<pc, named, binary, backend>>
known == <<active, active_link>>
call == <<cfg, ret, last>>
history == <<changed, steady>>
vars == <<host, ours, override, probing, known, call, history>>

Looks == {"link", "bus", "path", "shim", "libc", "defaults"}

TypeOK ==
  /\ resolv_conf \in Links \cup {ResolvconfLink} /\ path \in Paths
  /\ bus \in BOOLEAN /\ resolved \in BOOLEAN
  /\ libc \in BOOLEAN /\ defaults \in Defaults
  /\ links \in [Interfaces -> Configs \cup {NoConfig}]
  /\ record \in Configs \cup {NoConfig} /\ text \in Configs \cup {NoConfig}
  /\ override \in Overrides
  /\ pc \in {"down", "ready"} \cup Looks
  /\ named \in BOOLEAN
  /\ binary \in Nat
  /\ pc \in {"shim", "libc", "defaults"} \/ backend = "resolvconf" => binary > 0
  /\ backend \in Backends \cup {"none"} /\ (pc = "ready" <=> backend # "none")
  /\ active \in BOOLEAN /\ (active => backend \in {"resolvconf", "static-resolv-conf"})
  /\ active_link \in Interfaces \cup {NoInterface}
  /\ active_link # NoInterface => backend = "systemd-resolved"
  /\ cfg \in Configs \cup {NoConfig} /\ (ret = "setOk" <=> cfg # NoConfig)
  /\ ret \in {"none", "setOk", "setErr", "resetOk", "resetErr"}
  /\ last \in Interfaces \cup {NoInterface}
  /\ changed \in {"never", "before", "since"}
  /\ steady \subseteq {"systemd-resolved", "resolvconf"} /\ (pc \in Looks \/ steady = {})
-----------------------------------------------------------------------------
(* What a probe makes of what it reads. *)

\* The components that end in those words, of the targets this model is run on.
EndInSystemd == {"systemd", "old-systemd"}
EndInResolvConf == {"resolv.conf", "stub-resolv.conf", "old-resolv.conf"}

\* The target contains systemd/resolve/ and ends in resolv.conf.
resolv_conf_points_at_resolved(target) ==
  /\ \E i \in 1..(Len(target) - 2) : target[i] \in EndInSystemd /\ target[i + 1] = "resolve"
  /\ target[Len(target)] \in EndInResolvConf

IsFile(entry) == entry \in {"shim", "real"}

find_in_path(dirs) ==
  IF \E i \in DOMAIN dirs : IsFile(dirs[i])
  THEN CHOOSE i \in DOMAIN dirs : IsFile(dirs[i]) /\ \A j \in 1..(i - 1) : ~IsFile(dirs[j])
  ELSE 0

points_at_resolvectl(entry) == entry = "shim"

Affirmative == {"y", "Y", "yes", "YES", "Yes"}

\* An assignment of nothing.
Unset == ""

Given(values) == {i \in DOMAIN values : values[i] # Unset}

\* Slip: the first assignment decides.
truncation_enabledFirst(values) ==
  \/ Given(values) = {}
  \/ \E i \in Given(values) :
       values[i] \in Affirmative /\ \A j \in Given(values) : i <= j

\* On, unless the last assignment that is not empty says otherwise.
truncation_enabled(values) ==
  \/ Given(values) = {}
  \/ \E i \in Given(values) :
       values[i] \in Affirmative /\ \A j \in Given(values) : j <= i
-----------------------------------------------------------------------------
(* The host. *)

\* The files that resolved generates, which the test above is meant to recognise.
ResolvedFiles ==
  {<<"run", "systemd", "resolve", "stub-resolv.conf">>, <<"run", "systemd", "resolve", "resolv.conf">>}

\* Is one of them what the link leads to, from / or from /etc?
LeadsToResolved(target) ==
  target \in ResolvedFiles \cup {<<"..">> \o file : file \in ResolvedFiles}

\* resolved answers a call only if the bus is there to carry it.
Answers == bus /\ resolved

\* Does the manager generate what /etc/resolv.conf leads to?  Debian's resolvconf keeps
\* a file of its own; openresolv, which has no such updater, writes /etc/resolv.conf.
Generates(b) ==
  CASE b = "systemd-resolved" -> LeadsToResolved(resolv_conf)
    [] b = "resolvconf" -> ~libc \/ resolv_conf = ResolvconfLink

\* What the updater makes of the knob: the last assignment counts, empty is unset.
Truncates ==
  libc /\ (defaults = <<>> \/ defaults[Len(defaults)] \in Affirmative \cup {Unset})

\* The stub resolver reads resolv.conf, and is sent to resolved when that is what the
\* file leads to and nobody has written over it.
InEffect(c) ==
  \/ text = c
  \/ /\ text = NoConfig
     /\ \/ /\ resolved /\ LeadsToResolved(resolv_conf)
           /\ \E i \in Interfaces : links[i] = c
        \/ resolv_conf = ResolvconfLink /\ record = c

\* What a backend's probe() tests.  It only opens the bus and asks nothing of resolved;
\* the first file named resolvconf has to be the real one and not to cut the list.
Usable(b) ==
  CASE b = "systemd-resolved" -> bus /\ resolv_conf_points_at_resolved(resolv_conf)
    [] b = "resolvconf" ->
         /\ \E i \in DOMAIN path :
              path[i] = "real" /\ \A j \in 1..(i - 1) : path[j] \in {"none", "directory"}
         /\ ~Truncates
    [] b = "static-resolv-conf" -> TRUE

Init ==
  /\ resolv_conf \in Links /\ bus \in BOOLEAN /\ resolved \in BOOLEAN /\ path \in Paths
  /\ libc \in BOOLEAN /\ defaults \in Defaults
  /\ links = [i \in Interfaces |-> NoConfig] /\ record = NoConfig /\ text = NoConfig
  /\ override \in Overrides
  /\ pc = "down" /\ named = FALSE /\ binary = 0 /\ backend = "none"
  /\ active = FALSE /\ active_link = NoInterface
  /\ cfg = NoConfig /\ ret = "none" /\ last = NoInterface
  /\ changed = "never" /\ steady = {}

\* Another program takes resolv.conf over, or writes it anew.
RewriteResolvConf ==
  /\ resolv_conf' \in Links
  /\ text' = NoConfig
  /\ steady' = steady \ {"systemd-resolved"}
  /\ UNCHANGED <<services, path, libc, defaults>>

\* The bus comes up, and stays for as long as the host does.
BusComesUp ==
  /\ ~bus /\ bus' = TRUE
  /\ UNCHANGED <<resolv_conf, resolved, path, libc, defaults, text, steady>>

\* resolved is stopped, or starts and writes its own files anew; what it was told of
\* links outlives it.
ResolvedChanges ==
  /\ resolved' = ~resolved
  /\ text' = IF resolved' /\ Generates("systemd-resolved") THEN NoConfig ELSE text
  /\ UNCHANGED <<resolv_conf, bus, path, libc, defaults, steady>>

ResolvconfChanges ==
  /\ \/ path' \in Paths /\ UNCHANGED <<libc, defaults>>
     \/ libc' = ~libc /\ UNCHANGED <<path, defaults>>
     \/ defaults' \in Defaults /\ UNCHANGED <<path, libc>>
  /\ steady' = steady \ {"resolvconf"}
  /\ UNCHANGED <<resolv_conf, services, text>>

HostChanges ==
  /\ Changes
  /\ RewriteResolvConf \/ BusComesUp \/ ResolvedChanges \/ ResolvconfChanges
  /\ changed' = IF pc = "down" THEN "before" ELSE "since"
  /\ ret' = "none" /\ cfg' = NoConfig
  /\ UNCHANGED <<links, record, override, probing, known, last>>
-----------------------------------------------------------------------------
(* probe() *)

Look(next) == pc' = next /\ UNCHANGED <<backend, known, steady>>

\* StaticResolvConf::new() finds what an instance before it has left.
Pick(b) ==
  /\ backend' = b /\ pc' = "ready"
  /\ active' = (b = "static-resolv-conf" /\ text # NoConfig)
  /\ active_link' = NoInterface
  /\ steady' = {}

\* Slip: an override that is of no use is tried again.
NotUsableAgain(b) ==
  /\ named' = named
  /\ IF named THEN Look(IF b = "resolvconf" THEN "path" ELSE "link")
     ELSE IF b = "systemd-resolved" THEN Look("path")
     ELSE Pick("static-resolv-conf")

\* Slip: an override that is of no use leaves the file.
NotUsableGivesUp(b) ==
  /\ named' = FALSE
  /\ IF ~named /\ b = "systemd-resolved" THEN Look("path") ELSE Pick("static-resolv-conf")

\* The override falls back to detection, and that to the next backend.
NotUsable(b) ==
  /\ named' = FALSE
  /\ IF named THEN Look("link")
     ELSE IF b = "systemd-resolved" THEN Look("path")
     ELSE Pick("static-resolv-conf")

\* The look a probe() begins with.
FirstLook(look) ==
  /\ pc' = look /\ UNCHANGED <<backend, known>>
  /\ steady' = {b \in {"systemd-resolved", "resolvconf"} : Usable(b)}

Begin ==
  /\ pc = "down"
  /\ named' = (override \in Backends)
  /\ CASE override = "resolvconf" -> FirstLook("path")
       [] override = "static-resolv-conf" -> Pick("static-resolv-conf")
       [] OTHER -> FirstLook("link")
  /\ changed' = IF changed = "since" THEN "before" ELSE changed
  /\ UNCHANGED <<host, ours, override, binary, call>>

\* Slip of LookAtLink: that resolved runs is enough.
LookAtLinkNot ==
  /\ pc = "link"
  /\ Look("bus") /\ named' = named
  /\ UNCHANGED <<host, ours, override, binary, call, changed>>

LookAtLink ==
  /\ pc = "link"
  /\ IF resolv_conf_points_at_resolved(resolv_conf) THEN Look("bus") /\ named' = named
     ELSE NotUsable("systemd-resolved")
  /\ UNCHANGED <<host, ours, override, binary, call, changed>>

\* Connection::system() opens the bus; whether resolved is on it nobody asks.
ConnectToBus ==
  /\ pc = "bus"
  /\ IF bus THEN Pick("systemd-resolved") /\ named' = named
     ELSE NotUsable("systemd-resolved")
  /\ UNCHANGED <<host, ours, override, binary, call, changed>>

\* Slip of FindBinary: one is expected to be there.
FindBinaryUnwrap ==
  /\ pc = "path"
  /\ binary' = find_in_path(path)
  /\ Look("shim") /\ named' = named
  /\ UNCHANGED <<host, ours, override, call, changed>>

FindBinary ==
  /\ pc = "path"
  /\ binary' = find_in_path(path)
  /\ IF binary' > 0 THEN Look("shim") /\ named' = named ELSE NotUsable("resolvconf")
  /\ UNCHANGED <<host, ours, override, call, changed>>

\* Slip of LookAtShim: the shim will do.
LookAtShimNot ==
  /\ pc = "shim"
  /\ Look("libc") /\ named' = named
  /\ UNCHANGED <<host, ours, override, binary, call, changed>>

LookAtShim ==
  /\ pc = "shim"
  /\ IF points_at_resolvectl(path[binary]) THEN NotUsable("resolvconf")
     ELSE Look("libc") /\ named' = named
  /\ UNCHANGED <<host, ours, override, binary, call, changed>>

\* truncates_at() reads two files, the second only if the first has the knob.
LookAtUpdater ==
  /\ pc = "libc"
  /\ IF libc THEN Look("defaults") ELSE Pick("resolvconf")
  /\ UNCHANGED <<host, ours, override, named, binary, call, changed>>

LookAtDefaults ==
  /\ pc = "defaults"
  /\ IF truncation_enabled(defaults) THEN NotUsable("resolvconf")
     ELSE Pick("resolvconf") /\ named' = named
  /\ UNCHANGED <<host, ours, override, binary, call, changed>>

Probe ==
  \/ LookAtLink \/ ConnectToBus
  \/ FindBinary \/ LookAtShim \/ LookAtUpdater \/ LookAtDefaults
-----------------------------------------------------------------------------
(* set() and reset() *)

\* A manager that is told something writes the file it generates anew, over whatever
\* is in it.
Anew(b) == text' = IF Generates(b) THEN NoConfig ELSE text

\* resolved is told of one link.
TellResolved(i, c) ==
  /\ links' = [links EXCEPT ![i] = c] /\ Anew("systemd-resolved")
  /\ UNCHANGED <<record, resolv_conf>>

\* resolvconf(8) is told under the name of the owner, and of no interface.
TellResolvconf(c) ==
  /\ record' = c /\ Anew("resolvconf")
  /\ resolv_conf' = IF Generates("resolvconf") THEN ResolvconfLink ELSE resolv_conf
  /\ UNCHANGED links

Write(c) == text' = c /\ UNCHANGED <<resolv_conf, links, record>>

\* The file the backend was given may have gone from PATH, or have become the shim,
\* which knows no interface of that name.
Runs == path[binary] = "real"

SetFails ==
  /\ \/ backend = "systemd-resolved" /\ ~Answers
     \/ backend = "resolvconf" /\ ~Runs
  /\ ret' = "setErr" /\ cfg' = NoConfig
  /\ UNCHANGED <<ours, resolv_conf, known, last>>

\* Slip of Set: the link of the first set() stays the one to undo.
SetFirstLink(i, c) ==
  /\ pc = "ready"
  /\ \/ /\ \/ /\ backend = "systemd-resolved" /\ Answers /\ TellResolved(i, c)
              /\ active_link' = (IF active_link = NoInterface THEN i ELSE active_link)
              /\ UNCHANGED active
           \/ /\ \/ backend = "resolvconf" /\ Runs /\ TellResolvconf(c)
                 \/ backend = "static-resolv-conf" /\ Write(c)
              /\ active' = TRUE /\ UNCHANGED active_link
        /\ ret' = "setOk" /\ cfg' = c /\ last' = i
     \/ SetFails
  /\ UNCHANGED <<services, path, libc, defaults, override, probing, history>>

\* resolved is told of the interface, and the backend remembers this one and no other;
\* the other two backends have no use for it.
Set(i, c) ==
  /\ pc = "ready"
  /\ \/ /\ \/ /\ backend = "systemd-resolved" /\ Answers /\ TellResolved(i, c)
              /\ active_link' = i /\ UNCHANGED active
           \/ /\ \/ backend = "resolvconf" /\ Runs /\ TellResolvconf(c)
                 \/ backend = "static-resolv-conf" /\ Write(c)
              /\ active' = TRUE /\ UNCHANGED active_link
        /\ ret' = "setOk" /\ cfg' = c /\ last' = i
     \/ SetFails
  /\ UNCHANGED <<services, path, libc, defaults, override, probing, history>>

Undoes == active \/ active_link # NoInterface

ResetNoop ==
  /\ pc = "ready" /\ ~Undoes
  /\ ret' = "resetOk" /\ cfg' = NoConfig
  /\ UNCHANGED <<host, ours, override, probing, known, last, history>>

\* The remembered link is undone, and no other.  An error of resolved's, or none to
\* answer, passes for a link that is gone.
Reset ==
  /\ pc = "ready" /\ Undoes
  /\ active' = FALSE /\ active_link' = NoInterface /\ cfg' = NoConfig
  /\ \/ /\ \/ backend = "systemd-resolved" /\ Answers /\ TellResolved(active_link, NoConfig)
           \/ backend = "systemd-resolved" /\ ~Answers /\ UNCHANGED <<ours, resolv_conf>>
           \/ backend = "resolvconf" /\ Runs /\ TellResolvconf(NoConfig)
           \/ backend = "static-resolv-conf" /\ Write(NoConfig)
        /\ ret' = "resetOk"
     \/ /\ backend = "resolvconf" /\ ~Runs
        /\ ret' = "resetErr"
        /\ UNCHANGED <<ours, resolv_conf>>
  /\ UNCHANGED <<services, path, libc, defaults, override, probing, last, history>>

\* The process dies, or drops the instance without a reset().
Crash ==
  /\ pc # "down"
  /\ pc' = "down" /\ named' = FALSE /\ binary' = 0 /\ backend' = "none"
  /\ active' = FALSE /\ active_link' = NoInterface
  /\ cfg' = NoConfig /\ ret' = "none" /\ last' = NoInterface
  /\ changed' = IF changed = "since" THEN "before" ELSE changed
  /\ steady' = {}
  /\ UNCHANGED <<host, ours, override>>

Next ==
  \/ Begin \/ Probe
  \/ \E i \in Interfaces, c \in Configs : Set(i, c)
  \/ ResetNoop \/ Reset
  \/ Crash \/ HostChanges

Spec == Init /\ [][Next]_vars

\* The runtime goes on with a probe() that has begun: none of its looks waits for long.
FairSpec == Spec /\ WF_vars(Probe)
-----------------------------------------------------------------------------
(***************************************************************************)
(* Properties.                                                             *)
(***************************************************************************)

\* An empty assignment after another is misread: K=no, K= counts as off.
KnobIsPlain == \A i \in 2..Len(defaults) : defaults[i] # Unset

Wanted ==
  LET order == <<"systemd-resolved", "resolvconf", "static-resolv-conf">>
      first == CHOOSE i \in 1..3 : Usable(order[i]) /\ \A j \in 1..(i - 1) : ~Usable(order[j])
  IN  IF override \in Backends /\ Usable(override) THEN override ELSE order[first]

\* What probe() picks is the override if that is usable, and else the first usable
\* backend in the documented order (chain.rs: "Priority: `systemd-resolved`, then
\* `resolvconf`, then a direct edit"), on a host that did not change since it began;
\* usable is what the probes of the backends test, not that its calls will work.
\* What calls and earlier instances have done to the host is no excuse.
PicksByPriority ==
  pc = "ready" /\ changed # "since" /\ KnobIsPlain => backend = Wanted

Rank(b) ==
  CASE b = override -> 0
    [] b # override /\ b = "systemd-resolved" -> 1
    [] b # override /\ b = "resolvconf" -> 2
    [] b # override /\ b = "static-resolv-conf" -> 3

\* On a host that changes while probe() looks at it, what it picks comes after no backend
\* that was usable when it began and that nobody has meddled with meanwhile: a change of
\* what one look reads never leads past what the others would have found.
NeverPassedOver ==
  [][pc' = "ready" /\ pc \in Looks => \A b \in steady : Rank(backend') <= Rank(b)]_vars

\* A set() that returns Ok decides what the stub resolver uses (lib.rs: "constructing
\* a backend fails if using it wouldn't actually take effect").
SetOkTakesEffect == ret = "setOk" => InEffect(cfg)

\* resolv.conf is a link that passes for one of resolved's.
Misleading == resolv_conf_points_at_resolved(resolv_conf) /\ ~LeadsToResolved(resolv_conf)

\* It does on a host that has not changed since probe() began, unless resolv.conf only
\* looks like resolved's, or the backend is resolvconf and resolv.conf is not its file,
\* which probe() never looks at.
SetOkTakesEffectAsProbed ==
  /\ ret = "setOk" /\ changed # "since"
  /\ backend = "systemd-resolved" => ~Misleading
  /\ backend = "resolvconf" => Generates(backend)
  => InEffect(cfg)

\* The host's own resolvers stay in the list behind ours: a resolvconf that cuts the
\* list after a loopback address is never the one in use on such a host.
OthersReachable ==
  ret = "setOk" /\ changed # "since" /\ KnobIsPlain /\ cfg \in Loopback =>
    ~(backend = "resolvconf" /\ Truncates)

\* On a host that does not change, a process that dies with a config in place comes
\* back to the same backend, so that its next set() and reset() leave nothing of ours in
\* resolv.conf or with resolvconf, and with resolved nothing on the interface of that
\* set(), whoever put it there.  Other interfaces keep what an earlier set() gave them.
NothingLeftBehind ==
  ret = "resetOk" /\ last # NoInterface /\ changed = "never" =>
    text = NoConfig /\ record = NoConfig /\ links[last] = NoConfig

\* probe() comes to an end, whatever the override names and however the host changes
\* meanwhile (chain.rs: "never fails to produce something"), unless the process dies.
ProbeReturns == pc \in Looks ~> pc \in {"ready", "down"}
=============================================================================
