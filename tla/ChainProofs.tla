----------------------------- MODULE ChainProofs -----------------------------
(***************************************************************************)
(* Theorems about Chain, for any configs, hosts and overrides.             *)
(***************************************************************************)
EXTENDS Chain, NaturalsInduction, WellFoundedInduction, TLAPS

-----------------------------------------------------------------------------
(* What a probe makes of what it reads. *)

LEMMA Least ==
  ASSUME NEW T, T \subseteq Nat, T # {}
  PROVE  \E m \in T : \A n \in T : m <= n
<1>1. \E m \in T : \A n \in T : ~ (<<n, m>> \in OpToRel(<, Nat))
  BY WFMin, NatLessThanWellFounded, Zenon
<1>2. \A m, n \in T : ~ (<<n, m>> \in OpToRel(<, Nat)) => m <= n
  BY DEF OpToRel
<1> QED  BY <1>1, <1>2

\* find_in_path() finds the first file, if there is one.
LEMMA FirstFile ==
  ASSUME NEW dirs \in Seq(Entries)
  PROVE  LET i == find_in_path(dirs) IN
         /\ i \in Nat
         /\ i > 0 <=> \E j \in DOMAIN dirs : IsFile(dirs[j])
         /\ i > 0 => /\ i \in DOMAIN dirs /\ IsFile(dirs[i])
                     /\ \A j \in 1..(i - 1) : ~IsFile(dirs[j])
<1> DEFINE T == {j \in DOMAIN dirs : IsFile(dirs[j])}
           First(i) == i \in DOMAIN dirs /\ IsFile(dirs[i]) /\ \A j \in 1..(i - 1) : ~IsFile(dirs[j])
<1>1. DOMAIN dirs = 1..Len(dirs) /\ Len(dirs) \in Nat
  OBVIOUS
<1>2. CASE T = {}
  BY <1>2 DEF find_in_path
<1>3. CASE T # {}
  <2>0. T \subseteq Nat
    BY <1>1
  <2> HIDE DEF T
  <2>a. \E m \in T : \A n \in T : m <= n
    BY <1>3, <2>0, Least
  <2> USE DEF T
  <2>1. PICK m \in T : \A n \in T : m <= n
    BY <2>a
  <2>2. First(m)
    BY <2>1, <1>1
  <2>3. find_in_path(dirs) = CHOOSE i \in DOMAIN dirs : IsFile(dirs[i]) /\ \A j \in 1..(i - 1) : ~IsFile(dirs[j])
    BY <1>3 DEF find_in_path
  <2>4. First(find_in_path(dirs))
    BY <2>2, <2>3
  <2> QED  BY <2>4, <1>1
<1> QED  BY <1>2, <1>3
-----------------------------------------------------------------------------
(* Types. *)

\* No call has returned before an instance is there.
Typed == TypeOK /\ (pc # "ready" => ret = "none")

LEMMA TypeInit == Init => Typed
<1> SUFFICES ASSUME Init PROVE Typed
  OBVIOUS
<1> USE DEF Init
<1>1. links \in [Interfaces -> Configs \cup {NoConfig}]
  OBVIOUS
<1>2. /\ resolv_conf \in Links /\ path \in Paths /\ defaults \in Defaults
      /\ bus \in BOOLEAN /\ resolved \in BOOLEAN /\ libc \in BOOLEAN /\ override \in Overrides
  OBVIOUS
<1> QED  BY <1>1, <1>2 DEF Typed, TypeOK

\* What a look comes to: another look, or an instance.
LEMMA PickType ==
  ASSUME NEW b \in Backends, Pick(b)
  PROVE  /\ backend' = b /\ pc' = "ready" /\ active' \in BOOLEAN
         /\ active_link' = NoInterface /\ steady' = {}
BY DEF Pick

LEMMA NotUsableType ==
  ASSUME Typed, NEW b \in {"systemd-resolved", "resolvconf"}, NotUsable(b)
  PROVE  /\ named' = FALSE
         /\ \/ pc' \in {"link", "path"} /\ UNCHANGED <<backend, active, active_link, steady>>
            \/ /\ backend' = "static-resolv-conf" /\ pc' = "ready" /\ active' \in BOOLEAN
               /\ active_link' = NoInterface /\ steady' = {}
BY DEF NotUsable, Look, Pick, known

LEMMA TypeNext == Typed /\ [Next]_vars => Typed'
<1> SUFFICES ASSUME Typed, [Next]_vars PROVE Typed'
  OBVIOUS
<1> USE DEF Typed, TypeOK, host, services, ours, known, call, history, probing, Looks, Backends
<1>a. resolv_conf \in Links \cup {ResolvconfLink} /\ path \in Seq(Entries)
  BY ConstantsAssumption
<1>1. CASE UNCHANGED vars
  BY <1>1 DEF vars
<1>2. CASE Begin
  <2>1. /\ named' \in BOOLEAN
        /\ \/ FirstLook("path") \/ FirstLook("link")
           \/ Pick("static-resolv-conf")
    BY <1>2 DEF Begin
  <2>2. /\ pc = "down" /\ changed' \in {"never", "before", "since"}
        /\ UNCHANGED <<host, ours, override, binary, call>>
    BY <1>2 DEF Begin
  <2>3. \/ /\ pc' \in {"path", "link"} /\ UNCHANGED <<backend, active, active_link>>
           /\ steady' \subseteq {"systemd-resolved", "resolvconf"}
        \/ /\ backend' = "static-resolv-conf" /\ pc' = "ready" /\ active' \in BOOLEAN
           /\ active_link' = NoInterface /\ steady' = {}
    BY <2>1, PickType DEF FirstLook
  <2>4. named' \in BOOLEAN
    BY <2>1
  <2> QED  BY <2>2, <2>3, <2>4
<1> DEFINE LooksOn ==
             /\ pc' \in Looks /\ (pc' \in {"shim", "libc", "defaults"} => binary' > 0)
             /\ UNCHANGED <<backend, active, active_link, steady>>
           Picks ==
             /\ pc' = "ready" /\ active' \in BOOLEAN /\ active_link' = NoInterface /\ steady' = {}
             /\ backend' \in Backends
             /\ backend' = "resolvconf" => binary' > 0
             /\ active' => backend' = "static-resolv-conf"
<1>b. ASSUME pc \in Looks, LooksOn \/ Picks, named' \in BOOLEAN, binary' \in Nat,
             UNCHANGED <<host, ours, override, call, changed>>
      PROVE  Typed'
  <2>1. backend = "none" /\ active = FALSE /\ active_link = NoInterface /\ ret = "none"
    BY <1>b
  <2>2. CASE LooksOn
    BY <1>b, <2>1, <2>2
  <2>3. CASE Picks
    BY <1>b, <2>1, <2>3
  <2> QED  BY <1>b, <2>2, <2>3
<1>c. ASSUME NEW b \in {"systemd-resolved", "resolvconf"}, NotUsable(b), binary' \in Nat
      PROVE  (LooksOn \/ Picks) /\ named' \in BOOLEAN
  <2>1. Pick("static-resolv-conf") => Picks
    BY DEF Pick
  <2>2. ASSUME NEW l \in {"link", "path"}, Look(l) PROVE LooksOn
    BY <2>2 DEF Look
  <2> QED  BY <1>c, <2>1, <2>2 DEF NotUsable
<1>d. ASSUME NEW l \in Looks, Look(l), binary' \in Nat,
             l \in {"shim", "libc", "defaults"} => binary' > 0
      PROVE  LooksOn
  BY <1>d DEF Look
<1>e. ASSUME NEW b \in Backends, Pick(b), b = "resolvconf" => binary' > 0
      PROVE  Picks
  BY <1>e DEF Pick
<1>f. binary \in Nat /\ (pc \in {"shim", "libc", "defaults"} => binary > 0)
  OBVIOUS
<1> HIDE DEF LooksOn, Picks
<1>3. CASE LookAtLink
  <2>1. pc \in Looks /\ binary' \in Nat /\ UNCHANGED <<host, ours, override, call, changed>>
    BY <1>3, <1>f DEF LookAtLink
  <2>2. (LooksOn \/ Picks) /\ named' \in BOOLEAN
    BY <1>3, <1>c, <1>d, <1>e, <1>f, <2>1 DEF LookAtLink
  <2> QED  BY <1>b, <2>1, <2>2
<1>4. CASE ConnectToBus
  <2>1. pc \in Looks /\ binary' \in Nat /\ UNCHANGED <<host, ours, override, call, changed>>
    BY <1>4, <1>f DEF ConnectToBus
  <2>2. (LooksOn \/ Picks) /\ named' \in BOOLEAN
    BY <1>4, <1>c, <1>d, <1>e, <1>f, <2>1 DEF ConnectToBus
  <2> QED  BY <1>b, <2>1, <2>2
<1>5. CASE FindBinary
  <2>1. pc \in Looks /\ binary' \in Nat /\ UNCHANGED <<host, ours, override, call, changed>>
    BY <1>5, <1>a, FirstFile DEF FindBinary
  <2>2. (LooksOn \/ Picks) /\ named' \in BOOLEAN
    BY <1>5, <1>c, <1>d, <1>e, <1>f, <2>1 DEF FindBinary
  <2> QED  BY <1>b, <2>1, <2>2
<1>6. CASE LookAtShim
  <2>1. pc \in Looks /\ binary' \in Nat /\ UNCHANGED <<host, ours, override, call, changed>>
    BY <1>6, <1>f DEF LookAtShim
  <2>2. (LooksOn \/ Picks) /\ named' \in BOOLEAN
    BY <1>6, <1>c, <1>d, <1>e, <1>f, <2>1 DEF LookAtShim
  <2> QED  BY <1>b, <2>1, <2>2
<1>7. CASE LookAtUpdater
  <2>1. pc \in Looks /\ binary' \in Nat /\ UNCHANGED <<host, ours, override, call, changed>>
    BY <1>7, <1>f DEF LookAtUpdater
  <2>2. (LooksOn \/ Picks) /\ named' \in BOOLEAN
    BY <1>7, <1>c, <1>d, <1>e, <1>f, <2>1 DEF LookAtUpdater
  <2> QED  BY <1>b, <2>1, <2>2
<1>8. CASE LookAtDefaults
  <2>1. pc \in Looks /\ binary' \in Nat /\ UNCHANGED <<host, ours, override, call, changed>>
    BY <1>8, <1>f DEF LookAtDefaults
  <2>2. (LooksOn \/ Picks) /\ named' \in BOOLEAN
    BY <1>8, <1>c, <1>d, <1>e, <1>f, <2>1 DEF LookAtDefaults
  <2> QED  BY <1>b, <2>1, <2>2
<1>9. ASSUME NEW i \in Interfaces, NEW c \in Configs, Set(i, c) PROVE Typed'
  <2>1. /\ pc = "ready" /\ backend \in Backends
        /\ UNCHANGED <<bus, resolved, path, libc, defaults, override, probing, history>>
    BY <1>9 DEF Set
  <2>2. CASE ret' = "setErr"
    <3>1. cfg' = NoConfig /\ UNCHANGED <<ours, resolv_conf, known, last>>
      BY <1>9, <2>2 DEF Set, SetFails
    <3> QED  BY <2>1, <2>2, <3>1
  <2>3. CASE ret' = "setOk"
    <3>1. cfg' = c /\ last' = i /\ NoConfig \notin Configs
      BY <1>9, <2>3, ConstantsAssumption DEF Set, SetFails
    <3>2. /\ resolv_conf' \in Links \cup {ResolvconfLink}
          /\ links' \in [Interfaces -> Configs \cup {NoConfig}]
          /\ record' \in Configs \cup {NoConfig} /\ text' \in Configs \cup {NoConfig}
      BY <1>9, <2>3 DEF Set, SetFails, TellResolved, TellResolvconf, Anew, Write
    <3>3. \/ backend = "systemd-resolved" /\ active_link' = i /\ UNCHANGED active
          \/ /\ backend \in {"resolvconf", "static-resolv-conf"}
             /\ active' = TRUE /\ UNCHANGED active_link
      BY <1>9, <2>3 DEF Set, SetFails
    <3>4. active' \in BOOLEAN /\ (active' => backend' \in {"resolvconf", "static-resolv-conf"})
      <4>1. CASE backend = "systemd-resolved" /\ UNCHANGED active
        BY <2>1, <4>1
      <4>2. CASE backend \in {"resolvconf", "static-resolv-conf"} /\ active' = TRUE
        BY <2>1, <4>2
      <4> QED  BY <3>3, <4>1, <4>2
    <3>5. /\ active_link' \in Interfaces \cup {NoInterface}
          /\ active_link' # NoInterface => backend' = "systemd-resolved"
      BY <2>1, <3>3
    <3> QED  BY <2>1, <2>3, <3>1, <3>2, <3>4, <3>5
  <2> QED  BY <1>9, <2>2, <2>3 DEF Set, SetFails
<1>10. CASE ResetNoop
  BY <1>10 DEF ResetNoop
<1>11. CASE Reset
  <2>1. /\ pc = "ready" /\ active' = FALSE /\ active_link' = NoInterface /\ cfg' = NoConfig
        /\ ret' \in {"resetOk", "resetErr"}
        /\ UNCHANGED <<services, path, libc, defaults, override, probing, last, history>>
    BY <1>11 DEF Reset
  <2>2. backend = "systemd-resolved" => active_link \in Interfaces
    BY <1>11 DEF Reset, Undoes
  <2>3. /\ resolv_conf' \in Links \cup {ResolvconfLink}
        /\ links' \in [Interfaces -> Configs \cup {NoConfig}]
        /\ record' \in Configs \cup {NoConfig} /\ text' \in Configs \cup {NoConfig}
    BY <1>11, <2>2 DEF Reset, TellResolved, TellResolvconf, Anew, Write
  <2>4. NoConfig \notin Configs
    BY ConstantsAssumption
  <2> QED  BY <2>1, <2>3, <2>4, ZenonT(60)
<1>12. CASE Crash
  BY <1>12 DEF Crash
<1>13. CASE HostChanges
  <2>1. /\ UNCHANGED <<links, record, override, probing, known, last>>
        /\ changed' \in {"before", "since"} /\ ret' = "none" /\ cfg' = NoConfig
    BY <1>13 DEF HostChanges
  <2>2. /\ resolv_conf' \in Links \cup {ResolvconfLink} /\ path' \in Paths /\ defaults' \in Defaults
        /\ libc' \in BOOLEAN /\ resolved' \in BOOLEAN
    BY <1>13 DEF HostChanges, RewriteResolvConf, BusComesUp, ResolvedChanges, ResolvconfChanges
  <2>3. text' \in {text, NoConfig} /\ (bus' = bus \/ bus' = TRUE)
    BY <1>13 DEF HostChanges, RewriteResolvConf, BusComesUp, ResolvedChanges, ResolvconfChanges
  <2>4. steady' \subseteq steady
    BY <1>13, Zenon
       DEF HostChanges, RewriteResolvConf, BusComesUp, ResolvedChanges, ResolvconfChanges
  <2>5. pc' = pc /\ steady' \subseteq {"systemd-resolved", "resolvconf"} /\ (pc \in Looks \/ steady' = {})
    BY <2>1, <2>4
  <2>6. /\ text' \in Configs \cup {NoConfig} /\ bus' \in BOOLEAN
        /\ active_link' # NoInterface => backend' = "systemd-resolved"
    BY <2>1, <2>3
  <2> QED  BY <2>1, <2>2, <2>5, <2>6
<1> QED
  BY <1>1, <1>2, <1>3, <1>4, <1>5, <1>6, <1>7, <1>8, <1>9, <1>10, <1>11, <1>12, <1>13
     DEF Next, Probe

\* Every variable keeps its type; an instance of resolvconf's has a binary.
THEOREM TypeCorrect == Spec => []TypeOK
<1>1. Typed => TypeOK
  BY DEF Typed
<1> QED  BY <1>1, TypeInit, TypeNext, PTL DEF Spec
-----------------------------------------------------------------------------
(* What probe() is about to pick. *)

ResolvedWorks == resolv_conf_points_at_resolved(resolv_conf) /\ bus

ResolvconfWorks ==
  LET i == find_in_path(path) IN
  i > 0 /\ ~points_at_resolvectl(path[i]) /\ ~(libc /\ truncation_enabled(defaults))

OverrideWorks ==
  \/ override = "systemd-resolved" /\ ResolvedWorks
  \/ override = "resolvconf" /\ ResolvconfWorks
  \/ override = "static-resolv-conf"

\* The backend that a probe() of the host as it is now would come to.
Choice ==
  IF OverrideWorks THEN override
  ELSE IF ResolvedWorks THEN "systemd-resolved"
  ELSE IF ResolvconfWorks THEN "resolvconf" ELSE "static-resolv-conf"

\* On a host that does not change each look is true until the probe ends, and what it
\* picked remains the choice: no call of the backend makes it a different one.
ProbeInv ==
  changed # "since" =>
    /\ backend # "none" => backend = Choice
    /\ pc \in Looks /\ named =>
         override = IF pc \in {"link", "bus"} THEN "systemd-resolved" ELSE "resolvconf"
    /\ pc \in Looks /\ ~named => ~OverrideWorks /\ (pc \in {"link", "bus"} \/ ~ResolvedWorks)
    /\ pc = "bus" => resolv_conf_points_at_resolved(resolv_conf)
    /\ pc \in {"shim", "libc", "defaults"} \/ backend = "resolvconf" => binary = find_in_path(path)
    /\ pc \in {"libc", "defaults"} => ~points_at_resolvectl(path[binary])
    /\ pc = "defaults" => libc

\* What is ours on a host that never changed is with the backend of choice, and an
\* instance that has undone its calls has left none of it there, but on other links.
OursInv ==
  /\ ret = "resetOk" => ~Undoes
  /\ pc # "ready" => last = NoInterface
  /\ active_link \in {NoInterface, last}
  /\ changed = "never" =>
       /\ \A i \in Interfaces : links[i] # NoConfig => Choice = "systemd-resolved"
       /\ record # NoConfig => Choice = "resolvconf"
       /\ text # NoConfig => Choice = "static-resolv-conf"
       /\ active_link # NoInterface => resolved
       /\ last # NoInterface /\ ~Undoes =>
            text = NoConfig /\ record = NoConfig /\ links[last] = NoConfig

IInv == ProbeInv /\ OursInv /\ SetOkTakesEffectAsProbed

LEMMA SameHost ==
  ASSUME UNCHANGED <<resolv_conf, bus, path, libc, defaults, override>>
  PROVE  /\ ResolvedWorks' <=> ResolvedWorks
         /\ ResolvconfWorks' <=> ResolvconfWorks
         /\ OverrideWorks' <=> OverrideWorks
         /\ Choice' = Choice
BY DEF ResolvedWorks, ResolvconfWorks, OverrideWorks, Choice

LEMMA IInit == Init => IInv
BY DEF Init, IInv, ProbeInv, OursInv, Undoes, SetOkTakesEffectAsProbed, Looks

\* The looks of a backend, and what they come to together.
LooksOf(b) ==
  IF b = "systemd-resolved" THEN {"link", "bus"} ELSE {"path", "shim", "libc", "defaults"}
Works(b) == IF b = "systemd-resolved" THEN ResolvedWorks ELSE ResolvconfWorks

\* A backend that does not work is passed over, and one that does is the choice.
LEMMA Refused ==
  ASSUME Typed, ProbeInv, NEW b \in {"systemd-resolved", "resolvconf"},
         pc \in LooksOf(b), ~Works(b), NotUsable(b),
         UNCHANGED <<resolv_conf, bus, path, libc, defaults, override, changed>>
  PROVE  ProbeInv'
<1> SUFFICES ASSUME changed # "since" PROVE ProbeInv'
  BY DEF ProbeInv
<1>a. /\ ResolvedWorks' <=> ResolvedWorks
      /\ OverrideWorks' <=> OverrideWorks
      /\ Choice' = Choice
  BY SameHost
<1>b. pc \in Looks /\ backend = "none" /\ pc # "ready"
  BY DEF LooksOf, Looks, Typed, TypeOK
<1>1. CASE named
  <2>1. override = b
    BY <1>1, <1>b DEF ProbeInv, LooksOf
  <2>2. ~OverrideWorks
    BY <2>1 DEF OverrideWorks, Works
  <2>3. pc' = "link" /\ ~named' /\ backend' = "none"
    BY <1>1, <1>b DEF NotUsable, Look
  <2> QED  BY <1>a, <2>2, <2>3 DEF ProbeInv
<1>2. CASE ~named /\ b = "systemd-resolved"
  <2>1. ~OverrideWorks /\ ~ResolvedWorks
    BY <1>2, <1>b DEF ProbeInv, Works
  <2>2. pc' = "path" /\ ~named' /\ backend' = "none"
    BY <1>2, <1>b DEF NotUsable, Look
  <2> QED  BY <1>a, <2>1, <2>2 DEF ProbeInv
<1>3. CASE ~named /\ b = "resolvconf"
  <2>1. ~OverrideWorks /\ ~ResolvedWorks /\ ~ResolvconfWorks
    BY <1>3, <1>b DEF ProbeInv, Works, LooksOf
  <2>2. pc' = "ready" /\ backend' = "static-resolv-conf"
    BY <1>3 DEF NotUsable, Pick
  <2>3. Choice = "static-resolv-conf"
    BY <2>1 DEF Choice
  <2> QED  BY <1>a, <2>2, <2>3 DEF ProbeInv, Looks
<1> QED  BY <1>1, <1>2, <1>3

LEMMA Accepted ==
  ASSUME Typed, ProbeInv, NEW b \in {"systemd-resolved", "resolvconf"},
         pc \in LooksOf(b), Works(b), Pick(b),
         b = "resolvconf" => binary' = find_in_path(path),
         UNCHANGED <<resolv_conf, bus, path, libc, defaults, override, changed>>
  PROVE  ProbeInv'
<1> SUFFICES ASSUME changed # "since" PROVE ProbeInv'
  BY DEF ProbeInv
<1>1. pc \in Looks
  BY DEF LooksOf, Looks
<1>2. pc' = "ready" /\ backend' = b
  BY DEF Pick
<1>3. Choice = b
  <2>1. CASE named
    <3>1. override = b
      BY <1>1, <2>1 DEF ProbeInv, LooksOf
    <3> QED  BY <3>1 DEF Choice, OverrideWorks, Works
  <2>2. CASE ~named
    <3>1. ~OverrideWorks /\ (b = "resolvconf" => ~ResolvedWorks)
      BY <1>1, <2>2 DEF ProbeInv, LooksOf
    <3> QED  BY <3>1 DEF Choice, Works
  <2> QED  BY <2>1, <2>2
<1> QED  BY <1>2, <1>3, SameHost DEF ProbeInv, Looks

\* A call of the backend of choice leaves the choice what it is: when resolvconf takes
\* resolv.conf over, resolved was not the choice before and is none after.
LEMMA CallsKeepChoice ==
  ASSUME backend = Choice,
         \/ UNCHANGED resolv_conf
         \/ backend = "resolvconf" /\ resolv_conf' = ResolvconfLink,
         UNCHANGED <<bus, path, libc, defaults, override>>
  PROVE  Choice' = Choice
<1>1. CASE UNCHANGED resolv_conf
  BY <1>1, SameHost
<1>2. CASE backend = "resolvconf" /\ resolv_conf' = ResolvconfLink
  <2>1. ~ResolvedWorks'
    BY <1>2 DEF ResolvedWorks, resolv_conf_points_at_resolved, ResolvconfLink
  <2>2. ResolvconfWorks' <=> ResolvconfWorks
    BY DEF ResolvconfWorks
  <2>3. override = "resolvconf" \/ ~OverrideWorks
    BY <1>2 DEF Choice
  <2> QED  BY <1>2, <2>1, <2>2, <2>3 DEF Choice, OverrideWorks
<1> QED  BY <1>1, <1>2

\* What a set() or a reset() may do to the host, whatever comes of it.
LEMMA CallsTouch ==
  ASSUME (\E i \in Interfaces, c \in Configs : Set(i, c)) \/ ResetNoop \/ Reset
  PROVE  /\ pc = "ready"
         /\ UNCHANGED <<bus, resolved, path, libc, defaults, override>>
         /\ UNCHANGED <<pc, named, binary, backend, changed, steady>>
         /\ \/ UNCHANGED resolv_conf
            \/ backend = "resolvconf" /\ resolv_conf' = ResolvconfLink
BY DEF Set, SetFails, ResetNoop, Reset, TellResolved, TellResolvconf, Anew, Write, host, services,
       ours, probing, history

LEMMA ProbeNext == Typed /\ ProbeInv /\ [Next]_vars => ProbeInv'
<1> SUFFICES ASSUME Typed, ProbeInv, [Next]_vars, changed' # "since" PROVE ProbeInv'
  BY DEF ProbeInv
<1> USE DEF host, services, call, probing, history
<1>a. pc \in Looks => backend = "none"
  BY DEF Typed, TypeOK, Looks
<1>1. CASE UNCHANGED vars
  BY <1>1, SameHost DEF vars, ProbeInv
<1>2. CASE Begin
  <2>1. UNCHANGED <<resolv_conf, bus, path, libc, defaults, override>> /\ backend = "none"
    BY <1>2 DEF Begin, Typed, TypeOK
  <2>2. CASE override = "static-resolv-conf"
    <3>1. pc' = "ready" /\ backend' = "static-resolv-conf"
      BY <1>2, <2>2 DEF Begin, Pick, known
    <3>2. Choice = "static-resolv-conf"
      BY <2>2 DEF Choice, OverrideWorks
    <3> QED  BY <2>1, <3>1, <3>2, SameHost DEF ProbeInv, Looks
  <2>3. CASE override \in {"systemd-resolved", "resolvconf"}
    <3>1. pc' = (IF override = "systemd-resolved" THEN "link" ELSE "path")
          /\ named' /\ backend' = "none"
      BY <1>2, <2>1, <2>3 DEF Begin, FirstLook, Backends
    <3> QED  BY <2>1, <2>3, <3>1 DEF ProbeInv
  <2>4. CASE override \notin Backends
    <3>1. pc' = "link" /\ ~named' /\ backend' = "none"
      BY <1>2, <2>1, <2>4 DEF Begin, FirstLook, Backends
    <3>2. ~OverrideWorks
      BY <2>4 DEF OverrideWorks, Backends
    <3> QED  BY <2>1, <3>1, <3>2, SameHost DEF ProbeInv
  <2> QED  BY <2>2, <2>3, <2>4 DEF Backends
<1>3. CASE LookAtLink
  <2>1. CASE resolv_conf_points_at_resolved(resolv_conf)
    BY <1>3, <1>a, <2>1, SameHost DEF LookAtLink, Look, ProbeInv, Looks
  <2>2. CASE ~resolv_conf_points_at_resolved(resolv_conf)
    BY <1>3, <2>2, Refused DEF LookAtLink, LooksOf, Works, ResolvedWorks
  <2> QED  BY <2>1, <2>2
<1>4. CASE ConnectToBus
  <2>1. CASE bus
    BY <1>4, <2>1, Accepted DEF ConnectToBus, LooksOf, Works, ResolvedWorks, ProbeInv
  <2>2. CASE ~bus
    BY <1>4, <2>2, Refused DEF ConnectToBus, LooksOf, Works, ResolvedWorks
  <2> QED  BY <2>1, <2>2
<1>5. CASE FindBinary
  <2>1. CASE binary' > 0
    BY <1>5, <1>a, <2>1, SameHost DEF FindBinary, Look, ProbeInv, Looks
  <2>2. CASE ~(binary' > 0)
    BY <1>5, <2>2, Refused DEF FindBinary, LooksOf, Works, ResolvconfWorks
  <2> QED  BY <2>1, <2>2
<1>6. CASE LookAtShim
  <2>1. CASE points_at_resolvectl(path[binary])
    BY <1>6, <2>1, Refused DEF LookAtShim, LooksOf, Works, ResolvconfWorks, ProbeInv
  <2>2. CASE ~points_at_resolvectl(path[binary])
    BY <1>6, <1>a, <2>2, SameHost DEF LookAtShim, Look, ProbeInv, Looks
  <2> QED  BY <2>1, <2>2
<1>b. pc \in {"libc", "defaults"} => binary > 0
  BY DEF Typed, TypeOK
<1>7. CASE LookAtUpdater
  <2>1. CASE libc
    BY <1>7, <1>a, <2>1, SameHost DEF LookAtUpdater, Look, ProbeInv, Looks
  <2>2. CASE ~libc
    <3>1. changed # "since" /\ binary = find_in_path(path) /\ ResolvconfWorks
      BY <1>7, <1>b, <2>2 DEF LookAtUpdater, ProbeInv, ResolvconfWorks
    <3> QED  BY <1>7, <2>2, <3>1, Accepted DEF LookAtUpdater, LooksOf, Works
  <2> QED  BY <2>1, <2>2
<1>8. CASE LookAtDefaults
  <2>0. changed # "since" /\ binary = find_in_path(path) /\ libc
        /\ ~points_at_resolvectl(path[binary])
    BY <1>8 DEF LookAtDefaults, ProbeInv
  <2>1. CASE truncation_enabled(defaults)
    BY <1>8, <2>0, <2>1, Refused DEF LookAtDefaults, LooksOf, Works, ResolvconfWorks
  <2>2. CASE ~truncation_enabled(defaults)
    BY <1>8, <1>b, <2>0, <2>2, Accepted DEF LookAtDefaults, LooksOf, Works, ResolvconfWorks
  <2> QED  BY <2>1, <2>2
<1>9. CASE (\E i \in Interfaces, c \in Configs : Set(i, c)) \/ ResetNoop \/ Reset
  <2>1. backend = Choice /\ pc = "ready"
    BY <1>9, CallsTouch DEF ProbeInv, Typed, TypeOK
  <2>2. Choice' = Choice
    BY <1>9, <2>1, CallsTouch, CallsKeepChoice
  <2> QED  BY <1>9, <2>1, <2>2, CallsTouch DEF ProbeInv, Looks
<1>10. CASE Crash
  BY <1>10 DEF Crash, ProbeInv, Looks
<1>11. CASE HostChanges
  BY <1>11 DEF HostChanges, ProbeInv, Typed, TypeOK, Looks
<1> QED
  BY <1>1, <1>2, <1>3, <1>4, <1>5, <1>6, <1>7, <1>8, <1>9, <1>10, <1>11 DEF Next, Probe

\* A probe looks, and no more.
LEMMA LooksTouch ==
  ASSUME Typed, Begin \/ Probe
  PROVE  /\ UNCHANGED <<resolv_conf, bus, resolved, path, libc, defaults, override>>
         /\ UNCHANGED <<links, record, text, cfg, last>>
         /\ ret' = "none" /\ pc # "ready"
         /\ active_link' = NoInterface
         /\ changed' = "never" => changed = "never"
<1>1. pc # "ready" /\ backend = "none"
  BY DEF Begin, Probe, LookAtLink, ConnectToBus, FindBinary, LookAtShim, LookAtUpdater,
         LookAtDefaults, Typed, TypeOK, Looks
<1>2. active_link = NoInterface /\ ret = "none"
  BY <1>1 DEF Typed, TypeOK, Backends
<1>3. active_link' = NoInterface
  BY <1>2 DEF Begin, Probe, LookAtLink, ConnectToBus, FindBinary, LookAtShim, LookAtUpdater,
              LookAtDefaults, NotUsable, Look, FirstLook, Pick, known
<1> QED
  BY <1>1, <1>2, <1>3
     DEF Begin, Probe, LookAtLink, ConnectToBus, FindBinary, LookAtShim, LookAtUpdater,
         LookAtDefaults, host, services, ours, call

LEMMA OursNext == Typed /\ ProbeInv /\ OursInv /\ [Next]_vars => OursInv'
<1> SUFFICES ASSUME Typed, ProbeInv, OursInv, [Next]_vars PROVE OursInv'
  OBVIOUS
<1> USE DEF host, services, ours, known, call, probing, history
<1>u. NoInterface \notin Interfaces /\ NoConfig \notin Configs
  BY ConstantsAssumption
<1>t. /\ links \in [Interfaces -> Configs \cup {NoConfig}]
      /\ pc = "ready" => backend \in Backends
      /\ last \in Interfaces \cup {NoInterface}
      /\ active_link # NoInterface => backend = "systemd-resolved" /\ active_link \in Interfaces
      /\ active => pc = "ready"
  BY DEF Typed, TypeOK
<1>1. CASE UNCHANGED vars
  BY <1>1, SameHost DEF vars, OursInv, Undoes
<1>2. CASE Begin \/ Probe
  <2>1. last = NoInterface /\ last' = NoInterface /\ ret' = "none" /\ active_link' = NoInterface
    BY <1>2, LooksTouch DEF OursInv
  <2>2. /\ Choice' = Choice /\ UNCHANGED <<links, record, text>>
        /\ changed' = "never" => changed = "never"
    BY <1>2, LooksTouch, SameHost
  <2> QED  BY <2>1, <2>2 DEF OursInv
<1>c. (\E i \in Interfaces, c \in Configs : Set(i, c)) \/ ResetNoop \/ Reset =>
        /\ pc = "ready" /\ UNCHANGED <<pc, changed, backend, resolved, bus>>
        /\ changed = "never" => backend = Choice /\ Choice' = Choice
  BY CallsTouch, CallsKeepChoice, <1>t DEF ProbeInv, Backends
<1>3. ASSUME NEW i \in Interfaces, NEW c \in Configs, Set(i, c) PROVE OursInv'
  <2>1. /\ pc = "ready" /\ UNCHANGED <<pc, changed, backend, resolved, bus>>
        /\ changed = "never" => backend = Choice /\ Choice' = Choice
    BY <1>3, <1>c
  <2>2. CASE ret' = "setErr"
    <3>1. UNCHANGED <<links, record, text, active, active_link, last>>
      BY <1>3, <2>2 DEF Set, SetFails
    <3> QED  BY <2>1, <2>2, <3>1 DEF OursInv, Undoes
  <2>3. CASE ret' = "setOk"
    <3>0. last' = i
      BY <1>3, <2>3 DEF Set, SetFails
    <3>1. CASE backend = "systemd-resolved"
      <4>1. /\ Answers /\ active_link' = i /\ UNCHANGED record
            /\ links' = [links EXCEPT ![i] = c] /\ text' \in {text, NoConfig}
        BY <1>3, <2>3, <3>1 DEF Set, SetFails, TellResolved, Anew
      <4>2. \A j \in Interfaces : links'[j] # NoConfig => links[j] # NoConfig \/ j = i
        BY <4>1, <1>t
      <4> QED  BY <1>u, <2>1, <2>3, <3>0, <3>1, <4>1, <4>2 DEF OursInv, Answers, Undoes
    <3>2. CASE backend = "resolvconf"
      <4>1. /\ active' /\ UNCHANGED <<active_link, links>>
            /\ record' = c /\ text' \in {text, NoConfig}
        BY <1>3, <2>3, <3>2 DEF Set, SetFails, TellResolvconf, Anew
      <4>2. active_link = NoInterface
        BY <1>t, <3>2
      <4> QED  BY <1>u, <2>1, <2>3, <3>0, <3>2, <4>1, <4>2 DEF OursInv, Undoes
    <3>3. CASE backend = "static-resolv-conf"
      <4>1. /\ active' /\ UNCHANGED <<active_link, links, record>> /\ text' = c
        BY <1>3, <2>3, <3>3 DEF Set, SetFails, Write
      <4>2. active_link = NoInterface
        BY <1>t, <3>3
      <4> QED  BY <1>u, <2>1, <2>3, <3>0, <3>3, <4>1, <4>2 DEF OursInv, Undoes
    <3> QED  BY <2>1, <1>t, <3>1, <3>2, <3>3 DEF Backends
  <2>4. ret' \in {"setOk", "setErr"}
    BY <1>3 DEF Set, SetFails
  <2> QED  BY <2>2, <2>3, <2>4
<1>4. CASE ResetNoop
  BY <1>4, <1>c, SameHost DEF ResetNoop, OursInv, Undoes
<1>5. CASE Reset
  <2>1. /\ pc = "ready" /\ UNCHANGED <<pc, changed, backend, resolved, bus>>
        /\ changed = "never" => backend = Choice /\ Choice' = Choice
    BY <1>5, <1>c
  <2>2. ~active' /\ active_link' = NoInterface /\ last' = last /\ Undoes
    BY <1>5 DEF Reset
  <2>3. ASSUME changed = "never"
        PROVE  /\ \A j \in Interfaces : links'[j] # NoConfig => links[j] # NoConfig
               /\ text' # NoConfig => text # NoConfig
               /\ record' # NoConfig => record # NoConfig
               /\ last # NoInterface =>
                    text' = NoConfig /\ record' = NoConfig /\ links'[last] = NoConfig
    <3>1. CASE backend = "systemd-resolved"
      <4>3. ~active
        BY <3>1 DEF Typed, TypeOK
      <4>1. active_link # NoInterface /\ active_link = last
        BY <2>2, <4>3 DEF OursInv, Undoes
      <4>2. bus /\ text = NoConfig /\ record = NoConfig
        BY <2>1, <2>3, <3>1 DEF OursInv, Choice, OverrideWorks, ResolvedWorks
      <4>4. Answers
        BY <2>3, <4>1, <4>2 DEF Answers, OursInv
      <4>5. links' = [links EXCEPT ![active_link] = NoConfig] /\ record' = record
            /\ text' \in {text, NoConfig}
        BY <1>5, <3>1, <4>4 DEF Reset, TellResolved, Anew
      <4> QED  BY <1>t, <4>1, <4>2, <4>5
    <3>2. CASE backend = "resolvconf"
      <4>1. ResolvconfWorks /\ binary = find_in_path(path)
        BY <2>1, <2>3, <3>2 DEF Choice, OverrideWorks, ProbeInv
      <4>2. path \in Seq(Entries)
        BY ConstantsAssumption DEF Typed, TypeOK
      <4>3. Runs
        BY <4>1, <4>2, FirstFile DEF ResolvconfWorks, Runs, IsFile, points_at_resolvectl
      <4>4. record' = NoConfig /\ UNCHANGED links /\ text' \in {text, NoConfig}
        BY <1>5, <3>2, <4>3 DEF Reset, TellResolvconf, Anew
      <4>5. text = NoConfig /\ \A j \in Interfaces : links[j] = NoConfig
        BY <2>1, <2>3, <3>2 DEF OursInv
      <4> QED  BY <1>t, <4>4, <4>5
    <3>3. CASE backend = "static-resolv-conf"
      <4>1. text' = NoConfig /\ UNCHANGED <<links, record>>
        BY <1>5, <3>3 DEF Reset, Write
      <4>2. record = NoConfig /\ \A j \in Interfaces : links[j] = NoConfig
        BY <2>1, <2>3, <3>3 DEF OursInv
      <4> QED  BY <1>t, <4>1, <4>2
    <3> QED  BY <1>t, <2>1, <3>1, <3>2, <3>3 DEF Backends
  <2> QED  BY <2>1, <2>2, <2>3 DEF OursInv, Undoes
<1>6. CASE Crash
  BY <1>6, SameHost DEF Crash, OursInv
<1>7. CASE HostChanges
  <2>1. changed' # "never" /\ ret' = "none" /\ UNCHANGED <<pc, last, active_link>>
    BY <1>7 DEF HostChanges
  <2> QED  BY <2>1 DEF OursInv
<1> QED  BY <1>1, <1>2, <1>3, <1>4, <1>5, <1>6, <1>7 DEF Next

\* Only a set() says Ok for one, and it has just been to the backend it was for.
LEMMA EffectNext ==
  Typed /\ ProbeInv /\ SetOkTakesEffectAsProbed /\ [Next]_vars => SetOkTakesEffectAsProbed'
<1> SUFFICES ASSUME Typed, ProbeInv, SetOkTakesEffectAsProbed, [Next]_vars
             PROVE  SetOkTakesEffectAsProbed'
  OBVIOUS
<1> USE DEF host, services, ours, call, probing, history, SetOkTakesEffectAsProbed
<1>1. CASE UNCHANGED vars
  BY <1>1 DEF vars, InEffect, Generates, Misleading
<1>2. CASE Begin \/ Probe
  BY <1>2, LooksTouch
<1>3. ASSUME NEW i \in Interfaces, NEW c \in Configs, Set(i, c) PROVE SetOkTakesEffectAsProbed'
  <2> SUFFICES ASSUME ret' = "setOk", changed' # "since",
                      backend' = "systemd-resolved" => ~Misleading',
                      backend' = "resolvconf" => Generates(backend)'
               PROVE  InEffect(cfg)'
    OBVIOUS
  <2>1. /\ cfg' = c /\ backend \in Backends /\ backend = Choice
        /\ UNCHANGED <<bus, resolved, path, libc, backend>>
    BY <1>3, CallsTouch DEF Set, SetFails, ProbeInv, Typed, TypeOK
  <2>t. links \in [Interfaces -> Configs \cup {NoConfig}]
    BY DEF Typed, TypeOK
  <2>2. CASE backend = "systemd-resolved"
    <3>1. ResolvedWorks
      BY <2>1, <2>2 DEF Choice, OverrideWorks
    <3>2. Answers /\ TellResolved(i, c)
      BY <1>3, <2>2 DEF Set, SetFails
    <3>3. UNCHANGED resolv_conf /\ LeadsToResolved(resolv_conf)
      BY <2>1, <2>2, <3>1, <3>2 DEF TellResolved, ResolvedWorks, Misleading
    <3>4. text' = NoConfig /\ links'[i] = c
      BY <2>t, <3>2, <3>3 DEF TellResolved, Anew, Generates
    <3> QED  BY <2>1, <3>2, <3>3, <3>4 DEF InEffect, Answers
  <2>3. CASE backend = "resolvconf"
    <3>1. TellResolvconf(c)
      BY <1>3, <2>3 DEF Set, SetFails
    <3>2. Generates("resolvconf")
      BY <2>1, <2>3, <3>1 DEF TellResolvconf, Generates
    <3> QED  BY <2>1, <2>3, <3>1, <3>2 DEF InEffect, TellResolvconf, Anew
  <2>4. CASE backend = "static-resolv-conf"
    BY <1>3, <2>1, <2>4 DEF Set, SetFails, Write, InEffect
  <2> QED  BY <2>1, <2>2, <2>3, <2>4 DEF Backends
<1>4. CASE ResetNoop \/ Reset \/ Crash \/ HostChanges
  <2>1. ret' # "setOk"
    BY <1>4 DEF ResetNoop, Reset, Crash, HostChanges
  <2> QED  BY <2>1
<1> QED  BY <1>1, <1>2, <1>3, <1>4 DEF Next

LEMMA Invariance == Spec => [](Typed /\ IInv)
<1>1. Typed /\ IInv /\ [Next]_vars => IInv'
  BY ProbeNext, OursNext, EffectNext DEF IInv
<1> QED  BY TypeInit, IInit, TypeNext, <1>1, PTL DEF Spec
-----------------------------------------------------------------------------
(* What holds of every run. *)

\* On a host as it was when probe() began, a set() that returns Ok is what the stub
\* resolver uses, but for a link that only looks like resolved's and for a resolvconf
\* that does not generate resolv.conf.
THEOREM SetTakesEffect == Spec => []SetOkTakesEffectAsProbed
<1>1. Typed /\ IInv => SetOkTakesEffectAsProbed
  BY DEF IInv
<1> QED  BY <1>1, Invariance, PTL

\* On a host that never changes, the reset() of an instance that has set something
\* leaves nothing of ours in resolv.conf, with resolvconf or on the interface it was set
\* for last, whatever instances died before it.
THEOREM NothingIsLeft == Spec => []NothingLeftBehind
<1>1. Typed /\ IInv => NothingLeftBehind
  BY DEF NothingLeftBehind, IInv, OursInv
<1> QED  BY <1>1, Invariance, PTL

\* A knob whose assignments are plain is read as resolvconf's updater reads it.
LEMMA PlainKnob ==
  ASSUME NEW S, NEW values \in Seq(S), \A i \in 2..Len(values) : values[i] # Unset
  PROVE  truncation_enabled(values)
           <=> values = <<>> \/ values[Len(values)] \in Affirmative \cup {Unset}
<1>a. Len(values) \in Nat /\ DOMAIN values = 1..Len(values)
  OBVIOUS
<1>1. CASE Len(values) = 0
  BY <1>1, <1>a DEF truncation_enabled, Given
<1>2. CASE Len(values) = 1 /\ values[1] = Unset
  BY <1>2, <1>a DEF truncation_enabled, Given
<1>3. CASE Len(values) > 0 /\ values[Len(values)] # Unset
  <2>1. Len(values) \in Given(values) /\ \A j \in Given(values) : j \in Nat /\ j <= Len(values)
    BY <1>3, <1>a DEF Given
  <2>2. \A i \in Given(values) : (\A j \in Given(values) : j <= i) <=> i = Len(values)
    BY <2>1, <1>a
  <2>3. values # <<>>
    BY <1>3
  <2> QED  BY <1>3, <2>1, <2>2, <2>3 DEF truncation_enabled
<1> QED  BY <1>1, <1>2, <1>3, <1>a

\* The first file of that name is the real one exactly if no other comes before one that is.
LEMMA FirstUsable ==
  ASSUME path \in Seq(Entries)
  PROVE  find_in_path(path) > 0 /\ ~points_at_resolvectl(path[find_in_path(path)])
           <=> \E k \in DOMAIN path :
                 path[k] = "real" /\ \A j \in 1..(k - 1) : path[j] \in {"none", "directory"}
<1> DEFINE i == find_in_path(path)
           Real(k) == path[k] = "real" /\ \A j \in 1..(k - 1) : path[j] \in {"none", "directory"}
<1>1. DOMAIN path = 1..Len(path) /\ Len(path) \in Nat /\ \A k \in DOMAIN path : path[k] \in Entries
  OBVIOUS
<1>2. \A k \in DOMAIN path : IsFile(path[k]) <=> path[k] \notin {"none", "directory"}
  BY <1>1 DEF IsFile, Entries
<1>3. /\ i \in Nat
      /\ i > 0 <=> \E j \in DOMAIN path : IsFile(path[j])
      /\ i > 0 => /\ i \in DOMAIN path /\ IsFile(path[i])
                  /\ \A j \in 1..(i - 1) : ~IsFile(path[j])
  BY FirstFile
<1> HIDE DEF i
<1>4. i > 0 /\ path[i] # "shim" => i \in DOMAIN path /\ Real(i)
  BY <1>1, <1>2, <1>3 DEF IsFile
<1>5. ASSUME NEW k \in DOMAIN path, Real(k) PROVE i > 0 /\ path[i] # "shim"
  <2>1. IsFile(path[k]) /\ i > 0
    BY <1>3, <1>5 DEF IsFile
  <2>2. i \in DOMAIN path /\ IsFile(path[i]) /\ \A j \in 1..(i - 1) : ~IsFile(path[j])
    BY <1>3, <2>1
  <2>3. ~(k < i)
    BY <2>1, <2>2, <1>1
  <2>4. ~(i < k)
    BY <2>2, <1>5, <1>1 DEF IsFile
  <2>5. i = k
    BY <2>3, <2>4, <1>1, <2>2
  <2> QED  BY <2>1, <2>5, <1>5
<1>6. i > 0 /\ ~points_at_resolvectl(path[i]) <=> \E k \in DOMAIN path : Real(k)
  BY <1>4, <1>5 DEF points_at_resolvectl
<1> QED  BY <1>6 DEF i

\* What probe() tests of a backend amounts to its being usable.
LEMMA WorksIsUsable ==
  ASSUME Typed, KnobIsPlain
  PROVE  /\ ResolvedWorks <=> Usable("systemd-resolved")
         /\ ResolvconfWorks <=> Usable("resolvconf")
<1>1. ResolvedWorks <=> Usable("systemd-resolved")
  BY DEF ResolvedWorks, Usable
<1>2. path \in Seq(Entries) /\ defaults \in Seq(STRING)
  BY ConstantsAssumption DEF Typed, TypeOK
<1>3. libc /\ truncation_enabled(defaults) <=> Truncates
  BY <1>2, PlainKnob DEF KnobIsPlain, Truncates
<1> QED  BY <1>1, <1>2, <1>3, FirstUsable DEF ResolvconfWorks, Usable

\* The instance is the override if that is usable, and else the first usable backend in
\* order, on a host as it was when probe() began, whatever calls have done to it since.
THEOREM PickedByPriority == Spec => []PicksByPriority
<1>1. Typed /\ IInv => PicksByPriority
  <2> SUFFICES ASSUME Typed, IInv, pc = "ready", changed # "since", KnobIsPlain
               PROVE  backend = Wanted
    BY DEF PicksByPriority
  <2>1. backend = Choice
    BY DEF IInv, ProbeInv, Typed, TypeOK
  <2>2. /\ ResolvedWorks <=> Usable("systemd-resolved")
        /\ ResolvconfWorks <=> Usable("resolvconf")
        /\ Usable("static-resolv-conf")
    BY WorksIsUsable DEF Usable
  <2>3. OverrideWorks <=> override \in Backends /\ Usable(override)
    BY <2>2 DEF OverrideWorks, Backends
  <2> DEFINE order == <<"systemd-resolved", "resolvconf", "static-resolv-conf">>
             First(i) == Usable(order[i]) /\ \A j \in 1..(i - 1) : ~Usable(order[j])
             first == CHOOSE i \in 1..3 : First(i)
  <2>4. Wanted = IF override \in Backends /\ Usable(override) THEN override ELSE order[first]
    BY DEF Wanted
  <2>5. CASE ResolvedWorks
    <3>1. \A i \in 1..3 : First(i) <=> i = 1
      BY <2>2, <2>5
    <3> QED  BY <2>1, <2>3, <2>4, <2>5, <3>1 DEF Choice
  <2>6. CASE ~ResolvedWorks /\ ResolvconfWorks
    <3>1. \A i \in 1..3 : First(i) <=> i = 2
      BY <2>2, <2>6
    <3> QED  BY <2>1, <2>3, <2>4, <2>6, <3>1 DEF Choice
  <2>7. CASE ~ResolvedWorks /\ ~ResolvconfWorks
    <3>1. \A i \in 1..3 : First(i) <=> i = 3
      BY <2>2, <2>7
    <3> QED  BY <2>1, <2>3, <2>4, <2>7, <3>1 DEF Choice
  <2> QED  BY <2>5, <2>6, <2>7
<1> QED  BY <1>1, Invariance, PTL

\* A resolvconf that cuts the list after a loopback address is never the one that has
\* accepted such a server, on a host as it was when probe() began.
THEOREM OthersStayReachable == Spec => []OthersReachable
<1>1. Typed /\ IInv => OthersReachable
  <2> SUFFICES ASSUME Typed, IInv, ret = "setOk", changed # "since", KnobIsPlain,
                      backend = "resolvconf", Truncates
               PROVE  FALSE
    BY DEF OthersReachable
  <2>1. ResolvconfWorks
    BY DEF IInv, ProbeInv, Choice, OverrideWorks
  <2> QED  BY <2>1, WorksIsUsable DEF Usable
<1> QED  BY <1>1, Invariance, PTL
-----------------------------------------------------------------------------
(* A host that changes while probe() looks at it. *)

\* What the probes test of resolvconf is no more than its updater does.
LEMMA UsableWorks ==
  ASSUME Typed
  PROVE  /\ Usable("systemd-resolved") => ResolvedWorks
         /\ Usable("resolvconf") => ResolvconfWorks
<1>1. Usable("systemd-resolved") => ResolvedWorks
  BY DEF Usable, ResolvedWorks
<1>2. path \in Seq(Entries) /\ defaults \in Seq(STRING)
  BY ConstantsAssumption DEF Typed, TypeOK
<1>3. libc /\ truncation_enabled(defaults) => Truncates
  <2>1. DOMAIN defaults = 1..Len(defaults) /\ Len(defaults) \in Nat
    BY <1>2
  <2>2. truncation_enabled(defaults) =>
          defaults = <<>> \/ defaults[Len(defaults)] \in Affirmative \cup {Unset}
    <3>1. CASE Given(defaults) = {}
      BY <2>1, <3>1, <1>2 DEF Given
    <3>2. ASSUME NEW i \in Given(defaults), defaults[i] \in Affirmative,
                 \A j \in Given(defaults) : j <= i
          PROVE  defaults[Len(defaults)] \in Affirmative \cup {Unset}
      BY <2>1, <3>2 DEF Given
    <3> QED  BY <3>1, <3>2 DEF truncation_enabled
  <2> QED  BY <2>2 DEF Truncates
<1>4. Usable("resolvconf") => find_in_path(path) > 0 /\ ~points_at_resolvectl(path[find_in_path(path)])
  BY <1>2, FirstUsable DEF Usable
<1> QED  BY <1>1, <1>3, <1>4 DEF Usable, ResolvconfWorks

\* A probe has not passed over a backend that was usable when it began and that nobody
\* has touched since, and what it has read of that one still holds.
SteadyInv ==
  pc \in Looks =>
    /\ named => override = IF pc \in {"link", "bus"} THEN "systemd-resolved" ELSE "resolvconf"
    /\ override \in steady => named
    /\ "systemd-resolved" \in steady => ResolvedWorks /\ (named \/ pc \in {"link", "bus"})
    /\ "resolvconf" \in steady =>
         /\ ResolvconfWorks
         /\ pc \in {"shim", "libc", "defaults"} => binary = find_in_path(path)
         /\ pc = "defaults" => libc

\* A backend is refused only if it is not one of those.
LEMMA RefusedSteady ==
  ASSUME Typed, SteadyInv, NEW b \in {"systemd-resolved", "resolvconf"},
         pc \in LooksOf(b), b \notin steady, NotUsable(b),
         UNCHANGED <<resolv_conf, bus, path, libc, defaults, override>>
  PROVE  /\ SteadyInv'
         /\ pc' = "ready" => \A s \in steady : Rank(backend') <= Rank(s)
<1>1. pc \in Looks
  BY DEF LooksOf, Looks
<1>2. CASE named
  <2>1. override = b /\ pc' = "link" /\ ~named' /\ steady' = steady
    BY <1>1, <1>2 DEF SteadyInv, LooksOf, NotUsable, Look
  <2> QED  BY <1>1, <2>1, SameHost DEF SteadyInv
<1>3. CASE ~named /\ b = "systemd-resolved"
  <2>1. pc' = "path" /\ ~named' /\ steady' = steady /\ override \notin steady
    BY <1>1, <1>3 DEF SteadyInv, NotUsable, Look
  <2> QED  BY <1>1, <1>3, <2>1, SameHost DEF SteadyInv
<1>4. CASE ~named /\ b = "resolvconf"
  <2>1. pc' = "ready"
    BY <1>4 DEF NotUsable, Pick
  <2>2. "systemd-resolved" \notin steady
    BY <1>1, <1>4 DEF SteadyInv, LooksOf
  <2>3. steady = {}
    BY <1>4, <2>2 DEF Typed, TypeOK
  <2> QED  BY <2>1, <2>3 DEF SteadyInv, Looks
<1> QED  BY <1>2, <1>3, <1>4

\* What is accepted comes before every other one of them.
LEMMA AcceptedSteady ==
  ASSUME Typed, SteadyInv, NEW b \in {"systemd-resolved", "resolvconf"}, pc \in LooksOf(b), Pick(b)
  PROVE  /\ SteadyInv'
         /\ pc' = "ready" => \A s \in steady : Rank(backend') <= Rank(s)
<1>1. pc \in Looks /\ pc' = "ready" /\ backend' = b
  BY DEF LooksOf, Looks, Pick
<1>2. steady \subseteq {"systemd-resolved", "resolvconf"}
  BY DEF Typed, TypeOK
<1>3. CASE named
  <2>1. override = b
    BY <1>1, <1>3 DEF SteadyInv, LooksOf
  <2>2. \A s \in {"systemd-resolved", "resolvconf"} : Rank(s) \in Nat
    BY DEF Rank
  <2>3. Rank(b) = 0
    BY <2>1 DEF Rank
  <2> QED  BY <1>1, <1>2, <2>2, <2>3 DEF SteadyInv, Looks
<1>4. CASE ~named
  <2>1. override \notin steady
    BY <1>1, <1>4 DEF SteadyInv
  <2>2. b = "resolvconf" => "systemd-resolved" \notin steady
    BY <1>1, <1>4 DEF SteadyInv, LooksOf
  <2>3. ASSUME NEW s \in steady PROVE Rank(b) <= Rank(s)
    <3>1. s # override /\ (s = b \/ (b = "systemd-resolved" /\ s = "resolvconf"))
      BY <1>2, <2>1, <2>2
    <3> QED  BY <3>1 DEF Rank
  <2> QED  BY <1>1, <2>3 DEF SteadyInv, Looks
<1> QED  BY <1>3, <1>4

LEMMA SteadyNext ==
  ASSUME Typed, SteadyInv, [Next]_vars
  PROVE  /\ SteadyInv'
         /\ pc' = "ready" /\ pc \in Looks => \A s \in steady : Rank(backend') <= Rank(s)
<1> DEFINE Before == pc' = "ready" /\ pc \in Looks => \A s \in steady : Rank(backend') <= Rank(s)
<1> USE DEF host, services, call, probing, history
<1>1. CASE UNCHANGED vars
  BY <1>1, SameHost DEF vars, SteadyInv, Looks
<1>2. CASE Begin
  <2>1. UNCHANGED <<resolv_conf, bus, path, libc, defaults, override>> /\ pc \notin Looks
    BY <1>2 DEF Begin, Looks
  <2>2. CASE override = "static-resolv-conf"
    BY <1>2, <2>1, <2>2 DEF Begin, Pick, SteadyInv, Looks
  <2>3. CASE override # "static-resolv-conf"
    <3>1. /\ pc' = (IF override = "resolvconf" THEN "path" ELSE "link")
          /\ steady' = {b \in {"systemd-resolved", "resolvconf"} : Usable(b)}
          /\ named' = (override \in Backends)
      BY <1>2, <2>3 DEF Begin, FirstLook, Backends
    <3>2. /\ named' <=> override \in {"systemd-resolved", "resolvconf"}
          /\ override \in steady' => override \in {"systemd-resolved", "resolvconf"}
      BY <2>3, <3>1 DEF Backends
    <3>3. /\ "systemd-resolved" \in steady' => ResolvedWorks'
          /\ "resolvconf" \in steady' => ResolvconfWorks'
      BY <2>1, <3>1, SameHost, UsableWorks
    <3> QED  BY <2>1, <3>1, <3>2, <3>3 DEF SteadyInv
  <2> QED  BY <2>2, <2>3
<1>3. CASE LookAtLink
  <2>1. CASE resolv_conf_points_at_resolved(resolv_conf)
    BY <1>3, <2>1, SameHost DEF LookAtLink, Look, SteadyInv, Looks
  <2>2. CASE ~resolv_conf_points_at_resolved(resolv_conf)
    <3>1. "systemd-resolved" \notin steady
      BY <1>3, <2>2 DEF LookAtLink, SteadyInv, Looks, ResolvedWorks
    <3> QED  BY <1>3, <2>2, <3>1, RefusedSteady DEF LookAtLink, LooksOf
  <2> QED  BY <2>1, <2>2
<1>4. CASE ConnectToBus
  <2>1. CASE bus
    BY <1>4, <2>1, AcceptedSteady DEF ConnectToBus, LooksOf
  <2>2. CASE ~bus
    <3>1. "systemd-resolved" \notin steady
      BY <1>4, <2>2 DEF ConnectToBus, SteadyInv, Looks, ResolvedWorks
    <3> QED  BY <1>4, <2>2, <3>1, RefusedSteady DEF ConnectToBus, LooksOf
  <2> QED  BY <2>1, <2>2
<1>5. CASE FindBinary
  <2>1. CASE binary' > 0
    BY <1>5, <2>1, SameHost DEF FindBinary, Look, SteadyInv, Looks
  <2>2. CASE ~(binary' > 0)
    <3>1. "resolvconf" \notin steady
      BY <1>5, <2>2 DEF FindBinary, SteadyInv, Looks, ResolvconfWorks
    <3> QED  BY <1>5, <2>2, <3>1, RefusedSteady DEF FindBinary, LooksOf
  <2> QED  BY <2>1, <2>2
<1>6. CASE LookAtShim
  <2>1. CASE points_at_resolvectl(path[binary])
    <3>1. "resolvconf" \notin steady
      BY <1>6, <2>1 DEF LookAtShim, SteadyInv, Looks, ResolvconfWorks
    <3> QED  BY <1>6, <2>1, <3>1, RefusedSteady DEF LookAtShim, LooksOf
  <2>2. CASE ~points_at_resolvectl(path[binary])
    BY <1>6, <2>2, SameHost DEF LookAtShim, Look, SteadyInv, Looks
  <2> QED  BY <2>1, <2>2
<1>7. CASE LookAtUpdater
  <2>1. CASE libc
    BY <1>7, <2>1, SameHost DEF LookAtUpdater, Look, SteadyInv, Looks
  <2>2. CASE ~libc
    BY <1>7, <2>2, AcceptedSteady DEF LookAtUpdater, LooksOf
  <2> QED  BY <2>1, <2>2
<1>8. CASE LookAtDefaults
  <2>1. CASE truncation_enabled(defaults)
    <3>1. "resolvconf" \notin steady
      BY <1>8, <2>1 DEF LookAtDefaults, SteadyInv, Looks, ResolvconfWorks
    <3> QED  BY <1>8, <2>1, <3>1, RefusedSteady DEF LookAtDefaults, LooksOf
  <2>2. CASE ~truncation_enabled(defaults)
    BY <1>8, <2>2, AcceptedSteady DEF LookAtDefaults, LooksOf
  <2> QED  BY <2>1, <2>2
<1>9. CASE (\E i \in Interfaces, c \in Configs : Set(i, c)) \/ ResetNoop \/ Reset
  <2>1. pc = "ready" /\ pc' = "ready"
    BY <1>9, CallsTouch
  <2> QED  BY <2>1 DEF SteadyInv, Looks
<1>10. CASE Crash
  BY <1>10 DEF Crash, SteadyInv, Looks
<1>11. CASE HostChanges
  <2>1. UNCHANGED <<override, pc, named, binary>>
    BY <1>11 DEF HostChanges
  <2>2. CASE RewriteResolvConf
    <3>1. UNCHANGED <<bus, path, libc, defaults>> /\ steady' = steady \ {"systemd-resolved"}
      BY <2>2 DEF RewriteResolvConf
    <3> QED  BY <2>1, <3>1 DEF SteadyInv, ResolvconfWorks, Looks
  <2>3. CASE BusComesUp \/ ResolvedChanges
    <3>1. /\ UNCHANGED <<resolv_conf, path, libc, defaults, steady>>
          /\ bus' = TRUE \/ bus' = bus
      BY <2>3 DEF BusComesUp, ResolvedChanges
    <3>2. ResolvedWorks => ResolvedWorks'
      BY <3>1 DEF ResolvedWorks
    <3> QED  BY <2>1, <3>1, <3>2 DEF SteadyInv, ResolvconfWorks, Looks
  <2>4. CASE ResolvconfChanges
    <3>1. UNCHANGED <<resolv_conf, bus>> /\ steady' = steady \ {"resolvconf"}
      BY <2>4 DEF ResolvconfChanges
    <3> QED  BY <2>1, <3>1 DEF SteadyInv, ResolvedWorks, Looks
  <2> QED  BY <1>11, <2>2, <2>3, <2>4 DEF HostChanges
<1> QED
  BY <1>1, <1>2, <1>3, <1>4, <1>5, <1>6, <1>7, <1>8, <1>9, <1>10, <1>11 DEF Next, Probe

\* Whatever changes while a probe() looks, what it picks comes after no backend that was
\* usable when it began and that nobody has meddled with since.
THEOREM NothingPassedOver == Spec => NeverPassedOver
<1>1. Init => SteadyInv
  BY DEF Init, SteadyInv, Looks
<1>2. Typed /\ SteadyInv /\ [Next]_vars => SteadyInv'
  BY SteadyNext
<1>3. Typed /\ SteadyInv /\ [Next]_vars =>
        [pc' = "ready" /\ pc \in Looks => \A b \in steady : Rank(backend') <= Rank(b)]_vars
  BY SteadyNext
<1> QED  BY TypeInit, TypeNext, <1>1, <1>2, <1>3, PTL DEF Spec, NeverPassedOver
=============================================================================
