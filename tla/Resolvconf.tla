----------------------------- MODULE Resolvconf -----------------------------
(***************************************************************************)
(* The resolvconf backend of dns-host-config                               *)
(* (crates/dns-host-config/src/linux/resolvconf.rs): set() and reset()     *)
(* spawn a resolvconf(8) child each, feed it, and wait for its exit        *)
(* status.  Several programs on a host use the backend, each under a name  *)
(* made from its owner string.                                             *)
(*                                                                         *)
(* A child whose caller is gone is not killed: it runs on as a stray.      *)
(* resolvconf(8) holds a lock while it works on its records, so a child's  *)
(* work is one step, but whose turn comes first is open.                   *)
(***************************************************************************)
EXTENDS Naturals, Sequences, FiniteSets

CONSTANTS
  Owners,      \* the `owner` strings, as sequences of characters
  NameChars,   \* the characters kept in a name: letters, digits, '-' and '_'
  NameLimit,   \* how many of them: 32
  Configs,     \* the DnsRouteConfigs callers pass to set()
  NoRecord,    \* nothing is registered under the name
  NoInput,     \* nothing was written to the child's standard input
  NoChild,     \* the instance waits for no child
  MaxStrays,   \* bound: abandoned children of one owner at a time
  Faults       \* what can go wrong, see FaultKinds

(***************************************************************************)
(* "spawn"   the child cannot be started                                   *)
(* "status"  it exits with an error, its work done or not                  *)
(* "pipe"    writing to its standard input fails                           *)
(* "cancel"  the future is dropped while it waits                          *)
(* "crash"   the process dies, or drops the backend without a reset()      *)
(***************************************************************************)
FaultKinds == {"spawn", "status", "pipe", "cancel", "crash"}

\* Slip: every owner gets the same name.
registration_nameBare(owner) == <<"tun-">>

\* "tun-" and the first characters of the owner that are allowed in a name.
registration_name(owner) ==
  LET sanitized == SelectSeq(owner, LAMBDA c : c \in NameChars)
  IN  <<"tun-">> \o SubSeq(sanitized, 1,
                          IF Len(sanitized) < NameLimit THEN Len(sanitized) ELSE NameLimit)

Names == {registration_name(o) : o \in Owners}
Records == Configs \cup {NoInput, NoRecord}

\* What is left of a child once its standard input is closed.
Commands == [op : {"-a"}, name : Names, input : Configs \cup {NoInput}]
              \cup [op : {"-d"}, name : Names]

ASSUME ConstantsAssumption ==
  /\ Faults \subseteq FaultKinds
  /\ NameLimit \in Nat /\ MaxStrays \in Nat
  /\ NoRecord \notin Configs /\ NoInput \notin Configs /\ NoRecord # NoInput
  /\ NoChild \notin Commands

VARIABLES
  registry, \* resolvconf(8): per name, the record it holds
  strays,   \* per owner: children nobody waits for
  child,    \* per owner: the child its call has spawned
  exit,     \* per owner: "running", or its status "ok" | "error"
  pc,       \* per owner: "idle" | "feed" | "wait"
  active,   \* per owner: Resolvconf::active
  cfg,      \* per owner: the config of the last set()
  ret,      \* per owner: what the last call returned
  owed,     \* history: owners whose last set() to return Ok is still to be undone,
            \* up to the end of a reset() that failed or the call after one that did not
  muddled   \* history: owners a stray of theirs may have interfered with, from the
            \* call that left it to the first call begun with no stray about

children == <<strays, child, exit>>
vars == <<registry, children, pc, active, cfg, ret, owed, muddled>>

TypeOK ==
  /\ registry \in [Names -> Records]
  /\ strays \in [Owners -> SUBSET Commands]
  /\ \A o \in Owners : Cardinality(strays[o]) <= MaxStrays
  /\ child \in [Owners -> Commands \cup {NoChild}]
  /\ \A o \in Owners : pc[o] = "idle" <=> child[o] = NoChild
  /\ exit \in [Owners -> {"running", "ok", "error"}]
  /\ pc \in [Owners -> {"idle", "feed", "wait"}]
  /\ active \in [Owners -> BOOLEAN]
  /\ cfg \in [Owners -> Configs \cup {NoInput}]
  /\ ret \in [Owners -> {"none", "setOk", "setErr", "resetOk", "resetErr"}]
  /\ owed \subseteq Owners /\ muddled \subseteq Owners
-----------------------------------------------------------------------------
\* probe() has found the binary.
Init ==
  /\ registry = [n \in Names |-> NoRecord]
  /\ strays = [o \in Owners |-> {}]
  /\ child = [o \in Owners |-> NoChild]
  /\ exit = [o \in Owners |-> "running"]
  /\ pc = [o \in Owners |-> "idle"]
  /\ active = [o \in Owners |-> FALSE]
  /\ cfg = [o \in Owners |-> NoInput]
  /\ ret = [o \in Owners |-> "none"]
  /\ owed = {} /\ muddled = {}

Return(o, r) ==
  /\ pc' = [pc EXCEPT ![o] = "idle"]
  /\ ret' = [ret EXCEPT ![o] = r]

Spawn(o, command, next) ==
  /\ child' = [child EXCEPT ![o] = command]
  /\ exit' = [exit EXCEPT ![o] = "running"]
  /\ pc' = [pc EXCEPT ![o] = next]
  /\ ret' = [ret EXCEPT ![o] = "none"]
  /\ strays' = strays

\* The child at hand is left to itself, its standard input closed as it is.
Leave(o) ==
  /\ Cardinality(strays[o]) < MaxStrays \/ exit[o] # "running"
  /\ strays' = IF exit[o] = "running"
               THEN [strays EXCEPT ![o] = @ \cup {child[o]}] ELSE strays
  /\ child' = [child EXCEPT ![o] = NoChild]
  /\ exit' = exit

Reap(o) == child' = [child EXCEPT ![o] = NoChild] /\ UNCHANGED <<strays, exit>>

Muddle(o) == muddled' = IF strays[o] = {} THEN muddled \ {o} ELSE muddled \cup {o}

Op(o) == IF child[o].op = "-a" THEN "set" ELSE "reset"

(* set() and reset() *)

SetBegin(o, c) ==
  /\ pc[o] = "idle"
  /\ cfg' = [cfg EXCEPT ![o] = c]
  /\ owed' = IF ret[o] = "resetOk" THEN owed \ {o} ELSE owed
  /\ Muddle(o)
  /\ \/ Spawn(o, [op |-> "-a", name |-> registration_name(o), input |-> NoInput], "feed")
     \/ "spawn" \in Faults /\ Return(o, "setErr") /\ UNCHANGED children
  /\ UNCHANGED <<registry, active>>

\* stdin.write_all(), and the end of stdin's life.
Feed(o) ==
  /\ pc[o] = "feed"
  /\ \/ /\ child' = [child EXCEPT ![o] = [@ EXCEPT !.input = cfg[o]]]
        /\ pc' = [pc EXCEPT ![o] = "wait"]
        /\ UNCHANGED <<strays, exit, ret>>
     \/ "pipe" \in Faults /\ Leave(o) /\ Return(o, "setErr")
  /\ muddled' = IF strays' = strays THEN muddled ELSE muddled \cup {o}
  /\ UNCHANGED <<registry, active, cfg, owed>>

\* Slips of SetWait: the child is not reaped; it does not wait; the record is not
\* remembered.
SetWaitZombie(o) ==
  /\ pc[o] = "wait" /\ child[o].op = "-a" /\ exit[o] # "running"
  /\ Return(o, IF exit[o] = "ok" THEN "setOk" ELSE "setErr")
  /\ UNCHANGED <<registry, children, active, cfg, owed, muddled>>

SetWaitNot(o) ==
  /\ pc[o] = "wait" /\ child[o].op = "-a"
  /\ Leave(o)
  /\ Return(o, "setOk")
  /\ active' = [active EXCEPT ![o] = TRUE]
  /\ owed' = owed \cup {o}
  /\ UNCHANGED <<registry, cfg, muddled>>

SetWaitInactive(o) ==
  /\ pc[o] = "wait" /\ child[o].op = "-a" /\ exit[o] # "running"
  /\ Reap(o)
  /\ \/ exit[o] = "ok" /\ Return(o, "setOk") /\ owed' = owed \cup {o}
     \/ exit[o] = "error" /\ Return(o, "setErr") /\ owed' = owed
  /\ UNCHANGED <<registry, active, cfg, muddled>>

SetWait(o) ==
  /\ pc[o] = "wait" /\ child[o].op = "-a" /\ exit[o] # "running"
  /\ Reap(o)
  /\ \/ /\ exit[o] = "ok" /\ Return(o, "setOk")
        /\ active' = [active EXCEPT ![o] = TRUE]
        /\ owed' = owed \cup {o}
     \/ /\ exit[o] = "error" /\ Return(o, "setErr")
        /\ UNCHANGED <<active, owed>>
  /\ UNCHANGED <<registry, cfg, muddled>>

ResetNoop(o) ==
  /\ pc[o] = "idle" /\ ~active[o]
  /\ Return(o, "resetOk")
  /\ UNCHANGED <<registry, children, active, cfg, owed, muddled>>

\* The child is given nothing to read, and `active` goes whatever becomes of it.
ResetBegin(o) ==
  /\ pc[o] = "idle" /\ active[o]
  /\ active' = [active EXCEPT ![o] = FALSE]
  /\ Muddle(o)
  /\ \/ Spawn(o, [op |-> "-d", name |-> registration_name(o)], "wait") /\ owed' = owed
     \/ /\ "spawn" \in Faults /\ Return(o, "resetErr")
        /\ owed' = owed \ {o} /\ UNCHANGED children
  /\ UNCHANGED <<registry, cfg>>

ResetWait(o) ==
  /\ pc[o] = "wait" /\ child[o].op = "-d" /\ exit[o] # "running"
  /\ Reap(o)
  /\ \/ exit[o] = "ok" /\ Return(o, "resetOk") /\ owed' = owed
     \/ exit[o] = "error" /\ Return(o, "resetErr") /\ owed' = owed \ {o}
  /\ UNCHANGED <<registry, active, cfg, muddled>>

(* The caller goes away. *)

Abandon(o) ==
  IF pc[o] = "idle" THEN UNCHANGED <<children, muddled>>
  ELSE Leave(o) /\ muddled' = muddled \cup {o}

Cancel(o) ==
  /\ "cancel" \in Faults /\ pc[o] # "idle"
  /\ Abandon(o)
  /\ Return(o, "none")
  /\ owed' = IF Op(o) = "reset" THEN owed \ {o} ELSE owed
  /\ UNCHANGED <<registry, active, cfg>>

Crash(o) ==
  /\ "crash" \in Faults
  /\ Abandon(o)
  /\ Return(o, "none")
  /\ active' = [active EXCEPT ![o] = FALSE]
  /\ owed' = owed \ {o}
  /\ UNCHANGED <<registry, cfg>>

(* resolvconf(8) *)

Work(command) ==
  registry' = [registry EXCEPT ![command.name] =
                 IF command.op = "-a" THEN command.input ELSE NoRecord]

\* A child works once its standard input is closed.
ChildWorks(o) ==
  /\ pc[o] = "wait" /\ exit[o] = "running"
  /\ \/ Work(child[o]) /\ exit' = [exit EXCEPT ![o] = "ok"]
     \/ /\ "status" \in Faults
        /\ \/ Work(child[o])
           \/ UNCHANGED registry
        /\ exit' = [exit EXCEPT ![o] = "error"]
  /\ UNCHANGED <<strays, child, pc, active, cfg, ret, owed, muddled>>

StrayWorks(o, command) ==
  /\ \/ Work(command)
     \/ "status" \in Faults /\ UNCHANGED registry
  /\ strays' = [strays EXCEPT ![o] = @ \ {command}]
  /\ UNCHANGED <<child, exit, pc, active, cfg, ret, owed, muddled>>

Call(o) ==
  \/ \E c \in Configs : SetBegin(o, c)
  \/ Feed(o) \/ SetWait(o) \/ ResetNoop(o) \/ ResetBegin(o) \/ ResetWait(o)

Child(o) == ChildWorks(o) \/ \E command \in strays[o] : StrayWorks(o, command)

Next == \E o \in Owners : Call(o) \/ Child(o) \/ Cancel(o) \/ Crash(o)

Spec == Init /\ [][Next]_vars
-----------------------------------------------------------------------------
(***************************************************************************)
(* Properties.                                                             *)
(***************************************************************************)

\* When set() returns Ok the record is the config it was given, whatever other owners
\* do at the same time and whatever failed before, once no abandoned call of the same
\* owner is still at work.
SetOkInPlace ==
  \A o \in Owners : ret[o] = "setOk" /\ o \notin muddled =>
    registry[registration_name(o)] = cfg[o]

\* And what a set() that returned Ok registered, a reset() that returns Ok has
\* removed, under the same condition, unless an earlier reset() failed.
ResetUndoesSet ==
  \A o \in Owners : ret[o] = "resetOk" /\ o \in owed /\ o \notin muddled =>
    registry[registration_name(o)] = NoRecord

\* Two programs never touch each other's record (resolvconf.rs: "so two concurrent
\* instances don't register the same name and clobber each other"): a record changes
\* only by a child of its owner.
RecordsAreSeparate ==
  [][\A o \in Owners :
       LET n == registration_name(o) IN
       registry'[n] # registry[n] => exit'[o] # exit[o] \/ strays'[o] # strays[o]]_vars
=============================================================================
