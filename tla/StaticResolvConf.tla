-------------------------- MODULE StaticResolvConf --------------------------
(***************************************************************************)
(* The last-resort backend of dns-host-config                              *)
(* (crates/dns-host-config/src/linux/static_resolv_conf.rs): it overwrites *)
(* /etc/resolv.conf, keeping the text it found there in a backup file      *)
(* beside it.  One action stands for one access to resolv.conf, which      *)
(* other software also reads and rewrites.  The backup has no other user,  *)
(* so a read of it is folded into the step that decides what the read is   *)
(* for, and its truncation into the read of resolv.conf it follows.        *)
(*                                                                         *)
(* std::fs::write is open(O_TRUNC | O_CREAT) and then write(): two steps.  *)
(* What happens between them is what this module is about.                 *)
(***************************************************************************)
EXTENDS Naturals, Sequences

CONSTANTS
  Owners,     \* the `owner` strings of the programs using this backend
  Addrs,      \* addresses a `nameserver` line can name
  Configs,    \* the DnsRouteConfigs callers pass to set()
  HostTexts,  \* the texts other software writes to resolv.conf
  Faults,     \* what can go wrong, see FaultKinds
  NoOwner,    \* the text carries no marker line
  NoFile      \* the path names no file

(***************************************************************************)
(* "crash"      the process dies, or drops the backend without a reset(),  *)
(*              anywhere but between a truncation of resolv.conf and the   *)
(*              write that follows it                                      *)
(* "torn"       the process dies, or the write fails (a full disk), there  *)
(* "ioerr"      a file system call returns an error the code propagates    *)
(* "unreadable" the read in current_owner, or the stat in Path::exists,    *)
(*              fails, which the code takes for "not ours"                 *)
(* "race"       other software rewrites resolv.conf during a call          *)
(***************************************************************************)
FaultKinds == {"crash", "torn", "ioerr", "unreadable", "race"}

\* A resolv.conf, as far as this backend looks at it: the owner in its marker
\* line, the addresses of its nameserver lines in order, and whether it holds
\* anything else (search, options, comments).
Text == [owner : Owners \cup {NoOwner}, nameservers : Seq(Addrs), rest : BOOLEAN]

DnsRouteConfig == [servers : Seq(Addrs), routing : BOOLEAN]

EmptyText == [owner |-> NoOwner, nameservers |-> <<>>, rest |-> FALSE]

ASSUME ConstantsAssumption ==
  /\ Faults \subseteq FaultKinds
  /\ NoOwner \notin Owners
  /\ NoFile \notin Text
  /\ Configs \subseteq DnsRouteConfig
  /\ HostTexts \subseteq Text
  /\ \A t \in HostTexts : t.owner = NoOwner

VARIABLES
  file,    \* resolv.conf
  backup,  \* resolv.conf.dns-host-config.bak
  host,    \* history: what other software last left in resolv.conf
  pc,      \* per owner: "down" (no instance), "idle", or the call's next step
  active,  \* per owner: StaticResolvConf::active
  cfg,     \* per owner: the config of the last set()
  orig,    \* per owner: the local `original` of set(), `backup` of reset()
  ret,     \* per owner: what the last call returned
  botched  \* history: owners whose instance has had a reset() fail since the
           \* last set() of it that returned Ok

vars == <<file, backup, host, pc, active, cfg, orig, ret, botched>>
disk == <<file, backup>>

\* Between the truncation of resolv.conf and the write into it.  In the
\* Lost steps other software has replaced the file meanwhile (by rename, as
\* NetworkManager, dhclient and resolvconf all do): the open descriptor names
\* the unlinked file.
TornSteps == {"write", "writeLost", "restore", "restoreLost"}
SetSteps == {"read", "backup", "trunc", "write", "writeLost"}
ResetSteps == {"remove", "restoreTrunc", "restore", "restoreLost", "unlink"}
Steps == {"down", "idle"} \cup SetSteps \cup ResetSteps
Results == {"none", "setOk", "setErr", "resetOk", "resetErr"}

TypeOK ==
  /\ file \in Text \cup {NoFile}
  /\ backup \in Text \cup {NoFile}
  /\ host \in Text \cup {NoFile}
  /\ pc \in [Owners -> Steps]
  /\ active \in [Owners -> BOOLEAN]
  /\ cfg \in [Owners -> DnsRouteConfig]
  /\ orig \in [Owners -> Text]
  /\ ret \in [Owners -> Results]
  /\ botched \subseteq Owners

-----------------------------------------------------------------------------
\* What reading a file gives; a missing one is recorded as an empty backup.
Content(f) == IF f = NoFile THEN EmptyText ELSE f

IsMarked(f) == f # NoFile /\ f.owner # NoOwner

CurrentOwner(f) == Content(f).owner

\* What the code may find: an error reads as "not ours" and as "no such file", so
\* it can miss what is there but never see what is not.
Misread == "unreadable" \in Faults
FindsOurs(o) == CurrentOwner(file) = o
FindsNotOurs(o) == CurrentOwner(file) # o \/ Misread
FindsBackup == backup # NoFile
FindsNoBackup == backup = NoFile \/ Misread

\* Slip of render: the host's own resolvers first.
renderHostFirst(o, c, original) ==
  [owner |-> o,
   nameservers |-> (IF c.routing THEN original.nameservers ELSE <<>>) \o c.servers,
   rest |-> FALSE]

render(o, c, original) ==
  [owner |-> o,
   nameservers |-> c.servers \o (IF c.routing THEN original.nameservers ELSE <<>>),
   rest |-> FALSE]

\* One call at a time, and other software keeps out of calls except under "race".
Quiescent == \A o \in Owners : pc[o] \in {"down", "idle"}
Callable(o) == pc[o] = "idle" /\ Quiescent

Goto(o, step) == pc' = [pc EXCEPT ![o] = step]

Return(o, result) ==
  /\ Goto(o, "idle")
  /\ ret' = [ret EXCEPT ![o] = result]

-----------------------------------------------------------------------------
Init ==
  /\ file \in HostTexts \cup {NoFile}
  /\ backup = NoFile
  /\ host = file
  /\ pc = [o \in Owners |-> "down"]
  /\ active = [o \in Owners |-> FALSE]
  /\ cfg \in [Owners -> {[servers |-> <<>>, routing |-> FALSE]}]
  /\ orig = [o \in Owners |-> EmptyText]
  /\ ret = [o \in Owners |-> "none"]
  /\ botched = {}

\* Slip of New: a leftover override is not looked for.
NewForgetful(o) ==
  /\ pc[o] = "down" /\ Quiescent
  /\ active' = [active EXCEPT ![o] = FALSE]
  /\ Goto(o, "idle")
  /\ UNCHANGED <<disk, host, cfg, orig, ret, botched>>

\* with_path(): a marker of ours with a backup beside it is a leftover override.
New(o) ==
  /\ pc[o] = "down" /\ Quiescent
  /\ \/ /\ FindsOurs(o) /\ FindsBackup
        /\ active' = [active EXCEPT ![o] = TRUE]
     \/ /\ FindsNotOurs(o) \/ FindsNoBackup
        /\ active' = [active EXCEPT ![o] = FALSE]
  /\ Goto(o, "idle")
  /\ UNCHANGED <<disk, host, cfg, orig, ret, botched>>

\* Slip of SetBegin: a re-set reads back what the last set() wrote.
SetBeginAfresh(o, c) ==
  /\ Callable(o)
  /\ cfg' = [cfg EXCEPT ![o] = c]
  /\ ret' = [ret EXCEPT ![o] = "none"]
  /\ Goto(o, "read")
  /\ UNCHANGED <<disk, host, active, orig, botched>>

\* set(): reusing_backup, and on a re-set the read of the backup.
SetBegin(o, c) ==
  /\ Callable(o)
  /\ cfg' = [cfg EXCEPT ![o] = c]
  /\ ret' = [ret EXCEPT ![o] = "none"]
  /\ \/ /\ FindsOurs(o) /\ FindsBackup
        /\ orig' = [orig EXCEPT ![o] = backup]
        /\ Goto(o, "trunc")
     \/ /\ FindsNotOurs(o) \/ FindsNoBackup
        /\ orig' = orig
        /\ Goto(o, "read")
  /\ UNCHANGED <<disk, host, active, botched>>

\* Slip of SetRead: the missing file is not recorded as an empty text.
SetReadRaw(o) ==
  /\ pc[o] = "read"
  /\ orig' = [orig EXCEPT ![o] = file]
  /\ backup' = EmptyText
  /\ Goto(o, "backup")
  /\ UNCHANGED <<file, host, active, cfg, ret, botched>>

\* First takeover: read resolv.conf, open the backup for writing.
SetRead(o) ==
  /\ pc[o] = "read"
  /\ orig' = [orig EXCEPT ![o] = Content(file)]
  /\ backup' = EmptyText
  /\ Goto(o, "backup")
  /\ UNCHANGED <<file, host, active, cfg, ret, botched>>

SetBackup(o) ==
  /\ pc[o] = "backup"
  /\ backup' = orig[o]
  /\ Goto(o, "trunc")
  /\ UNCHANGED <<file, host, active, cfg, orig, ret, botched>>

SetTrunc(o) ==
  /\ pc[o] = "trunc"
  /\ file' = EmptyText
  /\ Goto(o, "write")
  /\ UNCHANGED <<backup, host, active, cfg, orig, ret, botched>>

\* Slip of SetWrite: `active` is not set.
SetWriteInactive(o) ==
  /\ pc[o] \in {"write", "writeLost"}
  /\ file' = IF pc[o] = "write" THEN render(o, cfg[o], orig[o]) ELSE file
  /\ Return(o, "setOk")
  /\ botched' = botched \ {o}
  /\ UNCHANGED <<backup, host, active, cfg, orig>>

SetWrite(o) ==
  /\ pc[o] \in {"write", "writeLost"}
  /\ file' = IF pc[o] = "write" THEN render(o, cfg[o], orig[o]) ELSE file
  /\ active' = [active EXCEPT ![o] = TRUE]
  /\ Return(o, "setOk")
  /\ botched' = botched \ {o}
  /\ UNCHANGED <<backup, host, cfg, orig>>

\* reset() of an instance with nothing in place.
ResetNoop(o) ==
  /\ Callable(o) /\ ~active[o]
  /\ Return(o, "resetOk")
  /\ UNCHANGED <<disk, host, active, cfg, orig, botched>>

\* Slip of ResetTakenOver: the backup goes without a look at the marker.
ResetTakenOverUnchecked(o) ==
  /\ Callable(o) /\ active[o]
  /\ active' = [active EXCEPT ![o] = FALSE]
  /\ backup' = NoFile
  /\ Return(o, "resetOk")
  /\ UNCHANGED <<file, host, cfg, orig, botched>>

\* Other software has taken over: only the stale backup goes, errors ignored.
ResetTakenOver(o) ==
  /\ Callable(o) /\ active[o] /\ FindsNotOurs(o)
  /\ active' = [active EXCEPT ![o] = FALSE]
  /\ \/ backup' = NoFile
     \/ "ioerr" \in Faults /\ backup' = backup
  /\ Return(o, "resetOk")
  /\ UNCHANGED <<file, host, cfg, orig, botched>>

\* Slips of ResetBegin: the marker is not looked at; an empty backup is taken for
\* nothing to restore.
ResetBeginUnchecked(o) ==
  /\ Callable(o) /\ active[o] /\ backup # NoFile
  /\ active' = [active EXCEPT ![o] = FALSE]
  /\ orig' = [orig EXCEPT ![o] = backup]
  /\ Goto(o, IF backup = EmptyText THEN "remove" ELSE "restoreTrunc")
  /\ ret' = [ret EXCEPT ![o] = "none"]
  /\ UNCHANGED <<disk, host, cfg, botched>>

ResetBeginSkipsEmpty(o) ==
  /\ Callable(o) /\ active[o] /\ FindsOurs(o) /\ FindsBackup
  /\ active' = [active EXCEPT ![o] = FALSE]
  /\ orig' = [orig EXCEPT ![o] = backup]
  /\ Goto(o, IF backup = EmptyText THEN "unlink" ELSE "restoreTrunc")
  /\ ret' = [ret EXCEPT ![o] = "none"]
  /\ UNCHANGED <<disk, host, cfg, botched>>

\* Still ours: with no backup there is nothing to restore, otherwise an empty
\* backup means "no file existed before us".
ResetBegin(o) ==
  /\ Callable(o) /\ active[o] /\ FindsOurs(o)
  /\ active' = [active EXCEPT ![o] = FALSE]
  /\ \/ /\ FindsNoBackup
        /\ Return(o, "resetOk")
        /\ orig' = orig
     \/ /\ FindsBackup
        /\ orig' = [orig EXCEPT ![o] = backup]
        /\ Goto(o, IF backup = EmptyText THEN "remove" ELSE "restoreTrunc")
        /\ ret' = [ret EXCEPT ![o] = "none"]
  /\ UNCHANGED <<disk, host, cfg, botched>>

ResetRemove(o) ==
  /\ pc[o] = "remove"
  /\ file' = NoFile
  /\ Goto(o, "unlink")
  /\ UNCHANGED <<backup, host, active, cfg, orig, ret, botched>>

ResetTrunc(o) ==
  /\ pc[o] = "restoreTrunc"
  /\ file' = EmptyText
  /\ Goto(o, "restore")
  /\ UNCHANGED <<backup, host, active, cfg, orig, ret, botched>>

ResetWrite(o) ==
  /\ pc[o] \in {"restore", "restoreLost"}
  /\ file' = IF pc[o] = "restore" THEN orig[o] ELSE file
  /\ Goto(o, "unlink")
  /\ UNCHANGED <<backup, host, active, cfg, orig, ret, botched>>

ResetUnlink(o) ==
  /\ pc[o] = "unlink"
  /\ backup' = NoFile
  /\ Return(o, "resetOk")
  /\ UNCHANGED <<file, host, active, cfg, orig, botched>>

-----------------------------------------------------------------------------
\* The `?` on the call at hand, which has had no effect.
Fail(o) ==
  /\ pc[o] \notin {"down", "idle"}
  /\ (IF pc[o] \in TornSteps THEN "torn" ELSE "ioerr") \in Faults
  /\ Return(o, IF pc[o] \in SetSteps THEN "setErr" ELSE "resetErr")
  /\ botched' = IF pc[o] \in ResetSteps THEN botched \cup {o} ELSE botched
  /\ UNCHANGED <<disk, host, active, cfg, orig>>

Crash(o) ==
  /\ pc[o] # "down"
  /\ (IF pc[o] \in TornSteps THEN "torn" ELSE "crash") \in Faults
  /\ Goto(o, "down")
  /\ active' = [active EXCEPT ![o] = FALSE]
  /\ ret' = [ret EXCEPT ![o] = "none"]
  /\ botched' = botched \ {o}
  /\ UNCHANGED <<disk, host, cfg, orig>>

\* Other software puts a new file in place of resolv.conf, or removes it.
HostChange ==
  /\ Quiescent \/ "race" \in Faults
  /\ host' \in HostTexts \cup {NoFile}
  /\ file' = host'
  /\ pc' = [o \in Owners |-> IF pc[o] = "write" THEN "writeLost"
                             ELSE IF pc[o] = "restore" THEN "restoreLost"
                             ELSE pc[o]]
  /\ UNCHANGED <<backup, active, cfg, orig, ret, botched>>

Call(o) ==
  \/ New(o)
  \/ \E c \in Configs : SetBegin(o, c)
  \/ SetRead(o) \/ SetBackup(o) \/ SetTrunc(o) \/ SetWrite(o)
  \/ ResetNoop(o) \/ ResetTakenOver(o) \/ ResetBegin(o)
  \/ ResetRemove(o) \/ ResetTrunc(o) \/ ResetWrite(o) \/ ResetUnlink(o)

Next == HostChange \/ \E o \in Owners : Call(o) \/ Fail(o) \/ Crash(o)

Spec == Init /\ [][Next]_vars
-----------------------------------------------------------------------------
(***************************************************************************)
(* Properties.                                                             *)
(***************************************************************************)

\* No text of other software is ever lost: as long as it was the last to write,
\* either resolv.conf or the backup holds it, whatever step of whatever call the
\* process dies in (module docs, "Crash safety").
HostTextPreserved ==
  \/ Content(file) = Content(host)
  \/ backup # NoFile /\ backup = Content(host)

\* When reset() returns Ok, resolv.conf says what other software last said, also
\* when the set() it undoes was made by an instance that has died since; the one
\* exception is an instance whose earlier reset() failed.
ResetRestoresHost ==
  \A o \in Owners : ret[o] = "resetOk" /\ o \notin botched =>
    Content(file) = Content(host)

\* The same for the override itself, however resolv.conf was cut short or fought
\* over: after reset() has returned Ok the file is not this owner's.
ResetWithdraws ==
  \A o \in Owners : ret[o] = "resetOk" /\ o \notin botched => CurrentOwner(file) # o

\* The trait's words (lib.rs: "Undoes whatever the last set() did. A no-op if set()
\* was never called or has already been undone."): Ok means undone, without exception.
ResetOkMeansUndone ==
  \A o \in Owners : ret[o] = "resetOk" => CurrentOwner(file) # o

\* REFUSED-fallback: while an override with routing domains is in place, the
\* config's servers come first and every resolver the host configured last comes
\* after them, in its order; a full override lists the config's servers only.
FallbackKept ==
  \A o \in Owners : ret[o] = "setOk" /\ CurrentOwner(file) = o =>
    file.nameservers = cfg[o].servers \o
      (IF cfg[o].routing THEN Content(host).nameservers ELSE <<>>)

\* An override never stands without the means to undo it: beside a marked file
\* is a backup, and the backup is a text of other software, not our own output.
OverrideIsUndoable ==
  IsMarked(file) => backup # NoFile /\ ~IsMarked(backup)

\* An instance knows of the override it has to undo: while no call is under way,
\* a live instance whose marker is in the file has `active` set, so that its reset()
\* is no no-op (new() detects what an earlier instance left behind); again but for
\* a reset() that failed.
OwnOverrideIsActive ==
  Quiescent => \A o \in Owners :
    pc[o] = "idle" /\ CurrentOwner(file) = o => active[o] \/ o \in botched

\* The trait's promise: seen through resolv.conf alone every step is a set()
\* taking effect, a reset() taking effect, a change by other software, or nothing.
\* A truncated file counts as what is about to be written into it.
Directives(t) == [nameservers |-> t.nameservers, rest |-> t.rest]

OverrideView(c, h) ==
  [nameservers |-> c.servers \o (IF c.routing THEN h.nameservers ELSE <<>>),
   rest |-> FALSE]

Writing == {o \in Owners : pc[o] = "write"}
Restoring == {o \in Owners : pc[o] = "restore"}

RouteText ==
  IF Writing # {} THEN LET o == CHOOSE o \in Writing : TRUE IN render(o, cfg[o], orig[o])
  ELSE IF Restoring # {} THEN orig[CHOOSE o \in Restoring : TRUE]
  ELSE Content(file)

Route == INSTANCE DnsRoute WITH
  HostViews <- {Directives(t) : t \in HostTexts \cup {EmptyText}},
  View <- OverrideView,
  host <- Directives(Content(host)),
  view <- Directives(RouteText)

ImplementsDnsRoute == Route!Spec
=============================================================================
