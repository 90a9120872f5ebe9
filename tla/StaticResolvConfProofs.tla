----------------------- MODULE StaticResolvConfProofs -----------------------
(***************************************************************************)
(* Theorems about StaticResolvConf, for every set of configs, addresses    *)
(* and host texts.  Type correctness holds for any number of owners under  *)
(* any faults; the rest is for one owner, as two take each other's output  *)
(* for the host's (see README).                                            *)
(***************************************************************************)
EXTENDS StaticResolvConf, SequenceTheorems, TLAPS

SoleOwner == \E me : Owners = {me}

-----------------------------------------------------------------------------
(* Types. *)

LEMMA EmptyTextType == EmptyText \in Text
BY DEF EmptyText, Text

LEMMA ContentType ==
  ASSUME NEW f \in Text \cup {NoFile}
  PROVE  Content(f) \in Text
BY EmptyTextType DEF Content

\* render() writes a resolv.conf, whatever it is given.
LEMMA RenderType ==
  ASSUME NEW o \in Owners, NEW c \in DnsRouteConfig, NEW t \in Text
  PROVE  render(o, c, t) \in Text
<1>1. c.servers \in Seq(Addrs) /\ t.nameservers \in Seq(Addrs) /\ <<>> \in Seq(Addrs)
  BY DEF DnsRouteConfig, Text
<1>2. c.servers \o t.nameservers \in Seq(Addrs) /\ c.servers \o <<>> \in Seq(Addrs)
  BY <1>1
<1> QED  BY <1>2 DEF render, Text

LEMMA TypeInit == Init => TypeOK
<1> SUFFICES ASSUME Init PROVE TypeOK
  OBVIOUS
<1>1. file \in Text \cup {NoFile}
  BY ConstantsAssumption DEF Init
<1>2. [servers |-> <<>>, routing |-> FALSE] \in DnsRouteConfig
  BY DEF DnsRouteConfig
<1>3. cfg \in [Owners -> DnsRouteConfig]
  BY <1>2 DEF Init
<1> QED  BY <1>1, <1>3, EmptyTextType DEF Init, TypeOK, Steps, Results

LEMMA TypeNext == TypeOK /\ [Next]_vars => TypeOK'
<1> SUFFICES ASSUME TypeOK, [Next]_vars PROVE TypeOK'
  OBVIOUS
<1> USE DEF TypeOK, Steps, SetSteps, ResetSteps, Results, Goto, Return, Callable, disk
<1>1. CASE UNCHANGED vars
  BY <1>1 DEF vars
<1>2. CASE HostChange
  <2>1. host' \in Text \cup {NoFile} /\ file' = host'
    BY <1>2, ConstantsAssumption DEF HostChange
  <2>2. pc' \in [Owners -> Steps]
    BY <1>2 DEF HostChange
  <2> QED  BY <1>2, <2>1, <2>2 DEF HostChange
<1>3. ASSUME NEW o \in Owners, New(o) PROVE TypeOK'
  BY <1>3 DEF New
<1>4. ASSUME NEW o \in Owners, NEW c \in Configs, SetBegin(o, c) PROVE TypeOK'
  <2>1. c \in DnsRouteConfig
    BY ConstantsAssumption
  <2>2. FindsBackup => backup \in Text
    BY DEF FindsBackup
  <2>3. orig' \in [Owners -> Text] /\ pc' \in [Owners -> Steps]
    BY <1>4, <2>2 DEF SetBegin
  <2> QED  BY <1>4, <2>1, <2>3 DEF SetBegin
<1>5. ASSUME NEW o \in Owners, SetRead(o) PROVE TypeOK'
  BY <1>5, ContentType, EmptyTextType DEF SetRead
<1>6. ASSUME NEW o \in Owners, SetBackup(o) PROVE TypeOK'
  BY <1>6 DEF SetBackup
<1>7. ASSUME NEW o \in Owners, SetTrunc(o) PROVE TypeOK'
  BY <1>7, EmptyTextType DEF SetTrunc
<1>8. ASSUME NEW o \in Owners, SetWrite(o) PROVE TypeOK'
  <2>1. render(o, cfg[o], orig[o]) \in Text
    BY RenderType
  <2> QED  BY <1>8, <2>1 DEF SetWrite
<1>9. ASSUME NEW o \in Owners, ResetNoop(o) PROVE TypeOK'
  BY <1>9 DEF ResetNoop
<1>10. ASSUME NEW o \in Owners, ResetTakenOver(o) PROVE TypeOK'
  BY <1>10 DEF ResetTakenOver
<1>11. ASSUME NEW o \in Owners, ResetBegin(o) PROVE TypeOK'
  BY <1>11 DEF ResetBegin, FindsBackup
<1>12. ASSUME NEW o \in Owners, ResetRemove(o) PROVE TypeOK'
  BY <1>12 DEF ResetRemove
<1>13. ASSUME NEW o \in Owners, ResetTrunc(o) PROVE TypeOK'
  BY <1>13, EmptyTextType DEF ResetTrunc
<1>14. ASSUME NEW o \in Owners, ResetWrite(o) PROVE TypeOK'
  BY <1>14 DEF ResetWrite
<1>15. ASSUME NEW o \in Owners, ResetUnlink(o) PROVE TypeOK'
  BY <1>15 DEF ResetUnlink
<1>16. ASSUME NEW o \in Owners, Fail(o) PROVE TypeOK'
  BY <1>16 DEF Fail
<1>17. ASSUME NEW o \in Owners, Crash(o) PROVE TypeOK'
  BY <1>17 DEF Crash
<1> QED
  BY <1>1, <1>2, <1>3, <1>4, <1>5, <1>6, <1>7, <1>8, <1>9, <1>10, <1>11, <1>12,
     <1>13, <1>14, <1>15, <1>16, <1>17 DEF Next, Call

\* Every variable keeps its type, for any owners and under any faults.
THEOREM TypeCorrect == Spec => []TypeOK
BY TypeInit, TypeNext, PTL DEF Spec
-----------------------------------------------------------------------------
(* Every override can be undone. *)

\* Inductive: what the steps of a call know of resolv.conf and of the backup.  The
\* owner check is what keeps our own output out of `orig`: a set() that reads
\* resolv.conf found it unmarked, one that finds its marker reads the backup.
UndoInv ==
  /\ \A f \in {backup, host} : ~IsMarked(f)
  /\ IsMarked(file) => backup # NoFile
  /\ \A o \in Owners :
       /\ orig[o].owner = NoOwner
       /\ pc[o] \in {"read", "backup", "writeLost", "restoreLost", "unlink"}
            => ~IsMarked(file)
       /\ pc[o] \in {"trunc", "write"} => backup # NoFile

LEMMA UndoInit == Init => UndoInv
BY ConstantsAssumption DEF Init, UndoInv, IsMarked, EmptyText

LEMMA UndoNext ==
  ASSUME SoleOwner, "unreadable" \notin Faults, TypeOK, UndoInv, [Next]_vars
  PROVE  UndoInv'
<1> USE DEF TypeOK, UndoInv, IsMarked, Goto, Return, disk
<1>0. EmptyText.owner = NoOwner /\ EmptyText # NoFile
  BY ConstantsAssumption, EmptyTextType DEF EmptyText
<1>a. /\ \A o \in Owners : FindsNotOurs(o) <=> CurrentOwner(file) # o
      /\ FindsNoBackup <=> backup = NoFile
  BY DEF FindsNotOurs, FindsNoBackup, Misread
<1>b. ASSUME NEW o \in Owners, NEW p \in Owners PROVE o = p
  BY DEF SoleOwner
<1>c. IsMarked(file) => \A o \in Owners : CurrentOwner(file) = o
  BY <1>b DEF CurrentOwner, Content, Text
<1>1. CASE UNCHANGED vars
  BY <1>1 DEF vars
<1>2. CASE HostChange
  <2>1. ~IsMarked(host') /\ file' = host'
    BY <1>2, ConstantsAssumption DEF HostChange
  <2> QED  BY <1>2, <2>1 DEF HostChange, Steps
<1>3. ASSUME NEW o \in Owners, New(o) PROVE UndoInv'
  BY <1>3, <1>b DEF New
<1>4. ASSUME NEW o \in Owners, NEW c \in Configs, SetBegin(o, c) PROVE UndoInv'
  <2>1. file' = file /\ backup' = backup /\ host' = host
    BY <1>4 DEF SetBegin
  <2>2. CASE CurrentOwner(file) = o /\ backup # NoFile
    <3>1. pc' = [pc EXCEPT ![o] = "trunc"] /\ orig' = [orig EXCEPT ![o] = backup]
      BY <1>4, <1>a, <2>2 DEF SetBegin, FindsOurs, FindsBackup
    <3> QED  BY <1>b, <2>1, <2>2, <3>1
  <2>3. CASE ~(CurrentOwner(file) = o /\ backup # NoFile)
    <3>1. pc' = [pc EXCEPT ![o] = "read"] /\ orig' = orig
      BY <1>4, <1>a, <2>3 DEF SetBegin, FindsOurs, FindsBackup
    <3>2. ~IsMarked(file)
      BY <1>c, <2>3
    <3> QED  BY <1>b, <2>1, <3>1, <3>2
  <2> QED  BY <2>2, <2>3
<1>5. ASSUME NEW o \in Owners, SetRead(o) PROVE UndoInv'
  <2>1. Content(file).owner = NoOwner
    BY <1>5, <1>0 DEF SetRead, Content
  <2> QED  BY <1>5, <1>0, <1>b, <2>1 DEF SetRead
<1>6. ASSUME NEW o \in Owners, SetBackup(o) PROVE UndoInv'
  <2>1. orig[o] # NoFile
    BY ConstantsAssumption
  <2> QED  BY <1>6, <1>b, <2>1 DEF SetBackup
<1>7. ASSUME NEW o \in Owners, SetTrunc(o) PROVE UndoInv'
  BY <1>7, <1>0, <1>b DEF SetTrunc
<1>8. ASSUME NEW o \in Owners, SetWrite(o) PROVE UndoInv'
  BY <1>8, <1>b DEF SetWrite
<1>9. ASSUME NEW o \in Owners, ResetNoop(o) PROVE UndoInv'
  BY <1>9, <1>b DEF ResetNoop
<1>10. ASSUME NEW o \in Owners, ResetTakenOver(o) PROVE UndoInv'
  <2>1. ~IsMarked(file)
    BY <1>10, <1>a, <1>c DEF ResetTakenOver
  <2> QED  BY <1>10, <1>b, <2>1 DEF ResetTakenOver
<1>11. ASSUME NEW o \in Owners, ResetBegin(o) PROVE UndoInv'
  BY <1>11, <1>b DEF ResetBegin, FindsBackup
<1>12. ASSUME NEW o \in Owners, ResetRemove(o) PROVE UndoInv'
  BY <1>12, <1>b DEF ResetRemove
<1>13. ASSUME NEW o \in Owners, ResetTrunc(o) PROVE UndoInv'
  BY <1>13, <1>0, <1>b DEF ResetTrunc
<1>14. ASSUME NEW o \in Owners, ResetWrite(o) PROVE UndoInv'
  BY <1>14, <1>b DEF ResetWrite
<1>15. ASSUME NEW o \in Owners, ResetUnlink(o) PROVE UndoInv'
  BY <1>15, <1>b DEF ResetUnlink
<1>16. ASSUME NEW o \in Owners, Fail(o) PROVE UndoInv'
  BY <1>16, <1>b DEF Fail
<1>17. ASSUME NEW o \in Owners, Crash(o) PROVE UndoInv'
  BY <1>17, <1>b DEF Crash
<1> QED
  BY <1>1, <1>2, <1>3, <1>4, <1>5, <1>6, <1>7, <1>8, <1>9, <1>10, <1>11, <1>12,
     <1>13, <1>14, <1>15, <1>16, <1>17 DEF Next, Call

\* One owner, any faults but an unreadable file taken for someone else's: beside
\* every override there is a backup, and it is a text of other software.
THEOREM OverridesAreUndoable ==
  ASSUME SoleOwner, "unreadable" \notin Faults
  PROVE  Spec => []OverrideIsUndoable
<1>1. Init => TypeOK /\ UndoInv
  BY TypeInit, UndoInit
<1>2. TypeOK /\ UndoInv /\ [Next]_vars => (TypeOK /\ UndoInv)'
  BY TypeNext, UndoNext
<1>3. UndoInv => OverrideIsUndoable
  BY DEF UndoInv, OverrideIsUndoable
<1> QED  BY <1>1, <1>2, <1>3, PTL DEF Spec
-----------------------------------------------------------------------------
(* Every override is known to the instance, and a reset() takes it away. *)

\* Inductive, with UndoInv: an instance that is idle, or about to write over an override,
\* knows of the one in place, unless a reset() of its own has failed.  A file that has
\* been cut short carries no marker, nor does one that others have put there meanwhile.
WithdrawInv ==
  \A o \in Owners :
    /\ ret[o] = "resetOk" => pc[o] = "idle"
    /\ pc[o] \in {"idle", "trunc"} /\ IsMarked(file) => active[o] \/ o \in botched
    /\ pc[o] \in {"write", "restore"} => ~IsMarked(file)
    /\ ret[o] = "resetOk" /\ o \notin botched => ~IsMarked(file)

LEMMA WithdrawInit == Init => WithdrawInv
BY ConstantsAssumption DEF Init, WithdrawInv, IsMarked

LEMMA WithdrawNext ==
  ASSUME SoleOwner, "unreadable" \notin Faults, TypeOK, UndoInv, WithdrawInv, [Next]_vars
  PROVE  WithdrawInv'
<1> USE DEF TypeOK, WithdrawInv, IsMarked, Goto, Return, disk
<1>0. EmptyText.owner = NoOwner /\ EmptyText # NoFile
  BY ConstantsAssumption, EmptyTextType DEF EmptyText
<1>a. /\ \A o \in Owners : FindsNotOurs(o) <=> CurrentOwner(file) # o
      /\ FindsNoBackup <=> backup = NoFile
  BY DEF FindsNotOurs, FindsNoBackup, Misread
<1>b. ASSUME NEW o \in Owners, NEW p \in Owners PROVE o = p
  BY DEF SoleOwner
<1>c. \A o \in Owners : CurrentOwner(file) = o <=> IsMarked(file)
  BY <1>b, <1>0, ConstantsAssumption DEF CurrentOwner, Content, Text
<1>d. /\ IsMarked(file) => backup # NoFile
      /\ \A o \in Owners :
           /\ orig[o].owner = NoOwner
           /\ pc[o] \in {"read", "backup", "writeLost", "restoreLost", "unlink"} => ~IsMarked(file)
  BY DEF UndoInv
<1>1. CASE UNCHANGED vars
  BY <1>1 DEF vars
<1>2. CASE HostChange
  <2>1. ~IsMarked(host') /\ file' = host'
    BY <1>2, ConstantsAssumption DEF HostChange
  <2>2. \A o \in Owners : pc'[o] = "idle" <=> pc[o] = "idle"
    BY <1>2 DEF HostChange
  <2> QED  BY <1>2, <2>1, <2>2 DEF HostChange
<1>3. ASSUME NEW o \in Owners, New(o) PROVE WithdrawInv'
  BY <1>3, <1>a, <1>b, <1>c, <1>d DEF New
<1>4. ASSUME NEW o \in Owners, NEW c \in Configs, SetBegin(o, c) PROVE WithdrawInv'
  BY <1>4, <1>a, <1>b, <1>c DEF SetBegin, Callable
<1>5. ASSUME NEW o \in Owners, SetRead(o) PROVE WithdrawInv'
  BY <1>5, <1>b DEF SetRead
<1>6. ASSUME NEW o \in Owners, SetBackup(o) PROVE WithdrawInv'
  BY <1>6, <1>b, <1>d DEF SetBackup
<1>7. ASSUME NEW o \in Owners, SetTrunc(o) PROVE WithdrawInv'
  BY <1>7, <1>0, <1>b DEF SetTrunc
<1>8. ASSUME NEW o \in Owners, SetWrite(o) PROVE WithdrawInv'
  BY <1>8, <1>b DEF SetWrite
<1>9. ASSUME NEW o \in Owners, ResetNoop(o) PROVE WithdrawInv'
  BY <1>9, <1>b DEF ResetNoop, Callable
<1>10. ASSUME NEW o \in Owners, ResetTakenOver(o) PROVE WithdrawInv'
  BY <1>10, <1>a, <1>b, <1>c DEF ResetTakenOver
<1>11. ASSUME NEW o \in Owners, ResetBegin(o) PROVE WithdrawInv'
  BY <1>11, <1>a, <1>b, <1>c, <1>d DEF ResetBegin, FindsOurs
<1>12. ASSUME NEW o \in Owners, ResetRemove(o) PROVE WithdrawInv'
  BY <1>12, <1>b DEF ResetRemove
<1>13. ASSUME NEW o \in Owners, ResetTrunc(o) PROVE WithdrawInv'
  BY <1>13, <1>0, <1>b DEF ResetTrunc
<1>14. ASSUME NEW o \in Owners, ResetWrite(o) PROVE WithdrawInv'
  BY <1>14, <1>b DEF ResetWrite
<1>15. ASSUME NEW o \in Owners, ResetUnlink(o) PROVE WithdrawInv'
  BY <1>15, <1>b, <1>d DEF ResetUnlink
<1>16. ASSUME NEW o \in Owners, Fail(o) PROVE WithdrawInv'
  <2>1. /\ pc[o] \notin {"down", "idle"} /\ UNCHANGED <<file, active>>
        /\ ret'[o] # "resetOk" /\ pc'[o] = "idle"
    BY <1>16 DEF Fail
  <2>2. CASE pc[o] \in ResetSteps
    BY <1>16, <1>b, <2>1, <2>2 DEF Fail
  <2>3. CASE pc[o] \in SetSteps
    BY <1>16, <1>b, <1>d, <2>1, <2>3 DEF Fail, SetSteps
  <2> QED  BY <2>1, <2>2, <2>3 DEF Steps
<1>17. ASSUME NEW o \in Owners, Crash(o) PROVE WithdrawInv'
  BY <1>17, <1>b DEF Crash
<1> QED
  BY <1>1, <1>2, <1>3, <1>4, <1>5, <1>6, <1>7, <1>8, <1>9, <1>10, <1>11, <1>12,
     <1>13, <1>14, <1>15, <1>16, <1>17 DEF Next, Call

LEMMA WithdrawInvariance ==
  ASSUME SoleOwner, "unreadable" \notin Faults
  PROVE  Spec => [](TypeOK /\ UndoInv /\ WithdrawInv)
<1>1. Init => TypeOK /\ UndoInv /\ WithdrawInv
  BY TypeInit, UndoInit, WithdrawInit
<1>2. TypeOK /\ UndoInv /\ WithdrawInv /\ [Next]_vars => (TypeOK /\ UndoInv /\ WithdrawInv)'
  BY TypeNext, UndoNext, WithdrawNext
<1> QED  BY <1>1, <1>2, PTL DEF Spec

\* An owner's override carries a marker.
LEMMA OwnIsMarked ==
  ASSUME NEW o \in Owners, CurrentOwner(file) = o
  PROVE  IsMarked(file)
BY ConstantsAssumption DEF CurrentOwner, Content, EmptyText, IsMarked

\* However resolv.conf was cut short or fought over: a reset() that returns Ok has
\* left no override of ours, unless an earlier one failed.
THEOREM ResetsWithdraw ==
  ASSUME SoleOwner, "unreadable" \notin Faults
  PROVE  Spec => []ResetWithdraws
<1>1. WithdrawInv => ResetWithdraws
  BY OwnIsMarked DEF WithdrawInv, ResetWithdraws
<1> QED  BY <1>1, WithdrawInvariance, PTL

\* An instance, also one started after a crash, knows of the override it has to
\* undo, unless a reset() of its own has failed half-way.
THEOREM OwnOverridesAreActive ==
  ASSUME SoleOwner, "unreadable" \notin Faults
  PROVE  Spec => []OwnOverrideIsActive
<1>1. WithdrawInv => OwnOverrideIsActive
  BY OwnIsMarked DEF WithdrawInv, OwnOverrideIsActive
<1> QED  BY <1>1, WithdrawInvariance, PTL
-----------------------------------------------------------------------------
(* Crashes and failing system calls that spare the truncated file. *)

SparesTheWrite == Faults \subseteq {"crash", "ioerr"}

\* resolv.conf carries our marker and the backup is the host's text, or
\* resolv.conf is the host's text.
HostInPlace ==
  IF IsMarked(file) THEN backup = Content(host) ELSE Content(file) = Content(host)

\* Inductive, with UndoInv: where the host's text is at each step of a call, what
\* the instance remembers of it, and what its last result says of the file.
HostInvAt(o) ==
  /\ pc[o] \notin {"writeLost", "restoreLost"}
  /\ pc[o] \in {"write", "restore"} \/ HostInPlace
  /\ pc[o] = "backup" => orig[o] = Content(host)
  /\ pc[o] \in {"trunc", "write", "remove", "restoreTrunc", "restore"}
       => backup = Content(host) /\ orig[o] = backup
  /\ pc[o] = "remove" => orig[o] = EmptyText
  /\ pc[o] \in SetSteps => cfg[o] \in Configs
  /\ pc[o] \in {"idle", "trunc"} /\ IsMarked(file) => active[o] \/ o \in botched
  /\ ret[o] \in {"setOk", "resetOk"} => pc[o] = "idle"
  /\ ret[o] = "resetOk" /\ o \notin botched => ~IsMarked(file)
  /\ ret[o] = "setOk" /\ IsMarked(file) => file = render(o, cfg[o], Content(host))

HostInv == \A o \in Owners : HostInvAt(o)

LEMMA HostInit == Init => HostInv
BY ConstantsAssumption DEF Init, HostInv, HostInvAt, HostInPlace, IsMarked, SetSteps

LEMMA HostNext ==
  ASSUME SoleOwner, SparesTheWrite, TypeOK, UndoInv, HostInv, [Next]_vars
  PROVE  HostInv'
<1> USE DEF TypeOK, HostInvAt, HostInPlace, IsMarked, Content, Goto, Return, disk,
            SetSteps, ResetSteps, TornSteps
<1>0. EmptyText.owner = NoOwner /\ EmptyText # NoFile
  BY ConstantsAssumption, EmptyTextType DEF EmptyText
<1>a. /\ \A o \in Owners : FindsNotOurs(o) <=> CurrentOwner(file) # o
      /\ FindsNoBackup <=> backup = NoFile
      /\ "torn" \notin Faults /\ "race" \notin Faults
  BY DEF FindsNotOurs, FindsNoBackup, Misread, SparesTheWrite
<1>b. ASSUME NEW o \in Owners, NEW p \in Owners PROVE o = p
  BY DEF SoleOwner
<1>c. \A o \in Owners : CurrentOwner(file) = o <=> IsMarked(file)
  BY <1>b, <1>0, ConstantsAssumption DEF CurrentOwner, Text
<1>d. \A o \in Owners :
        /\ HostInvAt(o)
        /\ orig[o] # NoFile /\ orig[o].owner = NoOwner
        /\ pc[o] \in {"read", "backup", "unlink"} => ~IsMarked(file)
        /\ IsMarked(file) => backup # NoFile
        /\ EmptyText.owner = NoOwner /\ EmptyText # NoFile
  BY <1>0, ConstantsAssumption DEF UndoInv, HostInv
<1>e. ASSUME NEW o \in Owners, HostInvAt(o)' PROVE HostInv'
  BY <1>b, <1>e DEF HostInv
<1> HIDE DEF HostInv
<1>1. CASE UNCHANGED vars
  BY <1>1 DEF vars, HostInv
<1>2. CASE HostChange
  <2>1. ~IsMarked(host') /\ file' = host' /\ Quiescent
    BY <1>2, <1>a, ConstantsAssumption DEF HostChange
  <2> QED  BY <1>2, <2>1, <1>d DEF HostChange, Quiescent, HostInv
<1>3. ASSUME NEW o \in Owners, New(o) PROVE HostInvAt(o)'
  BY <1>3, <1>a, <1>c, <1>d DEF New
<1>4. ASSUME NEW o \in Owners, NEW c \in Configs, SetBegin(o, c) PROVE HostInvAt(o)'
  BY <1>4, <1>a, <1>c, <1>d DEF SetBegin, FindsOurs, FindsBackup, Callable
<1>5. ASSUME NEW o \in Owners, SetRead(o) PROVE HostInvAt(o)'
  BY <1>5, <1>a, <1>c, <1>d DEF SetRead
<1>6. ASSUME NEW o \in Owners, SetBackup(o) PROVE HostInvAt(o)'
  BY <1>6, <1>a, <1>c, <1>d DEF SetBackup
<1>7. ASSUME NEW o \in Owners, SetTrunc(o) PROVE HostInvAt(o)'
  BY <1>7, <1>a, <1>c, <1>d DEF SetTrunc
<1>8. ASSUME NEW o \in Owners, SetWrite(o) PROVE HostInvAt(o)'
  <2>1. pc[o] = "write" /\ file' = render(o, cfg[o], orig[o])
    BY <1>8, <1>d DEF SetWrite
  <2>2. render(o, cfg[o], orig[o]) # NoFile /\ render(o, cfg[o], orig[o]).owner # NoOwner
    BY RenderType, ConstantsAssumption, ZenonT(60) DEF render
  <2> QED  BY <1>8, <1>d, <2>1, <2>2 DEF SetWrite
<1>9. ASSUME NEW o \in Owners, ResetNoop(o) PROVE HostInvAt(o)'
  BY <1>9, <1>a, <1>c, <1>d DEF ResetNoop, Callable
<1>10. ASSUME NEW o \in Owners, ResetTakenOver(o) PROVE HostInvAt(o)'
  BY <1>10, <1>a, <1>c, <1>d DEF ResetTakenOver, Callable
<1>11. ASSUME NEW o \in Owners, ResetBegin(o) PROVE HostInvAt(o)'
  BY <1>11, <1>a, <1>c, <1>d DEF ResetBegin, FindsBackup, FindsOurs
<1>12. ASSUME NEW o \in Owners, ResetRemove(o) PROVE HostInvAt(o)'
  BY <1>12, <1>a, <1>c, <1>d DEF ResetRemove
<1>13. ASSUME NEW o \in Owners, ResetTrunc(o) PROVE HostInvAt(o)'
  BY <1>13, <1>a, <1>c, <1>d DEF ResetTrunc
<1>14. ASSUME NEW o \in Owners, ResetWrite(o) PROVE HostInvAt(o)'
  BY <1>14, <1>a, <1>c, <1>d DEF ResetWrite
<1>15. ASSUME NEW o \in Owners, ResetUnlink(o) PROVE HostInvAt(o)'
  BY <1>15, <1>a, <1>c, <1>d DEF ResetUnlink
<1>16. ASSUME NEW o \in Owners, Fail(o) PROVE HostInvAt(o)'
  <2>1. pc[o] \notin {"write", "restore", "down", "idle"} /\ file' = file
    BY <1>16, <1>a DEF Fail
  <2>2. CASE pc[o] \in SetSteps
    BY <1>16, <1>d, <2>1, <2>2 DEF Fail
  <2>3. CASE pc[o] \in ResetSteps
    BY <1>16, <1>d, <2>1, <2>3 DEF Fail
  <2> QED  BY <2>1, <2>2, <2>3 DEF Steps
<1>17. ASSUME NEW o \in Owners, Crash(o) PROVE HostInvAt(o)'
  BY <1>17, <1>a, <1>c, <1>d DEF Crash
<1> QED
  BY <1>1, <1>2, <1>3, <1>4, <1>5, <1>6, <1>7, <1>8, <1>9, <1>10, <1>11, <1>12,
     <1>13, <1>14, <1>15, <1>16, <1>17, <1>e DEF Next, Call

\* The three invariants together hold throughout.
LEMMA HostInvariance ==
  ASSUME SoleOwner, SparesTheWrite
  PROVE  Spec => [](TypeOK /\ UndoInv /\ HostInv)
<1>1. Init => TypeOK /\ UndoInv /\ HostInv
  BY TypeInit, UndoInit, HostInit
<1>2. "unreadable" \notin Faults
  BY DEF SparesTheWrite
<1>3. TypeOK /\ UndoInv /\ HostInv /\ [Next]_vars => (TypeOK /\ UndoInv /\ HostInv)'
  BY <1>2, TypeNext, UndoNext, HostNext
<1> QED  BY <1>1, <1>3, PTL DEF Spec

\* One owner, and no death or full disk between the two halves of a write: the
\* host's text is never lost, in whatever other step the process dies or fails.
THEOREM HostTextIsPreserved ==
  ASSUME SoleOwner, SparesTheWrite
  PROVE  Spec => []HostTextPreserved
<1>1. ASSUME TypeOK, UndoInv, HostInv PROVE HostTextPreserved
  <2>1. PICK o \in Owners : HostInvAt(o)
    BY <1>1 DEF SoleOwner, HostInv
  <2>2. orig[o] # NoFile
    BY <1>1, ConstantsAssumption DEF TypeOK
  <2>3. CASE pc[o] \in {"write", "restore"}
    BY <2>1, <2>2, <2>3 DEF HostInvAt, HostTextPreserved
  <2>4. CASE HostInPlace
    BY <1>1, <2>4 DEF HostInPlace, HostTextPreserved, UndoInv
  <2> QED  BY <2>1, <2>3, <2>4 DEF HostInvAt
<1> QED  BY <1>1, HostInvariance, PTL

\* Under the same assumptions reset() means what it says: when it returns Ok and no
\* earlier one failed, resolv.conf is what other software last made of it.
THEOREM ResetsRestoreTheHost ==
  ASSUME SoleOwner, SparesTheWrite
  PROVE  Spec => []ResetRestoresHost
<1>1. ASSUME TypeOK, UndoInv, HostInv PROVE ResetRestoresHost
  <2>1. ASSUME NEW o \in Owners, ret[o] = "resetOk", o \notin botched
        PROVE  Content(file) = Content(host)
    BY <1>1, <2>1 DEF HostInv, HostInvAt, HostInPlace
  <2> QED  BY <2>1 DEF ResetRestoresHost
<1> QED  BY <1>1, HostInvariance, PTL

\* And so does set(): the override in place is built from its config and from the
\* host's resolvers as they are now, which stay behind it as fallback.
THEOREM FallbackIsKept ==
  ASSUME SoleOwner, SparesTheWrite
  PROVE  Spec => []FallbackKept
<1>1. ASSUME TypeOK, UndoInv, HostInv PROVE FallbackKept
  <2>1. ASSUME NEW o \in Owners, ret[o] = "setOk", CurrentOwner(file) = o
        PROVE  file = render(o, cfg[o], Content(host))
    <3>1. IsMarked(file)
      BY <2>1, ConstantsAssumption DEF CurrentOwner, Content, EmptyText, IsMarked
    <3> QED  BY <1>1, <2>1, <3>1 DEF HostInv, HostInvAt
  <2>2. ASSUME NEW o \in Owners
        PROVE  render(o, cfg[o], Content(host)).nameservers = cfg[o].servers \o
                 (IF cfg[o].routing THEN Content(host).nameservers ELSE <<>>)
    BY DEF render
  <2> QED  BY <2>1, <2>2 DEF FallbackKept
<1> QED  BY <1>1, HostInvariance, PTL
-----------------------------------------------------------------------------
(* StaticResolvConf implements DnsRoute. *)

\* With one owner the text the stub resolver is about to read is a function of
\* that owner's step.
RouteTextOf(o) ==
  IF pc[o] = "write" THEN render(o, cfg[o], orig[o])
  ELSE IF pc[o] = "restore" THEN orig[o]
  ELSE Content(file)

LEMMA RouteTextIs ==
  ASSUME SoleOwner, NEW o \in Owners
  PROVE  RouteText = RouteTextOf(o) /\ RouteText' = RouteTextOf(o)'
<1>1. Owners = {o}
  BY DEF SoleOwner
<1>2. RouteText = RouteTextOf(o)
  <2>1. CASE pc[o] = "write"
    <3>1. Writing = {o}
      BY <1>1, <2>1 DEF Writing
    <3> QED  BY <2>1, <3>1 DEF RouteText, RouteTextOf
  <2>2. CASE pc[o] = "restore"
    <3>1. Writing = {} /\ Restoring = {o}
      BY <1>1, <2>2 DEF Writing, Restoring
    <3> QED  BY <2>2, <3>1 DEF RouteText, RouteTextOf
  <2>3. CASE pc[o] \notin {"write", "restore"}
    <3>1. Writing = {} /\ Restoring = {}
      BY <1>1, <2>3 DEF Writing, Restoring
    <3> QED  BY <2>3, <3>1 DEF RouteText, RouteTextOf
  <2> QED  BY <2>1, <2>2, <2>3
<1>3. RouteText' = RouteTextOf(o)'
  <2>1. CASE pc'[o] = "write"
    <3>1. Writing' = {o}
      BY <1>1, <2>1 DEF Writing
    <3> QED  BY <2>1, <3>1 DEF RouteText, RouteTextOf
  <2>2. CASE pc'[o] = "restore"
    <3>1. Writing' = {} /\ Restoring' = {o}
      BY <1>1, <2>2 DEF Writing, Restoring
    <3> QED  BY <2>2, <3>1 DEF RouteText, RouteTextOf
  <2>3. CASE pc'[o] \notin {"write", "restore"}
    <3>1. Writing' = {} /\ Restoring' = {}
      BY <1>1, <2>3 DEF Writing, Restoring
    <3> QED  BY <2>3, <3>1 DEF RouteText, RouteTextOf
  <2> QED  BY <2>1, <2>2, <2>3
<1> QED  BY <1>2, <1>3

LEMMA RouteInit == ASSUME SoleOwner PROVE Init => Route!Init
<1> SUFFICES ASSUME Init PROVE Route!Init
  OBVIOUS
<1>1. PICK o \in Owners : TRUE
  BY DEF SoleOwner
<1>2. RouteText = Content(host)
  BY <1>1, RouteTextIs DEF Init, RouteTextOf
<1>3. Content(host) \in HostTexts \cup {EmptyText}
  BY DEF Init, Content
<1> QED  BY <1>2, <1>3 DEF Route!Init

\* The abstract state does not move.
Stutters(o) == host' = host /\ RouteTextOf(o)' = RouteTextOf(o)

LEMMA RouteNext ==
  ASSUME SoleOwner, SparesTheWrite, TypeOK, UndoInv, HostInv, [Next]_vars
  PROVE  [Route!Next]_(Route!vars)
<1> USE DEF TypeOK, Goto, Return, disk, Callable, RouteTextOf, Content
<1>a. \A o \in Owners :
        /\ HostInvAt(o)
        /\ orig[o] # NoFile /\ Content(host) # NoFile /\ EmptyText # NoFile
  BY ConstantsAssumption, EmptyTextType, ContentType DEF HostInv
<1> USE DEF HostInvAt
<1>b. \A o \in Owners : RouteText = RouteTextOf(o) /\ RouteText' = RouteTextOf(o)'
  BY RouteTextIs
<1>c. ASSUME NEW o \in Owners, Stutters(o) PROVE UNCHANGED Route!vars
  BY <1>b, <1>c DEF Stutters, Route!vars
<1>1. CASE UNCHANGED vars
  BY <1>1 DEF vars, RouteText, Writing, Restoring, Route!vars
<1>2. CASE HostChange
  <2>1. PICK o \in Owners : TRUE
    BY DEF SoleOwner
  <2>2. Quiescent /\ file' = host' /\ host' \in HostTexts \cup {NoFile}
    BY <1>2 DEF HostChange, SparesTheWrite
  <2>3. pc'[o] = pc[o] /\ pc[o] \in {"down", "idle"}
    BY <1>2, <2>2 DEF HostChange, Quiescent
  <2>4. RouteTextOf(o)' = Content(host)' /\ Content(host)' \in HostTexts \cup {EmptyText}
    BY <2>2, <2>3
  <2> QED  BY <1>b, <2>4 DEF Route!HostChange, Route!Next
<1>3. ASSUME NEW o \in Owners, New(o) PROVE Stutters(o)
  BY <1>3, <1>a, <1>b DEF New, Stutters
<1>4. ASSUME NEW o \in Owners, NEW c \in Configs, SetBegin(o, c) PROVE Stutters(o)
  BY <1>4, <1>a DEF SetBegin, Stutters
<1>5. ASSUME NEW o \in Owners, SetRead(o) PROVE Stutters(o)
  BY <1>5, <1>a, <1>b DEF SetRead, Stutters
<1>6. ASSUME NEW o \in Owners, SetBackup(o) PROVE Stutters(o)
  BY <1>6, <1>a, <1>b DEF SetBackup, Stutters
<1>7. ASSUME NEW o \in Owners, SetTrunc(o) PROVE Route!Set
  <2>1. RouteTextOf(o)' = render(o, cfg[o], Content(host)) /\ host' = host
    BY <1>7, <1>a DEF SetTrunc
  <2>2. Directives(render(o, cfg[o], Content(host))) = OverrideView(cfg[o], Directives(Content(host)))
    BY DEF render, Directives, OverrideView
  <2>3. cfg[o] \in Configs
    BY <1>7, <1>a DEF SetTrunc, SetSteps
  <2> QED  BY <1>b, <2>1, <2>2, <2>3 DEF Route!Set
<1>8. ASSUME NEW o \in Owners, SetWrite(o) PROVE Stutters(o)
  <2>1. pc[o] = "write" /\ file' = render(o, cfg[o], orig[o])
    BY <1>8, <1>a DEF SetWrite
  <2>2. render(o, cfg[o], orig[o]) # NoFile
    BY RenderType, ConstantsAssumption
  <2> QED  BY <1>8, <2>1, <2>2 DEF SetWrite, Stutters
<1>9. ASSUME NEW o \in Owners, ResetNoop(o) PROVE Stutters(o)
  BY <1>9, <1>a, <1>b DEF ResetNoop, Stutters
<1>10. ASSUME NEW o \in Owners, ResetTakenOver(o) PROVE Stutters(o)
  BY <1>10, <1>a, <1>b DEF ResetTakenOver, Stutters
<1>11. ASSUME NEW o \in Owners, ResetBegin(o) PROVE Stutters(o)
  BY <1>11, <1>a, <1>b DEF ResetBegin, Stutters
<1>12. ASSUME NEW o \in Owners, ResetRemove(o) PROVE Route!Reset
  <2>1. RouteTextOf(o)' = Content(host) /\ host' = host
    BY <1>12, <1>a DEF ResetRemove
  <2> QED  BY <1>b, <2>1 DEF Route!Reset
<1>13. ASSUME NEW o \in Owners, ResetTrunc(o) PROVE Route!Reset
  <2>1. RouteTextOf(o)' = Content(host) /\ host' = host
    BY <1>13, <1>a DEF ResetTrunc
  <2> QED  BY <1>b, <2>1 DEF Route!Reset
<1>14. ASSUME NEW o \in Owners, ResetWrite(o) PROVE Stutters(o)
  BY <1>14, <1>a, <1>b DEF ResetWrite, Stutters
<1>15. ASSUME NEW o \in Owners, ResetUnlink(o) PROVE Stutters(o)
  BY <1>15, <1>a, <1>b DEF ResetUnlink, Stutters
<1>16. ASSUME NEW o \in Owners, Fail(o) PROVE Stutters(o)
  <2>1. pc[o] \notin {"write", "restore"}
    BY <1>16 DEF Fail, TornSteps, SparesTheWrite
  <2>2. pc'[o] \notin {"write", "restore"} /\ file' = file /\ host' = host
    BY <1>16 DEF Fail
  <2> QED  BY <2>1, <2>2 DEF Stutters
<1>17. ASSUME NEW o \in Owners, Crash(o) PROVE Stutters(o)
  <2>1. pc[o] \notin {"write", "restore"}
    BY <1>17 DEF Crash, TornSteps, SparesTheWrite
  <2>2. pc'[o] \notin {"write", "restore"} /\ file' = file /\ host' = host
    BY <1>17 DEF Crash
  <2> QED  BY <2>1, <2>2 DEF Stutters
<1> QED
  BY <1>1, <1>2, <1>3, <1>4, <1>5, <1>6, <1>7, <1>8, <1>9, <1>10, <1>11, <1>12,
     <1>13, <1>14, <1>15, <1>16, <1>17, <1>c DEF Next, Call, Route!Next

\* One owner, and no death or full disk between the halves of a write: at every
\* step, seen from outside, the backend is the DnsRoute the trait describes.
THEOREM StaticImplementsDnsRoute ==
  ASSUME SoleOwner, SparesTheWrite
  PROVE  Spec => ImplementsDnsRoute
<1>1. Init => Route!Init
  BY RouteInit
<1>2. TypeOK /\ UndoInv /\ HostInv /\ [Next]_vars => [Route!Next]_(Route!vars)
  BY RouteNext
<1> QED  BY <1>1, <1>2, HostInvariance, PTL DEF Spec, ImplementsDnsRoute, Route!Spec
=============================================================================
