-------------------------- MODULE ResolvconfProofs --------------------------
(***************************************************************************)
(* Theorems about Resolvconf, for any owners, configs, name limit, number  *)
(* of strays and faults.  Those about records are for owners that have     *)
(* their name to themselves, as two programs of one name share a record.   *)
(***************************************************************************)
EXTENDS Resolvconf, FiniteSetTheorems, TLAPS

\* No other owner is given the name of this one.
Alone(o) == \A p \in Owners : registration_name(p) = registration_name(o) => p = o

NamesDiffer == \A o \in Owners : Alone(o)

-----------------------------------------------------------------------------
(* Types. *)

\* Strays are counted, so there are finitely many; only a child with a record to be
\* told of is fed.
Typed ==
  /\ TypeOK
  /\ \A o \in Owners : IsFiniteSet(strays[o])
  /\ \A o \in Owners : pc[o] = "feed" => child[o].op = "-a"

\* Every owner's name is one of the names.
LEMMA NamesOfOwners ==
  ASSUME NEW o \in Owners
  PROVE  registration_name(o) \in Names
  BY DEF Names

\* What a command is made of.
LEMMA CommandFields ==
  ASSUME NEW c \in Commands
  PROVE  /\ c # NoChild
         /\ c.name \in Names /\ c.op \in {"-a", "-d"}
         /\ c.op = "-a" => c.input \in Configs \cup {NoInput}
  BY ConstantsAssumption DEF Commands

\* The commands set() and reset() start their children with.
LEMMA NewCommands ==
  ASSUME NEW n \in Names
  PROVE  /\ [op |-> "-a", name |-> n, input |-> NoInput] \in Commands
         /\ [op |-> "-d", name |-> n] \in Commands
  BY DEF Commands

\* Feeding a child tells it of the config, and of nothing else.
LEMMA FedCommand ==
  ASSUME NEW c \in Commands, c.op = "-a", NEW x \in Configs \cup {NoInput}
  PROVE  LET fed == [c EXCEPT !.input = x] IN
         /\ fed \in Commands
         /\ fed.op = "-a" /\ fed.name = c.name /\ fed.input = x
  BY DEF Commands

\* A child's work is on the record of its name.
LEMMA WorkTurns ==
  ASSUME TypeOK, NEW c \in Commands, Work(c)
  PROVE  /\ registry' \in [Names -> Records]
         /\ registry'[c.name] = IF c.op = "-a" THEN c.input ELSE NoRecord
         /\ \A n \in Names : n # c.name => registry'[n] = registry[n]
  BY CommandFields DEF TypeOK, Work, Records

\* A child that is left becomes a stray if it has not exited, and there is room for it.
LEMMA LeaveTurns ==
  ASSUME Typed, NEW o \in Owners, pc[o] # "idle", Leave(o)
  PROVE  /\ strays' \in [Owners -> SUBSET Commands]
         /\ \A p \in Owners : IsFiniteSet(strays'[p]) /\ Cardinality(strays'[p]) <= MaxStrays
         /\ child' = [child EXCEPT ![o] = NoChild] /\ exit' = exit
<1>1. child[o] \in Commands
  BY DEF Typed, TypeOK
<1>2. CASE exit[o] # "running"
  BY <1>2 DEF Typed, TypeOK, Leave
<1>3. CASE exit[o] = "running"
  <2>1. Cardinality(strays[o]) < MaxStrays /\ strays' = [strays EXCEPT ![o] = @ \cup {child[o]}]
    BY <1>3 DEF Leave
  <2>2. /\ IsFiniteSet(strays[o] \cup {child[o]})
        /\ Cardinality(strays[o] \cup {child[o]}) <= MaxStrays
    <3>1. IsFiniteSet(strays[o]) /\ MaxStrays \in Nat
      BY ConstantsAssumption DEF Typed
    <3>2. Cardinality(strays[o]) \in Nat
      BY <3>1, FS_CardinalityType
    <3>3. /\ IsFiniteSet(strays[o] \cup {child[o]})
          /\ \/ Cardinality(strays[o] \cup {child[o]}) = Cardinality(strays[o])
             \/ Cardinality(strays[o] \cup {child[o]}) = Cardinality(strays[o]) + 1
      BY <3>1, FS_AddElement, Zenon
    <3> QED
      BY <2>1, <3>1, <3>2, <3>3
  <2> QED
    BY <1>1, <2>1, <2>2 DEF Typed, TypeOK, Leave
<1> QED
  BY <1>2, <1>3

\* Every variable starts out well typed.
LEMMA TypeInit ==
  Init => Typed
<1> SUFFICES ASSUME Init PROVE Typed
  OBVIOUS
<1>1. \A o \in Owners : strays[o] = {}
  BY DEF Init
<1>2. \A o \in Owners : IsFiniteSet(strays[o]) /\ Cardinality(strays[o]) <= MaxStrays
  BY <1>1, FS_EmptySet, ConstantsAssumption
<1> QED
  BY <1>2 DEF Init, Typed, TypeOK, Records

\* Every step keeps the types.
LEMMA TypeNext ==
  Typed /\ [Next]_vars => Typed'
<1> SUFFICES ASSUME Typed, [Next]_vars PROVE Typed'
  OBVIOUS
<1>0. CASE UNCHANGED vars
  BY <1>0 DEF Typed, TypeOK, vars, children
<1>1. ASSUME NEW o \in Owners, NEW c \in Configs, SetBegin(o, c)
      PROVE  Typed'
  <2> DEFINE command == [op |-> "-a", name |-> registration_name(o), input |-> NoInput]
  <2>1. command \in Commands /\ command # NoChild /\ command.op = "-a"
    BY NamesOfOwners, NewCommands, CommandFields
  <2> HIDE DEF command
  <2>2. CASE Spawn(o, command, "feed")
    BY <1>1, <2>1, <2>2 DEF Typed, TypeOK, SetBegin, Muddle, Spawn
  <2>3. CASE Return(o, "setErr") /\ UNCHANGED children
    BY <1>1, <2>3 DEF Typed, TypeOK, SetBegin, Muddle, Return, children
  <2> QED
    BY <1>1, <2>2, <2>3 DEF SetBegin, command
<1>2. ASSUME NEW o \in Owners, Feed(o)
      PROVE  Typed'
  <2>1. child[o] \in Commands /\ child[o].op = "-a"
    BY <1>2 DEF Typed, TypeOK, Feed
  <2>2. CASE child' = [child EXCEPT ![o] = [@ EXCEPT !.input = cfg[o]]]
             /\ pc' = [pc EXCEPT ![o] = "wait"] /\ UNCHANGED <<strays, exit, ret>>
    <3>1. cfg[o] \in Configs \cup {NoInput}
      BY DEF Typed, TypeOK
    <3>2. /\ child'[o] \in Commands /\ child'[o] # NoChild
          /\ child' \in [Owners -> Commands \cup {NoChild}]
          /\ \A p \in Owners : p # o => child'[p] = child[p]
      BY <2>1, <2>2, <3>1, FedCommand, CommandFields DEF Typed, TypeOK
    <3> QED
      BY <1>2, <2>2, <3>2 DEF Typed, TypeOK, Feed
  <2>3. CASE Leave(o) /\ Return(o, "setErr")
    BY <1>2, <2>3, LeaveTurns DEF Typed, TypeOK, Feed, Return
  <2> QED
    BY <1>2, <2>2, <2>3 DEF Feed
<1>3. ASSUME NEW o \in Owners, SetWait(o) \/ ResetWait(o)
      PROVE  Typed'
  <2>1. /\ Reap(o) /\ UNCHANGED <<registry, cfg, muddled>>
        /\ \E r \in {"setOk", "setErr", "resetOk", "resetErr"} : Return(o, r)
        /\ active' = active \/ active' = [active EXCEPT ![o] = TRUE]
        /\ owed' = owed \/ owed' = owed \cup {o} \/ owed' = owed \ {o}
    BY <1>3, Zenon DEF SetWait, ResetWait
  <2>2. active' \in [Owners -> BOOLEAN] /\ owed' \subseteq Owners
    BY <2>1 DEF Typed, TypeOK
  <2>3. /\ pc' \in [Owners -> {"idle", "feed", "wait"}]
        /\ ret' \in [Owners -> {"none", "setOk", "setErr", "resetOk", "resetErr"}]
        /\ child' \in [Owners -> Commands \cup {NoChild}]
    BY <2>1 DEF Typed, TypeOK, Reap, Return
  <2> QED
    BY <2>1, <2>2, <2>3 DEF Typed, TypeOK, Reap, Return
<1>4. ASSUME NEW o \in Owners, ResetNoop(o)
      PROVE  Typed'
  BY <1>4 DEF Typed, TypeOK, ResetNoop, Return, children
<1>5. ASSUME NEW o \in Owners, ResetBegin(o)
      PROVE  Typed'
  <2> DEFINE command == [op |-> "-d", name |-> registration_name(o)]
  <2>1. command \in Commands /\ command # NoChild
    BY NamesOfOwners, NewCommands, CommandFields
  <2> HIDE DEF command
  <2>2. CASE Spawn(o, command, "wait")
    BY <1>5, <2>1, <2>2 DEF Typed, TypeOK, ResetBegin, Muddle, Spawn
  <2>3. CASE Return(o, "resetErr") /\ UNCHANGED children
    BY <1>5, <2>3 DEF Typed, TypeOK, ResetBegin, Muddle, Return, children
  <2> QED
    BY <1>5, <2>2, <2>3 DEF ResetBegin, command
<1>6. ASSUME NEW o \in Owners, ChildWorks(o)
      PROVE  Typed'
  <2>1. child[o] \in Commands
    BY <1>6 DEF Typed, TypeOK, ChildWorks
  <2>2. registry' \in [Names -> Records]
    BY <1>6, <2>1, WorkTurns DEF Typed, TypeOK, ChildWorks
  <2> QED
    BY <1>6, <2>2 DEF Typed, TypeOK, ChildWorks
<1>7. ASSUME NEW o \in Owners, NEW c \in strays[o], StrayWorks(o, c)
      PROVE  Typed'
  <2>1. c \in Commands
    BY DEF Typed, TypeOK
  <2>2. registry' \in [Names -> Records]
    BY <1>7, <2>1, WorkTurns DEF Typed, TypeOK, StrayWorks
  <2>3. /\ IsFiniteSet(strays[o] \ {c})
        /\ Cardinality(strays[o] \ {c}) <= MaxStrays
    <3>1. /\ IsFiniteSet(strays[o]) /\ MaxStrays \in Nat
          /\ Cardinality(strays[o]) <= MaxStrays
      BY ConstantsAssumption DEF Typed, TypeOK
    <3>2. Cardinality(strays[o]) \in Nat
      BY <3>1, FS_CardinalityType
    <3>3. /\ IsFiniteSet(strays[o] \ {c})
          /\ Cardinality(strays[o] \ {c}) = Cardinality(strays[o]) - 1
      BY <3>1, FS_RemoveElement, Zenon
    <3> QED
      BY <3>1, <3>2, <3>3
  <2> QED
    BY <1>7, <2>2, <2>3 DEF Typed, TypeOK, StrayWorks
<1>8. ASSUME NEW o \in Owners, Cancel(o) \/ Crash(o)
      PROVE  Typed'
  <2>1. CASE pc[o] = "idle"
    BY <1>8, <2>1, ZenonT(60) DEF Typed, TypeOK, Cancel, Crash, Abandon, Return, children
  <2>2. CASE pc[o] # "idle"
    <3>1. Leave(o)
      BY <1>8, <2>2 DEF Cancel, Crash, Abandon
    <3>2. /\ strays' \in [Owners -> SUBSET Commands]
          /\ \A p \in Owners : IsFiniteSet(strays'[p]) /\ Cardinality(strays'[p]) <= MaxStrays
          /\ child' = [child EXCEPT ![o] = NoChild] /\ exit' = exit
      BY <2>2, <3>1, LeaveTurns
    <3>3. /\ Return(o, "none") /\ UNCHANGED <<registry, cfg>>
          /\ muddled' = muddled \cup {o} /\ owed' \subseteq owed
          /\ active' = active \/ active' = [active EXCEPT ![o] = FALSE]
      BY <1>8, <2>2 DEF Cancel, Crash, Abandon
    <3> QED
      BY <3>2, <3>3 DEF Typed, TypeOK, Return
  <2> QED
    BY <2>1, <2>2
<1> QED
  BY <1>0, <1>1, <1>2, <1>3, <1>4, <1>5, <1>6, <1>7, <1>8 DEF Next, Call, Child

\* The types hold throughout.
LEMMA TypeInvariance ==
  Spec => []Typed
  BY TypeInit, TypeNext, PTL DEF Spec

\* The calls and their children keep their types, whatever fails.
THEOREM TypeCorrect ==
  Spec => []TypeOK
<1>1. Typed => TypeOK
  BY DEF Typed
<1> QED
  BY <1>1, TypeInvariance, PTL
-----------------------------------------------------------------------------
(* Records. *)

\* A child at work on an owner's behalf works on that owner's record, and so does a
\* stray of its.
NamesInv(o) ==
  /\ child[o] # NoChild => child[o].name = registration_name(o)
  /\ \A c \in strays[o] : c.name = registration_name(o)

\* How far a call has come, and what its child has been told.
CallInv(o) ==
  /\ pc[o] # "idle" => ret[o] = "none"
  /\ pc[o] = "feed" => exit[o] = "running"
  /\ pc[o] = "wait" /\ child[o].op = "-a" => child[o].input = cfg[o]
  /\ strays[o] # {} => o \in muddled

\* What the record of an owner is, as far as no stray can have changed it.
RecordInv(o) ==
  LET record == registry[registration_name(o)] IN
  o \notin muddled =>
    /\ pc[o] = "wait" /\ exit[o] = "ok" =>
         record = IF child[o].op = "-a" THEN cfg[o] ELSE NoRecord
    /\ ret[o] = "setOk" => record = cfg[o]
    /\ ret[o] = "resetOk" /\ o \in owed => record = NoRecord

\* An instance knows of the record it owes the removal of, unless its reset() is at it
\* or has removed it.
OwedInv(o) ==
  o \in owed =>
    active[o] \/ ret[o] = "resetOk" \/ (pc[o] = "wait" /\ child[o].op = "-d")

OwnInv(o) == NamesInv(o) /\ CallInv(o) /\ RecordInv(o) /\ OwedInv(o)

\* An owner with a namesake may find its record changed, but keeps to its name.
IInv ==
  /\ \A o \in Owners : NamesInv(o)
  /\ \A o \in Owners : Alone(o) => OwnInv(o)

Step(o) == Call(o) \/ Child(o) \/ Cancel(o) \/ Crash(o)

\* What a step of somebody else leaves of an owner's.
Keeps(o) ==
  /\ child'[o] = child[o] /\ strays'[o] = strays[o] /\ exit'[o] = exit[o]
  /\ pc'[o] = pc[o] /\ active'[o] = active[o] /\ cfg'[o] = cfg[o] /\ ret'[o] = ret[o]
  /\ (o \in owed') = (o \in owed) /\ (o \in muddled') = (o \in muddled)

\* A step of one owner leaves the call, the children and the history of every other
\* alone.
LEMMA StepIsOwn ==
  ASSUME Typed, NEW o \in Owners, NEW p \in Owners, p # o, Step(o)
  PROVE  Keeps(p)
<1> USE DEF Typed, TypeOK, Keeps
<1>1. ASSUME NEW c \in Configs, SetBegin(o, c)
      PROVE  Keeps(p)
  BY <1>1 DEF SetBegin, Muddle, Spawn, Return, children
<1>2. CASE Feed(o)
  BY <1>2 DEF Feed, Leave, Return
<1>3. CASE SetWait(o) \/ ResetWait(o)
  BY <1>3 DEF SetWait, ResetWait, Reap, Return
<1>4. CASE ResetNoop(o)
  BY <1>4 DEF ResetNoop, Return, children
<1>5. CASE ResetBegin(o)
  BY <1>5 DEF ResetBegin, Muddle, Spawn, Return, children
<1>6. CASE ChildWorks(o)
  BY <1>6 DEF ChildWorks
<1>7. ASSUME NEW c \in strays[o], StrayWorks(o, c)
      PROVE  Keeps(p)
  BY <1>7 DEF StrayWorks
<1>8. CASE Cancel(o) \/ Crash(o)
  BY <1>8 DEF Cancel, Crash, Abandon, Leave, Return, children
<1> QED
  BY <1>1, <1>2, <1>3, <1>4, <1>5, <1>6, <1>7, <1>8 DEF Step, Call, Child

\* Nor does it touch their records: it changes the one of its own name, and only as its
\* child exits or a stray of its comes to an end.
LEMMA StepIsOnRecord ==
  ASSUME Typed, NEW o \in Owners, NamesInv(o), Step(o)
  PROVE  /\ \A n \in Names : n # registration_name(o) => registry'[n] = registry[n]
         /\ registry' # registry => exit'[o] # exit[o] \/ strays'[o] # strays[o]
<1>1. CASE ChildWorks(o)
  <2>1. child[o] \in Commands /\ child[o].name = registration_name(o)
    BY <1>1 DEF Typed, TypeOK, ChildWorks, NamesInv
  <2> QED
    BY <1>1, <2>1, WorkTurns DEF Typed, TypeOK, ChildWorks
<1>2. ASSUME NEW c \in strays[o], StrayWorks(o, c)
      PROVE  /\ \A n \in Names : n # registration_name(o) => registry'[n] = registry[n]
             /\ strays'[o] # strays[o]
  <2>1. c \in Commands /\ c.name = registration_name(o)
    BY DEF Typed, TypeOK, NamesInv
  <2> QED
    BY <1>2, <2>1, WorkTurns DEF Typed, TypeOK, StrayWorks
<1>3. CASE ~ChildWorks(o) /\ ~(\E c \in strays[o] : StrayWorks(o, c))
  <2>1. registry' = registry
    BY <1>3, Zenon DEF Step, Call, Child, SetBegin, Feed, SetWait, ResetNoop, ResetBegin,
                       ResetWait, Cancel, Crash
  <2> QED
    BY <2>1
<1> QED
  BY <1>1, <1>2, <1>3

\* Every child that is spawned, and every stray that one becomes, keeps to the name of
\* its owner.
LEMMA OwnStepKeepsNames ==
  ASSUME Typed, NEW o \in Owners, NamesInv(o), Step(o)
  PROVE  NamesInv(o)'
<1> USE DEF Typed, TypeOK, NamesInv
<1>1. ASSUME NEW c \in Configs, SetBegin(o, c)
      PROVE  NamesInv(o)'
  BY <1>1 DEF SetBegin, Muddle, Spawn, Return, children
<1>2. CASE Feed(o)
  <2>1. child[o] \in Commands /\ child[o].op = "-a" /\ cfg[o] \in Configs \cup {NoInput}
    BY <1>2 DEF Feed
  <2>2. CASE child' = [child EXCEPT ![o] = [@ EXCEPT !.input = cfg[o]]] /\ strays' = strays
    <3>1. child'[o].name = child[o].name
      BY <2>1, <2>2, FedCommand
    <3> QED
      BY <2>1, <2>2, <3>1, CommandFields
  <2>3. CASE Leave(o)
    BY <2>1, <2>3, CommandFields DEF Leave
  <2> QED
    BY <1>2, <2>2, <2>3 DEF Feed
<1>3. CASE SetWait(o) \/ ResetWait(o)
  BY <1>3 DEF SetWait, ResetWait, Reap, Return
<1>4. CASE ResetNoop(o)
  BY <1>4 DEF ResetNoop, Return, children
<1>5. CASE ResetBegin(o)
  BY <1>5 DEF ResetBegin, Muddle, Spawn, Return, children
<1>6. CASE ChildWorks(o)
  BY <1>6 DEF ChildWorks
<1>7. ASSUME NEW c \in strays[o], StrayWorks(o, c)
      PROVE  NamesInv(o)'
  BY <1>7 DEF StrayWorks
<1>8. CASE Cancel(o) \/ Crash(o)
  BY <1>8 DEF Cancel, Crash, Abandon, Leave, Return, children
<1> QED
  BY <1>1, <1>2, <1>3, <1>4, <1>5, <1>6, <1>7, <1>8 DEF Step, Call, Child

\* A step of an owner keeps what its own call, children and record rely on.
LEMMA OwnStepKeepsOwn ==
  ASSUME Typed, NEW o \in Owners, OwnInv(o), Step(o)
  PROVE  OwnInv(o)'
<1> USE DEF OwnInv
<1>1. ASSUME NEW c \in Configs, SetBegin(o, c)
      PROVE  OwnInv(o)'
  <2> DEFINE command == [op |-> "-a", name |-> registration_name(o), input |-> NoInput]
  <2>1. command.name = registration_name(o) /\ command.op = "-a"
    OBVIOUS
  <2> HIDE DEF command
  <2>2. CASE Spawn(o, command, "feed")
    <3>1. /\ child'[o] = command /\ strays'[o] = strays[o] /\ exit'[o] = "running"
          /\ pc'[o] = "feed" /\ ret'[o] = "none" /\ active'[o] = active[o]
      BY <1>1, <2>2 DEF SetBegin, Spawn, Typed, TypeOK
    <3>2. o \in owed' => active[o]
      BY <1>1 DEF SetBegin, OwedInv, CallInv
    <3>3. strays[o] # {} => o \in muddled'
      BY <1>1 DEF SetBegin, Muddle
    <3> QED
      BY <2>1, <3>1, <3>2, <3>3 DEF NamesInv, CallInv, RecordInv, OwedInv
  <2>3. CASE Return(o, "setErr") /\ UNCHANGED children
    <3>1. /\ child'[o] = child[o] /\ strays'[o] = strays[o] /\ exit'[o] = exit[o]
          /\ pc'[o] = "idle" /\ ret'[o] = "setErr" /\ active'[o] = active[o]
      BY <1>1, <2>3 DEF SetBegin, Return, children, Typed, TypeOK
    <3>2. o \in owed' => active[o]
      BY <1>1 DEF SetBegin, OwedInv
    <3>3. strays[o] # {} => o \in muddled'
      BY <1>1 DEF SetBegin, Muddle
    <3> QED
      BY <3>1, <3>2, <3>3 DEF NamesInv, CallInv, RecordInv, OwedInv
  <2> QED
    BY <1>1, <2>2, <2>3 DEF SetBegin, command
<1>2. CASE Feed(o)
  <2>1. child[o] \in Commands /\ child[o].op = "-a" /\ child[o] # NoChild
    BY <1>2, CommandFields DEF Typed, TypeOK, Feed
  <2>2. CASE child' = [child EXCEPT ![o] = [@ EXCEPT !.input = cfg[o]]]
             /\ pc' = [pc EXCEPT ![o] = "wait"] /\ UNCHANGED <<strays, exit, ret>>
    <3>1. cfg[o] \in Configs \cup {NoInput}
      BY DEF Typed, TypeOK
    <3>2. /\ child'[o].op = "-a" /\ child'[o].name = child[o].name
          /\ child'[o].input = cfg[o]
      BY <2>1, <2>2, <3>1, FedCommand DEF Typed, TypeOK
    <3>3. /\ pc'[o] = "wait" /\ muddled' = muddled
          /\ UNCHANGED <<strays, exit, ret, registry, active, cfg, owed>>
      BY <1>2, <2>2 DEF Feed, Typed, TypeOK
    <3> QED
      BY <1>2, <2>1, <3>2, <3>3 DEF Feed, NamesInv, CallInv, RecordInv, OwedInv
  <2>3. CASE Leave(o) /\ Return(o, "setErr")
    <3>1. /\ child'[o] = NoChild /\ pc'[o] = "idle" /\ ret'[o] = "setErr"
          /\ strays'[o] = strays[o] \cup {child[o]} /\ o \in muddled'
          /\ active' = active /\ owed' = owed
      BY <1>2, <2>3 DEF Feed, Leave, Return, CallInv, Typed, TypeOK
    <3> QED
      BY <1>2, <2>1, <3>1 DEF Feed, NamesInv, CallInv, RecordInv, OwedInv
  <2> QED
    BY <1>2, <2>2, <2>3 DEF Feed
<1>3. CASE SetWait(o)
  BY <1>3 DEF SetWait, Reap, Return, NamesInv, CallInv, RecordInv, OwedInv, Typed, TypeOK
<1>4. CASE ResetWait(o)
  BY <1>4 DEF ResetWait, Reap, Return, NamesInv, CallInv, RecordInv, OwedInv, Typed, TypeOK
<1>5. CASE ResetNoop(o)
  BY <1>5 DEF ResetNoop, Return, children, NamesInv, CallInv, RecordInv, OwedInv,
              Typed, TypeOK
<1>6. CASE ResetBegin(o)
  <2> DEFINE command == [op |-> "-d", name |-> registration_name(o)]
  <2>1. command.name = registration_name(o) /\ command.op = "-d"
    OBVIOUS
  <2> HIDE DEF command
  <2>2. CASE Spawn(o, command, "wait") /\ owed' = owed
    BY <1>6, <2>1, <2>2 DEF ResetBegin, Muddle, Spawn, NamesInv, CallInv, RecordInv, OwedInv,
                            Typed, TypeOK
  <2>3. CASE Return(o, "resetErr") /\ owed' = owed \ {o} /\ UNCHANGED children
    BY <1>6, <2>3 DEF ResetBegin, Muddle, Return, children, NamesInv, CallInv, RecordInv,
                      OwedInv, Typed, TypeOK
  <2> QED
    BY <1>6, <2>2, <2>3 DEF ResetBegin, command
<1>7. CASE ChildWorks(o)
  <2>1. child[o] \in Commands /\ child[o] # NoChild /\ child[o].name = registration_name(o)
    BY <1>7, CommandFields DEF Typed, TypeOK, ChildWorks, NamesInv
  <2>2. /\ pc[o] = "wait" /\ ret[o] = "none"
        /\ UNCHANGED <<strays, child, pc, active, cfg, ret, owed, muddled>>
    BY <1>7 DEF ChildWorks, CallInv
  <2>3. exit'[o] = "ok" =>
          registry'[registration_name(o)] = IF child[o].op = "-a" THEN cfg[o] ELSE NoRecord
    BY <1>7, <2>1, <2>2, WorkTurns DEF ChildWorks, CallInv, Typed, TypeOK
  <2> QED
    BY <2>2, <2>3 DEF NamesInv, CallInv, RecordInv, OwedInv
<1>8. ASSUME NEW c \in strays[o], StrayWorks(o, c)
      PROVE  OwnInv(o)'
  <2>1. /\ strays'[o] = strays[o] \ {c} /\ o \in muddled
        /\ UNCHANGED <<child, exit, pc, active, cfg, ret, owed, muddled>>
    BY <1>8 DEF StrayWorks, CallInv, Typed, TypeOK
  <2> QED
    BY <2>1 DEF NamesInv, CallInv, RecordInv, OwedInv
<1>9. CASE Cancel(o) \/ Crash(o)
  <2>1. CASE pc[o] = "idle"
    BY <1>9, <2>1 DEF Cancel, Crash, Abandon, Return, children, NamesInv, CallInv, RecordInv,
                      OwedInv, Typed, TypeOK
  <2>2. CASE pc[o] # "idle"
    <3>1. child[o] # NoChild /\ child[o] \in Commands
      BY <2>2 DEF Typed, TypeOK
    <3>2. child[o].op \in {"-a", "-d"}
      BY <3>1, CommandFields
    <3>3. /\ child'[o] = NoChild /\ pc'[o] = "idle" /\ ret'[o] = "none"
          /\ strays'[o] = strays[o] \/ strays'[o] = strays[o] \cup {child[o]}
          /\ o \in muddled'
      BY <1>9, <2>2 DEF Cancel, Crash, Abandon, Leave, Return, Typed, TypeOK
    <3>4. o \in owed' => active'[o]
      BY <1>9, <2>2, <3>2 DEF Cancel, Crash, Op, CallInv, OwedInv, Typed, TypeOK
    <3> QED
      BY <3>1, <3>3, <3>4 DEF NamesInv, CallInv, RecordInv, OwedInv
  <2> QED
    BY <2>1, <2>2
<1> QED
  BY <1>1, <1>2, <1>3, <1>4, <1>5, <1>6, <1>7, <1>8, <1>9 DEF Step, Call, Child

\* Nothing is registered at first, and nobody is at work.
LEMMA InvInit ==
  Init => IInv
  BY DEF Init, IInv, OwnInv, NamesInv, CallInv, RecordInv, OwedInv

\* A step of one owner keeps what every other relies on that has its name to itself.
LEMMA InvNext ==
  ASSUME Typed, IInv, [Next]_vars
  PROVE  IInv'
<1>1. CASE UNCHANGED vars
  BY <1>1 DEF vars, children, IInv, Alone, OwnInv, NamesInv, CallInv, RecordInv, OwedInv
<1>2. ASSUME NEW o \in Owners, Step(o), NEW p \in Owners
      PROVE  NamesInv(p)'
  <2>1. CASE p = o
    BY <1>2, <2>1, OwnStepKeepsNames DEF IInv
  <2>2. CASE p # o
    BY <1>2, <2>2, StepIsOwn DEF IInv, Keeps, NamesInv
  <2> QED
    BY <2>1, <2>2
<1>3. ASSUME NEW o \in Owners, Step(o), NEW p \in Owners, Alone(p)
      PROVE  OwnInv(p)'
  <2>1. CASE p = o
    BY <1>3, <2>1, OwnStepKeepsOwn DEF IInv
  <2>2. CASE p # o
    <3>1. Keeps(p)
      BY <1>3, <2>2, StepIsOwn
    <3>2. registry'[registration_name(p)] = registry[registration_name(p)]
      BY <1>3, <2>2, StepIsOnRecord, NamesOfOwners DEF Alone, IInv
    <3> QED
      BY <1>3, <3>1, <3>2 DEF IInv, OwnInv, Keeps, NamesInv, CallInv, RecordInv, OwedInv
  <2> QED
    BY <2>1, <2>2
<1> QED
  BY <1>1, <1>2, <1>3 DEF Next, Step, IInv, Alone

\* So it holds throughout.
LEMMA Invariance ==
  Spec => [](Typed /\ IInv)
<1>1. Typed /\ IInv /\ [Next]_vars => Typed' /\ IInv'
  BY TypeNext, InvNext
<1> QED
  BY <1>1, TypeInit, InvInit, PTL DEF Spec

\* What an owner that has its name to itself is promised of its record, after a set()
\* and after a reset(), as long as no stray of its own may have interfered.
Served(o) ==
  LET record == registry[registration_name(o)] IN
  o \notin muddled =>
    /\ ret[o] = "setOk" => record = cfg[o]
    /\ ret[o] = "resetOk" /\ o \in owed => record = NoRecord

\* It keeps what it was promised however many namesakes there are among the others, and
\* whatever they do to each other's records: a clash of names is theirs alone.
THEOREM LoneOwnersAreServed ==
  Spec => [](\A o \in Owners : Alone(o) => Served(o))
<1>1. IInv => \A o \in Owners : Alone(o) => Served(o)
  BY DEF IInv, OwnInv, RecordInv, Served
<1> QED
  BY <1>1, Invariance, PTL

\* For owners whose names differ, however many there are: what a set() that returned Ok
\* was given is what is registered, whatever the other owners do and whatever failed
\* before, once no abandoned call of the same owner is still at work.
THEOREM SetsAreInPlace ==
  ASSUME NamesDiffer
  PROVE  Spec => []SetOkInPlace
<1>1. (\A o \in Owners : Alone(o) => Served(o)) => SetOkInPlace
  BY NamesDiffer DEF NamesDiffer, Served, SetOkInPlace
<1> QED
  BY <1>1, LoneOwnersAreServed, PTL

\* And a reset() that returns Ok has removed what the set() that returned Ok
\* registered, under the same condition, unless an earlier reset() failed.
THEOREM ResetsUndo ==
  ASSUME NamesDiffer
  PROVE  Spec => []ResetUndoesSet
<1>1. (\A o \in Owners : Alone(o) => Served(o)) => ResetUndoesSet
  BY NamesDiffer DEF NamesDiffer, Served, ResetUndoesSet
<1> QED
  BY <1>1, LoneOwnersAreServed, PTL
=============================================================================
