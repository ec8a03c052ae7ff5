--------------------------- MODULE OperationsProofs ----------------------------
(***************************************************************************)
(* Theorems about OperationRegistry, for any set of actions and any number *)
(* of operations: its books are consistent, and what it shows about        *)
(* commands is what CommandVerdict promises.                               *)
(***************************************************************************)
EXTENDS Operations, TLAPS

-----------------------------------------------------------------------------
(* Type correctness *)

\* Every operation under way has a token of its own, no counter runs ahead of
\* the serial, and the result is one the sensor can show.
THEOREM TypeCorrect == Spec => []TypeOK
<1>1. Init => TypeOK
  BY MaxSerialAssumption DEF Init, TypeOK, Results
<1>2. TypeOK /\ [Next]_vars => TypeOK'
  <2> SUFFICES ASSUME TypeOK, [Next]_vars PROVE TypeOK'
    OBVIOUS
  <2>1. ASSUME NEW a \in Actions \cup {Sync}, Begin(a) PROVE TypeOK'
    <3> DEFINE new == [token |-> serial + 1, action |-> a]
    <3>1. serial' \in 0 .. MaxSerial /\ serial' = serial + 1
      BY <2>1, MaxSerialAssumption DEF Begin, TypeOK
    <3>2. running' = running \cup {new} /\ new \in Operation /\ new.token = serial + 1
      BY <2>1, MaxSerialAssumption DEF Begin, TypeOK, Operation
    <3>3. \A op \in running : op.token \in Nat /\ op.token <= serial
      BY MaxSerialAssumption DEF TypeOK, Operation
    <3>4. \A op, other \in running' :
             op.token <= serial' /\ (op.token = other.token => op = other)
      BY <3>1, <3>2, <3>3 DEF TypeOK
    <3>5. QED
      BY <2>1, <3>1, <3>2, <3>4, MaxSerialAssumption DEF Begin, TypeOK
  <2>2. ASSUME NEW op \in running, NEW ok \in BOOLEAN, End(op, ok) PROVE TypeOK'
    <3>1. running' = running \ {op} /\ serial' = serial
      BY <2>2 DEF End
    <3>2. op.token \in 0 .. serial /\ op.action \in Actions \cup {Sync}
      BY MaxSerialAssumption DEF TypeOK, Operation
    <3>3. result' \in Results
      BY <2>2, <3>2 DEF End, TypeOK, Results
    <3>4. resultSerial' \in 0 .. serial /\ commandSerial' \in 0 .. serial
      BY <2>2, <3>2, MaxSerialAssumption DEF End, TypeOK, Larger
    <3>5. QED
      BY <3>1, <3>3, <3>4 DEF TypeOK
  <2>3. CASE UNCHANGED vars
    BY <2>3 DEF vars, TypeOK
  <2>4. QED
    BY <2>1, <2>2, <2>3 DEF Next
<1>3. QED
  BY <1>1, <1>2, PTL DEF Spec

-----------------------------------------------------------------------------
(* The registry implements the promise about commands *)

Commands == {op.token : op \in {o \in running : o.action # Sync}}

\* A beginning operation opens a command, or none.
LEMMA BeginImplements ==
  ASSUME NEW a \in Actions \cup {Sync}, TypeOK, Begin(a)
  PROVE  Verdict!Begin
<1>1. running' = running \cup {[token |-> serial + 1, action |-> a]}
  BY DEF Begin
<1>2. CASE a = Sync
  <2>1. Commands' = Commands
    BY <1>1, <1>2 DEF Commands
  <2>2. QED
    BY <2>1 DEF Begin, Verdict!Begin, Commands, CommandError
<1>3. CASE a # Sync
  <2> DEFINE new == [token |-> serial + 1, action |-> a]
  <2>1. Commands' = Commands \cup {serial + 1}
    <3>1. new.token = serial + 1 /\ new.action # Sync
      BY <1>3
    <3>2. {o \in running' : o.action # Sync} = {o \in running : o.action # Sync} \cup {new}
      BY <1>1, <3>1
    <3>3. QED
      BY <3>1, <3>2 DEF Commands
  <2>2. QED
    BY <2>1 DEF Begin, Verdict!Begin, Commands, CommandError
<1>4. QED
  BY <1>2, <1>3

\* An ending synchronisation is no step of the promise: a command's error stays.
LEMMA SyncEndsSilently ==
  ASSUME NEW op \in running, NEW ok \in BOOLEAN, TypeOK, End(op, ok), op.action = Sync
  PROVE  UNCHANGED <<serial, Commands, commandSerial, CommandError>>
<1>1. Commands' = Commands
  BY DEF End, Commands
<1>2. CommandError' <=> CommandError
  BY DEF End, Publishes, CommandError, Idle, Error
<1>3. QED
  BY <1>1, <1>2 DEF End, CommandError

\* An ending command gives the verdict if no newer one has, and only then.
LEMMA CommandEndImplements ==
  ASSUME NEW op \in running, NEW ok \in BOOLEAN, TypeOK, End(op, ok), op.action # Sync
  PROVE  op.token \in Commands /\ Verdict!End(op.token)
<1>1. op.token \in Commands
  BY DEF Commands
<1>2. Commands' = Commands \ {op.token}
  BY DEF End, Commands, TypeOK
<1>3. op.token \in Nat /\ commandSerial \in Nat
  BY MaxSerialAssumption DEF TypeOK, Operation
<1>4. CASE commandSerial <= op.token
  <2>1. commandSerial' = op.token /\ CommandError' \in BOOLEAN
    BY <1>4 DEF End, Publishes, CommandError
  <2>2. QED
    BY <1>1, <1>2, <1>4, <2>1 DEF Verdict!End, Commands, End
<1>5. CASE op.token < commandSerial
  <2>1. UNCHANGED <<commandSerial, result>>
    BY <1>3, <1>5 DEF End, Publishes
  <2>2. QED
    BY <1>1, <1>2, <1>5, <2>1 DEF Verdict!End, Commands, End, CommandError
<1>6. QED
  BY <1>3, <1>4, <1>5

\* The verdict on show is that of the newest command that has ended: neither a
\* late command nor any synchronisation replaces it.
THEOREM RegistryImplementsVerdict == Spec => ImplementsVerdict
<1>1. Init => Verdict!Init
  BY DEF Init, Verdict!Init, CommandError, Idle
<1>2. TypeOK /\ [Next]_vars => [Verdict!Next]_(Verdict!vars)
  <2> SUFFICES ASSUME TypeOK, [Next]_vars PROVE [Verdict!Next]_(Verdict!vars)
    OBVIOUS
  <2>1. ASSUME NEW a \in Actions \cup {Sync}, Begin(a) PROVE Verdict!Next
    BY <2>1, BeginImplements DEF Verdict!Next
  <2>2. ASSUME NEW op \in running, NEW ok \in BOOLEAN, End(op, ok)
        PROVE  [Verdict!Next]_(Verdict!vars)
    <3>1. CASE op.action = Sync
      BY <2>2, <3>1, SyncEndsSilently DEF Verdict!vars, Commands
    <3>2. CASE op.action # Sync
      BY <2>2, <3>2, CommandEndImplements DEF Verdict!Next, Commands
    <3>3. QED
      BY <3>1, <3>2
  <2>3. CASE UNCHANGED vars
    BY <2>3 DEF vars, Verdict!vars, CommandError
  <2>4. QED
    BY <2>1, <2>2, <2>3 DEF Next
<1>3. QED
  BY <1>1, <1>2, TypeCorrect, PTL DEF Spec, ImplementsVerdict, Verdict!Spec
=============================================================================
