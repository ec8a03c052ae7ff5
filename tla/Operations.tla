------------------------------ MODULE Operations -------------------------------
(***************************************************************************)
(* OperationRegistry (operations.py): the operations under way and the     *)
(* last published result, which the operation sensor and the card show.    *)
(* Every operation runs through the context manager, so it begins once,    *)
(* ends once, and an abort ends it as an error.  Targets and error texts   *)
(* are left out.                                                           *)
(***************************************************************************)
EXTENDS Naturals

CONSTANTS Actions,    \* action names of commands, e.g. "temperature"
          Sync,       \* the action name "sync"
          MaxSerial   \* bound on the operations in one behaviour

ASSUME SyncAssumption == Sync \notin Actions
ASSUME MaxSerialAssumption == MaxSerial \in Nat

VARIABLES running,        \* _running: the open operations
          serial,         \* _serial
          result,         \* _result: "idle", or the action that failed
          resultSerial,   \* _result_serial
          commandSerial   \* _command_serial

vars == <<running, serial, result, resultSerial, commandSerial>>

Idle == [state |-> "idle", action |-> Sync]
Error(a) == [state |-> "error", action |-> a]
Results == {Idle} \cup {Error(a) : a \in Actions \cup {Sync}}
Operation == [token : 1 .. MaxSerial, action : Actions \cup {Sync}]

TypeOK ==
  /\ serial \in 0 .. MaxSerial
  /\ running \subseteq Operation
  /\ \A op, other \in running : op.token <= serial /\ (op.token = other.token => op = other)
  /\ result \in Results
  /\ resultSerial \in 0 .. serial
  /\ commandSerial \in 0 .. serial

Init ==
  /\ running = {} /\ serial = 0 /\ result = Idle
  /\ resultSerial = 0 /\ commandSerial = 0

CommandRunning == \E op \in running : op.action # Sync
CommandError == result.state = "error" /\ result.action # Sync

\* _foreground: what the sensor reports.
State ==
  IF CommandRunning THEN "changing"
  ELSE IF CommandError THEN "error"
  ELSE IF running # {} THEN "syncing"
  ELSE result.state

\* Mutant: the token is the serial before it is counted up.
BeginBeforeCounting(a) ==
  /\ serial < MaxSerial
  /\ serial' = serial + 1
  /\ running' = running \cup {[token |-> serial, action |-> a]}
  /\ UNCHANGED <<result, resultSerial, commandSerial>>

Begin(a) ==
  /\ serial < MaxSerial
  /\ serial' = serial + 1
  /\ running' = running \cup {[token |-> serial + 1, action |-> a]}
  /\ UNCHANGED <<result, resultSerial, commandSerial>>

Larger(m, n) == IF m < n THEN n ELSE m

\* Mutant: the newest published result decides for commands, too.
PublishesByResult(op) == resultSerial <= op.token /\ (op.action = Sync => ~CommandError)

\* Only a command replaces the result of a command; a synchronisation
\* publishes if nothing newer has, and never over a command's error.
Publishes(op) ==
  IF op.action # Sync THEN commandSerial <= op.token
  ELSE resultSerial <= op.token /\ ~CommandError

End(op, ok) ==
  /\ running' = running \ {op}
  /\ commandSerial' = IF Publishes(op) /\ op.action # Sync THEN op.token ELSE commandSerial
  /\ IF Publishes(op)
       THEN /\ result' = IF ok THEN Idle ELSE Error(op.action)
            /\ resultSerial' = Larger(op.token, resultSerial)
       ELSE UNCHANGED <<result, resultSerial>>
  /\ UNCHANGED serial

Next ==
  \/ \E a \in Actions \cup {Sync} : Begin(a)
  \/ \E op \in running, ok \in BOOLEAN : End(op, ok)

Spec == Init /\ [][Next]_vars

-----------------------------------------------------------------------------
(* The registry implements the promise about commands. *)

Verdict == INSTANCE CommandVerdict WITH
  issued <- serial,
  open   <- {op.token : op \in {o \in running : o.action # Sync}},
  newest <- commandSerial,
  failed <- CommandError

\* The verdict on show is that of the newest command that ended (end, 69-92).
ImplementsVerdict == Verdict!Spec
=============================================================================
