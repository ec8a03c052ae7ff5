---------------------------- MODULE PairingProofs -----------------------------
(***************************************************************************)
(* What holds of Pairing for every set of addresses and every bound: its   *)
(* types, and that a bond it reports without having seen the panel honour  *)
(* one was made during the call.                                           *)
(***************************************************************************)
EXTENDS Pairing, TLAPS

InLoop == stage \in {"look", "decide", "pairing", "refused"}

\* What the stages tell: an address is dialled, and nothing reported yet.
Underway ==
  /\ stage \in {"dialling", "connected"} => device # None
  /\ stage # "done" => result = None

\* Until the panel bonds, the only pairing is the one the call found.
OldBonds ==
  ~made => paired \subseteq {Identity} /\ \A a \in Addresses : key[a] # "none" => a = Identity

\* A caller that has not seen the panel honour a bond stops suspecting one when
\* the panel has bonded, or when none is left.
Unproven ==
  InLoop /\ ~trust /\ ~suspect /\ ~made
    => paired = {} /\ \A a \in Addresses : key[a] = "none"

\* The inductive invariant.
IInv == TypeOK /\ Underway /\ OldBonds /\ Unproven /\ ReportedBondIsNew

USE AddressAssumption DEF history

----------------------------------------------------------------------------
\* A call begins knowing nothing, with at most the pairing it found.
LEMMA InitIInv == Init => IInv
<1> SUFFICES ASSUME Init PROVE IInv
  OBVIOUS
<1>1. SurroundingsOK
  BY DEF Init, SurroundingsOK
<1>2. CallOK
  <2>1. made \in BOOLEAN
    BY Zenon DEF Init
  <2> QED
    BY <2>1 DEF Init, CallOK, Stages
<1>3. LoopOK
  <2>1. /\ trust \in BOOLEAN /\ suspect \in BOOLEAN /\ removalTried \in BOOLEAN
        /\ watching \in BOOLEAN /\ overdue \in BOOLEAN
    BY Zenon DEF Init
  <2> QED
    BY <2>1 DEF Init, LoopOK
<1>4. Underway /\ OldBonds /\ Unproven /\ ReportedBondIsNew
  BY DEF Init, Underway, OldBonds, Unproven, InLoop, ReportedBondIsNew
<1> QED
  BY <1>1, <1>2, <1>3, <1>4 DEF IInv, TypeOK

----------------------------------------------------------------------------
(* The surroundings.                                                       *)

\* What the surroundings do by themselves makes no pairing.
LEMMA NoNewPairing ==
  ASSUME IInv, UNCHANGED <<time, stage, result, dial, loop, history>>, SurroundingsOK',
         \A a \in Addresses : key'[a] = "none" <=> key[a] = "none"
  PROVE  IInv'
<1>1. CallOK' /\ LoopOK'
  BY DEF IInv, TypeOK, CallOK, LoopOK, dial, loop
<1>2. (Underway /\ OldBonds /\ Unproven /\ ReportedBondIsNew)'
  BY DEF IInv, Underway, OldBonds, Unproven, InLoop, ReportedBondIsNew, dial, loop
<1> QED
  BY <1>1, <1>2 DEF IInv, TypeOK

\* Neither what is seen nor what the panel forgets makes a pairing.
LEMMA SurroundingsStep ==
  ASSUME IInv, SurroundingsChange
  PROVE  IInv'
<1> USE DEF IInv, TypeOK, SurroundingsOK
<1>1. changes' \in Nat /\ UNCHANGED <<host, daemon, link, time, stage, result, dial, loop, history>>
  BY DEF SurroundingsChange, Changes
<1>2. SurroundingsOK' /\ \A a \in Addresses : key'[a] = "none" <=> key[a] = "none"
  <2>1. CASE \E a \in Addresses : Seen(a)
    BY <1>1, <2>1 DEF Seen
  <2>2. CASE \E a \in Addresses : Lost(a)
    BY <1>1, <2>2 DEF Lost
  <2>3. CASE PanelForgets
    BY <1>1, <2>3 DEF PanelForgets
  <2>4. CASE \E a \in Addresses : onAir' = Toggled(onAir, a)
                                  /\ UNCHANGED <<objects, visible, answers, willing, key>>
    BY <1>1, <2>4 DEF Toggled
  <2>5. CASE \E a \in Addresses : answers' = Toggled(answers, a)
                                  /\ UNCHANGED <<onAir, objects, visible, willing, key>>
    BY <1>1, <2>5 DEF Toggled
  <2>6. CASE willing' = ~willing /\ UNCHANGED <<onAir, objects, visible, answers, key>>
    <3>1. willing' \in BOOLEAN
      BY <2>6, Zenon
    <3> QED
      BY <1>1, <2>6, <3>1
  <2> QED
    BY <2>1, <2>2, <2>3, <2>4, <2>5, <2>6 DEF SurroundingsChange
<1> QED
  BY <1>1, <1>2, NoNewPairing

\* A pairing that takes, whoever waits for it, is history from then on.
LEMMA BondMade ==
  ASSUME IInv, NEW a \in objects, Bond(a), UNCHANGED air
  PROVE  SurroundingsOK' /\ made' \in BOOLEAN /\ made' /\ kept' = kept
<1>1. made' \in BOOLEAN /\ made'
  BY Zenon DEF Bond
<1> QED
  BY <1>1 DEF Bond, IInv, TypeOK, SurroundingsOK, air

\* What BlueZ ends on its own keeps the invariant: a bond made late is history.
LEMMA DaemonStep ==
  ASSUME IInv, DaemonBonds \/ DaemonFails
  PROVE  IInv'
<1>1. CASE DaemonBonds
  <2>1. daemon \in objects /\ Bond(daemon)
        /\ UNCHANGED <<air, time, stage, result, dial, loop>>
    BY <1>1 DEF DaemonBonds, Taking, IInv, TypeOK, SurroundingsOK
  <2>2. SurroundingsOK' /\ made' \in BOOLEAN /\ made' /\ kept' = kept
    BY <2>1, BondMade
  <2> QED
    BY <2>1, <2>2 DEF IInv, TypeOK, CallOK, LoopOK, Underway, OldBonds, Unproven,
                      ReportedBondIsNew, dial, loop
<1>2. CASE DaemonFails
  <2>1. SurroundingsOK' /\ UNCHANGED <<key, time, stage, result, dial, loop, history>>
    BY <1>2 DEF DaemonFails, IInv, TypeOK, SurroundingsOK, air
  <2> QED
    BY <2>1, NoNewPairing
<1> QED
  BY <1>1, <1>2

\* The time of the call runs out without touching anything else.
LEMMA TimeStep ==
  ASSUME IInv, TimePasses
  PROVE  IInv'
<1>1. time' \in {"left", "reserve", "up"}
  BY DEF TimePasses
<1>2. UNCHANGED <<air, bluez, stage, result, dial, loop, history>>
  BY DEF TimePasses
<1> QED
  BY <1>1, <1>2 DEF IInv, TypeOK, SurroundingsOK, CallOK, LoopOK, Underway, OldBonds, Unproven,
                    InLoop, ReportedBondIsNew, air, bluez, dial, loop

----------------------------------------------------------------------------
(* ensure_bonded.                                                          *)

\* Dialling leaves BlueZ's book and the loop's alone, and reports nothing that
\* needs proof.
LEMMA DialStep ==
  ASSUME IInv, UNCHANGED <<air, bluez, loop>>, CallOK', Underway', ~InLoop',
         made => made', result' # "bonded"
  PROVE  IInv'
BY DEF IInv, TypeOK, SurroundingsOK, LoopOK, OldBonds, Unproven, ReportedBondIsNew, air, bluez,
       loop

\* Every step of the rotation keeps the invariant.
LEMMA EnsureBondedStep ==
  ASSUME IInv, EnsureBonded
  PROVE  IInv'
<1> USE DEF IInv, TypeOK, CallOK, Stages, Underway, InLoop
<1>1. CASE BondsBeforeDialling \/ HandsOver \/ LeavesItToBluez
  <2>1. trust' \in BOOLEAN
    BY <1>1, Zenon DEF BondsBeforeDialling, HandsOver, LeavesItToBluez, AsksBluez
  <2>2. /\ UNCHANGED <<air, bluez, time, result, avoid, connectFailed, device, history>>
        /\ UNCHANGED <<suspect, removalTried, paired, path, watching, pendingPath, overdue>>
        /\ client' \in {client, None} /\ stage' = "bluez"
        /\ stage \in {"start", "rotate", "connected"}
        /\ client' # None => stage # "connected"
    BY <1>1 DEF BondsBeforeDialling, HandsOver, LeavesItToBluez, AsksBluez, dial
  <2> QED
    BY <2>1, <2>2 DEF SurroundingsOK, LoopOK, OldBonds, Unproven, ReportedBondIsNew, air, bluez
<1>2. CASE DialsFirst \/ NobodyOnAir \/ RunsOut
  BY <1>2, DialStep DEF DialsFirst, NobodyOnAir, RunsOut, dial
<1>3. CASE Dial
  BY <1>3, DialStep DEF Dial, Candidates, SurroundingsOK
<1>4. CASE DialFails \/ Connects
  BY <1>4, DialStep DEF DialFails, Connects
<1>5. CASE RefusesOverLink
  BY <1>5, DialStep DEF RefusesOverLink
<1>6. CASE BondsOverLink
  <2>1. made' \in BOOLEAN /\ made'
    BY <1>6, Zenon DEF BondsOverLink
  <2> QED
    BY <1>6, <2>1, DialStep DEF BondsOverLink, dial
<1> QED
  BY <1>1, <1>2, <1>3, <1>4, <1>5, <1>6 DEF EnsureBonded

----------------------------------------------------------------------------
(* _ensure_bonded_bluez.                                                   *)

\* What this host calls paired, and what of it a pass may report.
LEMMA PathsTyped == ASSUME IInv PROVE Paired \subseteq objects /\ Found \subseteq objects
                                      /\ Paths \subseteq Addresses \cup {None}
BY DEF IInv, TypeOK, SurroundingsOK, Paired, Found, Best, Paths, LivePaths

\* The call ends with BlueZ's book as it is, and its pairing called off.
LEMMA CallEnds ==
  ASSUME IInv, NEW r \in {"bonded", "failed", "raised"}, Ends(r), link' \subseteq link,
         UNCHANGED <<air, key, time, dial, history, trust, suspect, removalTried, paired>>,
         UNCHANGED <<watching, pendingPath, overdue>>, path' \in Addresses \cup {None},
         stage # "connected", r = "bonded" /\ ~trust => made
  PROVE  IInv'
<1>1. SurroundingsOK'
  BY DEF Ends, IInv, TypeOK, SurroundingsOK, air
<1>2. CallOK' /\ LoopOK'
  BY DEF Ends, IInv, TypeOK, CallOK, LoopOK, Stages, dial
<1>3. (Underway /\ OldBonds /\ Unproven /\ ReportedBondIsNew)'
  BY DEF Ends, IInv, Underway, OldBonds, Unproven, InLoop, ReportedBondIsNew, dial
<1> QED
  BY <1>1, <1>2, <1>3 DEF IInv, TypeOK

\* The three ways the loop ends the call; a bond is reported only as Unproven allows.
LEMMA EndStep ==
  ASSUME IInv, BelievesTheBond \/ Concludes \/ Raises
  PROVE  IInv'
<1>1. CASE BelievesTheBond
  <2>1. PICK a \in Found \cap Paired : path' = a /\ Reports(a)
    BY <1>1 DEF BelievesTheBond
  <2>2. a \in Addresses
    BY PathsTyped DEF IInv, TypeOK, SurroundingsOK
  <2> QED
    BY <1>1, <2>1, <2>2, CallEnds DEF BelievesTheBond, Reports
<1>2. CASE Concludes
  <2>1. ~trust => made
    BY <1>2 DEF Concludes, Believable, IInv, Unproven, InLoop
  <2> QED
    BY <1>2, <2>1, CallEnds DEF Concludes, Reports, loop, IInv, TypeOK, LoopOK
<1>3. CASE Raises
  BY <1>3, CallEnds DEF Raises, AsksToPair, loop, IInv, TypeOK, LoopOK
<1> QED
  BY <1>1, <1>2, <1>3

\* Steps of the loop that leave BlueZ's pairings and the verdict alone.
LEMMA LoopStep ==
  ASSUME IInv, UNCHANGED <<key, time, result, dial, made, trust, suspect>>,
         SurroundingsOK', LoopOK', kept' \in {kept, daemon, None}, InLoop, InLoop', paired' \subseteq Paired \cup paired
  PROVE  IInv'
<1>1. CallOK' /\ Underway'
  BY DEF IInv, TypeOK, SurroundingsOK, CallOK, Underway, InLoop, Stages, dial
<1>2. OldBonds' /\ Unproven'
  BY DEF IInv, TypeOK, SurroundingsOK, OldBonds, Unproven, Paired
<1>3. ReportedBondIsNew'
  BY DEF IInv, ReportedBondIsNew
<1> QED
  BY <1>1, <1>2, <1>3 DEF IInv, TypeOK

\* The loop begins by suspecting what it found, unless the link has shown it.
LEMMA OpensStep ==
  ASSUME IInv, OpensTheLoop
  PROVE  IInv'
<1>1. suspect' \in BOOLEAN /\ removalTried' \in BOOLEAN /\ (suspect' \/ trust)
  BY Zenon DEF OpensTheLoop
<1>2. stage = "bluez" /\ stage' = "look"
      /\ UNCHANGED <<air, bluez, time, result, dial, history, trust, paired, path, watching>>
      /\ UNCHANGED <<pendingPath, overdue>>
  BY DEF OpensTheLoop
<1> QED
  BY <1>1, <1>2 DEF IInv, TypeOK, SurroundingsOK, CallOK, LoopOK, Stages, Underway, OldBonds,
     Unproven, InLoop, ReportedBondIsNew, air, bluez, dial

\* Out of time, the loop reports no bond.
LEMMA GivesUpStep ==
  ASSUME IInv, GivesUp
  PROVE  IInv'
<1>1. /\ stage = "look" /\ stage' \in {"rotate", "done"} /\ result' \in {result, "failed"}
      /\ stage' = "rotate" => result' = result
      /\ daemon' = None /\ UNCHANGED <<air, key, link, time, dial, loop, history>>
  BY DEF GivesUp
<1> QED
  BY <1>1 DEF IInv, TypeOK, SurroundingsOK, CallOK, LoopOK, Stages, Underway, OldBonds, Unproven,
     InLoop, ReportedBondIsNew, air, dial, loop

\* A pass looks, waits, calls off what is in the way, and asks.
LEMMA PassStep ==
  ASSUME IInv, Looks \/ CallsOff \/ Waits \/ AlreadyPairing \/ AlreadyPaired \/ StartsPairing
               \/ TriesAgain
  PROVE  IInv'
<1> USE DEF InLoop, air, bluez, dial, loop, NextPass
<1>1. SurroundingsOK'
  BY DEF Looks, CallsOff, CancelPairing, Waits, AlreadyPairing, AlreadyPaired, StartsPairing,
         TriesAgain, IInv, TypeOK, SurroundingsOK
<1>2. UNCHANGED <<key, time, result, dial, made, trust, suspect, removalTried>>
  BY DEF Looks, CallsOff, CancelPairing, Waits, AlreadyPairing, AlreadyPaired, StartsPairing,
         TriesAgain
<1>3. /\ InLoop /\ InLoop'
      /\ paired' \subseteq Paired \cup paired
      /\ path' \in Paths \cup {path, None} /\ pendingPath' \in {pendingPath, path, None}
  BY DEF Looks, CallsOff, CancelPairing, Waits, AlreadyPairing, AlreadyPaired, StartsPairing,
         TriesAgain,
         AsksToPair
<1>4. watching' \in BOOLEAN /\ overdue' \in BOOLEAN
  <2>1. CASE CallsOff \/ AlreadyPairing
    <3>1. watching' \in BOOLEAN
      BY <2>1, Zenon DEF CallsOff, AlreadyPairing
    <3>2. overdue' \in BOOLEAN
      <4>1. CASE CallsOff
        BY <4>1, Zenon DEF CallsOff
      <4>2. CASE AlreadyPairing
        BY <4>2 DEF AlreadyPairing, IInv, TypeOK, LoopOK
      <4> QED
        BY <2>1, <4>1, <4>2
    <3> QED
      BY <3>1, <3>2
  <2>2. CASE Looks \/ Waits \/ AlreadyPaired \/ StartsPairing \/ TriesAgain
    BY <2>2 DEF Looks, Waits, AlreadyPaired, StartsPairing, TriesAgain, IInv, TypeOK, LoopOK
  <2> QED
    BY <2>1, <2>2
<1>5. LoopOK'
  BY <1>2, <1>3, <1>4, PathsTyped DEF IInv, TypeOK, SurroundingsOK, LoopOK
<1>6. kept' \in {kept, daemon, None}
  BY DEF Looks, CallsOff, CancelPairing, Waits, AlreadyPairing, AlreadyPaired, StartsPairing,
         TriesAgain
<1> QED
  BY <1>1, <1>2, <1>3, <1>5, <1>6, LoopStep

\* The panel has bonded.
LEMMA PairSucceedsStep ==
  ASSUME IInv, PairSucceeds
  PROVE  IInv'
<1>1. /\ daemon \in objects /\ Bond(daemon) /\ UNCHANGED air
      /\ stage = "pairing" /\ stage' = "look" /\ path' = None /\ paired' = {}
      /\ pendingPath' = None
      /\ UNCHANGED <<time, result, dial, trust, removalTried, watching>>
  BY DEF PairSucceeds, NextPass, Taking, IInv, TypeOK, SurroundingsOK
<1>2. suspect' \in BOOLEAN /\ overdue' \in BOOLEAN
  BY Zenon DEF PairSucceeds
<1>3. SurroundingsOK' /\ made' \in BOOLEAN /\ made' /\ kept' = kept
  BY <1>1, BondMade
<1> QED
  BY <1>1, <1>2, <1>3 DEF IInv, TypeOK, CallOK, LoopOK, Stages, Underway, OldBonds, Unproven,
     ReportedBondIsNew, dial

\* A pairing that fails, or is no longer waited for, changes no key.
LEMMA PairFailsStep ==
  ASSUME IInv, PairFails
  PROVE  IInv'
<1>1. /\ changes' \in Nat /\ daemon' \in {None, daemon}
      /\ stage = "pairing" /\ stage' = "refused"
      /\ UNCHANGED <<host, onAir, objects, visible, answers, willing>>
      /\ UNCHANGED <<key, link, time, result, dial, loop, history>>
  BY DEF PairFails, Changes, IInv, TypeOK, SurroundingsOK
<1>2. SurroundingsOK' /\ LoopOK'
  BY <1>1 DEF IInv, TypeOK, SurroundingsOK, LoopOK, loop
<1> QED
  BY <1>1, <1>2, LoopStep DEF InLoop, loop

\* The bond dropped is the only one there was, unless the panel has bonded.
LEMMA ForgetsStep ==
  ASSUME IInv, Forgets
  PROVE  IInv'
<1>1. /\ stage = "refused" /\ stage' = "look" /\ path' = None /\ paired' = {}
      /\ path \in paired /\ suspect /\ pendingPath' = path
      /\ UNCHANGED <<host, onAir, answers, willing, changes>>
      /\ UNCHANGED <<time, result, dial, trust, watching, overdue, history>>
  BY DEF Forgets, DropsTheOldBond, NextPass
<1>2. removalTried' \in BOOLEAN
  BY Zenon DEF Forgets
<1>3. path \in Addresses
  BY <1>1 DEF IInv, TypeOK, LoopOK
<1>4. CASE /\ suspect' = FALSE /\ key' = [key EXCEPT ![path] = "none"]
           /\ objects' = objects \ {path} /\ visible' = visible \ {path}
           /\ link' = link \ {path} /\ daemon' = IF daemon = path THEN None ELSE daemon
  <2>1. suspect' \in BOOLEAN
    BY <1>4, Zenon
  <2>2. SurroundingsOK'
    BY <1>1, <1>3, <1>4 DEF IInv, TypeOK, SurroundingsOK
  <2>3. ~made' => \A a \in Addresses : key'[a] = "none"
    BY <1>1, <1>3, <1>4 DEF IInv, TypeOK, SurroundingsOK, OldBonds
  <2> QED
    BY <1>1, <1>2, <1>3, <2>1, <2>2, <2>3 DEF IInv, TypeOK, CallOK, LoopOK, Stages, Underway,
       OldBonds, Unproven, ReportedBondIsNew, dial
<1>5. CASE UNCHANGED <<suspect, key, objects, visible, link, daemon>>
  <2>1. SurroundingsOK' /\ LoopOK'
    BY <1>1, <1>2, <1>5 DEF IInv, TypeOK, SurroundingsOK, LoopOK
  <2> QED
    BY <1>1, <1>5, <2>1, LoopStep DEF InLoop
<1> QED
  BY <1>4, <1>5 DEF Forgets

\* Every step of the loop keeps the invariant.
LEMMA EnsureBondedBluezStep ==
  ASSUME IInv, EnsureBondedBluez
  PROVE  IInv'
BY EndStep, OpensStep, GivesUpStep, PassStep, PairSucceedsStep, PairFailsStep, ForgetsStep
   DEF EnsureBondedBluez

\* The clock ends a watch and ages what is pending.
LEMMA ClockStep ==
  ASSUME IInv, WatchEnds \/ PendingAges
  PROVE  IInv'
<1>1. /\ changes' \in Nat /\ watching' \in BOOLEAN /\ overdue' \in BOOLEAN
      /\ UNCHANGED <<host, onAir, objects, visible, answers, willing>>
      /\ UNCHANGED <<bluez, time, stage, result, dial, history>>
      /\ UNCHANGED <<trust, suspect, removalTried, paired, path, pendingPath>>
  <2>1. CASE WatchEnds
    <3>1. watching' \in BOOLEAN
      BY <2>1, Zenon DEF WatchEnds
    <3> QED
      BY <2>1, <3>1 DEF WatchEnds, IInv, TypeOK, SurroundingsOK, LoopOK, air
  <2>2. CASE PendingAges
    <3>1. overdue' \in BOOLEAN
      BY <2>2, Zenon DEF PendingAges
    <3> QED
      BY <2>2, <3>1 DEF PendingAges, Changes, IInv, TypeOK, SurroundingsOK, LoopOK
  <2> QED
    BY <2>1, <2>2
<1> QED
  BY <1>1 DEF IInv, TypeOK, SurroundingsOK, CallOK, LoopOK, Underway, OldBonds, Unproven, InLoop,
     ReportedBondIsNew, bluez, dial

----------------------------------------------------------------------------
(* The theorems.                                                           *)

\* Every step does.
LEMMA StepIInv == IInv /\ [Next]_vars => IInv'
<1> SUFFICES ASSUME IInv, [Next]_vars PROVE IInv'
  OBVIOUS
<1>1. CASE UNCHANGED vars
  BY <1>1 DEF vars, air, bluez, dial, loop, IInv, TypeOK, SurroundingsOK, CallOK, LoopOK,
              Underway, OldBonds, Unproven, InLoop, ReportedBondIsNew
<1>2. CASE Next
  BY <1>2, EnsureBondedStep, EnsureBondedBluezStep, ClockStep, SurroundingsStep, TimeStep,
     DaemonStep DEF Next
<1> QED
  BY <1>1, <1>2

\* The inductive invariant holds throughout.
THEOREM Inductive == Spec => []IInv
BY InitIInv, StepIInv, PTL DEF Spec

\* Every variable keeps its type; BlueZ has an object for all it is paired with,
\* and a client is held only by a link that can be handed over.
THEOREM TypeCorrect == Spec => []TypeOK
BY Inductive, PTL DEF IInv

\* No old bond is taken for the panel's word: what a call reports that has not
\* seen the panel honour one was made while it ran (_ensure_bonded_bluez).
THEOREM ReportsAreNew == Spec => []ReportedBondIsNew
BY Inductive, PTL DEF IInv
=============================================================================
