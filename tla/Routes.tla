-------------------------------- MODULE Routes --------------------------------
(***************************************************************************)
(* Which address of the panel the session loop dials next, and what it     *)
(* tells the user when none will do (async_resolve_device in bt.py;        *)
(* _connect_and_run, _note_attempt_failed, _prefer_identity and the repair *)
(* issues in coordinator.py).                                              *)
(*                                                                         *)
(* The panel has one identity address and rotating ones; Home Assistant's  *)
(* history keeps an address it has left.  Adverts, connectable scanners,   *)
(* the addresses the panel answers on and the state of the bond change at  *)
(* any time, also between resolving an address and dialling it.            *)
(*                                                                         *)
(* BlueZ as a last resort is left out: _connect_and_run asks it for the    *)
(* entry's unique id, which the config flow makes the panel's name, and    *)
(* device_from_bluez compares it with addresses.                           *)
(***************************************************************************)
EXTENDS Naturals

CONSTANTS Addresses,     \* every address the panel has or had
          Identity,      \* the one that does not rotate
          None,
          Stale,         \* an advert this far behind the latest (bt.py)
          MissesBeforeWarning, RefusalsBeforeWarning,   \* const.py
          MaxChanges,    \* bound on changes of the surroundings, adverts included
          MaxFlukes,     \* bound on attempts that fail although they could not
          MaxReloads     \* bound on reloads and restarts

ASSUME IdentityAssumption == Identity \in Addresses
ASSUME NoneAssumption == None \notin Addresses \cup {"identity", "rpa", "live"}
ASSUME LimitAssumption ==
  /\ Stale \in Nat \ {0}
  /\ MissesBeforeWarning \in Nat \ {0} /\ RefusalsBeforeWarning \in Nat \ {0}

VARIABLES   \* the surroundings
  now,
  heard,        \* when an address was heard last; 0 once the history drops it
  connectable,  \* those some connectable scanner can reach
  answers,      \* those the panel accepts a connection on
  bonded,       \* the key of the adapter in use is the panel's
  changes, flukes

VARIABLES   \* the coordinator
  stage,        \* where _connect_and_run is
  initial,      \* _initial_client
  avoid, lastAddr, lastKind, kindStale, memory, sessionOk,
  misses,       \* _no_route_misses
  refusals,     \* _encryption_failures
  stored,       \* the address kind in the store
  issues,       \* Home Assistant's issue registry
  reloads

VARIABLES   \* history, on behalf of the properties
  failed,       \* addresses whose dial failed since a session ended well
  previous,     \* the last of them, unless a round found nothing on air since
  lostOn,       \* the kind of the last dial, if no session came of it
  adopted       \* the session runs on the link pairing handed over

surroundings == <<now, heard, connectable, answers, bonded, changes, flukes>>
route == <<avoid, lastAddr, lastKind, kindStale, memory, sessionOk, stored>>
notices == <<misses, refusals, issues>>
history == <<failed, previous, lostOn, adopted>>
vars == <<surroundings, stage, initial, route, notices, reloads, history>>

Kinds == {"identity", "rpa"}
AddressKind(a) == IF a = Identity THEN "identity" ELSE "rpa"
Stages == {"idle", "dialling", "adopting", "startup", "session"}

TypeOK ==
  /\ now \in Nat /\ heard \in [Addresses -> 0..now]
  /\ connectable \subseteq Addresses /\ answers \subseteq Addresses
  /\ bonded \in BOOLEAN /\ changes \in Nat /\ flukes \in Nat
  /\ stage \in Stages /\ initial \in {None, "live", "dropped"}
  /\ avoid \subseteq failed /\ failed \subseteq Addresses
  /\ lastAddr \in Addresses \cup {None} /\ previous \in Addresses \cup {None}
  /\ lastKind \in Kinds \cup {None} /\ lostOn \in Kinds \cup {None}
  /\ memory \in Kinds \cup {None} /\ stored = memory
  /\ kindStale \in BOOLEAN /\ sessionOk \in BOOLEAN /\ adopted \in BOOLEAN
  /\ misses \in 0..MissesBeforeWarning + 1 /\ refusals \in 0..RefusalsBeforeWarning + 1
  /\ issues \subseteq {"no_route", "lost_bond"} /\ reloads \in Nat

Init ==
  /\ now = 0 /\ heard = [a \in Addresses |-> 0] /\ connectable = Addresses
  /\ answers \in SUBSET Addresses /\ bonded = TRUE /\ changes = 0 /\ flukes = 0
  /\ stage = "idle" /\ initial \in {None, "live"}
  /\ avoid = {} /\ lastAddr = None /\ lastKind = None /\ kindStale = FALSE
  /\ memory \in Kinds \cup {None} /\ stored = memory /\ sessionOk = FALSE
  /\ misses = 0 /\ refusals = 0 /\ issues = {} /\ reloads = 0
  /\ failed = {} /\ previous = None /\ lostOn = None /\ adopted = FALSE

----------------------------------------------------------------------------
(* The surroundings.                                                       *)

Changes == changes < MaxChanges /\ changes' = changes + 1
NothingElseChanges == UNCHANGED <<stage, initial, route, notices, reloads, history, flukes>>

\* An advert, shortly after the latest one or so late that all others are
\* stale.
Advertises(a) ==
  /\ \E lag \in {1, Stale + 1} : now' = now + lag
  /\ heard' = [heard EXCEPT ![a] = now']
  /\ UNCHANGED <<connectable, answers, bonded>>

Expires(a) ==
  /\ heard[a] # 0 /\ heard' = [heard EXCEPT ![a] = 0]
  /\ UNCHANGED <<now, connectable, answers, bonded>>

Toggled(S, a) == (S \ {a}) \cup ({a} \ S)

SurroundingsChange ==
  /\ Changes /\ NothingElseChanges
  /\ \/ \E a \in Addresses : Advertises(a) \/ Expires(a)
     \/ \E a \in Addresses : /\ connectable' = Toggled(connectable, a)
                             /\ UNCHANGED <<now, heard, answers, bonded>>
     \/ \E a \in Addresses : /\ answers' = Toggled(answers, a)
                             /\ UNCHANGED <<now, heard, connectable, bonded>>
     \/ bonded' = ~bonded /\ UNCHANGED <<now, heard, connectable, answers>>

\* The link handed over is lost before it was taken.
InitialDrops ==
  /\ initial = "live" /\ initial' = "dropped" /\ Changes
  /\ UNCHANGED <<now, heard, connectable, answers, bonded, flukes>>
  /\ UNCHANGED <<stage, route, notices, reloads, history>>

----------------------------------------------------------------------------
(* The resolver.                                                           *)

OnAir == {a \in Addresses : heard[a] # 0}
Reachable == OnAir \cap connectable
Fresh(a) == \A b \in OnAir : heard[b] <= heard[a] + Stale

\* _prefer_identity, as the kind it asks for.
OtherKind(k) == IF k = "rpa" THEN "identity" ELSE "rpa"
Wanted ==
  IF memory = None THEN "rpa"
  ELSE IF kindStale THEN OtherKind(memory) ELSE memory

\* A change of the code that the run must notice: the kind before freshness.
ScoreByKind(a) ==
  (IF a \in avoid THEN 4 ELSE 0) + (IF AddressKind(a) = Wanted THEN 0 ELSE 2)
    + (IF Fresh(a) THEN 0 ELSE 1)

\* The sort key: demoted, stale, other kind, heard longer ago.
Score(a) ==
  (IF a \in avoid THEN 4 ELSE 0) + (IF Fresh(a) THEN 0 ELSE 2)
    + (IF AddressKind(a) = Wanted THEN 0 ELSE 1)
Before(a, b) == Score(a) < Score(b) \/ (Score(a) = Score(b) /\ heard[a] >= heard[b])

\* A change of the code that the run must notice: the kind before the failures.
ResolvesByKind(a) ==
  /\ a \in Reachable
  /\ \A b \in Reachable : AddressKind(b) = Wanted => AddressKind(a) = Wanted
  /\ \A b \in Reachable : AddressKind(b) = AddressKind(a) => Before(a, b)

\* async_resolve_device returns a device for address a.
Resolves(a) == a \in Reachable /\ \A b \in Reachable : Before(a, b)

----------------------------------------------------------------------------
(* An attempt.                                                             *)

\* Nothing has been dialled or proved yet this round.
ProvesNothing == sessionOk' = FALSE /\ lastKind' = None

\* A count is compared with its limit only: one past it, it stands for all that
\* are.
Counted(n, limit) == IF n > limit THEN n ELSE n + 1

NoteNoRoute ==
  IF OnAir = {} THEN UNCHANGED <<misses, issues>>
  ELSE /\ misses' = Counted(misses, MissesBeforeWarning)
       /\ issues' = IF misses' = MissesBeforeWarning THEN issues \cup {"no_route"} ELSE issues

\* Another: an issue this coordinator has not raised is left alone.
ClearNoRouteIfCounted ==
  /\ misses' = 0
  /\ issues' = IF misses >= MissesBeforeWarning THEN issues \ {"no_route"} ELSE issues

ClearNoRoute == misses' = 0 /\ issues' = issues \ {"no_route"}

NoteRefusal ==
  /\ refusals' = Counted(refusals, RefusalsBeforeWarning)
  /\ issues' = IF refusals' = RefusalsBeforeWarning THEN issues \cup {"lost_bond"} ELSE issues

\* _async_note_encryption_failure, of an attempt that reached GATT, whatever stage
\* it was in: a panel that has lost the key refuses, and the error is known for a
\* refusal, or not; that of the last retry of the subscription may be that the
\* link is gone.
NoteError == UNCHANGED <<refusals, issues>> \/ (~bonded /\ NoteRefusal)

ClearRefusals == refusals' = 0 /\ issues' = issues \ {"lost_bond"}

\* A change of the code that the run must notice: a session that ran and then
\* dropped counts against its kind.
NoteAttemptFailedWhatever(grudges, kind, proved) ==
  /\ avoid' = grudges \cup ({lastAddr} \ {None})
  /\ kindStale' = IF kind # None THEN kind = memory ELSE kindStale

\* _note_attempt_failed, when _avoid is grudges, an address of the kind was
\* dialled, and proved tells that it carried a session.
NoteAttemptFailed(grudges, kind, proved) ==
  /\ avoid' = grudges \cup ({lastAddr} \ {None})
  /\ kindStale' = IF kind # None /\ ~proved THEN kind = memory ELSE kindStale

\* Nothing connectable: past failures are forgotten, and the last of them
\* remembered again, because its blame is still there.
NoRoute ==
  /\ stage = "idle" /\ initial # "live" /\ Reachable = {}
  /\ initial' = None /\ ProvesNothing /\ NoteNoRoute /\ NoteAttemptFailed({}, lastKind', FALSE)
  /\ previous' = None
  /\ UNCHANGED <<surroundings, stage, lastAddr, memory, stored, refusals, reloads>>
  /\ UNCHANGED <<failed, lostOn, adopted>>

\* The device resolved now is dialled after the wait for a fresh advert, be it
\* heard or not.
Resolve ==
  /\ stage = "idle" /\ initial # "live"
  /\ \E a \in Addresses : /\ Resolves(a)
                          /\ lastAddr' = a /\ lastKind' = AddressKind(a)
  /\ sessionOk' = FALSE /\ initial' = None /\ ClearNoRoute
  /\ stage' = "dialling" /\ adopted' = FALSE
  /\ UNCHANGED <<surroundings, avoid, kindStale, memory, stored, refusals, reloads>>
  /\ UNCHANGED <<failed, previous, lostOn>>

\* A fluke: the attempt fails although panel and bond are willing.
Fluke == flukes < MaxFlukes /\ flukes' = flukes + 1
SameSurroundings == UNCHANGED <<now, heard, connectable, answers, bonded, changes>>

\* The connect or the subscription failed.
DialFails ==
  /\ stage = "dialling" /\ stage' = "idle"
  /\ NoteAttemptFailed(avoid, lastKind, sessionOk)
  /\ \/ lastAddr \notin answers /\ UNCHANGED <<flukes, refusals, issues>>
     \/ lastAddr \in answers /\ NoteError /\ ((~bonded /\ UNCHANGED flukes) \/ Fluke)
  /\ failed' = failed \cup {lastAddr} /\ previous' = lastAddr /\ lostOn' = lastKind
  /\ SameSurroundings
  /\ UNCHANGED <<initial, lastAddr, lastKind, sessionOk, memory, stored, misses, reloads, adopted>>

\* A change of the code that the run must notice: the blame left lying.
SubscribesKeepingTheBlame ==
  /\ stage = "dialling" /\ lastAddr \in answers /\ bonded
  /\ stage' = "startup" /\ ClearRefusals /\ previous' = None
  /\ UNCHANGED <<surroundings, initial, route, misses, reloads, failed, lostOn, adopted>>

\* The link is up and subscribed: the address is not the phantom.
Subscribes ==
  /\ stage = "dialling" /\ lastAddr \in answers /\ bonded
  /\ stage' = "startup" /\ ClearRefusals /\ lastAddr' = None
  /\ previous' = None
  /\ UNCHANGED <<surroundings, initial, avoid, lastKind, kindStale, memory, sessionOk,
                 stored, misses, reloads, failed, lostOn, adopted>>

\* The link handed over by pairing is taken instead of dialling.
Adopt ==
  /\ stage = "idle" /\ initial = "live"
  /\ initial' = None /\ ProvesNothing /\ lastAddr' = None
  /\ stage' = "adopting" /\ adopted' = TRUE
  /\ UNCHANGED <<surroundings, avoid, kindStale, memory, stored, notices, reloads>>
  /\ UNCHANGED <<failed, previous, lostOn>>

AdoptionFails ==
  /\ stage = "adopting" /\ stage' = "idle"
  /\ NoteAttemptFailed(avoid, lastKind, sessionOk)
  /\ NoteError /\ ((~bonded /\ UNCHANGED flukes) \/ Fluke)
  /\ adopted' = FALSE
  /\ SameSurroundings
  /\ UNCHANGED <<initial, lastAddr, lastKind, sessionOk, memory, stored, misses, reloads>>
  /\ UNCHANGED <<failed, previous, lostOn>>

Adopted ==
  /\ stage = "adopting" /\ bonded /\ stage' = "startup" /\ ClearRefusals
  /\ UNCHANGED <<surroundings, initial, route, misses, reloads, history>>

StartupFails ==
  /\ stage = "startup" /\ stage' = "idle" /\ Fluke
  /\ NoteAttemptFailed(avoid, lastKind, sessionOk) /\ NoteError
  /\ lostOn' = (IF lastKind = None THEN lostOn ELSE lastKind) /\ adopted' = FALSE
  /\ SameSurroundings
  /\ UNCHANGED <<initial, lastAddr, lastKind, sessionOk, memory, stored, misses, reloads,
                 failed, previous>>

\* The kind that carried a session is remembered; of an adopted link it is not
\* known.
StartupSucceeds ==
  /\ stage = "startup" /\ stage' = "session" /\ sessionOk' = TRUE
  /\ IF lastKind = None THEN UNCHANGED <<kindStale, memory, stored>>
     ELSE kindStale' = FALSE /\ memory' = lastKind /\ stored' = lastKind
  /\ lostOn' = IF lastKind = None THEN lostOn ELSE None
  /\ UNCHANGED <<surroundings, initial, avoid, lastAddr, lastKind, notices, reloads,
                 failed, previous, adopted>>

\* Ended by the loop or a drop, which forgives every address, or by an error.
SessionEnds ==
  /\ stage = "session" /\ stage' = "idle" /\ adopted' = FALSE
  /\ \/ avoid' = {} /\ failed' = {} /\ UNCHANGED <<kindStale, refusals, issues>>
     \/ NoteAttemptFailed(avoid, lastKind, sessionOk) /\ NoteError /\ UNCHANGED failed
  /\ UNCHANGED <<surroundings, initial, lastAddr, lastKind, memory, sessionOk, stored,
                 misses, reloads, previous, lostOn>>

\* A coordinator of its own after a reload, a restart of Home Assistant, which
\* forgets the issues, or a pairing, which leaves a bond and maybe its link.
Reload ==
  /\ stage = "idle" /\ reloads < MaxReloads /\ reloads' = reloads + 1
  /\ \/ initial' = None /\ UNCHANGED <<bonded, issues>>
     \/ initial' = None /\ issues' = {} /\ UNCHANGED bonded
     \/ initial' \in {None, "live"} /\ bonded' = TRUE /\ UNCHANGED issues
  /\ avoid' = {} /\ lastAddr' = None /\ lastKind' = None /\ kindStale' = FALSE
  /\ memory' = stored /\ sessionOk' = FALSE /\ misses' = 0 /\ refusals' = 0
  /\ failed' = {} /\ previous' = None /\ lostOn' = None /\ adopted' = FALSE
  /\ UNCHANGED <<now, heard, connectable, answers, changes, flukes, stage, stored>>

Coordinates ==
  \/ NoRoute \/ Resolve \/ DialFails \/ Subscribes
  \/ Adopt \/ AdoptionFails \/ Adopted
  \/ StartupFails \/ StartupSucceeds

Next ==
  \/ Coordinates \/ SessionEnds \/ Reload
  \/ SurroundingsChange \/ InitialDrops

\* The session loop goes on as long as the entry is loaded.
Spec == Init /\ [][Next]_vars /\ WF_vars(Coordinates)

----------------------------------------------------------------------------
(* Properties.                                                             *)

\* An address that has just failed is not dialled again while another one can
\* be reached that has not failed since the last session (async_resolve_device:
\* "rotate to the panel's other advertised RPA instead").
NextDialIsElsewhere ==
  [][Resolve /\ lastAddr' = previous => Reachable \subseteq failed]_vars

\* The kind of address that carried the last session goes first; a dial to it
\* that came to nothing makes the other kind first, and a dial to that one makes
\* it first again: a wrong memory costs one attempt (_prefer_identity).
MemoryCostsOneAttempt ==
  [][Resolve /\ memory # None =>
       LET best == IF lostOn = memory THEN OtherKind(memory) ELSE memory
       IN  (\E a \in Reachable \ failed : Fresh(a) /\ AddressKind(a) = best)
             => lastKind' = best]_vars

\* While a session is up, no notice says that the bond is lost; nor that there
\* is no route to the panel, unless it runs on the link pairing handed over.
NoticesEndWithASession ==
  stage \in {"startup", "session"} =>
    /\ "lost_bond" \notin issues
    /\ ~adopted => "no_route" \notin issues

\* The only fresh address is reached if the panel goes on answering there, no
\* matter what the loop remembers and which dead addresses are still in the
\* history.
LiveAddressIsReached ==
  \A a \in Addresses :
    <>[](a \in Reachable /\ a \in answers /\ bonded /\ {b \in OnAir : Fresh(b)} = {a})
      => []<>(stage = "session")
=============================================================================
