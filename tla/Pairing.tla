------------------------------- MODULE Pairing --------------------------------
(***************************************************************************)
(* One call of ensure_bonded (pairing.py), from the form the user submits   *)
(* to the bond it reports: dial the panel and bond the way the link needs,  *)
(* or bond through BlueZ, which runs a pairing of its own and goes on with  *)
(* it after the caller has given up waiting.                                *)
(*                                                                          *)
(* The panel is seen, answers, accepts bonds and forgets them as it likes.  *)
(* BlueZ has an object for an address it has seen or is paired with; the    *)
(* key of a pairing is one the panel holds, or one it has dropped ("half"). *)
(* BlueZ runs one pairing at a time and refuses to pair what it calls       *)
(* paired.                                                                  *)
(***************************************************************************)
EXTENDS Naturals

CONSTANTS Addresses,    \* of the panel, on the adapter that pairs
          Identity,     \* the one it bonds under
          None,
          MaxChanges    \* bound on changes of the surroundings

ASSUME AddressAssumption ==
  /\ Identity \in Addresses
  /\ None \notin Addresses \cup {"local", "proxy", "bonded", "link", "failed", "raised"}

VARIABLES   \* the surroundings
  host,         \* what it can hear the panel with: "adapter", "proxy" or "both"
  onAir,        \* the addresses Home Assistant hears and can connect to
  objects,      \* those BlueZ has an object for
  visible,      \* the objects it is seeing now
  answers,      \* the addresses the panel accepts a connection on
  willing,      \* the panel is in add-device mode
  key,          \* BlueZ's pairing with each object
  daemon,       \* the object BlueZ is pairing
  link,         \* the objects BlueZ holds the link of a pairing to
  time,         \* of the call: "left", "reserve" or "up"
  changes

VARIABLES   \* ensure_bonded
  stage, result,
  avoid, connectFailed,
  device,       \* the address being dialled
  client        \* its link: "local", "proxy" or None

VARIABLES   \* _ensure_bonded_bluez
  trust,        \* trust_existing_bond
  suspect, removalTried,
  paired,       \* the objects paired when it last looked
  path,
  watching,     \* pair_pending_until has not passed
  pendingPath,
  overdue,      \* pending_since is longer ago than the limit
  made,         \* history: the panel has bonded during this call
  kept          \* history: the pairing under way that BlueZ did not call off

air == <<host, onAir, objects, visible, answers, willing, changes>>
bluez == <<key, daemon, link>>
dial == <<avoid, connectFailed, device, client>>
loop == <<trust, suspect, removalTried, paired, path, watching, pendingPath, overdue>>
history == <<made, kept>>
vars == <<air, bluez, time, stage, result, dial, loop, history>>

Stages == {"start", "rotate", "dialling", "connected", "bluez", "look", "decide", "pairing",
           "refused", "done"}

SurroundingsOK ==
  /\ host \in {"adapter", "proxy", "both"}
  /\ onAir \subseteq Addresses /\ answers \subseteq Addresses /\ willing \in BOOLEAN
  /\ objects \subseteq Addresses /\ visible \subseteq objects
  /\ key \in [Addresses -> {"none", "half", "good"}]
  /\ \A a \in Addresses : key[a] # "none" => a \in objects
  /\ daemon \in objects \cup {None} /\ link \subseteq {a \in Addresses : key[a] # "none"}
  /\ changes \in Nat

CallOK ==
  /\ time \in {"left", "reserve", "up"}
  /\ made \in BOOLEAN /\ kept \in Addresses \cup {None}
  /\ stage \in Stages /\ result \in {None, "bonded", "link", "failed", "raised"}
  /\ avoid \subseteq Addresses /\ connectFailed \subseteq Addresses
  /\ device \in Addresses \cup {None} /\ client \in {None, "local", "proxy"}
  /\ client # None => stage \in {"connected", "done"}

LoopOK ==
  /\ trust \in BOOLEAN /\ suspect \in BOOLEAN /\ removalTried \in BOOLEAN
  /\ paired \subseteq Addresses /\ path \in Addresses \cup {None}
  /\ watching \in BOOLEAN /\ pendingPath \in Addresses \cup {None} /\ overdue \in BOOLEAN

TypeOK == SurroundingsOK /\ CallOK /\ LoopOK

Init ==
  /\ host \in {"adapter", "proxy", "both"}
  /\ willing \in BOOLEAN
  /\ onAir \in SUBSET Addresses /\ answers \in SUBSET Addresses
  /\ key \in [Addresses -> {"none", "half", "good"}]
  /\ \A a \in Addresses : key[a] # "none" => a = Identity
  /\ objects = {a \in Addresses : key[a] # "none"} /\ visible \in SUBSET objects
  /\ daemon = None /\ link = {} /\ time = "left" /\ changes = 0
  /\ stage = "start" /\ result = None
  /\ avoid = {} /\ connectFailed = {} /\ device = None /\ client = None
  /\ trust = FALSE /\ suspect = FALSE /\ removalTried = FALSE /\ paired = {}
  /\ path = None /\ watching = FALSE /\ pendingPath = None /\ overdue = FALSE
  /\ made = FALSE /\ kept = None

----------------------------------------------------------------------------
(* The surroundings.                                                       *)

Toggled(S, a) == (S \ {a}) \cup ({a} \ S)

\* BlueZ sees an address, or no longer does: what is not paired it then drops.
Seen(a) ==
  /\ a \notin visible /\ visible' = visible \cup {a} /\ objects' = objects \cup {a}
  /\ UNCHANGED <<onAir, answers, willing, key>>
Lost(a) ==
  /\ a \in visible /\ visible' = visible \ {a}
  /\ objects' = IF key[a] = "none" /\ daemon # a THEN objects \ {a} ELSE objects
  /\ UNCHANGED <<onAir, answers, willing, key>>

PanelForgets ==
  /\ \E a \in Addresses : key[a] = "good" /\ key' = [key EXCEPT ![a] = "half"]
  /\ UNCHANGED <<onAir, objects, visible, answers, willing>>

Changes == changes < MaxChanges /\ changes' = changes + 1

SurroundingsChange ==
  /\ stage # "done" /\ Changes
  /\ \/ \E a \in Addresses : Seen(a) \/ Lost(a)
     \/ PanelForgets
     \/ \E a \in Addresses : onAir' = Toggled(onAir, a)
          /\ UNCHANGED <<objects, visible, answers, willing, key>>
     \/ \E a \in Addresses : answers' = Toggled(answers, a)
          /\ UNCHANGED <<onAir, objects, visible, willing, key>>
     \/ willing' = ~willing /\ UNCHANGED <<onAir, objects, visible, answers, key>>
  /\ UNCHANGED <<host, daemon, link, time, stage, result, dial, loop, history>>

TimePasses ==
  /\ \/ stage \in {"rotate", "dialling", "connected"} /\ time = "left" /\ time' = "reserve"
     \/ stage # "done" /\ time # "up" /\ time' = "up"
  /\ UNCHANGED <<air, bluez, stage, result, dial, loop, history>>

\* A pairing that is going to take does so in seconds; one that is not takes as
\* long as it likes.
Taking == daemon # None /\ daemon \in answers /\ willing

Bond(a) ==
  /\ key' = [key EXCEPT ![a] = "good"] /\ link' = link \cup {a}
  /\ daemon' = None /\ made' = TRUE /\ UNCHANGED kept

\* BlueZ ends a pairing nobody waits for any more.
DaemonBonds ==
  /\ stage # "pairing" /\ Taking /\ Bond(daemon)
  /\ UNCHANGED <<air, time, stage, result, dial, loop>>
DaemonFails ==
  /\ stage # "pairing" /\ daemon # None /\ ~Taking /\ daemon' = None
  /\ UNCHANGED <<air, key, link, time, stage, result, dial, loop, history>>

----------------------------------------------------------------------------
(* ensure_bonded.                                                          *)

HasProxyRoute == host # "adapter" /\ onAir # {}

\* _live_device_path, whichever address it is of.
LivePaths == IF host = "proxy" THEN {} ELSE onAir

AsksBluez(trusting) == stage' = "bluez" /\ trust' = trusting

BondsBeforeDialling ==
  /\ stage = "start" /\ ~HasProxyRoute /\ LivePaths # {}
  /\ AsksBluez(FALSE)
  /\ UNCHANGED <<air, bluez, time, result, dial, history>>
  /\ UNCHANGED <<suspect, removalTried, paired, path, watching, pendingPath, overdue>>

DialsFirst ==
  /\ stage = "start" /\ (HasProxyRoute \/ LivePaths = {}) /\ stage' = "rotate"
  /\ UNCHANGED <<air, bluez, time, result, dial, loop, history>>

\* Addresses that failed are demoted.
Candidates == IF onAir \subseteq avoid THEN onAir ELSE onAir \ avoid

NobodyOnAir ==
  /\ stage = "rotate" /\ time # "up" /\ onAir = {} /\ avoid # {} /\ avoid' = {}
  /\ UNCHANGED <<air, bluez, time, stage, result, connectFailed, device, client, loop, history>>

\* The rotation has wrapped, or has used its share of the time.
Exhausted(a) == a \in connectFailed \/ (connectFailed # {} /\ time = "reserve")

HandsOver ==
  /\ stage = "rotate" /\ time # "up" /\ LivePaths # {}
  /\ \E a \in Candidates : Exhausted(a)
  /\ AsksBluez(FALSE)
  /\ UNCHANGED <<air, bluez, time, result, dial, history>>
  /\ UNCHANGED <<suspect, removalTried, paired, path, watching, pendingPath, overdue>>

Dial ==
  /\ stage = "rotate" /\ time # "up"
  /\ \E a \in Candidates : (Exhausted(a) => LivePaths = {}) /\ device' = a
  /\ stage' = "dialling"
  /\ UNCHANGED <<air, bluez, time, result, avoid, connectFailed, client, loop, history>>

DialFails ==
  /\ stage = "dialling" /\ stage' = "rotate"
  /\ avoid' = avoid \cup {device} /\ connectFailed' = connectFailed \cup {device}
  /\ UNCHANGED <<air, bluez, time, result, device, client, loop, history>>

\* Home Assistant picks the route.  Over the adapter the panel drops a link
\* that it has no bond for.
Connects ==
  /\ stage = "dialling" /\ device \in answers /\ stage' = "connected"
  /\ \/ host # "adapter" /\ client' = "proxy"
     \/ host # "proxy" /\ client' = "local" /\ (willing \/ \E a \in Addresses : key[a] = "good")
  /\ UNCHANGED <<air, bluez, time, result, avoid, connectFailed, device, loop, history>>

\* A change of the code that the run must notice: the link is left open.
LeavesItToBluezConnected ==
  /\ stage = "connected" /\ client = "local"
  /\ AsksBluez(TRUE)
  /\ UNCHANGED <<air, bluez, time, result, dial, history>>
  /\ UNCHANGED <<suspect, removalTried, paired, path, watching, pendingPath, overdue>>

LeavesItToBluez ==
  /\ stage = "connected" /\ client = "local" /\ client' = None
  /\ AsksBluez(TRUE)
  /\ UNCHANGED <<air, bluez, time, result, avoid, connectFailed, device, history>>
  /\ UNCHANGED <<suspect, removalTried, paired, path, watching, pendingPath, overdue>>

\* _bond_over_link: the live link is handed over, or dropped.
BondsOverLink ==
  /\ stage = "connected" /\ client = "proxy"
  /\ stage' = "done" /\ result' = "link" /\ made' = TRUE
  /\ UNCHANGED <<air, bluez, time, dial, loop, kept>>
RefusesOverLink ==
  /\ stage = "connected" /\ client = "proxy" /\ client' = None
  /\ stage' = "rotate" /\ avoid' = avoid \cup {device}
  /\ UNCHANGED <<air, bluez, time, result, connectFailed, device, loop, history>>

RunsOut ==
  /\ stage = "rotate" /\ time = "up" /\ stage' = "done" /\ result' = "failed"
  /\ UNCHANGED <<air, bluez, time, dial, loop, history>>

----------------------------------------------------------------------------
(* _ensure_bonded_bluez.                                                   *)

Paired == {a \in objects : key[a] # "none"}

\* _find_device: an object it is seeing, else any; the identity address first.
Best == IF visible # {} THEN visible ELSE objects
Found == IF Identity \in Best THEN {Identity} ELSE Best
Paths == IF objects # {} THEN Found ELSE IF LivePaths # {} THEN LivePaths ELSE {None}

\* The call ends: its link to BlueZ is closed, and with it what it asked for.
Ends(r) == stage' = "done" /\ result' = r /\ daemon' = None

\* _release_link drops the link the bond at a was made over.
Reports(a) == Ends("bonded") /\ link' = link \ {a}

\* The fast path, if the adapter that is to pair is known.
BelievesTheBond ==
  /\ stage = "bluez" /\ trust
  /\ \E a \in Found \cap Paired : path' = a /\ Reports(a)
  /\ UNCHANGED <<air, key, time, dial, history>>
  /\ UNCHANGED <<trust, suspect, removalTried, paired, watching, pendingPath, overdue>>

OpensTheLoop ==
  /\ stage = "bluez" /\ stage' = "look" /\ suspect' = ~trust /\ removalTried' = FALSE
  /\ UNCHANGED <<air, bluez, time, result, dial, history>>
  /\ UNCHANGED <<trust, paired, path, watching, pendingPath, overdue>>

\* Before the first dial a failure is not the end, but the time is up.
GivesUp ==
  /\ stage = "look" /\ time = "up" /\ daemon' = None
  /\ IF device = None THEN stage' = "rotate" /\ UNCHANGED result
     ELSE stage' = "done" /\ result' = "failed"
  /\ UNCHANGED <<air, key, link, time, dial, loop, history>>

\* The rest of the pass goes by what is looked at here.
Looks ==
  /\ stage = "look" /\ time # "up" /\ stage' = "decide"
  /\ path' \in Paths /\ paired' = Paired
  /\ UNCHANGED <<air, bluez, time, result, dial, history>>
  /\ UNCHANGED <<trust, suspect, removalTried, watching, pendingPath, overdue>>

\* A pass is over, and with it what it has looked at.
NextPass == stage' = "look" /\ path' = None /\ paired' = {}

\* The pairing under way is in the way, or has been for too long.
InTheWay == pendingPath # None /\ (path \notin {None, pendingPath} \/ overdue)

\* A change of the code that the run must notice: only its own book is closed.
CallsOffForItself ==
  /\ stage = "decide" /\ InTheWay
  /\ pendingPath' = None /\ watching' = FALSE /\ overdue' = FALSE
  /\ UNCHANGED <<air, bluez, time, stage, result, dial, history>>
  /\ UNCHANGED <<trust, suspect, removalTried, paired, path>>

\* BlueZ drops the pairing, if it is there, or the call fails, which is swallowed.
CancelPairing(a) ==
  \/ daemon' = (IF daemon = a THEN None ELSE daemon) /\ UNCHANGED kept
  \/ daemon = a /\ kept' = a /\ UNCHANGED daemon

\* Whatever came of it, the loop holds the pairing to be over.
CallsOff ==
  /\ stage = "decide" /\ InTheWay /\ CancelPairing(pendingPath)
  /\ pendingPath' = None /\ watching' = FALSE /\ overdue' = FALSE
  /\ UNCHANGED <<air, key, link, time, stage, result, dial, made>>
  /\ UNCHANGED <<trust, suspect, removalTried, paired, path>>

\* A change of the code that the run must notice: any pairing is a bond.
BelievableWhatever == path \in paired

\* What BlueZ calls paired is a bond this call may report.
Believable == path \in paired /\ ~suspect

Concludes ==
  /\ stage = "decide" /\ ~InTheWay /\ Believable /\ Reports(path)
  /\ UNCHANGED <<air, key, time, dial, loop, history>>

Waits ==
  /\ stage = "decide" /\ ~InTheWay /\ ~Believable /\ (path = None \/ watching)
  /\ NextPass
  /\ UNCHANGED <<air, bluez, time, result, dial, history>>
  /\ UNCHANGED <<trust, suspect, removalTried, watching, pendingPath, overdue>>

AsksToPair == stage = "decide" /\ ~InTheWay /\ ~Believable /\ path # None /\ ~watching

\* There is no object to call, so the call raises, out of everything.
Raises ==
  /\ AsksToPair /\ path \notin objects /\ Ends("raised")
  /\ UNCHANGED <<air, key, link, time, dial, loop, history>>

AlreadyPairing ==
  /\ AsksToPair /\ path \in objects /\ daemon # None
  /\ NextPass /\ pendingPath' = path /\ watching' = TRUE
  /\ UNCHANGED <<air, bluez, time, result, dial, history>>
  /\ UNCHANGED <<trust, suspect, removalTried, overdue>>

AlreadyPaired ==
  /\ AsksToPair /\ path \in Paired /\ daemon = None /\ stage' = "refused"
  /\ UNCHANGED <<air, bluez, time, result, dial, loop, history>>

StartsPairing ==
  /\ AsksToPair /\ path \in objects \ Paired /\ daemon = None
  /\ stage' = "pairing" /\ daemon' = path /\ kept' = None
  /\ UNCHANGED <<air, key, link, time, result, dial, loop, made>>

PairSucceeds ==
  /\ stage = "pairing" /\ Taking /\ Bond(daemon)
  /\ NextPass /\ suspect' = FALSE /\ pendingPath' = None /\ overdue' = FALSE
  /\ UNCHANGED <<air, time, result, dial, trust, removalTried, watching>>

\* BlueZ refuses, or the caller stops waiting while BlueZ goes on.
PairFails ==
  /\ stage = "pairing" /\ stage' = "refused"
  /\ IF Taking THEN Changes ELSE UNCHANGED changes
  /\ daemon' \in {None, daemon}
  /\ UNCHANGED <<host, onAir, objects, visible, answers, willing>>
  /\ UNCHANGED <<key, link, time, result, dial, loop, history>>

\* The pairing is one the panel has refused to renew: _forget, tried once.
DropsTheOldBond == suspect /\ ~removalTried /\ path \in paired

Forgets ==
  /\ stage = "refused" /\ DropsTheOldBond
  /\ removalTried' = TRUE /\ pendingPath' = path /\ NextPass
  /\ \/ /\ suspect' = FALSE /\ key' = [key EXCEPT ![path] = "none"]
        /\ objects' = objects \ {path} /\ visible' = visible \ {path} /\ link' = link \ {path}
        /\ daemon' = IF daemon = path THEN None ELSE daemon
     \/ UNCHANGED <<suspect, key, objects, visible, link, daemon>>
  /\ UNCHANGED <<host, onAir, answers, willing, changes>>
  /\ UNCHANGED <<time, result, dial, trust, watching, overdue, history>>

TriesAgain ==
  /\ stage = "refused" /\ ~DropsTheOldBond
  /\ pendingPath' = path /\ NextPass
  /\ UNCHANGED <<air, bluez, time, result, dial, history>>
  /\ UNCHANGED <<trust, suspect, removalTried, watching, overdue>>

\* pair_pending_until passes, and pending_since falls behind the limit.
WatchEnds ==
  /\ watching /\ stage # "done" /\ watching' = FALSE
  /\ UNCHANGED <<air, bluez, time, stage, result, dial, history>>
  /\ UNCHANGED <<trust, suspect, removalTried, paired, path, pendingPath, overdue>>
PendingAges ==
  /\ pendingPath # None /\ ~overdue /\ stage # "done" /\ overdue' = TRUE
  /\ IF Taking THEN Changes ELSE UNCHANGED changes
  /\ UNCHANGED <<host, onAir, objects, visible, answers, willing>>
  /\ UNCHANGED <<bluez, time, stage, result, dial, history>>
  /\ UNCHANGED <<trust, suspect, removalTried, paired, path, watching, pendingPath>>

----------------------------------------------------------------------------
EnsureBonded ==
  \/ BondsBeforeDialling \/ DialsFirst \/ NobodyOnAir \/ HandsOver \/ Dial \/ DialFails
  \/ Connects \/ LeavesItToBluez \/ BondsOverLink \/ RefusesOverLink \/ RunsOut
EnsureBondedBluez ==
  \/ BelievesTheBond \/ OpensTheLoop \/ GivesUp \/ Looks \/ CallsOff \/ Concludes \/ Waits
  \/ Raises \/ AlreadyPairing \/ AlreadyPaired \/ StartsPairing \/ PairSucceeds \/ PairFails
  \/ Forgets \/ TriesAgain

Next ==
  \/ EnsureBonded \/ EnsureBondedBluez \/ WatchEnds \/ PendingAges
  \/ SurroundingsChange \/ TimePasses \/ DaemonBonds \/ DaemonFails

\* Both coroutines go on, their waits end, and a pairing the panel takes part in
\* is carried through.
Spec ==
  /\ Init /\ [][Next]_vars
  /\ WF_vars(EnsureBonded) /\ WF_vars(EnsureBondedBluez)
  /\ WF_vars(WatchEnds) /\ WF_vars(PendingAges) /\ WF_vars(DaemonBonds)

----------------------------------------------------------------------------
(* Properties.                                                             *)

\* A caller that has not seen the panel honour a bond is told of one only if the
\* panel has bonded since it called (_ensure_bonded_bluez: "unproven").
ReportedBondIsNew == (result = "bonded" /\ ~trust) => made

\* As long as the panel waits at one address to be bonded, the loop does not go
\* on for ever: no pairing under way elsewhere keeps it there, unless BlueZ was
\* asked to call it off and did not, and no old one that BlueZ did not refuse to
\* drop.
ReadyPanelIsBonded ==
  \A a \in Addresses :
    ~<>[](/\ stage \in {"look", "decide", "pairing", "refused"} /\ time # "up"
          /\ ~(suspect /\ removalTried) /\ (daemon = kept => kept \in {None, a})
          /\ Found = {a} /\ a \in visible \cap answers /\ willing)

\* A bond the panel honours is not dropped (test_pairing_local_fallback.py:
\* "Reconfigure on a healthy bond must stay cheap and non-destructive").
WorkingBondIsKept ==
  [][\A a \in Addresses : key[a] = "good" => key'[a] # "none"]_vars
=============================================================================
