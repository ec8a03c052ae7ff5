----------------------------- MODULE RoutesProofs -----------------------------
(***************************************************************************)
(* What holds of Routes for every set of addresses, every limit and every  *)
(* bound.                                                                  *)
(***************************************************************************)
EXTENDS Routes, TLAPS

\* The failure whose address comes last is in the grudges, and is forgotten
\* when an attempt gets a link up; the blame is on an address only while, and
\* after, it is dialled.
Blame ==
  /\ previous # None => previous \in avoid
  /\ initial = "live" => previous = None /\ stage = "idle"
  /\ stage \in {"adopting", "startup", "session"} => lastAddr = None /\ previous = None
  /\ stage = "dialling" => lastAddr # None
  /\ stage = "idle" => lastAddr \in failed \cup {None}

\* What an attempt has proved at each stage.
Proved ==
  /\ stage \in {"dialling", "adopting", "startup"} => ~sessionOk
  /\ stage = "session" => sessionOk
  /\ stage = "dialling" => lastKind # None
  /\ stage = "adopting" => lastKind = None

\* The memory is distrusted exactly when its kind was dialled last and carried
\* no session.
Distrust == memory # None => (kindStale <=> lostOn = memory)

\* The notices while an attempt is under way.
Notices ==
  /\ stage = "dialling" => "no_route" \notin issues /\ ~adopted
  /\ stage = "adopting" => adopted

\* The inductive invariant.
IInv == TypeOK /\ Blame /\ Proved /\ Distrust /\ Notices /\ NoticesEndWithASession

----------------------------------------------------------------------------
\* An attempt that failed leaves grudges and a flag of their types, and holds
\* nothing against a kind that carried a session (_note_attempt_failed).
LEMMA FailureNoted ==
  ASSUME TypeOK, NEW grudges \in SUBSET Addresses, NEW kind \in Kinds \cup {None},
         NEW proved \in BOOLEAN, NoteAttemptFailed(grudges, kind, proved)
  PROVE  /\ avoid' = grudges \cup ({lastAddr} \ {None})
         /\ kindStale' \in BOOLEAN
         /\ kind = None \/ proved => kindStale' = kindStale
         /\ kind # None /\ ~proved => (kindStale' <=> kind = memory)
BY DEF NoteAttemptFailed, TypeOK

\* A counter stays in its range, as a notice stays one of the two.
LEMMA MissNoted ==
  ASSUME TypeOK, NoteNoRoute
  PROVE  misses' \in 0..MissesBeforeWarning + 1 /\ issues' \subseteq {"no_route", "lost_bond"}
<1>1. CASE OnAir = {}
  BY <1>1, LimitAssumption DEF NoteNoRoute, TypeOK
<1>2. CASE OnAir # {}
  <2>1. /\ misses' = Counted(misses, MissesBeforeWarning)
        /\ issues' = IF misses' = MissesBeforeWarning THEN issues \cup {"no_route"} ELSE issues
    BY <1>2 DEF NoteNoRoute
  <2> QED
    BY <2>1, LimitAssumption DEF Counted, TypeOK
<1> QED
  BY <1>1, <1>2

\* So for refusals.
LEMMA RefusalNoted ==
  ASSUME TypeOK, NoteRefusal
  PROVE  refusals' \in 0..RefusalsBeforeWarning + 1 /\ issues' \subseteq {"no_route", "lost_bond"}
BY LimitAssumption DEF NoteRefusal, Counted, TypeOK

\* An error that is no refusal leaves both alone.
LEMMA ErrorNoted ==
  ASSUME TypeOK, NoteError
  PROVE  refusals' \in 0..RefusalsBeforeWarning + 1 /\ issues' \subseteq {"no_route", "lost_bond"}
<1>1. CASE UNCHANGED <<refusals, issues>>
  BY <1>1 DEF TypeOK
<1>2. CASE NoteRefusal
  BY <1>2, RefusalNoted
<1> QED
  BY <1>1, <1>2 DEF NoteError

\* A new coordinator holds nothing against anybody.
LEMMA InitIInv == Init => IInv
<1> SUFFICES ASSUME Init PROVE IInv
  OBVIOUS
<1>1. TypeOK
  <2>1. now \in Nat /\ heard \in [Addresses -> 0..now]
    BY DEF Init
  <2>2. /\ connectable \subseteq Addresses /\ answers \subseteq Addresses
        /\ avoid \subseteq failed /\ failed \subseteq Addresses
        /\ issues \subseteq {"no_route", "lost_bond"}
    BY DEF Init
  <2>3. /\ bonded \in BOOLEAN /\ kindStale \in BOOLEAN /\ sessionOk \in BOOLEAN
        /\ adopted \in BOOLEAN
    BY Zenon DEF Init
  <2>4. /\ changes \in Nat /\ flukes \in Nat /\ reloads \in Nat
        /\ misses \in 0..MissesBeforeWarning + 1
        /\ refusals \in 0..RefusalsBeforeWarning + 1
    BY LimitAssumption DEF Init
  <2> QED
    BY <2>1, <2>2, <2>3, <2>4 DEF Init, TypeOK, Stages
<1>2. Blame /\ Proved /\ Distrust /\ Notices /\ NoticesEndWithASession
  BY DEF Init, Blame, Proved, Distrust, Notices, NoticesEndWithASession
<1> QED
  BY <1>1, <1>2 DEF IInv

----------------------------------------------------------------------------
\* The surroundings keep their types and touch nothing else.
LEMMA SurroundingsStep ==
  ASSUME IInv, SurroundingsChange
  PROVE  IInv'
<1>1. /\ UNCHANGED <<stage, initial, route, notices, reloads, history, flukes>>
      /\ changes' \in Nat
  BY DEF SurroundingsChange, NothingElseChanges, Changes, IInv, TypeOK
<1>2. /\ now' \in Nat /\ heard' \in [Addresses -> 0..now']
      /\ connectable' \subseteq Addresses /\ answers' \subseteq Addresses
      /\ bonded' \in BOOLEAN
  <2>1. CASE \E a \in Addresses : Advertises(a)
    <3> PICK a \in Addresses : Advertises(a)
      BY <2>1
    <3>1. now' \in Nat /\ now < now'
      BY LimitAssumption DEF Advertises, IInv, TypeOK
    <3>2. heard' = [heard EXCEPT ![a] = now'] /\ UNCHANGED <<connectable, answers, bonded>>
      BY DEF Advertises
    <3>3. heard' \in [Addresses -> 0..now']
      BY <3>1, <3>2 DEF IInv, TypeOK
    <3> QED
      BY <3>1, <3>2, <3>3 DEF IInv, TypeOK
  <2>2. CASE \E a \in Addresses : Expires(a)
    BY <2>2 DEF Expires, IInv, TypeOK
  <2>3. CASE \E a \in Addresses : /\ connectable' = Toggled(connectable, a)
                                  /\ UNCHANGED <<now, heard, answers, bonded>>
    BY <2>3 DEF Toggled, IInv, TypeOK
  <2>4. CASE \E a \in Addresses : /\ answers' = Toggled(answers, a)
                                  /\ UNCHANGED <<now, heard, connectable, bonded>>
    BY <2>4 DEF Toggled, IInv, TypeOK
  <2>5. CASE bonded' = ~bonded /\ UNCHANGED <<now, heard, connectable, answers>>
    <3>1. bonded' \in BOOLEAN
      BY <2>5, Zenon
    <3> QED
      BY <2>5, <3>1 DEF IInv, TypeOK
  <2> QED
    BY <2>1, <2>2, <2>3, <2>4, <2>5 DEF SurroundingsChange
<1>3. TypeOK'
  BY <1>1, <1>2 DEF IInv, TypeOK, route, notices, history
<1>4. (Blame /\ Proved /\ Distrust /\ Notices /\ NoticesEndWithASession)'
  BY <1>1 DEF IInv, Blame, Proved, Distrust, Notices, NoticesEndWithASession, route,
              notices, history
<1> QED
  BY <1>3, <1>4 DEF IInv

\* So does the loss of the link handed over.
LEMMA InitialDropsStep ==
  ASSUME IInv, InitialDrops
  PROVE  IInv'
BY DEF InitialDrops, Changes, IInv, TypeOK, Blame, Proved, Distrust, Notices,
       NoticesEndWithASession, route, notices, history

----------------------------------------------------------------------------
\* A round that finds nothing to dial.
LEMMA NoRouteStep ==
  ASSUME IInv, NoRoute
  PROVE  IInv'
<1>1. /\ stage = "idle" /\ initial' = None /\ sessionOk' = FALSE /\ lastKind' = None
      /\ previous' = None
      /\ UNCHANGED <<surroundings, stage, lastAddr, memory, stored, refusals, reloads>>
      /\ UNCHANGED <<failed, lostOn, adopted>>
  BY DEF NoRoute, ProvesNothing
<1>2. misses' \in 0..MissesBeforeWarning + 1 /\ issues' \subseteq {"no_route", "lost_bond"}
  BY MissNoted DEF NoRoute, IInv
<1>3. avoid' = {lastAddr} \ {None} /\ kindStale' = kindStale
  BY <1>1 DEF NoRoute, NoteAttemptFailed
<1>4. avoid' \subseteq failed
  BY <1>1, <1>3 DEF IInv, Blame
<1> QED
  BY <1>1, <1>2, <1>3, <1>4 DEF IInv, TypeOK, Blame, Proved, Distrust, Notices,
     NoticesEndWithASession, surroundings

\* An address is dialled: the notice of no route is gone before.
LEMMA ResolveStep ==
  ASSUME IInv, Resolve
  PROVE  IInv'
<1>1. PICK a \in Addresses : lastAddr' = a /\ lastKind' = AddressKind(a)
  BY DEF Resolve
<1>2. AddressKind(a) \in Kinds /\ a # None /\ AddressKind(a) # None
  BY NoneAssumption DEF AddressKind, Kinds
<1>3. /\ stage = "idle" /\ initial # "live" /\ initial' = None
      /\ sessionOk' = FALSE /\ stage' = "dialling" /\ adopted' = FALSE
      /\ misses' = 0 /\ issues' = issues \ {"no_route"}
      /\ UNCHANGED <<surroundings, avoid, kindStale, memory, stored, refusals, reloads>>
      /\ UNCHANGED <<failed, previous, lostOn>>
  BY DEF Resolve, ClearNoRoute
<1>4. adopted' \in BOOLEAN /\ sessionOk' \in BOOLEAN /\ ~adopted' /\ ~sessionOk'
  BY <1>3, Zenon
<1>5. TypeOK'
  BY <1>1, <1>2, <1>3, <1>4, LimitAssumption DEF IInv, TypeOK, Stages, surroundings
<1>6. (Blame /\ Proved /\ Distrust /\ Notices /\ NoticesEndWithASession)'
  <2>1. Blame'
    BY <1>1, <1>2, <1>3, NoneAssumption DEF IInv, Blame
  <2>2. Proved'
    BY <1>1, <1>2, <1>3, <1>4 DEF Proved
  <2>3. Distrust' /\ Notices' /\ NoticesEndWithASession'
    BY <1>3, <1>4 DEF IInv, Distrust, Notices, NoticesEndWithASession
  <2> QED
    BY <2>1, <2>2, <2>3
<1> QED
  BY <1>5, <1>6 DEF IInv

\* The dial comes to nothing: its address is a grudge, its kind out of favour.
LEMMA DialFailsStep ==
  ASSUME IInv, DialFails
  PROVE  IInv'
<1>1. /\ stage = "dialling" /\ stage' = "idle" /\ NoteAttemptFailed(avoid, lastKind, sessionOk)
      /\ failed' = failed \cup {lastAddr} /\ previous' = lastAddr /\ lostOn' = lastKind
      /\ SameSurroundings
      /\ UNCHANGED <<initial, lastAddr, lastKind, sessionOk, memory, stored, misses, reloads, adopted>>
  BY DEF DialFails
<1>2. /\ flukes' \in Nat /\ refusals' \in 0..RefusalsBeforeWarning + 1
      /\ issues' \subseteq {"no_route", "lost_bond"}
  <2>1. flukes' \in {flukes, flukes + 1}
    BY DEF DialFails, Fluke
  <2>2. CASE UNCHANGED <<refusals, issues>>
    BY <2>1, <2>2 DEF IInv, TypeOK
  <2>3. CASE NoteError
    BY <2>1, <2>3, ErrorNoted DEF IInv, TypeOK
  <2> QED
    BY <2>2, <2>3 DEF DialFails
<1>3. /\ lastAddr \in Addresses /\ lastKind \in Kinds /\ lastKind # None /\ ~sessionOk
      /\ initial # "live"
  BY <1>1 DEF IInv, TypeOK, Blame, Proved
<1>4. /\ avoid' = avoid \cup {lastAddr}
      /\ kindStale' \in BOOLEAN /\ (kindStale' <=> lastKind = memory)
  BY <1>1, <1>3, FailureNoted, NoneAssumption DEF IInv, TypeOK
<1>5. TypeOK'
  BY <1>1, <1>2, <1>3, <1>4 DEF IInv, TypeOK, Stages, SameSurroundings
<1>6. (Blame /\ Proved /\ Distrust /\ Notices /\ NoticesEndWithASession)'
  BY <1>1, <1>3, <1>4 DEF IInv, Blame, Proved, Distrust, Notices, NoticesEndWithASession
<1> QED
  BY <1>5, <1>6 DEF IInv

\* The link is up: no blame, no refusal.
LEMMA SubscribesStep ==
  ASSUME IInv, Subscribes
  PROVE  IInv'
<1>1. TypeOK'
  BY LimitAssumption DEF Subscribes, ClearRefusals, IInv, TypeOK, Stages, surroundings
<1>2. (Blame /\ Proved /\ Distrust /\ Notices /\ NoticesEndWithASession)'
  BY DEF Subscribes, ClearRefusals, IInv, Blame, Proved, Distrust, Notices,
         NoticesEndWithASession
<1> QED
  BY <1>1, <1>2 DEF IInv

----------------------------------------------------------------------------
\* The link pairing handed over is taken, and subscribed or given up.
LEMMA AdoptStep ==
  ASSUME IInv, Adopt
  PROVE  IInv'
<1>1. sessionOk' \in BOOLEAN /\ adopted' \in BOOLEAN /\ ~sessionOk' /\ adopted'
  BY Zenon DEF Adopt, ProvesNothing
<1>2. TypeOK'
  BY <1>1 DEF Adopt, ProvesNothing, IInv, TypeOK, Stages, surroundings, notices
<1>3. (Blame /\ Proved /\ Distrust /\ Notices /\ NoticesEndWithASession)'
  BY <1>1, NoneAssumption DEF Adopt, ProvesNothing, IInv, Blame, Proved, Distrust, Notices,
         NoticesEndWithASession, notices
<1> QED
  BY <1>2, <1>3 DEF IInv

\* A handed-off link that fails blames no address.
LEMMA AdoptionFailsStep ==
  ASSUME IInv, AdoptionFails
  PROVE  IInv'
<1>1. /\ stage = "adopting" /\ stage' = "idle" /\ NoteAttemptFailed(avoid, lastKind, sessionOk)
      /\ adopted' = FALSE /\ SameSurroundings
      /\ UNCHANGED <<initial, lastAddr, lastKind, sessionOk, memory, stored, misses, reloads>>
      /\ UNCHANGED <<failed, previous, lostOn>>
  BY DEF AdoptionFails
<1>2. /\ flukes' \in Nat /\ refusals' \in 0..RefusalsBeforeWarning + 1
      /\ issues' \subseteq {"no_route", "lost_bond"}
  <2>1. flukes' \in {flukes, flukes + 1}
    BY DEF AdoptionFails, Fluke
  <2> QED
    BY <2>1, ErrorNoted DEF AdoptionFails, IInv, TypeOK
<1>3. lastKind = None /\ lastAddr = None
  BY <1>1 DEF IInv, Proved, Blame
<1>4. avoid' = avoid /\ kindStale' = kindStale
  BY <1>1, <1>3 DEF NoteAttemptFailed
<1>5. adopted' \in BOOLEAN
  BY <1>1, Zenon
<1>6. TypeOK'
  BY <1>1, <1>2, <1>4, <1>5 DEF IInv, TypeOK, Stages, SameSurroundings
<1>7. (Blame /\ Proved /\ Distrust /\ Notices /\ NoticesEndWithASession)'
  BY <1>1, <1>3, <1>4 DEF IInv, Blame, Proved, Distrust, Notices, NoticesEndWithASession
<1> QED
  BY <1>6, <1>7 DEF IInv

\* A handed-off link that works goes on to the startup.
LEMMA AdoptedStep ==
  ASSUME IInv, Adopted
  PROVE  IInv'
<1>1. TypeOK'
  BY LimitAssumption DEF Adopted, ClearRefusals, IInv, TypeOK, Stages, surroundings, route, history
<1>2. (Blame /\ Proved /\ Distrust /\ Notices /\ NoticesEndWithASession)'
  BY DEF Adopted, ClearRefusals, IInv, Blame, Proved, Distrust, Notices,
         NoticesEndWithASession, route, history
<1> QED
  BY <1>1, <1>2 DEF IInv

----------------------------------------------------------------------------
\* A startup that fails counts against the kind that was dialled, if one was.
LEMMA StartupFailsStep ==
  ASSUME IInv, StartupFails
  PROVE  IInv'
<1>1. /\ stage = "startup" /\ stage' = "idle" /\ flukes' = flukes + 1
      /\ NoteAttemptFailed(avoid, lastKind, sessionOk)
      /\ lostOn' = (IF lastKind = None THEN lostOn ELSE lastKind) /\ adopted' = FALSE
      /\ SameSurroundings
      /\ UNCHANGED <<initial, lastAddr, lastKind, sessionOk, memory, stored, misses, reloads,
                     failed, previous>>
  BY DEF StartupFails, Fluke
<1>2. lastAddr = None /\ ~sessionOk /\ previous = None /\ initial # "live"
  BY <1>1 DEF IInv, Blame, Proved
<1>3. /\ avoid' = avoid /\ kindStale' \in BOOLEAN
      /\ lastKind = None => kindStale' = kindStale
      /\ lastKind # None => (kindStale' <=> lastKind = memory)
  <2>1. TypeOK /\ avoid \in SUBSET Addresses /\ lastKind \in Kinds \cup {None}
        /\ sessionOk \in BOOLEAN
    BY DEF IInv, TypeOK
  <2>2. avoid' = avoid \cup ({lastAddr} \ {None})
        /\ kindStale' \in BOOLEAN
        /\ (lastKind = None \/ sessionOk => kindStale' = kindStale)
        /\ (lastKind # None /\ ~sessionOk => (kindStale' <=> lastKind = memory))
    BY <1>1, <2>1, FailureNoted
  <2> QED
    BY <1>2, <2>2
<1>4. adopted' \in BOOLEAN
  BY <1>1, Zenon
<1>5. refusals' \in 0..RefusalsBeforeWarning + 1 /\ issues' \subseteq {"no_route", "lost_bond"}
  BY ErrorNoted DEF StartupFails, IInv
<1>6. TypeOK'
  BY <1>1, <1>3, <1>4, <1>5 DEF IInv, TypeOK, Stages, SameSurroundings
<1>7. Distrust'
  <2>1. CASE lastKind = None
    BY <2>1, <1>1, <1>3 DEF IInv, Distrust
  <2>2. CASE lastKind # None
    BY <2>2, <1>1, <1>3 DEF Distrust
  <2> QED
    BY <2>1, <2>2
<1>8. (Blame /\ Proved /\ Notices /\ NoticesEndWithASession)'
  BY <1>1, <1>2, <1>3 DEF IInv, Blame, Proved, Notices, NoticesEndWithASession
<1> QED
  BY <1>6, <1>7, <1>8 DEF IInv

\* A startup that ends well makes its kind the memory, which nothing disproves.
LEMMA StartupSucceedsStep ==
  ASSUME IInv, StartupSucceeds
  PROVE  IInv'
<1>1. /\ stage = "startup" /\ stage' = "session" /\ sessionOk' = TRUE
      /\ UNCHANGED <<surroundings, initial, avoid, lastAddr, lastKind, notices, reloads,
                     failed, previous, adopted>>
  BY DEF StartupSucceeds
<1>2. sessionOk' \in BOOLEAN /\ sessionOk'
  BY <1>1, Zenon
<1>3. CASE lastKind = None
  <2>1. UNCHANGED <<kindStale, memory, stored, lostOn>>
    BY <1>3 DEF StartupSucceeds
  <2>2. TypeOK'
    BY <2>1, <1>1, <1>2 DEF IInv, TypeOK, Stages, surroundings, notices
  <2>3. (Blame /\ Proved /\ Distrust /\ Notices /\ NoticesEndWithASession)'
    BY <2>1, <1>1, <1>2 DEF IInv, Blame, Proved, Distrust, Notices, NoticesEndWithASession,
                            notices
  <2> QED
    BY <2>2, <2>3 DEF IInv
<1>4. CASE lastKind # None
  <2>1. kindStale' = FALSE /\ memory' = lastKind /\ stored' = lastKind /\ lostOn' = None
    BY <1>4 DEF StartupSucceeds
  <2>2. kindStale' \in BOOLEAN /\ ~kindStale'
    BY <2>1, Zenon
  <2>3. TypeOK'
    BY <2>1, <2>2, <1>1, <1>2 DEF IInv, TypeOK, Stages, surroundings, notices
  <2>4. (Blame /\ Proved /\ Distrust /\ Notices /\ NoticesEndWithASession)'
    BY <2>1, <2>2, <1>1, <1>2 DEF IInv, Blame, Proved, Distrust, Notices,
                                  NoticesEndWithASession, notices
  <2> QED
    BY <2>3, <2>4 DEF IInv
<1> QED
  BY <1>3, <1>4

\* The end of a session forgives the addresses or leaves them as they were.
LEMMA SessionEndsStep ==
  ASSUME IInv, SessionEnds
  PROVE  IInv'
<1>1. /\ stage = "session" /\ stage' = "idle" /\ adopted' = FALSE
      /\ UNCHANGED <<surroundings, initial, lastAddr, lastKind, memory, sessionOk, stored,
                     misses, reloads, previous, lostOn>>
  BY DEF SessionEnds
<1>2. lastAddr = None /\ sessionOk /\ previous = None /\ initial # "live"
  BY <1>1 DEF IInv, Blame, Proved
<1>3. kindStale' = kindStale
  BY <1>2, FailureNoted DEF SessionEnds, IInv, TypeOK
<1>4. avoid' \subseteq failed' /\ failed' \subseteq Addresses
  <2>1. CASE avoid' = {} /\ failed' = {}
    BY <2>1
  <2>2. CASE NoteAttemptFailed(avoid, lastKind, sessionOk) /\ UNCHANGED failed
    BY <2>2, <1>2 DEF NoteAttemptFailed, IInv, TypeOK
  <2> QED
    BY <2>1, <2>2 DEF SessionEnds
<1>5. adopted' \in BOOLEAN
  BY <1>1, Zenon
<1>6. refusals' \in 0..RefusalsBeforeWarning + 1 /\ issues' \subseteq {"no_route", "lost_bond"}
  <2>1. CASE UNCHANGED <<refusals, issues>>
    BY <2>1 DEF IInv, TypeOK
  <2>2. CASE NoteError
    BY <2>2, ErrorNoted DEF IInv
  <2> QED
    BY <2>1, <2>2 DEF SessionEnds
<1>7. TypeOK'
  BY <1>1, <1>3, <1>4, <1>5, <1>6 DEF IInv, TypeOK, Stages, surroundings
<1>8. (Blame /\ Proved /\ Distrust /\ Notices /\ NoticesEndWithASession)'
  BY <1>1, <1>2, <1>3 DEF IInv, Blame, Proved, Distrust, Notices, NoticesEndWithASession
<1> QED
  BY <1>7, <1>8 DEF IInv

\* A new coordinator starts from the store.
LEMMA ReloadStep ==
  ASSUME IInv, Reload
  PROVE  IInv'
<1>1. /\ stage = "idle" /\ reloads' = reloads + 1
      /\ avoid' = {} /\ lastAddr' = None /\ lastKind' = None /\ kindStale' = FALSE
      /\ memory' = stored /\ sessionOk' = FALSE /\ misses' = 0 /\ refusals' = 0
      /\ failed' = {} /\ previous' = None /\ lostOn' = None /\ adopted' = FALSE
      /\ UNCHANGED <<now, heard, connectable, answers, changes, flukes, stage, stored>>
  BY DEF Reload
<1>2. /\ kindStale' \in BOOLEAN /\ sessionOk' \in BOOLEAN /\ adopted' \in BOOLEAN
      /\ ~kindStale' /\ ~sessionOk' /\ ~adopted'
  BY <1>1, Zenon
<1>3. initial' \in {None, "live"} /\ issues' \subseteq issues
  BY DEF Reload
<1>4. bonded' \in BOOLEAN
  <2>1. CASE UNCHANGED bonded
    BY <2>1 DEF IInv, TypeOK
  <2>2. CASE bonded' = TRUE
    BY <2>2, Zenon
  <2> QED
    BY <2>1, <2>2 DEF Reload
<1>5. TypeOK'
  BY <1>1, <1>2, <1>3, <1>4, LimitAssumption DEF IInv, TypeOK
<1>6. (Blame /\ Proved /\ Distrust /\ Notices /\ NoticesEndWithASession)'
  BY <1>1, <1>2, <1>3 DEF IInv, TypeOK, Blame, Proved, Distrust, Notices,
                          NoticesEndWithASession
<1> QED
  BY <1>5, <1>6 DEF IInv

----------------------------------------------------------------------------
\* Every step keeps the invariant.
LEMMA StepIInv == IInv /\ [Next]_vars => IInv'
<1> SUFFICES ASSUME IInv, [Next]_vars PROVE IInv'
  OBVIOUS
<1>1. CASE SurroundingsChange
  BY <1>1, SurroundingsStep
<1>2. CASE InitialDrops
  BY <1>2, InitialDropsStep
<1>3. CASE NoRoute
  BY <1>3, NoRouteStep
<1>4. CASE Resolve
  BY <1>4, ResolveStep
<1>5. CASE DialFails
  BY <1>5, DialFailsStep
<1>6. CASE Subscribes
  BY <1>6, SubscribesStep
<1>7. CASE Adopt
  BY <1>7, AdoptStep
<1>8. CASE AdoptionFails
  BY <1>8, AdoptionFailsStep
<1>9. CASE Adopted
  BY <1>9, AdoptedStep
<1>10. CASE StartupFails
  BY <1>10, StartupFailsStep
<1>11. CASE StartupSucceeds
  BY <1>11, StartupSucceedsStep
<1>12. CASE SessionEnds
  BY <1>12, SessionEndsStep
<1>13. CASE Reload
  BY <1>13, ReloadStep
<1>14. CASE UNCHANGED vars
  BY <1>14 DEF vars, surroundings, route, notices, history, IInv, TypeOK, Blame, Proved,
               Distrust, Notices, NoticesEndWithASession
<1> QED
  BY <1>1, <1>2, <1>3, <1>4, <1>5, <1>6, <1>7, <1>8, <1>9, <1>10, <1>11, <1>12, <1>13,
     <1>14 DEF Next, Coordinates

\* The inductive invariant holds throughout.
THEOREM Inductive == Spec => []IInv
BY InitIInv, StepIInv, PTL DEF Spec

\* Every variable keeps its type, and only addresses whose dial failed are
\* demoted.
THEOREM TypeCorrect == Spec => []TypeOK
BY Inductive, PTL DEF IInv

\* A session ends the notices (_async_clear_no_route,
\* _async_clear_encryption_failure).
THEOREM NoticesEnd == Spec => []NoticesEndWithASession
BY Inductive, PTL DEF IInv

----------------------------------------------------------------------------
\* The sort key puts an address that has not failed before one that has.
LEMMA GrudgesComeLast ==
  ASSUME NEW a, NEW b, a \in avoid, b \notin avoid
  PROVE  ~Before(a, b)
<1>1. Score(a) \in 4..7 /\ Score(b) \in 0..3
  BY DEF Score
<1> QED
  BY <1>1 DEF Before

\* A fresh address of the wanted kind that has not failed is only outdone by
\* another one.
LEMMA WantedComeFirst ==
  ASSUME NEW a, NEW b, Before(a, b), b \notin avoid, Fresh(b), AddressKind(b) = Wanted
  PROVE  AddressKind(a) = Wanted
<1>1. Score(b) = 0
  BY DEF Score
<1>2. AddressKind(a) # Wanted => Score(a) \in {1, 3, 5, 7}
  BY DEF Score
<1> QED
  BY <1>1, <1>2 DEF Before

\* Who dials the address that failed last has only grudges to choose from.
LEMMA ElsewhereStep ==
  ASSUME IInv, Resolve, lastAddr' = previous
  PROVE  Reachable \subseteq failed
<1>1. previous \in avoid
  BY NoneAssumption DEF Resolve, IInv, Blame
<1>2. \A b \in Reachable : Before(previous, b)
  BY DEF Resolve, Resolves
<1> QED
  BY <1>1, <1>2, GrudgesComeLast DEF IInv, TypeOK

\* An address that has just failed is not dialled again before one that can be
\* reached and has not failed since the last session (async_resolve_device).
THEOREM Rotates == Spec => NextDialIsElsewhere
<1>1. IInv /\ [Next]_vars => [Resolve /\ lastAddr' = previous => Reachable \subseteq failed]_vars
  BY ElsewhereStep
<1> QED
  BY <1>1, Inductive, PTL DEF Spec, NextDialIsElsewhere

\* The kind that is wanted is dialled wherever it can be.
LEMMA MemoryStep ==
  ASSUME IInv, Resolve, memory # None
  PROVE  LET best == IF lostOn = memory THEN OtherKind(memory) ELSE memory
         IN  (\E a \in Reachable \ failed : Fresh(a) /\ AddressKind(a) = best)
               => lastKind' = best
<1> DEFINE best == IF lostOn = memory THEN OtherKind(memory) ELSE memory
<1>1. best = Wanted
  BY DEF IInv, Distrust, Wanted
<1>2. SUFFICES ASSUME NEW b \in Reachable \ failed, Fresh(b), AddressKind(b) = best
               PROVE  lastKind' = best
  OBVIOUS
<1>3. PICK a \in Addresses : Resolves(a) /\ lastKind' = AddressKind(a)
  BY DEF Resolve
<1>4. Before(a, b) /\ b \notin avoid
  BY <1>3 DEF Resolves, IInv, TypeOK
<1> QED
  BY <1>1, <1>2, <1>3, <1>4, WantedComeFirst

\* A remembered kind of address is tried first, and once only before the other
\* kind is (_prefer_identity).
THEOREM MemoryCosts == Spec => MemoryCostsOneAttempt
<1>1. IInv /\ [Next]_vars =>
        [Resolve /\ memory # None =>
           LET best == IF lostOn = memory THEN OtherKind(memory) ELSE memory
           IN  (\E a \in Reachable \ failed : Fresh(a) /\ AddressKind(a) = best)
                 => lastKind' = best]_vars
  BY MemoryStep
<1> QED
  BY <1>1, Inductive, PTL DEF Spec, MemoryCostsOneAttempt
=============================================================================
