--------------------------- MODULE CoordinatorProofs ---------------------------
(***************************************************************************)
(* Theorems about the session loop of TrumaCoordinator, for any callers    *)
(* and any bound on their calls.                                           *)
(*                                                                         *)
(* The flags of the model are Boolean variables the code assigns FALSE and *)
(* TRUE to and combines with and/or; the SMT backend relates such an       *)
(* assignment to a formula only if the value is known to be one of the     *)
(* two, so the type invariant is carried in the form TypeInv below.        *)
(***************************************************************************)
EXTENDS Coordinator, TLAPS

\* The tuples of variables are abbreviations: every proof may see through them.
USE DEF loopVars, linkVars, liveVars, entryVars, optionVars, readVars

-----------------------------------------------------------------------------
(* Type correctness *)

Flag(x) == x = TRUE \/ x = FALSE

TypeInv ==
  /\ Flag(polling) /\ Flag(fresh) /\ Flag(lastKind) /\ Flag(attempt)
  /\ Flag(announced) /\ Flag(woken)
  /\ Flag(wakePending) /\ Flag(release) /\ Flag(window) /\ Flag(hold)
  /\ Flag(poll) /\ Flag(reload) /\ Flag(stop) /\ Flag(settling) /\ Flag(lately)
  /\ phase \in Phases
  /\ outcome \in {"none", "session", "failed", "vain"}
  /\ link \in {"none", "new", "live", "dead"}
  /\ initial \in {"none", "up", "down"}
  /\ open \in {"none", "opening", "up"}
  /\ asked \in {"none", "once", "window"}
  /\ stopper \in {"no", "waiting", "cancelled", "done"}
  /\ writer \in [Writers -> {"idle", "waiting", "served", "writing"}]
  /\ reader \in [Requests -> {"idle", "waiting", "served", "reading"}]
  /\ want \in [Requests -> {"once", "window"}]
  /\ cancelled \in [Requests -> BOOLEAN]
  /\ owner \in Requests \cup {Nobody}
  /\ calls \in 0 .. MaxCalls

\* The two forms of a Boolean variable's type.
LEMMA FlagIsBoolean == ASSUME NEW x PROVE Flag(x) <=> x \in BOOLEAN
  BY Zenon DEF Flag

\* The form the proofs carry gives the invariant the model states.
LEMMA TypeInvGivesTypeOK == TypeInv => TypeOK
<1> SUFFICES ASSUME TypeInv PROVE TypeOK
  OBVIOUS
<1>1. /\ polling \in BOOLEAN /\ fresh \in BOOLEAN /\ lastKind \in BOOLEAN /\ attempt \in BOOLEAN
      /\ announced \in BOOLEAN /\ woken \in BOOLEAN
      /\ wakePending \in BOOLEAN /\ release \in BOOLEAN /\ window \in BOOLEAN /\ hold \in BOOLEAN
      /\ poll \in BOOLEAN /\ reload \in BOOLEAN /\ stop \in BOOLEAN /\ settling \in BOOLEAN
      /\ lately \in BOOLEAN
  BY Zenon, FlagIsBoolean DEF TypeInv
<1>2. QED
  BY Zenon, <1>1 DEF TypeInv, TypeOK

\* A new coordinator is well typed.
LEMMA TypeInit == Init => TypeInv
  BY MaxCallsAssumption DEF TypeInv, Flag, Init, Phases

\* Every step keeps the types.
LEMMA TypeStep == TypeInv /\ [Next]_vars => TypeInv'
<1> SUFFICES ASSUME TypeInv, [Next]_vars PROVE TypeInv'
  OBVIOUS
<1>1. CASE AdoptHandoff
  BY <1>1, MaxCallsAssumption DEF AdoptHandoff, StartAttempt, TypeInv, Flag, Phases
<1>2. CASE KeepDistance
  BY <1>2, MaxCallsAssumption DEF KeepDistance, LoopHead, StartAttempt, TypeInv, Flag, Phases
<1>3. CASE HandOverEnds
  BY <1>3, MaxCallsAssumption DEF HandOverEnds, StartAttempt, TypeInv, Flag, Phases
<1>4. CASE GattUp
  BY <1>4, MaxCallsAssumption DEF GattUp, TypeInv, Flag, Phases
<1>5. CASE Subscribed
  BY <1>5, MaxCallsAssumption DEF Subscribed, TypeInv, Flag, Phases
<1>6. CASE AttemptFails
  BY <1>6, MaxCallsAssumption DEF AttemptFails, HangUp, DropClient, Failure, TypeInv, Flag, Phases
<1>7. CASE StartupSucceeds
  BY <1>7, MaxCallsAssumption DEF StartupSucceeds, OpenSession, ReleaseWaiters, HangUp, DropClient, TypeInv,
     Flag, Phases
<1>8. CASE AddressKindSaved
  BY <1>8, MaxCallsAssumption DEF AddressKindSaved, OpenSession, ReleaseWaiters, HangUp, DropClient, TypeInv,
     Flag, Phases
<1>9. CASE ReleaseEnds
  BY <1>9, MaxCallsAssumption DEF ReleaseEnds, HangUp, DropClient, TypeInv, Flag, Phases
<1>10. CASE SessionEnds
  BY <1>10, MaxCallsAssumption DEF SessionEnds, HangUp, DropClient, TypeInv, Flag, Phases
<1>11. CASE MeasureStarts
  BY <1>11, MaxCallsAssumption DEF MeasureStarts, TypeInv, Flag, Phases
<1>12. CASE MeasureEnds
  BY <1>12, MaxCallsAssumption DEF MeasureEnds, HangUp, DropClient, TypeInv, Flag, Phases
<1>13. CASE TeardownEnds
  BY <1>13, MaxCallsAssumption DEF TeardownEnds, LoopHead, StartAttempt, TypeInv, Flag, Phases
<1>14. CASE PauseStarts
  BY <1>14, MaxCallsAssumption DEF PauseStarts, TypeInv, Flag, Phases
<1>15. CASE PauseEnds
  BY <1>15, MaxCallsAssumption DEF PauseEnds, LoopHead, StartAttempt, TypeInv, Flag, Phases
<1>16. ASSUME NEW w \in Writers, WriteBegins(w) PROVE TypeInv'
  BY <1>16, MaxCallsAssumption DEF WriteBegins, Wake, TypeInv, Flag, Phases
<1>17. ASSUME NEW w \in Writers, WriterResumes(w) PROVE TypeInv'
  BY <1>17, MaxCallsAssumption DEF WriterResumes, TypeInv, Flag, Phases
<1>18. ASSUME NEW w \in Writers, WriteEnds(w) PROVE TypeInv'
  BY <1>18, MaxCallsAssumption DEF WriteEnds, TypeInv, Flag, Phases
<1>19. ASSUME NEW r \in Requests, NEW m \in {"once", "window"}, RefreshBegins(r, m) PROVE TypeInv'
  BY <1>19, MaxCallsAssumption DEF RefreshBegins, Wake, TypeInv, Flag, Phases
<1>20. ASSUME NEW r \in Requests, RefreshSucceeds(r) PROVE TypeInv'
  BY <1>20, MaxCallsAssumption DEF RefreshSucceeds, Finish, TypeInv, Flag, Phases
<1>21. ASSUME NEW r \in Requests, RefreshFails(r) PROVE TypeInv'
  BY <1>21, MaxCallsAssumption DEF RefreshFails, Finish, TypeInv, Flag, Phases
<1>22. CASE EndManual
  BY <1>22, MaxCallsAssumption DEF EndManual, ManualSessionActive, TypeInv, Flag, Phases
<1>23. CASE ChangeOptions
  BY <1>23, MaxCallsAssumption DEF ChangeOptions, Wake, TypeInv, Flag, Phases
<1>24. CASE StopBegins
  BY <1>24, MaxCallsAssumption DEF StopBegins, TypeInv, Flag, Phases
<1>25. CASE Setup
  BY <1>25, MaxCallsAssumption DEF Setup, NewCoordinator, TypeInv, Flag, Phases
<1>26. CASE SessionCancelled
  BY <1>26, MaxCallsAssumption DEF SessionCancelled, HangUp, DropClient, Failure, TypeInv, Flag, Phases
<1>27. CASE StopEnds
  BY <1>27, MaxCallsAssumption DEF StopEnds, DropTheRest, TypeInv, Flag, Phases
<1>28. CASE SettlingEnds
  BY <1>28, MaxCallsAssumption DEF SettlingEnds, TypeInv, Flag, Phases
<1>29. CASE HoldExpires
  BY <1>29, MaxCallsAssumption DEF HoldExpires, TypeInv, Flag, Phases
<1>30. CASE WindowExpires
  BY <1>30, MaxCallsAssumption DEF WindowExpires, TypeInv, Flag, Phases
<1>31. CASE LinkDies
  BY <1>31, MaxCallsAssumption DEF LinkDies, TypeInv, Flag, Phases
<1>32. CASE UNCHANGED vars
  BY <1>32, MaxCallsAssumption DEF vars, TypeInv, Flag, Phases
<1>33. QED
  BY <1>1, <1>2, <1>3, <1>4, <1>5, <1>6, <1>7, <1>8, <1>9, <1>10, <1>11, <1>12, <1>13, <1>14,
     <1>15, <1>16, <1>17, <1>18, <1>19, <1>20, <1>21, <1>22, <1>23, <1>24, <1>25, <1>26, <1>27,
     <1>28, <1>29, <1>30, <1>31, <1>32 DEF Next, SessionTask, Calls, CallSteps, StopTask, Timers

\* The type invariant in the form of the later proofs.
THEOREM TypesHold == Spec => []TypeInv
  BY TypeInit, TypeStep, PTL DEF Spec

\* Every variable of the session loop keeps its type, whatever the interleaving
\* of session task, callers, options, unload and radio.
THEOREM TypeCorrect == Spec => []TypeOK
  BY TypesHold, TypeInvGivesTypeOK, PTL

-----------------------------------------------------------------------------
(* The link and its announcement *)

\* Outside an attempt there is no client.  HangUp drops it in the step that
\* leaves the attempt, before the close is awaited.
NoLinkBetweenAttempts ==
  phase \in {"boot", "handover", "teardown", "arming", "pause", "gone"} => link = "none"

\* A connection that is up and was not hung up is the client of the attempt or
\* the link handed off by pairing: what async_stop drops is all there is.
OpenLinkIsHeld == open = "up" => link # "none" \/ initial = "up"

\* A connection is being opened by a dial, or by one that async_stop cancelled.
DialIsOpening ==
  open = "opening" => (phase = "dial" /\ link = "new") \/ stopper \in {"cancelled", "done"}

\* What async_stop has ended stays ended.
StoppedForGood == stopper = "done" => phase = "gone" /\ open # "up"

\* Inductive: the announcement is tied to the dwell loop, and the dwell loop to
\* a client of its own.
SessionInv ==
  /\ NoLinkBetweenAttempts
  /\ AnnouncedMeansSession
  /\ NobodyWaitsAtAnOpenLink
  /\ OpenLinkIsHeld
  /\ DialIsOpening
  /\ StoppedForGood
  /\ stopper # "no" => stop

\* A new coordinator has no link and no waiting caller.
LEMMA SessionInit == Init => SessionInv
  BY DEF Init, SessionInv, NoLinkBetweenAttempts, AnnouncedMeansSession,
     NobodyWaitsAtAnOpenLink, OpenLinkIsHeld,
     DialIsOpening, StoppedForGood

\* Every step keeps link and announcement together.
LEMMA SessionStep == TypeInv /\ SessionInv /\ [Next]_vars => SessionInv'
<1> SUFFICES ASSUME TypeInv, SessionInv, [Next]_vars PROVE SessionInv'
  OBVIOUS
<1>1. CASE AdoptHandoff
  BY <1>1 DEF AdoptHandoff, StartAttempt, TypeInv, Flag, Phases, SessionInv,
     NoLinkBetweenAttempts, AnnouncedMeansSession, NobodyWaitsAtAnOpenLink, OpenLinkIsHeld,
     DialIsOpening, StoppedForGood
<1>2. CASE KeepDistance
  BY <1>2 DEF KeepDistance, LoopHead, StartAttempt, TypeInv, Flag, Phases, SessionInv,
     NoLinkBetweenAttempts, AnnouncedMeansSession, NobodyWaitsAtAnOpenLink, OpenLinkIsHeld,
     DialIsOpening, StoppedForGood
<1>3. CASE HandOverEnds
  BY <1>3 DEF HandOverEnds, StartAttempt, TypeInv, Flag, Phases, SessionInv,
     NoLinkBetweenAttempts, AnnouncedMeansSession, NobodyWaitsAtAnOpenLink, OpenLinkIsHeld,
     DialIsOpening, StoppedForGood
<1>4. CASE GattUp
  BY <1>4 DEF GattUp, TypeInv, Flag, Phases, SessionInv, NoLinkBetweenAttempts,
     AnnouncedMeansSession, NobodyWaitsAtAnOpenLink, OpenLinkIsHeld,
     DialIsOpening, StoppedForGood
<1>5. CASE Subscribed
  BY <1>5 DEF Subscribed, TypeInv, Flag, Phases, SessionInv, NoLinkBetweenAttempts,
     AnnouncedMeansSession, NobodyWaitsAtAnOpenLink, OpenLinkIsHeld,
     DialIsOpening, StoppedForGood
<1>6. CASE AttemptFails
  BY <1>6 DEF AttemptFails, HangUp, DropClient, Failure, TypeInv, Flag, Phases, SessionInv,
     NoLinkBetweenAttempts, AnnouncedMeansSession, NobodyWaitsAtAnOpenLink, OpenLinkIsHeld,
     DialIsOpening, StoppedForGood
<1>7. CASE StartupSucceeds
  BY <1>7 DEF StartupSucceeds, OpenSession, ReleaseWaiters, HangUp, DropClient, TypeInv, Flag, Phases,
     SessionInv, NoLinkBetweenAttempts, AnnouncedMeansSession, NobodyWaitsAtAnOpenLink,
     OpenLinkIsHeld,
     DialIsOpening, StoppedForGood
<1>8. CASE AddressKindSaved
  BY <1>8 DEF AddressKindSaved, OpenSession, ReleaseWaiters, HangUp, DropClient, TypeInv, Flag, Phases,
     SessionInv, NoLinkBetweenAttempts, AnnouncedMeansSession, NobodyWaitsAtAnOpenLink,
     OpenLinkIsHeld,
     DialIsOpening, StoppedForGood
<1>9. CASE ReleaseEnds
  BY <1>9 DEF ReleaseEnds, HangUp, DropClient, TypeInv, Flag, Phases, SessionInv, NoLinkBetweenAttempts,
     AnnouncedMeansSession, NobodyWaitsAtAnOpenLink, OpenLinkIsHeld,
     DialIsOpening, StoppedForGood
<1>10. CASE SessionEnds
  BY <1>10 DEF SessionEnds, HangUp, DropClient, TypeInv, Flag, Phases, SessionInv, NoLinkBetweenAttempts,
     AnnouncedMeansSession, NobodyWaitsAtAnOpenLink, OpenLinkIsHeld,
     DialIsOpening, StoppedForGood
<1>11. CASE MeasureStarts
  BY <1>11 DEF MeasureStarts, TypeInv, Flag, Phases, SessionInv, NoLinkBetweenAttempts,
     AnnouncedMeansSession, NobodyWaitsAtAnOpenLink, OpenLinkIsHeld,
     DialIsOpening, StoppedForGood
<1>12. CASE MeasureEnds
  BY <1>12 DEF MeasureEnds, HangUp, DropClient, TypeInv, Flag, Phases, SessionInv, NoLinkBetweenAttempts,
     AnnouncedMeansSession, NobodyWaitsAtAnOpenLink, OpenLinkIsHeld,
     DialIsOpening, StoppedForGood
<1>13. CASE TeardownEnds
  BY <1>13 DEF TeardownEnds, LoopHead, StartAttempt, TypeInv, Flag, Phases, SessionInv,
     NoLinkBetweenAttempts, AnnouncedMeansSession, NobodyWaitsAtAnOpenLink, OpenLinkIsHeld,
     DialIsOpening, StoppedForGood
<1>14. CASE PauseStarts
  BY <1>14 DEF PauseStarts, TypeInv, Flag, Phases, SessionInv, NoLinkBetweenAttempts,
     AnnouncedMeansSession, NobodyWaitsAtAnOpenLink, OpenLinkIsHeld,
     DialIsOpening, StoppedForGood
<1>15. CASE PauseEnds
  BY <1>15 DEF PauseEnds, LoopHead, StartAttempt, TypeInv, Flag, Phases, SessionInv,
     NoLinkBetweenAttempts, AnnouncedMeansSession, NobodyWaitsAtAnOpenLink, OpenLinkIsHeld,
     DialIsOpening, StoppedForGood
<1>16. ASSUME NEW w \in Writers, WriteBegins(w) PROVE SessionInv'
  BY <1>16 DEF WriteBegins, Wake, TypeInv, Flag, Phases, SessionInv, NoLinkBetweenAttempts,
     AnnouncedMeansSession, NobodyWaitsAtAnOpenLink, OpenLinkIsHeld,
     DialIsOpening, StoppedForGood
<1>17. ASSUME NEW w \in Writers, WriterResumes(w) PROVE SessionInv'
  BY <1>17 DEF WriterResumes, TypeInv, Flag, Phases, SessionInv, NoLinkBetweenAttempts,
     AnnouncedMeansSession, NobodyWaitsAtAnOpenLink, OpenLinkIsHeld,
     DialIsOpening, StoppedForGood
<1>18. ASSUME NEW w \in Writers, WriteEnds(w) PROVE SessionInv'
  BY <1>18 DEF WriteEnds, TypeInv, Flag, Phases, SessionInv, NoLinkBetweenAttempts,
     AnnouncedMeansSession, NobodyWaitsAtAnOpenLink, OpenLinkIsHeld,
     DialIsOpening, StoppedForGood
<1>19. ASSUME NEW r \in Requests, NEW m \in {"once", "window"}, RefreshBegins(r, m) PROVE
       SessionInv'
  BY <1>19 DEF RefreshBegins, Wake, TypeInv, Flag, Phases, SessionInv, NoLinkBetweenAttempts,
     AnnouncedMeansSession, NobodyWaitsAtAnOpenLink, OpenLinkIsHeld,
     DialIsOpening, StoppedForGood
<1>20. ASSUME NEW r \in Requests, RefreshSucceeds(r) PROVE SessionInv'
  BY <1>20 DEF RefreshSucceeds, Finish, TypeInv, Flag, Phases, SessionInv, NoLinkBetweenAttempts,
     AnnouncedMeansSession, NobodyWaitsAtAnOpenLink, OpenLinkIsHeld,
     DialIsOpening, StoppedForGood
<1>21. ASSUME NEW r \in Requests, RefreshFails(r) PROVE SessionInv'
  BY <1>21 DEF RefreshFails, Finish, TypeInv, Flag, Phases, SessionInv, NoLinkBetweenAttempts,
     AnnouncedMeansSession, NobodyWaitsAtAnOpenLink, OpenLinkIsHeld,
     DialIsOpening, StoppedForGood
<1>22. CASE EndManual
  BY <1>22 DEF EndManual, ManualSessionActive, TypeInv, Flag, Phases, SessionInv,
     NoLinkBetweenAttempts, AnnouncedMeansSession, NobodyWaitsAtAnOpenLink, OpenLinkIsHeld,
     DialIsOpening, StoppedForGood
<1>23. CASE ChangeOptions
  BY <1>23 DEF ChangeOptions, Wake, TypeInv, Flag, Phases, SessionInv, NoLinkBetweenAttempts,
     AnnouncedMeansSession, NobodyWaitsAtAnOpenLink, OpenLinkIsHeld,
     DialIsOpening, StoppedForGood
<1>24. CASE StopBegins
  BY <1>24 DEF StopBegins, TypeInv, Flag, Phases, SessionInv, NoLinkBetweenAttempts,
     AnnouncedMeansSession, NobodyWaitsAtAnOpenLink, OpenLinkIsHeld,
     DialIsOpening, StoppedForGood
<1>25. CASE Setup
  BY <1>25 DEF Setup, NewCoordinator, TypeInv, Flag, Phases, SessionInv, NoLinkBetweenAttempts,
     AnnouncedMeansSession, NobodyWaitsAtAnOpenLink, OpenLinkIsHeld,
     DialIsOpening, StoppedForGood
<1>26. CASE SessionCancelled
  BY <1>26 DEF SessionCancelled, HangUp, DropClient, Failure, TypeInv, Flag, Phases, SessionInv,
     NoLinkBetweenAttempts, AnnouncedMeansSession, NobodyWaitsAtAnOpenLink, OpenLinkIsHeld,
     DialIsOpening, StoppedForGood
<1>27. CASE StopEnds
  BY <1>27 DEF StopEnds, DropTheRest, TypeInv, Flag, Phases, SessionInv, NoLinkBetweenAttempts,
     AnnouncedMeansSession, NobodyWaitsAtAnOpenLink, OpenLinkIsHeld,
     DialIsOpening, StoppedForGood
<1>28. CASE SettlingEnds
  BY <1>28 DEF SettlingEnds, TypeInv, Flag, Phases, SessionInv, NoLinkBetweenAttempts,
     AnnouncedMeansSession, NobodyWaitsAtAnOpenLink, OpenLinkIsHeld,
     DialIsOpening, StoppedForGood
<1>29. CASE HoldExpires
  BY <1>29 DEF HoldExpires, TypeInv, Flag, Phases, SessionInv, NoLinkBetweenAttempts,
     AnnouncedMeansSession, NobodyWaitsAtAnOpenLink, OpenLinkIsHeld,
     DialIsOpening, StoppedForGood
<1>30. CASE WindowExpires
  BY <1>30 DEF WindowExpires, TypeInv, Flag, Phases, SessionInv, NoLinkBetweenAttempts,
     AnnouncedMeansSession, NobodyWaitsAtAnOpenLink, OpenLinkIsHeld,
     DialIsOpening, StoppedForGood
<1>31. CASE LinkDies
  BY <1>31 DEF LinkDies, TypeInv, Flag, Phases, SessionInv, NoLinkBetweenAttempts,
     AnnouncedMeansSession, NobodyWaitsAtAnOpenLink, OpenLinkIsHeld,
     DialIsOpening, StoppedForGood
<1>32. CASE UNCHANGED vars
  BY <1>32 DEF vars, TypeInv, Flag, Phases, SessionInv, NoLinkBetweenAttempts,
     AnnouncedMeansSession, NobodyWaitsAtAnOpenLink, OpenLinkIsHeld,
     DialIsOpening, StoppedForGood
<1>33. QED
  BY <1>1, <1>2, <1>3, <1>4, <1>5, <1>6, <1>7, <1>8, <1>9, <1>10, <1>11, <1>12, <1>13, <1>14,
     <1>15, <1>16, <1>17, <1>18, <1>19, <1>20, <1>21, <1>22, <1>23, <1>24, <1>25, <1>26, <1>27,
     <1>28, <1>29, <1>30, <1>31, <1>32 DEF Next, SessionTask, Calls, CallSteps, StopTask, Timers

\* The invariant of link and announcement.
THEOREM SessionsHold == Spec => []SessionInv
  BY TypesHold, SessionInit, SessionStep, PTL DEF Spec

\* _connected_event is only set while the dwell loop holds a client: whoever it
\* releases finds a session that was open a moment ago.
THEOREM AnnouncementsAreTrue == Spec => []AnnouncedMeansSession
<1>1. SessionInv => AnnouncedMeansSession
  BY DEF SessionInv
<1>2. QED
  BY <1>1, SessionsHold, PTL

\* No command and no refresh sits in a wait while the session it waits for is
\* open (_client_for_write, _request_manual_session).
THEOREM OpenLinkServesEverybody == Spec => []NobodyWaitsAtAnOpenLink
<1>1. SessionInv => NobodyWaitsAtAnOpenLink
  BY DEF SessionInv
<1>2. QED
  BY <1>1, SessionsHold, PTL

\* When async_stop is done, whatever was up or handed over has been disconnected;
\* only a dial it had to cancel can have left something behind.
THEOREM StopClosesWhatWasUp == Spec => StopClosesItsLinks
<1> DEFINE Closed == stopper' = "done" =>
                       /\ phase' = "gone" /\ open' # "up"
                       /\ open' = "opening" /\ stopper # "done" => stopper = "cancelled"
<1>1. TypeInv /\ SessionInv /\ SessionInv' /\ [Next]_vars => [Closed]_vars
  <2> SUFFICES ASSUME TypeInv, SessionInv, SessionInv', Next, stopper' = "done"
               PROVE  Closed
    OBVIOUS
  <2>1. phase' = "gone" /\ open' # "up"
    BY DEF SessionInv, StoppedForGood
  <2>2. CASE StopEnds
    BY <2>1, <2>2 DEF StopEnds, DropTheRest, TypeInv, SessionInv, DialIsOpening, Phases
  <2>3. stopper = "done" \/ StopEnds
    BY DEF Next, SessionTask, AdoptHandoff, KeepDistance, HandOverEnds, GattUp, Subscribed,
       AttemptFails, StartupSucceeds, AddressKindSaved, ReleaseEnds, SessionEnds, MeasureStarts,
       MeasureEnds, TeardownEnds, PauseStarts, PauseEnds, Calls, WriteBegins, RefreshBegins,
       EndManual, ChangeOptions, StopBegins, Setup, NewCoordinator, CallSteps, WriterResumes,
       WriteEnds, RefreshSucceeds, RefreshFails, Finish, StopTask, SessionCancelled, Timers,
       SettlingEnds, HoldExpires, WindowExpires, LinkDies
  <2>4. QED
    BY <2>1, <2>2, <2>3
<1>2. QED
  BY <1>1, TypesHold, SessionsHold, PTL DEF Spec, StopClosesItsLinks

-----------------------------------------------------------------------------
(* The pause between two sessions *)

\* What a set() of the wake event achieves.
LEMMA WakeIsHeard == Wake => (phase \in {"arming", "pause"} => woken') /\ (woken => woken')
  BY Zenon DEF Wake

\* async_end_manual_session clears the event only if no command wants it.
LEMMA EndManualSparesWakes == EndManual => (woken /\ (phase = "arming" => WritesPending) => woken')
  BY Zenon DEF EndManual

\* Every step keeps the pause open for calls.  No call finds a link in a pause,
\* so every call that waits has set the event.
LEMMA PauseStep == TypeInv /\ SessionInv /\ PauseHearsCalls /\ [Next]_vars => PauseHearsCalls'
<1> SUFFICES ASSUME TypeInv, SessionInv, PauseHearsCalls, [Next]_vars PROVE PauseHearsCalls'
  OBVIOUS
<1>1. CASE AdoptHandoff
  BY <1>1 DEF AdoptHandoff, StartAttempt, TypeInv, Flag, SessionInv, NoLinkBetweenAttempts,
     AnnouncedMeansSession, PauseHearsCalls, WritesPending
<1>2. CASE KeepDistance
  BY <1>2 DEF KeepDistance, LoopHead, StartAttempt, TypeInv, Flag, SessionInv,
     NoLinkBetweenAttempts, AnnouncedMeansSession, PauseHearsCalls, WritesPending
<1>3. CASE HandOverEnds
  BY <1>3 DEF HandOverEnds, StartAttempt, TypeInv, Flag, SessionInv, NoLinkBetweenAttempts,
     AnnouncedMeansSession, PauseHearsCalls, WritesPending
<1>4. CASE GattUp
  BY <1>4 DEF GattUp, TypeInv, Flag, SessionInv, NoLinkBetweenAttempts, AnnouncedMeansSession,
     PauseHearsCalls, WritesPending
<1>5. CASE Subscribed
  BY <1>5 DEF Subscribed, TypeInv, Flag, SessionInv, NoLinkBetweenAttempts, AnnouncedMeansSession,
     PauseHearsCalls, WritesPending
<1>6. CASE AttemptFails
  BY <1>6 DEF AttemptFails, HangUp, DropClient, Failure, TypeInv, Flag, SessionInv, NoLinkBetweenAttempts,
     AnnouncedMeansSession, PauseHearsCalls, WritesPending
<1>7. CASE StartupSucceeds
  BY <1>7 DEF StartupSucceeds, OpenSession, ReleaseWaiters, HangUp, DropClient, TypeInv, Flag, SessionInv,
     NoLinkBetweenAttempts, AnnouncedMeansSession, PauseHearsCalls, WritesPending
<1>8. CASE AddressKindSaved
  BY <1>8 DEF AddressKindSaved, OpenSession, ReleaseWaiters, HangUp, DropClient, TypeInv, Flag, SessionInv,
     NoLinkBetweenAttempts, AnnouncedMeansSession, PauseHearsCalls, WritesPending
<1>9. CASE ReleaseEnds
  BY <1>9 DEF ReleaseEnds, HangUp, DropClient, TypeInv, Flag, SessionInv, NoLinkBetweenAttempts,
     AnnouncedMeansSession, PauseHearsCalls, WritesPending
<1>10. CASE SessionEnds
  BY <1>10 DEF SessionEnds, HangUp, DropClient, TypeInv, Flag, SessionInv, NoLinkBetweenAttempts,
     AnnouncedMeansSession, PauseHearsCalls, WritesPending
<1>11. CASE MeasureStarts
  BY <1>11 DEF MeasureStarts, TypeInv, Flag, SessionInv, NoLinkBetweenAttempts,
     AnnouncedMeansSession, PauseHearsCalls, WritesPending
<1>12. CASE MeasureEnds
  BY <1>12 DEF MeasureEnds, HangUp, DropClient, TypeInv, Flag, SessionInv, NoLinkBetweenAttempts,
     AnnouncedMeansSession, PauseHearsCalls, WritesPending
<1>13. CASE TeardownEnds
  BY <1>13 DEF TeardownEnds, LoopHead, StartAttempt, TypeInv, Flag, SessionInv,
     NoLinkBetweenAttempts, AnnouncedMeansSession, PauseHearsCalls, WritesPending
<1>14. CASE PauseStarts
  BY <1>14 DEF PauseStarts, TypeInv, Flag, SessionInv, NoLinkBetweenAttempts,
     AnnouncedMeansSession, PauseHearsCalls, WritesPending
<1>15. CASE PauseEnds
  BY <1>15 DEF PauseEnds, LoopHead, StartAttempt, TypeInv, Flag, SessionInv,
     NoLinkBetweenAttempts, AnnouncedMeansSession, PauseHearsCalls, WritesPending
<1>16. ASSUME NEW w \in Writers, WriteBegins(w) PROVE PauseHearsCalls'
  BY <1>16, WakeIsHeard
     DEF WriteBegins, TypeInv, Flag, SessionInv, NoLinkBetweenAttempts, PauseHearsCalls, WritesPending
<1>17. ASSUME NEW w \in Writers, WriterResumes(w) PROVE PauseHearsCalls'
  BY <1>17 DEF WriterResumes, TypeInv, Flag, SessionInv, NoLinkBetweenAttempts,
     AnnouncedMeansSession, PauseHearsCalls, WritesPending
<1>18. ASSUME NEW w \in Writers, WriteEnds(w) PROVE PauseHearsCalls'
  BY <1>18 DEF WriteEnds, TypeInv, Flag, SessionInv, NoLinkBetweenAttempts, AnnouncedMeansSession,
     PauseHearsCalls, WritesPending
<1>19. ASSUME NEW r \in Requests, NEW m \in {"once", "window"}, RefreshBegins(r, m) PROVE
       PauseHearsCalls'
  BY <1>19, WakeIsHeard
     DEF RefreshBegins, TypeInv, Flag, SessionInv, NoLinkBetweenAttempts, PauseHearsCalls, WritesPending
<1>20. ASSUME NEW r \in Requests, RefreshSucceeds(r) PROVE PauseHearsCalls'
  BY <1>20 DEF RefreshSucceeds, Finish, TypeInv, Flag, SessionInv, NoLinkBetweenAttempts,
     AnnouncedMeansSession, PauseHearsCalls, WritesPending
<1>21. ASSUME NEW r \in Requests, RefreshFails(r) PROVE PauseHearsCalls'
  BY <1>21 DEF RefreshFails, Finish, TypeInv, Flag, SessionInv, NoLinkBetweenAttempts,
     AnnouncedMeansSession, PauseHearsCalls, WritesPending
<1>22. CASE EndManual
  BY <1>22, EndManualSparesWakes
     DEF EndManual, TypeInv, Flag, PauseHearsCalls, WritesPending
<1>23. CASE ChangeOptions
  BY <1>23, WakeIsHeard DEF ChangeOptions, TypeInv, Flag, PauseHearsCalls, WritesPending
<1>24. CASE StopBegins
  BY <1>24 DEF StopBegins, TypeInv, Flag, SessionInv, NoLinkBetweenAttempts,
     AnnouncedMeansSession, PauseHearsCalls, WritesPending
<1>25. CASE Setup
  BY <1>25 DEF Setup, NewCoordinator, TypeInv, Flag, SessionInv, NoLinkBetweenAttempts,
     AnnouncedMeansSession, PauseHearsCalls, WritesPending
<1>26. CASE SessionCancelled
  BY <1>26 DEF SessionCancelled, HangUp, DropClient, Failure, TypeInv, Flag, SessionInv,
     NoLinkBetweenAttempts, AnnouncedMeansSession, PauseHearsCalls, WritesPending
<1>27. CASE StopEnds
  BY <1>27 DEF StopEnds, DropTheRest, TypeInv, Flag, SessionInv, NoLinkBetweenAttempts, AnnouncedMeansSession,
     PauseHearsCalls, WritesPending
<1>28. CASE SettlingEnds
  BY <1>28 DEF SettlingEnds, TypeInv, Flag, SessionInv, NoLinkBetweenAttempts,
     AnnouncedMeansSession, PauseHearsCalls, WritesPending
<1>29. CASE HoldExpires
  BY <1>29 DEF HoldExpires, TypeInv, Flag, SessionInv, NoLinkBetweenAttempts,
     AnnouncedMeansSession, PauseHearsCalls, WritesPending
<1>30. CASE WindowExpires
  BY <1>30 DEF WindowExpires, TypeInv, Flag, SessionInv, NoLinkBetweenAttempts,
     AnnouncedMeansSession, PauseHearsCalls, WritesPending
<1>31. CASE LinkDies
  BY <1>31 DEF LinkDies, TypeInv, Flag, SessionInv, NoLinkBetweenAttempts, AnnouncedMeansSession,
     PauseHearsCalls, WritesPending
<1>32. CASE UNCHANGED vars
  BY <1>32 DEF vars, TypeInv, Flag, SessionInv, NoLinkBetweenAttempts, AnnouncedMeansSession,
     PauseHearsCalls, WritesPending
<1>33. QED
  BY <1>1, <1>2, <1>3, <1>4, <1>5, <1>6, <1>7, <1>8, <1>9, <1>10, <1>11, <1>12, <1>13, <1>14,
     <1>15, <1>16, <1>17, <1>18, <1>19, <1>20, <1>21, <1>22, <1>23, <1>24, <1>25, <1>26, <1>27,
     <1>28, <1>29, <1>30, <1>31, <1>32 DEF Next, SessionTask, Calls, CallSteps, StopTask, Timers

\* A command or a live request that falls into the gap between two sessions
\* always ends the pause, whatever cleared or set the event before.
THEOREM CallsEndThePause == Spec => []PauseHearsCalls
<1>1. Init => PauseHearsCalls
  BY DEF Init, PauseHearsCalls
<1>2. QED
  BY <1>1, TypesHold, SessionsHold, PauseStep, PTL DEF Spec

-----------------------------------------------------------------------------
(* The minutes of a live request *)

\* Every step leaves minutes and wake pulse with the newest running request.
LEMMA WishStep == TypeInv /\ LiveWishHasARequest /\ [Next]_vars => LiveWishHasARequest'
<1> SUFFICES ASSUME TypeInv, LiveWishHasARequest, [Next]_vars PROVE LiveWishHasARequest'
  OBVIOUS
<1>1. CASE AdoptHandoff
  BY <1>1, NobodyAssumption DEF AdoptHandoff, StartAttempt, TypeInv, Flag, LiveWishHasARequest
<1>2. CASE KeepDistance
  BY <1>2, NobodyAssumption DEF KeepDistance, LoopHead, StartAttempt, TypeInv, Flag,
     LiveWishHasARequest
<1>3. CASE HandOverEnds
  BY <1>3, NobodyAssumption DEF HandOverEnds, StartAttempt, TypeInv, Flag, LiveWishHasARequest
<1>4. CASE GattUp
  BY <1>4, NobodyAssumption DEF GattUp, TypeInv, Flag, LiveWishHasARequest
<1>5. CASE Subscribed
  BY <1>5, NobodyAssumption DEF Subscribed, TypeInv, Flag, LiveWishHasARequest
<1>6. CASE AttemptFails
  BY <1>6, NobodyAssumption DEF AttemptFails, HangUp, DropClient, Failure, TypeInv, Flag, LiveWishHasARequest
<1>7. CASE StartupSucceeds
  BY <1>7, NobodyAssumption DEF StartupSucceeds, OpenSession, ReleaseWaiters, HangUp, DropClient, TypeInv,
     Flag, LiveWishHasARequest
<1>8. CASE AddressKindSaved
  BY <1>8, NobodyAssumption DEF AddressKindSaved, OpenSession, ReleaseWaiters, HangUp, DropClient, TypeInv,
     Flag, LiveWishHasARequest
<1>9. CASE ReleaseEnds
  BY <1>9, NobodyAssumption DEF ReleaseEnds, HangUp, DropClient, TypeInv, Flag, LiveWishHasARequest
<1>10. CASE SessionEnds
  BY <1>10, NobodyAssumption DEF SessionEnds, HangUp, DropClient, TypeInv, Flag, LiveWishHasARequest
<1>11. CASE MeasureStarts
  BY <1>11, NobodyAssumption DEF MeasureStarts, TypeInv, Flag, LiveWishHasARequest
<1>12. CASE MeasureEnds
  BY <1>12, NobodyAssumption DEF MeasureEnds, HangUp, DropClient, TypeInv, Flag, LiveWishHasARequest
<1>13. CASE TeardownEnds
  BY <1>13, NobodyAssumption DEF TeardownEnds, LoopHead, StartAttempt, TypeInv, Flag,
     LiveWishHasARequest
<1>14. CASE PauseStarts
  BY <1>14, NobodyAssumption DEF PauseStarts, TypeInv, Flag, LiveWishHasARequest
<1>15. CASE PauseEnds
  BY <1>15, NobodyAssumption DEF PauseEnds, LoopHead, StartAttempt, TypeInv, Flag,
     LiveWishHasARequest
<1>16. ASSUME NEW w \in Writers, WriteBegins(w) PROVE LiveWishHasARequest'
  BY <1>16, NobodyAssumption DEF WriteBegins, Wake, TypeInv, Flag, LiveWishHasARequest
<1>17. ASSUME NEW w \in Writers, WriterResumes(w) PROVE LiveWishHasARequest'
  BY <1>17, NobodyAssumption DEF WriterResumes, TypeInv, Flag, LiveWishHasARequest
<1>18. ASSUME NEW w \in Writers, WriteEnds(w) PROVE LiveWishHasARequest'
  BY <1>18, NobodyAssumption DEF WriteEnds, TypeInv, Flag, LiveWishHasARequest
<1>19. ASSUME NEW r \in Requests, NEW m \in {"once", "window"}, RefreshBegins(r, m) PROVE
       LiveWishHasARequest'
  BY <1>19, NobodyAssumption DEF RefreshBegins, Wake, TypeInv, Flag, LiveWishHasARequest
<1>20. ASSUME NEW r \in Requests, RefreshSucceeds(r) PROVE LiveWishHasARequest'
  BY <1>20, NobodyAssumption DEF RefreshSucceeds, Finish, TypeInv, Flag, LiveWishHasARequest
<1>21. ASSUME NEW r \in Requests, RefreshFails(r) PROVE LiveWishHasARequest'
  BY <1>21, NobodyAssumption DEF RefreshFails, Finish, TypeInv, Flag, LiveWishHasARequest
<1>22. CASE EndManual
  BY <1>22, NobodyAssumption DEF EndManual, ManualSessionActive, TypeInv, Flag,
     LiveWishHasARequest
<1>23. CASE ChangeOptions
  BY <1>23, NobodyAssumption DEF ChangeOptions, Wake, TypeInv, Flag, LiveWishHasARequest
<1>24. CASE StopBegins
  BY <1>24, NobodyAssumption DEF StopBegins, TypeInv, Flag, LiveWishHasARequest
<1>25. CASE Setup
  BY <1>25, NobodyAssumption DEF Setup, NewCoordinator, TypeInv, Flag, LiveWishHasARequest
<1>26. CASE SessionCancelled
  BY <1>26, NobodyAssumption DEF SessionCancelled, HangUp, DropClient, Failure, TypeInv, Flag,
     LiveWishHasARequest
<1>27. CASE StopEnds
  BY <1>27, NobodyAssumption DEF StopEnds, DropTheRest, TypeInv, Flag, LiveWishHasARequest
<1>28. CASE SettlingEnds
  BY <1>28, NobodyAssumption DEF SettlingEnds, TypeInv, Flag, LiveWishHasARequest
<1>29. CASE HoldExpires
  BY <1>29, NobodyAssumption DEF HoldExpires, TypeInv, Flag, LiveWishHasARequest
<1>30. CASE WindowExpires
  BY <1>30, NobodyAssumption DEF WindowExpires, TypeInv, Flag, LiveWishHasARequest
<1>31. CASE LinkDies
  BY <1>31, NobodyAssumption DEF LinkDies, TypeInv, Flag, LiveWishHasARequest
<1>32. CASE UNCHANGED vars
  BY <1>32, NobodyAssumption DEF vars, TypeInv, Flag, LiveWishHasARequest
<1>33. QED
  BY <1>1, <1>2, <1>3, <1>4, <1>5, <1>6, <1>7, <1>8, <1>9, <1>10, <1>11, <1>12, <1>13, <1>14,
     <1>15, <1>16, <1>17, <1>18, <1>19, <1>20, <1>21, <1>22, <1>23, <1>24, <1>25, <1>26, <1>27,
     <1>28, <1>29, <1>30, <1>31, <1>32 DEF Next, SessionTask, Calls, CallSteps, StopTask, Timers

\* No session is turned into a live window by a request that is over.
THEOREM WishesAreOwned == Spec => []LiveWishHasARequest
<1>1. Init => LiveWishHasARequest
  BY DEF Init, LiveWishHasARequest
<1>2. QED
  BY <1>1, TypesHold, WishStep, PTL DEF Spec

-----------------------------------------------------------------------------
(* Distance after a reload *)

\* Inductive: a link closed lately has been noted, or its attempt still runs --
\* and then async_stop notes it before the next coordinator is set up.
DistanceInv ==
  /\ lately => settling \/ attempt
  /\ phase \in {"dial", "startup", "remember", "hold", "measure", "teardown"} => attempt
  /\ phase \in {"boot", "handover", "arming", "pause"} => ~attempt
  /\ fresh => phase \in {"boot", "handover", "gone"} /\ ~attempt
  /\ stopper = "done" => phase = "gone" /\ (lately => settling)

\* Every step notes what it closes.
LEMMA DistanceStep == TypeInv /\ DistanceInv /\ [Next]_vars => DistanceInv'
<1> SUFFICES ASSUME TypeInv, DistanceInv, [Next]_vars PROVE DistanceInv'
  OBVIOUS
<1>1. CASE AdoptHandoff
  BY <1>1 DEF AdoptHandoff, StartAttempt, TypeInv, Flag, DistanceInv
<1>2. CASE KeepDistance
  BY <1>2 DEF KeepDistance, LoopHead, StartAttempt, TypeInv, Flag, DistanceInv
<1>3. CASE HandOverEnds
  BY <1>3 DEF HandOverEnds, StartAttempt, TypeInv, Flag, DistanceInv
<1>4. CASE GattUp
  BY <1>4 DEF GattUp, TypeInv, Flag, DistanceInv
<1>5. CASE Subscribed
  BY <1>5 DEF Subscribed, TypeInv, Flag, DistanceInv
<1>6. CASE AttemptFails
  BY <1>6 DEF AttemptFails, HangUp, DropClient, Failure, TypeInv, Flag, DistanceInv
<1>7. CASE StartupSucceeds
  <2>1. CASE OpenSession /\ HangUp("session")
    BY <1>7, <2>1 DEF StartupSucceeds, HangUp, DropClient, TypeInv, Flag, DistanceInv
  <2>2. CASE UNCHANGED <<fresh, attempt, lately>> /\ phase' \in {"hold", "remember"}
    BY <1>7, <2>2 DEF StartupSucceeds, TypeInv, Flag, DistanceInv
  <2>3. QED
    BY <1>7, <2>1, <2>2 DEF StartupSucceeds, OpenSession
<1>8. CASE AddressKindSaved
  <2>1. CASE HangUp("session")
    BY <1>8, <2>1 DEF AddressKindSaved, HangUp, DropClient, TypeInv, Flag, DistanceInv
  <2>2. CASE UNCHANGED <<fresh, attempt, lately>> /\ phase' = "hold"
    BY <1>8, <2>2 DEF AddressKindSaved, TypeInv, Flag, DistanceInv
  <2>3. QED
    BY <1>8, <2>1, <2>2 DEF AddressKindSaved, OpenSession
<1>9. CASE ReleaseEnds
  BY <1>9 DEF ReleaseEnds, HangUp, DropClient, TypeInv, Flag, DistanceInv
<1>10. CASE SessionEnds
  BY <1>10 DEF SessionEnds, HangUp, DropClient, TypeInv, Flag, DistanceInv
<1>11. CASE MeasureStarts
  BY <1>11 DEF MeasureStarts, TypeInv, Flag, DistanceInv
<1>12. CASE MeasureEnds
  <2>1. CASE HangUp("session")
    BY <1>12, <2>1 DEF MeasureEnds, HangUp, DropClient, TypeInv, Flag, DistanceInv
  <2>2. CASE UNCHANGED <<fresh, attempt, lately>> /\ phase' = "hold"
    BY <1>12, <2>2 DEF MeasureEnds, TypeInv, Flag, DistanceInv
  <2>3. QED
    BY <1>12, <2>1, <2>2 DEF MeasureEnds
<1>13. CASE TeardownEnds
  BY <1>13 DEF TeardownEnds, LoopHead, StartAttempt, TypeInv, Flag, DistanceInv
<1>14. CASE PauseStarts
  BY <1>14 DEF PauseStarts, TypeInv, Flag, DistanceInv
<1>15. CASE PauseEnds
  BY <1>15 DEF PauseEnds, LoopHead, StartAttempt, TypeInv, Flag, DistanceInv
<1>16. ASSUME NEW w \in Writers, WriteBegins(w) PROVE DistanceInv'
  BY <1>16 DEF WriteBegins, Wake, TypeInv, Flag, DistanceInv
<1>17. ASSUME NEW w \in Writers, WriterResumes(w) PROVE DistanceInv'
  BY <1>17 DEF WriterResumes, TypeInv, Flag, DistanceInv
<1>18. ASSUME NEW w \in Writers, WriteEnds(w) PROVE DistanceInv'
  BY <1>18 DEF WriteEnds, TypeInv, Flag, DistanceInv
<1>19. ASSUME NEW r \in Requests, NEW m \in {"once", "window"}, RefreshBegins(r, m) PROVE
       DistanceInv'
  BY <1>19 DEF RefreshBegins, Wake, TypeInv, Flag, DistanceInv
<1>20. ASSUME NEW r \in Requests, RefreshSucceeds(r) PROVE DistanceInv'
  BY <1>20 DEF RefreshSucceeds, Finish, TypeInv, Flag, DistanceInv
<1>21. ASSUME NEW r \in Requests, RefreshFails(r) PROVE DistanceInv'
  BY <1>21 DEF RefreshFails, Finish, TypeInv, Flag, DistanceInv
<1>22. CASE EndManual
  BY <1>22 DEF EndManual, ManualSessionActive, TypeInv, Flag, DistanceInv
<1>23. CASE ChangeOptions
  BY <1>23 DEF ChangeOptions, Wake, TypeInv, Flag, DistanceInv
<1>24. CASE StopBegins
  BY <1>24 DEF StopBegins, TypeInv, Flag, DistanceInv
<1>25. CASE Setup
  BY <1>25 DEF Setup, NewCoordinator, TypeInv, Flag, DistanceInv
<1>26. CASE SessionCancelled
  BY <1>26 DEF SessionCancelled, HangUp, DropClient, Failure, TypeInv, Flag, DistanceInv
<1>27. CASE StopEnds
  <2>1. lately' => settling'
    BY <1>27, Zenon DEF StopEnds, DropTheRest, DistanceInv
  <2>2. QED
    BY <1>27, <2>1 DEF StopEnds, DropTheRest, TypeInv, Flag, DistanceInv
<1>28. CASE SettlingEnds
  BY <1>28 DEF SettlingEnds, TypeInv, Flag, DistanceInv
<1>29. CASE HoldExpires
  BY <1>29 DEF HoldExpires, TypeInv, Flag, DistanceInv
<1>30. CASE WindowExpires
  BY <1>30 DEF WindowExpires, TypeInv, Flag, DistanceInv
<1>31. CASE LinkDies
  BY <1>31 DEF LinkDies, TypeInv, Flag, DistanceInv
<1>32. CASE UNCHANGED vars
  BY <1>32 DEF vars, TypeInv, Flag, DistanceInv
<1>33. QED
  BY <1>1, <1>2, <1>3, <1>4, <1>5, <1>6, <1>7, <1>8, <1>9, <1>10, <1>11, <1>12, <1>13, <1>14,
     <1>15, <1>16, <1>17, <1>18, <1>19, <1>20, <1>21, <1>22, <1>23, <1>24, <1>25, <1>26, <1>27,
     <1>28, <1>29, <1>30, <1>31, <1>32 DEF Next, SessionTask, Calls, CallSteps, StopTask, Timers

\* The invariant behind the distance.
THEOREM DistanceHolds == Spec => []DistanceInv
<1>1. Init => DistanceInv
  BY DEF Init, DistanceInv
<1>2. QED
  BY <1>1, TypesHold, DistanceStep, PTL DEF Spec

\* REV-007: the first dial of a coordinator keeps its distance, however the
\* reload came about and however its predecessor was stopped.
THEOREM FirstDialKeepsDistance == Spec => DistanceAfterReload
<1> DEFINE Kept == fresh /\ ~fresh' /\ initial # "up" => ~lately
<1>1. TypeInv /\ DistanceInv /\ [Next]_vars => [Kept]_vars
  <2> SUFFICES ASSUME TypeInv, DistanceInv, Next PROVE Kept
    OBVIOUS
  <2>1. CASE KeepDistance
    BY <2>1 DEF KeepDistance, LoopHead, StartAttempt, TypeInv, Flag, DistanceInv
  <2>2. CASE HandOverEnds
    BY <2>2 DEF HandOverEnds, StartAttempt, TypeInv, Flag, DistanceInv
  <2>3. CASE AdoptHandoff
    BY <2>3 DEF AdoptHandoff
  <2>4. CASE fresh' = fresh \/ fresh' = TRUE \/ phase \notin {"boot", "handover", "gone"}
    BY <2>4 DEF TypeInv, Flag, DistanceInv
  <2>5. CASE GattUp \/ Subscribed \/ AttemptFails \/ StartupSucceeds \/ AddressKindSaved
             \/ ReleaseEnds \/ SessionEnds \/ MeasureStarts \/ MeasureEnds
             \/ TeardownEnds \/ PauseStarts \/ PauseEnds
    BY <2>4, <2>5 DEF GattUp, Subscribed, AttemptFails, StartupSucceeds, AddressKindSaved,
       ReleaseEnds, SessionEnds, MeasureStarts, MeasureEnds, TeardownEnds, PauseStarts, PauseEnds
  <2>6. CASE Calls \/ CallSteps \/ StopTask \/ Timers \/ LinkDies
    <3>1. CASE Setup
      BY <2>4, <3>1 DEF Setup, NewCoordinator
    <3>2. CASE UNCHANGED fresh
      BY <2>4, <3>2
    <3>3. QED
      BY <2>6, <3>1, <3>2 DEF Calls, CallSteps, StopTask, Timers, WriteBegins, RefreshBegins,
         EndManual, ChangeOptions, StopBegins, WriterResumes, WriteEnds, RefreshSucceeds,
         RefreshFails, Finish, SessionCancelled, HangUp, DropClient, StopEnds, DropTheRest, SettlingEnds, HoldExpires,
         WindowExpires, LinkDies
  <2>7. QED
    BY <2>1, <2>2, <2>3, <2>5, <2>6 DEF Next, SessionTask
<1>2. QED
  BY <1>1, TypesHold, DistanceHolds, PTL DEF Spec, DistanceAfterReload

-----------------------------------------------------------------------------
(* Hanging up *)

\* The dwell loop of a poll hangs up a working link only when no command and no
\* manual refresh owns the session; a command that begins during a measurement
\* is not covered (the property speaks of the phase "hold").
THEOREM DwellLoopSparesCalls == Spec => HangUpSparesCalls
<1> DEFINE Spared == phase = "hold" /\ polling /\ link = "live" /\ ~stop /\ phase' = "teardown" => ~Busy
<1>1. TypeInv /\ SessionInv /\ [Next]_vars => [Spared]_vars
  <2> SUFFICES ASSUME TypeInv, SessionInv, Next,
                      phase = "hold", polling, link = "live", ~stop, phase' = "teardown"
               PROVE  ~Busy
    OBVIOUS
  <2>1. CASE ReleaseEnds
    BY <2>1 DEF ReleaseEnds, ReleaseDue
  <2>2. CASE SessionEnds
    BY <2>2 DEF SessionEnds, ReloadDue, Dwelling, Watching, TypeInv, Flag
  <2>3. CASE SessionCancelled
    BY <2>3 DEF SessionCancelled, SessionInv
  <2>4. phase' = phase \/ phase' # "teardown" \/ ReleaseEnds \/ SessionEnds \/ SessionCancelled
    <3>1. CASE SessionTask
      BY <3>1 DEF SessionTask, AdoptHandoff, KeepDistance, HandOverEnds, GattUp, Subscribed,
         AttemptFails, StartupSucceeds, AddressKindSaved, MeasureStarts, MeasureEnds,
         TeardownEnds, PauseStarts, PauseEnds
    <3>2. CASE Calls \/ CallSteps \/ StopTask \/ Timers \/ LinkDies
      BY <3>2 DEF Calls, CallSteps, StopTask, Timers, WriteBegins, RefreshBegins, EndManual,
         ChangeOptions, StopBegins, Setup, NewCoordinator, WriterResumes, WriteEnds,
         RefreshSucceeds, RefreshFails, Finish, StopEnds, DropTheRest, SettlingEnds, HoldExpires,
         WindowExpires, LinkDies
    <3>3. QED
      BY <3>1, <3>2 DEF Next
  <2>5. QED
    BY <2>1, <2>2, <2>3, <2>4
<1>2. QED
  BY <1>1, TypesHold, SessionsHold, PTL DEF Spec, HangUpSparesCalls
=============================================================================
