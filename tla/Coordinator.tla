------------------------------ MODULE Coordinator ------------------------------
(***************************************************************************)
(* The session loop of TrumaCoordinator (coordinator.py) and everything    *)
(* that talks to it: control commands (async_write_many), manual refreshes *)
(* (async_request_manual_session), "end live mode", option changes and     *)
(* their reload, and the unload (async_stop) followed by a new setup.      *)
(*                                                                         *)
(* All of it runs on one asyncio loop, so an action is the code between    *)
(* two awaits.  Wall-clock time is abstracted: a window or a timer that    *)
(* runs is a Boolean, its expiry an action of its own.                     *)
(***************************************************************************)
EXTENDS Naturals

CONSTANTS Writers,      \* callers of async_write_many
          Requests,     \* callers of async_request_manual_session
          Nobody,       \* the newest manual operation is not running
          MaxCalls      \* bound: commands, refreshes and setups in one behaviour

ASSUME MaxCallsAssumption == MaxCalls \in Nat
ASSUME NobodyAssumption == Nobody \notin Requests

VARIABLES
  phase,        \* the await the session task _run is parked in
  outcome,      \* how the attempt being torn down ended (`connected` of _run);
                \* "vain": it failed while a command was waiting for it
  polling,      \* the branch of the dwell loop the session is in
  fresh,        \* (history) this coordinator has not begun an attempt yet
  lastKind,     \* _last_kind, while a startup may still prove it
  attempt,      \* _attempt_running
  link,         \* _client, and what its `connected` says
  announced,    \* _connected_event
  initial,      \* _initial_client, the link handed off by pairing
  open,         \* this coordinator's GATT connection until disconnect() is called
                \* on it: none, one being opened, or one that is up
  woken,        \* _wake_event from the clear() that begins a pause on; in the
                \* pause: its waiter has been released
  asked,        \* _manual_hold_request_minutes
  wakePending,  \* _manual_wake_pending
  release,      \* _manual_release_requested
  window,       \* now < _manual_hold_until
  hold,         \* now < _command_hold_until
  poll,         \* the poll_interval option is not 0
  reload,       \* _reload_pending
  stop,         \* _stop and _stop_event
  stopper,      \* how far async_stop is
  settling,     \* the last session end noted in hass.data is < 30 s old
  lately,       \* (history) a link of this entry was closed < 30 s ago
  writer,       \* each command: where its task is
  reader,       \* each manual refresh: where its task is
  want,         \* the minutes a refresh was called with
  cancelled,    \* its event in _manual_requests
  owner,        \* the running refresh whose token _manual_operation holds
  calls         \* calls made so far, bounded by MaxCalls

loopVars  == <<phase, outcome, polling, fresh, lastKind, attempt>>
linkVars  == <<link, announced, initial, open>>
liveVars  == <<asked, wakePending, release, window>>
optionVars == <<poll, reload, stop, stopper, settling>>
entryVars == <<optionVars, lately>>
readVars  == <<reader, want, cancelled, owner>>
vars == <<loopVars, linkVars, woken, liveVars, hold, entryVars, writer, readVars, calls>>

Phases == {"boot", "handover", "dial", "startup", "remember", "hold",
           "measure", "teardown", "arming", "pause", "gone"}

TypeOK ==
  /\ phase \in Phases
  /\ outcome \in {"none", "session", "failed", "vain"}
  /\ polling \in BOOLEAN /\ fresh \in BOOLEAN /\ lastKind \in BOOLEAN /\ attempt \in BOOLEAN
  /\ link \in {"none", "new", "live", "dead"}
  /\ announced \in BOOLEAN
  /\ initial \in {"none", "up", "down"}
  /\ open \in {"none", "opening", "up"}
  /\ woken \in BOOLEAN
  /\ asked \in {"none", "once", "window"}
  /\ wakePending \in BOOLEAN /\ release \in BOOLEAN /\ window \in BOOLEAN /\ hold \in BOOLEAN
  /\ poll \in BOOLEAN /\ reload \in BOOLEAN /\ stop \in BOOLEAN /\ settling \in BOOLEAN
  /\ lately \in BOOLEAN
  /\ stopper \in {"no", "waiting", "cancelled", "done"}
  /\ writer \in [Writers -> {"idle", "waiting", "served", "writing"}]
  /\ reader \in [Requests -> {"idle", "waiting", "served", "reading"}]
  /\ want \in [Requests -> {"once", "window"}]
  /\ cancelled \in [Requests -> BOOLEAN]
  /\ owner \in Requests \cup {Nobody}
  /\ calls \in 0 .. MaxCalls

WritesPending == \E w \in Writers : writer[w] # "idle"
ManualRequests == \E r \in Requests : reader[r] # "idle"
SessionWanted == WritesPending \/ ManualRequests \/ wakePending
ManualSessionActive == poll /\ window

\* A coordinator as __init__ leaves it; `link` is free, `settling` outlives it.
NewCoordinator ==
  /\ phase' = "boot" /\ outcome' = "none" /\ polling' = FALSE
  /\ fresh' = TRUE /\ lastKind' = FALSE /\ attempt' = FALSE
  /\ link' = "none" /\ announced' = FALSE /\ initial' \in {"none", "up", "down"}
  /\ open' = (IF initial' = "up" THEN "up" ELSE "none")
  /\ woken' = FALSE
  /\ asked' = "none" /\ wakePending' = FALSE /\ release' = FALSE /\ window' = FALSE
  /\ hold' = FALSE /\ reload' = FALSE /\ stop' = FALSE /\ stopper' = "no"
  /\ writer' = [w \in Writers |-> "idle"]
  /\ reader' = [r \in Requests |-> "idle"]
  /\ want' = [r \in Requests |-> "once"]
  /\ cancelled' = [r \in Requests |-> FALSE]
  /\ owner' = Nobody

Init ==
  /\ phase = "boot" /\ outcome = "none" /\ polling = FALSE
  /\ fresh = TRUE /\ lastKind = FALSE /\ attempt = FALSE
  /\ link = "none" /\ announced = FALSE /\ initial \in {"none", "up", "down"}
  /\ open = (IF initial = "up" THEN "up" ELSE "none")
  /\ woken = FALSE
  /\ asked = "none" /\ wakePending = FALSE /\ release = FALSE /\ window = FALSE
  /\ hold = FALSE /\ poll \in BOOLEAN /\ reload = FALSE /\ stop = FALSE /\ stopper = "no"
  /\ settling = FALSE /\ lately = FALSE
  /\ writer = [w \in Writers |-> "idle"]
  /\ reader = [r \in Requests |-> "idle"]
  /\ want = [r \in Requests |-> "once"]
  /\ cancelled = [r \in Requests |-> FALSE]
  /\ owner = Nobody /\ calls = 0

-----------------------------------------------------------------------------
(* Pieces of a step *)

\* _wake_event.set().  Outside a pause it is without effect: the clear() at the
\* beginning of the next one takes it back.
Wake == woken' = (woken \/ phase \in {"arming", "pause"})

\* Mutant: the event is cleared only after the close has been awaited.
DropClientKeepingTheEvent(result) ==
  /\ phase' = "teardown" /\ outcome' = result /\ polling' = FALSE /\ lastKind' = FALSE
  /\ link' = "none" /\ lately' = TRUE
  /\ UNCHANGED <<announced, fresh, attempt, initial>>

\* Leaving _connect_and_run: the finally of _run calls _disconnect_client,
\* which drops client and event before it awaits the close.
DropClient(result) ==
  /\ phase' = "teardown" /\ outcome' = result /\ polling' = FALSE /\ lastKind' = FALSE
  /\ link' = "none" /\ announced' = FALSE /\ lately' = TRUE
  /\ UNCHANGED <<fresh, attempt, initial>>

\* Mutant: a client whose link does not work any more is not disconnected.
HangUpIfConnected(result) ==
  /\ DropClient(result)
  /\ open' = IF link = "dead" THEN open ELSE "none"

\* ... and disconnects it, whatever its state.  A dial that failed has left none.
HangUp(result) == DropClient(result) /\ open' = "none"

Failure == IF WritesPending THEN "vain" ELSE "failed"

\* Mutant: the waiting refreshes are resumed as if they were commands.
ReleaseWaitersAsWriters ==
  /\ writer' = [w \in Writers |-> IF writer[w] = "waiting" THEN "served" ELSE writer[w]]
  /\ reader' = [r \in Requests |-> IF reader[r] = "waiting" THEN "writing" ELSE reader[r]]
  /\ UNCHANGED <<want, cancelled, owner>>

\* _connected_event.set() releases whoever waits on it.
ReleaseWaiters ==
  /\ writer' = [w \in Writers |-> IF writer[w] = "waiting" THEN "served" ELSE writer[w]]
  /\ reader' = [r \in Requests |-> IF reader[r] = "waiting" THEN "served" ELSE reader[r]]
  /\ UNCHANGED <<want, cancelled, owner>>

\* The end of _finish_startup's straight line: announce, choose the branch and
\* test the loop condition.  A dead link or a stop leaves without holding.
OpenSession ==
  /\ ReleaseWaiters
  /\ \/ /\ link = "live" /\ ~stop
        /\ phase' = "hold" /\ polling' = poll /\ announced' = TRUE /\ lastKind' = FALSE
        /\ UNCHANGED <<outcome, fresh, attempt, link, initial, open, lately>>
     \/ /\ link # "live" \/ stop
        /\ HangUp("session")

-----------------------------------------------------------------------------
(* The session task, _run *)

\* Shared start of an attempt: consume the wake pulse and the handed-off link.
StartAttempt(l) ==
  /\ phase' = "dial" /\ attempt' = TRUE
  /\ fresh' = FALSE /\ lastKind' = (l = "new") /\ outcome' = "none"
  /\ wakePending' = FALSE
  /\ link' = l /\ initial' = "none" /\ open' = (IF l = "new" THEN "opening" ELSE open)
  /\ UNCHANGED <<polling, announced, asked, release, window, hold, writer, readVars, calls>>

\* Mutant: the loop does not look at the stop flag.
LoopHeadIgnoringStop ==
  \/ (reload => SessionWanted) /\ StartAttempt("new")
  \/ /\ reload /\ ~SessionWanted /\ phase' = "handover"
     /\ attempt' = FALSE /\ outcome' = "none"
     /\ UNCHANGED <<polling, fresh, lastKind, linkVars, liveVars, hold, writer, readVars, calls>>

\* The head of the loop, reached without an await from the end of any wait:
\* leave on stop, hand over to a reload nobody outranks, or dial.
LoopHead ==
  \/ ~stop /\ (reload => SessionWanted) /\ StartAttempt("new")
  \/ /\ \/ stop /\ phase' = "gone"
        \/ ~stop /\ reload /\ ~SessionWanted /\ phase' = "handover"
     /\ attempt' = FALSE /\ outcome' = "none"
     /\ UNCHANGED <<polling, fresh, lastKind, linkVars, liveVars, hold, writer, readVars, calls>>

\* A handed-off link that is still up is adopted in the step that starts the
\* task: no distance is kept and nothing is dialled.
AdoptHandoff ==
  /\ phase = "boot" /\ initial = "up"
  /\ StartAttempt("live")
  /\ UNCHANGED <<woken, entryVars>>

\* _keep_distance_after_reload: wait out the settle; only a stop ends it early.
KeepDistance ==
  /\ phase = "boot" /\ initial # "up" /\ (settling => stop)
  /\ LoopHead
  /\ UNCHANGED <<woken, entryVars>>

\* _hand_over_to_reload, after its wait: a stop ended it, a call came in and is
\* served first, or the reload is ordered and the task is done.
HandOverEnds ==
  /\ phase = "handover" /\ (settling => stop)
  /\ \/ ~stop /\ SessionWanted /\ StartAttempt("new")
     \/ /\ stop \/ ~SessionWanted
        /\ phase' = "gone"
        /\ UNCHANGED <<outcome, polling, fresh, lastKind, attempt, linkVars, liveVars, hold, writer, readVars,
                       calls>>
  /\ UNCHANGED <<woken, entryVars>>

\* establish_connection returned: `connected` is true while connect() subscribes.
GattUp ==
  /\ phase = "dial" /\ link = "new"
  /\ link' = "live" /\ open' = "up"
  /\ UNCHANGED <<loopVars, announced, initial, woken, liveVars, hold, entryVars, writer,
                 readVars, calls>>

Subscribed ==
  /\ phase = "dial" /\ link = "live"
  /\ phase' = "startup"
  /\ UNCHANGED <<outcome, polling, fresh, lastKind, attempt, linkVars, woken, liveVars, hold,
                 entryVars, writer, readVars, calls>>

\* No route, a refused connect or subscription, a startup that timed out, a
\* panel that assigned no address, or a store that would not save.
AttemptFails ==
  /\ phase \in {"dial", "startup", "remember"}
  /\ HangUp(Failure)
  /\ UNCHANGED <<woken, liveVars, hold, optionVars, writer, readVars, calls>>

\* _run_startup returned.  The minutes asked for start to run now; saving a
\* newly proven address kind is an await before the session is announced.
StartupSucceeds ==
  /\ phase = "startup"
  /\ IF asked # "none"
       THEN /\ asked' = "none" /\ wakePending' = FALSE /\ release' = FALSE
            /\ window' = (poll /\ asked = "window")
       ELSE UNCHANGED liveVars
  /\ \/ OpenSession
     \/ /\ lastKind /\ phase' = "remember"
        /\ UNCHANGED <<outcome, polling, fresh, lastKind, attempt, linkVars, lately, writer, readVars>>
  /\ UNCHANGED <<woken, hold, optionVars, calls>>

AddressKindSaved ==
  /\ phase = "remember"
  /\ OpenSession
  /\ UNCHANGED <<woken, liveVars, hold, optionVars, calls>>

-----------------------------------------------------------------------------
(* The dwell loop.  One tick: sleep, run the checks in their order, test the *)
(* loop condition.  Connected mode has only the reload and stall checks.     *)

Busy == WritesPending \/ ManualRequests
\* Mutant: the release wish is looked at before the commands.
ReleaseDueFirst == polling /\ release

ReleaseDue == polling /\ ~Busy /\ release
\* Mutant: a held link in connected mode does not look for a pending reload.
ReloadDueInPollOnly == polling /\ ~Busy /\ ~ReleaseDue /\ reload

ReloadDue == ~Busy /\ ~ReleaseDue /\ reload
\* The tick gets as far as the measuring and the stall watchdog ...
Watching == ~ReleaseDue /\ ~ReloadDue /\ (polling => ~Busy /\ ~hold /\ ManualSessionActive)
\* Mutant: no dwell limit, and the panel never falls quiet.
DwellingForEver == FALSE

\* ... or to the quiet and dwell limits of an ordinary poll.
Dwelling == polling /\ ~Busy /\ ~release /\ ~reload /\ ~hold /\ ~ManualSessionActive

ReleaseEnds ==
  /\ phase = "hold" /\ ReleaseDue
  /\ release' = FALSE /\ window' = FALSE
  /\ HangUp("session")
  /\ UNCHANGED <<woken, asked, wakePending, hold, optionVars, writer, readVars, calls>>

\* The breaks that only leave the loop: a due reload, the quiet or dwell limit,
\* the stall watchdog, and the loop condition after a tick that went on.
SessionEnds ==
  /\ phase = "hold"
  /\ \/ ReloadDue
     \/ Dwelling
     \/ Watching
     \/ (stop \/ link # "live") /\ ~ReleaseDue /\ ~ReloadDue
  /\ HangUp("session")
  /\ UNCHANGED <<woken, liveVars, hold, optionVars, writer, readVars, calls>>

MeasureStarts ==
  /\ phase = "hold" /\ Watching
  /\ phase' = "measure"
  /\ UNCHANGED <<outcome, polling, fresh, lastKind, attempt, linkVars, woken, liveVars, hold,
                 entryVars, writer, readVars, calls>>

\* After _request_measurements only the stall watchdog and the loop condition
\* are evaluated; a command that began meanwhile is not looked for.
MeasureEnds ==
  /\ phase = "measure"
  /\ \/ HangUp("session")
     \/ /\ link = "live" /\ ~stop /\ phase' = "hold"
        /\ UNCHANGED <<outcome, polling, fresh, lastKind, attempt, linkVars, lately>>
  /\ UNCHANGED <<woken, liveVars, hold, optionVars, writer, readVars, calls>>

\* The close is done: note the end, then _wait_before_retry decides at once
\* whether to pause at all.
TeardownEnds ==
  /\ phase = "teardown"
  /\ settling' = TRUE
  /\ \/ /\ stop \/ WritesPending \/ wakePending \/ reload
        /\ LoopHead
     \/ /\ ~(stop \/ WritesPending \/ wakePending \/ reload)
        /\ phase' = "arming" /\ attempt' = FALSE /\ outcome' = "none"
        /\ UNCHANGED <<polling, fresh, lastKind, linkVars, liveVars, hold, writer, readVars, calls>>
  /\ UNCHANGED <<woken, poll, reload, stop, stopper, lately>>

\* The task that waits on _wake_event first runs an iteration later.
PauseStarts ==
  /\ phase = "arming"
  /\ phase' = "pause"
  /\ UNCHANGED <<outcome, polling, fresh, lastKind, attempt, linkVars, woken, liveVars, hold, entryVars,
                 writer, readVars, calls>>

\* Woken, stopped, or the delay (15 to 45 s, or the poll interval) is over.
PauseEnds ==
  /\ phase = "pause"
  /\ LoopHead /\ woken' = FALSE
  /\ UNCHANGED entryVars

SessionTask ==
  \/ AdoptHandoff \/ KeepDistance \/ HandOverEnds
  \/ GattUp \/ Subscribed \/ AttemptFails \/ StartupSucceeds \/ AddressKindSaved
  \/ ReleaseEnds \/ SessionEnds \/ MeasureStarts \/ MeasureEnds
  \/ TeardownEnds \/ PauseStarts \/ PauseEnds

-----------------------------------------------------------------------------
(* The rest of the entry is set up once the task first waits; a task that has *)
(* no distance to keep goes straight into its first attempt.                  *)

Parked == phase = "boot" => settling /\ initial # "up"

-----------------------------------------------------------------------------
(* Commands: async_write_many and _client_for_write *)

\* Mutant: the event is cleared before the client is looked at.
WriteBeginsClearingFirst(w) ==
  /\ Parked /\ writer[w] = "idle" /\ calls < MaxCalls
  /\ calls' = calls + 1
  /\ release' = FALSE /\ announced' = FALSE
  /\ \/ /\ link = "live"
        /\ writer' = [writer EXCEPT ![w] = "writing"]
        /\ UNCHANGED <<woken, hold>>
     \/ /\ link # "live" /\ poll
        /\ writer' = [writer EXCEPT ![w] = "waiting"]
        /\ Wake
        /\ UNCHANGED hold
     \/ /\ link # "live" /\ ~poll
        /\ hold' = TRUE
        /\ UNCHANGED <<woken, writer>>
  /\ UNCHANGED <<loopVars, link, initial, open, asked, wakePending, window, entryVars, readVars>>

\* `release` is withdrawn in every case; without a usable link a poll is woken,
\* and connected mode refuses at once (the finally still arms the hold).
WriteBegins(w) ==
  /\ Parked /\ writer[w] = "idle" /\ calls < MaxCalls
  /\ calls' = calls + 1
  /\ release' = FALSE
  /\ \/ /\ link = "live"
        /\ writer' = [writer EXCEPT ![w] = "writing"]
        /\ UNCHANGED <<announced, woken, hold>>
     \/ /\ link # "live" /\ poll
        /\ writer' = [writer EXCEPT ![w] = "waiting"]
        /\ announced' = FALSE /\ Wake
        /\ UNCHANGED hold
     \/ /\ link # "live" /\ ~poll
        /\ hold' = TRUE
        /\ UNCHANGED <<announced, woken, writer>>
  /\ UNCHANGED <<loopVars, link, initial, open, asked, wakePending, window, entryVars, readVars>>

\* The waiter runs after the event was set: the link may be gone again.
WriterResumes(w) ==
  /\ writer[w] = "served"
  /\ \/ /\ link = "live"
        /\ writer' = [writer EXCEPT ![w] = "writing"] /\ UNCHANGED hold
     \/ /\ link # "live"
        /\ writer' = [writer EXCEPT ![w] = "idle"] /\ hold' = TRUE
  /\ UNCHANGED <<loopVars, linkVars, woken, liveVars, entryVars, readVars, calls>>

\* Confirmed, failed, or 75 s without a session: _hold_after_command either way.
WriteEnds(w) ==
  /\ writer[w] \in {"waiting", "writing"}
  /\ writer' = [writer EXCEPT ![w] = "idle"] /\ hold' = TRUE
  /\ UNCHANGED <<loopVars, linkVars, woken, liveVars, entryVars, readVars, calls>>

-----------------------------------------------------------------------------
(* Manual refreshes: async_request_manual_session, async_end_manual_session *)

RefreshBegins(r, m) ==
  /\ Parked /\ reader[r] = "idle" /\ calls < MaxCalls
  /\ calls' = calls + 1
  /\ owner' = r /\ want' = [want EXCEPT ![r] = m]
  /\ release' = FALSE
  /\ \/ /\ link = "live" /\ announced
        /\ window' = (poll /\ m = "window")
        /\ reader' = [reader EXCEPT ![r] = "reading"]
        /\ UNCHANGED <<announced, asked, wakePending, woken>>
     \/ /\ ~(link = "live" /\ announced)
        /\ asked' = m /\ wakePending' = TRUE
        /\ announced' = FALSE /\ Wake
        /\ reader' = [reader EXCEPT ![r] = "waiting"]
        /\ UNCHANGED window
  /\ UNCHANGED <<loopVars, link, initial, open, hold, entryVars, writer, cancelled>>

\* Mutant: the minutes and the wake pulse are not withdrawn in the finally.
FinishKeepingTheMinutes(r, ok) ==
  /\ reader' = [reader EXCEPT ![r] = "idle"]
  /\ cancelled' = [cancelled EXCEPT ![r] = FALSE]
  /\ want' = [want EXCEPT ![r] = "once"]
  /\ IF owner = r
       THEN owner' = Nobody /\ window' = (ok /\ window)
       ELSE UNCHANGED <<owner, window>>
  /\ UNCHANGED <<loopVars, linkVars, woken, asked, wakePending, release, hold, entryVars, writer,
                 calls>>

\* The except and finally of async_request_manual_session: only the newest
\* request may give the window back and withdraw the minutes.
Finish(r, ok) ==
  /\ reader' = [reader EXCEPT ![r] = "idle"]
  /\ cancelled' = [cancelled EXCEPT ![r] = FALSE]
  /\ want' = [want EXCEPT ![r] = "once"]
  /\ IF owner = r
       THEN /\ asked' = "none" /\ wakePending' = FALSE /\ owner' = Nobody
            /\ window' = (ok /\ window)
       ELSE UNCHANGED <<asked, wakePending, owner, window>>
  /\ UNCHANGED <<loopVars, linkVars, woken, release, hold, entryVars, writer, calls>>

\* The session was announced, or the fresh parameters were read.
RefreshSucceeds(r) ==
  /\ reader[r] \in {"served", "reading"} /\ ~cancelled[r]
  /\ Finish(r, TRUE)

\* Cancelled, 75 s without a session, or no fresh parameters read.
RefreshFails(r) ==
  /\ reader[r] \in {"waiting", "reading"} \/ (reader[r] = "served" /\ cancelled[r])
  /\ Finish(r, FALSE)

\* Mutant: the wake event is cleared even while a command is waiting.
EndManualClearingAlways ==
  /\ Parked
  /\ release' = (release \/ ManualSessionActive)
  /\ asked' = "none" /\ wakePending' = FALSE /\ window' = FALSE
  /\ cancelled' = [r \in Requests |-> reader[r] # "idle"]
  /\ woken' = (woken /\ phase # "arming")
  /\ UNCHANGED <<loopVars, linkVars, hold, entryVars, writer, reader, want, owner, calls>>

EndManual ==
  /\ Parked
  /\ release' = (release \/ ManualSessionActive)
  /\ asked' = "none" /\ wakePending' = FALSE /\ window' = FALSE
  /\ cancelled' = [r \in Requests |-> reader[r] # "idle"]
  /\ woken' = (woken /\ (phase = "arming" => WritesPending))
  /\ UNCHANGED <<loopVars, linkVars, hold, entryVars, writer, reader, want, owner, calls>>

-----------------------------------------------------------------------------
(* Options, unload and setup: __init__.py, async_request_reload, async_stop *)

\* The update listener while the session task runs; the option is live at once.
ChangeOptions ==
  /\ Parked
  /\ phase # "gone" \/ reload
  /\ poll' \in BOOLEAN /\ reload' = TRUE
  /\ Wake
  /\ UNCHANGED <<loopVars, linkVars, liveVars, hold, stop, stopper, settling, lately, writer, readVars,
                 calls>>

StopBegins ==
  /\ Parked /\ stopper = "no"
  /\ stop' = TRUE /\ stopper' = "waiting"
  /\ UNCHANGED <<loopVars, linkVars, woken, liveVars, hold, poll, reload, settling, lately, writer,
                 readVars, calls>>

\* 5 s and the task has not ended: it is cancelled, once.  Inside an attempt the
\* finally of _run still tears down, but it has no hold of a connection that was
\* being opened; inside that teardown it does not get to noting the end.
SessionCancelled ==
  /\ stopper = "waiting" /\ phase # "gone"
  /\ stopper' = "cancelled"
  /\ \/ /\ phase \in {"dial", "startup", "remember", "hold", "measure"} /\ link # "new"
        /\ HangUp(Failure)
     \/ /\ phase = "dial" /\ link = "new"
        /\ DropClient(Failure) /\ open' \in {"none", "opening"}
     \/ /\ phase \in {"boot", "handover", "teardown", "arming", "pause"}
        /\ phase' = "gone" /\ UNCHANGED <<outcome, polling, fresh, lastKind, attempt, linkVars, lately>>
  /\ UNCHANGED <<woken, liveVars, hold, poll, reload, stop, settling, writer,
                 readVars, calls>>

\* What is left is dropped and disconnected.
DropTheRest ==
  /\ link' = "none" /\ announced' = FALSE /\ initial' = "none"
  /\ open' = IF link # "none" \/ initial # "none" THEN "none" ELSE open

\* Mutant: an attempt that was cancelled in its teardown is not noted.
StopEndsWithoutNote ==
  /\ stopper \in {"waiting", "cancelled"} /\ phase = "gone"
  /\ stopper' = "done" /\ DropTheRest
  /\ settling' = (settling \/ initial # "none")
  /\ lately' = (lately \/ initial # "none")
  /\ UNCHANGED <<loopVars, woken, liveVars, hold, poll, reload, stop, writer, readVars, calls>>

\* The task is over: drop what is left, and note the end if a link ended here.
StopEnds ==
  /\ stopper \in {"waiting", "cancelled"} /\ phase = "gone"
  /\ stopper' = "done" /\ DropTheRest
  /\ settling' = (settling \/ attempt \/ initial # "none")
  /\ lately' = (lately \/ initial # "none")
  /\ UNCHANGED <<loopVars, woken, liveVars, hold, poll, reload, stop, writer, readVars, calls>>

\* async_setup_entry builds the next coordinator; a re-pairing hands it a link.
Setup ==
  /\ stopper = "done" /\ calls < MaxCalls
  /\ calls' = calls + 1
  /\ NewCoordinator
  /\ UNCHANGED <<poll, settling, lately>>

-----------------------------------------------------------------------------
(* Time and radio *)

\* The end is noted after the link was closed, so its 30 s end later.
SettlingEnds ==
  /\ settling \/ lately
  /\ settling' = FALSE /\ lately' = FALSE
  /\ UNCHANGED <<loopVars, linkVars, woken, liveVars, hold, poll, reload, stop, stopper, writer,
                 readVars, calls>>

HoldExpires ==
  /\ hold /\ hold' = FALSE
  /\ UNCHANGED <<loopVars, linkVars, woken, liveVars, entryVars, writer, readVars, calls>>

\* A window lasts a minute at least: a refresh already served sees it.
WindowExpires ==
  /\ window /\ \A r \in Requests : reader[r] # "served"
  /\ window' = FALSE
  /\ UNCHANGED <<loopVars, linkVars, woken, asked, wakePending, release, hold, entryVars, writer,
                 readVars, calls>>

\* The link drops, or the transport gives it up after a failed transfer and
\* closes it, which it does not after a write that hung in a probe.
LinkDies ==
  /\ link = "live" /\ link' = "dead" /\ open' \in {"none", open}
  /\ UNCHANGED <<loopVars, announced, initial, woken, liveVars, hold, entryVars, writer,
                 readVars, calls>>

Calls ==
  \/ \E w \in Writers : WriteBegins(w)
  \/ \E r \in Requests, m \in {"once", "window"} : RefreshBegins(r, m)
  \/ EndManual \/ ChangeOptions \/ StopBegins \/ Setup

CallSteps ==
  \/ \E w \in Writers : WriterResumes(w) \/ WriteEnds(w)
  \/ \E r \in Requests : RefreshSucceeds(r) \/ RefreshFails(r)

StopTask == SessionCancelled \/ StopEnds
Timers == SettlingEnds \/ HoldExpires \/ WindowExpires

Next == SessionTask \/ Calls \/ CallSteps \/ StopTask \/ Timers \/ LinkDies

Spec == Init /\ [][Next]_vars

-----------------------------------------------------------------------------
(* Fairness: the loop schedules every ready task and fires every timer.  Calls *)
(* and radio events are not fair; MaxCalls makes the callers' stream finite.   *)

Fairness ==
  /\ WF_vars(SessionTask)
  /\ WF_vars(StopTask)
  /\ WF_vars(SettlingEnds) /\ WF_vars(HoldExpires) /\ WF_vars(WindowExpires)
  /\ \A w \in Writers : WF_vars(WriterResumes(w) \/ WriteEnds(w))
  /\ \A r \in Requests : WF_vars(RefreshSucceeds(r) \/ RefreshFails(r))

FairSpec == Spec /\ Fairness

-----------------------------------------------------------------------------
(* Safety *)

\* "There is a session one can write through" (_disconnect_client): the event is
\* set only inside the dwell loop and never without a client.
AnnouncedMeansSession == announced => phase \in {"hold", "measure"} /\ link \in {"live", "dead"}

\* A command or refresh that waits for a session is not left waiting while one
\* is open: clear() in _client_for_write and _request_manual_session never
\* takes back the announcement of a link that works.
NobodyWaitsAtAnOpenLink ==
  phase \in {"hold", "measure"} /\ link = "live" =>
    /\ announced
    /\ \A w \in Writers : writer[w] # "waiting"
    /\ \A r \in Requests : reader[r] # "waiting"

\* _wait_before_retry: a command or a fresh live request never sits out the
\* pause between two sessions, wherever in the gap it arrives.
PauseHearsCalls ==
  phase \in {"arming", "pause"} /\ (WritesPending \/ wakePending) => woken

\* The minutes and the wake pulse belong to a refresh that is still running:
\* no later poll turns into a live window nobody asked for (finally of
\* async_request_manual_session).
LiveWishHasARequest ==
  asked # "none" \/ wakePending => owner # Nobody /\ reader[owner] # "idle"

\* REV-007 (_keep_distance_after_reload): the first dial after a setup is never
\* made within 30 s of the link its predecessor closed.
DistanceAfterReload ==
  [][fresh /\ ~fresh' /\ initial # "up" => ~lately]_vars

\* async_stop: when it returns, the task is over for good and every connection it
\* had up, in whatever state, or was handed, has been disconnected.  One that was
\* still being opened may be left, but never without the warning that says so
\* ("may stay up until the panel drops it", _stop_session_task).
StopClosesItsLinks ==
  [][stopper' = "done" =>
       /\ phase' = "gone" /\ open' # "up"
       /\ open' = "opening" /\ stopper # "done" => stopper = "cancelled"]_vars

\* The binding order of the dwell checks: a session whose link works is not
\* ended from the dwell loop of a poll while a command or refresh owns it.
HangUpSparesCalls ==
  [][phase = "hold" /\ polling /\ link = "live" /\ ~stop /\ phase' = "teardown" => ~Busy]_vars

-----------------------------------------------------------------------------
(* Liveness *)

\* async_request_reload: a changed option is applied in the end; neither a held
\* link nor a live window nor a failing dial keeps it waiting for ever.
ReloadComesAbout == reload ~> phase = "gone"

\* Poll mode gives the link back: no hold, window or refresh keeps it for ever.
PollSessionEnds == phase = "hold" /\ polling ~> phase \notin {"hold", "measure"}

\* An unload comes to its end whatever the session task was doing.
StopCompletes == stop ~> stopper = "done"

-----------------------------------------------------------------------------
(* What a docstring says, and the code does not do *)

\* async_request_manual_session, 363-365: the minutes are the time the link
\* stays open after the synchronisation a request reports as done.
GrantedRefreshGetsItsWindow ==
  [][\A r \in Requests :
       /\ reader[r] = "served" /\ reader'[r] = "idle" /\ ~cancelled[r] /\ owner = r
       /\ want[r] = "window" /\ poll /\ ~reload /\ phase = "hold"
       => window']_vars
=============================================================================
