---------------------------- MODULE ConfirmedWrite -----------------------------
(***************************************************************************)
(* What async_write_many does with a link (coordinator.py): send each      *)
(* setting of a command, ask the device for its parameters, wait for a     *)
(* report that carries the wanted value, try again, and check at the end   *)
(* that all settings of a transaction hold together.  Several commands run *)
(* at once, each with a book of its own for the reports.                   *)
(*                                                                         *)
(* Waiting for a session is in Coordinator, the handshake of one transfer  *)
(* in Transport; here a send is under way until its frame is with the      *)
(* panel, and again until its DataAck.                                     *)
(***************************************************************************)
EXTENDS Integers, Sequences

CONSTANTS Commands,     \* calls of async_write_many
          Settings,     \* <<device, topic, parameter>>
          Ranges,       \* the values each of them is reported with
          Script,       \* each command: its sequence of [setting, value]
          Tristate,     \* the settings WaterHeating.Active, which report 2 as "on"
          Attempts,     \* _WRITE_ATTEMPTS
          MaxSessions   \* bound: sessions in one behaviour

None == -1

Setting == [setting : Settings, value : Nat]

ASSUME RangesAssumption == Ranges \in [Settings -> SUBSET Nat]
ASSUME ScriptAssumption == Script \in [Commands -> Seq(Setting) \ {<<>>}]
ASSUME TristateAssumption == Tristate \subseteq Settings
ASSUME BoundsAssumption == Attempts \in Nat \ {0} /\ MaxSessions \in Nat \ {0}

VARIABLES
  pc,        \* each command: where its task is
  step,      \* the setting it is at
  attempt,   \* the attempt it is at
  client,    \* the session whose client it writes through
  book,      \* _write_feedback[token]: the latest report of each setting not yet taken
  heard,     \* (history) what the latest report of its setting since the attempt
             \* began said; "early": as wanted, but before the frame was out
  bus,       \* the coordinator's Bus: the last value each setting was reported with
  session,   \* sessions so far
  link       \* the client of the latest one is connected

taskVars  == <<pc, step, attempt, client>>
bookVars  == <<book, heard>>
linkVars  == <<session, link>>
vars == <<taskVars, bookVars, bus, linkVars>>

Ended == {"confirmed", "failed", "cancelled"}
Running(c) == pc[c] \notin {"idle"} \cup Ended
NoReports == [s \in Settings |-> None]

TypeOK ==
  /\ pc \in [Commands -> {"idle", "send", "sent", "ask", "listen", "pause", "settle"} \cup Ended]
  /\ step \in [Commands -> Nat] /\ \A c \in Commands : step[c] \in 1 .. Len(Script[c])
  /\ attempt \in [Commands -> 1 .. Attempts]
  /\ client \in [Commands -> 0 .. session]
  /\ book \in [Commands -> [Settings -> Nat \cup {None}]]
  /\ heard \in [Commands -> {"nothing", "other", "early", "wanted"}]
  /\ bus \in [Settings -> Nat \cup {None}]
  /\ session \in 1 .. MaxSessions /\ link \in BOOLEAN

Init ==
  /\ pc = [c \in Commands |-> "idle"]
  /\ step = [c \in Commands |-> 1] /\ attempt = [c \in Commands |-> 1]
  /\ client = [c \in Commands |-> 0]
  /\ book = [c \in Commands |-> NoReports] /\ heard = [c \in Commands |-> "nothing"]
  /\ bus \in {b \in [Settings -> UNION {Ranges[s] : s \in Settings} \cup {None}] :
               \A s \in Settings : b[s] \in Ranges[s] \cup {None}}
  /\ session = 1 /\ link = TRUE

Now(c) == Script[c][step[c]]
Connected(c) == link /\ client[c] = session
Goto(c, place) == pc' = [pc EXCEPT ![c] = place]

\* _feedback_satisfied: exact, but for "on" of WaterHeating.Active.
Satisfied(order, got) ==
  IF order.setting \in Tristate /\ order.value = 1 THEN got \in {1, 2} ELSE got = order.value

-----------------------------------------------------------------------------
(* The command *)

\* The call returns or raises: its book and its locals are gone.
Leave(c, verdict) ==
  /\ Goto(c, verdict)
  /\ step' = [step EXCEPT ![c] = 1] /\ attempt' = [attempt EXCEPT ![c] = 1]
  /\ client' = [client EXCEPT ![c] = 0]
  /\ book' = [book EXCEPT ![c] = NoReports] /\ heard' = [heard EXCEPT ![c] = "nothing"]

\* The book of a command without the report it is waiting for (pop).
Taken(c) == [book[c] EXCEPT ![Now(c).setting] = None]

\* Mutant: the attempts are not counted.
BeginAttemptForEver(c, i, n) ==
  /\ Goto(c, "send")
  /\ step' = [step EXCEPT ![c] = i] /\ attempt' = [attempt EXCEPT ![c] = 1]
  /\ book' = [book EXCEPT ![c] = [Taken(c) EXCEPT ![Script[c][i].setting] = None]]
  /\ heard' = [heard EXCEPT ![c] = "nothing"]
  /\ UNCHANGED client

\* The n-th attempt at the i-th setting: forget its reports, hand over the frame.
BeginAttempt(c, i, n) ==
  /\ Goto(c, "send")
  /\ step' = [step EXCEPT ![c] = i] /\ attempt' = [attempt EXCEPT ![c] = n]
  /\ book' = [book EXCEPT ![c] = [Taken(c) EXCEPT ![Script[c][i].setting] = None]]
  /\ heard' = [heard EXCEPT ![c] = "nothing"]
  /\ UNCHANGED client

\* Validated and given a session: an empty book, and the first attempt.
Begin(c) ==
  /\ pc[c] = "idle" /\ link
  /\ Goto(c, "send") /\ client' = [client EXCEPT ![c] = session]
  /\ UNCHANGED <<step, attempt, bookVars, bus, linkVars>>

\* A value no device accepts refuses the command before anything is sent.
Refuse(c) ==
  /\ pc[c] = "idle" /\ Goto(c, "failed")
  /\ UNCHANGED <<step, attempt, client, bookVars, bus, linkVars>>

\* The transfer got the send lock and its Ready, and the payload is out.
FrameOut(c) ==
  /\ pc[c] = "send" /\ Connected(c) /\ Goto(c, "sent")
  /\ UNCHANGED <<step, attempt, client, bookVars, bus, linkVars>>

SendReturns(c) ==
  /\ pc[c] = "sent" /\ Goto(c, "ask")
  /\ UNCHANGED <<step, attempt, client, bookVars, bus, linkVars>>

\* No DataAck: the command is over, and the transport has ended its session.
SendFails(c) ==
  /\ pc[c] \in {"send", "sent"} /\ Leave(c, "failed")
  /\ link' = (link /\ client[c] # session)
  /\ UNCHANGED <<bus, session>>

\* The parameter request is a probe: whatever becomes of it, the wait begins.
Asked(c) ==
  /\ pc[c] = "ask" /\ Goto(c, "listen")
  /\ UNCHANGED <<step, attempt, client, bookVars, bus, linkVars>>

\* _write_confirmed returned: the next setting, the final check, or success.
Advance(c) ==
  IF step[c] < Len(Script[c])
    THEN BeginAttempt(c, step[c] + 1, 1)
    ELSE IF Len(Script[c]) = 1
      THEN Leave(c, "confirmed")
      ELSE /\ Goto(c, "settle")
           /\ book' = [book EXCEPT ![c] = Taken(c)]
           /\ UNCHANGED <<step, attempt, client, heard>>

Reported(c) == book[c][Now(c).setting]

\* A tick of _await_feedback takes the latest report.
Hears(c) ==
  /\ pc[c] = "listen" /\ Reported(c) # None
  /\ IF Satisfied(Now(c), Reported(c))
       THEN Advance(c)
       ELSE /\ book' = [book EXCEPT ![c] = Taken(c)]
            /\ UNCHANGED <<taskVars, heard>>
  /\ UNCHANGED <<bus, linkVars>>

\* Mutant: one attempt too many.
HearsNothingOnceMore(c) ==
  /\ pc[c] = "listen"
  /\ Reported(c) # None => ~Satisfied(Now(c), Reported(c))
  /\ IF Connected(c) /\ attempt[c] <= Attempts
       THEN /\ Goto(c, "pause") /\ book' = [book EXCEPT ![c] = Taken(c)]
            /\ UNCHANGED <<step, attempt, client, heard>>
       ELSE Leave(c, "failed")
  /\ UNCHANGED <<bus, linkVars>>

\* 12 s are over and the last tick, too, found nothing or another value.
HearsNothing(c) ==
  /\ pc[c] = "listen"
  /\ Reported(c) # None => ~Satisfied(Now(c), Reported(c))
  /\ IF Connected(c) /\ attempt[c] < Attempts
       THEN /\ Goto(c, "pause") /\ book' = [book EXCEPT ![c] = Taken(c)]
            /\ UNCHANGED <<step, attempt, client, heard>>
       ELSE Leave(c, "failed")
  /\ UNCHANGED <<bus, linkVars>>

Retry(c) ==
  /\ pc[c] = "pause"
  /\ BeginAttempt(c, step[c], attempt[c] + 1)
  /\ UNCHANGED <<bus, linkVars>>

\* Mutant: only the last setting is looked at again.
SettledLast(c) ==
  /\ pc[c] = "settle"
  /\ Leave(c, IF Satisfied(Now(c), bus[Now(c).setting]) THEN "confirmed" ELSE "failed")
  /\ UNCHANGED <<bus, linkVars>>

\* A second after the last confirmation: do all settings hold together?
Settled(c) ==
  /\ pc[c] = "settle"
  /\ Leave(c, IF \A i \in 1 .. Len(Script[c]) : Satisfied(Script[c][i], bus[Script[c][i].setting])
              THEN "confirmed" ELSE "failed")
  /\ UNCHANGED <<bus, linkVars>>

\* The service call is cancelled; under a transfer that ends the session.
Cancel(c) ==
  /\ Running(c) /\ Leave(c, "cancelled")
  /\ \/ UNCHANGED link
     \/ pc[c] \in {"send", "sent"} /\ Connected(c) /\ link' = FALSE
  /\ UNCHANGED <<bus, session>>

-----------------------------------------------------------------------------
(* The devices and the link.  A device reports any setting as any value at any *)
(* time: acknowledged and not executed, changed at the panel, or asked twice.  *)

\* Mutant: the first command waiting for a report takes it from the others.
NoteForOne(report) ==
  \E one \in Commands :
    book' = [c \in Commands |->
      IF Running(c) /\ c = one THEN [book[c] EXCEPT ![report.setting] = report.value] ELSE book[c]]

\* on_frame_value: every running command gets the value into its own book.
Note(report) ==
  book' = [c \in Commands |->
    IF Running(c) THEN [book[c] EXCEPT ![report.setting] = report.value] ELSE book[c]]

\* (history) What the report says to a command that is at its setting.
Said(c, report) ==
  IF ~Satisfied(Now(c), report.value) THEN "other"
  ELSE IF pc[c] = "send" THEN "early" ELSE "wanted"

\* _on_frame: the books first, then the bus.
Deliver(report) ==
  /\ link
  /\ Note(report)
  /\ heard' = [c \in Commands |->
       IF Running(c) /\ Now(c).setting = report.setting THEN Said(c, report) ELSE heard[c]]
  /\ bus' = [bus EXCEPT ![report.setting] = report.value]
  /\ UNCHANGED <<taskVars, linkVars>>

LinkDrops ==
  /\ link /\ link' = FALSE
  /\ UNCHANGED <<taskVars, bookVars, bus, session>>

\* The session loop has a new client; commands keep the one they began with.
Reconnect ==
  /\ ~link /\ session < MaxSessions
  /\ link' = TRUE /\ session' = session + 1
  /\ UNCHANGED <<taskVars, bookVars, bus>>

Waits(c) ==
  \/ FrameOut(c) \/ SendReturns(c) \/ SendFails(c) \/ Asked(c) \/ Hears(c) \/ HearsNothing(c)
  \/ Retry(c) \/ Settled(c)

Next ==
  \/ \E c \in Commands : Begin(c) \/ Refuse(c) \/ Waits(c) \/ Cancel(c)
  \/ \E s \in Settings : \E v \in Ranges[s] : Deliver([setting |-> s, value |-> v])
  \/ LinkDrops \/ Reconnect

Spec == Init /\ [][Next]_vars

\* Every wait of a command is bounded: the transfer by its timers, the listening
\* by its deadline, whatever the device keeps reporting.
FairSpec ==
  /\ Spec
  /\ \A c \in Commands :
       /\ WF_vars(FrameOut(c) \/ SendFails(c)) /\ WF_vars(SendReturns(c) \/ SendFails(c))
       /\ WF_vars(Asked(c)) /\ WF_vars(Retry(c)) /\ WF_vars(Settled(c))
       /\ SF_vars(HearsNothing(c)) /\ WF_vars(Hears(c))

-----------------------------------------------------------------------------
(* Safety *)

\* _write_confirmed: the wait for a device ends as its reports of this attempt
\* say -- well only if the latest one carries the wanted value, and badly only
\* if it does not; no report of an earlier attempt counts, and no other command
\* takes a report away.
VerdictFollowsTheReports ==
  [][\A c \in Commands :
       pc[c] = "listen" /\ pc'[c] \notin {"listen", "cancelled"} =>
         (pc'[c] \in {"send", "settle", "confirmed"} <=> heard[c] \in {"early", "wanted"})]_vars

\* async_write_many: a command that reports success leaves a bus on which every
\* one of its settings was last reported as wanted, all at the same time.
SuccessMeansRetained ==
  [][\A c \in Commands :
       pc[c] # "confirmed" /\ pc'[c] = "confirmed" =>
         \A i \in 1 .. Len(Script[c]) : Satisfied(Script[c][i], bus[Script[c][i].setting])]_vars

-----------------------------------------------------------------------------
(* Liveness *)

\* A command always comes back to its caller, whether the device stays silent,
\* keeps reporting another value or the link dies under it.
EveryCommandReturns == \A c \in Commands : Running(c) ~> pc[c] \in Ended
=============================================================================
