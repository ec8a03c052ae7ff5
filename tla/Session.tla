-------------------------------- MODULE Session --------------------------------
(***************************************************************************)
(* What a session with the panel consists of (session.py): registration,   *)
(* subscription and identity, parameter discovery in two rounds, and the   *)
(* measurement requests -- run by the session task at startup, by it again *)
(* while it holds the link, and by a manual refresh over an open link.     *)
(* All of them share one client and one bus.                               *)
(*                                                                         *)
(* The addresses of a round are asked in ascending order; here in any.     *)
(* One measured topic stands for both: their counters have no state in     *)
(* common.  Time only counts as "before" and "since".                      *)
(***************************************************************************)
EXTENDS Naturals

CONSTANTS Address,      \* addresses on the bus
          Seed,         \* DEVICE_SEED
          Assignable,   \* the addresses the panel may give us
          Loop,         \* the session task
          Refreshes,    \* manual refreshes
          Nobody,       \* no address
          GivesUp,      \* _MEASURE_MISSES_BEFORE_GIVING_UP
          MaxSessions   \* bound: sessions in one behaviour

\* "The panel itself is always one of them", and keeps its address.
ASSUME SeedAssumption == Seed \subseteq Address /\ Seed \ Assignable # {}
ASSUME TasksAssumption == Loop \notin Refreshes
ASSUME NobodyAssumption == Nobody \notin Address
ASSUME BoundsAssumption == GivesUp \in Nat \ {0} /\ MaxSessions \in Nat \ {0}

Tasks == {Loop} \cup Refreshes

VARIABLES
  task,        \* each task: where it is, and its locals
  up,          \* the client of the latest session is connected and usable
  session,     \* sessions so far
  ours,        \* assigned_addr of each session's client
  registered,  \* `registered` of the latest session's client
  announced,   \* the session task has announced the session
  heard,       \* addresses of the bus's devices
  busOurs,     \* assigned_addr of the bus
  levels,      \* those that have published a level
  misses,      \* measure_misses: unanswered requests in a row
  spoke,       \* the device has been seen since the last of these (heard_at)
  discovered,  \* the naming gate
  proof,       \* (history) what this session's startup has seen so far
  silent       \* (history) unanswered requests since the device last spoke unasked

linkVars == <<up, session, ours, registered, announced>>
busVars  == <<heard, busOurs, levels, misses, spoke, discovered>>
histVars == <<proof, silent>>
vars == <<task, linkVars, busVars, histVars>>

Starting == {"register", "await", "introduce"}
Stages == {"idle", "open"} \cup Starting \cup {"broadcast", "probe", "settle", "measure", "asking"}

TypeOK ==
  /\ task \in [Tasks -> [stage : Stages, client : 0 .. session, round : {1, 2},
                         todo : SUBSET Address, asked : SUBSET Address, acked : BOOLEAN,
                         to : Address \cup {Nobody}, missed : 0 .. GivesUp]]
  /\ \A t \in Tasks : task[t].stage = "asking" => task[t].to \in Address /\ task[t].missed < GivesUp
  /\ up \in BOOLEAN /\ session \in 0 .. MaxSessions
  /\ ours \in [1 .. MaxSessions -> Assignable \cup {Nobody}]
  /\ registered \in BOOLEAN /\ announced \in BOOLEAN
  /\ heard \subseteq Address /\ busOurs \in Assignable \cup {Nobody} /\ levels \subseteq heard
  /\ misses \in [Address -> 0 .. GivesUp] /\ spoke \in [Address -> BOOLEAN]
  /\ discovered \in BOOLEAN
  /\ proof \in [assigned : BOOLEAN, acked : BOOLEAN, asked : SUBSET Address, early : SUBSET Address]
  /\ silent \in [Address -> 0 .. GivesUp]

\* History: the panel gave an address; a directed question was acknowledged; who
\* was asked; and who had ever spoken before the second round was planned.
NoProof == [assigned |-> FALSE, acked |-> FALSE, asked |-> {}, early |-> {}]

\* A task at the start of something, with nobody asked yet.
At(stage, c, todo) == [stage |-> stage, client |-> c, round |-> 1, todo |-> todo, asked |-> {},
                       acked |-> FALSE, to |-> Nobody, missed |-> 0]
Idle == At("idle", 0, {})

Init ==
  /\ task = [t \in Tasks |-> Idle]
  /\ up = FALSE /\ session = 0 /\ ours = [n \in 1 .. MaxSessions |-> Nobody]
  /\ registered = FALSE /\ announced = FALSE
  /\ heard = {} /\ busOurs = Nobody /\ levels = {}
  /\ misses = [a \in Address |-> 0] /\ spoke = [a \in Address |-> FALSE] /\ discovered = FALSE
  /\ proof = NoProof /\ silent = [a \in Address |-> 0]

Stage(t) == task[t].stage
Up(t) == up /\ task[t].client = session
Become(t, locals) == task' = [task EXCEPT ![t] = locals]
Goto(t, stage) == task' = [task EXCEPT ![t].stage = stage]

-----------------------------------------------------------------------------
(* Registration *)

\* A new client, its flag taken back, and the registration frame handed over.
Connect ==
  /\ Stage(Loop) = "idle" /\ session < MaxSessions
  /\ session' = session + 1 /\ up' = TRUE /\ registered' = FALSE
  /\ Become(Loop, At("register", session + 1, {}))
  /\ proof' = [NoProof EXCEPT !.early = heard]
  /\ UNCHANGED <<ours, announced, busVars, silent>>

\* A send that is no probe: if it is not acknowledged, the client invalidates
\* itself and forgets its address.  No caller looks at what it returned.
SendsOrBreaks ==
  \/ up /\ UNCHANGED <<up, ours, registered>>
  \/ up' = FALSE /\ registered' = FALSE /\ ours' = [ours EXCEPT ![session] = Nobody]

RegisterReturns ==
  /\ Stage(Loop) = "register" /\ Goto(Loop, "await")
  /\ SendsOrBreaks
  /\ UNCHANGED <<session, announced, busVars, histVars>>

\* handle_frame, the response to the registration; Nobody is the default address.
Assigns(addr) ==
  /\ up /\ Stage(Loop) \in {"register", "await"} /\ ~registered
  /\ registered' = TRUE /\ ours' = [ours EXCEPT ![session] = addr] /\ busOurs' = addr
  /\ proof' = [proof EXCEPT !.assigned = TRUE]
  /\ UNCHANGED <<task, up, session, announced, heard, levels, misses, spoke, discovered, silent>>

\* The tick after the answer, whatever has become of the link.
Registers ==
  /\ Stage(Loop) = "await" /\ registered /\ Goto(Loop, "introduce")
  /\ UNCHANGED <<linkVars, busVars, histVars>>

\* The session task leaves a session: the coordinator closes the link.
HangUp ==
  /\ Become(Loop, Idle) /\ up' = FALSE /\ announced' = FALSE /\ proof' = NoProof
  /\ UNCHANGED <<session, ours, registered>>

\* Mutant: only a link that is gone ends the wait, without a timeout.
NoAddressUnlessGone ==
  /\ Stage(Loop) = "await" /\ ~registered /\ ~up
  /\ HangUp
  /\ UNCHANGED <<busVars, silent>>

\* The link ended during registration, or 20 s passed without an address.
NoAddress ==
  /\ Stage(Loop) = "await" /\ ~registered
  /\ HangUp
  /\ UNCHANGED <<busVars, silent>>

\* One of the subscribe and identity frames breaks the session; the rest of
\* them are refused, and the startup goes on regardless.
IntroductionBreaks ==
  /\ Stage(Loop) = "introduce"
  /\ up' = FALSE /\ registered' = FALSE /\ ours' = [ours EXCEPT ![session] = Nobody]
  /\ UNCHANGED <<task, session, announced, busVars, histVars>>

\* discover_params begins with a broadcast nobody has to answer.
Search(c) == At("broadcast", c, {})

Introduced ==
  /\ Stage(Loop) = "introduce"
  /\ Become(Loop, Search(session))
  /\ UNCHANGED <<linkVars, busVars, histVars>>

-----------------------------------------------------------------------------
(* discover_params *)

\* request_measurements takes stock of the publishers first.
Measure(c) == At("measure", c, levels)

\* Mutant: a discovery that nobody answered counts like any other.
JudgeNobody(t) ==
  /\ Become(t, Measure(task[t].client)) /\ discovered' = TRUE
  /\ UNCHANGED <<linkVars, proof>>

\* The end of a discovery: if nobody at all acknowledged, the session is dead
\* and the startup (or the refresh) fails; else the naming gate opens.
Judge(t) ==
  \/ /\ task[t].asked # {} /\ ~task[t].acked
     /\ IF t = Loop THEN HangUp ELSE Become(t, Idle) /\ UNCHANGED <<linkVars, proof>>
     /\ UNCHANGED discovered
  \/ /\ task[t].asked = {} \/ task[t].acked
     /\ Become(t, Measure(task[t].client)) /\ discovered' = TRUE
     /\ UNCHANGED <<linkVars, proof>>

Targets(t) == ((Seed \cup heard) \ task[t].asked) \ {ours[task[t].client]}

\* A round: everybody known who was not asked yet, but not ourselves.
Plan(t, n) ==
  IF Targets(t) = {} THEN Judge(t)
  ELSE /\ Become(t, [task[t] EXCEPT !.stage = "probe", !.round = n, !.todo = Targets(t)])
       /\ UNCHANGED <<linkVars, discovered, proof>>

\* The broadcast was sent, or was not, and the gap is over.
BroadcastReturns(t) ==
  /\ Stage(t) = "broadcast"
  /\ Plan(t, 1)
  /\ UNCHANGED <<heard, busOurs, levels, misses, spoke, silent>>

\* One address was asked; the sweep goes on whether it answered or not.
ProbeReturns(t, addr, ok) ==
  /\ Stage(t) = "probe" /\ addr \in task[t].todo
  /\ ok => Up(t)
  /\ Become(t, [task[t] EXCEPT !.todo = @ \ {addr}, !.asked = @ \cup {addr}, !.acked = @ \/ ok,
                               !.stage = IF task[t].todo = {addr} THEN "settle" ELSE "probe"])
  /\ proof' = IF t = Loop THEN [proof EXCEPT !.acked = @ \/ ok, !.asked = @ \cup {addr}] ELSE proof
  /\ UNCHANGED <<linkVars, busVars, silent>>

\* 3 s for late answers after each round.
Settles(t) ==
  /\ Stage(t) = "settle"
  /\ IF task[t].round = 1 THEN Plan(t, 2) ELSE Judge(t)
  /\ UNCHANGED <<heard, busOurs, levels, misses, spoke, silent>>

-----------------------------------------------------------------------------
(* request_measurements *)

\* Mutant: a sensor that was given up stays so, whatever it says.
GivenUpForGood(addr) == misses[addr] >= GivesUp

GivenUp(addr) == misses[addr] >= GivesUp /\ ~spoke[addr]

PassesOver(t, addr) ==
  /\ Stage(t) = "measure" /\ addr \in task[t].todo /\ GivenUp(addr)
  /\ Become(t, [task[t] EXCEPT !.todo = @ \ {addr}])
  /\ UNCHANGED <<linkVars, busVars, histVars>>

\* Mutant: a sensor that spoke is asked again, but its misses stand.
AsksKeepingTheCount(t, addr) ==
  /\ Stage(t) = "measure" /\ addr \in task[t].todo /\ ~GivenUp(addr)
  /\ Become(t, [task[t] EXCEPT !.stage = "asking", !.todo = @ \ {addr}, !.to = addr,
                               !.missed = IF misses[addr] < GivesUp THEN misses[addr] ELSE 0])
  /\ UNCHANGED <<linkVars, busVars, histVars>>

\* A sensor that has said anything since its last miss begins afresh.
Asks(t, addr) ==
  /\ Stage(t) = "measure" /\ addr \in task[t].todo /\ ~GivenUp(addr)
  /\ Become(t, [task[t] EXCEPT !.stage = "asking", !.todo = @ \ {addr}, !.to = addr,
                               !.missed = IF spoke[addr] THEN 0 ELSE misses[addr]])
  /\ misses' = IF spoke[addr] THEN [misses EXCEPT ![addr] = 0] ELSE misses
  /\ spoke' = [spoke EXCEPT ![addr] = FALSE]
  /\ UNCHANGED <<linkVars, heard, busOurs, levels, discovered, histVars>>

\* The request was acknowledged: its count is forgotten.
Answered(t) ==
  /\ Stage(t) = "asking" /\ Up(t)
  /\ Become(t, [task[t] EXCEPT !.stage = "measure", !.to = Nobody, !.missed = 0])
  /\ misses' = [misses EXCEPT ![task[t].to] = 0] /\ spoke' = [spoke EXCEPT ![task[t].to] = FALSE]
  /\ UNCHANGED <<linkVars, heard, busOurs, levels, discovered, histVars>>

Smaller(m, n) == IF m < n THEN m ELSE n

\* Mutant: one more than there are now, not than there were when it was asked.
UnansweredOnTop(t) ==
  /\ Stage(t) = "asking"
  /\ Become(t, [task[t] EXCEPT !.stage = "measure", !.to = Nobody, !.missed = 0])
  /\ misses' = [misses EXCEPT ![task[t].to] = @ + 1]
  /\ spoke' = [spoke EXCEPT ![task[t].to] = FALSE]
  /\ silent' = [silent EXCEPT ![task[t].to] = Smaller(@ + 1, GivesUp)]
  /\ UNCHANGED <<linkVars, heard, busOurs, levels, discovered, proof>>

\* It was not: one more than there were when it was asked, and whatever the
\* device has said meanwhile counts as said before.
Unanswered(t) ==
  /\ Stage(t) = "asking"
  /\ Become(t, [task[t] EXCEPT !.stage = "measure", !.to = Nobody, !.missed = 0])
  /\ misses' = [misses EXCEPT ![task[t].to] = task[t].missed + 1]
  /\ spoke' = [spoke EXCEPT ![task[t].to] = FALSE]
  /\ silent' = [silent EXCEPT ![task[t].to] = Smaller(@ + 1, GivesUp)]
  /\ UNCHANGED <<linkVars, heard, busOurs, levels, discovered, proof>>

\* Everybody was asked.  The session task announces the session, or goes on
\* holding the link; a refresh is done.
Measured(t) ==
  /\ Stage(t) = "measure" /\ task[t].todo = {}
  /\ IF t = Loop
       THEN Goto(Loop, "open") /\ announced' = TRUE /\ proof' = NoProof
            /\ busOurs' = IF announced THEN busOurs ELSE ours[session]
       ELSE Become(t, Idle) /\ UNCHANGED <<announced, busOurs, proof>>
  /\ UNCHANGED <<up, session, ours, registered, heard, levels, misses, spoke, discovered, silent>>

-----------------------------------------------------------------------------
(* The open session, refreshes, the radio *)

\* A minute since the last measurement.
MeasureDue ==
  /\ Stage(Loop) = "open"
  /\ Become(Loop, Measure(session))
  /\ UNCHANGED <<linkVars, busVars, histVars>>

\* The poll is over, the link is dead, the startup timed out, or the task is
\* cancelled.
SessionEnds ==
  /\ Stage(Loop) # "idle"
  /\ HangUp
  /\ UNCHANGED <<busVars, silent>>

\* _request_manual_session finds an open link.
RefreshBegins(r) ==
  /\ Stage(r) = "idle" /\ up /\ announced
  /\ Become(r, Search(session))
  /\ UNCHANGED <<linkVars, busVars, histVars>>

\* A request in flight is given up without being counted.
RefreshCancelled(r) ==
  /\ Stage(r) # "idle" /\ Become(r, Idle)
  /\ UNCHANGED <<linkVars, busVars, histVars>>

BeforeRoundTwo == Stage(Loop) \in Starting \cup {"broadcast"}
                    \/ (Stage(Loop) \in {"probe", "settle"} /\ task[Loop].round = 1)

BeingAsked(addr) == \E t \in Tasks : Stage(t) = "asking" /\ task[t].to = addr

\* A frame from a device, with a level in it or not.  What comes with our own
\* address as its source is from nobody.
Speaks(addr, level) ==
  /\ up /\ addr # busOurs
  /\ heard' = heard \cup {addr}
  /\ levels' = IF level THEN levels \cup {addr} ELSE levels
  /\ spoke' = IF misses[addr] > 0 THEN [spoke EXCEPT ![addr] = TRUE] ELSE spoke
  /\ proof' = IF BeforeRoundTwo THEN [proof EXCEPT !.early = @ \cup {addr}] ELSE proof
  /\ silent' = IF BeingAsked(addr) THEN silent ELSE [silent EXCEPT ![addr] = 0]
  /\ UNCHANGED <<task, linkVars, busOurs, misses, discovered>>

\* Also a transport that gives up its session over a reply of its own; what may
\* still arrive over its link until it is closed is left out.
LinkDrops ==
  /\ up /\ up' = FALSE
  /\ UNCHANGED <<task, session, ours, registered, announced, busVars, histVars>>

Discovers(t) ==
  \/ BroadcastReturns(t) \/ Settles(t)
  \/ \E addr \in Address, ok \in BOOLEAN : ProbeReturns(t, addr, ok)

Measures(t) ==
  \/ \E addr \in Address : PassesOver(t, addr) \/ Asks(t, addr)
  \/ Answered(t) \/ Unanswered(t) \/ Measured(t)

Advances ==
  \/ RegisterReturns \/ Registers \/ NoAddress \/ Introduced
  \/ Discovers(Loop) \/ Measures(Loop) \/ MeasureDue

Next ==
  \/ Connect \/ Advances \/ IntroductionBreaks \/ SessionEnds
  \/ \E addr \in Assignable \cup {Nobody} : Assigns(addr)
  \/ \E r \in Refreshes : RefreshBegins(r) \/ RefreshCancelled(r) \/ Discovers(r) \/ Measures(r)
  \/ \E addr \in Address, level \in BOOLEAN : Speaks(addr, level)
  \/ LinkDrops

Spec == Init /\ [][Next]_vars

\* Every wait of the session task has a timer.
FairSpec == Spec /\ WF_vars(Advances)

-----------------------------------------------------------------------------
(* Safety *)

\* discover_params, 237-262: a session is reported as working only if the panel
\* has answered in it, to the registration and to a directed question -- also
\* if its transport broke in between, unnoticed by the startup -- and only
\* after everybody who had spoken by the second round was asked.
AnnouncedMeansAnswered ==
  [][~announced /\ announced' =>
       /\ proof.assigned /\ proof.acked
       /\ ((Seed \cup proof.early) \ {ours[session]}) \subseteq proof.asked]_vars

\* request_measurements: a sensor is not counted as silent more often than it
\* has left requests unanswered since it last spoke of its own accord, however
\* many tasks ask it at once.
SilenceIsCounted ==
  \A addr \in Address : misses[addr] <= silent[addr] \/ spoke[addr]

-----------------------------------------------------------------------------
(* Liveness *)

\* A startup comes to its end, well or badly, whoever stays silent.
StartupEnds == Stage(Loop) = "register" ~> Stage(Loop) \in {"open", "idle"}

\* "One that is still publishing anything at all is asked again": a sensor that
\* was given up and speaks, while nobody waits for its answer, is asked again
\* as long as the session lasts.
NotGivenUpForGood ==
  \A addr \in Address :
    (announced /\ addr \in levels /\ misses[addr] = GivesUp /\ spoke[addr] /\ ~BeingAsked(addr))
      ~> (misses[addr] = 0 \/ ~announced)
=============================================================================
