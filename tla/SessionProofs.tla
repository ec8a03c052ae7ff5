------------------------------ MODULE SessionProofs ------------------------------
(***************************************************************************)
(* Theorems about the sessions, for any number of sessions, refreshes and  *)
(* addresses, and any number of misses before a sensor is given up.        *)
(***************************************************************************)
EXTENDS Session, TLAPS

\* Visible in every proof: the sets and abbreviations without content.
USE DEF Tasks, Stages, Starting, Stage, linkVars, busVars, histVars

-----------------------------------------------------------------------------
(* Type correctness *)

\* The form in which the SMT backend relates a flag to an assignment.
Flag(x) == x = TRUE \/ x = FALSE

\* The locals of a task, when there have been n sessions.
Locals(n) == [stage : Stages, client : 0 .. n, round : {1, 2},
              todo : SUBSET Address, asked : SUBSET Address, acked : BOOLEAN,
              to : Address \cup {Nobody}, missed : 0 .. GivesUp]

\* They fit the stage: a task in a session has its client, and an open request
\* has an address.
Proper(r, n) ==
  /\ r \in Locals(n)
  /\ r.stage = "asking" => r.to \in Address /\ r.missed < GivesUp
  /\ r.stage # "idle" => r.client \in 1 .. n

TaskInv ==
  /\ task \in [Tasks -> Locals(session)]
  /\ \A t \in Tasks : Proper(task[t], session)

LinkInv ==
  /\ Flag(up) /\ session \in 0 .. MaxSessions
  /\ ours \in [1 .. MaxSessions -> Assignable \cup {Nobody}]
  /\ Flag(registered) /\ Flag(announced)
  /\ up = TRUE => session # 0

BusInv ==
  /\ heard \subseteq Address /\ busOurs \in Assignable \cup {Nobody} /\ levels \subseteq heard
  /\ misses \in [Address -> 0 .. GivesUp] /\ spoke \in [Address -> BOOLEAN]
  /\ Flag(discovered)

Proofs == [assigned : BOOLEAN, acked : BOOLEAN, asked : SUBSET Address, early : SUBSET Address]

HistInv ==
  /\ proof \in Proofs
  /\ silent \in [Address -> 0 .. GivesUp]

TypeInv == TaskInv /\ LinkInv /\ BusInv /\ HistInv

\* The form the proofs carry gives the invariant the model states.
LEMMA TypeInvGivesTypeOK == TypeInv => TypeOK
  BY Zenon DEF TypeInv, TaskInv, LinkInv, BusInv, HistInv, TypeOK, Flag, Locals, Proper, Proofs

\* A task takes up other locals, in the same or a new session.
LEMMA BecomeTypes ==
  ASSUME TaskInv, session \in Nat, session' \in Nat, session <= session',
         NEW t \in Tasks, NEW r, Proper(r, session'), Become(t, r)
  PROVE  TaskInv'
<1>1. \A u \in Tasks : Proper(task[u], session')
  BY DEF TaskInv, Proper, Locals
<1>2. task' = [task EXCEPT ![t] = r] /\ task \in [Tasks -> Locals(session)]
  BY DEF Become, TaskInv
<1>3. \A u \in Tasks : task'[u] = IF u = t THEN r ELSE task[u]
  BY <1>2
<1>4. \A u \in Tasks : Proper(task'[u], session')
  BY <1>1, <1>3
<1>5. \A u \in Tasks : task'[u] \in Locals(session')
  BY <1>4, Zenon DEF Proper
<1>6. task' \in [Tasks -> Locals(session')]
  BY <1>2, <1>5
<1> QED
  BY <1>4, <1>6 DEF TaskInv

\* Going to another stage is taking up the same locals with that stage.
LEMMA GotoBecomes ==
  ASSUME NEW t, NEW stage, Goto(t, stage)
  PROVE  Become(t, [task[t] EXCEPT !.stage = stage])
  BY DEF Goto, Become

\* A task at the start of something.
LEMMA AtProper ==
  ASSUME NEW n \in Nat, NEW stage \in Stages \ {"asking"}, NEW c \in 0 .. n, NEW todo \in SUBSET Address,
         stage = "idle" \/ c # 0
  PROVE  Proper(At(stage, c, todo), n)
<1>1. At(stage, c, todo) \in Locals(n)
  BY BoundsAssumption DEF At, Locals
<1> QED
  BY <1>1 DEF At, Proper

\* What a startup has seen, and nothing yet.
LEMMA NoProofTypes ==
  ASSUME NEW early \in SUBSET Address
  PROVE  NoProof \in Proofs /\ [NoProof EXCEPT !.early = early] \in Proofs
  BY DEF NoProof, Proofs

\* The session task's leaving keeps the types of what it changes.
LEMMA HangUpTypes == ASSUME TypeInv, HangUp PROVE TaskInv' /\ LinkInv' /\ proof' \in Proofs
<1>1. session \in Nat /\ session' = session
  BY BoundsAssumption DEF TypeInv, LinkInv, HangUp
<1>2. Proper(Idle, session') /\ Become(Loop, Idle)
  BY <1>1, AtProper DEF Idle, HangUp
<1>3. TaskInv'
  BY <1>1, <1>2, BecomeTypes DEF TypeInv
<1> QED
  BY <1>3, NoProofTypes DEF HangUp, TypeInv, LinkInv, Flag

\* A request is closed, with an answer or without one.
LEMMA ClosedProper ==
  ASSUME NEW n \in Nat, NEW r, Proper(r, n), r.stage = "asking"
  PROVE  r.to \in Address /\ Proper([r EXCEPT !.stage = "measure", !.to = Nobody, !.missed = 0], n)
<1> DEFINE none == 0
<1>1. none \in 0 .. GivesUp
  BY BoundsAssumption
<1>2. r \in Locals(n)
  BY DEF Proper
<1> HIDE DEF none
<1>3. [r EXCEPT !.stage = "measure", !.to = Nobody, !.missed = none] \in Locals(n)
  BY <1>1, <1>2 DEF Locals
<1>4. Proper([r EXCEPT !.stage = "measure", !.to = Nobody, !.missed = none], n)
  BY <1>2, <1>3 DEF Proper, Locals
<1> QED
  BY <1>4 DEF Proper, none

\* An address was asked.
LEMMA ProbedProper ==
  ASSUME NEW n \in Nat, NEW r, Proper(r, n), r.stage = "probe", NEW addr \in Address,
         NEW acked \in BOOLEAN, NEW stage \in {"settle", "probe"}
  PROVE  Proper([r EXCEPT !.todo = @ \ {addr}, !.asked = @ \cup {addr}, !.acked = acked,
                          !.stage = stage], n)
<1>1. r \in Locals(n)
  BY DEF Proper
<1>2. [r EXCEPT !.todo = @ \ {addr}, !.asked = @ \cup {addr}, !.acked = acked,
                !.stage = stage] \in Locals(n)
  BY <1>1 DEF Locals
<1> QED
  BY <1>1, <1>2 DEF Proper, Locals

\* The end of a discovery keeps the types of what it changes.
LEMMA JudgeTypes ==
  ASSUME TypeInv, NEW t \in Tasks, task[t].stage # "idle", Judge(t)
  PROVE  TaskInv' /\ LinkInv' /\ Flag(discovered)' /\ proof' \in Proofs
<1>1. session \in Nat /\ session' = session /\ task[t].client \in 1 .. session /\ levels \in SUBSET Address
  BY BoundsAssumption DEF TypeInv, TaskInv, Proper, LinkInv, BusInv, Judge, HangUp
<1>2. CASE task[t].asked # {} /\ ~task[t].acked /\ t = Loop
  BY <1>2, HangUpTypes DEF Judge, TypeInv, BusInv
<1>3. CASE task[t].asked # {} /\ ~task[t].acked /\ t # Loop
  <2>1. Proper(Idle, session')
    BY <1>1, AtProper DEF Idle
  <2>2. TaskInv'
    BY <1>1, <1>3, <2>1, BecomeTypes DEF Judge, TypeInv
  <2> QED
    BY <1>3, <2>2 DEF Judge, TypeInv, LinkInv, BusInv, HistInv, Flag
<1>4. CASE task[t].asked = {} \/ task[t].acked
  <2>1. Proper(Measure(task[t].client), session')
    BY <1>1, AtProper DEF Measure
  <2>2. TaskInv'
    BY <1>1, <1>4, <2>1, BecomeTypes DEF Judge, TypeInv
  <2> QED
    BY <1>4, <2>2 DEF Judge, TypeInv, LinkInv, BusInv, HistInv, Flag
<1> QED
  BY <1>2, <1>3, <1>4

\* So does planning a round.
LEMMA PlanTypes ==
  ASSUME TypeInv, NEW t \in Tasks, task[t].stage # "idle", NEW n \in {1, 2}, Plan(t, n)
  PROVE  TaskInv' /\ LinkInv' /\ Flag(discovered)' /\ proof' \in Proofs
<1>1. CASE Targets(t) = {}
  BY <1>1, JudgeTypes DEF Plan
<1>2. CASE Targets(t) # {}
  <2> DEFINE new == [task[t] EXCEPT !.stage = "probe", !.round = n, !.todo = Targets(t)]
  <2>1. session \in Nat /\ session' = session /\ Proper(task[t], session) /\ task[t] \in Locals(session)
    BY <1>2, BoundsAssumption DEF TypeInv, TaskInv, LinkInv, Plan
  <2>2. Targets(t) \in SUBSET Address
    BY SeedAssumption DEF Targets, TypeInv, BusInv
  <2>3. Proper(new, session')
    <3> HIDE DEF Targets
    <3>1. new \in Locals(session)
      BY <2>1, <2>2 DEF Locals
    <3> QED
      BY <3>1, <2>1 DEF Proper, Locals
  <2>4. TaskInv'
    BY <1>2, <2>1, <2>3, BecomeTypes DEF Plan, TypeInv
  <2> QED
    BY <1>2, <2>4 DEF Plan, TypeInv, LinkInv, BusInv, HistInv, Flag
<1> QED
  BY <1>1, <1>2

\* At the start nobody is in a session.
LEMMA TypeInit == Init => TypeInv
<1> SUFFICES ASSUME Init PROVE TypeInv
  OBVIOUS
<1>1. Idle \in Locals(0) /\ Proper(Idle, 0)
  BY BoundsAssumption DEF Idle, At, Locals, Proper
<1>2. TaskInv
  BY <1>1 DEF Init, TaskInv
<1> QED
  BY <1>2, BoundsAssumption DEF Init, NoProof, TypeInv, LinkInv, BusInv, HistInv, Proofs, Flag

\* Every step keeps the types.
LEMMA TypeStep == TypeInv /\ [Next]_vars => TypeInv'
<1> SUFFICES ASSUME TypeInv, [Next]_vars PROVE TypeInv'
  OBVIOUS
<1> USE BoundsAssumption
<1>s. session \in Nat /\ session \in 0 .. MaxSessions
  BY DEF TypeInv, LinkInv
<1>t. \A t \in Tasks : task[t] \in Locals(session) /\ Proper(task[t], session)
  BY DEF TypeInv, TaskInv
<1>l. levels \in SUBSET Address
  BY DEF TypeInv, BusInv
<1>1. CASE Connect
  <2>1. session' = session + 1 /\ session' \in 1 .. MaxSessions
    BY <1>1, <1>s DEF Connect
  <2>2. Proper(At("register", session + 1, {}), session')
    BY <2>1, <1>s, AtProper
  <2>3. TaskInv'
    BY <1>1, <1>s, <2>1, <2>2, BecomeTypes DEF Connect, TypeInv
  <2>4. proof' \in Proofs
    BY <1>1, NoProofTypes DEF Connect, TypeInv, BusInv
  <2> QED
    BY <1>1, <2>1, <2>3, <2>4 DEF Connect, TypeInv, LinkInv, BusInv, HistInv, Flag
<1>2. CASE RegisterReturns
  <2>1. Become(Loop, [task[Loop] EXCEPT !.stage = "await"])
    BY <1>2, GotoBecomes DEF RegisterReturns
  <2>2. Proper([task[Loop] EXCEPT !.stage = "await"], session')
    BY <1>2, <1>t DEF RegisterReturns, Proper, Locals
  <2>3. TaskInv'
    BY <1>2, <1>s, <2>1, <2>2, BecomeTypes DEF RegisterReturns, TypeInv
  <2> QED
    BY <1>2, <2>3 DEF RegisterReturns, SendsOrBreaks, TypeInv, LinkInv, BusInv, HistInv, Flag
<1>3. CASE Registers
  <2>1. Become(Loop, [task[Loop] EXCEPT !.stage = "introduce"])
    BY <1>3, GotoBecomes DEF Registers
  <2>2. Proper([task[Loop] EXCEPT !.stage = "introduce"], session')
    BY <1>3, <1>t DEF Registers, Proper, Locals
  <2>3. TaskInv'
    BY <1>3, <1>s, <2>1, <2>2, BecomeTypes DEF Registers, TypeInv
  <2> QED
    BY <1>3, <2>3 DEF Registers, TypeInv, LinkInv, BusInv, HistInv, Flag
<1>4. CASE NoAddress
  BY <1>4, HangUpTypes DEF NoAddress, TypeInv, BusInv, HistInv, Flag
<1>5. CASE SessionEnds
  BY <1>5, HangUpTypes DEF SessionEnds, TypeInv, BusInv, HistInv, Flag
<1>6. CASE IntroductionBreaks
  BY <1>6 DEF IntroductionBreaks, TypeInv, TaskInv, LinkInv, BusInv, HistInv, Flag
<1>7. CASE LinkDrops
  BY <1>7 DEF LinkDrops, TypeInv, TaskInv, LinkInv, BusInv, HistInv, Flag
<1>8. CASE Introduced
  <2>1. Proper(Search(session), session')
    BY <1>8, <1>s, <1>t, AtProper DEF Introduced, Search, Proper
  <2>2. TaskInv'
    BY <1>8, <1>s, <2>1, BecomeTypes DEF Introduced, TypeInv
  <2> QED
    BY <1>8, <2>2 DEF Introduced, TypeInv, LinkInv, BusInv, HistInv, Flag
<1>9. CASE MeasureDue
  <2>1. Proper(Measure(session), session')
    BY <1>9, <1>s, <1>t, <1>l, AtProper DEF MeasureDue, Measure, Proper
  <2>2. TaskInv'
    BY <1>9, <1>s, <2>1, BecomeTypes DEF MeasureDue, TypeInv
  <2> QED
    BY <1>9, <2>2 DEF MeasureDue, TypeInv, LinkInv, BusInv, HistInv, Flag
<1>10. ASSUME NEW addr \in Assignable \cup {Nobody}, Assigns(addr) PROVE TypeInv'
  BY <1>10 DEF Assigns, TypeInv, TaskInv, LinkInv, BusInv, HistInv, Proofs, Flag
<1>11. ASSUME NEW r \in Refreshes, RefreshBegins(r) PROVE TypeInv'
  <2>1. session # 0 /\ Proper(Search(session), session')
    BY <1>11, <1>s, AtProper DEF RefreshBegins, TypeInv, LinkInv, Search
  <2>2. TaskInv'
    BY <1>11, <1>s, <2>1, BecomeTypes DEF RefreshBegins, TypeInv
  <2> QED
    BY <1>11, <2>2 DEF RefreshBegins, TypeInv, LinkInv, BusInv, HistInv, Flag
<1>12. ASSUME NEW r \in Refreshes, RefreshCancelled(r) PROVE TypeInv'
  <2>1. Proper(Idle, session')
    BY <1>12, <1>s, AtProper DEF RefreshCancelled, Idle
  <2>2. TaskInv'
    BY <1>12, <1>s, <2>1, BecomeTypes DEF RefreshCancelled, TypeInv
  <2> QED
    BY <1>12, <2>2 DEF RefreshCancelled, TypeInv, LinkInv, BusInv, HistInv, Flag
<1>13. ASSUME NEW addr \in Address, NEW level \in BOOLEAN, Speaks(addr, level) PROVE TypeInv'
  <2>1. TaskInv' /\ LinkInv'
    BY <1>13 DEF Speaks, TypeInv, TaskInv, LinkInv, Flag
  <2>2. spoke' \in [Address -> BOOLEAN]
    BY <1>13 DEF Speaks, TypeInv, BusInv
  <2>3. proof' \in Proofs
    BY <1>13 DEF Speaks, TypeInv, HistInv, Proofs
  <2>4. silent' \in [Address -> 0 .. GivesUp]
    BY <1>13 DEF Speaks, TypeInv, HistInv
  <2> QED
    BY <1>13, <2>1, <2>2, <2>3, <2>4 DEF Speaks, TypeInv, BusInv, HistInv, Flag
<1>14. ASSUME NEW t \in Tasks, NEW addr \in Address, PassesOver(t, addr) PROVE TypeInv'
  <2>1. Proper([task[t] EXCEPT !.todo = @ \ {addr}], session')
    BY <1>14, <1>t DEF PassesOver, Proper, Locals
  <2>2. TaskInv'
    BY <1>14, <1>s, <2>1, BecomeTypes DEF PassesOver, TypeInv
  <2> QED
    BY <1>14, <2>2 DEF PassesOver, TypeInv, LinkInv, BusInv, HistInv, Flag
<1>15. ASSUME NEW t \in Tasks, NEW addr \in Address, Asks(t, addr) PROVE TypeInv'
  <2> DEFINE missed == IF spoke[addr] THEN 0 ELSE misses[addr]
             new == [task[t] EXCEPT !.stage = "asking", !.todo = @ \ {addr}, !.to = addr, !.missed = missed]
  <2>1. missed \in 0 .. GivesUp /\ missed < GivesUp
    BY <1>15 DEF Asks, GivenUp, TypeInv, BusInv
  <2>2. Proper(new, session')
    <3> HIDE DEF missed
    <3> QED
      BY <1>15, <1>t, <2>1 DEF Asks, Proper, Locals
  <2>3. TaskInv'
    BY <1>15, <1>s, <2>2, BecomeTypes DEF Asks, TypeInv
  <2> QED
    BY <1>15, <2>3 DEF Asks, TypeInv, LinkInv, BusInv, HistInv, Flag
<1>16. ASSUME NEW t \in Tasks, Answered(t) PROVE TypeInv'
  <2>1. task[t].to \in Address /\ Proper([task[t] EXCEPT !.stage = "measure", !.to = Nobody, !.missed = 0], session')
    BY <1>16, <1>s, <1>t, ClosedProper DEF Answered
  <2>2. TaskInv'
    BY <1>16, <1>s, <2>1, BecomeTypes DEF Answered, TypeInv
  <2> QED
    BY <1>16, <2>1, <2>2 DEF Answered, TypeInv, LinkInv, BusInv, HistInv, Flag
<1>17. ASSUME NEW t \in Tasks, Unanswered(t) PROVE TypeInv'
  <2>1. Proper([task[t] EXCEPT !.stage = "measure", !.to = Nobody, !.missed = 0], session')
    BY <1>17, <1>s, <1>t, ClosedProper DEF Unanswered
  <2>2. TaskInv'
    BY <1>17, <1>s, <2>1, BecomeTypes DEF Unanswered, TypeInv
  <2>3. task[t].to \in Address /\ task[t].missed \in Nat /\ task[t].missed < GivesUp
    BY <1>17, <1>t DEF Unanswered, Proper, Locals
  <2>4. misses' \in [Address -> 0 .. GivesUp] /\ silent' \in [Address -> 0 .. GivesUp]
    BY <1>17, <2>3 DEF Unanswered, Smaller, TypeInv, BusInv, HistInv
  <2> QED
    BY <1>17, <2>2, <2>4 DEF Unanswered, TypeInv, LinkInv, BusInv, HistInv, Flag
<1>18. ASSUME NEW t \in Tasks, Measured(t) PROVE TypeInv'
  <2>1. CASE t = Loop
    <3>1. Become(Loop, [task[Loop] EXCEPT !.stage = "open"])
      BY <1>18, <2>1, GotoBecomes DEF Measured
    <3>2. Proper([task[Loop] EXCEPT !.stage = "open"], session') /\ session \in 1 .. MaxSessions
      BY <1>18, <2>1, <1>s, <1>t DEF Measured, Proper, Locals
    <3>3. TaskInv'
      BY <1>18, <1>s, <3>1, <3>2, BecomeTypes DEF Measured, TypeInv
    <3> QED
      BY <1>18, <2>1, <3>2, <3>3, NoProofTypes DEF Measured, TypeInv, LinkInv, BusInv, HistInv, Flag
  <2>2. CASE t # Loop
    <3>1. Proper(Idle, session')
      BY <1>18, <1>s, AtProper DEF Measured, Idle
    <3>2. TaskInv'
      BY <1>18, <2>2, <1>s, <3>1, BecomeTypes DEF Measured, TypeInv
    <3> QED
      BY <1>18, <2>2, <3>2 DEF Measured, TypeInv, LinkInv, BusInv, HistInv, Flag
  <2> QED
    BY <2>1, <2>2
<1>19. ASSUME NEW t \in Tasks, BroadcastReturns(t) PROVE TypeInv'
  BY <1>19, PlanTypes DEF BroadcastReturns, TypeInv, BusInv, HistInv, Flag
<1>20. ASSUME NEW t \in Tasks, Settles(t) PROVE TypeInv'
  BY <1>20, PlanTypes, JudgeTypes DEF Settles, TypeInv, BusInv, HistInv, Flag
<1>21. ASSUME NEW t \in Tasks, NEW addr \in Address, NEW ok \in BOOLEAN, ProbeReturns(t, addr, ok) PROVE TypeInv'
  <2> DEFINE stage == IF task[t].todo = {addr} THEN "settle" ELSE "probe"
             acked == task[t].acked \/ ok
             new == [task[t] EXCEPT !.todo = @ \ {addr}, !.asked = @ \cup {addr}, !.acked = acked, !.stage = stage]
  <2>1. stage \in {"settle", "probe"}
    OBVIOUS
  <2>2. acked \in BOOLEAN
    BY Zenon
  <2>3. Proper(new, session')
    <3>1. session' = session /\ task[t].stage = "probe"
      BY <1>21 DEF ProbeReturns
    <3> QED
      BY <1>s, <1>t, <2>1, <2>2, <3>1, ProbedProper
  <2>4. TaskInv'
    BY <1>21, <1>s, <2>3, BecomeTypes DEF ProbeReturns, TypeInv
  <2>5. proof' \in Proofs
    BY <1>21, Zenon DEF ProbeReturns, TypeInv, HistInv, Proofs
  <2> QED
    BY <1>21, <2>4, <2>5 DEF ProbeReturns, TypeInv, LinkInv, BusInv, HistInv, Flag
<1>22. CASE UNCHANGED vars
  BY <1>22 DEF vars, TypeInv, TaskInv, LinkInv, BusInv, HistInv, Flag
<1> QED
  BY <1>1, <1>2, <1>3, <1>4, <1>5, <1>6, <1>7, <1>8, <1>9, <1>10, <1>11, <1>12, <1>13, <1>14, <1>15,
     <1>16, <1>17, <1>18, <1>19, <1>20, <1>21, <1>22 DEF Next, Advances, Discovers, Measures

\* A task is where its locals fit, in a session there was; sensors are only
\* counted up to the limit, and nobody but addresses of the bus is asked.
THEOREM TypeCorrect == Spec => []TypeOK
  BY TypeInit, TypeStep, TypeInvGivesTypeOK, PTL DEF Spec

-----------------------------------------------------------------------------
(* Misses *)

\* A task that waits for an answer does not know of more misses than there were
\* since the sensor last spoke of its own accord.
MissInv ==
  /\ SilenceIsCounted
  /\ \A t \in Tasks : task[t].stage = "asking" => task[t].missed <= silent[task[t].to]

\* At the start nothing has been missed.
LEMMA MissInit == Init => MissInv
  BY DEF Init, MissInv, SilenceIsCounted, Idle, At

\* A step that asks nobody, counts nothing and hears nothing.
Uncounted ==
  /\ UNCHANGED <<misses, spoke, silent>>
  /\ \A t \in Tasks : task'[t].stage = "asking" =>
       task[t].stage = "asking" /\ task'[t].missed = task[t].missed /\ task'[t].to = task[t].to

\* Such a step keeps the counts in order.
LEMMA UncountedKeeps == MissInv /\ Uncounted => MissInv'
  BY DEF Uncounted, MissInv, SilenceIsCounted

\* A task that does anything but ask is not counted.
LEMMA BecomeUncounted ==
  ASSUME TypeInv, NEW t \in Tasks, NEW r, Become(t, r), r.stage # "asking",
         UNCHANGED <<misses, spoke, silent>>
  PROVE  Uncounted
  BY DEF Become, Uncounted, TypeInv, TaskInv

\* Neither is one that plans a round or ends its discovery.
LEMMA PlanUncounted ==
  ASSUME TypeInv, NEW t \in Tasks, Judge(t) \/ (\E n \in {1, 2} : Plan(t, n)),
         UNCHANGED <<misses, spoke, silent>>
  PROVE  Uncounted
<1>1. ASSUME Judge(t) PROVE Uncounted
  BY <1>1, BecomeUncounted DEF Judge, HangUp, Measure, Idle, At
<1>2. ASSUME NEW n \in {1, 2}, Plan(t, n), Targets(t) # {} PROVE Uncounted
  <2>1. task[t] \in Locals(session)
    BY DEF TypeInv, TaskInv
  <2> DEFINE new == [task[t] EXCEPT !.stage = "probe", !.round = n, !.todo = Targets(t)]
  <2>2. Become(t, new) /\ new.stage = "probe"
    BY <1>2, <2>1 DEF Plan, Locals
  <2> QED
    BY <2>2, BecomeUncounted
<1> QED
  BY <1>1, <1>2 DEF Plan

\* Every step counts as it should.
LEMMA MissStep == TypeInv /\ MissInv /\ [Next]_vars => MissInv'
<1> SUFFICES ASSUME TypeInv, MissInv, [Next]_vars PROVE MissInv'
  OBVIOUS
<1>t. \A t \in Tasks : task[t] \in Locals(session) /\ Proper(task[t], session)
  BY DEF TypeInv, TaskInv
<1>b. task \in [Tasks -> Locals(session)] /\ misses \in [Address -> 0 .. GivesUp]
      /\ spoke \in [Address -> BOOLEAN] /\ silent \in [Address -> 0 .. GivesUp]
  BY DEF TypeInv, TaskInv, BusInv, HistInv
<1>1. CASE Connect \/ NoAddress \/ SessionEnds \/ Introduced \/ MeasureDue
  <2>1. \E r : Become(Loop, r) /\ r.stage # "asking"
    BY <1>1 DEF Connect, NoAddress, SessionEnds, HangUp, Introduced, MeasureDue, Search, Measure, Idle, At
  <2>2. UNCHANGED <<misses, spoke, silent>>
    BY <1>1 DEF Connect, NoAddress, SessionEnds, HangUp, Introduced, MeasureDue
  <2> QED
    BY <2>1, <2>2, BecomeUncounted, UncountedKeeps
<1>2. CASE RegisterReturns \/ Registers
  <2>1. \E r : Become(Loop, r) /\ r.stage # "asking"
    <3>1. \E stage \in {"await", "introduce"} : Goto(Loop, stage)
      BY <1>2 DEF RegisterReturns, Registers
    <3>2. \A stage \in {"await", "introduce"} : [task[Loop] EXCEPT !.stage = stage].stage = stage
      BY <1>t DEF Locals
    <3> QED
      BY <3>1, <3>2, GotoBecomes
  <2>2. UNCHANGED <<misses, spoke, silent>>
    BY <1>2 DEF RegisterReturns, Registers
  <2> QED
    BY <2>1, <2>2, BecomeUncounted, UncountedKeeps
<1>3. CASE IntroductionBreaks \/ LinkDrops \/ (\E addr \in Assignable \cup {Nobody} : Assigns(addr))
  BY <1>3, UncountedKeeps DEF IntroductionBreaks, LinkDrops, Assigns, Uncounted
<1>4. ASSUME NEW r \in Refreshes, RefreshBegins(r) \/ RefreshCancelled(r) PROVE MissInv'
  <2>1. \E new : Become(r, new) /\ new.stage # "asking"
    BY <1>4 DEF RefreshBegins, RefreshCancelled, Search, Idle, At
  <2>2. UNCHANGED <<misses, spoke, silent>>
    BY <1>4 DEF RefreshBegins, RefreshCancelled
  <2> QED
    BY <2>1, <2>2, BecomeUncounted, UncountedKeeps
<1>5. ASSUME NEW t \in Tasks, BroadcastReturns(t) \/ Settles(t) PROVE MissInv'
  BY <1>5, PlanUncounted, UncountedKeeps DEF BroadcastReturns, Settles
<1>6. ASSUME NEW t \in Tasks, NEW addr \in Address, NEW ok \in BOOLEAN, ProbeReturns(t, addr, ok)
      PROVE  MissInv'
  <2> DEFINE stage == IF task[t].todo = {addr} THEN "settle" ELSE "probe"
             new == [task[t] EXCEPT !.todo = @ \ {addr}, !.asked = @ \cup {addr},
                                    !.acked = @ \/ ok, !.stage = stage]
  <2>1. new.stage = stage
    BY <1>t DEF Locals
  <2>2. Become(t, new) /\ new.stage # "asking" /\ UNCHANGED <<misses, spoke, silent>>
    BY <1>6, <2>1 DEF ProbeReturns
  <2> QED
    BY <2>2, BecomeUncounted, UncountedKeeps
<1>7. ASSUME NEW t \in Tasks, NEW addr \in Address, PassesOver(t, addr) PROVE MissInv'
  <2> DEFINE new == [task[t] EXCEPT !.todo = @ \ {addr}]
  <2>1. Become(t, new) /\ new.stage # "asking" /\ UNCHANGED <<misses, spoke, silent>>
    BY <1>7, <1>t DEF PassesOver, Locals
  <2> QED
    BY <2>1, BecomeUncounted, UncountedKeeps
<1>8. ASSUME NEW t \in Tasks, NEW addr \in Address, Asks(t, addr) PROVE MissInv'
  <2>1. \A u \in Tasks \ {t} : task'[u] = task[u]
    BY <1>8, <1>b DEF Asks, Become
  <2>2. task'[t].to = addr /\ task'[t].missed = IF spoke[addr] THEN 0 ELSE misses[addr]
    BY <1>8, <1>b, <1>t DEF Asks, Become, Locals
  <2>3. SilenceIsCounted'
    BY <1>8, <1>b DEF Asks, MissInv, SilenceIsCounted
  <2>4. task'[t].missed <= silent'[addr]
    BY <1>8, <1>b, <2>2 DEF Asks, MissInv, SilenceIsCounted
  <2>5. \A u \in Tasks : task'[u].stage = "asking" => task'[u].missed <= silent'[task'[u].to]
    BY <1>8, <2>1, <2>2, <2>4 DEF Asks, MissInv
  <2> QED
    BY <2>3, <2>5 DEF MissInv
<1>9. ASSUME NEW t \in Tasks, Answered(t) PROVE MissInv'
  <2>1. task[t].to \in Address /\ task'[t].stage = "measure"
    BY <1>9, <1>b, <1>t DEF Answered, Become, Proper, Locals
  <2>2. \A u \in Tasks \ {t} : task'[u] = task[u]
    BY <1>9, <1>b DEF Answered, Become
  <2>3. SilenceIsCounted'
    BY <1>9, <1>b, <2>1 DEF Answered, MissInv, SilenceIsCounted
  <2> QED
    BY <1>9, <2>1, <2>2, <2>3 DEF Answered, MissInv
<1>10. ASSUME NEW t \in Tasks, Unanswered(t) PROVE MissInv'
  <2> DEFINE addr == task[t].to
  <2>1. addr \in Address /\ task'[t].stage = "measure" /\ task[t].missed \in Nat
        /\ task[t].missed < GivesUp /\ task[t].missed <= silent[addr]
    BY <1>10, <1>b, <1>t DEF Unanswered, Become, Proper, Locals, MissInv
  <2>2. \A u \in Tasks \ {t} : task'[u] = task[u]
    BY <1>10, <1>b DEF Unanswered, Become
  <2>3. \A a \in Address : silent'[a] >= silent[a]
    BY <1>10, <1>b, <2>1, BoundsAssumption DEF Unanswered, Smaller
  <2>4. misses'[addr] <= silent'[addr]
    BY <1>10, <1>b, <2>1, BoundsAssumption DEF Unanswered, Smaller
  <2>5. \A a \in Address \ {addr} : misses'[a] = misses[a] /\ spoke'[a] = spoke[a] /\ silent'[a] = silent[a]
    BY <1>10, <1>b DEF Unanswered
  <2>6. SilenceIsCounted'
    BY <2>4, <2>5 DEF MissInv, SilenceIsCounted
  <2>7. \A u \in Tasks : task'[u].stage = "asking" => task'[u].missed <= silent'[task'[u].to]
    <3> SUFFICES ASSUME NEW u \in Tasks, task'[u].stage = "asking"
                 PROVE  task'[u].missed <= silent'[task'[u].to]
      OBVIOUS
    <3>1. task'[u] = task[u] /\ task[u].stage = "asking"
      BY <2>1, <2>2
    <3>2. task[u].to \in Address /\ task[u].missed \in Nat /\ task[u].missed <= silent[task[u].to]
      BY <3>1, <1>t, BoundsAssumption DEF Proper, Locals, MissInv
    <3> QED
      BY <3>1, <3>2, <2>3, <1>b, <1>10, BoundsAssumption DEF Unanswered, Smaller
  <2> QED
    BY <2>6, <2>7 DEF MissInv
<1>11. ASSUME NEW t \in Tasks, Measured(t) PROVE MissInv'
  <2>1. \E r : Become(t, r) /\ r.stage # "asking"
    <3>1. CASE t = Loop
      <4>1. Become(Loop, [task[Loop] EXCEPT !.stage = "open"])
        BY <1>11, <3>1, GotoBecomes DEF Measured
      <4>2. [task[Loop] EXCEPT !.stage = "open"].stage = "open"
        BY <1>t DEF Locals
      <4> QED
        BY <3>1, <4>1, <4>2
    <3>2. CASE t # Loop
      BY <1>11, <3>2 DEF Measured, Idle, At
    <3> QED
      BY <3>1, <3>2
  <2>2. UNCHANGED <<misses, spoke, silent>>
    BY <1>11 DEF Measured
  <2> QED
    BY <2>1, <2>2, BecomeUncounted, UncountedKeeps
<1>12. ASSUME NEW addr \in Address, NEW level \in BOOLEAN, Speaks(addr, level) PROVE MissInv'
  <2>1. SilenceIsCounted'
    BY <1>12, <1>b DEF Speaks, MissInv, SilenceIsCounted
  <2>2. \A t \in Tasks : task[t].stage = "asking" => silent'[task[t].to] = silent[task[t].to]
    BY <1>12, <1>b, <1>t DEF Speaks, BeingAsked, Proper
  <2> QED
    BY <1>12, <2>1, <2>2 DEF Speaks, MissInv
<1>13. CASE UNCHANGED vars
  BY <1>13 DEF vars, MissInv, SilenceIsCounted
<1> QED
  BY <1>1, <1>2, <1>3, <1>4, <1>5, <1>6, <1>7, <1>8, <1>9, <1>10, <1>11, <1>12, <1>13
     DEF Next, Advances, Discovers, Measures

\* request_measurements: however many tasks ask a sensor at once, it is not
\* counted as silent more often than it left requests unanswered.
THEOREM MissesAreReal == Spec => []SilenceIsCounted
<1>1. TypeInv /\ MissInv /\ [Next]_vars => TypeInv' /\ MissInv'
  BY TypeStep, MissStep
<1>2. MissInv => SilenceIsCounted
  BY DEF MissInv
<1> QED
  BY TypeInit, MissInit, <1>1, <1>2, PTL DEF Spec

-----------------------------------------------------------------------------
(* What an announced session has proved *)

Searching == {"broadcast", "probe", "settle"}

\* Everybody who had spoken by the second round, but ourselves.
ToAsk == (Seed \cup proof.early) \ {ours[session]}

\* What the startup has seen, at each of its stages.
AnswerInv ==
  /\ proof.early \subseteq heard
  /\ Stage(Loop) # "idle" => task[Loop].client = session /\ session \in 1 .. MaxSessions
  /\ announced = TRUE => Stage(Loop) \in {"open", "measure", "asking"}
  /\ Stage(Loop) = "open" => announced = TRUE
  /\ registered = TRUE /\ Stage(Loop) \in {"register", "await"} => proof.assigned = TRUE
  /\ Stage(Loop) \in {"introduce"} \cup Searching => proof.assigned = TRUE
  /\ Stage(Loop) \in Searching =>
       /\ task[Loop].acked = TRUE => proof.acked = TRUE
       /\ task[Loop].asked \subseteq proof.asked
  /\ Stage(Loop) = "settle" => task[Loop].todo = {}
  /\ Stage(Loop) \in {"probe", "settle"} /\ task[Loop].round = 2 =>
       ToAsk \subseteq task[Loop].asked \cup task[Loop].todo
  /\ Stage(Loop) \in {"measure", "asking"} /\ announced = FALSE =>
       proof.assigned = TRUE /\ proof.acked = TRUE /\ ToAsk \subseteq proof.asked

\* At the start nothing has been seen.
LEMMA AnswerInit == Init => AnswerInv
  BY TasksAssumption DEF Init, AnswerInv, Idle, At, NoProof, Searching

\* A step that leaves the startup alone, but in which a device may be heard.
Aside ==
  /\ task'[Loop] = task[Loop]
  /\ UNCHANGED <<session, ours, registered, announced, proof>>
  /\ heard \subseteq heard'

\* It changes nothing of what has been seen.
LEMMA AsideKeeps == AnswerInv /\ Aside => AnswerInv'
  BY DEF Aside, AnswerInv, ToAsk, Searching

\* What a refresh does is such a step.
LEMMA RefreshesStayAside ==
  ASSUME TypeInv, NEW t \in Refreshes,
         \/ RefreshBegins(t) \/ RefreshCancelled(t) \/ Discovers(t) \/ Measures(t)
  PROVE  Aside
<1>1. t # Loop /\ t \in Tasks
  BY TasksAssumption
<1>2. ASSUME NEW r, Become(t, r) PROVE task'[Loop] = task[Loop]
  BY <1>1, <1>2 DEF Become, TypeInv, TaskInv
<1>3. CASE RefreshBegins(t) \/ RefreshCancelled(t)
  BY <1>2, <1>3 DEF RefreshBegins, RefreshCancelled, Aside
<1>4. ASSUME Judge(t) PROVE task'[Loop] = task[Loop] /\ UNCHANGED <<linkVars, proof>>
  BY <1>1, <1>2, <1>4 DEF Judge
<1>5. ASSUME NEW n \in {1, 2}, Plan(t, n) PROVE task'[Loop] = task[Loop] /\ UNCHANGED <<linkVars, proof>>
  BY <1>2, <1>4, <1>5 DEF Plan
<1>6. CASE Discovers(t)
  <2>1. CASE BroadcastReturns(t) \/ Settles(t)
    BY <1>4, <1>5, <2>1 DEF BroadcastReturns, Settles, Aside
  <2>2. ASSUME NEW addr \in Address, NEW ok \in BOOLEAN, ProbeReturns(t, addr, ok) PROVE Aside
    BY <1>1, <1>2, <2>2 DEF ProbeReturns, Aside
  <2> QED
    BY <1>6, <2>1, <2>2 DEF Discovers
<1>7. CASE Measures(t)
  BY <1>1, <1>2, <1>7 DEF Measures, PassesOver, Asks, Answered, Unanswered, Measured, Aside
<1> QED
  BY <1>3, <1>6, <1>7

\* The session task outside a session has nothing to show.
LEMMA HangUpAnswers ==
  ASSUME TypeInv, AnswerInv, HangUp, heard' = heard
  PROVE  AnswerInv'
<1>1. task'[Loop] = At("idle", 0, {})
  BY DEF HangUp, Become, Idle, TypeInv, TaskInv
<1>2. announced' = FALSE /\ proof'.early = {} /\ session' = session
  BY DEF HangUp, NoProof
<1> QED
  BY <1>1, <1>2 DEF At, AnswerInv, Searching

\* A discovery that ends well has asked everybody, and somebody answered.
LEMMA JudgeAnswers ==
  ASSUME TypeInv, AnswerInv, Stage(Loop) \in Searching, ToAsk \subseteq task[Loop].asked,
         Judge(Loop), heard' = heard
  PROVE  AnswerInv'
<1>1. task[Loop].asked # {}
  <2>1. PICK panel \in Seed : panel \notin Assignable /\ panel # Nobody
    BY SeedAssumption, NobodyAssumption
  <2>2. ours[session] \in Assignable \cup {Nobody}
    BY DEF AnswerInv, Searching, TypeInv, LinkInv
  <2> QED
    BY <2>1, <2>2 DEF ToAsk
<1>2. CASE task[Loop].acked
  <2>1. task'[Loop] = Measure(session) /\ UNCHANGED <<linkVars, proof>>
    BY <1>2 DEF Judge, Become, AnswerInv, Searching, TypeInv, TaskInv
  <2>2. proof.acked = TRUE /\ ToAsk \subseteq proof.asked /\ proof.assigned = TRUE
    BY <1>2 DEF AnswerInv, Searching
  <2> QED
    BY <2>1, <2>2 DEF AnswerInv, ToAsk, Searching, Measure, At
<1>3. CASE ~task[Loop].acked
  BY <1>1, <1>3, HangUpAnswers DEF Judge
<1> QED
  BY <1>2, <1>3

\* Planning a round asks for everybody it should.
LEMMA PlanAnswers ==
  ASSUME TypeInv, AnswerInv, Stage(Loop) \in Searching, NEW n \in {1, 2}, Plan(Loop, n), heard' = heard
  PROVE  AnswerInv'
<1>1. ToAsk \subseteq task[Loop].asked \cup Targets(Loop)
  BY DEF ToAsk, Targets, AnswerInv, Searching
<1>2. CASE Targets(Loop) = {}
  BY <1>1, <1>2, JudgeAnswers DEF Plan
<1>3. CASE Targets(Loop) # {}
  <2> DEFINE new == [task[Loop] EXCEPT !.stage = "probe", !.round = n, !.todo = Targets(Loop)]
  <2>1. task[Loop] \in Locals(session) /\ task \in [Tasks -> Locals(session)]
    BY DEF TypeInv, TaskInv
  <2>2. task'[Loop] = new /\ UNCHANGED <<linkVars, proof>>
    BY <1>3, <2>1 DEF Plan, Become
  <2>3. /\ new.stage = "probe" /\ new.asked = task[Loop].asked /\ new.acked = task[Loop].acked
        /\ new.todo = Targets(Loop) /\ new.client = task[Loop].client
    BY <2>1 DEF Locals
  <2> HIDE DEF new
  <2> QED
    BY <1>1, <2>2, <2>3 DEF AnswerInv, ToAsk, Searching
<1> QED
  BY <1>2, <1>3

\* Every step keeps what the startup has seen.
LEMMA AnswerStep == TypeInv /\ AnswerInv /\ [Next]_vars => AnswerInv'
<1> SUFFICES ASSUME TypeInv, AnswerInv, [Next]_vars PROVE AnswerInv'
  OBVIOUS
<1>t. task \in [Tasks -> Locals(session)] /\ task[Loop] \in Locals(session) /\ session \in 0 .. MaxSessions
  BY DEF TypeInv, TaskInv, LinkInv
<1>g. ASSUME NEW stage, Goto(Loop, stage)
      PROVE  /\ task'[Loop].stage = stage /\ task'[Loop].client = task[Loop].client
             /\ task'[Loop].acked = task[Loop].acked /\ task'[Loop].asked = task[Loop].asked
  BY <1>g, <1>t DEF Goto, Locals
<1>1. CASE Connect
  <2>1. task'[Loop] = At("register", session + 1, {})
    BY <1>1, <1>t DEF Connect, Become
  <2>2. announced = FALSE
    BY <1>1 DEF Connect, AnswerInv, TypeInv, LinkInv, Flag
  <2>3. proof'.early = heard
    BY <1>1 DEF Connect, NoProof
  <2> QED
    BY <1>1, <1>t, <2>1, <2>2, <2>3, BoundsAssumption DEF Connect, At, AnswerInv, Searching
<1>2. CASE RegisterReturns
  BY <1>2, <1>g DEF RegisterReturns, SendsOrBreaks, AnswerInv, Searching
<1>3. CASE Registers
  BY <1>3, <1>g DEF Registers, AnswerInv, Searching
<1>4. CASE NoAddress \/ SessionEnds
  BY <1>4, HangUpAnswers DEF NoAddress, SessionEnds
<1>5. CASE IntroductionBreaks
  BY <1>5 DEF IntroductionBreaks, AnswerInv, Searching
<1>6. CASE Introduced
  <2>1. task'[Loop] = At("broadcast", session, {})
    BY <1>6, <1>t DEF Introduced, Become, Search
  <2> QED
    BY <1>6, <2>1 DEF Introduced, At, AnswerInv, Searching
<1>7. CASE MeasureDue
  <2>1. task'[Loop] = At("measure", session, levels)
    BY <1>7, <1>t DEF MeasureDue, Become, Measure
  <2> QED
    BY <1>7, <2>1 DEF MeasureDue, At, AnswerInv, Searching
<1>8. ASSUME NEW addr \in Assignable \cup {Nobody}, Assigns(addr) PROVE AnswerInv'
  BY <1>8 DEF Assigns, AnswerInv, Searching, TypeInv, HistInv, Proofs
<1>9. ASSUME NEW r \in Refreshes, RefreshBegins(r) \/ RefreshCancelled(r) \/ Discovers(r) \/ Measures(r)
      PROVE  AnswerInv'
  BY <1>9, RefreshesStayAside, AsideKeeps
<1>10. ASSUME NEW addr \in Address, NEW level \in BOOLEAN, Speaks(addr, level) PROVE AnswerInv'
  BY <1>10 DEF Speaks, BeforeRoundTwo, AnswerInv, ToAsk, Searching, TypeInv, HistInv, Proofs
<1>11. CASE LinkDrops
  BY <1>11, AsideKeeps DEF LinkDrops, Aside
<1>12. CASE BroadcastReturns(Loop)
  BY <1>12, PlanAnswers DEF BroadcastReturns, Searching
<1>13. CASE Settles(Loop)
  BY <1>13, <1>t, PlanAnswers, JudgeAnswers DEF Settles, Searching, AnswerInv, Locals
<1>14. ASSUME NEW addr \in Address, NEW ok \in BOOLEAN, ProbeReturns(Loop, addr, ok) PROVE AnswerInv'
  <2>1. /\ task'[Loop].stage = (IF task[Loop].todo = {addr} THEN "settle" ELSE "probe")
        /\ task'[Loop].todo = task[Loop].todo \ {addr}
        /\ task'[Loop].asked = task[Loop].asked \cup {addr}
        /\ task'[Loop].round = task[Loop].round /\ task'[Loop].client = task[Loop].client
    BY <1>14, <1>t DEF ProbeReturns, Become, Locals
  <2>2. /\ proof'.asked = proof.asked \cup {addr}
        /\ proof'.early = proof.early /\ proof'.assigned = proof.assigned
    BY <1>14 DEF ProbeReturns, TypeInv, HistInv, Proofs
  <2>3. task'[Loop].acked = TRUE => proof'.acked = TRUE
    <3>1. task'[Loop].acked = (task[Loop].acked \/ ok) /\ proof'.acked = (proof.acked \/ ok)
      BY <1>14, <1>t DEF ProbeReturns, Become, Locals, TypeInv, HistInv, Proofs
    <3>2. task[Loop].acked = TRUE => proof.acked = TRUE
      BY <1>14 DEF ProbeReturns, AnswerInv, Searching
    <3>3. task[Loop].acked \in BOOLEAN /\ proof.acked \in BOOLEAN
      BY <1>t DEF Locals, TypeInv, HistInv, Proofs
    <3> QED
      BY <3>1, <3>2, <3>3, Zenon
  <2>4. announced = FALSE
    BY <1>14 DEF ProbeReturns, AnswerInv, TypeInv, LinkInv, Flag
  <2> QED
    BY <1>14, <2>1, <2>2, <2>3, <2>4 DEF ProbeReturns, AnswerInv, ToAsk, Searching
<1>15. CASE Measures(Loop)
  <2>1. ASSUME NEW addr \in Address, PassesOver(Loop, addr) \/ Asks(Loop, addr) PROVE AnswerInv'
    <3>1. task'[Loop].stage \in {"measure", "asking"} /\ task'[Loop].client = task[Loop].client
      <4>1. CASE PassesOver(Loop, addr)
        BY <4>1, <1>t DEF PassesOver, Become, Locals
      <4>2. CASE Asks(Loop, addr)
        <5> DEFINE missed == IF spoke[addr] THEN 0 ELSE misses[addr]
                   new == [task[Loop] EXCEPT !.stage = "asking", !.todo = @ \ {addr}, !.to = addr,
                                             !.missed = missed]
        <5>1. task'[Loop] = new
          BY <4>2, <1>t DEF Asks, Become
        <5> HIDE DEF missed
        <5>2. new.stage = "asking" /\ new.client = task[Loop].client
          BY <1>t DEF Locals
        <5> QED
          BY <5>1, <5>2
      <4> QED
        BY <2>1, <4>1, <4>2
    <3> QED
      BY <2>1, <3>1 DEF PassesOver, Asks, AnswerInv, ToAsk, Searching
  <2>2. CASE Answered(Loop) \/ Unanswered(Loop)
    <3>1. task'[Loop].stage = "measure" /\ task'[Loop].client = task[Loop].client
      <4> DEFINE none == 0
                 new == [task[Loop] EXCEPT !.stage = "measure", !.to = Nobody, !.missed = none]
      <4>1. task'[Loop] = new
        BY <2>2, <1>t DEF Answered, Unanswered, Become
      <4> HIDE DEF none
      <4>2. new.stage = "measure" /\ new.client = task[Loop].client
        BY <1>t DEF Locals
      <4> QED
        BY <4>1, <4>2
    <3> QED
      BY <2>2, <3>1 DEF Answered, Unanswered, AnswerInv, ToAsk, Searching
  <2>3. CASE Measured(Loop)
    BY <2>3, <1>g DEF Measured, NoProof, AnswerInv, Searching
  <2> QED
    BY <1>15, <2>1, <2>2, <2>3 DEF Measures
<1>16. CASE UNCHANGED vars
  BY <1>16 DEF vars, AnswerInv, ToAsk, Searching
<1> QED
  BY <1>1, <1>2, <1>3, <1>4, <1>5, <1>6, <1>7, <1>8, <1>9, <1>10, <1>11, <1>12, <1>13, <1>14, <1>15, <1>16
     DEF Next, Advances, Discovers

\* discover_params: a session is reported as working only if the panel has
\* answered in it, at registration and in the discovery, and after everybody
\* heard by the second round was asked, whatever became of the link meanwhile.
THEOREM AnnouncedHaveAnswered == Spec => AnnouncedMeansAnswered
<1> DEFINE Answers == ~announced /\ announced' =>
                        /\ proof.assigned /\ proof.acked
                        /\ ((Seed \cup proof.early) \ {ours[session]}) \subseteq proof.asked
<1>1. TypeInv /\ AnswerInv /\ [Next]_vars => [Answers]_vars
  <2> SUFFICES ASSUME TypeInv, AnswerInv, Next, ~announced, announced' PROVE Answers
    OBVIOUS
  <2>1. Measured(Loop)
    BY Zenon DEF Next, Advances, Discovers, Measures, Connect, HangUp, RegisterReturns, Assigns, Registers, NoAddress,
       IntroductionBreaks, Introduced, Judge, Plan, BroadcastReturns, ProbeReturns, Settles, PassesOver, Asks,
       Answered, Unanswered, Measured, MeasureDue, SessionEnds, RefreshBegins, RefreshCancelled, Speaks, LinkDrops
  <2>2. announced = FALSE
    BY DEF TypeInv, LinkInv, Flag
  <2>3. proof.assigned = TRUE /\ proof.acked = TRUE /\ ToAsk \subseteq proof.asked
    BY <2>1, <2>2 DEF Measured, AnswerInv
  <2> QED
    BY <2>3 DEF ToAsk
<1>2. TypeInv /\ AnswerInv /\ [Next]_vars => TypeInv' /\ AnswerInv'
  BY TypeStep, AnswerStep
<1> QED
  BY TypeInit, AnswerInit, <1>1, <1>2, PTL DEF Spec, AnnouncedMeansAnswered
=============================================================================
