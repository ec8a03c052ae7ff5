-------------------------- MODULE ConfirmedWriteProofs --------------------------
(***************************************************************************)
(* The safety of confirmed writes for any commands, settings, attempts and *)
(* sessions.  What ties the verdict of a wait to the reports is Latest: in *)
(* every attempt the book of a command holds a satisfying report exactly   *)
(* while the latest report heard is one; what ties it to the bus is that a *)
(* report in any book is the last one the bus has seen (BookAgrees).       *)
(***************************************************************************)
EXTENDS ConfirmedWrite, TLAPS

Awaiting == {"send", "sent", "ask", "listen"}

BookAgrees == \A c \in Commands, s \in Settings : book[c][s] # None => book[c][s] = bus[s]

Blank == \A c \in Commands : ~Running(c) => book[c] = NoReports /\ heard[c] = "nothing"

PausedInTime == \A c \in Commands : pc[c] = "pause" => attempt[c] < Attempts

Latest ==
  \A c \in Commands : pc[c] \in Awaiting =>
    /\ heard[c] = "nothing" => Reported(c) = None
    /\ heard[c] = "other" => Reported(c) = None \/ ~Satisfied(Now(c), Reported(c))
    /\ heard[c] \in {"early", "wanted"} => Reported(c) # None /\ Satisfied(Now(c), Reported(c))

IInv == TypeOK /\ BookAgrees /\ Blank /\ PausedInTime /\ Latest

\* Every step of a script is a setting with a value, and there is a first one.
LEMMA ScriptStep ==
  ASSUME NEW c \in Commands
  PROVE  /\ Len(Script[c]) \in Nat \ {0} /\ 1 \in 1 .. Len(Script[c])
         /\ \A i \in 1 .. Len(Script[c]) : Script[c][i] \in Setting
<1>1. Script[c] \in Seq(Setting) /\ Script[c] # <<>>
  BY ScriptAssumption
<1>2. Len(Script[c]) # 0
  BY <1>1
<1> QED
  BY <1>1, <1>2

\* A command is always at one of its settings, and None is no value.
LEMMA CurrentSetting ==
  ASSUME TypeOK, NEW c \in Commands
  PROVE  /\ step[c] \in 1 .. Len(Script[c]) /\ Now(c) \in Setting /\ Now(c).setting \in Settings
         /\ Now(c).value \in Nat
BY ScriptStep DEF TypeOK, Now, Setting

\* The initial state satisfies the invariant.
LEMMA InitHolds == Init => IInv
<1> SUFFICES ASSUME Init PROVE IInv
  OBVIOUS
<1>1. TypeOK
  <2>1. bus \in [Settings -> Nat \cup {None}]
    <3>1. \A s \in Settings : Ranges[s] \subseteq Nat
      BY RangesAssumption
    <3>2. /\ bus \in [Settings -> UNION {Ranges[s] : s \in Settings} \cup {None}]
          /\ \A s \in Settings : bus[s] \in Ranges[s] \cup {None}
      BY DEF Init
    <3> QED
      BY <3>1, <3>2
  <2>2. 1 \in 1 .. Attempts /\ 1 \in 1 .. MaxSessions
    BY BoundsAssumption
  <2>3. book \in [Commands -> [Settings -> Nat \cup {None}]]
    BY DEF Init, NoReports
  <2>4. \A c \in Commands : step[c] = 1 /\ step[c] \in 1 .. Len(Script[c])
    BY ScriptStep DEF Init
  <2> QED
    BY <2>1, <2>2, <2>3, <2>4 DEF Init, TypeOK, Ended
<1>2. BookAgrees /\ Blank /\ PausedInTime /\ Latest
  BY DEF Init, BookAgrees, Blank, PausedInTime, Latest, NoReports, Awaiting
<1> QED
  BY <1>1, <1>2 DEF IInv

-----------------------------------------------------------------------------
(* Steps that several actions share *)

\* A command that returns leaves a blank book and disturbs no other command.
LEMMA LeaveKeeps ==
  ASSUME IInv, NEW c \in Commands, NEW verdict \in Ended, Leave(c, verdict),
         bus' = bus, session' = session, link' \in BOOLEAN
  PROVE  IInv'
<1> USE DEF IInv
<1>1. TypeOK'
  <2>1. 1 \in 1 .. Len(Script[c]) /\ 1 \in 1 .. Attempts /\ 0 \in 0 .. session
    BY ScriptStep, BoundsAssumption DEF TypeOK
  <2>2. NoReports \in [Settings -> Nat \cup {None}]
    BY DEF NoReports
  <2>3. book' \in [Commands -> [Settings -> Nat \cup {None}]]
    BY <2>2 DEF TypeOK, Leave
  <2>4. step' \in [Commands -> Nat] /\ \A d \in Commands : step'[d] \in 1 .. Len(Script[d])
    BY <2>1 DEF TypeOK, Leave
  <2>5. pc' \in [Commands -> {"idle", "send", "sent", "ask", "listen", "pause", "settle"} \cup Ended]
    BY DEF TypeOK, Leave, Goto
  <2>6. attempt' \in [Commands -> 1 .. Attempts] /\ client' \in [Commands -> 0 .. session']
    BY <2>1 DEF TypeOK, Leave
  <2>7. heard' \in [Commands -> {"nothing", "other", "early", "wanted"}]
    BY DEF TypeOK, Leave
  <2> QED
    BY <2>3, <2>4, <2>5, <2>6, <2>7 DEF TypeOK
<1>2. BookAgrees'
  BY DEF TypeOK, BookAgrees, Leave, NoReports
<1>3. Blank'
  BY DEF TypeOK, Blank, Leave, Goto, Ended, Running
<1>5. PausedInTime'
  BY DEF TypeOK, PausedInTime, Leave, Goto, Ended
<1>4. Latest'
  <2> SUFFICES ASSUME NEW d \in Commands, pc'[d] \in Awaiting
               PROVE  /\ pc[d] \in Awaiting /\ heard'[d] = heard[d]
                      /\ book'[d] = book[d] /\ step'[d] = step[d]
    BY DEF Latest, Reported, Now
  <2>1. d # c
    BY DEF TypeOK, Leave, Goto, Ended, Awaiting
  <2> QED
    BY <2>1 DEF TypeOK, Leave, Goto
<1> QED
  BY <1>1, <1>2, <1>3, <1>4, <1>5

\* A new attempt begins with no report of its setting in the book.
LEMMA BeginAttemptKeeps ==
  ASSUME IInv, NEW c \in Commands, NEW i \in 1 .. Len(Script[c]), NEW n \in 1 .. Attempts,
         BeginAttempt(c, i, n), bus' = bus, session' = session, link' = link
  PROVE  IInv'
<1> USE DEF IInv
<1> DEFINE s == Script[c][i].setting
<1>1. s \in Settings /\ Now(c).setting \in Settings
  BY ScriptStep, CurrentSetting DEF Setting
<1>2. /\ book'[c] \in [Settings -> Nat \cup {None}] /\ book'[c][s] = None
      /\ \A t \in Settings : book'[c][t] # None => book'[c][t] = book[c][t]
      /\ book' \in [Commands -> [Settings -> Nat \cup {None}]]
      /\ \A d \in Commands \ {c} : book'[d] = book[d]
  BY <1>1 DEF TypeOK, BeginAttempt, Taken
<1>3. TypeOK'
  <2>1. step' \in [Commands -> Nat] /\ \A d \in Commands : step'[d] \in 1 .. Len(Script[d])
    BY ScriptStep DEF TypeOK, BeginAttempt
  <2>2. /\ pc' \in [Commands -> {"idle", "send", "sent", "ask", "listen", "pause", "settle"} \cup Ended]
        /\ heard' \in [Commands -> {"nothing", "other", "early", "wanted"}]
    BY DEF TypeOK, BeginAttempt, Goto
  <2>3. attempt' \in [Commands -> 1 .. Attempts] /\ client' \in [Commands -> 0 .. session']
    BY DEF TypeOK, BeginAttempt
  <2> QED
    BY <1>2, <2>1, <2>2, <2>3 DEF TypeOK
<1>4. BookAgrees'
  BY <1>2 DEF BookAgrees
<1>5. Blank'
  BY <1>2 DEF TypeOK, Blank, BeginAttempt, Goto, Running, Ended
<1>7. PausedInTime'
  BY DEF TypeOK, PausedInTime, BeginAttempt, Goto
<1>6. Latest'
  <2> SUFFICES ASSUME NEW d \in Commands, pc'[d] \in Awaiting
               PROVE  \/ heard'[d] = "nothing" /\ Reported(d)' = None
                      \/ /\ pc[d] \in Awaiting /\ heard'[d] = heard[d]
                         /\ book'[d] = book[d] /\ step'[d] = step[d]
    BY DEF Latest, Reported, Now
  <2>1. CASE d = c
    <3>1. step'[c] = i /\ heard'[c] = "nothing"
      BY DEF TypeOK, BeginAttempt
    <3> QED
      BY <2>1, <3>1, <1>2 DEF Reported, Now
  <2>2. CASE d # c
    BY <2>2, <1>2 DEF TypeOK, BeginAttempt, Goto
  <2> QED
    BY <2>1, <2>2
<1> QED
  BY <1>3, <1>4, <1>5, <1>6, <1>7

\* Taking the report of its setting out of the book, on the way to anywhere but
\* the beginning, keeps the invariant if that report was not what was wanted or
\* the command no longer waits for one.
LEMMA TakeKeeps ==
  ASSUME IInv, NEW c \in Commands, NEW place \in {"listen", "pause", "settle"},
         pc[c] = "listen", Goto(c, place), book' = [book EXCEPT ![c] = Taken(c)],
         place = "listen" => heard[c] \notin {"early", "wanted"},
         place = "pause" => attempt[c] < Attempts,
         UNCHANGED <<step, attempt, client, heard, bus, linkVars>>
  PROVE  IInv'
<1> USE DEF IInv
<1>1. Now(c).setting \in Settings
  BY CurrentSetting
<1>2. /\ book' \in [Commands -> [Settings -> Nat \cup {None}]]
      /\ book'[c][Now(c).setting] = None
      /\ \A t \in Settings : book'[c][t] # None => book'[c][t] = book[c][t]
      /\ \A d \in Commands \ {c} : book'[d] = book[d]
  BY <1>1 DEF TypeOK, Taken
<1>3. TypeOK'
  BY <1>2 DEF TypeOK, Goto, linkVars
<1>4. BookAgrees'
  BY <1>2 DEF BookAgrees
<1>5. Blank'
  BY <1>2 DEF TypeOK, Blank, Goto, Running, Ended
<1>7. PausedInTime'
  BY DEF TypeOK, PausedInTime, Goto
<1>6. Latest'
  <2> SUFFICES ASSUME NEW d \in Commands, pc'[d] \in Awaiting
               PROVE  \/ heard'[d] \in {"nothing", "other"} /\ Reported(d)' = None
                      \/ /\ pc[d] \in Awaiting /\ heard'[d] = heard[d]
                         /\ book'[d] = book[d] /\ step'[d] = step[d]
    BY DEF Latest, Reported, Now
  <2>1. CASE d = c
    <3>1. place = "listen" /\ heard[c] \in {"nothing", "other"}
      BY <2>1 DEF TypeOK, Goto, Awaiting
    <3> QED
      BY <2>1, <3>1, <1>2 DEF Reported, Now
  <2>2. CASE d # c
    BY <2>2, <1>2 DEF TypeOK, Goto
  <2> QED
    BY <2>1, <2>2
<1> QED
  BY <1>3, <1>4, <1>5, <1>6, <1>7

\* Moving on within an attempt, the book untouched, keeps the invariant.
LEMMA MoveKeeps ==
  ASSUME IInv, NEW c \in Commands, NEW place \in Awaiting,
         pc[c] \in Awaiting \cup {"idle"}, Goto(c, place),
         client' \in [Commands -> 0 .. session],
         UNCHANGED <<step, attempt, bookVars, bus, linkVars>>
  PROVE  IInv'
<1> USE DEF IInv
<1>1. TypeOK'
  BY DEF TypeOK, Goto, linkVars, bookVars, Awaiting
<1>2. BookAgrees'
  BY DEF BookAgrees, bookVars
<1>3. Blank'
  BY DEF TypeOK, Blank, Goto, bookVars, Awaiting, Running, Ended
<1>5. PausedInTime'
  BY DEF TypeOK, PausedInTime, Goto, Awaiting
<1>4. Latest'
  <2> SUFFICES ASSUME NEW d \in Commands, pc'[d] \in Awaiting
               PROVE  /\ heard'[d] = heard[d] /\ book'[d] = book[d] /\ step'[d] = step[d]
                      /\ pc[d] \in Awaiting \/ (heard[d] = "nothing" /\ Reported(d) = None)
    BY DEF Latest, Reported, Now
  <2>1. pc[d] = "idle" => heard[d] = "nothing" /\ Reported(d) = None
    BY CurrentSetting DEF Blank, Reported, NoReports, Running
  <2>2. pc[d] \in Awaiting \cup {"idle"}
    BY DEF TypeOK, Goto
  <2> QED
    BY <2>1, <2>2 DEF bookVars
<1> QED
  BY <1>1, <1>2, <1>3, <1>4, <1>5

-----------------------------------------------------------------------------
(* What a wait ends with *)

\* A tick that finds the wanted value has heard it, in this attempt.
LEMMA HeardIsWanted ==
  ASSUME IInv, NEW c \in Commands, pc[c] = "listen", Reported(c) # None,
         Satisfied(Now(c), Reported(c))
  PROVE  heard[c] \in {"early", "wanted"}
BY DEF IInv, TypeOK, Latest, Awaiting

\* A tick that finds nothing, or another value, has not.
LEMMA NotHeard ==
  ASSUME IInv, NEW c \in Commands, pc[c] = "listen",
         Reported(c) # None => ~Satisfied(Now(c), Reported(c))
  PROVE  heard[c] \notin {"early", "wanted"}
BY DEF IInv, Latest, Awaiting

\* A report goes into the book of every running command and onto the bus.
LEMMA DeliverKeeps ==
  ASSUME IInv, NEW s \in Settings, NEW v \in Ranges[s], Deliver([setting |-> s, value |-> v])
  PROVE  IInv'
<1> USE DEF IInv
<1>1. v \in Nat
  BY RangesAssumption
<1> DEFINE report == [setting |-> s, value |-> v]
<1>2. /\ \A d \in Commands : book'[d] = IF Running(d) THEN [book[d] EXCEPT ![s] = v] ELSE book[d]
      /\ book' \in [Commands -> [Settings -> Nat \cup {None}]]
      /\ bus' = [bus EXCEPT ![s] = v]
  BY <1>1 DEF TypeOK, Deliver, Note
<1>3. /\ \A d \in Commands :
           heard'[d] = IF Running(d) /\ Now(d).setting = s THEN Said(d, report) ELSE heard[d]
      /\ heard' \in [Commands -> {"nothing", "other", "early", "wanted"}]
  BY DEF TypeOK, Deliver, Said
<1>4. TypeOK'
  BY <1>1, <1>2, <1>3 DEF TypeOK, Deliver, taskVars, linkVars
<1>5. BookAgrees'
  <2> SUFFICES ASSUME NEW d \in Commands, NEW t \in Settings, book'[d][t] # None
               PROVE  book'[d][t] = bus'[t]
    BY DEF BookAgrees
  <2>1. CASE t # s
    BY <2>1, <1>2 DEF TypeOK, BookAgrees
  <2>2. CASE t = s /\ Running(d)
    BY <2>2, <1>2 DEF TypeOK
  <2>3. CASE t = s /\ ~Running(d)
    <3>1. book[d] = NoReports
      BY <2>3 DEF Blank, Running
    <3> QED
      BY <3>1, <2>3, <1>2 DEF NoReports
  <2> QED
    BY <2>1, <2>2, <2>3
<1>6. Blank'
  BY <1>2, <1>3 DEF Blank, Deliver, taskVars, Running
<1>8. PausedInTime'
  BY DEF PausedInTime, Deliver, taskVars
<1>7. Latest'
  <2> SUFFICES ASSUME NEW d \in Commands, pc'[d] \in Awaiting
               PROVE  /\ heard'[d] = "nothing" => Reported(d)' = None
                      /\ heard'[d] = "other" =>
                           Reported(d)' = None \/ ~Satisfied(Now(d)', Reported(d)')
                      /\ heard'[d] \in {"early", "wanted"} =>
                           Reported(d)' # None /\ Satisfied(Now(d)', Reported(d)')
    BY DEF Latest, Satisfied
  <2>1. pc[d] \in Awaiting /\ Running(d) /\ Now(d)' = Now(d)
    BY DEF Deliver, taskVars, Awaiting, Running, Ended, Now
  <2>2. Now(d).setting \in Settings
    BY CurrentSetting
  <2>3. CASE Now(d).setting = s
    <3>1. Reported(d)' = v /\ v # None
      BY <2>1, <2>2, <2>3, <1>1, <1>2 DEF TypeOK, Reported, None
    <3>2. heard'[d] = IF ~Satisfied(Now(d), v) THEN "other"
                      ELSE IF pc[d] = "send" THEN "early" ELSE "wanted"
      BY <2>1, <2>3, <1>3 DEF Said
    <3> QED
      BY <3>1, <3>2, <2>1
  <2>4. CASE Now(d).setting # s
    <3>1. Reported(d)' = Reported(d) /\ heard'[d] = heard[d]
      BY <2>1, <2>2, <2>4, <1>2, <1>3 DEF TypeOK, Reported
    <3> QED
      BY <3>1, <2>1 DEF Latest
  <2> QED
    BY <2>3, <2>4
<1> QED
  BY <1>4, <1>5, <1>6, <1>7, <1>8

\* Steps of the link alone touch neither the books nor the bus.
LEMMA LinkKeeps ==
  ASSUME IInv, UNCHANGED <<taskVars, bookVars, bus>>, link' \in BOOLEAN,
         session' \in 1 .. MaxSessions, session <= session'
  PROVE  IInv'
<1> USE DEF IInv, taskVars, bookVars
<1>1. TypeOK'
  <2>1. \A c \in Commands : client[c] \in 0 .. session'
    BY BoundsAssumption DEF TypeOK
  <2> QED
    BY <2>1 DEF TypeOK
<1>2. BookAgrees' /\ Blank' /\ PausedInTime'
  BY DEF BookAgrees, Blank, PausedInTime, Running
<1>3. Latest'
  BY DEF Latest, Reported, Now, Satisfied
<1> QED
  BY <1>1, <1>2, <1>3

\* The end of a wait that went well: the next setting, the check, or success.
LEMMA HearsKeeps ==
  ASSUME IInv, NEW c \in Commands, Hears(c)
  PROVE  IInv'
<1>1. CASE Satisfied(Now(c), Reported(c)) /\ step[c] < Len(Script[c])
  <2>1. step[c] + 1 \in 1 .. Len(Script[c]) /\ 1 \in 1 .. Attempts
    BY <1>1, ScriptStep, BoundsAssumption DEF IInv, TypeOK
  <2>2. BeginAttempt(c, step[c] + 1, 1) /\ bus' = bus /\ session' = session /\ link' = link
    BY <1>1 DEF Hears, Advance, linkVars
  <2> QED
    BY <2>1, <2>2, BeginAttemptKeeps
<1>2. CASE Satisfied(Now(c), Reported(c)) /\ ~(step[c] < Len(Script[c])) /\ Len(Script[c]) = 1
  <2>1. Leave(c, "confirmed") /\ bus' = bus /\ session' = session /\ link' = link
    BY <1>2 DEF Hears, Advance, linkVars
  <2> QED
    BY <2>1, LeaveKeeps DEF Ended, IInv, TypeOK
<1>3. CASE Satisfied(Now(c), Reported(c)) /\ ~(step[c] < Len(Script[c])) /\ Len(Script[c]) # 1
  BY <1>3, TakeKeeps DEF Hears, Advance
<1>4. CASE ~Satisfied(Now(c), Reported(c))
  <2>1. heard[c] \notin {"early", "wanted"}
    BY <1>4, NotHeard DEF Hears
  <2>2. pc' = [pc EXCEPT ![c] = "listen"]
    BY <1>4 DEF Hears, taskVars, IInv, TypeOK
  <2> QED
    BY <1>4, <2>1, <2>2, TakeKeeps DEF Hears, taskVars, Goto
<1> QED
  BY <1>1, <1>2, <1>3, <1>4

\* The end of a wait in vain: another attempt, if one is left, or failure.
LEMMA HearsNothingKeeps ==
  ASSUME IInv, NEW c \in Commands, HearsNothing(c)
  PROVE  IInv'
<1>1. CASE Connected(c) /\ attempt[c] < Attempts
  BY <1>1, TakeKeeps DEF HearsNothing
<1>2. CASE ~(Connected(c) /\ attempt[c] < Attempts)
  BY <1>2, LeaveKeeps DEF HearsNothing, Ended, linkVars, IInv, TypeOK
<1> QED
  BY <1>1, <1>2

\* Refusing a command leaves its book as blank as it was.
LEMMA RefuseKeeps ==
  ASSUME IInv, NEW c \in Commands, Refuse(c)
  PROVE  IInv'
<1> USE DEF IInv, Refuse, bookVars, linkVars
<1>1. TypeOK' /\ BookAgrees'
  BY DEF TypeOK, BookAgrees, Goto, Ended
<1>2. Blank' /\ PausedInTime'
  BY DEF TypeOK, Blank, PausedInTime, Goto, Running, Ended
<1>3. Latest'
  <2> SUFFICES ASSUME NEW d \in Commands, pc'[d] \in Awaiting
               PROVE  pc[d] \in Awaiting
    BY DEF Latest, Reported, Now, Satisfied
  <2> QED
    BY DEF TypeOK, Goto, Ended, Awaiting
<1> QED
  BY <1>1, <1>2, <1>3

\* Every step preserves the invariant.
LEMMA NextKeeps == IInv /\ [Next]_vars => IInv'
<1> SUFFICES ASSUME IInv, [Next]_vars PROVE IInv'
  OBVIOUS
<1>1. ASSUME NEW c \in Commands, Begin(c) PROVE IInv'
  <2>1. client' \in [Commands -> 0 .. session]
    BY <1>1, BoundsAssumption DEF Begin, IInv, TypeOK
  <2> QED
    BY <1>1, <2>1, MoveKeeps DEF Begin, Awaiting
<1>2. ASSUME NEW c \in Commands, Refuse(c) PROVE IInv'
  BY <1>2, RefuseKeeps
<1>3. ASSUME NEW c \in Commands, FrameOut(c) \/ SendReturns(c) \/ Asked(c) PROVE IInv'
  <2>1. client' \in [Commands -> 0 .. session]
    BY <1>3 DEF FrameOut, SendReturns, Asked, IInv, TypeOK
  <2> QED
    BY <1>3, <2>1, MoveKeeps DEF FrameOut, SendReturns, Asked, Awaiting
<1>4. ASSUME NEW c \in Commands, SendFails(c) PROVE IInv'
  <2>1. link' \in BOOLEAN
    BY <1>4 DEF SendFails, IInv, TypeOK
  <2> QED
    BY <1>4, <2>1, LeaveKeeps DEF SendFails, Ended
<1>5. ASSUME NEW c \in Commands, Hears(c) PROVE IInv'
  BY <1>5, HearsKeeps
<1>6. ASSUME NEW c \in Commands, HearsNothing(c) PROVE IInv'
  BY <1>6, HearsNothingKeeps
<1>7. ASSUME NEW c \in Commands, Retry(c) PROVE IInv'
  <2>1. step[c] \in 1 .. Len(Script[c]) /\ attempt[c] + 1 \in 1 .. Attempts
    BY <1>7, BoundsAssumption DEF Retry, IInv, TypeOK, PausedInTime
  <2> QED
    BY <1>7, <2>1, BeginAttemptKeeps DEF Retry, linkVars
<1>8. ASSUME NEW c \in Commands, Settled(c) PROVE IInv'
  BY <1>8, LeaveKeeps DEF Settled, Ended, linkVars, IInv, TypeOK
<1>9. ASSUME NEW c \in Commands, Cancel(c) PROVE IInv'
  BY <1>9, LeaveKeeps DEF Cancel, Ended, IInv, TypeOK
<1>10. ASSUME NEW s \in Settings, NEW v \in Ranges[s], Deliver([setting |-> s, value |-> v])
       PROVE  IInv'
  BY <1>10, DeliverKeeps
<1>11. CASE LinkDrops
  <2>1. session' \in 1 .. MaxSessions /\ session <= session'
    BY <1>11, BoundsAssumption DEF LinkDrops, IInv, TypeOK
  <2>2. link' \in BOOLEAN
    BY <1>11, Zenon DEF LinkDrops
  <2> QED
    BY <1>11, <2>1, <2>2, LinkKeeps DEF LinkDrops
<1>12. CASE Reconnect
  <2>1. session' \in 1 .. MaxSessions /\ session <= session'
    BY <1>12, BoundsAssumption DEF Reconnect, IInv, TypeOK
  <2> QED
    BY <1>12, <2>1, LinkKeeps DEF Reconnect
<1>13. CASE UNCHANGED vars
  BY <1>13, LinkKeeps, BoundsAssumption DEF vars, linkVars, IInv, TypeOK
<1> QED
  BY <1>1, <1>2, <1>3, <1>4, <1>5, <1>6, <1>7, <1>8, <1>9, <1>10, <1>11, <1>12,
     <1>13 DEF Next, Waits

-----------------------------------------------------------------------------
(* The theorems *)

\* The invariant holds in every behaviour of async_write_many.
THEOREM BooksHold == Spec => []IInv
BY InitHolds, NextKeeps, PTL DEF Spec

\* The task of a command is always at one of its settings and attempts.
THEOREM TypeCorrect == Spec => []TypeOK
<1>1. IInv => TypeOK
  BY DEF IInv
<1> QED
  BY <1>1, BooksHold, PTL

\* A step that takes a command out of its wait is one of the two ends of it.
LEMMA WaitEnds ==
  ASSUME IInv, [Next]_vars, NEW c \in Commands, pc[c] = "listen",
         pc'[c] \notin {"listen", "cancelled"}
  PROVE  Hears(c) \/ HearsNothing(c)
<1>1. ASSUME NEW d \in Commands, d # c, Begin(d) \/ Refuse(d) \/ Waits(d) \/ Cancel(d)
      PROVE  pc'[c] = pc[c]
  BY <1>1 DEF IInv, TypeOK, Begin, Refuse, Waits, Cancel, FrameOut, SendReturns, SendFails, Asked,
    Hears, HearsNothing, Retry, Settled, Leave, Goto, Advance, BeginAttempt, taskVars
<1>2. ASSUME Begin(c) \/ Refuse(c) \/ FrameOut(c) \/ SendReturns(c) \/ SendFails(c) \/ Asked(c)
             \/ Retry(c) \/ Settled(c)
      PROVE  FALSE
  BY <1>2 DEF Begin, Refuse, FrameOut, SendReturns, SendFails, Asked, Retry, Settled
<1>3. ASSUME Cancel(c) PROVE pc'[c] = "cancelled"
  BY <1>3 DEF IInv, TypeOK, Cancel, Leave, Goto
<1>4. ASSUME NEW s \in Settings, NEW v \in Ranges[s], Deliver([setting |-> s, value |-> v])
      PROVE  pc'[c] = pc[c]
  BY <1>4 DEF Deliver, taskVars
<1>5. ASSUME LinkDrops \/ Reconnect \/ UNCHANGED vars PROVE pc'[c] = pc[c]
  BY <1>5 DEF LinkDrops, Reconnect, vars, taskVars
<1> QED
  BY <1>1, <1>2, <1>3, <1>4, <1>5 DEF Next, Waits

\* What a tick that hears the wanted value leads to.
LEMMA HearingWell ==
  ASSUME IInv, NEW c \in Commands, Hears(c), pc'[c] # "listen"
  PROVE  /\ Satisfied(Now(c), Reported(c))
         /\ pc'[c] \in {"send", "settle", "confirmed"}
<1>1. Satisfied(Now(c), Reported(c))
  BY DEF Hears, taskVars
<1>2. Advance(c)
  BY <1>1 DEF Hears
<1>3. pc' \in {[pc EXCEPT ![c] = place] : place \in {"send", "settle", "confirmed"}}
  BY <1>2 DEF Advance, BeginAttempt, Leave, Goto
<1> QED
  BY <1>1, <1>3 DEF IInv, TypeOK

\* _write_confirmed, for any number of commands, settings and attempts: the wait
\* for a device ends as the reports of this attempt say.
THEOREM VerdictHolds == Spec => VerdictFollowsTheReports
<1>1. IInv /\ [Next]_vars =>
        \A c \in Commands :
          pc[c] = "listen" /\ pc'[c] \notin {"listen", "cancelled"} =>
            (pc'[c] \in {"send", "settle", "confirmed"} <=> heard[c] \in {"early", "wanted"})
  <2> SUFFICES ASSUME IInv, [Next]_vars, NEW c \in Commands,
                      pc[c] = "listen", pc'[c] \notin {"listen", "cancelled"}
               PROVE  pc'[c] \in {"send", "settle", "confirmed"} <=> heard[c] \in {"early", "wanted"}
    OBVIOUS
  <2>1. CASE Hears(c)
    <3>1. Satisfied(Now(c), Reported(c)) /\ pc'[c] \in {"send", "settle", "confirmed"}
      BY <2>1, HearingWell
    <3>2. heard[c] \in {"early", "wanted"}
      BY <2>1, <3>1, HeardIsWanted DEF Hears
    <3> QED
      BY <3>1, <3>2
  <2>2. CASE HearsNothing(c)
    <3>1. heard[c] \notin {"early", "wanted"}
      BY <2>2, NotHeard DEF HearsNothing
    <3>2. pc'[c] \in {"pause", "failed"}
      BY <2>2 DEF HearsNothing, Leave, Goto, IInv, TypeOK
    <3> QED
      BY <3>1, <3>2
  <2> QED
    BY <2>1, <2>2, WaitEnds
<1> QED
  BY <1>1, BooksHold, PTL DEF Spec, VerdictFollowsTheReports

\* A step to success is the check at the end or, of a single setting, the wait.
LEMMA SuccessBegins ==
  ASSUME IInv, [Next]_vars, NEW c \in Commands, pc[c] # "confirmed", pc'[c] = "confirmed"
  PROVE  Settled(c) \/ Hears(c)
<1>1. ASSUME NEW d \in Commands, d # c, Begin(d) \/ Refuse(d) \/ Waits(d) \/ Cancel(d)
      PROVE  pc'[c] = pc[c]
  BY <1>1 DEF IInv, TypeOK, Begin, Refuse, Waits, Cancel, FrameOut, SendReturns, SendFails, Asked,
    Hears, HearsNothing, Retry, Settled, Leave, Goto, Advance, BeginAttempt, taskVars
<1>2. ASSUME Begin(c) \/ Refuse(c) \/ FrameOut(c) \/ SendReturns(c) \/ SendFails(c) \/ Asked(c)
             \/ HearsNothing(c) \/ Retry(c) \/ Cancel(c)
      PROVE  pc'[c] # "confirmed"
  BY <1>2 DEF IInv, TypeOK, Begin, Refuse, FrameOut, SendReturns, SendFails, Asked, HearsNothing,
    Retry, Cancel, Leave, Goto, BeginAttempt
<1>3. ASSUME NEW s \in Settings, NEW v \in Ranges[s], Deliver([setting |-> s, value |-> v])
      PROVE  pc'[c] = pc[c]
  BY <1>3 DEF Deliver, taskVars
<1>4. ASSUME LinkDrops \/ Reconnect \/ UNCHANGED vars PROVE pc'[c] = pc[c]
  BY <1>4 DEF LinkDrops, Reconnect, vars, taskVars
<1> QED
  BY <1>1, <1>2, <1>3, <1>4 DEF Next, Waits

\* async_write_many, for any number of commands and settings: success is only
\* reported of settings the bus holds as wanted, all at the same time.
THEOREM SuccessHolds == Spec => SuccessMeansRetained
<1>1. IInv /\ [Next]_vars =>
        \A c \in Commands :
          pc[c] # "confirmed" /\ pc'[c] = "confirmed" =>
            \A i \in 1 .. Len(Script[c]) : Satisfied(Script[c][i], bus[Script[c][i].setting])
  <2> SUFFICES ASSUME IInv, [Next]_vars, NEW c \in Commands,
                      pc[c] # "confirmed", pc'[c] = "confirmed"
               PROVE  \A i \in 1 .. Len(Script[c]) :
                        Satisfied(Script[c][i], bus[Script[c][i].setting])
    OBVIOUS
  <2>1. CASE Settled(c)
    BY <2>1 DEF Settled, Leave, Goto, IInv, TypeOK
  <2>2. CASE Hears(c)
    <3>1. Satisfied(Now(c), Reported(c)) /\ Advance(c)
      BY <2>2, HearingWell DEF Hears
    <3>2. Len(Script[c]) = 1 /\ step[c] = 1
      BY <3>1, ScriptStep DEF Advance, BeginAttempt, Goto, IInv, TypeOK
    <3>3. Reported(c) = bus[Now(c).setting]
      BY <2>2, CurrentSetting DEF Hears, Reported, IInv, BookAgrees
    <3> QED
      BY <3>1, <3>2, <3>3 DEF Now
  <2> QED
    BY <2>1, <2>2, SuccessBegins
<1> QED
  BY <1>1, BooksHold, PTL DEF Spec, SuccessMeansRetained
=============================================================================
