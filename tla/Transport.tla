------------------------------- MODULE Transport -------------------------------
(***************************************************************************)
(* The outgoing half of the panel's transport: TrumaBleClient.send and the *)
(* handler of the CMD characteristic (ble.py), over one session.           *)
(*                                                                         *)
(* A transfer announces its packet, waits for Ready, writes the payload    *)
(* and waits for DataAck.  Neither reply says which transfer it answers,   *)
(* so the model tags each reply with the transfer it is meant for; no      *)
(* guard reads the tag.  The panel's link layer gives Ready, its broker    *)
(* DataAck, each in its own time: what the panel owes is a set.            *)
(***************************************************************************)
EXTENDS Naturals

CONSTANTS Transfers,   \* the send() calls of a session
          Probes,      \* those made with probe=True
          Nobody       \* no transfer

ASSUME ProbesAssumption == Probes \subseteq Transfers
ASSUME NobodyAssumption == Nobody \notin Transfers

VARIABLES
  pc,        \* each send: where its task is
  lock,      \* the transfer that holds _send_lock
  expected,  \* _transport_expected
  event,     \* _transport_event exists and is set
  ack,       \* _transport_ack: what it says, and for whom the panel meant it
  success,   \* each send: for whom the DataAck was that made success true
  invalid,   \* _transport_invalidated
  link,      \* _client and its is_connected
  owed       \* replies the panel has neither given nor dropped yet

waitVars == <<expected, event, ack>>
vars == <<pc, lock, waitVars, success, invalid, link, owed>>

InFlight == {"announce", "ready", "payload", "ack", "settle"}
Holding == InFlight \cup {"leave", "closing"}
Done == {"acked", "failed", "refused", "cancelled"}
Reply == [op : {"Ready", "Ack", "Nak"}, of : Transfers \cup {Nobody}]
NoReply == [op |-> "none", of |-> Nobody]

TypeOK ==
  /\ pc \in [Transfers -> {"idle", "queued"} \cup Holding \cup Done]
  /\ lock \in Transfers \cup {Nobody}
  /\ expected \in {"none", "Ready", "Ack"}
  /\ event \in BOOLEAN
  /\ ack \in Reply \cup {NoReply}
  /\ event \/ ack # NoReply => expected # "none"
  /\ success \in [Transfers -> Transfers \cup {Nobody}]
  /\ invalid \in BOOLEAN
  /\ link \in {"up", "dropped", "none"}
  /\ owed \subseteq [op : {"Ready", "Ack"}, of : Transfers]

Init ==
  /\ pc = [t \in Transfers |-> "idle"]
  /\ lock = Nobody
  /\ expected = "none" /\ event = FALSE /\ ack = NoReply
  /\ success = [t \in Transfers |-> Nobody]
  /\ invalid = FALSE /\ link = "up" /\ owed = {}

Goto(t, place) == pc' = [pc EXCEPT ![t] = place]

\* send() waits for the lock; a cancelled waiter leaves nothing behind.
Call(t) ==
  /\ pc[t] = "idle" /\ Goto(t, "queued")
  /\ UNCHANGED <<lock, waitVars, success, invalid, link, owed>>

CancelQueued(t) ==
  /\ pc[t] = "queued" /\ Goto(t, "cancelled")
  /\ UNCHANGED <<lock, waitVars, success, invalid, link, owed>>

\* The bytes reach the panel, or nobody once the client is gone (_write).
Written(reply) == owed' = IF link = "up" THEN owed \cup {reply} ELSE owed

\* Under the lock: refuse on an invalidated session, else announce the packet.
Start(t) ==
  /\ pc[t] = "queued" /\ lock = Nobody
  /\ \/ /\ invalid /\ Goto(t, "refused")
        /\ UNCHANGED <<lock, waitVars, owed>>
     \/ /\ ~invalid
        /\ lock' = t /\ Goto(t, "announce")
        /\ expected' = "Ready" /\ event' = FALSE /\ ack' = NoReply
        /\ Written([op |-> "Ready", of |-> t])
  /\ UNCHANGED <<success, invalid, link>>

\* The GATT write of the announcement or the payload returned.
WriteReturns(t) ==
  /\ \/ pc[t] = "announce" /\ Goto(t, "ready")
     \/ pc[t] = "payload" /\ Goto(t, "ack")
  /\ UNCHANGED <<lock, waitVars, success, invalid, link, owed>>

\* Ready: arm the wait for the DataAck, then write the payload.
GetsReady(t) ==
  /\ pc[t] = "ready" /\ event
  /\ Goto(t, "payload")
  /\ expected' = "Ack" /\ event' = FALSE /\ ack' = NoReply
  /\ Written([op |-> "Ack", of |-> t])
  /\ UNCHANGED <<lock, success, invalid, link>>

\* A positive DataAck ends the wait well, any other verdict badly.
GetsAck(t) ==
  /\ pc[t] = "ack" /\ event /\ Goto(t, "settle")
  /\ success' = IF ack.op = "Ack" THEN [success EXCEPT ![t] = ack.of] ELSE success
  /\ UNCHANGED <<lock, waitVars, invalid, link, owed>>

\* Mutant: only the wait for Ready is bounded.
ReplyTimesOutForReadyOnly(t) ==
  /\ pc[t] = "ready" /\ Goto(t, "leave")
  /\ UNCHANGED <<lock, waitVars, success, invalid, link, owed>>

\* 3 s are over; the timer may win against a reply that has just come.
ReplyTimesOut(t) ==
  /\ \/ pc[t] = "ready" /\ Goto(t, "leave")
     \/ pc[t] = "ack" /\ Goto(t, "settle")
  /\ UNCHANGED <<lock, waitVars, success, invalid, link, owed>>

\* A write that raises, or that hangs for 5 s and gives the session up.
WriteFails(t) ==
  /\ pc[t] \in {"announce", "payload"} /\ Goto(t, "leave")
  /\ invalid' \in {invalid, TRUE}
  /\ UNCHANGED <<lock, waitVars, success, link, owed>>

\* The caller is cancelled: the transfer counts as failed, even after its ack.
Cancel(t) ==
  /\ pc[t] \in InFlight /\ Goto(t, "leave")
  /\ success' = [success EXCEPT ![t] = Nobody]
  /\ UNCHANGED <<lock, waitVars, invalid, link, owed>>

\* The 0.2 s for an asynchronous follow-up are over.
Settles(t) ==
  /\ pc[t] = "settle" /\ Goto(t, "leave")
  /\ UNCHANGED <<lock, waitVars, success, invalid, link, owed>>

Result(t) == IF success[t] # Nobody THEN "acked" ELSE "failed"

\* Mutant: every failed transfer spares the session, as a probe does.
LeaveSparingTheSession(t) ==
  /\ pc[t] = "leave"
  /\ expected' = "none" /\ event' = FALSE /\ ack' = NoReply
  /\ lock' = Nobody /\ Goto(t, Result(t))
  /\ UNCHANGED <<success, invalid, link, owed>>

\* Mutant: the client is dropped and closed, the session not invalidated.
LeaveWithoutInvalidating(t) ==
  /\ pc[t] = "leave"
  /\ expected' = "none" /\ event' = FALSE /\ ack' = NoReply
  /\ IF success[t] = Nobody /\ t \notin Probes
       THEN link' = "none" /\ Goto(t, "closing") /\ UNCHANGED lock
       ELSE lock' = Nobody /\ Goto(t, Result(t)) /\ UNCHANGED link
  /\ UNCHANGED <<success, invalid, owed>>

\* Mutant: the event and the reply outlive their transfer.
LeaveKeepingTheReply(t) ==
  /\ pc[t] = "leave"
  /\ expected' = "none"
  /\ IF success[t] = Nobody /\ t \notin Probes
       THEN invalid' = TRUE /\ link' = "none" /\ Goto(t, "closing") /\ UNCHANGED lock
       ELSE lock' = Nobody /\ Goto(t, Result(t)) /\ UNCHANGED <<invalid, link>>
  /\ UNCHANGED <<event, ack, success, owed>>

\* The finally of _send_locked: disarm; unless it went well or was a probe,
\* invalidate and drop the client, then await the close under the lock.
Leave(t) ==
  /\ pc[t] = "leave"
  /\ expected' = "none" /\ event' = FALSE /\ ack' = NoReply
  /\ IF success[t] = Nobody /\ t \notin Probes
       THEN invalid' = TRUE /\ link' = "none" /\ Goto(t, "closing") /\ UNCHANGED lock
       ELSE lock' = Nobody /\ Goto(t, Result(t)) /\ UNCHANGED <<invalid, link>>
  /\ UNCHANGED <<success, owed>>

\* close_link returned, or was let go when its time was up.
Closed(t) ==
  /\ pc[t] = "closing"
  /\ lock' = Nobody /\ Goto(t, "failed")
  /\ UNCHANGED <<waitVars, success, invalid, link, owed>>

-----------------------------------------------------------------------------
(* The panel and the radio *)

\* Mutant: any notification on CMD satisfies the wait that is open.
AcceptAny(reply) ==
  IF expected # "none" THEN event' = TRUE /\ ack' = reply ELSE UNCHANGED <<event, ack>>

\* _handle_cmd: only the opcode waited for is taken; 0xF0 carries both verdicts.
Accept(reply) ==
  IF \/ expected = "Ready" /\ reply.op = "Ready"
     \/ expected = "Ack" /\ reply.op \in {"Ack", "Nak"}
    THEN event' = TRUE /\ ack' = reply
    ELSE UNCHANGED <<event, ack>>

\* A reply the panel owes arrives; a Ready may be given twice, and a DataAck
\* may refuse the frame.
Replies(reply) ==
  /\ link = "up" /\ reply \in owed
  /\ owed' = owed \ {reply} \/ (reply.op = "Ready" /\ owed' = owed)
  /\ Accept(reply) \/ (reply.op = "Ack" /\ Accept([reply EXCEPT !.op = "Nak"]))
  /\ UNCHANGED <<pc, lock, expected, success, invalid, link>>

\* The panel is silent where a reply is owed.
Withholds(reply) ==
  /\ reply \in owed /\ owed' = owed \ {reply}
  /\ UNCHANGED <<pc, lock, waitVars, success, invalid, link>>

\* A notification that answers nothing: the bare F004 measured on the van.
Stray ==
  /\ link = "up"
  /\ Accept([op |-> "Nak", of |-> Nobody])
  /\ UNCHANGED <<pc, lock, expected, success, invalid, link, owed>>

\* The confirm of an announced message or the ack of a delivered one hangs for
\* 5 s (_fire_write): the session is given up, whatever transfer is in flight.
TransportReplyHangs ==
  /\ link = "up" /\ ~invalid /\ invalid' = TRUE
  /\ UNCHANGED <<pc, lock, waitVars, success, link, owed>>

LinkDrops ==
  /\ link = "up" /\ link' = "dropped"
  /\ UNCHANGED <<pc, lock, waitVars, success, invalid, owed>>

\* The coordinator's teardown: disconnect() drops the client under a transfer.
Disconnect ==
  /\ link # "none" /\ link' = "none"
  /\ UNCHANGED <<pc, lock, waitVars, success, invalid, owed>>

Send(t) ==
  \/ Start(t) \/ WriteReturns(t) \/ GetsReady(t) \/ GetsAck(t) \/ ReplyTimesOut(t)
  \/ Settles(t) \/ Leave(t) \/ Closed(t)

Next ==
  \/ \E t \in Transfers : Call(t) \/ CancelQueued(t) \/ Send(t) \/ WriteFails(t) \/ Cancel(t)
  \/ \E reply \in owed : Replies(reply) \/ Withholds(reply)
  \/ Stray \/ TransportReplyHangs \/ LinkDrops \/ Disconnect

Spec == Init /\ [][Next]_vars

\* Every write, wait and close of a send is bounded by a timer, and the lock
\* goes to whoever has waited longest.
FairSpec ==
  /\ Spec
  /\ \A t \in Transfers : SF_vars(Start(t)) /\ WF_vars(Send(t) \/ WriteFails(t))

-----------------------------------------------------------------------------
(* Safety *)

\* _handle_cmd, 362-393: the second Ready of a transfer, or any other stray
\* notification that is no 0xF0, never ends the wait for its DataAck.
ReadyIsNoVerdict ==
  \A t \in Transfers : pc[t] = "ack" /\ event => ack.op \in {"Ack", "Nak"}

\* _send_locked, 562-582: a transfer that failed and was no probe is the last
\* one of its session, whoever was already waiting for the lock behind it.
NothingFollowsAFailure ==
  \A t \in Transfers \ Probes, u \in Transfers : pc[t] = "failed" => pc[u] \notin InFlight

\* As long as every probe was answered, an acknowledgement completes the
\* transfer it was meant for.  (One probe given up can shift the attribution of
\* every later DataAck of the session by one.)
AckIsOwnUntilAProbeFails ==
  (\A p \in Probes : pc[p] # "failed") => \A t \in Transfers : pc[t] = "acked" => success[t] = t

-----------------------------------------------------------------------------
(* Liveness *)

\* No send waits for ever, neither for a reply nor for the lock.
EverySendReturns == \A t \in Transfers : pc[t] = "queued" ~> pc[t] \in Done
=============================================================================
