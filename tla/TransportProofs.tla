---------------------------- MODULE TransportProofs ----------------------------
(***************************************************************************)
(* Theorems about the outgoing transport, for any number of transfers, of  *)
(* which any may be probes.                                                *)
(***************************************************************************)
EXTENDS Transport, TLAPS

\* Visible in every proof: the abbreviation, and the sets of places.
USE DEF waitVars, InFlight, Holding, Done

-----------------------------------------------------------------------------
(* Type correctness *)

\* The form in which the SMT backend relates a flag to an assignment.
Flag(x) == x = TRUE \/ x = FALSE

TypeInv ==
  /\ pc \in [Transfers -> {"idle", "queued"} \cup Holding \cup Done]
  /\ lock \in Transfers \cup {Nobody}
  /\ expected \in {"none", "Ready", "Ack"}
  /\ Flag(event) /\ Flag(invalid)
  /\ ack \in Reply \cup {NoReply}
  /\ event = TRUE \/ ack # NoReply => expected # "none"
  /\ success \in [Transfers -> Transfers \cup {Nobody}]
  /\ link \in {"up", "dropped", "none"}
  /\ owed \subseteq [op : {"Ready", "Ack"}, of : Transfers]

\* The form the proofs carry gives the invariant the model states.
LEMMA TypeInvGivesTypeOK == TypeInv => TypeOK
  BY Zenon DEF TypeInv, TypeOK, Flag

\* The lock is held by exactly the transfer that is under way, and an open wait
\* is that transfer's.
LockInv ==
  /\ \A t \in Transfers : pc[t] \in Holding <=> lock = t
  /\ expected # "none" => lock # Nobody /\ pc[lock] # "closing"

\* A session starts with nothing under way.
LEMMA TypeInit == Init => TypeInv /\ LockInv
  BY NobodyAssumption DEF Init, TypeInv, LockInv, Flag, Reply, NoReply

\* Every step keeps the types.
LEMMA TypeStep == TypeInv /\ [Next]_vars => TypeInv'
<1> SUFFICES ASSUME TypeInv, [Next]_vars PROVE TypeInv'
  OBVIOUS
<1>1. ASSUME NEW t \in Transfers, Call(t) PROVE TypeInv'
  BY <1>1 DEF Call, Goto, TypeInv, Flag, Reply, NoReply
<1>2. ASSUME NEW t \in Transfers, CancelQueued(t) PROVE TypeInv'
  BY <1>2 DEF CancelQueued, Goto, TypeInv, Flag, Reply, NoReply
<1>3. ASSUME NEW t \in Transfers, Start(t) PROVE TypeInv'
  BY <1>3 DEF Start, Goto, Written, NoReply, TypeInv, Flag, Reply, NoReply
<1>4. ASSUME NEW t \in Transfers, WriteReturns(t) PROVE TypeInv'
  BY <1>4 DEF WriteReturns, Goto, TypeInv, Flag, Reply, NoReply
<1>5. ASSUME NEW t \in Transfers, GetsReady(t) PROVE TypeInv'
  BY <1>5 DEF GetsReady, Goto, Written, NoReply, TypeInv, Flag, Reply, NoReply
<1>6. ASSUME NEW t \in Transfers, GetsAck(t) PROVE TypeInv'
  BY <1>6 DEF GetsAck, Goto, TypeInv, Flag, Reply, NoReply
<1>7. ASSUME NEW t \in Transfers, ReplyTimesOut(t) PROVE TypeInv'
  BY <1>7 DEF ReplyTimesOut, Goto, TypeInv, Flag, Reply, NoReply
<1>8. ASSUME NEW t \in Transfers, Settles(t) PROVE TypeInv'
  BY <1>8 DEF Settles, Goto, TypeInv, Flag, Reply, NoReply
<1>9. ASSUME NEW t \in Transfers, Leave(t) PROVE TypeInv'
  BY <1>9 DEF Leave, Goto, Result, NoReply, TypeInv, Flag, Reply, NoReply
<1>10. ASSUME NEW t \in Transfers, Closed(t) PROVE TypeInv'
  BY <1>10 DEF Closed, Goto, TypeInv, Flag, Reply, NoReply
<1>11. ASSUME NEW t \in Transfers, WriteFails(t) PROVE TypeInv'
  BY <1>11 DEF WriteFails, Goto, TypeInv, Flag, Reply, NoReply
<1>12. ASSUME NEW t \in Transfers, Cancel(t) PROVE TypeInv'
  BY <1>12 DEF Cancel, Goto, TypeInv, Flag, Reply, NoReply
<1>13. ASSUME NEW reply \in owed, Replies(reply) PROVE TypeInv'
  BY <1>13 DEF Replies, Accept, TypeInv, Flag, Reply, NoReply
<1>14. ASSUME NEW reply \in owed, Withholds(reply) PROVE TypeInv'
  BY <1>14 DEF Withholds, TypeInv, Flag, Reply, NoReply
<1>15. CASE Stray
  BY <1>15 DEF Stray, Accept, TypeInv, Flag, Reply, NoReply
<1>16. CASE TransportReplyHangs
  BY <1>16 DEF TransportReplyHangs, TypeInv, Flag, Reply, NoReply
<1>17. CASE LinkDrops
  BY <1>17 DEF LinkDrops, TypeInv, Flag, Reply, NoReply
<1>18. CASE Disconnect
  BY <1>18 DEF Disconnect, TypeInv, Flag, Reply, NoReply
<1>19. CASE UNCHANGED vars
  BY <1>19 DEF vars, TypeInv, Flag, Reply, NoReply
<1>20. QED
  BY <1>1, <1>2, <1>3, <1>4, <1>5, <1>6, <1>7, <1>8, <1>9, <1>10, <1>11, <1>12, <1>13, <1>14,
     <1>15, <1>16, <1>17, <1>18, <1>19 DEF Next, Send

\* Every step keeps lock and wait with one transfer.
LEMMA LockStep == TypeInv /\ LockInv /\ [Next]_vars => LockInv'
<1> SUFFICES ASSUME TypeInv, LockInv, [Next]_vars PROVE LockInv'
  OBVIOUS
<1>1. ASSUME NEW t \in Transfers, Call(t) PROVE LockInv'
  BY <1>1, NobodyAssumption DEF Call, Goto, TypeInv, Flag, LockInv
<1>2. ASSUME NEW t \in Transfers, CancelQueued(t) PROVE LockInv'
  BY <1>2, NobodyAssumption DEF CancelQueued, Goto, TypeInv, Flag, LockInv
<1>3. ASSUME NEW t \in Transfers, Start(t) PROVE LockInv'
  BY <1>3, NobodyAssumption DEF Start, Goto, Written, NoReply, TypeInv, Flag, LockInv
<1>4. ASSUME NEW t \in Transfers, WriteReturns(t) PROVE LockInv'
  BY <1>4, NobodyAssumption DEF WriteReturns, Goto, TypeInv, Flag, LockInv
<1>5. ASSUME NEW t \in Transfers, GetsReady(t) PROVE LockInv'
  BY <1>5, NobodyAssumption DEF GetsReady, Goto, Written, NoReply, TypeInv, Flag, LockInv
<1>6. ASSUME NEW t \in Transfers, GetsAck(t) PROVE LockInv'
  BY <1>6, NobodyAssumption DEF GetsAck, Goto, TypeInv, Flag, LockInv
<1>7. ASSUME NEW t \in Transfers, ReplyTimesOut(t) PROVE LockInv'
  BY <1>7, NobodyAssumption DEF ReplyTimesOut, Goto, TypeInv, Flag, LockInv
<1>8. ASSUME NEW t \in Transfers, Settles(t) PROVE LockInv'
  BY <1>8, NobodyAssumption DEF Settles, Goto, TypeInv, Flag, LockInv
<1>9. ASSUME NEW t \in Transfers, Leave(t) PROVE LockInv'
  BY <1>9, NobodyAssumption DEF Leave, Goto, Result, NoReply, TypeInv, Flag, LockInv
<1>10. ASSUME NEW t \in Transfers, Closed(t) PROVE LockInv'
  BY <1>10, NobodyAssumption DEF Closed, Goto, TypeInv, Flag, LockInv
<1>11. ASSUME NEW t \in Transfers, WriteFails(t) PROVE LockInv'
  BY <1>11, NobodyAssumption DEF WriteFails, Goto, TypeInv, Flag, LockInv
<1>12. ASSUME NEW t \in Transfers, Cancel(t) PROVE LockInv'
  BY <1>12, NobodyAssumption DEF Cancel, Goto, TypeInv, Flag, LockInv
<1>13. ASSUME NEW reply \in owed, Replies(reply) PROVE LockInv'
  BY <1>13, NobodyAssumption DEF Replies, Accept, TypeInv, Flag, LockInv
<1>14. ASSUME NEW reply \in owed, Withholds(reply) PROVE LockInv'
  BY <1>14, NobodyAssumption DEF Withholds, TypeInv, Flag, LockInv
<1>15. CASE Stray
  BY <1>15, NobodyAssumption DEF Stray, Accept, TypeInv, Flag, LockInv
<1>16. CASE TransportReplyHangs
  BY <1>16, NobodyAssumption DEF TransportReplyHangs, TypeInv, Flag, LockInv
<1>17. CASE LinkDrops
  BY <1>17, NobodyAssumption DEF LinkDrops, TypeInv, Flag, LockInv
<1>18. CASE Disconnect
  BY <1>18, NobodyAssumption DEF Disconnect, TypeInv, Flag, LockInv
<1>19. CASE UNCHANGED vars
  BY <1>19, NobodyAssumption DEF vars, TypeInv, Flag, LockInv
<1>20. QED
  BY <1>1, <1>2, <1>3, <1>4, <1>5, <1>6, <1>7, <1>8, <1>9, <1>10, <1>11, <1>12, <1>13, <1>14,
     <1>15, <1>16, <1>17, <1>18, <1>19 DEF Next, Send

\* The invariants of types and of the lock, in the form of the later proofs.
THEOREM LockHolds == Spec => [](TypeInv /\ LockInv)
  BY TypeInit, TypeStep, LockStep, PTL DEF Spec

\* Every variable of the transport keeps its type, and no event or reply
\* outlives the wait it belongs to.
THEOREM TypeCorrect == Spec => []TypeOK
  BY LockHolds, TypeInvGivesTypeOK, PTL

-----------------------------------------------------------------------------
(* What ends the wait for a DataAck *)

\* Inductive: from the payload on only 0xF0 is accepted, and the event Ready had
\* set was cleared when that began.
VerdictInv ==
  /\ \A t \in Transfers : pc[t] \in {"payload", "ack"} => expected = "Ack"
  /\ expected = "Ack" /\ event => ack.op \in {"Ack", "Nak"}

\* Every step keeps Ready out of the second wait.
LEMMA VerdictStep == TypeInv /\ LockInv /\ VerdictInv /\ [Next]_vars => VerdictInv'
<1> SUFFICES ASSUME TypeInv, LockInv, VerdictInv, [Next]_vars PROVE VerdictInv'
  OBVIOUS
<1>1. ASSUME NEW t \in Transfers, Call(t) PROVE VerdictInv'
  BY <1>1, NobodyAssumption DEF Call, Goto, TypeInv, Flag, LockInv, VerdictInv, NoReply
<1>2. ASSUME NEW t \in Transfers, CancelQueued(t) PROVE VerdictInv'
  BY <1>2, NobodyAssumption DEF CancelQueued, Goto, TypeInv, Flag, LockInv, VerdictInv, NoReply
<1>3. ASSUME NEW t \in Transfers, Start(t) PROVE VerdictInv'
  BY <1>3, NobodyAssumption DEF Start, Goto, Written, NoReply, TypeInv, Flag, LockInv, VerdictInv,
     NoReply
<1>4. ASSUME NEW t \in Transfers, WriteReturns(t) PROVE VerdictInv'
  BY <1>4, NobodyAssumption DEF WriteReturns, Goto, TypeInv, Flag, LockInv, VerdictInv, NoReply
<1>5. ASSUME NEW t \in Transfers, GetsReady(t) PROVE VerdictInv'
  BY <1>5, NobodyAssumption DEF GetsReady, Goto, Written, NoReply, TypeInv, Flag, LockInv,
     VerdictInv, NoReply
<1>6. ASSUME NEW t \in Transfers, GetsAck(t) PROVE VerdictInv'
  BY <1>6, NobodyAssumption DEF GetsAck, Goto, TypeInv, Flag, LockInv, VerdictInv, NoReply
<1>7. ASSUME NEW t \in Transfers, ReplyTimesOut(t) PROVE VerdictInv'
  BY <1>7, NobodyAssumption DEF ReplyTimesOut, Goto, TypeInv, Flag, LockInv, VerdictInv, NoReply
<1>8. ASSUME NEW t \in Transfers, Settles(t) PROVE VerdictInv'
  BY <1>8, NobodyAssumption DEF Settles, Goto, TypeInv, Flag, LockInv, VerdictInv, NoReply
<1>9. ASSUME NEW t \in Transfers, Leave(t) PROVE VerdictInv'
  BY <1>9, NobodyAssumption DEF Leave, Goto, Result, NoReply, TypeInv, Flag, LockInv, VerdictInv,
     NoReply
<1>10. ASSUME NEW t \in Transfers, Closed(t) PROVE VerdictInv'
  BY <1>10, NobodyAssumption DEF Closed, Goto, TypeInv, Flag, LockInv, VerdictInv, NoReply
<1>11. ASSUME NEW t \in Transfers, WriteFails(t) PROVE VerdictInv'
  BY <1>11, NobodyAssumption DEF WriteFails, Goto, TypeInv, Flag, LockInv, VerdictInv, NoReply
<1>12. ASSUME NEW t \in Transfers, Cancel(t) PROVE VerdictInv'
  BY <1>12, NobodyAssumption DEF Cancel, Goto, TypeInv, Flag, LockInv, VerdictInv, NoReply
<1>13. ASSUME NEW reply \in owed, Replies(reply) PROVE VerdictInv'
  BY <1>13, NobodyAssumption DEF Replies, Accept, TypeInv, Flag, LockInv, VerdictInv, NoReply
<1>14. ASSUME NEW reply \in owed, Withholds(reply) PROVE VerdictInv'
  BY <1>14, NobodyAssumption DEF Withholds, TypeInv, Flag, LockInv, VerdictInv, NoReply
<1>15. CASE Stray
  BY <1>15, NobodyAssumption DEF Stray, Accept, TypeInv, Flag, LockInv, VerdictInv, NoReply
<1>16. CASE TransportReplyHangs
  BY <1>16, NobodyAssumption DEF TransportReplyHangs, TypeInv, Flag, LockInv, VerdictInv, NoReply
<1>17. CASE LinkDrops
  BY <1>17, NobodyAssumption DEF LinkDrops, TypeInv, Flag, LockInv, VerdictInv, NoReply
<1>18. CASE Disconnect
  BY <1>18, NobodyAssumption DEF Disconnect, TypeInv, Flag, LockInv, VerdictInv, NoReply
<1>19. CASE UNCHANGED vars
  BY <1>19, NobodyAssumption DEF vars, TypeInv, Flag, LockInv, VerdictInv, NoReply
<1>20. QED
  BY <1>1, <1>2, <1>3, <1>4, <1>5, <1>6, <1>7, <1>8, <1>9, <1>10, <1>11, <1>12, <1>13, <1>14,
     <1>15, <1>16, <1>17, <1>18, <1>19 DEF Next, Send

\* A Ready that is repeated, and any notification that is no 0xF0, leaves the
\* wait for the DataAck alone.
THEOREM ReadyEndsNoAckWait == Spec => []ReadyIsNoVerdict
<1>1. Init => VerdictInv
  BY DEF Init, VerdictInv
<1>2. VerdictInv => ReadyIsNoVerdict
  BY DEF VerdictInv, ReadyIsNoVerdict
<1>3. QED
  BY <1>1, <1>2, LockHolds, VerdictStep, PTL DEF Spec

-----------------------------------------------------------------------------
(* A failure is the last transfer of its session *)

\* Inductive: the session is invalid from the step that gives up the transfer,
\* under the lock, and nobody is under way once the lock is free again.
FailureInv ==
  \A t \in Transfers \ Probes :
    /\ pc[t] \in {"closing", "failed"} => invalid
    /\ pc[t] = "failed" => \A u \in Transfers : pc[u] \notin Holding

\* Every step keeps a session that failed from being used.
LEMMA FailureStep == TypeInv /\ LockInv /\ FailureInv /\ [Next]_vars => FailureInv'
<1> SUFFICES ASSUME TypeInv, LockInv, FailureInv, [Next]_vars PROVE FailureInv'
  OBVIOUS
<1>1. ASSUME NEW t \in Transfers, Call(t) PROVE FailureInv'
  BY <1>1, NobodyAssumption DEF Call, Goto, TypeInv, Flag, LockInv, FailureInv
<1>2. ASSUME NEW t \in Transfers, CancelQueued(t) PROVE FailureInv'
  BY <1>2, NobodyAssumption DEF CancelQueued, Goto, TypeInv, Flag, LockInv, FailureInv
<1>3. ASSUME NEW t \in Transfers, Start(t) PROVE FailureInv'
  BY <1>3, NobodyAssumption DEF Start, Goto, Written, NoReply, TypeInv, Flag, LockInv, FailureInv
<1>4. ASSUME NEW t \in Transfers, WriteReturns(t) PROVE FailureInv'
  BY <1>4, NobodyAssumption DEF WriteReturns, Goto, TypeInv, Flag, LockInv, FailureInv
<1>5. ASSUME NEW t \in Transfers, GetsReady(t) PROVE FailureInv'
  BY <1>5, NobodyAssumption DEF GetsReady, Goto, Written, NoReply, TypeInv, Flag, LockInv,
     FailureInv
<1>6. ASSUME NEW t \in Transfers, GetsAck(t) PROVE FailureInv'
  BY <1>6, NobodyAssumption DEF GetsAck, Goto, TypeInv, Flag, LockInv, FailureInv
<1>7. ASSUME NEW t \in Transfers, ReplyTimesOut(t) PROVE FailureInv'
  BY <1>7, NobodyAssumption DEF ReplyTimesOut, Goto, TypeInv, Flag, LockInv, FailureInv
<1>8. ASSUME NEW t \in Transfers, Settles(t) PROVE FailureInv'
  BY <1>8, NobodyAssumption DEF Settles, Goto, TypeInv, Flag, LockInv, FailureInv
<1>9. ASSUME NEW t \in Transfers, Leave(t) PROVE FailureInv'
  BY <1>9, NobodyAssumption DEF Leave, Goto, Result, NoReply, TypeInv, Flag, LockInv, FailureInv
<1>10. ASSUME NEW t \in Transfers, Closed(t) PROVE FailureInv'
  BY <1>10, NobodyAssumption DEF Closed, Goto, TypeInv, Flag, LockInv, FailureInv
<1>11. ASSUME NEW t \in Transfers, WriteFails(t) PROVE FailureInv'
  BY <1>11, NobodyAssumption DEF WriteFails, Goto, TypeInv, Flag, LockInv, FailureInv
<1>12. ASSUME NEW t \in Transfers, Cancel(t) PROVE FailureInv'
  BY <1>12, NobodyAssumption DEF Cancel, Goto, TypeInv, Flag, LockInv, FailureInv
<1>13. ASSUME NEW reply \in owed, Replies(reply) PROVE FailureInv'
  BY <1>13, NobodyAssumption DEF Replies, Accept, TypeInv, Flag, LockInv, FailureInv
<1>14. ASSUME NEW reply \in owed, Withholds(reply) PROVE FailureInv'
  BY <1>14, NobodyAssumption DEF Withholds, TypeInv, Flag, LockInv, FailureInv
<1>15. CASE Stray
  BY <1>15, NobodyAssumption DEF Stray, Accept, TypeInv, Flag, LockInv, FailureInv
<1>16. CASE TransportReplyHangs
  BY <1>16, NobodyAssumption DEF TransportReplyHangs, TypeInv, Flag, LockInv, FailureInv
<1>17. CASE LinkDrops
  BY <1>17, NobodyAssumption DEF LinkDrops, TypeInv, Flag, LockInv, FailureInv
<1>18. CASE Disconnect
  BY <1>18, NobodyAssumption DEF Disconnect, TypeInv, Flag, LockInv, FailureInv
<1>19. CASE UNCHANGED vars
  BY <1>19, NobodyAssumption DEF vars, TypeInv, Flag, LockInv, FailureInv
<1>20. QED
  BY <1>1, <1>2, <1>3, <1>4, <1>5, <1>6, <1>7, <1>8, <1>9, <1>10, <1>11, <1>12, <1>13, <1>14,
     <1>15, <1>16, <1>17, <1>18, <1>19 DEF Next, Send

\* The invariant behind the two theorems below.
THEOREM FailureHolds == Spec => []FailureInv
<1>1. Init => FailureInv
  BY DEF Init, FailureInv
<1>2. QED
  BY <1>1, LockHolds, FailureStep, PTL DEF Spec

\* No transfer is ever under way after one that failed and was no probe.
THEOREM FailureIsTheLast == Spec => []NothingFollowsAFailure
<1>1. FailureInv => NothingFollowsAFailure
  BY DEF FailureInv, NothingFollowsAFailure
<1>2. QED
  BY <1>1, FailureHolds, PTL

-----------------------------------------------------------------------------
(* Whose acknowledgement it is *)

AckOf(t) == [op |-> "Ack", of |-> t]

\* Inductive, while no probe was given up: the panel owes a DataAck only to a
\* transfer that is under way or has ended the session; the one that was taken
\* is not owed any more and belongs to the transfer that waits.
OwnInv ==
  (\A p \in Probes : pc[p] # "failed") =>
    /\ \A t \in Transfers : AckOf(t) \in owed =>
         /\ pc[t] \in {"payload", "ack", "settle", "leave", "closing", "failed"}
         /\ success[t] = Nobody /\ ack # AckOf(t)
    /\ ack.op = "Ack" => ack.of = lock
    /\ \A t \in Transfers : success[t] # Nobody =>
         success[t] = t /\ pc[t] \in {"settle", "leave", "acked"}
    /\ \A t \in Transfers : pc[t] = "acked" => success[t] # Nobody

\* Every step keeps the replies with their transfers.
LEMMA OwnStep == TypeInv /\ LockInv /\ FailureInv /\ OwnInv /\ [Next]_vars => OwnInv'
<1> SUFFICES ASSUME TypeInv, LockInv, FailureInv, OwnInv, [Next]_vars PROVE OwnInv'
  OBVIOUS
<1>1. ASSUME NEW t \in Transfers, Call(t) PROVE OwnInv'
  BY <1>1, NobodyAssumption, ProbesAssumption DEF Call, Goto, TypeInv, Flag, LockInv, FailureInv,
     OwnInv, AckOf, Reply, NoReply
<1>2. ASSUME NEW t \in Transfers, CancelQueued(t) PROVE OwnInv'
  BY <1>2, NobodyAssumption, ProbesAssumption DEF CancelQueued, Goto, TypeInv, Flag, LockInv,
     FailureInv, OwnInv, AckOf, Reply, NoReply
<1>3. ASSUME NEW t \in Transfers, Start(t) PROVE OwnInv'
  BY <1>3, NobodyAssumption, ProbesAssumption DEF Start, Goto, Written, NoReply, TypeInv, Flag,
     LockInv, FailureInv, OwnInv, AckOf, Reply, NoReply
<1>4. ASSUME NEW t \in Transfers, WriteReturns(t) PROVE OwnInv'
  BY <1>4, NobodyAssumption, ProbesAssumption DEF WriteReturns, Goto, TypeInv, Flag, LockInv,
     FailureInv, OwnInv, AckOf, Reply, NoReply
<1>5. ASSUME NEW t \in Transfers, GetsReady(t) PROVE OwnInv'
  BY <1>5, NobodyAssumption, ProbesAssumption DEF GetsReady, Goto, Written, NoReply, TypeInv,
     Flag, LockInv, FailureInv, OwnInv, AckOf, Reply, NoReply
<1>6. ASSUME NEW t \in Transfers, GetsAck(t) PROVE OwnInv'
  BY <1>6, NobodyAssumption, ProbesAssumption DEF GetsAck, Goto, TypeInv, Flag, LockInv,
     FailureInv, OwnInv, AckOf, Reply, NoReply
<1>7. ASSUME NEW t \in Transfers, ReplyTimesOut(t) PROVE OwnInv'
  BY <1>7, NobodyAssumption, ProbesAssumption DEF ReplyTimesOut, Goto, TypeInv, Flag, LockInv,
     FailureInv, OwnInv, AckOf, Reply, NoReply
<1>8. ASSUME NEW t \in Transfers, Settles(t) PROVE OwnInv'
  BY <1>8, NobodyAssumption, ProbesAssumption DEF Settles, Goto, TypeInv, Flag, LockInv,
     FailureInv, OwnInv, AckOf, Reply, NoReply
<1>9. ASSUME NEW t \in Transfers, Leave(t) PROVE OwnInv'
  BY <1>9, NobodyAssumption, ProbesAssumption DEF Leave, Goto, Result, NoReply, TypeInv, Flag,
     LockInv, FailureInv, OwnInv, AckOf, Reply, NoReply
<1>10. ASSUME NEW t \in Transfers, Closed(t) PROVE OwnInv'
  BY <1>10, NobodyAssumption, ProbesAssumption DEF Closed, Goto, TypeInv, Flag, LockInv,
     FailureInv, OwnInv, AckOf, Reply, NoReply
<1>11. ASSUME NEW t \in Transfers, WriteFails(t) PROVE OwnInv'
  BY <1>11, NobodyAssumption, ProbesAssumption DEF WriteFails, Goto, TypeInv, Flag, LockInv,
     FailureInv, OwnInv, AckOf, Reply, NoReply
<1>12. ASSUME NEW t \in Transfers, Cancel(t) PROVE OwnInv'
  BY <1>12, NobodyAssumption, ProbesAssumption DEF Cancel, Goto, TypeInv, Flag, LockInv,
     FailureInv, OwnInv, AckOf, Reply, NoReply
<1>13. ASSUME NEW reply \in owed, Replies(reply) PROVE OwnInv'
  BY <1>13, NobodyAssumption, ProbesAssumption DEF Replies, Accept, TypeInv, Flag, LockInv,
     FailureInv, OwnInv, AckOf, Reply, NoReply
<1>14. ASSUME NEW reply \in owed, Withholds(reply) PROVE OwnInv'
  BY <1>14, NobodyAssumption, ProbesAssumption DEF Withholds, TypeInv, Flag, LockInv, FailureInv,
     OwnInv, AckOf, Reply, NoReply
<1>15. CASE Stray
  BY <1>15, NobodyAssumption, ProbesAssumption DEF Stray, Accept, TypeInv, Flag, LockInv,
     FailureInv, OwnInv, AckOf, Reply, NoReply
<1>16. CASE TransportReplyHangs
  BY <1>16, NobodyAssumption, ProbesAssumption DEF TransportReplyHangs, TypeInv, Flag, LockInv,
     FailureInv, OwnInv, AckOf, Reply, NoReply
<1>17. CASE LinkDrops
  BY <1>17, NobodyAssumption, ProbesAssumption DEF LinkDrops, TypeInv, Flag, LockInv, FailureInv,
     OwnInv, AckOf, Reply, NoReply
<1>18. CASE Disconnect
  BY <1>18, NobodyAssumption, ProbesAssumption DEF Disconnect, TypeInv, Flag, LockInv, FailureInv,
     OwnInv, AckOf, Reply, NoReply
<1>19. CASE UNCHANGED vars
  BY <1>19, NobodyAssumption, ProbesAssumption DEF vars, TypeInv, Flag, LockInv, FailureInv,
     OwnInv, AckOf, Reply, NoReply
<1>20. QED
  BY <1>1, <1>2, <1>3, <1>4, <1>5, <1>6, <1>7, <1>8, <1>9, <1>10, <1>11, <1>12, <1>13, <1>14,
     <1>15, <1>16, <1>17, <1>18, <1>19 DEF Next, Send


\* A delayed DataAck never completes another transfer as long as every probe of
\* the session has been answered, whatever was cancelled, timed out or refused.
THEOREM AcksAreOwn == Spec => []AckIsOwnUntilAProbeFails
<1>1. Init => OwnInv
  BY DEF Init, OwnInv, AckOf, NoReply
<1>2. OwnInv => AckIsOwnUntilAProbeFails
  BY DEF OwnInv, AckIsOwnUntilAProbeFails
<1>3. QED
  BY <1>1, <1>2, LockHolds, FailureHolds, OwnStep, PTL DEF Spec
=============================================================================
