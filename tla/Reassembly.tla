------------------------------ MODULE Reassembly ------------------------------
(***************************************************************************)
(* The incoming half of the panel's transport: subscribing, and putting    *)
(* messages together again from notifications (TrumaBleClient._subscribe,  *)
(* _handle_cmd, _handle_data, disconnect; ble.py).                         *)
(*                                                                         *)
(* A message is announced on CMD with its length and then sent on DATA_R   *)
(* in pieces of the ATT payload.  Any notification may be lost, the panel  *)
(* may announce a message again and send it from its start, and the link   *)
(* may end amid a message.  Notifications arrive in order and each is      *)
(* handled in one step of the event loop, so sending and handling one is   *)
(* one action.  The replies on CMD have nobody waiting and are left out;   *)
(* what the replies to our own transfers do is in Transport.               *)
(*                                                                         *)
(* Bytes are counted, not named.  Of the bytes collected the model knows   *)
(* with which message's header they begin, and whether they are the first  *)
(* bytes of that message with nothing missing and nothing foreign.         *)
(***************************************************************************)
EXTENDS Messages, Sequences

CONSTANTS MaxMessages,   \* bound on messages
          MaxFaults,     \* bound on lost notifications and repeated messages
          MaxSessions    \* bound on sessions

VARIABLES
  link,        \* the GATT link and how far _subscribe has come
  size,        \* _receive_size
  buffer,      \* _receive_buffer
  said,        \* the messages of the panel so far
  now,         \* the message it is sending in this session, 0 if none
  at,          \* how many of its bytes have been sent
  damaged,     \* something of it, as sent now, did not get through
  astray,      \* an announcement was lost or, at a disconnect, forgotten
  intact,      \* messages that got through completely
  taken,       \* how many frames have been acknowledged and handed on
  frame,       \* the last of them: whose it is and how much of it
  faults, sessions

receiver == <<size, buffer>>
panel == <<said, now, at, damaged, astray, intact, faults>>
vars == <<link, receiver, panel, taken, frame, sessions>>

Empty == [bytes |-> 0, head |-> 0, exact |-> TRUE]
Serials == 1..Len(said)
LengthOf(m) == Length(said[m])
Forms == {"whole", "head", "mixed", "tail"}
Smaller(a, b) == IF a < b THEN a ELSE b

TypeOK ==
  /\ link \in {"down", "connected", "cmd", "up", "closing"}
  /\ size \in Nat \cup {NoSize}
  /\ buffer \in [bytes : Nat, head : Nat, exact : BOOLEAN]
  /\ said \in Seq(Contents)
  /\ now \in Nat /\ at \in Nat
  /\ damaged \in BOOLEAN /\ astray \in BOOLEAN
  /\ intact \subseteq Serials
  /\ taken \in Nat /\ frame \in [msg : Nat, form : Forms]
  /\ faults \in Nat /\ sessions \in Nat

Init ==
  /\ link = "down"
  /\ size = NoSize /\ buffer = Empty
  /\ said = <<>> /\ now = 0 /\ at = 0 /\ damaged = FALSE /\ astray = FALSE
  /\ intact = {} /\ taken = 0 /\ frame = [msg |-> 0, form |-> "whole"]
  /\ faults = 0 /\ sessions = 0

----------------------------------------------------------------------------
(* Link and subscription.                                                  *)

\* Every session runs on a TrumaBleClient of its own.
Connect ==
  /\ link = "down" /\ sessions < MaxSessions
  /\ link' = "connected"
  /\ sessions' = sessions + 1
  /\ UNCHANGED <<receiver, panel, taken, frame>>

\* CMD first, DATA_R after it; what is notified in between is half heard.  A
\* round that fails is tried twice more and leaves CMD subscribed.
SubscribeCmd ==
  /\ link = "connected" /\ link' = "cmd"
  /\ UNCHANGED <<receiver, panel, taken, frame, sessions>>

SubscribeData ==
  /\ link = "cmd" /\ link' = "up"
  /\ UNCHANGED <<receiver, panel, taken, frame, sessions>>

\* disconnect() at the end of a session forgets the announcement and what came
\* of its message, then awaits the close, during which the link still notifies.
Disconnect ==
  /\ link = "up" /\ link' = "closing"
  /\ size' = NoSize /\ buffer' = Empty
  /\ astray' = (astray \/ size # NoSize)
  /\ damaged' = (damaged \/ size # NoSize)
  /\ UNCHANGED <<said, now, at, intact, faults, taken, frame, sessions>>

\* The link is closed or lost, and the client with it; so it is also after a
\* third failed round, with no data subscribed that could still be heard.
LinkGone ==
  /\ link # "down" /\ link' = "down"
  /\ size' = NoSize /\ buffer' = Empty
  /\ now' = 0 /\ at' = 0 /\ damaged' = FALSE
  /\ UNCHANGED <<taken, frame, sessions>>
  /\ UNCHANGED <<said, astray, intact, faults>>

----------------------------------------------------------------------------
(* The handlers.                                                           *)

CmdHeard == link \in {"cmd", "up", "closing"}
DataHeard == link \in {"up", "closing"}

\* A piece of message m: its bytes from+1 to from+count.
Piece(m, from, count) == [msg |-> m, from |-> from, count |-> count]

Extended(b, p) ==
  [bytes |-> b.bytes + p.count,
   head  |-> IF b.bytes > 0 THEN b.head ELSE IF p.from = 0 THEN p.msg ELSE 0,
   exact |-> IF b.bytes > 0 THEN b.exact /\ b.head = p.msg /\ b.bytes = p.from
                            ELSE p.from = 0]

\* What parse_v3_frame gets: a message; the first part of one; the first part
\* of one with other bytes after it; or bytes from amid a message, read as if
\* they were a header.
FrameOf(b) ==
  [msg |-> b.head,
   form |-> IF b.head = 0 THEN "tail"
            ELSE IF ~b.exact THEN "mixed"
            ELSE IF b.bytes = LengthOf(b.head) THEN "whole" ELSE "head"]

\* A change of the code that Inbound's run must notice: appending to what is
\* there.
HandleAnnouncementAppending(length) == size' = length /\ UNCHANGED buffer

\* _handle_cmd: every announcement starts over.
HandleAnnouncement(length) == size' = length /\ buffer' = Empty

\* The acknowledgement, the parser and the callbacks.
HandOn(b) == taken' = taken + 1 /\ frame' = FrameOf(b)

\* _handle_data: without an announcement a notification is a frame; with one
\* the frame is complete at exactly the announced length.
HandleData(p) ==
  LET b == Extended(buffer, p) IN
  \/ /\ size = NoSize
     /\ HandOn(Extended(Empty, p)) /\ UNCHANGED receiver
  \/ /\ size # NoSize /\ b.bytes < size
     /\ buffer' = b /\ UNCHANGED <<size, taken, frame>>
  \/ /\ size # NoSize /\ b.bytes >= size
     /\ size' = NoSize /\ buffer' = Empty
     /\ IF b.bytes = size THEN HandOn(b) ELSE UNCHANGED <<taken, frame>>

----------------------------------------------------------------------------
(* The panel.                                                              *)

Faults(n) == faults + n <= MaxFaults /\ faults' = faults + n

\* The announcement of a message reaches the handler, or does not.
Announce(length, repeated) ==
  /\ at' = 0
  /\ \/ /\ HandleAnnouncement(length)
        /\ damaged' = FALSE /\ Faults(repeated) /\ UNCHANGED astray
     \/ /\ damaged' = TRUE /\ astray' = TRUE /\ Faults(repeated + 1)
        /\ UNCHANGED receiver

\* A new message, whatever became of the one before.
Say(c) ==
  /\ CmdHeard /\ Len(said) < MaxMessages
  /\ said' = Append(said, c) /\ now' = Len(said')
  /\ Announce(Length(c), 0)
  /\ UNCHANGED <<link, intact, taken, frame, sessions>>

\* The message announced again and sent from its start, amid its pieces or
\* because its acknowledgement did not get through.
SayAgain ==
  /\ CmdHeard /\ now # 0
  /\ Announce(LengthOf(now), 1)
  /\ UNCHANGED <<link, said, now, intact, taken, frame, sessions>>

\* The next piece of the message is notified.
SendPiece ==
  /\ CmdHeard /\ now # 0 /\ at < LengthOf(now)
  /\ LET count == Smaller(Payload, LengthOf(now) - at)
     IN  /\ at' = at + count
         /\ \/ /\ DataHeard /\ HandleData(Piece(now, at, count))
               /\ intact' = IF at' = LengthOf(now) /\ ~damaged
                            THEN intact \cup {now} ELSE intact
               /\ UNCHANGED <<damaged, faults>>
            \/ /\ Faults(IF DataHeard THEN 1 ELSE 0)
               /\ damaged' = TRUE
               /\ UNCHANGED <<receiver, taken, frame, intact>>
  /\ UNCHANGED <<link, said, now, astray, faults, sessions>>

Other ==
  \/ Connect \/ SubscribeCmd \/ SubscribeData
  \/ Disconnect \/ LinkGone \/ SayAgain \/ SendPiece

Next == Other \/ \E c \in Contents : Say(c)

Spec == Init /\ [][Next]_vars

----------------------------------------------------------------------------
(* Properties.                                                             *)

\* As long as no announcement was lost or forgotten, what is handed to the
\* callbacks is a message of the panel, whole: never a fragment, never
\* pieces of two messages, whatever else was lost or sent again (_handle_data).
WholeUnlessAstray == ~astray => frame.form = "whole"

\* The abstract link: Delivery, with the message of each frame taken whole.
Link == INSTANCE Delivery WITH
  offered <- Len(said),
  taken <- taken,
  latest <- IF frame.form = "whole" THEN frame.msg ELSE 0,
  sure <- ~astray

ImplementsDelivery == Link!Spec
=============================================================================
