----------------------------- MODULE InboundProofs -----------------------------
(***************************************************************************)
(* Proofs about Inbound and the receiver in it, for every set of contents  *)
(* and frames, any message lengths, payload, devices, rows and numbers of  *)
(* messages, faults, sessions and reloads.                                 *)
(*                                                                         *)
(* The receiver first: its invariant says where in the message under way   *)
(* the buffer stands as long as no announcement has gone missing.  It      *)
(* gives its types, that only whole messages are handed on until then, and *)
(* the refinement of Delivery.                                             *)
(*                                                                         *)
(* Then what one frame makes of the bus (Filed), by induction over its     *)
(* entries, and from that what the bus, the entities and the registry are  *)
(* at any time: the invariant ties each value and each description on the  *)
(* bus to a message of its device, and the client's address to the one the *)
(* panel gave.                                                             *)
(***************************************************************************)
EXTENDS Inbound, FiniteSetTheorems, TLAPS

(* The receiver *)

\* The message under way is the latest.
LatestOnly == now \in {0, Len(said)}

\* No more of it is sent than there is.
SentWithin == now # 0 => at <= Wire!LengthOf(now)

\* Buffer and frame are of messages that were said.
Known == buffer.head \in 0..Len(said) /\ frame.msg \in 0..Len(said)

\* Until an announcement goes missing, the receiver awaits the length of the
\* message under way, and what it holds are that message's first bytes, all of
\* them if none was lost.
InStep ==
  ~astray =>
    /\ frame.form = "whole"
    /\ size # NoSize =>
         /\ now # 0 /\ size = Wire!LengthOf(now)
         /\ buffer.bytes <= at
         /\ buffer.bytes = at /\ at > 0 => buffer.exact /\ buffer.head = now
    /\ size = NoSize /\ now # 0 => at = Wire!LengthOf(now)

WireInv == Wire!TypeOK /\ LatestOnly /\ SentWithin /\ Known /\ InStep

\* What is collected stays a counted piece of a known message.
LEMMA ExtendedType ==
  ASSUME NEW b \in [bytes : Nat, head : Nat, exact : BOOLEAN],
         NEW m \in Nat, NEW from \in Nat, NEW count \in Nat
  PROVE  /\ Wire!Extended(b, Wire!Piece(m, from, count)) \in [bytes : Nat, head : Nat, exact : BOOLEAN]
         /\ Wire!Extended(b, Wire!Piece(m, from, count)).bytes = b.bytes + count
         /\ Wire!Extended(b, Wire!Piece(m, from, count)).head \in {b.head, m, 0}
<1> DEFINE h == IF b.bytes > 0 THEN b.head ELSE IF from = 0 THEN m ELSE 0
           e == IF b.bytes > 0 THEN b.exact /\ b.head = m /\ b.bytes = from ELSE from = 0
           n == b.bytes + count
<1>1. Wire!Extended(b, Wire!Piece(m, from, count)) = [bytes |-> n, head |-> h, exact |-> e]
  BY Zenon DEF Wire!Extended, Wire!Piece
<1>2. e \in BOOLEAN
  BY Zenon
<1>3. n \in Nat /\ h \in Nat /\ h \in {b.head, m, 0}
  OBVIOUS
<1> HIDE DEF h, e, n
<1>4. [bytes |-> n, head |-> h, exact |-> e] \in [bytes : Nat, head : Nat, exact : BOOLEAN]
  BY <1>2, <1>3
<1>5. Wire!Extended(b, Wire!Piece(m, from, count)).bytes = n /\ Wire!Extended(b, Wire!Piece(m, from, count)).head = h
  BY <1>1
<1> QED
  BY <1>1, <1>3, <1>4, <1>5 DEF n

\* So it begins.
LEMMA EmptyType == Wire!Empty \in [bytes : Nat, head : Nat, exact : BOOLEAN]
<1> DEFINE t == TRUE
<1>1. t \in BOOLEAN
  BY Zenon
<1> HIDE DEF t
<1>2. [bytes |-> 0, head |-> 0, exact |-> t] \in [bytes : Nat, head : Nat, exact : BOOLEAN]
  BY <1>1
<1> QED
  BY <1>2 DEF Wire!Empty, t

\* What is handed on is a frame of a known message.
LEMMA FrameType ==
  ASSUME NEW b \in [bytes : Nat, head : Nat, exact : BOOLEAN]
  PROVE  Wire!FrameOf(b) \in [msg : Nat, form : Wire!Forms] /\ Wire!FrameOf(b).msg = b.head
BY DEF Wire!FrameOf, Wire!Forms

\* A message under way has a length.
LEMMA LengthType ==
  ASSUME Wire!TypeOK, NEW m \in Wire!Serials
  PROVE  Wire!LengthOf(m) \in Nat \ {0}
BY LengthAssumption DEF Wire!TypeOK, Wire!Serials, Wire!LengthOf

\* The next piece is not empty and stays within the message.
LEMMA PieceFits ==
  ASSUME WireInv, now # 0, at < Wire!LengthOf(now)
  PROVE  /\ Wire!LengthOf(now) \in Nat \ {0}
         /\ Wire!Smaller(Payload, Wire!LengthOf(now) - at) \in Nat \ {0}
         /\ at + Wire!Smaller(Payload, Wire!LengthOf(now) - at) <= Wire!LengthOf(now)
<1>1. now \in Wire!Serials /\ at \in Nat
  BY DEF WireInv, Wire!TypeOK, LatestOnly, Wire!Serials
<1>2. Wire!LengthOf(now) \in Nat \ {0}
  BY <1>1, LengthType DEF WireInv
<1> QED
  BY <1>1, <1>2, PayloadAssumption DEF Wire!Smaller

\* What a piece makes of a buffer that is in step: it stays so.
LEMMA ExtendedInStep ==
  ASSUME NEW b \in [bytes : Nat, head : Nat, exact : BOOLEAN],
         NEW m \in Nat, NEW from \in Nat, NEW count \in Nat \ {0},
         b.bytes = from,
         from > 0 => b.exact /\ b.head = m
  PROVE  Wire!Extended(b, Wire!Piece(m, from, count)).exact /\ Wire!Extended(b, Wire!Piece(m, from, count)).head = m
<1>1. CASE from > 0
  <2>1. b.bytes > 0 /\ b.exact /\ b.head = m /\ b.bytes = from
    BY <1>1
  <2> QED
    BY <2>1, Zenon DEF Wire!Extended, Wire!Piece
<1>2. CASE from = 0
  <2>1. ~(b.bytes > 0)
    BY <1>2
  <2> QED
    BY <1>2, <2>1, Zenon DEF Wire!Extended, Wire!Piece
<1> QED
  BY <1>1, <1>2

-----------------------------------------------------------------------------
(* The invariant *)

\* Nothing has been said and nothing is awaited.
LEMMA InitWireInv == Wire!Init => WireInv
<1> SUFFICES ASSUME Wire!Init PROVE WireInv
  OBVIOUS
<1>1. Wire!Empty \in [bytes : Nat, head : Nat, exact : BOOLEAN]
  BY EmptyType
<1>2. damaged \in BOOLEAN /\ astray \in BOOLEAN /\ buffer = Wire!Empty
  BY Zenon DEF Wire!Init
<1>3. frame \in [msg : Nat, form : Wire!Forms]
  BY DEF Wire!Init, Wire!Forms
<1>4. Wire!TypeOK
  BY <1>1, <1>2, <1>3 DEF Wire!Init, Wire!TypeOK, Wire!Serials
<1> QED
  BY <1>4 DEF Wire!Init, WireInv, LatestOnly, SentWithin, Known, InStep, Wire!Empty

\* Nothing the receiver or the panel is concerned with.
LEMMA QuietStep ==
  ASSUME WireInv, UNCHANGED <<Wire!receiver, Wire!panel, taken, frame>>,
         link' \in {"down", "connected", "cmd", "up", "closing"}, sessions' \in Nat
  PROVE  WireInv'
BY DEF WireInv, Wire!TypeOK, LatestOnly, SentWithin, Known, InStep, Wire!receiver, Wire!panel, Wire!Serials, Wire!LengthOf

\* A subscription's progress.
LEMMA LinkSteps ==
  ASSUME WireInv, Wire!Connect \/ Wire!SubscribeCmd \/ Wire!SubscribeData
  PROVE  WireInv'
<1>1. sessions' \in Nat
  BY DEF WireInv, Wire!TypeOK, Wire!Connect, Wire!SubscribeCmd, Wire!SubscribeData
<1> QED
  BY <1>1, QuietStep DEF Wire!Connect, Wire!SubscribeCmd, Wire!SubscribeData

\* A disconnect forgets an announcement only at the price of being astray.
LEMMA DisconnectStep ==
  ASSUME WireInv, Wire!Disconnect PROVE WireInv'
<1>1. buffer' \in [bytes : Nat, head : Nat, exact : BOOLEAN] /\ buffer' = Wire!Empty
  BY EmptyType, Zenon DEF Wire!Disconnect
<1>2. astray' \in BOOLEAN /\ damaged' \in BOOLEAN
  BY Zenon DEF Wire!Disconnect
<1>3. Wire!TypeOK'
  BY <1>1, <1>2 DEF WireInv, Wire!TypeOK, Wire!Disconnect, Wire!Serials
<1>4. astray' = FALSE => size = NoSize /\ astray = FALSE
  BY Zenon DEF Wire!Disconnect, WireInv, Wire!TypeOK
<1>5. InStep'
  BY <1>4 DEF Wire!Disconnect, WireInv, InStep, Wire!LengthOf, Wire!TypeOK
<1> QED
  BY <1>1, <1>3, <1>5 DEF WireInv, LatestOnly, SentWithin, Known, Wire!Disconnect, Wire!Empty, Wire!LengthOf
\* The link's end leaves nothing under way.
LEMMA LinkGoneStep ==
  ASSUME WireInv, Wire!LinkGone PROVE WireInv'
<1>1. buffer' \in [bytes : Nat, head : Nat, exact : BOOLEAN] /\ buffer' = Wire!Empty
  BY EmptyType, Zenon DEF Wire!LinkGone
<1>2. damaged' \in BOOLEAN
  BY Zenon DEF Wire!LinkGone
<1>3. Wire!TypeOK'
  BY <1>1, <1>2 DEF WireInv, Wire!TypeOK, Wire!LinkGone, Wire!Serials
<1>4. InStep'
  BY DEF Wire!LinkGone, WireInv, InStep
<1> QED
  BY <1>1, <1>3, <1>4 DEF WireInv, LatestOnly, SentWithin, Known, Wire!LinkGone, Wire!Empty

\* An announcement of the message now under way sets the receiver to it, or
\* leaves it astray.
LEMMA AnnounceStep ==
  ASSUME WireInv, NEW m \in Nat, NEW length \in Nat, NEW repeated \in Nat,
         Wire!Announce(length, repeated), UNCHANGED <<taken, frame, sessions, link, intact>>,
         said' \in Seq(Contents), Len(said') >= Len(said),
         now' = Len(said'), now' # 0, Wire!LengthOf(now)' = length
  PROVE  WireInv'
<1>1. CASE Wire!HandleAnnouncement(length) /\ damaged' = FALSE /\ Wire!Faults(repeated) /\ UNCHANGED astray
  <2>1. buffer' = Wire!Empty /\ buffer' \in [bytes : Nat, head : Nat, exact : BOOLEAN]
    BY <1>1, EmptyType, Zenon DEF Wire!HandleAnnouncement
  <2>2. damaged' \in BOOLEAN /\ astray' \in BOOLEAN
    BY <1>1, Zenon DEF WireInv, Wire!TypeOK
  <2>3. size' = length /\ faults' \in Nat /\ at' = 0
    BY <1>1 DEF Wire!HandleAnnouncement, Wire!Faults, WireInv, Wire!TypeOK, Wire!Announce
  <2>4. Wire!TypeOK'
    BY <2>1, <2>2, <2>3 DEF WireInv, Wire!TypeOK, Wire!Serials
  <2>5. InStep'
    BY <1>1, <2>1, <2>3, NoSizeAssumption DEF WireInv, InStep, Wire!Empty
  <2> QED
    BY <2>1, <2>3, <2>4, <2>5 DEF WireInv, LatestOnly, SentWithin, Known, Wire!Empty, Wire!TypeOK
<1>2. CASE damaged' = TRUE /\ astray' = TRUE /\ Wire!Faults(repeated + 1) /\ UNCHANGED Wire!receiver
  <2>1. damaged' \in BOOLEAN /\ astray' \in BOOLEAN
    BY <1>2, Zenon
  <2>2. buffer' = buffer /\ size' = size /\ faults' \in Nat /\ at' = 0
    BY <1>2 DEF Wire!receiver, Wire!Faults, WireInv, Wire!TypeOK, Wire!Announce
  <2>3. Wire!TypeOK'
    BY <2>1, <2>2 DEF WireInv, Wire!TypeOK, Wire!Serials
  <2>4. InStep'
    BY <1>2, Zenon DEF InStep
  <2> QED
    BY <2>2, <2>3, <2>4 DEF WireInv, LatestOnly, SentWithin, Known, Wire!TypeOK
<1> QED
  BY <1>1, <1>2 DEF Wire!Announce

\* A new message.
LEMMA SayStep ==
  ASSUME WireInv, NEW c \in Contents, Wire!Say(c) PROVE WireInv'
<1>1. said' \in Seq(Contents) /\ Len(said') = Len(said) + 1 /\ said'[Len(said')] = c
  BY DEF Wire!Say, WireInv, Wire!TypeOK
<1>2. now' = Len(said') /\ now' # 0 /\ Wire!LengthOf(now)' = Length(c) /\ Length(c) \in Nat
  BY <1>1, LengthAssumption DEF Wire!Say, Wire!LengthOf, WireInv, Wire!TypeOK
<1>3. UNCHANGED <<taken, frame, sessions, link, intact>> /\ Wire!Announce(Length(c), 0)
  BY DEF Wire!Say
<1>4. Len(said') >= Len(said)
  BY <1>1 DEF WireInv, Wire!TypeOK
<1> QED
  BY <1>1, <1>2, <1>3, <1>4, AnnounceStep

\* The same message again.
LEMMA SayAgainStep ==
  ASSUME WireInv, Wire!SayAgain PROVE WireInv'
<1>1. UNCHANGED <<taken, frame, sessions, link, intact, said, now>> /\ Wire!Announce(Wire!LengthOf(now), 1)
  BY DEF Wire!SayAgain
<1>2. now' = Len(said') /\ now' # 0 /\ Wire!LengthOf(now)' = Wire!LengthOf(now)
  BY <1>1 DEF Wire!SayAgain, WireInv, LatestOnly, Wire!LengthOf
<1>3. Wire!LengthOf(now) \in Nat /\ said' \in Seq(Contents) /\ Len(said') >= Len(said)
  BY <1>1, <1>2, LengthType DEF WireInv, Wire!TypeOK, Wire!Serials
<1> QED
  BY <1>1, <1>2, <1>3, AnnounceStep

\* A piece that gets through while the receiver is in step is collected, or
\* completes its message.
LEMMA PieceHandled ==
  ASSUME WireInv, astray = FALSE, now # 0, at < Wire!LengthOf(now),
         NEW count, count = Wire!Smaller(Payload, Wire!LengthOf(now) - at),
         Wire!HandleData(Wire!Piece(now, at, count))
  PROVE  \/ /\ buffer' = Wire!Extended(buffer, Wire!Piece(now, at, count)) /\ buffer'.bytes <= at + count
            /\ size' = size /\ size # NoSize /\ UNCHANGED <<taken, frame>>
            /\ buffer'.bytes = at + count => buffer'.exact /\ buffer'.head = now
         \/ /\ size' = NoSize /\ buffer' = Wire!Empty /\ at + count = Wire!LengthOf(now)
            /\ taken' = taken + 1 /\ frame'.form = "whole" /\ frame'.msg = now
<1> DEFINE b == Wire!Extended(buffer, Wire!Piece(now, at, count))
<1>1. /\ count \in Nat \ {0} /\ at + count <= Wire!LengthOf(now) /\ Wire!LengthOf(now) \in Nat
      /\ now \in Nat /\ at \in Nat
      /\ buffer \in [bytes : Nat, head : Nat, exact : BOOLEAN]
  BY PieceFits DEF WireInv, Wire!TypeOK
<1>2. size # NoSize /\ size = Wire!LengthOf(now) /\ buffer.bytes <= at
  BY <1>1 DEF WireInv, InStep
<1>3. b.bytes = buffer.bytes + count /\ b \in [bytes : Nat, head : Nat, exact : BOOLEAN]
  <2>1. /\ count \in Nat /\ buffer \in [bytes : Nat, head : Nat, exact : BOOLEAN]
        /\ now \in Nat /\ at \in Nat
    BY <1>1
  <2>2. Wire!Extended(buffer, Wire!Piece(now, at, count)) \in [bytes : Nat, head : Nat, exact : BOOLEAN]
    BY <2>1, ExtendedType, Zenon
  <2>3. Wire!Extended(buffer, Wire!Piece(now, at, count)).bytes = buffer.bytes + count
    BY DEF Wire!Extended, Wire!Piece
  <2> QED
    BY <2>2, <2>3
<1>4. b.bytes = at + count => b.exact /\ b.head = now
  <2> SUFFICES ASSUME b.bytes = at + count PROVE b.exact /\ b.head = now
    OBVIOUS
  <2>1. buffer.bytes = at
    BY <1>1, <1>3
  <2>2. at > 0 => buffer.exact /\ buffer.head = now
    BY <1>2, <2>1 DEF WireInv, InStep
  <2> HIDE DEF b
  <2> QED
    BY <1>1, <2>1, <2>2, ExtendedInStep DEF b
<1>5. CASE b.bytes < size
  <2>1. buffer' = b /\ UNCHANGED <<size, taken, frame>>
    BY <1>2, <1>3, <1>5, <1>1 DEF Wire!HandleData
  <2> QED
    BY <1>1, <1>2, <1>3, <1>4, <2>1
<1>6. CASE b.bytes >= size
  <2>1. b.bytes = size /\ at + count = Wire!LengthOf(now)
    BY <1>1, <1>2, <1>3, <1>6
  <2>2. size' = NoSize /\ buffer' = Wire!Empty /\ Wire!HandOn(b)
    BY <1>2, <1>3, <1>6, <1>1, <2>1 DEF Wire!HandleData
  <2>3. b.exact /\ b.head = now
    BY <1>2, <1>4, <2>1
  <2>4. Wire!FrameOf(b) = [msg |-> now, form |-> "whole"]
    BY <1>2, <2>1, <2>3, Zenon DEF Wire!FrameOf
  <2> QED
    BY <2>1, <2>2, <2>4 DEF Wire!HandOn
<1> QED
  BY <1>1, <1>2, <1>3, <1>5, <1>6
\* A piece keeps the receiver in step, whether it gets through or not.
LEMMA SendPieceStep ==
  ASSUME WireInv, Wire!SendPiece
  PROVE  /\ WireInv'
         /\ \/ UNCHANGED <<taken, frame>>
            \/ /\ astray = TRUE /\ taken' = taken + 1
               /\ frame'.msg \in 0..Len(said)
            \/ /\ astray = FALSE /\ taken' = taken + 1 /\ Len(said) > 0
               /\ frame'.form = "whole" /\ frame'.msg = Len(said)
<1> DEFINE count == Wire!Smaller(Payload, Wire!LengthOf(now) - at)
           p == Wire!Piece(now, at, count)
           b == Wire!Extended(buffer, p)
           e == Wire!Extended(Wire!Empty, p)
<1>1. /\ now # 0 /\ now = Len(said) /\ Len(said) > 0 /\ now \in Nat /\ at \in Nat
      /\ at < Wire!LengthOf(now) /\ at' = at + count
      /\ UNCHANGED <<link, said, now, astray, sessions>>
      /\ count \in Nat \ {0} /\ at + count <= Wire!LengthOf(now) /\ Wire!LengthOf(now) \in Nat
  BY PieceFits DEF Wire!SendPiece, WireInv, Wire!TypeOK, LatestOnly
<1>2. /\ Wire!LengthOf(now)' = Wire!LengthOf(now) /\ SentWithin' /\ LatestOnly' /\ astray' \in BOOLEAN
      /\ said' \in Seq(Contents) /\ Wire!Serials' = Wire!Serials /\ now \in Wire!Serials
  BY <1>1 DEF Wire!LengthOf, SentWithin, LatestOnly, WireInv, Wire!TypeOK, Wire!Serials
<1>3. astray = TRUE \/ astray = FALSE
  BY Zenon DEF WireInv, Wire!TypeOK
<1> HIDE DEF count
<1>7. CASE UNCHANGED <<Wire!receiver, taken, frame, intact>> /\ damaged' = TRUE /\ faults' \in Nat
  <2>1. UNCHANGED <<Wire!receiver, taken, frame, intact>> /\ damaged' = TRUE /\ faults' \in Nat
    BY <1>7
  <2>2. damaged' \in BOOLEAN
    BY <2>1, Zenon
  <2>3. Wire!TypeOK'
    BY <1>1, <1>2, <2>1, <2>2 DEF WireInv, Wire!TypeOK, Wire!receiver
  <2>4. InStep'
    BY <1>1, <1>2, <2>1 DEF WireInv, InStep, Wire!receiver, Wire!TypeOK
  <2> QED
    BY <1>1, <1>2, <2>1, <2>3, <2>4 DEF WireInv, Known, Wire!receiver
<1>5. CASE Wire!DataHeard /\ Wire!HandleData(p) /\ UNCHANGED <<damaged, faults>> /\ intact' \in {intact, intact \cup {now}}
  <2>1. /\ b \in [bytes : Nat, head : Nat, exact : BOOLEAN] /\ b.head \in {buffer.head, now, 0}
        /\ e \in [bytes : Nat, head : Nat, exact : BOOLEAN] /\ e.head \in {now, 0}
    <3>1. count \in Nat /\ buffer \in [bytes : Nat, head : Nat, exact : BOOLEAN]
      BY <1>1 DEF WireInv, Wire!TypeOK
    <3>2. Wire!Empty.head = 0
      BY DEF Wire!Empty
    <3>3. /\ b \in [bytes : Nat, head : Nat, exact : BOOLEAN] /\ b.head \in {buffer.head, now, 0}
      BY <1>1, <3>1, ExtendedType, Zenon
    <3>4. /\ e \in [bytes : Nat, head : Nat, exact : BOOLEAN] /\ e.head \in {Wire!Empty.head, now, 0}
      BY <1>1, <3>1, EmptyType, ExtendedType, Zenon
    <3> QED
      BY <3>2, <3>3, <3>4
  <2>2. b.head \in 0..Len(said) /\ e.head \in 0..Len(said)
    BY <1>1, <2>1 DEF WireInv, Known
  <2> HIDE DEF b, e
  <2>3. \/ Wire!HandOn(e) /\ UNCHANGED Wire!receiver
        \/ size # NoSize /\ buffer' = b /\ UNCHANGED <<size, taken, frame>>
        \/ size' = NoSize /\ buffer' = Wire!Empty /\ (Wire!HandOn(b) \/ UNCHANGED <<taken, frame>>)
    BY <1>5, Zenon DEF Wire!HandleData, b, e
  <2>4. /\ buffer' \in [bytes : Nat, head : Nat, exact : BOOLEAN]
        /\ buffer'.head \in 0..Len(said) /\ size' \in Nat \cup {NoSize}
    <3>1. Wire!Empty.head = 0 /\ 0 \in 0..Len(said) /\ buffer.head \in 0..Len(said)
      BY <1>1 DEF Wire!Empty, WireInv, Known
    <3>2. size \in Nat \cup {NoSize} /\ buffer \in [bytes : Nat, head : Nat, exact : BOOLEAN]
      BY DEF WireInv, Wire!TypeOK
    <3>3. \/ buffer' = buffer /\ size' = size
          \/ size' = size /\ buffer' = b
          \/ size' = NoSize /\ buffer' = Wire!Empty
      BY <2>3 DEF Wire!receiver
    <3> QED
      BY <2>1, <2>2, <3>1, <3>2, <3>3, EmptyType
  <2>5. \/ UNCHANGED <<taken, frame>>
        \/ /\ taken' = taken + 1 /\ frame' \in [msg : Nat, form : Wire!Forms]
           /\ frame'.msg \in 0..Len(said)
    BY <2>1, <2>2, <2>3, FrameType, Zenon DEF Wire!HandOn
  <2>6. Wire!TypeOK' /\ Known'
    BY <1>1, <1>2, <1>5, <2>4, <2>5 DEF WireInv, Wire!TypeOK, Known
  <2>7. CASE astray = TRUE
    <3>1. InStep'
      BY <1>1, <2>7, Zenon DEF InStep
    <3> QED
      BY <1>2, <2>5, <2>6, <2>7, <3>1 DEF WireInv
  <2>8. CASE astray = FALSE
    <3>1. \/ /\ buffer' = Wire!Extended(buffer, Wire!Piece(now, at, count)) /\ buffer'.bytes <= at + count
             /\ size' = size /\ size # NoSize /\ UNCHANGED <<taken, frame>>
             /\ buffer'.bytes = at + count => buffer'.exact /\ buffer'.head = now
          \/ /\ size' = NoSize /\ buffer' = Wire!Empty /\ at + count = Wire!LengthOf(now)
             /\ taken' = taken + 1 /\ frame'.form = "whole" /\ frame'.msg = now
      BY <1>1, <1>5, <2>8, PieceHandled DEF count
    <3>2. InStep'
      BY <1>1, <1>2, <2>8, <3>1 DEF WireInv, InStep
    <3> QED
      BY <1>1, <1>2, <2>6, <2>8, <3>1, <3>2 DEF WireInv
  <2> QED
    BY <1>3, <2>7, <2>8
<1>6. \/ /\ Wire!DataHeard /\ Wire!HandleData(p) /\ UNCHANGED <<damaged, faults>>
         /\ intact' \in {intact, intact \cup {now}}
      \/ /\ Wire!Faults(IF Wire!DataHeard THEN 1 ELSE 0) /\ damaged' = TRUE
         /\ UNCHANGED <<Wire!receiver, taken, frame, intact>>
  BY Zenon DEF Wire!SendPiece, count
<1>8. Wire!Faults(IF Wire!DataHeard THEN 1 ELSE 0) => faults' \in Nat
  BY DEF Wire!Faults, WireInv, Wire!TypeOK
<1> QED
  BY <1>5, <1>6, <1>7, <1>8

\* Every step keeps the invariant.
LEMMA NextWireInv == WireInv /\ [Wire!Next]_Wire!vars => WireInv'
<1> SUFFICES ASSUME WireInv, [Wire!Next]_Wire!vars PROVE WireInv'
  OBVIOUS
<1>1. CASE Wire!Other
  BY <1>1, LinkSteps, DisconnectStep, LinkGoneStep, SayAgainStep, SendPieceStep DEF Wire!Other
<1>2. CASE \E c \in Contents : Wire!Say(c)
  BY <1>2, SayStep
<1>3. CASE UNCHANGED Wire!vars
  BY <1>3, QuietStep DEF Wire!vars, WireInv, Wire!TypeOK
<1> QED
  BY <1>1, <1>2, <1>3 DEF Wire!Next

\* The invariant of the receiver, and with it its types.
THEOREM ReceiverTypes == Wire!Spec => []Wire!TypeOK
<1>1. WireInv => Wire!TypeOK
  BY DEF WireInv
<1> QED
  BY <1>1, InitWireInv, NextWireInv, PTL DEF Wire!Spec

\* No fragment, and no two messages in one, reaches the callbacks as long as no
\* announcement went missing (_handle_data).
THEOREM WholeMessages == Wire!Spec => []Wire!WholeUnlessAstray
<1>1. WireInv => Wire!WholeUnlessAstray
  BY DEF WireInv, InStep, Wire!WholeUnlessAstray
<1> QED
  BY <1>1, InitWireInv, NextWireInv, PTL DEF Wire!Spec

-----------------------------------------------------------------------------
(* The refinement *)

\* The receiver begins as Delivery does.
LEMMA InitMaps == Wire!Init => Wire!Link!Init
BY DEF Wire!Init, Wire!Link!Init
\* An announcement heard is offered; one that is lost loses track.
LEMMA AnnounceMaps ==
  ASSUME WireInv, NEW length, NEW repeated, Wire!Announce(length, repeated),
         UNCHANGED <<taken, frame>>, Len(said') \in {Len(said), Len(said) + 1}
  PROVE  [Wire!Link!Next]_Wire!Link!vars
<1>1. astray' = TRUE \/ astray' = astray
  BY DEF Wire!Announce
<1>2. CASE astray' = TRUE
  BY <1>2 DEF Wire!Link!Next, Wire!Link!LosesTrack
<1>3. CASE astray' = astray
  BY <1>3 DEF Wire!Link!Next, Wire!Link!Offer, Wire!Link!vars
<1> QED
  BY <1>1, <1>2, <1>3

\* A frame handed on is the latest message, or anything if track was lost.
LEMMA PieceMaps ==
  ASSUME WireInv, Wire!SendPiece
  PROVE  [Wire!Link!Next]_Wire!Link!vars
<1>1. UNCHANGED <<said, astray>> /\ Len(said) \in Nat /\ frame \in [msg : Nat, form : Wire!Forms]
  BY DEF Wire!SendPiece, WireInv, Wire!TypeOK
<1>2. CASE UNCHANGED <<taken, frame>>
  BY <1>1, <1>2 DEF Wire!Link!vars
<1>3. CASE astray = TRUE /\ taken' = taken + 1 /\ frame'.msg \in 0..Len(said)
  <2>1. (IF frame'.form = "whole" THEN frame'.msg ELSE 0) \in 0..Len(said)
    BY <1>1, <1>3
  <2> QED
    BY <1>1, <1>3, <2>1 DEF Wire!Link!Next, Wire!Link!TakeAnything
<1>4. CASE /\ astray = FALSE /\ taken' = taken + 1 /\ Len(said) > 0
           /\ frame'.form = "whole" /\ frame'.msg = Len(said)
  BY <1>1, <1>4 DEF Wire!Link!Next, Wire!Link!Take
<1> QED
  BY <1>2, <1>3, <1>4, SendPieceStep

\* Every step is one of Delivery's, or none.
LEMMA NextMaps == WireInv /\ [Wire!Next]_Wire!vars => [Wire!Link!Next]_Wire!Link!vars
<1> SUFFICES ASSUME WireInv, [Wire!Next]_Wire!vars PROVE [Wire!Link!Next]_Wire!Link!vars
  OBVIOUS
<1>1. CASE Wire!Connect \/ Wire!SubscribeCmd \/ Wire!SubscribeData
  BY <1>1 DEF Wire!Connect, Wire!SubscribeCmd, Wire!SubscribeData, Wire!panel, Wire!Link!vars
<1>2. CASE Wire!LinkGone
  BY <1>2 DEF Wire!LinkGone, Wire!Link!vars
<1>3. CASE Wire!Disconnect
  <2>1. astray' = astray \/ astray' = TRUE
    BY <1>3, Zenon DEF Wire!Disconnect, WireInv, Wire!TypeOK
  <2> QED
    BY <1>3, <2>1 DEF Wire!Disconnect, Wire!Link!vars, Wire!Link!Next, Wire!Link!LosesTrack
<1>4. CASE Wire!SayAgain
  <2>1. UNCHANGED <<taken, frame, said>> /\ Wire!Announce(Wire!LengthOf(now), 1)
    BY <1>4 DEF Wire!SayAgain
  <2> QED
    BY <2>1, AnnounceMaps
<1>5. CASE Wire!SendPiece
  BY <1>5, PieceMaps
<1>6. ASSUME NEW c \in Contents, Wire!Say(c) PROVE [Wire!Link!Next]_Wire!Link!vars
  <2>1. UNCHANGED <<taken, frame>> /\ Wire!Announce(Length(c), 0) /\ Len(said') = Len(said) + 1
    BY <1>6 DEF Wire!Say, WireInv, Wire!TypeOK
  <2> QED
    BY <2>1, AnnounceMaps
<1>7. CASE UNCHANGED Wire!vars
  BY <1>7 DEF Wire!vars, Wire!panel, Wire!Link!vars
<1> QED
  BY <1>1, <1>2, <1>3, <1>4, <1>5, <1>6, <1>7 DEF Wire!Next, Wire!Other

\* The receiver implements Delivery: each frame handed to the callbacks is the
\* panel's latest message, whole, until an announcement goes missing
\* (_handle_cmd, _handle_data, disconnect).
THEOREM ReceiverImplementsDelivery == Wire!Spec => Wire!ImplementsDelivery
<1>1. Wire!Init => Wire!Link!Init
  BY InitMaps
<1>2. WireInv /\ [Wire!Next]_Wire!vars => [Wire!Link!Next]_Wire!Link!vars
  BY NextMaps
<1> QED
  BY <1>1, <1>2, InitWireInv, NextWireInv, PTL DEF Wire!Spec, Wire!ImplementsDelivery, Wire!Link!Spec

-----------------------------------------------------------------------------
(* What comes through undamaged *)

\* While a message that was announced comes through undamaged, the buffer holds
\* all that was sent of it, whatever has happened before.
Progress ==
  now # 0 /\ damaged = FALSE /\ at < Wire!LengthOf(now) =>
    /\ size = Wire!LengthOf(now) /\ buffer.bytes = at
    /\ at > 0 => buffer.exact /\ buffer.head = now

\* A message that comes through undamaged is collected from its announcement on.
LEMMA ProgressSteps ==
  ASSUME WireInv, Progress, [Wire!Next]_Wire!vars PROVE Progress'
<1>1. CASE Wire!Connect \/ Wire!SubscribeCmd \/ Wire!SubscribeData
  <2>1. UNCHANGED <<now, damaged, at, size, buffer, said>>
    BY <1>1 DEF Wire!Connect, Wire!SubscribeCmd, Wire!SubscribeData, Wire!receiver, Wire!panel
  <2> QED
    BY <2>1 DEF Progress, Wire!LengthOf
<1>2. CASE Wire!Disconnect
  <2>1. UNCHANGED <<now, at, said>> /\ (damaged' = FALSE => size = NoSize /\ damaged = FALSE)
    BY <1>2, Zenon DEF Wire!Disconnect, WireInv, Wire!TypeOK
  <2>2. now # 0 => Wire!LengthOf(now) # NoSize
    BY LengthType, NoSizeAssumption DEF WireInv, LatestOnly, Wire!TypeOK, Wire!Serials
  <2> QED
    BY <2>1, <2>2 DEF Progress, Wire!LengthOf
<1>3. CASE Wire!LinkGone
  BY <1>3 DEF Wire!LinkGone, Progress
<1>4. CASE Wire!SayAgain
  <2>1. UNCHANGED <<said, now>> /\ at' = 0
        /\ (damaged' = FALSE => size' = Wire!LengthOf(now) /\ buffer' = Wire!Empty)
    BY <1>4, Zenon DEF Wire!SayAgain, Wire!Announce, Wire!HandleAnnouncement
  <2> QED
    BY <2>1 DEF Progress, Wire!LengthOf, Wire!Empty
<1>5. ASSUME NEW c \in Contents, Wire!Say(c) PROVE Progress'
  <2>1. said' = Append(said, c) /\ now' = Len(said') /\ at' = 0
        /\ (damaged' = FALSE => size' = Length(c) /\ buffer' = Wire!Empty)
    BY <1>5, Zenon DEF Wire!Say, Wire!Announce, Wire!HandleAnnouncement
  <2>2. Wire!LengthOf(now)' = Length(c)
    BY <2>1 DEF Wire!LengthOf, WireInv, Wire!TypeOK
  <2> QED
    BY <2>1, <2>2 DEF Progress, Wire!Empty
<1>6. CASE Wire!SendPiece
  <2> SUFFICES ASSUME damaged' = FALSE, at' < Wire!LengthOf(now)'
               PROVE  /\ size' = Wire!LengthOf(now)' /\ buffer'.bytes = at'
                      /\ buffer'.exact /\ buffer'.head = now'
    BY Zenon DEF Progress
  <2> DEFINE count == Wire!Smaller(Payload, Wire!LengthOf(now) - at)
             b == Wire!Extended(buffer, Wire!Piece(now, at, count))
  <2>1. /\ now # 0 /\ now \in Nat /\ at \in Nat /\ at < Wire!LengthOf(now) /\ at' = at + count
        /\ UNCHANGED <<said, now>> /\ Wire!LengthOf(now) \in Nat
        /\ count \in Nat \ {0} /\ Wire!LengthOf(now)' = Wire!LengthOf(now)
        /\ buffer \in [bytes : Nat, head : Nat, exact : BOOLEAN]
    BY <1>6, PieceFits DEF Wire!SendPiece, WireInv, Wire!TypeOK, Wire!LengthOf
  <2> HIDE DEF count
  <2>2. damaged = FALSE /\ Wire!HandleData(Wire!Piece(now, at, count))
    BY <1>6, Zenon DEF Wire!SendPiece, count
  <2>3. size = Wire!LengthOf(now) /\ buffer.bytes = at /\ (at > 0 => buffer.exact /\ buffer.head = now)
    BY <2>1, <2>2 DEF Progress
  <2>4. size # NoSize
    BY <2>1, <2>3, NoSizeAssumption
  <2>5. b.bytes = at + count
    BY <2>3 DEF Wire!Extended, Wire!Piece
  <2>6. b.exact /\ b.head = now
    <3> HIDE DEF b
    <3> QED
      BY <2>1, <2>3, ExtendedInStep DEF b
  <2>7. ~(b.bytes >= size)
    BY <2>1, <2>3, <2>5
  <2> HIDE DEF b
  <2>8. buffer' = b /\ size' = size
    BY <2>2, <2>4, <2>7, Zenon DEF Wire!HandleData, b
  <2> QED
    BY <2>1, <2>3, <2>5, <2>6, <2>8
<1>7. CASE UNCHANGED Wire!vars
  BY <1>7 DEF Wire!vars, Wire!receiver, Wire!panel, Progress, Wire!LengthOf
<1> QED
  BY <1>1, <1>2, <1>3, <1>4, <1>5, <1>6, <1>7 DEF Wire!Next, Wire!Other

\* What a notification hands on: nothing; the message under way, whole; or, once
\* an announcement is missing, something else.  Whatever comes through is handed
\* on.
LEMMA PieceTaken ==
  ASSUME WireInv, Progress, Wire!SendPiece
  PROVE  /\ now \in Wire!Serials /\ UNCHANGED <<link, said, now, astray>>
         /\ \/ UNCHANGED <<taken, intact>>
            \/ /\ taken' # taken /\ frame' = [msg |-> now, form |-> "whole"]
               /\ intact' \in {intact, intact \cup {now}}
            \/ /\ taken' # taken /\ astray = TRUE /\ intact' = intact
               /\ frame'.form \in {"head", "mixed"} /\ frame'.msg \in {buffer.head, now} \ {0}
            \/ /\ taken' # taken /\ astray = TRUE /\ intact' = intact
               /\ frame'.form = "tail"
         /\ buffer'.head \in {buffer.head, now, 0}
<1> DEFINE count == Wire!Smaller(Payload, Wire!LengthOf(now) - at)
           p == Wire!Piece(now, at, count)
           b == Wire!Extended(buffer, p)
           e == Wire!Extended(Wire!Empty, p)
<1>1. /\ now # 0 /\ now \in Wire!Serials /\ now \in Nat /\ at \in Nat
      /\ at < Wire!LengthOf(now) /\ at' = at + count
      /\ UNCHANGED <<link, said, now, astray, sessions>>
      /\ count \in Nat \ {0} /\ at + count <= Wire!LengthOf(now) /\ Wire!LengthOf(now) \in Nat
      /\ taken \in Nat
      /\ size \in Nat \cup {NoSize}
      /\ buffer \in [bytes : Nat, head : Nat, exact : BOOLEAN]
  BY PieceFits DEF Wire!SendPiece, WireInv, Wire!TypeOK, LatestOnly, Wire!Serials
<1> HIDE DEF count
<1>2. /\ b \in [bytes : Nat, head : Nat, exact : BOOLEAN] /\ b.head \in {buffer.head, now, 0}
      /\ e \in [bytes : Nat, head : Nat, exact : BOOLEAN] /\ e.head \in {now, 0}
      /\ b.bytes = buffer.bytes + count /\ e.bytes = count
  <2>1. count \in Nat /\ Wire!Empty.head = 0 /\ Wire!Empty.bytes = 0
    BY <1>1 DEF Wire!Empty
  <2>2. /\ b \in [bytes : Nat, head : Nat, exact : BOOLEAN] /\ b.head \in {buffer.head, now, 0}
    BY <1>1, <2>1, ExtendedType, Zenon
  <2>3. /\ e \in [bytes : Nat, head : Nat, exact : BOOLEAN] /\ e.head \in {Wire!Empty.head, now, 0}
    BY <1>1, <2>1, EmptyType, ExtendedType, Zenon
  <2>4. b.bytes = buffer.bytes + count /\ e.bytes = Wire!Empty.bytes + count
    BY DEF Wire!Extended, Wire!Piece
  <2> QED
    BY <1>1, <2>1, <2>2, <2>3, <2>4
<1>3. (b.exact => b.head \in {now, 0}) /\ (e.exact => e.head = now)
  <2>1. b.exact => b.head \in {now, 0}
    BY Zenon DEF Wire!Extended, Wire!Piece
  <2>2. e.exact => e.head = now
    BY DEF Wire!Extended, Wire!Piece, Wire!Empty
  <2> QED
    BY <2>1, <2>2
<1>4. damaged = FALSE /\ at' = Wire!LengthOf(now) =>
        /\ size = Wire!LengthOf(now) /\ size # NoSize /\ b.bytes = size
        /\ b.exact /\ b.head = now
  <2> SUFFICES ASSUME damaged = FALSE, at' = Wire!LengthOf(now)
               PROVE  /\ size = Wire!LengthOf(now) /\ size # NoSize /\ b.bytes = size
                      /\ b.exact /\ b.head = now
    BY Zenon
  <2>1. size = Wire!LengthOf(now) /\ buffer.bytes = at /\ (at > 0 => buffer.exact /\ buffer.head = now)
    BY <1>1 DEF Progress
  <2>2. b.exact /\ b.head = now
    <3> HIDE DEF b
    <3> QED
      BY <1>1, <2>1, ExtendedInStep DEF b, p
  <2> HIDE DEF b
  <2> QED
    BY <1>1, <1>2, <2>1, <2>2, NoSizeAssumption
<1> HIDE DEF b, e
<1>5. astray # TRUE => taken' = taken \/ frame'.form = "whole"
  BY SendPieceStep
<1>6. \A x \in {b, e} : x.bytes > 0 =>
        \/ Wire!FrameOf(x) = [msg |-> now, form |-> "whole"]
        \/ Wire!FrameOf(x).form \in {"head", "mixed"} /\ Wire!FrameOf(x).msg \in {buffer.head, now} \ {0}
        \/ Wire!FrameOf(x).form = "tail"
  <2> SUFFICES ASSUME NEW x \in {b, e}
               PROVE \/ Wire!FrameOf(x) = [msg |-> now, form |-> "whole"]
                     \/ Wire!FrameOf(x).form \in {"head", "mixed"} /\ Wire!FrameOf(x).msg \in {buffer.head, now} \ {0}
                     \/ Wire!FrameOf(x).form = "tail"
    OBVIOUS
  <2>1. x.head \in {buffer.head, now, 0} /\ (x.exact => x.head \in {now, 0})
    BY <1>2, <1>3
  <2>2. CASE x.head = 0
    BY <2>2 DEF Wire!FrameOf
  <2>3. CASE x.head # 0 /\ ~x.exact
    BY <2>1, <2>3 DEF Wire!FrameOf
  <2>4. CASE x.head # 0 /\ x.exact
    BY <2>1, <2>4 DEF Wire!FrameOf
  <2> QED
    BY <2>2, <2>3, <2>4
<1>7. CASE Wire!DataHeard /\ Wire!HandleData(p)
           /\ intact' = (IF at' = Wire!LengthOf(now) /\ ~damaged THEN intact \cup {now} ELSE intact)
  <2>1. \/ size = NoSize /\ Wire!HandOn(e) /\ UNCHANGED Wire!receiver
        \/ size # NoSize /\ b.bytes < size /\ buffer' = b /\ UNCHANGED <<size, taken, frame>>
        \/ /\ size # NoSize /\ size' = NoSize /\ buffer' = Wire!Empty
           /\ (b.bytes = size /\ Wire!HandOn(b)) \/ (b.bytes # size /\ UNCHANGED <<taken, frame>>)
    BY <1>7, Zenon DEF Wire!HandleData, b, e
  <2>2. buffer'.head \in {buffer.head, now, 0}
    BY <1>2, <2>1 DEF Wire!receiver, Wire!Empty
  <2>3. CASE at' = Wire!LengthOf(now) /\ damaged = FALSE
    <3>1. size # NoSize /\ b.bytes = size /\ b.exact /\ b.head = now /\ size = Wire!LengthOf(now)
      BY <1>4, <2>3
    <3>2. Wire!HandOn(b) /\ Wire!FrameOf(b) = [msg |-> now, form |-> "whole"]
      <4>1. Wire!FrameOf(b) = [msg |-> now, form |-> "whole"]
        BY <1>1, <3>1, Zenon DEF Wire!FrameOf
      <4>2. ~(b.bytes < size)
        BY <1>1, <1>2, <3>1
      <4> QED
        BY <2>1, <3>1, <4>1, <4>2, Zenon
    <3>3. taken' # taken /\ frame' = [msg |-> now, form |-> "whole"]
      BY <1>1, <3>2 DEF Wire!HandOn
    <3>4. intact' \in {intact, intact \cup {now}}
      BY <1>7, Zenon
    <3> QED
      BY <1>1, <2>2, <3>3, <3>4
  <2>4. CASE ~(at' = Wire!LengthOf(now) /\ damaged = FALSE)
    <3>1. intact' = intact
      BY <1>7, <2>4, Zenon DEF WireInv, Wire!TypeOK
    <3>2. CASE UNCHANGED <<taken, frame>>
      BY <1>1, <2>2, <3>1, <3>2
    <3>3. CASE \E x \in {b, e} : Wire!HandOn(x)
      <4>1. PICK x \in {b, e} : Wire!HandOn(x)
        BY <3>3
      <4>2. taken' # taken /\ frame' = Wire!FrameOf(x) /\ x.bytes > 0
        BY <1>1, <1>2, <4>1 DEF Wire!HandOn
      <4>3. CASE Wire!FrameOf(x) = [msg |-> now, form |-> "whole"]
        BY <1>1, <2>2, <3>1, <4>2, <4>3
      <4>4. CASE Wire!FrameOf(x) # [msg |-> now, form |-> "whole"]
        <5>1. \/ frame'.form \in {"head", "mixed"} /\ frame'.msg \in {buffer.head, now} \ {0}
              \/ frame'.form = "tail"
          BY <1>6, <4>2, <4>4
        <5>2. astray = TRUE
          BY <1>5, <4>2, <5>1
        <5> QED
          BY <1>1, <2>2, <3>1, <4>2, <5>1, <5>2
      <4> QED
        BY <4>3, <4>4
    <3> QED
      BY <2>1, <3>2, <3>3
  <2> QED
    BY <2>3, <2>4
<1>8. CASE UNCHANGED <<Wire!receiver, taken, frame, intact>>
  BY <1>1, <1>8 DEF Wire!receiver
<1> QED
  BY <1>7, <1>8, Zenon DEF Wire!SendPiece, count

\* The wire starts with nothing under way.
LEMMA InitProgress == Wire!Init => Progress
BY DEF Wire!Init, Progress

-----------------------------------------------------------------------------
(* Filing a frame *)

\* Induction up to a bound: a least number missing from S would have a
\* predecessor in S, so that taking one away would map the missing ones into
\* fewer.
LEMMA UpTo ==
  ASSUME NEW N \in Nat, NEW S, 0 \in S,
         \A n \in 0..N - 1 : n \in S => n + 1 \in S
  PROVE  0..N \subseteq S
<1> DEFINE C(m) == {n \in 0..m : n \notin S}
<1> SUFFICES ASSUME NEW m \in 0..N, m \notin S PROVE FALSE
  OBVIOUS
<1>1. \A n \in C(m) : n - 1 \in C(m) \ {m}
  <2> SUFFICES ASSUME NEW n \in C(m) PROVE n - 1 \in C(m) \ {m}
    OBVIOUS
  <2>1. n \in 0..m /\ n # 0 /\ n \notin S
    OBVIOUS
  <2>2. n - 1 \in 0..N-1 /\ n - 1 \in 0..m /\ n - 1 # m /\ (n - 1) + 1 = n
    BY <2>1
  <2>3. n - 1 \notin S
    BY <2>1, <2>2
  <2> QED
    BY <2>2, <2>3
<1>2. m \in C(m) /\ C(m) \subseteq 0..m
  OBVIOUS
<1> HIDE DEF C
<1>3. IsFiniteSet(C(m)) /\ IsFiniteSet(C(m) \ {m}) /\ Cardinality(C(m) \ {m}) < Cardinality(C(m))
  <2>1. IsFiniteSet(0..m)
    BY FS_Interval
  <2>2. IsFiniteSet(C(m))
    BY <1>2, <2>1, FS_Subset
  <2>3. IsFiniteSet(C(m) \ {m}) /\ Cardinality(C(m) \ {m}) = Cardinality(C(m)) - 1
    BY <1>2, <2>2, FS_RemoveElement
  <2>4. Cardinality(C(m)) \in Nat
    BY <2>2, FS_CardinalityType
  <2> QED
    BY <2>2, <2>3, <2>4
<1> DEFINE f == [n \in C(m) |-> n - 1]
<1>4. f \in [C(m) -> C(m) \ {m}]
  BY <1>1
<1>5. PICK x, y \in C(m) : x # y /\ f[x] = f[y]
  <2> HIDE DEF f
  <2> QED
    BY <1>3, <1>4, FS_PigeonHole
<1> QED
  BY <1>2, <1>5

\* f files the first n entries.
Files(f, n, bus0, entries, src) ==
  f = [i \in 0..n |-> IF i = 0 THEN bus0 ELSE FileEntry(f[i - 1], entries[i], src)]

\* Filing is what its recursive definition says: there is such a function, up
\* to any length.
LEMMA FilingStep ==
  ASSUME NEW bus0, NEW entries, NEW src, Len(entries) \in Nat
  PROVE  LET filed == Filing(bus0, entries, src)
         IN  /\ filed[0] = bus0
             /\ \A i \in 1..Len(entries) : filed[i] = FileEntry(filed[i - 1], entries[i], src)
<1> DEFINE N == Len(entries)
           P == {n \in 0..N : \E f : Files(f, n, bus0, entries, src)}
<1>0. N \in Nat
  OBVIOUS
<1> HIDE DEF N
<1>1. 0 \in P
  <2> DEFINE f == [i \in 0..0 |-> bus0]
  <2>1. Files(f, 0, bus0, entries, src)
    BY DEF Files
  <2> HIDE DEF f
  <2> QED
    BY <1>0, <2>1
<1>2. \A n \in 0..N - 1 : n \in P => n + 1 \in P
  <2> SUFFICES ASSUME NEW n \in 0..N-1, NEW f, Files(f, n, bus0, entries, src)
               PROVE  n + 1 \in P
    OBVIOUS
  <2> DEFINE g == [i \in 0..n + 1 |-> IF i = n + 1 THEN FileEntry(f[n], entries[n + 1], src) ELSE f[i]]
  <2>1. Files(g, n + 1, bus0, entries, src)
    <3> SUFFICES ASSUME NEW i \in 0..n + 1
                 PROVE g[i] = IF i = 0 THEN bus0 ELSE FileEntry(g[i - 1], entries[i], src)
      BY Zenon DEF Files
    <3>1. CASE i = n + 1
      BY <1>0, <3>1
    <3>2. CASE i # n + 1
      <4>1. i \in 0..n /\ g[i] = f[i] /\ (i # 0 => g[i - 1] = f[i - 1])
        BY <1>0, <3>2
      <4>2. f[i] = IF i = 0 THEN bus0 ELSE FileEntry(f[i - 1], entries[i], src)
        BY <4>1 DEF Files
      <4> QED
        BY <4>1, <4>2
    <3> QED
      BY <3>1, <3>2
  <2> HIDE DEF g
  <2> QED
    BY <1>0, <2>1
<1>3. N \in P
  <2> HIDE DEF P
  <2>1. 0..N \subseteq P
    BY <1>0, <1>1, <1>2, UpTo
  <2> QED
    BY <1>0, <2>1
<1>4. PICK f : Files(f, N, bus0, entries, src)
  BY <1>3
<1>5. Files(Filing(bus0, entries, src), N, bus0, entries, src)
  BY <1>4, Zenon DEF Files, Filing, N
<1> QED
  BY <1>0, <1>5 DEF Files, N

\* The shapes of the bus's records.
IsDevice(d) == d = [params |-> d.params, meta |-> d.meta]

IsBus(b) ==
  /\ b = [devices |-> b.devices, unattributed |-> b.unattributed,
          assigned |-> b.assigned, discovered |-> b.discovered]
  /\ \A a \in DOMAIN b.devices : IsDevice(b.devices[a])

\* A device's values after the entries es: each is one of theirs, or an old one
\* that they do not mention.
ValuesFiled(old, new, es) ==
  /\ DOMAIN old \subseteq DOMAIN new
  /\ \A k \in DOMAIN new :
       \/ \E e \in es : e.key = k /\ e.v # None /\ new[k] = e.v
       \/ k \in DOMAIN old /\ new[k] = old[k] /\ \A e \in es : e.key = k => e.v = None
  /\ \A e \in es : e.v # None => e.key \in DOMAIN new
  /\ (\A e \in es : e.v = None) => new = old

\* And what is known of its parameters, field by field.
MetaFiled(old, new, es) ==
  \A k : \A f \in MetaFields :
    \/ Meta(new, k)[f] = Meta(old, k)[f]
       /\ \A e \in es : e.key = k => Described(e)[f] = Undescribed[f]
    \/ Meta(new, k)[f] # Undescribed[f]
       /\ \E e \in es : e.key = k /\ Meta(new, k)[f] = Described(e)[f]

\* From b0 to b, only the device at src has changed, if any.
Touched(b0, b, src) ==
  /\ IsBus(b) /\ b.discovered = b0.discovered
  /\ DOMAIN b0.devices \subseteq DOMAIN b.devices
  /\ DOMAIN b.devices \subseteq DOMAIN b0.devices \cup {src}
  /\ \A a \in DOMAIN b0.devices \ {src} : b.devices[a] = b0.devices[a]

\* The bus b is b0 after the entries es of a frame from src.
Filed(b0, b, src, es) ==
  /\ Touched(b0, b, src)
  /\ IF Attributable(b0, src)
     THEN /\ ValuesFiled(Device(b0, src).params, Device(b, src).params, es)
          /\ MetaFiled(Device(b0, src), Device(b, src), es)
          /\ (\E e \in es : e.v # None) => src \in DOMAIN b.devices
     ELSE b.devices = b0.devices

\* Putting a device onto the bus changes that device only.
LEMMA PutEffect ==
  ASSUME NEW b, IsBus(b), NEW a, NEW d, IsDevice(d)
  PROVE  LET p == Put(b, a, d)
         IN  /\ IsBus(p)
             /\ DOMAIN p.devices = DOMAIN b.devices \cup {a}
             /\ p.devices[a] = d /\ Device(p, a) = d
             /\ \A x \in DOMAIN b.devices \ {a} : p.devices[x] = b.devices[x]
             /\ p.assigned = b.assigned /\ p.discovered = b.discovered
<1> DEFINE w == With(b.devices, a, d)
           p == Put(b, a, d)
<1>1. /\ DOMAIN w = DOMAIN b.devices \cup {a} /\ w[a] = d
      /\ \A x \in DOMAIN b.devices \ {a} : w[x] = b.devices[x]
  BY DEF With
<1> HIDE DEF w
<1>2. p = [devices |-> w, unattributed |-> b.unattributed,
           assigned |-> b.assigned, discovered |-> b.discovered]
  BY DEF Put, IsBus, w
<1> HIDE DEF p
<1>3. \A x \in DOMAIN w : IsDevice(w[x])
  BY <1>1 DEF IsBus
<1> QED
  BY <1>1, <1>2, <1>3 DEF IsBus, Device, p

\* A device is a device, heard or not.
LEMMA DeviceType ==
  ASSUME NEW b, IsBus(b), NEW a PROVE IsDevice(Device(b, a))
BY DEF IsBus, Device, IsDevice, NewDevice

\* Which fields a description leaves out.
LEMMA UndescribedFields ==
  /\ \A f \in MetaFields : Undescribed[f] = IF f \in {"enum", "enum_unavailable"} THEN {} ELSE None
  /\ \A e : \A f \in MetaFields : Described(e) = Undescribed => Described(e)[f] = Undescribed[f]
BY DEF Undescribed

\* A merge keeps what is not told and takes what is.
LEMMA MergedField ==
  ASSUME NEW known, NEW told, NEW f \in MetaFields
  PROVE  Merged(known, told)[f] = IF told[f] = Undescribed[f] THEN known[f] ELSE told[f]
BY DEF Merged

\* One change after the other is a change.
LEMMA TouchedTwice ==
  ASSUME NEW b0, NEW b1, NEW b2, NEW src, Touched(b0, b1, src), Touched(b1, b2, src)
  PROVE  Touched(b0, b2, src)
BY DEF Touched

\* And one description after the other: a later one wins where it tells.
LEMMA MetaFiledTwice ==
  ASSUME NEW d0, NEW d1, NEW d2, NEW es, NEW e,
         MetaFiled(d0, d1, es), MetaFiled(d1, d2, {e})
  PROVE  MetaFiled(d0, d2, es \cup {e})
<1> SUFFICES ASSUME NEW k, NEW f \in MetaFields
             PROVE \/ /\ Meta(d2, k)[f] = Meta(d0, k)[f]
                      /\ \A x \in es \cup {e} : x.key = k => Described(x)[f] = Undescribed[f]
                   \/ /\ Meta(d2, k)[f] # Undescribed[f]
                      /\ \E x \in es \cup {e} : x.key = k /\ Meta(d2, k)[f] = Described(x)[f]
  BY Zenon DEF MetaFiled
<1>1. \/ Meta(d1, k)[f] = Meta(d0, k)[f] /\ \A x \in es : x.key = k => Described(x)[f] = Undescribed[f]
      \/ Meta(d1, k)[f] # Undescribed[f] /\ \E x \in es : x.key = k /\ Meta(d1, k)[f] = Described(x)[f]
  BY Zenon DEF MetaFiled
<1>2. \/ Meta(d2, k)[f] = Meta(d1, k)[f] /\ (e.key = k => Described(e)[f] = Undescribed[f])
      \/ Meta(d2, k)[f] # Undescribed[f] /\ e.key = k /\ Meta(d2, k)[f] = Described(e)[f]
  BY DEF MetaFiled
<1>3. CASE Meta(d2, k)[f] = Meta(d1, k)[f] /\ (e.key = k => Described(e)[f] = Undescribed[f])
  <2>1. CASE Meta(d1, k)[f] = Meta(d0, k)[f] /\ \A x \in es : x.key = k => Described(x)[f] = Undescribed[f]
    BY <1>3, <2>1, Zenon
  <2>2. CASE Meta(d1, k)[f] # Undescribed[f] /\ \E x \in es : x.key = k /\ Meta(d1, k)[f] = Described(x)[f]
    BY <1>3, <2>2, Zenon
  <2> QED
    BY <1>1, <2>1, <2>2, Zenon
<1> QED
  BY <1>2, <1>3, Zenon

\* learn_param: a description is merged into what its device is known by.
LEMMA LearnEffect ==
  ASSUME NEW b, IsBus(b), NEW e, NEW src, Attributable(b, src)
  PROVE  LET p == LearnParam(b, e, src)
         IN  /\ Touched(b, p, src) /\ p.assigned = b.assigned
             /\ Device(p, src).params = Device(b, src).params
             /\ MetaFiled(Device(b, src), Device(p, src), {e})
<1> DEFINE p == LearnParam(b, e, src)
           d == Device(b, src)
           m == Merged(Meta(d, e.key), Described(e))
           n == [d EXCEPT !.meta = With(@, e.key, m)]
<1>1. CASE Described(e) = Undescribed
  <2>1. p = b
    BY <1>1 DEF LearnParam
  <2>2. MetaFiled(d, d, {e})
    BY <1>1, UndescribedFields, Zenon DEF MetaFiled
  <2> QED
    BY <2>1, <2>2, Zenon DEF Touched
<1>2. CASE Described(e) # Undescribed
  <2>1. p = Put(b, src, n)
    BY <1>2 DEF LearnParam
  <2>2. IsDevice(d)
    BY DeviceType
  <2>3. n = [params |-> d.params, meta |-> With(d.meta, e.key, m)]
    BY <2>2 DEF IsDevice
  <2>4. IsDevice(n) /\ n.params = d.params /\ n.meta = With(d.meta, e.key, m)
    BY <2>3 DEF IsDevice
  <2> HIDE DEF n
  <2>5. Meta(n, e.key) = m /\ \A k : k # e.key => Meta(n, k) = Meta(d, k)
    BY <2>4 DEF Meta, With
  <2>6. MetaFiled(d, n, {e})
    <3> SUFFICES ASSUME NEW k, NEW f \in MetaFields
                 PROVE \/ /\ Meta(n, k)[f] = Meta(d, k)[f]
                          /\ \A x \in {e} : x.key = k => Described(x)[f] = Undescribed[f]
                       \/ /\ Meta(n, k)[f] # Undescribed[f]
                          /\ \E x \in {e} : x.key = k /\ Meta(n, k)[f] = Described(x)[f]
      BY Zenon DEF MetaFiled
    <3>1. CASE k # e.key
      BY <2>5, <3>1
    <3>2. CASE k = e.key
      <4>1. m[f] = IF Described(e)[f] = Undescribed[f] THEN Meta(d, e.key)[f] ELSE Described(e)[f]
        BY MergedField
      <4> QED
        BY <2>5, <3>2, <4>1
    <3> QED
      BY <3>1, <3>2
  <2>7. /\ IsBus(p) /\ DOMAIN p.devices = DOMAIN b.devices \cup {src} /\ Device(p, src) = n
        /\ \A x \in DOMAIN b.devices \ {src} : p.devices[x] = b.devices[x]
        /\ p.assigned = b.assigned /\ p.discovered = b.discovered
    BY <2>1, <2>4, PutEffect
  <2> HIDE DEF p
  <2> QED
    BY <2>4, <2>6, <2>7 DEF Touched, p
<1> QED
  BY <1>1, <1>2

\* update: the device's value is the entry's.
LEMMA UpdateEffect ==
  ASSUME NEW b, IsBus(b), NEW key, NEW v, NEW src, Attributable(b, src)
  PROVE  LET p == Update(b, key, v, src)
         IN  /\ Touched(b, p, src) /\ p.assigned = b.assigned
             /\ src \in DOMAIN p.devices
             /\ Device(p, src).params = With(Device(b, src).params, key, v)
             /\ Device(p, src).meta = Device(b, src).meta
<1> DEFINE p == Update(b, key, v, src)
           d == Device(b, src)
           n == [d EXCEPT !.params = With(@, key, v)]
<1>1. p = Put(b, src, n)
  BY DEF Update
<1>2. IsDevice(d)
  BY DeviceType
<1>3. n = [params |-> With(d.params, key, v), meta |-> d.meta]
  BY <1>2 DEF IsDevice
<1>4. IsDevice(n) /\ n.params = With(d.params, key, v) /\ n.meta = d.meta
  BY <1>3 DEF IsDevice
<1> HIDE DEF n
<1>5. /\ IsBus(p) /\ DOMAIN p.devices = DOMAIN b.devices \cup {src} /\ Device(p, src) = n
      /\ \A x \in DOMAIN b.devices \ {src} : p.devices[x] = b.devices[x]
      /\ p.assigned = b.assigned /\ p.discovered = b.discovered
  BY <1>1, <1>4, PutEffect
<1> HIDE DEF p
<1> QED
  BY <1>4, <1>5 DEF Touched, p

\* What is known of the parameters is not a matter of the values.
LEMMA MetaOfMeta ==
  ASSUME NEW d, NEW n, n.meta = d.meta PROVE \A k : Meta(n, k) = Meta(d, k)
BY DEF Meta

\* One entry more.
LEMMA FileEntryEffect ==
  ASSUME NEW b0, IsBus(b0), NEW b, NEW e, NEW src, NEW es,
         Filed(b0, b, src, es), b.assigned = b0.assigned
  PROVE  LET p == FileEntry(b, e, src)
         IN  Filed(b0, p, src, es \cup {e}) /\ p.assigned = b0.assigned
<1> DEFINE p == FileEntry(b, e, src)
           l == LearnParam(b, e, src)
<1>0. IsBus(b) /\ Touched(b0, b, src) /\ (Attributable(b, src) <=> Attributable(b0, src))
  BY DEF Filed, Touched, Attributable
<1>1. CASE Attributable(b0, src)
  <2>1. /\ Touched(b, l, src) /\ l.assigned = b.assigned
        /\ Device(l, src).params = Device(b, src).params
        /\ MetaFiled(Device(b, src), Device(l, src), {e})
    BY <1>0, <1>1, LearnEffect
  <2>2. Touched(b0, l, src) /\ IsBus(l) /\ Attributable(l, src)
    BY <1>0, <1>1, <2>1, TouchedTwice DEF Touched, Attributable
  <2>3. /\ ValuesFiled(Device(b0, src).params, Device(b, src).params, es)
        /\ MetaFiled(Device(b0, src), Device(b, src), es)
        /\ (\E x \in es : x.v # None) => src \in DOMAIN b.devices
    BY <1>1 DEF Filed
  <2>4. MetaFiled(Device(b0, src), Device(l, src), es \cup {e})
    BY <2>1, <2>3, MetaFiledTwice
  <2>5. CASE e.v = None
    <3>1. p = l
      BY <2>5 DEF FileEntry
    <3>2. ValuesFiled(Device(b0, src).params, Device(l, src).params, es \cup {e})
      BY <2>1, <2>3, <2>5 DEF ValuesFiled
    <3>3. (\E x \in es \cup {e} : x.v # None) => src \in DOMAIN l.devices
      BY <2>1, <2>3, <2>5 DEF Touched
    <3> HIDE DEF l, p
    <3> QED
      BY <1>1, <2>1, <2>2, <2>4, <3>1, <3>2, <3>3 DEF Filed, p
  <2>6. CASE e.v # None
    <3>1. p = Update(l, e.key, e.v, src)
      BY <2>6 DEF FileEntry
    <3> HIDE DEF l, p
    <3>2. /\ Touched(l, p, src) /\ p.assigned = l.assigned
          /\ src \in DOMAIN p.devices
          /\ Device(p, src).params = With(Device(l, src).params, e.key, e.v)
          /\ Device(p, src).meta = Device(l, src).meta
      BY <2>2, <3>1, UpdateEffect
    <3>3. Touched(b0, p, src)
      BY <2>2, <3>2, TouchedTwice
    <3>4. MetaFiled(Device(b0, src), Device(p, src), es \cup {e})
      <4>1. \A k : Meta(Device(p, src), k) = Meta(Device(l, src), k)
        BY <3>2, MetaOfMeta
      <4> SUFFICES ASSUME NEW k, NEW f \in MetaFields
                   PROVE \/ /\ Meta(Device(p, src), k)[f] = Meta(Device(b0, src), k)[f]
                            /\ \A x \in es \cup {e} : x.key = k => Described(x)[f] = Undescribed[f]
                         \/ /\ Meta(Device(p, src), k)[f] # Undescribed[f]
                            /\ \E x \in es \cup {e} :
                                 x.key = k /\ Meta(Device(p, src), k)[f] = Described(x)[f]
        BY Zenon DEF MetaFiled
      <4>2. Meta(Device(p, src), k) = Meta(Device(l, src), k)
        BY <4>1
      <4> QED
        BY <2>4, <4>2 DEF MetaFiled
    <3>5. ValuesFiled(Device(b0, src).params, Device(p, src).params, es \cup {e})
      <4> DEFINE old == Device(b0, src).params
                 cur == Device(b, src).params
                 new == Device(p, src).params
      <4>1. ValuesFiled(old, cur, es)
        BY <2>3
      <4>2. /\ DOMAIN new = DOMAIN cur \cup {e.key} /\ new[e.key] = e.v
            /\ \A k \in DOMAIN cur \ {e.key} : new[k] = cur[k]
        BY <2>1, <3>2 DEF With
      <4> HIDE DEF old, cur, new
      <4> QED
        BY <2>6, <4>1, <4>2 DEF ValuesFiled, old, new
    <3> QED
      BY <1>1, <2>1, <3>2, <3>3, <3>4, <3>5 DEF Filed, p
  <2> QED
    BY <2>5, <2>6
<1>2. CASE ~Attributable(b0, src)
  <2>1. l = b
    BY <1>0, <1>2 DEF LearnParam
  <2>2. p = b \/ p = [b EXCEPT !.unattributed = With(@, e.key, e.v)]
    BY <1>0, <1>2, <2>1, Zenon DEF FileEntry, Update
  <2>3. /\ p.devices = b.devices /\ p.assigned = b.assigned /\ p.discovered = b.discovered
        /\ IsBus(p)
    <3>1. CASE p = b
      BY <1>0, <3>1
    <3>2. CASE p = [b EXCEPT !.unattributed = With(@, e.key, e.v)]
      <4> DEFINE u == With(b.unattributed, e.key, e.v)
      <4> HIDE DEF u
      <4>1. p = [devices |-> b.devices, unattributed |-> u,
                 assigned |-> b.assigned, discovered |-> b.discovered]
        BY <1>0, <3>2 DEF IsBus, u
      <4> QED
        BY <1>0, <4>1 DEF IsBus
    <3> QED
      BY <2>2, <3>1, <3>2
  <2> HIDE DEF p, l
  <2>4. b.devices = b0.devices
    BY <1>2 DEF Filed
  <2> QED
    BY <1>0, <1>2, <2>3, <2>4 DEF Filed, Touched, p
<1> QED
  BY <1>1, <1>2

\* What FrameAssumption says of the frames of the panel, and holds of what else
\* the parser can make of their bytes.
IsFrame(f) ==
  /\ f.entries \in Seq(Range(f.entries))
  /\ f.kind = "info" => Len(f.entries) = 1
  /\ f.kind \notin {"info", "discovery"} => f.entries = <<>>
  /\ f.kind = "registration" => f.addr \in OurAddresses

\* All entries of a frame, by induction over how many.
LEMMA FilingEffect ==
  ASSUME NEW b0, IsBus(b0), NEW b, NEW src, Filed(b0, b, src, {}), b.assigned = b0.assigned,
         NEW entries, entries \in Seq(Range(entries))
  PROVE  LET p == Filing(b, entries, src)[Len(entries)]
         IN  Filed(b0, p, src, Range(entries)) /\ p.assigned = b0.assigned
<1> DEFINE N == Len(entries)
           F == Filing(b, entries, src)
           E(n) == {entries[j] : j \in 1..n}
           S == {n \in 0..N : Filed(b0, F[n], src, E(n)) /\ F[n].assigned = b0.assigned}
<1>1. N \in Nat /\ DOMAIN entries = 1..N
  OBVIOUS
<1>2. Range(entries) = E(N)
  BY <1>1 DEF Range
<1>3. F[0] = b /\ \A i \in 1..N : F[i] = FileEntry(F[i - 1], entries[i], src)
  BY <1>1, FilingStep
<1> HIDE DEF N, F
<1>4. 0 \in S
  <2>1. E(0) = {}
    OBVIOUS
  <2> HIDE DEF E
  <2>2. Filed(b0, F[0], src, E(0)) /\ F[0].assigned = b0.assigned
    BY <1>3, <2>1
  <2> QED
    BY <1>1, <2>2
<1>5. \A n \in 0..N - 1 : n \in S => n + 1 \in S
  <2> SUFFICES ASSUME NEW n \in 0..N - 1, n \in S PROVE n + 1 \in S
    OBVIOUS
  <2>1. n + 1 \in 0..N /\ n + 1 \in 1..N /\ (n + 1) - 1 = n
    BY <1>1
  <2>2. F[n + 1] = FileEntry(F[n], entries[n + 1], src)
    BY <1>3, <2>1
  <2>3. E(n + 1) = E(n) \cup {entries[n + 1]}
    BY <1>1
  <2> HIDE DEF E
  <2>4. Filed(b0, F[n], src, E(n)) /\ F[n].assigned = b0.assigned
    OBVIOUS
  <2>5. Filed(b0, F[n + 1], src, E(n + 1)) /\ F[n + 1].assigned = b0.assigned
    <3> HIDE DEF S
    <3> DEFINE p == FileEntry(F[n], entries[n + 1], src)
    <3>1. Filed(b0, p, src, E(n) \cup {entries[n + 1]}) /\ p.assigned = b0.assigned
      <4> DEFINE q == F[n]
                 x == entries[n + 1]
                 es == E(n)
      <4>1. Filed(b0, q, src, es) /\ q.assigned = b0.assigned /\ IsBus(b0)
        BY <2>4
      <4> HIDE DEF q, x, es
      <4>2. Filed(b0, FileEntry(q, x, src), src, es \cup {x}) /\ FileEntry(q, x, src).assigned = b0.assigned
        BY <4>1, FileEntryEffect
      <4> QED
        BY <4>2 DEF q, x, es
    <3> HIDE DEF p
    <3>2. F[n + 1] = p
      BY <2>2 DEF p
    <3> QED
      BY <2>3, <3>1, <3>2, Zenon
  <2> QED
    BY <2>1, <2>5
<1>6. N \in S
  <2> HIDE DEF S
  <2>1. 0..N \subseteq S
    BY <1>1, <1>4, <1>5, UpTo
  <2> QED
    BY <1>1, <2>1
<1> HIDE DEF E
<1> QED
  BY <1>2, <1>6 DEF F, N

\* A sender is noted with nothing published and nothing described.
LEMMA SeenEffect ==
  ASSUME NEW b0, IsBus(b0), NEW src,
         NEW b, b = IF src \in {DEV_BROADCAST, DEV_MSG_BROKER, b0.assigned}
                    THEN b0 ELSE NoteSeen(b0, src)
  PROVE  Filed(b0, b, src, {}) /\ b.assigned = b0.assigned
<1>1. Touched(b0, b0, src)
  BY DEF Touched
<1>2. \A d : ValuesFiled(d.params, d.params, {}) /\ MetaFiled(d, d, {})
  <2> TAKE d
  <2>1. MetaFiled(d, d, {})
    BY DEF MetaFiled
  <2>2. ValuesFiled(d.params, d.params, {})
    BY DEF ValuesFiled
  <2> QED
    BY <2>1, <2>2
<1>3. CASE b = b0
  BY <1>1, <1>2, <1>3 DEF Filed
<1>4. CASE src \notin {DEV_BROADCAST, DEV_MSG_BROKER, b0.assigned} /\ b = Put(b0, src, Device(b0, src))
  <2>1. /\ IsBus(b) /\ DOMAIN b.devices = DOMAIN b0.devices \cup {src}
        /\ Device(b, src) = Device(b0, src)
        /\ \A x \in DOMAIN b0.devices \ {src} : b.devices[x] = b0.devices[x]
        /\ b.assigned = b0.assigned /\ b.discovered = b0.discovered
    BY <1>4, PutEffect, DeviceType
  <2>2. Touched(b0, b, src)
    BY <2>1 DEF Touched
  <2>3. Attributable(b0, src)
    BY <1>4 DEF Attributable
  <2> QED
    BY <1>2, <2>1, <2>2, <2>3 DEF Filed
<1> QED
  BY <1>3, <1>4, Zenon DEF NoteSeen

\* handle_frame: the bus is filed what the frame says, and learns our address
\* from the answer to a registration.
LEMMA HandleFrameEffect ==
  ASSUME NEW b0, IsBus(b0), NEW f, IsFrame(f), NEW client
  PROVE  LET p == HandleFrame(b0, f, client)
         IN  /\ Filed(b0, p, f.src, Range(f.entries))
             /\ p.assigned = IF f.kind = "registration" /\ client THEN f.addr ELSE b0.assigned
<1> DEFINE p == HandleFrame(b0, f, client)
           seen == IF f.src \in {DEV_BROADCAST, DEV_MSG_BROKER, b0.assigned}
                   THEN b0 ELSE NoteSeen(b0, f.src)
           named == [seen EXCEPT !.assigned = f.addr]
           filed == Filing(seen, f.entries, f.src)[Len(f.entries)]
<1>1. p = CASE f.kind = "registration" /\ client -> named
            [] f.kind \in {"info", "discovery"} -> filed
            [] OTHER -> seen
  BY Zenon DEF HandleFrame
<1>2. Filed(b0, seen, f.src, {}) /\ seen.assigned = b0.assigned
  BY SeenEffect
<1> HIDE DEF p, seen
<1>3. CASE f.kind \in {"info", "discovery"}
  <2>1. p = filed /\ f.kind # "registration"
    BY <1>1, <1>3
  <2>2. Filed(b0, filed, f.src, Range(f.entries)) /\ filed.assigned = b0.assigned
    BY <1>2, FilingEffect DEF IsFrame
  <2> HIDE DEF filed
  <2> QED
    BY <2>1, <2>2 DEF p
<1>4. CASE f.kind \notin {"info", "discovery"}
  <2>1. Range(f.entries) = {}
    BY <1>4 DEF IsFrame, Range
  <2>2. CASE f.kind = "registration" /\ client
    <3>1. p = named
      BY <1>1, <2>2
    <3>2. /\ seen = [devices |-> seen.devices, unattributed |-> seen.unattributed,
                     assigned |-> seen.assigned, discovered |-> seen.discovered]
          /\ \A a \in DOMAIN seen.devices : IsDevice(seen.devices[a])
      BY <1>2 DEF Filed, Touched, IsBus
    <3>3. named = [devices |-> seen.devices, unattributed |-> seen.unattributed,
                   assigned |-> f.addr, discovered |-> seen.discovered]
      BY <3>2
    <3> HIDE DEF named
    <3>4. IsBus(named)
      BY <3>2, <3>3 DEF IsBus
    <3>5. Filed(b0, named, f.src, {})
      BY <1>2, <3>3, <3>4 DEF Filed, Touched, Device
    <3>6. (IF f.kind = "registration" /\ client THEN f.addr ELSE b0.assigned) = f.addr
      BY <2>2, Zenon
    <3>7. named.assigned = f.addr
      BY <3>3
    <3> QED
      BY <2>1, <3>1, <3>5, <3>6, <3>7, Zenon DEF p
  <2>3. CASE ~(f.kind = "registration" /\ client)
    <3>1. p = seen
      BY <1>1, <1>4, <2>3
    <3> QED
      BY <1>2, <2>1, <2>3, <3>1 DEF p
  <2> QED
    BY <2>2, <2>3
<1> QED
  BY <1>3, <1>4

-----------------------------------------------------------------------------
(* What else the invariant says *)

\* What the receiver is busy with was said in this coordinator's time.
Fresh ==
  /\ now # 0 => now > born
  /\ buffer.head # 0 => buffer.head > born
  /\ link = "down" => now = 0 /\ buffer = Wire!Empty

\* The panel speaks from our address only once it has given it.
Addressed ==
  now # 0 =>
    /\ Frame[said[now]].kind = "registration" => given = Frame[said[now]].addr
    /\ Source(now) \in OurAddresses => given = Source(now)

\* The client's address is the one it was given.
KnowsItself == registered /\ astray = FALSE => bus.assigned = given

\* The bus is one, and the address it takes for ours one that the panel gave.
Hub ==
  /\ IsBus(bus)
  /\ bus.assigned \in OurAddresses \cup {DEV_APP_DEFAULT}

\* What the bus knows of a parameter, one of its descriptions has told.
MetaIsTold ==
  \A a \in DOMAIN bus.devices : \A k \in DOMAIN bus.devices[a].meta, f \in MetaFields :
    \/ Meta(bus.devices[a], k)[f] = Undescribed[f]
    \/ \E d \in Descriptions(a, k) : Meta(bus.devices[a], k)[f] = Described(d)[f]

\* What a message that got through describes is known.
ToldIsKnown ==
  \A m \in intact : m > born /\ Source(m) \notin Refusable =>
    \A e \in Entries(m) : \A f \in MetaFields :
      Described(e)[f] # Undescribed[f] =>
        Meta(Device(bus, Source(m)), e.key)[f] # Undescribed[f]

-----------------------------------------------------------------------------
(* What the parser returns *)

\* The parser returns f within this step: the message under way, whole, or what
\* it makes of something else, with the values of its entries garbled.
Heard(f) ==
  /\ IsFrame(f) /\ f.src \in Addresses
  /\ \A e \in Range(f.entries) : \E m \in Serials :
       /\ m > born /\ Source(m) = f.src
       /\ \E x \in Entries(m) : x.key = e.key /\ Described(x) = Described(e)
  /\ \/ /\ now \in Serials /\ now > born /\ f = Frame[said[now]]
        /\ intact' \in {intact, intact \cup {now}}
     \/ /\ astray = TRUE /\ intact' = intact
        /\ \A e \in Range(f.entries) : e.v = Garbled

\* What the parser returns is a frame: of a message,
LEMMA FrameOfContents ==
  ASSUME NEW c \in Contents
  PROVE  IsFrame(Frame[c]) /\ Frame[c].src \in Addresses
BY FrameAssumption DEF IsFrame, OurAddresses, Addresses

\* of one with foreign bytes,
LEMMA CorruptFrame ==
  ASSUME NEW c \in Contents
  PROVE  LET f == Corrupt(Frame[c])
         IN  /\ IsFrame(f) /\ f.src = Frame[c].src
             /\ \A e \in Range(f.entries) :
                  /\ e.v = Garbled
                  /\ \E x \in Range(Frame[c].entries) : x.key = e.key /\ Described(x) = Described(e)
<1> DEFINE es == Frame[c].entries
           g == [i \in 1..Len(es) |-> [es[i] EXCEPT !.v = Garbled]]
           f == Corrupt(Frame[c])
<1>1. /\ es \in Seq(Range(es)) /\ Len(es) \in Nat /\ DOMAIN es = 1..Len(es)
      /\ \A i \in 1..Len(es) : es[i] \in Range(es)
  BY FrameAssumption DEF Range
<1>2. /\ f.entries = g /\ f.src = Frame[c].src /\ f.kind = Frame[c].kind /\ f.addr = Frame[c].addr
  BY FrameAssumption DEF Corrupt
<1>3. \A i \in 1..Len(es) :
        /\ g[i].v = Garbled /\ g[i].key = es[i].key /\ Described(g[i]) = Described(es[i])
  <2> SUFFICES ASSUME NEW i \in 1..Len(es)
               PROVE g[i].v = Garbled /\ g[i].key = es[i].key /\ Described(g[i]) = Described(es[i])
    OBVIOUS
  <2>1. DOMAIN es[i] = {"key", "v", "perm", "avail", "min", "max", "values"}
    BY <1>1, FrameAssumption
  <2>2. /\ g[i].v = Garbled /\ g[i].key = es[i].key /\ g[i].perm = es[i].perm
        /\ g[i].avail = es[i].avail /\ g[i].min = es[i].min /\ g[i].max = es[i].max
        /\ g[i].values = es[i].values
    BY <2>1
  <2> HIDE DEF g, es
  <2> QED
    BY <2>2 DEF Described
<1>4. \A e \in Range(g) : \E i \in 1..Len(es) : e = g[i]
  BY DEF Range
<1>5. g \in Seq(Range(g)) /\ Len(g) = Len(es) /\ (es = <<>> => g = <<>>)
  <2> DEFINE n == Len(es)
  <2>1. n \in Nat /\ g = [i \in 1..n |-> g[i]] /\ DOMAIN g = 1..n /\ (es = <<>> => n = 0)
    BY <1>1
  <2> HIDE DEF g, n
  <2>2. \A i \in 1..n : g[i] \in Range(g)
    BY <2>1 DEF Range
  <2>3. g \in Seq(Range(g)) /\ Len(g) = n
    BY <2>1, <2>2
  <2>4. n = 0 => g = <<>>
    BY <2>3
  <2> QED
    BY <2>1, <2>3, <2>4 DEF n
<1> HIDE DEF g
<1>6. IsFrame(f)
  <2>1. IsFrame(Frame[c])
    BY FrameOfContents
  <2> HIDE DEF f
  <2> QED
    BY <1>2, <1>5, <2>1 DEF IsFrame
<1> HIDE DEF f
<1> QED
  BY <1>1, <1>2, <1>3, <1>4, <1>6 DEF f

\* or of bytes from amid one.
LEMMA UnreadFrame ==
  ASSUME NEW a \in Addresses
  PROVE  IsFrame(Unread(a)) /\ Unread(a).src = a /\ Range(Unread(a).entries) = {}
BY DEF IsFrame, Unread, Range

\* A notification changes nothing the coordinator sees, or one frame is filed.
LEMMA PieceHeard ==
  ASSUME WireInv, Progress, Fresh, PieceArrives
  PROVE  /\ UNCHANGED <<link, said, now, astray, given, born, reloads>>
         /\ \/ UNCHANGED <<hub, registered, strayed, intact>>
            \/ \E f : Heard(f) /\ OnFrame(f)
<1>1. /\ now \in Serials /\ UNCHANGED <<link, said, now, astray, given, born, reloads>>
      /\ \/ UNCHANGED <<taken, intact>>
         \/ /\ taken' # taken /\ frame' = [msg |-> now, form |-> "whole"]
            /\ intact' \in {intact, intact \cup {now}}
         \/ /\ taken' # taken /\ astray = TRUE /\ intact' = intact
            /\ frame'.form \in {"head", "mixed"} /\ frame'.msg \in {buffer.head, now} \ {0}
         \/ /\ taken' # taken /\ astray = TRUE /\ intact' = intact
            /\ frame'.form = "tail"
  BY PieceTaken DEF PieceArrives, Serials, Wire!Serials
<1>2. Hear
  BY DEF PieceArrives
<1>3. \A m \in Serials : said[m] \in Contents
  BY DEF WireInv, Wire!TypeOK, Serials
<1>4. now > born /\ (buffer.head # 0 => buffer.head \in Serials /\ buffer.head > born)
  BY <1>1 DEF Fresh, WireInv, Known, Wire!TypeOK, Serials
<1>5. CASE UNCHANGED <<taken, intact>>
  BY <1>1, <1>2, <1>5 DEF Hear
<1>6. CASE /\ taken' # taken /\ frame' = [msg |-> now, form |-> "whole"]
           /\ intact' \in {intact, intact \cup {now}}
  <2>1. PICK f \in Parsed : OnFrame(f)
    BY <1>2, <1>6 DEF Hear
  <2>2. f = Frame[said[now]]
    BY <1>6, <2>1 DEF Parsed
  <2>3. Heard(f)
    BY <1>1, <1>3, <1>4, <1>6, <2>2, FrameOfContents DEF Heard, Source, Entries, EntriesOf
  <2> QED
    BY <1>1, <2>1, <2>3
<1>7. CASE /\ taken' # taken /\ astray = TRUE /\ intact' = intact
           /\ frame'.form \in {"head", "mixed"} /\ frame'.msg \in {buffer.head, now} \ {0}
  <2> DEFINE m == frame'.msg
             c == said[m]
  <2>1. m \in Serials /\ m > born /\ c \in Contents
    BY <1>1, <1>3, <1>4, <1>7
  <2>2. PICK f \in Parsed : OnFrame(f)
    BY <1>2, <1>7 DEF Hear
  <2>3. f \in {Unread(Frame[c].src), Corrupt(Frame[c])}
    BY <1>7, <2>2 DEF Parsed
  <2> HIDE DEF m
  <2>4. Heard(f)
    <3>1. Frame[c].src \in Addresses
      BY <2>1, FrameOfContents
    <3>2. CASE f = Unread(Frame[c].src)
      BY <1>7, <3>1, <3>2, UnreadFrame DEF Heard
    <3>3. CASE f = Corrupt(Frame[c])
      <4>1. /\ IsFrame(f) /\ f.src = Frame[c].src
            /\ \A e \in Range(f.entries) :
                  /\ e.v = Garbled
                  /\ \E x \in Range(Frame[c].entries) : x.key = e.key /\ Described(x) = Described(e)
        BY <2>1, <3>3, CorruptFrame
      <4>2. Source(m) = f.src /\ Entries(m) = Range(Frame[c].entries)
        BY <2>1, <4>1 DEF Source, Entries, EntriesOf
      <4> QED
        BY <1>7, <2>1, <3>1, <4>1, <4>2 DEF Heard
    <3> QED
      BY <2>3, <3>2, <3>3
  <2> QED
    BY <1>1, <2>2, <2>4
<1>8. CASE /\ taken' # taken /\ astray = TRUE /\ intact' = intact
           /\ frame'.form = "tail"
  <2>1. UNCHANGED <<hub, registered, strayed>> \/ \E f \in Parsed : OnFrame(f)
    BY <1>2, <1>8 DEF Hear
  <2>2. \A f \in Parsed : f = Unread(Stranger)
    BY <1>8 DEF Parsed
  <2>3. Stranger \in Addresses
    BY DEF Addresses
  <2>4. Heard(Unread(Stranger))
    BY <1>8, <2>3, UnreadFrame DEF Heard
  <2> QED
    BY <1>1, <1>8, <2>1, <2>2, <2>4
<1> QED
  BY <1>1, <1>5, <1>6, <1>7, <1>8

-----------------------------------------------------------------------------
(* What the wire is at *)

\* Every step is one of the receiver's, or none.
LEMMA StepsOfTheWire == [Next]_vars => [Wire!Next]_Wire!vars
<1> SUFFICES ASSUME [Next]_vars PROVE [Wire!Next]_Wire!vars
  OBVIOUS
<1>1. UNCHANGED wire => UNCHANGED Wire!vars
  BY DEF wire, Wire!vars, Wire!receiver, Wire!panel
<1>2. CASE PanelSpeaks
  <2>1. \E c \in Contents : Wire!Say(c)
    BY <1>2 DEF PanelSpeaks
  <2> QED
    BY <2>1 DEF Wire!Next
<1>3. CASE PanelRepeats \/ PieceArrives \/ Opens \/ LinkChanges
  BY <1>3 DEF PanelRepeats, PieceArrives, Opens, LinkChanges, Wire!Next, Wire!Other
<1>4. CASE StartupEnds \/ EntityAdded \/ Reload \/ UNCHANGED vars
  BY <1>1, <1>4 DEF StartupEnds, EntityAdded, Reload, vars
<1> QED
  BY <1>2, <1>3, <1>4 DEF Next

\* The panel, and what it has said, through the steps of the receiver.
LEMMA SaidSteps ==
  ASSUME WireInv, [Wire!Next]_Wire!vars
  PROVE  /\ Serials \subseteq Serials' /\ \A m \in Serials : said'[m] = said[m]
         /\ intact \subseteq Serials /\ Len(said) <= Len(said')
         /\ astray' = FALSE => astray = FALSE
<1>1. intact \subseteq Serials /\ Len(said) \in Nat /\ said \in Seq(Contents)
  BY DEF WireInv, Wire!TypeOK, Serials, Wire!Serials
<1>2. CASE said' = said
  <2>1. astray' = FALSE => astray = FALSE
    BY Zenon DEF WireInv, Wire!TypeOK, Wire!Next, Wire!Other, Wire!Connect, Wire!SubscribeCmd,
       Wire!SubscribeData, Wire!Disconnect, Wire!LinkGone, Wire!SayAgain, Wire!SendPiece,
       Wire!Say, Wire!Announce, Wire!vars, Wire!panel
  <2> QED
    BY <1>1, <1>2, <2>1 DEF Serials
<1>3. ASSUME NEW c \in Contents, Wire!Say(c)
      PROVE said' = Append(said, c) /\ (astray' = FALSE => astray = FALSE)
  BY <1>3, Zenon DEF Wire!Say, Wire!Announce
<1>4. CASE \E c \in Contents : Wire!Say(c)
  <2>1. PICK c \in Contents : said' = Append(said, c) /\ (astray' = FALSE => astray = FALSE)
    BY <1>3, <1>4
  <2>2. Len(said') = Len(said) + 1 /\ \A m \in 1..Len(said) : said'[m] = said[m]
    BY <1>1, <2>1
  <2> QED
    BY <1>1, <2>1, <2>2 DEF Serials
<1>5. CASE Wire!Other \/ UNCHANGED Wire!vars
  BY <1>2, <1>5 DEF Wire!Other, Wire!Connect, Wire!SubscribeCmd, Wire!SubscribeData,
     Wire!Disconnect, Wire!LinkGone, Wire!SayAgain, Wire!SendPiece, Wire!vars, Wire!panel
<1> QED
  BY <1>4, <1>5 DEF Wire!Next

\* What is under way is of this coordinator's time: a reload waits for the end
\* of the session.
LEMMA FreshSteps ==
  ASSUME WireInv, Progress, Fresh, TypeOK, [Next]_vars PROVE Fresh'
<1>1. Wire!Empty.head = 0 /\ Len(said) \in Nat /\ born \in 0..Len(said)
  BY DEF Wire!Empty, WireInv, Wire!TypeOK, TypeOK
<1>2. CASE PanelSpeaks
  <2>1. PICK c \in Contents : Wire!Say(c)
    BY <1>2 DEF PanelSpeaks
  <2>2. /\ now' = Len(said) + 1 /\ link' = link /\ link # "down" /\ born' = born
        /\ buffer' \in {buffer, Wire!Empty}
    BY <1>2, <2>1 DEF PanelSpeaks, Wire!Say, Wire!CmdHeard, WireInv, Wire!TypeOK,
       Wire!Announce, Wire!HandleAnnouncement, Wire!receiver
  <2> QED
    BY <1>1, <2>2 DEF Fresh
<1>3. CASE PanelRepeats
  <2>1. /\ now' = now /\ link' = link /\ link # "down" /\ born' = born
        /\ buffer' \in {buffer, Wire!Empty}
    BY <1>3 DEF PanelRepeats, Wire!SayAgain, Wire!CmdHeard,
       Wire!Announce, Wire!HandleAnnouncement, Wire!receiver
  <2> QED
    BY <1>1, <2>1 DEF Fresh
<1>4. CASE PieceArrives
  <2>1. /\ now' = now /\ link' = link /\ link # "down" /\ born' = born
        /\ buffer'.head \in {buffer.head, now, 0}
    BY <1>4, PieceTaken DEF PieceArrives, Wire!SendPiece, Wire!CmdHeard
  <2> QED
    BY <2>1 DEF Fresh
<1>5. CASE Opens
  BY <1>5 DEF Opens, Wire!Connect, Fresh, Wire!receiver, Wire!panel
<1>6. CASE LinkChanges
  <2>1. CASE Wire!SubscribeCmd \/ Wire!SubscribeData
    BY <1>6, <2>1 DEF LinkChanges, Wire!SubscribeCmd, Wire!SubscribeData, Fresh, Wire!receiver, Wire!panel
  <2>2. CASE Wire!Disconnect
    BY <1>1, <1>6, <2>2 DEF LinkChanges, Wire!Disconnect, Fresh
  <2>3. CASE Wire!LinkGone
    BY <1>1, <1>6, <2>3 DEF LinkChanges, Wire!LinkGone, Fresh
  <2> QED
    BY <1>6, <2>1, <2>2, <2>3 DEF LinkChanges
<1>7. CASE Reload
  BY <1>1, <1>7 DEF Reload, wire, Fresh
<1>8. CASE StartupEnds \/ EntityAdded \/ UNCHANGED vars
  BY <1>8 DEF StartupEnds, EntityAdded, vars, wire, Fresh
<1> QED
  BY <1>2, <1>3, <1>4, <1>5, <1>6, <1>7, <1>8 DEF Next

\* The panel answers one registration in a session, and uses our address after.
LEMMA AddressedSteps ==
  ASSUME WireInv, Progress, Fresh, Addressed, [Next]_vars PROVE Addressed'
<1>1. CASE PanelSpeaks
  <2>1. PICK c \in Contents :
          /\ Frame[c].kind = "registration" => given = None
          /\ Frame[c].src \in OurAddresses => Frame[c].src = given
          /\ Wire!Say(c)
          /\ given' = IF Frame[c].kind = "registration" THEN Frame[c].addr ELSE given
    BY <1>1 DEF PanelSpeaks
  <2>2. said'[now'] = c
    BY <2>1 DEF Wire!Say, WireInv, Wire!TypeOK
  <2>3. Frame[c].src \in OurAddresses => given' = Frame[c].src
    BY <2>1 DEF OurAddresses
  <2> QED
    BY <2>1, <2>2, <2>3 DEF Addressed, Source
<1>2. CASE PanelRepeats \/ PieceArrives
  <2>1. UNCHANGED <<said, now, given>>
    BY <1>2 DEF PanelRepeats, PieceArrives, us, Wire!SayAgain, Wire!SendPiece
  <2> QED
    BY <2>1 DEF Addressed, Source
<1>3. CASE Opens
  <2>1. now' = 0
    BY <1>3 DEF Opens, Wire!Connect, Fresh, Wire!panel
  <2> QED
    BY <2>1 DEF Addressed
<1>4. CASE LinkChanges
  <2>1. UNCHANGED <<said, given>> /\ now' \in {now, 0}
    BY <1>4 DEF LinkChanges, us, Wire!SubscribeCmd, Wire!SubscribeData, Wire!Disconnect, Wire!LinkGone, Wire!panel
  <2> QED
    BY <2>1 DEF Addressed, Source
<1>5. CASE StartupEnds \/ EntityAdded \/ Reload \/ UNCHANGED vars
  <2>1. UNCHANGED <<said, now, given>>
    BY <1>5 DEF StartupEnds, EntityAdded, Reload, vars, us, wire
  <2> QED
    BY <2>1 DEF Addressed, Source
<1> QED
  BY <1>1, <1>2, <1>3, <1>4, <1>5 DEF Next

-----------------------------------------------------------------------------
(* The bus while nothing is filed *)

\* What holds of the values and descriptions on the bus, of the messages that
\* got through and of the devices, goes on to hold while the panel goes on.
LEMMA BusStill ==
  ASSUME WireInv, [Wire!Next]_Wire!vars, bus'.devices = bus.devices,
         UNCHANGED <<intact, born, strayed>>
  PROVE  /\ ReadingsAreCurrent => ReadingsAreCurrent'
         /\ DevicesAreReal => DevicesAreReal'
         /\ MetaIsTold => MetaIsTold'
         /\ ToldIsKnown => ToldIsKnown'
<1>1. /\ Serials \subseteq Serials' /\ intact \subseteq Serials
      /\ \A m \in Serials : Source(m)' = Source(m) /\ Entries(m)' = Entries(m)
      /\ astray' = FALSE => astray = FALSE
      /\ astray \in BOOLEAN /\ astray' \in BOOLEAN
  <2>1. WireInv'
    BY NextWireInv
  <2>2. astray \in BOOLEAN /\ astray' \in BOOLEAN
    BY <2>1, Zenon DEF WireInv, Wire!TypeOK
  <2> QED
    BY <2>2, SaidSteps DEF Source, Entries
<1>2. ReadingsAreCurrent => ReadingsAreCurrent'
  <2> SUFFICES ASSUME ReadingsAreCurrent PROVE ReadingsAreCurrent'
    OBVIOUS
  <2>1. ASSUME NEW a \in DOMAIN bus.devices \ Refusable, NEW k \in DOMAIN bus.devices[a].params
        PROVE  \/ astray' /\ bus'.devices[a].params[k] = Garbled
               \/ IsTheirOwn(a, k, bus.devices[a].params[k])'
    <3> DEFINE v == bus.devices[a].params[k]
    <3>1. CASE astray /\ v = Garbled
      <4>1. astray'
        BY <1>1, <3>1, Zenon
      <4> QED
        BY <3>1, <4>1
    <3>2. CASE IsTheirOwn(a, k, v)
      <4>1. PICK m \in Serials :
              /\ Source(m) = a /\ \E e \in Entries(m) : e.key = k /\ e.v = v
              /\ \A n \in Later(m) :
                   Source(n) = a => \A e \in Entries(n) : e.key = k => e.v \in {None, v}
        BY <3>2 DEF IsTheirOwn
      <4>2. Later(m)' = Later(m) /\ Later(m) \subseteq Serials
        BY <1>1 DEF Later
      <4> QED
        BY <1>1, <4>1, <4>2 DEF IsTheirOwn
    <3> QED
      BY <3>1, <3>2 DEF ReadingsAreCurrent
  <2>2. \A m \in intact' : m > born' /\ Source(m)' \notin Refusable =>
          \A e \in Entries(m)' :
            e.v # None => /\ Source(m)' \in DOMAIN bus'.devices
                          /\ e.key \in DOMAIN bus'.devices[Source(m)'].params
    BY <1>1 DEF ReadingsAreCurrent
  <2> QED
    BY <2>1, <2>2 DEF ReadingsAreCurrent
<1>3. DevicesAreReal => DevicesAreReal'
  BY <1>1 DEF DevicesAreReal
<1>4. \A a, k : Descriptions(a, k) \subseteq Descriptions(a, k)'
  BY <1>1 DEF Descriptions
<1>5. MetaIsTold => MetaIsTold'
  BY <1>4 DEF MetaIsTold, Meta
<1>6. ToldIsKnown => ToldIsKnown'
  <2>1. \A a : Device(bus, a)' = Device(bus, a)
    BY DEF Device
  <2> QED
    BY <1>1, <2>1 DEF ToldIsKnown
<1> QED
  BY <1>2, <1>3, <1>5, <1>6

\* Two buses whose devices publish the same, but for silent ones.
SamePublished(b0, b) ==
  /\ b.discovered = b0.discovered
  /\ DOMAIN b0.devices \subseteq DOMAIN b.devices
  /\ \A a \in DOMAIN b0.devices : b.devices[a].params = b0.devices[a].params
  /\ \A a \in DOMAIN b.devices \ DOMAIN b0.devices : b.devices[a].params = <<>>

\* A name is made of what devices publish.
LEMMA NamesOfPublished ==
  ASSUME NEW b0, NEW b, SamePublished(b0, b), NEW a \in DOMAIN b0.devices
  PROVE  DeviceName(b, a) = DeviceName(b0, a) /\ (DeviceIsNamed(b, a) <=> DeviceIsNamed(b0, a))
<1>1. \A d, e : d.params = e.params => ProductName(d) = ProductName(e) /\ Label(d) = Label(e)
  <2> SUFFICES ASSUME NEW d, NEW e, d.params = e.params
               PROVE  ProductName(d) = ProductName(e) /\ Label(d) = Label(e)
    OBVIOUS
  <2> DEFINE named(x) == {k \in DOMAIN x.params :
                            k[2] = "Name" /\ k # IDENTIFY /\ Reported(x, k) # None}
  <2>1. \A k : Reported(d, k) = Reported(e, k)
    BY DEF Reported
  <2>2. named(d) = named(e)
    BY <2>1
  <2>3. /\ Label(d) = IF named(d) = {} THEN None ELSE d.params[CHOOSE k \in named(d) : TRUE]
        /\ Label(e) = IF named(e) = {} THEN None ELSE e.params[CHOOSE k \in named(e) : TRUE]
    BY Zenon DEF Label
  <2> HIDE DEF named
  <2> QED
    BY <2>1, <2>2, <2>3 DEF ProductName
<1>2. \A d : d.params = <<>> => ProductName(d) = None /\ Label(d) = None
  BY DEF ProductName, Label, Reported
<1>3. \A x \in DOMAIN b0.devices :
        ProductName(b.devices[x]) = ProductName(b0.devices[x]) /\ Label(b.devices[x]) = Label(b0.devices[x])
  BY <1>1 DEF SamePublished
<1>4. \A x \in DOMAIN b.devices \ DOMAIN b0.devices :
        ProductName(b.devices[x]) = None /\ Label(b.devices[x]) = None
  BY <1>2 DEF SamePublished
<1>5. \A l : l # None => (LabelIsUnique(b, a, l) <=> LabelIsUnique(b0, a, l))
  BY <1>3, <1>4 DEF LabelIsUnique, SamePublished
<1>6. \A n : n # None => (NameIsUnique(b, a, n) <=> NameIsUnique(b0, a, n))
  BY <1>3, <1>4 DEF NameIsUnique, SamePublished
<1>7. Device(b, a) = b.devices[a] /\ Device(b0, a) = b0.devices[a]
  BY DEF Device, SamePublished
<1> DEFINE product == ProductName(b0.devices[a])
           base == IF product # None THEN product ELSE KnownName(a)
           label == Label(b0.devices[a])
<1>8. ProductName(b.devices[a]) = product /\ Label(b.devices[a]) = label
  BY <1>3
<1>9. DeviceIsNamed(b, a) <=> DeviceIsNamed(b0, a)
  BY <1>8 DEF DeviceIsNamed, SamePublished
<1>10. DeviceName(b, a) = DeviceName(b0, a)
  <2>1. DeviceName(b0, a) =
          IF base = None /\ label = None THEN Placeholder(a)
          ELSE IF base = None THEN Name(None, label, None)
          ELSE IF label \notin {None, base} /\ LabelIsUnique(b0, a, label)
               THEN Name(base, label, None)
          ELSE IF NameIsUnique(b0, a, base) THEN Name(base, None, None)
          ELSE Name(base, None, a % 256)
    BY <1>7 DEF DeviceName
  <2>2. DeviceName(b, a) =
          IF base = None /\ label = None THEN Placeholder(a)
          ELSE IF base = None THEN Name(None, label, None)
          ELSE IF label \notin {None, base} /\ LabelIsUnique(b, a, label)
               THEN Name(base, label, None)
          ELSE IF NameIsUnique(b, a, base) THEN Name(base, None, None)
          ELSE Name(base, None, a % 256)
    BY <1>7, <1>8 DEF DeviceName
  <2> HIDE DEF base, label
  <2>3. label \notin {None, base} => (LabelIsUnique(b, a, label) <=> LabelIsUnique(b0, a, label))
    BY <1>5
  <2>4. base # None => (NameIsUnique(b, a, base) <=> NameIsUnique(b0, a, base))
    BY <1>6
  <2> QED
    BY <2>1, <2>2, <2>3, <2>4
<1> QED
  BY <1>9, <1>10

-----------------------------------------------------------------------------
(* The bus when a frame is filed *)

\* The frame is filed, and with it the bus stays one.
LEMMA FrameFiled ==
  ASSUME Hub, NEW f, Heard(f), OnFrame(f)
  PROVE  /\ Filed(bus, bus', f.src, Range(f.entries)) /\ Touched(bus, bus', f.src)
         /\ bus'.assigned = (IF f.kind = "registration" /\ HasClient THEN f.addr ELSE bus.assigned)
         /\ IsBus(bus') /\ bus'.assigned \in OurAddresses \cup {DEV_APP_DEFAULT}
         /\ f.src \notin Refusable => Attributable(bus, f.src)
<1>1. /\ Filed(bus, bus', f.src, Range(f.entries))
      /\ bus'.assigned = (IF f.kind = "registration" /\ HasClient THEN f.addr ELSE bus.assigned)
  BY HandleFrameEffect, Zenon DEF Hub, Heard, OnFrame
<1>2. bus'.assigned \in OurAddresses \cup {DEV_APP_DEFAULT}
  <2>1. f.kind = "registration" => f.addr \in OurAddresses
    BY DEF Heard, IsFrame
  <2> QED
    BY <1>1, <2>1, Zenon DEF Hub
<1> QED
  BY <1>1, <1>2 DEF Filed, Touched, Hub, Attributable, Refusable

\* What the devices that the frame is not from publish.
LEMMA OthersUntouched ==
  ASSUME NEW b0, NEW b, NEW src, NEW es, Filed(b0, b, src, es), NEW a,
         a # src \/ ~Attributable(b0, src)
  PROVE  Device(b, a) = Device(b0, a) /\ (a \in DOMAIN b.devices <=> a \in DOMAIN b0.devices)
BY DEF Filed, Touched, Device

\* A device's values and descriptions, those of one unheard too.
LEMMA DeviceOrNew ==
  ASSUME NEW b, NEW a
  PROVE  /\ a \in DOMAIN b.devices => Device(b, a) = b.devices[a]
         /\ a \notin DOMAIN b.devices => DOMAIN Device(b, a).params = {} /\ \A k : Meta(Device(b, a), k) = Undescribed
         /\ \A k : k \in DOMAIN Device(b, a).params => a \in DOMAIN b.devices
BY DEF Device, NewDevice, Meta

\* A reading stays current unless a later one of the same device replaces it.
LEMMA FrameValues ==
  ASSUME WireInv, Hub, ReadingsAreCurrent, NEW f, Heard(f), OnFrame(f), UNCHANGED <<said, astray, born>>
  PROVE  \A a \in DOMAIN bus'.devices \ Refusable : \A k \in DOMAIN bus'.devices[a].params :
           \/ astray' /\ bus'.devices[a].params[k] = Garbled
           \/ IsTheirOwn(a, k, bus.devices[a].params[k])'
<1> SUFFICES ASSUME NEW a \in DOMAIN bus'.devices \ Refusable, NEW k \in DOMAIN bus'.devices[a].params
             PROVE  \/ astray' /\ bus'.devices[a].params[k] = Garbled
                    \/ IsTheirOwn(a, k, bus.devices[a].params[k])'
  OBVIOUS
<1> DEFINE v == bus'.devices[a].params[k]
           es == Range(f.entries)
<1>1. /\ Filed(bus, bus', f.src, es)
      /\ f.src \notin Refusable => Attributable(bus, f.src)
  BY FrameFiled
<1>2. /\ intact \subseteq Serials /\ Serials' = Serials /\ Len(said) \in Nat
      /\ now \in Serials => now = Len(said)
      /\ \A m : Source(m)' = Source(m) /\ Entries(m)' = Entries(m)
  BY DEF WireInv, Wire!TypeOK, LatestOnly, Serials, Wire!Serials, Source, Entries
<1>3. \/ /\ now \in Serials /\ f.src = Source(now) /\ es = Entries(now)
         /\ intact' \in {intact, intact \cup {now}}
      \/ astray /\ intact' = intact /\ \A e \in es : e.v = Garbled
  <2>1. \A m \in Serials : Range(Frame[said[m]].entries) = Entries(m)
    BY DEF WireInv, Wire!TypeOK, Serials, Entries, EntriesOf
  <2> QED
    BY <2>1 DEF Heard, Source
<1>4. CASE \E e \in es : a = f.src /\ e.key = k /\ e.v # None /\ v = e.v
  <2>1. CASE now \in Serials /\ f.src = Source(now) /\ es = Entries(now) /\ intact' \in {intact, intact \cup {now}}
    <3>1. PICK m \in Serials : m = now
      BY <2>1
    <3>2. Later(m)' = {}
      <4>1. m = Len(said) /\ intact' \subseteq 1..Len(said)
        BY <1>2, <2>1, <3>1 DEF Serials
      <4>2. \A n \in 1..Len(said) : ~(n > Len(said))
        BY <1>2
      <4> QED
        BY <4>1, <4>2 DEF Later
    <3>3. Source(m)' = a /\ \E e \in Entries(m)' : e.key = k /\ e.v = v
      BY <1>2, <1>4, <2>1, <3>1
    <3> QED
      BY <1>2, <3>2, <3>3 DEF IsTheirOwn
  <2>2. CASE astray /\ \A e \in es : e.v = Garbled
    <3>1. astray'
      BY <2>2, Zenon
    <3> QED
      BY <1>4, <2>2, <3>1
  <2> QED
    BY <1>3, <2>1, <2>2, Zenon
<1>5. CASE /\ a \in DOMAIN bus.devices /\ k \in DOMAIN bus.devices[a].params /\ v = bus.devices[a].params[k]
           /\ a = f.src => \A e \in es : e.key = k => e.v = None
  <2> DEFINE w == bus.devices[a].params[k]
  <2>1. CASE astray /\ w = Garbled
    <3>1. astray'
      BY <2>1, Zenon
    <3> QED
      BY <1>5, <2>1, <3>1
  <2>2. CASE IsTheirOwn(a, k, w)
    <3>1. PICK m \in Serials :
            /\ Source(m) = a /\ \E e \in Entries(m) : e.key = k /\ e.v = w
            /\ \A n \in Later(m) :
                 Source(n) = a => \A e \in Entries(n) : e.key = k => e.v \in {None, w}
      BY <2>2 DEF IsTheirOwn
    <3>2. ASSUME NEW n \in Later(m)', Source(n) = a PROVE \A e \in Entries(n) : e.key = k => e.v \in {None, w}
      <4>1. CASE n \in intact
        BY <3>1, <3>2, <4>1 DEF Later
      <4>2. CASE n \notin intact
        <5>1. n = now /\ f.src = Source(now) /\ es = Entries(now)
          BY <1>3, <4>2 DEF Later
        <5> QED
          BY <1>5, <3>2, <5>1
      <4> QED
        BY <4>1, <4>2
    <3> QED
      BY <1>2, <1>5, <3>1, <3>2 DEF IsTheirOwn
  <2> QED
    BY <1>5, <2>1, <2>2 DEF ReadingsAreCurrent
<1>6. CASE a # f.src
  <2>1. Device(bus', a) = Device(bus, a) /\ a \in DOMAIN bus.devices
    BY <1>1, <1>6, OthersUntouched
  <2>2. bus'.devices[a] = bus.devices[a]
    BY <2>1, DeviceOrNew
  <2> QED
    BY <1>5, <1>6, <2>1, <2>2
<1>7. CASE a = f.src
  <2>1. ValuesFiled(Device(bus, a).params, Device(bus', a).params, es)
    BY <1>1, <1>7 DEF Filed
  <2>2. bus'.devices[a] = Device(bus', a)
    BY DeviceOrNew
  <2>3. \/ \E e \in es : e.key = k /\ e.v # None /\ v = e.v
        \/ k \in DOMAIN Device(bus, a).params /\ v = Device(bus, a).params[k] /\ \A e \in es : e.key = k => e.v = None
    BY <2>1, <2>2 DEF ValuesFiled
  <2>4. k \in DOMAIN Device(bus, a).params => a \in DOMAIN bus.devices /\ Device(bus, a) = bus.devices[a]
    BY DeviceOrNew
  <2> QED
    BY <1>4, <1>5, <1>7, <2>3, <2>4
<1> QED
  BY <1>6, <1>7

\* What got through is on the bus, now and ever after.
LEMMA FrameArrives ==
  ASSUME WireInv, Hub, ReadingsAreCurrent, NEW f, Heard(f), OnFrame(f), UNCHANGED <<said, astray, born>>
  PROVE  \A m \in intact' : m > born' /\ Source(m)' \notin Refusable =>
           \A e \in Entries(m)' :
             e.v # None => /\ Source(m)' \in DOMAIN bus'.devices
                           /\ e.key \in DOMAIN bus'.devices[Source(m)'].params
<1> SUFFICES ASSUME NEW m \in intact', m > born, Source(m) \notin Refusable,
                    NEW e \in Entries(m), e.v # None
             PROVE  Source(m) \in DOMAIN bus'.devices /\ e.key \in DOMAIN bus'.devices[Source(m)].params
  BY DEF Source, Entries
<1> DEFINE a == Source(m)
           es == Range(f.entries)
<1>1. /\ Filed(bus, bus', f.src, es) /\ Touched(bus, bus', f.src)
      /\ f.src \notin Refusable => Attributable(bus, f.src)
  BY FrameFiled
<1>2. CASE m \in intact
  <2>1. a \in DOMAIN bus.devices /\ e.key \in DOMAIN bus.devices[a].params
    BY <1>2 DEF ReadingsAreCurrent
  <2>2. CASE a # f.src
    BY <1>1, <2>1, <2>2 DEF Touched
  <2>3. CASE a = f.src
    <3>1. a \in DOMAIN bus'.devices /\ ValuesFiled(Device(bus, a).params, Device(bus', a).params, es)
      BY <1>1, <2>1, <2>3 DEF Touched, Filed
    <3> QED
      BY <2>1, <3>1, DeviceOrNew DEF ValuesFiled
  <2> QED
    BY <2>2, <2>3
<1>3. CASE m \notin intact
  <2>1. m = now /\ now \in Serials /\ f = Frame[said[now]]
    BY <1>3 DEF Heard
  <2>2. a = f.src /\ e \in es
    BY <2>1 DEF Source, Entries, EntriesOf, WireInv, Wire!TypeOK, Serials
  <2>3. /\ ValuesFiled(Device(bus, a).params, Device(bus', a).params, es)
        /\ a \in DOMAIN bus'.devices
    BY <1>1, <2>2 DEF Filed
  <2> QED
    BY <2>2, <2>3, DeviceOrNew DEF ValuesFiled
<1> QED
  BY <1>2, <1>3

\* A device that comes onto the bus has spoken, and is not us unless the panel
\* used our address before the client knew it.
LEMMA FrameDevices ==
  ASSUME WireInv, Hub, Addressed, KnowsItself, DevicesAreReal, NEW f, Heard(f), OnFrame(f),
         UNCHANGED <<said, astray, born>>
  PROVE  DevicesAreReal'
<1> SUFFICES ASSUME astray = FALSE, NEW a \in DOMAIN bus'.devices
             PROVE  /\ \E m \in Serials : m > born /\ Source(m) = a
                    /\ a \in OurAddresses => strayed'
  <2>1. astray \in BOOLEAN
    BY Zenon DEF WireInv, Wire!TypeOK
  <2> QED
    BY <2>1 DEF DevicesAreReal, Serials, Source
<1>1. Filed(bus, bus', f.src, Range(f.entries)) /\ Touched(bus, bus', f.src)
  BY FrameFiled
<1>2. strayed => strayed'
  BY Zenon DEF OnFrame
<1>3. CASE a \in DOMAIN bus.devices
  <2>1. (\E m \in Serials : m > born /\ Source(m) = a) /\ (a \in OurAddresses => strayed)
    BY <1>3, Zenon DEF DevicesAreReal
  <2> QED
    BY <1>2, <2>1, Zenon
<1>4. CASE a \notin DOMAIN bus.devices
  <2>1. a = f.src /\ Attributable(bus, a)
    BY <1>1, <1>4 DEF Filed, Touched
  <2>2. now \in Serials /\ now > born /\ f = Frame[said[now]] /\ now # 0
    BY DEF Heard, Serials
  <2>3. Source(now) = a
    BY <2>1, <2>2 DEF Source
  <2>4. a \in OurAddresses => ~registered
    BY <2>1, <2>2, <2>3 DEF Addressed, KnowsItself, Attributable
  <2>5. a \in OurAddresses => strayed'
    BY <2>1, <2>4, Zenon DEF OnFrame
  <2> QED
    BY <2>2, <2>3, <2>5, Zenon
<1> QED
  BY <1>3, <1>4

\* What is known of a parameter, this frame has told, or it was known before.
LEMMA FrameTold ==
  ASSUME Hub, MetaIsTold, NEW f, Heard(f), OnFrame(f), UNCHANGED <<said, born>>
  PROVE  MetaIsTold'
<1> SUFFICES ASSUME NEW a \in DOMAIN bus'.devices, NEW k \in DOMAIN bus'.devices[a].meta, NEW g \in MetaFields
             PROVE  \/ Meta(bus'.devices[a], k)[g] = Undescribed[g]
                    \/ \E d \in Descriptions(a, k) : Meta(bus'.devices[a], k)[g] = Described(d)[g]
  BY DEF MetaIsTold, Descriptions, Serials, Source, Entries
<1> DEFINE es == Range(f.entries)
<1>1. Filed(bus, bus', f.src, es) /\ Touched(bus, bus', f.src)
  BY FrameFiled
<1>2. \A d, x : x \in DOMAIN d.meta \/ Meta(d, x) = Undescribed
  BY DEF Meta
<1>3. a \in DOMAIN bus.devices =>
        \/ Meta(bus.devices[a], k)[g] = Undescribed[g]
        \/ \E d \in Descriptions(a, k) : Meta(bus.devices[a], k)[g] = Described(d)[g]
  BY <1>2 DEF MetaIsTold
<1>4. bus'.devices[a] = Device(bus', a)
  BY DeviceOrNew
<1>5. CASE a # f.src \/ ~Attributable(bus, f.src)
  <2>1. Device(bus', a) = Device(bus, a) /\ a \in DOMAIN bus.devices
    BY <1>1, <1>5, OthersUntouched
  <2>2. Device(bus, a) = bus.devices[a]
    BY <2>1, DeviceOrNew
  <2> QED
    BY <1>3, <1>4, <2>1, <2>2
<1>6. CASE a = f.src /\ Attributable(bus, f.src)
  <2>1. MetaFiled(Device(bus, a), Device(bus', a), es)
    BY <1>1, <1>6 DEF Filed
  <2>2. \/ Meta(Device(bus', a), k)[g] = Meta(Device(bus, a), k)[g]
        \/ \E e \in es : e.key = k /\ Meta(Device(bus', a), k)[g] = Described(e)[g]
    BY <2>1, Zenon DEF MetaFiled
  <2>3. CASE Meta(Device(bus', a), k)[g] = Meta(Device(bus, a), k)[g]
    <3>1. a \in DOMAIN bus.devices => Device(bus, a) = bus.devices[a]
      BY DeviceOrNew
    <3>2. a \notin DOMAIN bus.devices => Meta(Device(bus, a), k) = Undescribed
      BY DeviceOrNew
    <3> QED
      BY <1>3, <1>4, <2>3, <3>1, <3>2
  <2>4. CASE \E e \in es : e.key = k /\ Meta(Device(bus', a), k)[g] = Described(e)[g]
    <3>1. PICK e \in es : e.key = k /\ Meta(Device(bus', a), k)[g] = Described(e)[g]
      BY <2>4
    <3>2. PICK m \in Serials : /\ m > born /\ Source(m) = a
                               /\ \E x \in Entries(m) : x.key = k /\ Described(x) = Described(e)
      BY <1>6, <3>1 DEF Heard
    <3>3. PICK x \in Entries(m) : x.key = k /\ Described(x) = Described(e)
      BY <3>2
    <3>4. x \in Descriptions(a, k)
      BY <3>2, <3>3 DEF Descriptions
    <3> QED
      BY <1>4, <3>1, <3>3, <3>4
  <2> QED
    BY <2>2, <2>3, <2>4
<1> QED
  BY <1>5, <1>6

\* What got through is known, now and ever after.
LEMMA FrameKnown ==
  ASSUME WireInv, Hub, ToldIsKnown, NEW f, Heard(f), OnFrame(f), UNCHANGED <<said, born>>
  PROVE  ToldIsKnown'
<1> SUFFICES ASSUME NEW m \in intact', m > born, Source(m) \notin Refusable,
                    NEW e \in Entries(m), NEW g \in MetaFields, Described(e)[g] # Undescribed[g]
             PROVE  Meta(Device(bus', Source(m)), e.key)[g] # Undescribed[g]
  <2>1. \A a : Device(bus, a)' = Device(bus', a)
    BY DEF Device
  <2> QED
    BY <2>1 DEF ToldIsKnown, Source, Entries
<1> DEFINE a == Source(m)
           es == Range(f.entries)
<1>1. /\ Filed(bus, bus', f.src, es)
      /\ f.src \notin Refusable => Attributable(bus, f.src)
  BY FrameFiled
<1>2. CASE a # f.src
  <2>1. m \in intact
    BY <1>2 DEF Heard, Source
  <2>2. Device(bus', a) = Device(bus, a)
    BY <1>1, <1>2, OthersUntouched
  <2> QED
    BY <2>1, <2>2 DEF ToldIsKnown
<1>3. CASE a = f.src
  <2>1. MetaFiled(Device(bus, a), Device(bus', a), es)
    BY <1>1, <1>3 DEF Filed
  <2>2. \/ /\ Meta(Device(bus', a), e.key)[g] = Meta(Device(bus, a), e.key)[g]
           /\ \A x \in es : x.key = e.key => Described(x)[g] = Undescribed[g]
        \/ Meta(Device(bus', a), e.key)[g] # Undescribed[g]
    BY <2>1, Zenon DEF MetaFiled
  <2>3. CASE m \in intact
    <3>1. Meta(Device(bus, a), e.key)[g] # Undescribed[g]
      BY <2>3 DEF ToldIsKnown
    <3> QED
      BY <2>2, <3>1
  <2>4. CASE m \notin intact
    <3>1. m = now /\ now \in Serials /\ f = Frame[said[now]]
      BY <2>4 DEF Heard
    <3>2. e \in es
      BY <3>1 DEF Entries, EntriesOf, WireInv, Wire!TypeOK, Serials
    <3> QED
      BY <2>2, <3>2
  <2> QED
    BY <2>3, <2>4
<1> QED
  BY <1>2, <1>3

\* A renaming leaves no name behind.
LEMMA PublishNames ==
  ASSUME Publish(bus') PROVE NamesFollowTheBus'
<1>1. /\ DOMAIN registry' = DOMAIN registry
      /\ \A a \in DOMAIN registry : a \in DOMAIN bus'.devices /\ DeviceIsNamed(bus', a) =>
           registry'[a] = DeviceName(bus', a)
  BY DEF Publish, Renamed
<1>2. \A a : DeviceIsNamed(bus, a)' = DeviceIsNamed(bus', a) /\ DeviceName(bus, a)' = DeviceName(bus', a)
  BY DEF DeviceIsNamed, DeviceName, Device, LabelIsUnique, NameIsUnique
<1> QED
  BY <1>1, <1>2 DEF NamesFollowTheBus

\* A frame with no value in it changes no name.
LEMMA FrameNames ==
  ASSUME Hub, NamesFollowTheBus, NEW f, Heard(f), OnFrame(f)
  PROVE  NamesFollowTheBus'
<1>1. CASE Moves(f)
  <2>1. Publish(bus')
    BY <1>1 DEF OnFrame
  <2> QED
    BY <2>1, PublishNames
<1>2. CASE ~Moves(f)
  <2> DEFINE es == Range(f.entries)
  <2>1. \A e \in es : e.v = None
    <3>1. f.kind # "discovery" /\ IsFrame(f) /\ (f.kind = "info" => f.entries[1].v = None)
      BY <1>2 DEF Moves, Heard
    <3>2. CASE f.kind = "info"
      BY <3>1, <3>2 DEF IsFrame, Range
    <3>3. CASE f.kind # "info"
      BY <3>1, <3>3 DEF IsFrame, Range
    <3> QED
      BY <3>2, <3>3
  <2>2. Filed(bus, bus', f.src, es) /\ Touched(bus, bus', f.src)
    BY FrameFiled
  <2>3. Device(bus', f.src).params = Device(bus, f.src).params
    <3>1. CASE Attributable(bus, f.src)
      BY <2>1, <2>2, <3>1 DEF Filed, ValuesFiled
    <3>2. CASE ~Attributable(bus, f.src)
      BY <2>2, <3>2, OthersUntouched
    <3> QED
      BY <3>1, <3>2
  <2>4. SamePublished(bus, bus')
    <3>1. \A a \in DOMAIN bus.devices : bus'.devices[a].params = bus.devices[a].params
      BY <2>2, <2>3 DEF Touched, Device
    <3>2. \A a \in DOMAIN bus'.devices \ DOMAIN bus.devices : bus'.devices[a].params = <<>>
      BY <2>2, <2>3 DEF Touched, Device, NewDevice
    <3> QED
      BY <2>2, <3>1, <3>2 DEF SamePublished, Touched
  <2>5. unsynced' = unsynced \cup (DOMAIN bus'.devices \ DOMAIN bus.devices) /\ registry' = registry
    BY <1>2 DEF OnFrame
  <2>6. \A a : DeviceIsNamed(bus, a)' = DeviceIsNamed(bus', a) /\ DeviceName(bus, a)' = DeviceName(bus', a)
    BY DEF DeviceIsNamed, DeviceName, Device, LabelIsUnique, NameIsUnique
  <2>7. \A a \in DOMAIN bus.devices :
          DeviceName(bus', a) = DeviceName(bus, a) /\ (DeviceIsNamed(bus', a) <=> DeviceIsNamed(bus, a))
    BY <2>4, NamesOfPublished
  <2> QED
    BY <2>5, <2>6, <2>7 DEF NamesFollowTheBus
<1> QED
  BY <1>1, <1>2

-----------------------------------------------------------------------------
(* The entities and the registry *)

\* What is built belongs to devices on the bus, and only devices have names.
Rooms ==
  /\ DOMAIN bus.devices \subseteq Addresses \ {DEV_MSG_BROKER}
  /\ \A e \in built : e.addr \in DOMAIN bus.devices /\ e.key \in DOMAIN bus.devices[e.addr].params
  /\ \A e \in adding : e.addr # DEV_PANEL /\ \E b \in built : b.addr = e.addr
  /\ DOMAIN registry \subseteq Addresses \ {DEV_PANEL}

\* Entities are built for what devices publish, and named for their devices.
LEMMA PublishRooms ==
  ASSUME Rooms, Publish(bus'), DOMAIN bus'.devices \subseteq Addresses \ {DEV_MSG_BROKER},
         \A a \in DOMAIN bus.devices :
           a \in DOMAIN bus'.devices /\ DOMAIN bus.devices[a].params \subseteq DOMAIN bus'.devices[a].params
  PROVE  Rooms'
<1>1. \A e \in ToBuild(bus') : e.addr \in DOMAIN bus'.devices /\ e.key \in DOMAIN bus'.devices[e.addr].params
  BY DEF ToBuild, Buildable
<1>2. \A e \in Infos(bus', ToBuild(bus')) : e.addr # DEV_PANEL /\ \E b \in ToBuild(bus') : b.addr = e.addr
  BY DEF Infos
<1>3. built' = built \cup ToBuild(bus') /\ adding' = adding \cup Infos(bus', ToBuild(bus'))
  BY DEF Publish
<1>4. DOMAIN registry' = DOMAIN registry
  BY DEF Publish, Renamed
<1>5. \A e \in built' : e.addr \in DOMAIN bus'.devices /\ e.key \in DOMAIN bus'.devices[e.addr].params
  BY <1>1, <1>3 DEF Rooms
<1>6. \A e \in adding' : e.addr # DEV_PANEL /\ \E b \in built' : b.addr = e.addr
  BY <1>2, <1>3 DEF Rooms
<1> QED
  BY <1>4, <1>5, <1>6 DEF Rooms

\* A frame takes nothing off the bus.
LEMMA FrameRooms ==
  ASSUME Hub, Rooms, NEW f, Heard(f), OnFrame(f) PROVE Rooms'
<1> DEFINE es == Range(f.entries)
<1>1. Filed(bus, bus', f.src, es) /\ Touched(bus, bus', f.src)
  BY FrameFiled
<1>2. DOMAIN bus'.devices \subseteq Addresses \ {DEV_MSG_BROKER}
  <2>1. f.src \in Addresses
    BY DEF Heard
  <2> QED
    BY <1>1, <2>1 DEF Filed, Touched, Attributable, Rooms
<1>3. \A a \in DOMAIN bus.devices :
        a \in DOMAIN bus'.devices /\ DOMAIN bus.devices[a].params \subseteq DOMAIN bus'.devices[a].params
  <2> SUFFICES ASSUME NEW a \in DOMAIN bus.devices
               PROVE a \in DOMAIN bus'.devices /\ DOMAIN bus.devices[a].params \subseteq DOMAIN bus'.devices[a].params
    OBVIOUS
  <2>1. a \in DOMAIN bus'.devices
    BY <1>1 DEF Touched
  <2>2. Device(bus', a) = bus'.devices[a] /\ Device(bus, a) = bus.devices[a]
    BY <2>1, DeviceOrNew
  <2>3. CASE a # f.src \/ ~Attributable(bus, f.src)
    BY <1>1, <2>1, <2>2, <2>3, OthersUntouched
  <2>4. CASE a = f.src /\ Attributable(bus, f.src)
    BY <1>1, <2>1, <2>2, <2>4 DEF Filed, ValuesFiled
  <2> QED
    BY <2>1, <2>3, <2>4
<1>4. CASE Moves(f)
  <2>1. Publish(bus')
    BY <1>4 DEF OnFrame
  <2> QED
    BY <1>2, <1>3, <2>1, PublishRooms
<1>5. CASE ~Moves(f)
  <2>1. UNCHANGED <<built, adding, registry>>
    BY <1>5 DEF OnFrame
  <2> QED
    BY <1>2, <1>3, <2>1 DEF Rooms
<1> QED
  BY <1>4, <1>5

\* A registration tells the client the address that the panel has given it.
LEMMA FrameRegisters ==
  ASSUME WireInv, Hub, Addressed, KnowsItself, NEW f, Heard(f), OnFrame(f),
         UNCHANGED <<said, astray, given>>
  PROVE  KnowsItself'
<1>1. bus'.assigned = (IF f.kind = "registration" /\ HasClient THEN f.addr ELSE bus.assigned)
  BY FrameFiled
<1>2. registered' = (registered \/ (HasClient /\ f.kind = "registration"))
  BY DEF OnFrame
<1>4. CASE f.kind = "registration" /\ HasClient
  <2>1. bus'.assigned = f.addr
    BY <1>1, <1>4, Zenon
  <2>2. astray = FALSE => f.addr = given
    <3>1. astray = FALSE => now # 0 /\ f = Frame[said[now]]
      BY DEF Heard, Serials
    <3> QED
      BY <1>4, <3>1 DEF Addressed
  <2> QED
    BY <1>4, <2>1, <2>2 DEF KnowsItself
<1>5. CASE ~(f.kind = "registration" /\ HasClient)
  <2>1. bus'.assigned = bus.assigned
    BY <1>1, <1>5, Zenon
  <2>2. registered' => registered
    BY <1>2, <1>5, Zenon
  <2> QED
    BY <2>1, <2>2 DEF KnowsItself
<1> QED
  BY <1>4, <1>5

-----------------------------------------------------------------------------
(* The invariant of the whole *)

\* What holds of the bus and of what is made of it.
OnTheBus ==
  /\ Hub /\ Rooms /\ KnowsItself
  /\ ReadingsAreCurrent /\ DevicesAreReal /\ NamesFollowTheBus /\ MetaIsTold /\ ToldIsKnown

\* What holds of the receiver and the panel.
OnTheWire == WireInv /\ Progress /\ Fresh /\ Addressed

\* The bounds.
Counted == reloads \in 0..MaxReloads /\ born \in 0..Len(said)

\* The inductive invariant.
Inv == OnTheWire /\ OnTheBus /\ Counted

\* It says all that TypeOK does.
LEMMA TypesHold == Inv => TypeOK
BY DEF Inv, OnTheWire, OnTheBus, Counted, WireInv, Rooms, Hub, TypeOK

\* Nothing is on the bus yet.
LEMMA InitInv == Init => Inv
<1> SUFFICES ASSUME Init PROVE Inv
  OBVIOUS
<1>1. WireInv /\ Progress
  BY InitWireInv, InitProgress DEF Init
<1>2. Fresh /\ Addressed /\ Len(said) = 0
  BY DEF Init, Wire!Init, Fresh, Addressed, Wire!Empty
<1>3. /\ DOMAIN bus.devices = {} /\ bus.assigned = DEV_APP_DEFAULT /\ IsBus(bus)
      /\ DOMAIN registry = {} /\ Serials = {} /\ intact = {}
  BY <1>2 DEF Init, NewBus, IsBus, Wire!Init, Serials
<1>4. Hub /\ Rooms /\ KnowsItself
  <2>1. registered = FALSE /\ built = {} /\ adding = {}
    BY DEF Init
  <2> QED
    BY <1>3, <2>1 DEF Hub, Rooms, KnowsItself
<1>5. ReadingsAreCurrent /\ DevicesAreReal /\ NamesFollowTheBus /\ MetaIsTold /\ ToldIsKnown
  BY <1>3 DEF ReadingsAreCurrent, DevicesAreReal, NamesFollowTheBus, MetaIsTold, ToldIsKnown
<1>6. Counted
  BY <1>2, ReloadsAssumption DEF Init, Counted
<1> QED
  BY <1>1, <1>2, <1>4, <1>5, <1>6 DEF Inv, OnTheWire, OnTheBus

\* What the wire is at, in every step.
LEMMA WireSteps == Inv /\ [Next]_vars => OnTheWire'
<1> SUFFICES ASSUME Inv, [Next]_vars PROVE OnTheWire'
  OBVIOUS
<1>1. [Wire!Next]_Wire!vars /\ TypeOK
  BY StepsOfTheWire, TypesHold
<1>2. WireInv /\ Progress /\ Fresh /\ Addressed
  BY DEF Inv, OnTheWire
<1> QED
  BY <1>1, <1>2, NextWireInv, ProgressSteps, FreshSteps, AddressedSteps DEF OnTheWire

\* A step that leaves bus, entities and registry alone.
LEMMA HubStill ==
  ASSUME Inv, [Next]_vars, UNCHANGED <<hub, strayed, born, intact>>,
         registered' => registered /\ (given' = given \/ given = None)
  PROVE  OnTheBus'
<1>1. [Wire!Next]_Wire!vars /\ WireInv
  BY StepsOfTheWire DEF Inv, OnTheWire
<1>2. ReadingsAreCurrent' /\ DevicesAreReal' /\ MetaIsTold' /\ ToldIsKnown'
  <2>1. bus'.devices = bus.devices /\ UNCHANGED <<intact, born, strayed>>
    BY DEF hub
  <2> QED
    BY <1>1, <2>1, BusStill DEF Inv, OnTheBus
<1>3. NamesFollowTheBus' /\ Hub' /\ Rooms'
  <2>1. UNCHANGED <<bus, built, adding, registry, unsynced>>
    BY DEF hub
  <2>2. \A a : /\ DeviceIsNamed(bus, a)' = DeviceIsNamed(bus, a)
               /\ DeviceName(bus, a)' = DeviceName(bus, a)
    BY <2>1 DEF DeviceIsNamed, DeviceName, Device, LabelIsUnique, NameIsUnique
  <2>3. NamesFollowTheBus'
    BY <2>1, <2>2 DEF NamesFollowTheBus, Inv, OnTheBus
  <2>4. Hub' /\ Rooms'
    BY <2>1 DEF Hub, Rooms, Inv, OnTheBus
  <2> QED
    BY <2>3, <2>4
<1>4. KnowsItself'
  <2>1. bus' = bus /\ (astray' = FALSE => astray = FALSE)
    BY <1>1, SaidSteps DEF hub
  <2>2. None \notin OurAddresses \cup {DEV_APP_DEFAULT}
    BY NoneAssumption DEF OurAddresses, DEV_APP_DEFAULT
  <2>3. registered /\ astray = FALSE => given # None
    BY <2>2 DEF Inv, OnTheBus, KnowsItself, Hub
  <2> QED
    BY <2>1, <2>3 DEF KnowsItself, Inv, OnTheBus
<1> QED
  BY <1>2, <1>3, <1>4 DEF OnTheBus

\* A notification.
LEMMA PieceArrivesStep == Inv /\ PieceArrives => OnTheBus'
<1> SUFFICES ASSUME Inv, PieceArrives PROVE OnTheBus'
  OBVIOUS
<1>1. /\ UNCHANGED <<link, said, now, astray, given, born, reloads>>
      /\ \/ UNCHANGED <<hub, registered, strayed, intact>>
         \/ \E f : Heard(f) /\ OnFrame(f)
  BY PieceHeard DEF Inv, OnTheWire
<1>2. CASE UNCHANGED <<hub, registered, strayed, intact>>
  <2>1. [Next]_vars
    BY DEF Next
  <2> QED
    BY <1>1, <1>2, <2>1, HubStill
<1>3. ASSUME NEW f, Heard(f), OnFrame(f) PROVE OnTheBus'
  <2>1. UNCHANGED <<said, astray, born, given>>
    BY <1>1
  <2>2. /\ WireInv /\ Addressed /\ Hub /\ Rooms /\ KnowsItself
        /\ ReadingsAreCurrent /\ DevicesAreReal /\ NamesFollowTheBus /\ MetaIsTold /\ ToldIsKnown
    BY DEF Inv, OnTheWire, OnTheBus
  <2>3. Hub'
    <3>1. adding' = adding \/ Publish(bus')
      BY <1>3 DEF OnFrame
    <3>2. Rooms'
      BY <1>3, <2>2, FrameRooms
    <3>3. IsBus(bus') /\ bus'.assigned \in OurAddresses \cup {DEV_APP_DEFAULT}
      BY <1>3, <2>2, FrameFiled
    <3> QED
      BY <3>2, <3>3 DEF Hub, Rooms, IsBus, IsDevice
  <2>4. ReadingsAreCurrent'
    <3>1. \A a \in DOMAIN bus'.devices \ Refusable : \A k \in DOMAIN bus'.devices[a].params :
            \/ astray' /\ bus'.devices[a].params[k] = Garbled
            \/ IsTheirOwn(a, k, bus.devices[a].params[k])'
      BY <1>3, <2>1, <2>2, FrameValues
    <3>2. \A m \in intact' : m > born' /\ Source(m)' \notin Refusable =>
            \A e \in Entries(m)' :
              e.v # None => /\ Source(m)' \in DOMAIN bus'.devices
                            /\ e.key \in DOMAIN bus'.devices[Source(m)'].params
      BY <1>3, <2>1, <2>2, FrameArrives
    <3> QED
      BY <3>1, <3>2 DEF ReadingsAreCurrent
  <2>5. DevicesAreReal'
    BY <1>3, <2>1, <2>2, FrameDevices
  <2>6. MetaIsTold' /\ ToldIsKnown'
    BY <1>3, <2>1, <2>2, FrameTold, FrameKnown
  <2>7. NamesFollowTheBus' /\ Rooms'
    BY <1>3, <2>2, FrameNames, FrameRooms
  <2>8. KnowsItself'
    BY <1>3, <2>1, <2>2, FrameRegisters
  <2> QED
    BY <2>3, <2>4, <2>5, <2>6, <2>7, <2>8 DEF OnTheBus
<1> QED
  BY <1>1, <1>2, <1>3

\* The end of the startup publishes the bus as it is.
LEMMA StartupEndsStep == Inv /\ StartupEnds => OnTheBus'
<1> SUFFICES ASSUME Inv, StartupEnds PROVE OnTheBus'
  OBVIOUS
<1>1. /\ WireInv /\ Hub /\ Rooms /\ KnowsItself
      /\ ReadingsAreCurrent /\ DevicesAreReal /\ MetaIsTold /\ ToldIsKnown
  BY DEF Inv, OnTheWire, OnTheBus
<1>2. /\ bus' = [bus EXCEPT !.discovered = TRUE] /\ Publish(bus')
      /\ UNCHANGED <<said, astray, intact, born, given, registered, strayed>>
  BY DEF StartupEnds, wire, us
<1>3. /\ bus'.devices = bus.devices /\ bus'.assigned = bus.assigned /\ IsBus(bus')
  BY <1>1, <1>2 DEF Hub, IsBus
<1>4. [Wire!Next]_Wire!vars
  BY StepsOfTheWire DEF Next
<1>5. ReadingsAreCurrent' /\ DevicesAreReal' /\ MetaIsTold' /\ ToldIsKnown'
  BY <1>1, <1>2, <1>3, <1>4, BusStill
<1>6. NamesFollowTheBus'
  BY <1>2, PublishNames
<1>7. Rooms'
  BY <1>1, <1>2, <1>3, PublishRooms DEF Rooms
<1>8. Hub' /\ KnowsItself'
  <2>1. Hub'
    BY <1>1, <1>3, <1>7 DEF Hub, Rooms, IsBus, IsDevice
  <2> QED
    BY <1>1, <1>2, <1>3, <2>1 DEF KnowsItself
<1> QED
  BY <1>5, <1>6, <1>7, <1>8 DEF OnTheBus

\* A name goes into the registry, possibly an old one: the next renaming sees it.
LEMMA EntityAddedStep == Inv /\ EntityAdded => OnTheBus'
<1> SUFFICES ASSUME Inv, EntityAdded PROVE OnTheBus'
  OBVIOUS
<1>1. /\ WireInv /\ Hub /\ Rooms /\ KnowsItself /\ NamesFollowTheBus
      /\ ReadingsAreCurrent /\ DevicesAreReal /\ MetaIsTold /\ ToldIsKnown
  BY DEF Inv, OnTheWire, OnTheBus
<1>2. PICK info \in adding :
        /\ adding' = adding \ {info}
        /\ registry' = With(registry, info.addr, info.name)
        /\ unsynced' = unsynced \cup {info.addr}
        /\ UNCHANGED <<wire, bus, us, built, born, reloads>>
  BY DEF EntityAdded
<1>3. UNCHANGED <<said, astray, intact, born, given, registered, strayed, bus, built>>
  BY <1>2 DEF wire, us
<1>4. [Wire!Next]_Wire!vars
  BY StepsOfTheWire DEF Next
<1>5. ReadingsAreCurrent' /\ DevicesAreReal' /\ MetaIsTold' /\ ToldIsKnown'
  BY <1>1, <1>3, <1>4, BusStill
<1>6. /\ DOMAIN registry' = DOMAIN registry \cup {info.addr}
      /\ \A a \in DOMAIN registry \ {info.addr} : registry'[a] = registry[a]
  BY <1>2 DEF With
<1>7. NamesFollowTheBus'
  <2>1. \A a : /\ DeviceIsNamed(bus, a)' = DeviceIsNamed(bus, a)
               /\ DeviceName(bus, a)' = DeviceName(bus, a)
    BY <1>3 DEF DeviceIsNamed, DeviceName, Device, LabelIsUnique, NameIsUnique
  <2> QED
    BY <1>1, <1>2, <1>3, <1>6, <2>1 DEF NamesFollowTheBus
<1>8. Rooms'
  <2>1. info.addr \in Addresses \ {DEV_PANEL}
    BY <1>1 DEF Rooms
  <2> QED
    BY <1>1, <1>2, <1>3, <1>6, <2>1 DEF Rooms
<1>9. Hub' /\ KnowsItself'
  BY <1>1, <1>2, <1>3 DEF Hub, KnowsItself
<1> QED
  BY <1>5, <1>7, <1>8, <1>9 DEF OnTheBus

\* A new coordinator knows nothing, and answers for nothing said before it.
LEMMA ReloadStep == Inv /\ Reload => OnTheBus'
<1> SUFFICES ASSUME Inv, Reload PROVE OnTheBus'
  OBVIOUS
<1>1. WireInv /\ Rooms /\ intact \subseteq 1..Len(said) /\ Len(said) \in Nat
  BY DEF Inv, OnTheWire, OnTheBus, WireInv, Wire!TypeOK, Wire!Serials
<1>2. /\ bus' = NewBus /\ registered' = FALSE /\ born' = Len(said)
      /\ built' = {} /\ adding' = {} /\ UNCHANGED <<said, intact, registry>>
  BY DEF Reload, wire
<1>3. DOMAIN bus'.devices = {} /\ bus'.assigned = DEV_APP_DEFAULT /\ IsBus(bus')
  BY <1>2 DEF NewBus, IsBus
<1>4. \A m \in intact' : ~(m > born')
  BY <1>1, <1>2
<1>5. Hub' /\ Rooms' /\ KnowsItself'
  <2>1. Hub'
    BY <1>2, <1>3 DEF Hub, IsBus, IsDevice
  <2> QED
    BY <1>1, <1>2, <1>3, <2>1 DEF Rooms, KnowsItself
<1>6. ReadingsAreCurrent' /\ DevicesAreReal' /\ NamesFollowTheBus' /\ MetaIsTold' /\ ToldIsKnown'
  BY <1>3, <1>4 DEF ReadingsAreCurrent, DevicesAreReal, NamesFollowTheBus, MetaIsTold, ToldIsKnown
<1> QED
  BY <1>5, <1>6 DEF OnTheBus

\* What holds of the bus, in every step.
LEMMA BusSteps == Inv /\ [Next]_vars => OnTheBus'
<1> SUFFICES ASSUME Inv, [Next]_vars PROVE OnTheBus'
  OBVIOUS
<1>1. CASE PanelSpeaks
  <2>1. /\ UNCHANGED <<hub, registered, strayed, born, intact>>
        /\ given' = given \/ given = None
    BY <1>1 DEF PanelSpeaks, Wire!Say
  <2> QED
    BY <2>1, HubStill
<1>2. CASE PanelRepeats
  <2>1. UNCHANGED <<hub, registered, strayed, born, intact, given>>
    BY <1>2 DEF PanelRepeats, us, Wire!SayAgain
  <2> QED
    BY <2>1, HubStill
<1>3. CASE Opens
  <2>1. UNCHANGED <<hub, strayed, born, intact>> /\ registered' = FALSE
    BY <1>3 DEF Opens, Wire!Connect, Wire!panel
  <2> QED
    BY <2>1, HubStill
<1>4. CASE LinkChanges
  <2>1. UNCHANGED <<hub, registered, strayed, born, intact, given>>
    BY <1>4 DEF LinkChanges, us, Wire!SubscribeCmd, Wire!SubscribeData,
       Wire!Disconnect, Wire!LinkGone, Wire!panel
  <2> QED
    BY <2>1, HubStill
<1>5. CASE UNCHANGED vars
  <2>1. UNCHANGED <<hub, registered, strayed, born, intact, given>>
    BY <1>5 DEF vars, us, wire
  <2> QED
    BY <2>1, HubStill
<1>6. CASE PieceArrives
  BY <1>6, PieceArrivesStep
<1>7. CASE StartupEnds \/ EntityAdded \/ Reload
  BY <1>7, StartupEndsStep, EntityAddedStep, ReloadStep
<1> QED
  BY <1>1, <1>2, <1>3, <1>4, <1>5, <1>6, <1>7 DEF Next

\* They are kept.
LEMMA CountedSteps == Inv /\ [Next]_vars => Counted'
<1> SUFFICES ASSUME Inv, [Next]_vars PROVE Counted'
  OBVIOUS
<1>1. /\ Len(said) \in Nat /\ Len(said) <= Len(said') /\ Len(said') \in Nat
      /\ reloads \in 0..MaxReloads /\ born \in 0..Len(said)
  <2>1. WireInv /\ WireInv' /\ [Wire!Next]_Wire!vars
    BY WireSteps, StepsOfTheWire DEF Inv, OnTheWire
  <2>2. Len(said) \in Nat /\ Len(said') \in Nat
    BY <2>1 DEF WireInv, Wire!TypeOK
  <2> QED
    BY <2>1, <2>2, SaidSteps DEF Inv, Counted
<1>2. CASE Reload
  BY <1>1, <1>2, ReloadsAssumption DEF Reload, Counted, wire
<1>3. CASE UNCHANGED <<born, reloads>>
  BY <1>1, <1>3 DEF Counted
<1> QED
  BY <1>2, <1>3 DEF Next, PanelSpeaks, PanelRepeats, PieceArrives, Opens, LinkChanges,
     StartupEnds, EntityAdded, vars

\* Every step keeps the invariant.
LEMMA NextInv == Inv /\ [Next]_vars => Inv'
BY WireSteps, BusSteps, CountedSteps DEF Inv

-----------------------------------------------------------------------------
(* What a step may not do to the bus *)

\* A step files a frame, or leaves the devices alone, or starts a new bus.
LEMMA StepsOfTheBus ==
  ASSUME Inv, [Next]_vars
  PROVE  \/ bus' = NewBus
         \/ bus'.devices = bus.devices /\ bus'.assigned = bus.assigned
         \/ \E f : Filed(bus, bus', f.src, Range(f.entries))
<1>1. CASE PieceArrives
  <2>1. UNCHANGED hub \/ \E f : Heard(f) /\ OnFrame(f)
    BY <1>1, PieceHeard DEF Inv, OnTheWire
  <2>2. ASSUME NEW f, Heard(f), OnFrame(f) PROVE Filed(bus, bus', f.src, Range(f.entries))
    BY <2>2, FrameFiled DEF Inv, OnTheBus
  <2> QED
    BY <2>1, <2>2 DEF hub
<1>2. CASE StartupEnds
  BY <1>2 DEF StartupEnds, Inv, OnTheBus, Hub, IsBus
<1>3. CASE Reload
  BY <1>3 DEF Reload
<1>4. CASE PanelSpeaks \/ PanelRepeats \/ Opens \/ LinkChanges \/ EntityAdded \/ UNCHANGED vars
  BY <1>4 DEF PanelSpeaks, PanelRepeats, Opens, LinkChanges, EntityAdded, vars, hub
<1> QED
  BY <1>1, <1>2, <1>3, <1>4 DEF Next

\* What both buses know of a device, the later one at least as much.
Keeps(b0, b, a) ==
  /\ a \in DOMAIN b0.devices => a \in DOMAIN b.devices
  /\ DOMAIN Device(b0, a).params \subseteq DOMAIN Device(b, a).params
  /\ \A k : \A f \in MetaFields :
       Meta(Device(b0, a), k)[f] # Undescribed[f] => Meta(Device(b, a), k)[f] # Undescribed[f]

\* A frame filed keeps it.
LEMMA FiledKeeps ==
  ASSUME NEW b0, NEW b, NEW src, NEW es, Filed(b0, b, src, es), NEW a
  PROVE  Keeps(b0, b, a)
<1>1. CASE a # src \/ ~Attributable(b0, src)
  <2>1. Device(b, a) = Device(b0, a) /\ (a \in DOMAIN b.devices <=> a \in DOMAIN b0.devices)
    BY <1>1, OthersUntouched
  <2> QED
    BY <2>1 DEF Keeps
<1>2. CASE a = src /\ Attributable(b0, src)
  <2>1. /\ ValuesFiled(Device(b0, a).params, Device(b, a).params, es)
        /\ MetaFiled(Device(b0, a), Device(b, a), es)
        /\ DOMAIN b0.devices \subseteq DOMAIN b.devices
    BY <1>2 DEF Filed, Touched
  <2>2. \A k : \A f \in MetaFields :
          Meta(Device(b0, a), k)[f] # Undescribed[f] => Meta(Device(b, a), k)[f] # Undescribed[f]
    <3> SUFFICES ASSUME NEW k, NEW f \in MetaFields, Meta(Device(b0, a), k)[f] # Undescribed[f]
                 PROVE Meta(Device(b, a), k)[f] # Undescribed[f]
      OBVIOUS
    <3>1. \/ Meta(Device(b, a), k)[f] = Meta(Device(b0, a), k)[f]
          \/ Meta(Device(b, a), k)[f] # Undescribed[f]
      BY <2>1, Zenon DEF MetaFiled
    <3> QED
      BY <3>1
  <2> QED
    BY <2>1, <2>2 DEF ValuesFiled, Keeps
<1> QED
  BY <1>1, <1>2

\* Short of a reload the bus forgets no device, no parameter and no field of a
\* description: a frame that says less takes nothing back (Bus.update,
\* Bus.learn_param).
THEOREM TheBusForgetsNothing ==
  Spec => [][bus' = NewBus \/ \A a \in Addresses : Keeps(bus, bus', a)]_vars
<1>1. ASSUME Inv, [Next]_vars
      PROVE  [bus' = NewBus \/ \A a \in Addresses : Keeps(bus, bus', a)]_vars
  <2>1. CASE bus'.devices = bus.devices
    BY <2>1 DEF Keeps, Device
  <2>2. CASE \E f : Filed(bus, bus', f.src, Range(f.entries))
    BY <2>2, FiledKeeps
  <2> QED
    BY <1>1, <2>1, <2>2, StepsOfTheBus
<1> QED
  BY <1>1, InitInv, NextInv, PTL DEF Spec

\* What is said from the address the bus takes for ours changes nothing of what
\* it has under that address, and puts nothing there (Bus._attributable).
THEOREM NothingIsFiledAsOurs ==
  Spec => [][bus' = NewBus \/ Device(bus', bus.assigned) = Device(bus, bus.assigned)]_vars
<1>1. ASSUME Inv, [Next]_vars
      PROVE  [bus' = NewBus \/ Device(bus', bus.assigned) = Device(bus, bus.assigned)]_vars
  <2>1. CASE bus'.devices = bus.devices
    BY <2>1 DEF Device
  <2>2. ASSUME NEW f, Filed(bus, bus', f.src, Range(f.entries))
        PROVE Device(bus', bus.assigned) = Device(bus, bus.assigned)
    <3>1. f.src # bus.assigned \/ ~Attributable(bus, f.src)
      BY DEF Attributable
    <3> QED
      BY <2>2, <3>1, OthersUntouched
  <2> QED
    BY <1>1, <2>1, <2>2, StepsOfTheBus
<1> QED
  BY <1>1, InitInv, NextInv, PTL DEF Spec

\* The invariant, and with it the types.
THEOREM TypeCorrect == Spec => []TypeOK
<1> QED
  BY InitInv, NextInv, TypesHold, PTL DEF Spec

\* A value on the bus is one its device has published, and no older than the last
\* one of it that got through; and what got through is on the bus (_handle_data,
\* handle_frame, Bus.update).
THEOREM ReadingsStayCurrent == Spec => []ReadingsAreCurrent
<1>1. Inv => ReadingsAreCurrent
  BY DEF Inv, OnTheBus
<1> QED
  BY <1>1, InitInv, NextInv, PTL DEF Spec

\* There is no device on the bus that has not spoken, and we are none of them
\* (_attributable, handle_frame).
THEOREM DevicesStayReal == Spec => []DevicesAreReal
<1>1. Inv => DevicesAreReal
  BY DEF Inv, OnTheBus
<1> QED
  BY <1>1, InitInv, NextInv, PTL DEF Spec

\* The registry has the name the bus gives a device (async_sync_device_names).
THEOREM NamesStayInStep == Spec => []NamesFollowTheBus
<1>1. Inv => NamesFollowTheBus
  BY DEF Inv, OnTheBus
<1> QED
  BY <1>1, InitInv, NextInv, PTL DEF Spec

-----------------------------------------------------------------------------
(* Writes *)

\* What is known of a parameter that a message described is told by one of its
\* descriptions, the enum that offers it above all.
LEMMA KnownAndTold ==
  ASSUME Inv, NEW m \in intact, m > born, Source(m) \notin Refusable,
         NEW e \in Entries(m), e.values # {}, CommandDest(Source(m), e.key) = Source(m)
  PROVE  LET a == Source(m)
             told == Descriptions(a, e.key)
             known == WriteAuthority(bus, a, e.key)
         IN  /\ e \in told
             /\ known.perm = None \/ \E d \in told : known.perm = d.perm
             /\ \E d \in told : d.values # {} /\ known.enum = {x.v : x \in d.values}
             /\ \/ known.enum_unavailable = {}
                \/ \E d \in told : d.values # {}
                     /\ known.enum_unavailable = {x.v : x \in {y \in d.values : ~y.a}}
             /\ (\E x \in e.values : ~x.a) => known.enum_unavailable # {}
<1> DEFINE a == Source(m)
           k == e.key
           told == Descriptions(a, k)
           known == Meta(Device(bus, a), k)
<1>1. m \in Serials /\ MetaIsTold /\ ToldIsKnown
  BY DEF Inv, OnTheWire, OnTheBus, WireInv, Wire!TypeOK, Serials, Wire!Serials
<1>2. e \in told
  BY <1>1 DEF Descriptions
<1>3. \A d : /\ Described(d)["perm"] = d.perm
             /\ Described(d)["enum"] = {x.v : x \in d.values}
             /\ Described(d)["enum_unavailable"] = {x.v : x \in {y \in d.values : ~y.a}}
  BY DEF Described
<1>4. /\ Undescribed["perm"] = None /\ Undescribed["enum"] = {} /\ Undescribed["enum_unavailable"] = {}
      /\ "perm" \in MetaFields /\ "enum" \in MetaFields /\ "enum_unavailable" \in MetaFields
  BY DEF Undescribed, MetaFields
<1>5. \A g \in MetaFields :
        known[g] = Undescribed[g] \/ \E d \in told : known[g] = Described(d)[g]
  <2> SUFFICES ASSUME NEW g \in MetaFields
               PROVE known[g] = Undescribed[g] \/ \E d \in told : known[g] = Described(d)[g]
    OBVIOUS
  <2>1. CASE a \in DOMAIN bus.devices /\ k \in DOMAIN bus.devices[a].meta
    BY <1>1, <2>1 DEF MetaIsTold, Device
  <2>2. CASE ~(a \in DOMAIN bus.devices /\ k \in DOMAIN bus.devices[a].meta)
    BY <2>2 DEF Meta, Device, NewDevice
  <2> QED
    BY <2>1, <2>2
<1>6. \A g \in MetaFields : Described(e)[g] # Undescribed[g] => known[g] # Undescribed[g]
  BY <1>1 DEF ToldIsKnown
<1> HIDE DEF told, known
<1>7. known["enum"] # {}
  <2>1. {x.v : x \in e.values} # {}
    OBVIOUS
  <2> QED
    BY <1>3, <1>4, <1>6, <2>1
<1>8. WriteAuthority(bus, a, k) = known
  <2>1. known # Undescribed
    BY <1>4, <1>7
  <2> QED
    BY <2>1, Zenon DEF WriteAuthority, known
<1>9. known["perm"] = None \/ \E d \in told : known["perm"] = d.perm
  BY <1>3, <1>4, <1>5
<1>10. \E d \in told : d.values # {} /\ known["enum"] = {x.v : x \in d.values}
  <2>1. PICK d \in told : known["enum"] = Described(d)["enum"]
    BY <1>4, <1>5, <1>7
  <2>2. known["enum"] = {x.v : x \in d.values}
    BY <1>3, <2>1
  <2>3. d.values # {}
    BY <1>7, <2>2
  <2> QED
    BY <2>2, <2>3
<1>11. \/ known["enum_unavailable"] = {}
       \/ \E d \in told : d.values # {}
            /\ known["enum_unavailable"] = {x.v : x \in {y \in d.values : ~y.a}}
  <2> SUFFICES ASSUME known["enum_unavailable"] # {}
               PROVE  \E d \in told : d.values # {}
                        /\ known["enum_unavailable"] = {x.v : x \in {y \in d.values : ~y.a}}
    OBVIOUS
  <2>1. PICK d \in told : known["enum_unavailable"] = Described(d)["enum_unavailable"]
    BY <1>4, <1>5
  <2>2. known["enum_unavailable"] = {x.v : x \in {y \in d.values : ~y.a}}
    BY <1>3, <2>1
  <2>3. d.values # {}
    BY <2>2
  <2> QED
    BY <2>2, <2>3
<1>12. (\E x \in e.values : ~x.a) => known["enum_unavailable"] # {}
  <2> SUFFICES ASSUME NEW x \in e.values, ~x.a PROVE known["enum_unavailable"] # {}
    OBVIOUS
  <2>1. x.v \in {z.v : z \in {y \in e.values : ~y.a}}
    BY Zenon
  <2>2. Described(e)["enum_unavailable"] # {}
    BY <1>3, <2>1
  <2> QED
    BY <1>4, <1>6, <2>2
<1> QED
  BY <1>2, <1>8, <1>9, <1>10, <1>11, <1>12 DEF told

\* A write is judged by what all descriptions of its parameter agree on.
LEMMA WritesAreJudged == Inv => WritesFollowTheDescriptions
<1> SUFFICES ASSUME Inv, NEW m \in intact, m > born, Source(m) \notin Refusable,
                    NEW e \in Entries(m), e.values # {}, CommandDest(Source(m), e.key) = Source(m)
             PROVE  LET told == Descriptions(Source(m), e.key)
                        Agreed(available) ==
                          {v \in {x.v : x \in e.values} :
                             \A d \in told : d.values # {} => [v |-> v, a |-> available] \in d.values}
                        Accepts(v) == ValidateWrite(bus, Source(m), e.key, v)
                    IN  /\ (\A d \in told : d.perm # 0) => \A v \in Agreed(TRUE) : Accepts(v)
                        /\ Agreed(TRUE) # {} => \A v \in Agreed(FALSE) : ~Accepts(v)
  BY Zenon DEF WritesFollowTheDescriptions
<1> DEFINE a == Source(m)
           told == Descriptions(a, e.key)
           known == WriteAuthority(bus, a, e.key)
           on == TRUE
           off == FALSE
           Agreed(available) ==
             {v \in {x.v : x \in e.values} :
                \A d \in told : d.values # {} => [v |-> v, a |-> available] \in d.values}
<1>1. /\ e \in told
      /\ known.perm = None \/ \E d \in told : known.perm = d.perm
      /\ \E d \in told : d.values # {} /\ known.enum = {x.v : x \in d.values}
      /\ \/ known.enum_unavailable = {}
         \/ \E d \in told : d.values # {}
              /\ known.enum_unavailable = {x.v : x \in {y \in d.values : ~y.a}}
      /\ (\E x \in e.values : ~x.a) => known.enum_unavailable # {}
  BY KnownAndTold
<1>2. \A d \in told : \A x, y \in d.values : x.v = y.v => x = y
  <2>1. \A n \in Serials : \A d \in Entries(n) : \A x, y \in d.values : x.v = y.v => x = y
    BY FrameAssumption DEF Serials, Entries, EntriesOf, Inv, OnTheWire, WireInv, Wire!TypeOK
  <2> QED
    BY <2>1 DEF Descriptions
<1> HIDE DEF told, known
<1>4. \A v \in Agreed(on) : v \in known.enum \ known.enum_unavailable
  <2> SUFFICES ASSUME NEW v \in Agreed(on) PROVE v \in known.enum /\ v \notin known.enum_unavailable
    OBVIOUS
  <2>1. \A d \in told : d.values # {} => [v |-> v, a |-> on] \in d.values
    OBVIOUS
  <2> HIDE DEF Agreed
  <2>2. v \in known.enum
    <3>1. PICK d \in told : d.values # {} /\ known.enum = {x.v : x \in d.values}
      BY <1>1
    <3>2. [v |-> v, a |-> on] \in d.values
      BY <2>1, <3>1
    <3> HIDE DEF on
    <3>3. [v |-> v, a |-> on].v = v
      OBVIOUS
    <3> QED
      BY <3>1, <3>2, <3>3
  <2>3. v \notin known.enum_unavailable
    <3> SUFFICES ASSUME v \in known.enum_unavailable PROVE FALSE
      OBVIOUS
    <3>1. PICK d \in told : d.values # {} /\ known.enum_unavailable = {x.v : x \in {y \in d.values : ~y.a}}
      BY <1>1
    <3>2. PICK x \in d.values : ~x.a /\ x.v = v
      BY <3>1
    <3>3. [v |-> v, a |-> on] \in d.values
      BY <2>1, <3>1
    <3>4. [v |-> v, a |-> on].v = v /\ [v |-> v, a |-> on].a = on
      <4> HIDE DEF on
      <4> QED
        OBVIOUS
    <3>5. x = [v |-> v, a |-> on]
      BY <1>2, <3>2, <3>3, <3>4
    <3>6. x.a = on
      BY <3>4, <3>5
    <3> QED
      BY <3>2, <3>6, Zenon
  <2> QED
    BY <2>2, <2>3
<1>5. Agreed(on) # {} => \A v \in Agreed(off) : v \notin known.enum \ known.enum_unavailable
  <2> SUFFICES ASSUME NEW v \in Agreed(off), v \in known.enum, v \notin known.enum_unavailable PROVE FALSE
    OBVIOUS
  <2>1. \A d \in told : d.values # {} => [v |-> v, a |-> off] \in d.values
    OBVIOUS
  <2> HIDE DEF Agreed
  <2>2. [v |-> v, a |-> off].v = v /\ [v |-> v, a |-> off].a = off
    <3> HIDE DEF off
    <3> QED
      OBVIOUS
  <2>3. \A d \in told : d.values # {} =>
          \E x \in d.values : x.v = v /\ ~x.a
    <3> SUFFICES ASSUME NEW d \in told, d.values # {} PROVE \E x \in d.values : x.v = v /\ ~x.a
      OBVIOUS
    <3>1. ~[v |-> v, a |-> off].a
      BY <2>2, Zenon
    <3> QED
      BY <2>1, <2>2, <3>1, Zenon
  <2>4. known.enum_unavailable # {}
    BY <1>1, <2>3
  <2>5. PICK d \in told : d.values # {} /\ known.enum_unavailable = {x.v : x \in {y \in d.values : ~y.a}}
    BY <1>1, <2>4
  <2>6. PICK x \in d.values : x.v = v /\ ~x.a
    BY <2>3, <2>5
  <2>7. x.v \in {y.v : y \in {z \in d.values : ~z.a}}
    BY <2>6, Zenon
  <2> QED
    BY <2>5, <2>6, <2>7
<1>6. \A v : /\ known.perm # 0 /\ v \in known.enum \ known.enum_unavailable => ValidateWrite(bus, a, e.key, v)
             /\ known.enum \ known.enum_unavailable # {} /\ v \notin known.enum \ known.enum_unavailable
                  => ~ValidateWrite(bus, a, e.key, v)
  <2> TAKE v
  <2> DEFINE allowed == known.enum \ known.enum_unavailable
  <2>1. ValidateWrite(bus, a, e.key, v) <=>
          /\ known.perm # 0
          /\ IF allowed # {} THEN v \in allowed
             ELSE IF Bounds(known) # {} THEN v \in Bounds(known)
             ELSE TableAdmits(e.key, v)
    BY Zenon DEF ValidateWrite, AllowedValues, known
  <2> HIDE DEF allowed
  <2>2. v \in allowed => allowed # {}
    BY Zenon
  <2> QED
    BY <2>1, <2>2, Zenon DEF allowed
<1>7. (\A d \in told : d.perm # 0) => known.perm # 0
  BY <1>1, NoneAssumption
<1>8. (\A d \in told : d.perm # 0) => \A v \in Agreed(on) : ValidateWrite(bus, a, e.key, v)
  BY <1>4, <1>6, <1>7, Zenon
<1>9. Agreed(on) # {} => \A v \in Agreed(off) : ~ValidateWrite(bus, a, e.key, v)
  <2> SUFFICES ASSUME Agreed(on) # {}, NEW v \in Agreed(off) PROVE ~ValidateWrite(bus, a, e.key, v)
    BY Zenon
  <2>1. known.enum \ known.enum_unavailable # {}
    <3> HIDE DEF Agreed
    <3> QED
      BY <1>4
  <2>2. v \notin known.enum \ known.enum_unavailable
    <3> HIDE DEF Agreed
    <3> QED
      BY <1>5
  <2> QED
    BY <1>6, <2>1, <2>2, Zenon
<1> QED
  BY <1>8, <1>9, Zenon DEF told

\* A value that all descriptions of a parameter offer is accepted, and one that
\* all withhold is refused (learn_param, validate_write).
THEOREM WritesStayJudged == Spec => []WritesFollowTheDescriptions
<1> QED
  BY InitInv, NextInv, WritesAreJudged, PTL DEF Spec

-----------------------------------------------------------------------------
(* The promise of the link *)

\* The bus does not disturb the receiver: behind it too, each frame is the
\* panel's latest message, whole, until an announcement goes missing.
THEOREM LinkKeepsItsPromise == Spec => ImplementsDelivery
<1>1. Init => Wire!Init
  BY DEF Init
<1>2. Spec => Wire!Spec
  BY <1>1, StepsOfTheWire, PTL DEF Spec, Wire!Spec
<1> QED
  BY <1>2, ReceiverImplementsDelivery DEF ImplementsDelivery
=============================================================================
