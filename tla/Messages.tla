------------------------------- MODULE Messages -------------------------------
(***************************************************************************)
(* The panel's messages as the transport sees them: what they can say, how *)
(* long each is, and how much of one a notification carries.               *)
(***************************************************************************)
EXTENDS Naturals

CONSTANTS Contents,      \* what a message can say
          Length(_),     \* its length in bytes
          Payload,       \* the bytes one DATA_R notification carries
          NoSize         \* _receive_size is None

ASSUME LengthAssumption == \A c \in Contents : Length(c) \in Nat \ {0}
ASSUME PayloadAssumption == Payload \in Nat \ {0}
ASSUME NoSizeAssumption == NoSize \notin Nat
=============================================================================
