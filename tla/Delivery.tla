------------------------------- MODULE Delivery -------------------------------
(***************************************************************************)
(* What the incoming half of the transport promises to the callbacks of    *)
(* TrumaBleClient.on_data: the panel offers messages one after the other,  *)
(* and each is taken whole while it is the latest one, or not at all.  The *)
(* promise ends with the first announcement that is lost, or forgotten by  *)
(* a disconnect amid its message; from there on fragments may be taken for *)
(* frames (0 stands for one).                                              *)
(***************************************************************************)
EXTENDS Naturals

VARIABLES offered,   \* how many messages the panel has begun
          taken,     \* how many frames have been handed to the callbacks
          latest,    \* the message of the last of them
          sure       \* no announcement was lost or forgotten

vars == <<offered, taken, latest, sure>>

Init == offered = 0 /\ taken = 0 /\ latest = 0 /\ sure = TRUE

Offer == offered' = offered + 1 /\ UNCHANGED <<taken, latest, sure>>

Take ==
  /\ sure /\ offered > 0
  /\ taken' = taken + 1 /\ latest' = offered /\ UNCHANGED <<offered, sure>>

LosesTrack ==
  /\ sure' = FALSE /\ offered' \in {offered, offered + 1}
  /\ UNCHANGED <<taken, latest>>

TakeAnything ==
  /\ ~sure /\ taken' = taken + 1 /\ latest' \in 0..offered
  /\ UNCHANGED <<offered, sure>>

Next == Offer \/ Take \/ LosesTrack \/ TakeAnything

Spec == Init /\ [][Next]_vars
=============================================================================
