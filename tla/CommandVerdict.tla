---------------------------- MODULE CommandVerdict -----------------------------
(***************************************************************************)
(* What OperationRegistry (operations.py) promises about control commands: *)
(* the verdict on show is that of the newest command that has ended -- a   *)
(* command begun earlier that ends later does not replace it, and a        *)
(* background synchronisation has no part in it.                           *)
(***************************************************************************)
EXTENDS Naturals

VARIABLES issued,  \* operations numbered so far
          open,    \* the commands under way, by number
          newest,  \* the newest command that has ended, 0 before the first
          failed   \* its verdict

vars == <<issued, open, newest, failed>>

Init == issued = 0 /\ open = {} /\ newest = 0 /\ failed = FALSE

\* The next number goes to a command or to a synchronisation.
Begin ==
  /\ issued' = issued + 1
  /\ open' \in {open, open \cup {issued + 1}}
  /\ UNCHANGED <<newest, failed>>

End(t) ==
  /\ t \in open /\ open' = open \ {t}
  /\ \/ newest <= t /\ newest' = t /\ failed' \in BOOLEAN
     \/ t < newest /\ UNCHANGED <<newest, failed>>
  /\ UNCHANGED issued

Next == Begin \/ \E t \in open : End(t)

Spec == Init /\ [][Next]_vars
=============================================================================
