---------------------------- MODULE MCConfirmedWrite ----------------------------
EXTENDS ConfirmedWrite

CONSTANTS heater, source, c1, c2

\* An energy-source transaction, and a command to one of its settings.
TwoCommands ==
  [c \in {c1, c2} |->
     IF c = c1 THEN <<[setting |-> source, value |-> 0], [setting |-> heater, value |-> 1]>>
     ELSE <<[setting |-> source, value |-> 0]>>]

ReportedAs == [s \in {heater, source} |-> IF s = heater THEN {0, 1, 2} ELSE {0, 1}]
=============================================================================
