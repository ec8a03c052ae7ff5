------------------------------- MODULE MCInbound -------------------------------
(***************************************************************************)
(* Instances of Inbound: two gas sensors that answer with the same name    *)
(* and the same label, one of which may speak before it has named itself;  *)
(* the registration, by which the panel gives us an address of its own or  *)
(* the one we come with, and a frame it sends from our own address.        *)
(***************************************************************************)
EXTENDS Inbound

Value(key, v) == [key |-> key, v |-> v, perm |-> None, avail |-> None,
                  min |-> None, max |-> None, values |-> {}]

Says(kind, src, entries) ==
  [kind |-> kind, src |-> src, addr |-> None, entries |-> entries]

Fill == <<"GasBtl", "FillLevelP">>
Temp == <<"WaterHeating", "Mode">>

\* What the sensor can show, of which its own hardware offers some.
Scale(offered) == {[v |-> x, a |-> x \in offered] : x \in {40, 50, 60}}

Wakes(addr, value) ==
  Says("info", addr, <<[Value(Fill, value) EXCEPT !.values = Scale({50})]>>)
Answers(addr, label, avail) ==
  Says("discovery", addr,
        <<Value(IDENTIFY, "LevelControl"), Value(<<"GasBtl", "Name">>, label),
          [Value(Fill, 40) EXCEPT !.avail = avail, !.values = Scale({40, 50})]>>)

Assigns(addr) == [Says("registration", DEV_PANEL, <<>>) EXCEPT !.addr = addr]

\* A definition of its own, which TLC evaluates once.
Parses ==
  [registration           |-> Assigns(1281),
   registration_as_we_are |-> Assigns(DEV_APP_DEFAULT),
   echo                   |-> Says("info", 1281, <<Value(Temp, 1)>>),
   sensor1_wakes          |-> Wakes(1539, 50),
   sensor1_answers        |-> Answers(1539, "Links", None),
   sensor2_answers        |-> Answers(1540, "Links", 0)]
Frames == Parses

LengthOf(c) ==
  CASE c = "sensor1_answers" -> 3 [] c = "sensor2_answers" -> 2 [] OTHER -> 1
EntityRows == {Fill, Temp}
Slots == {Fill}
=============================================================================
