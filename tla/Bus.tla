---------------------------------- MODULE Bus ----------------------------------
(***************************************************************************)
(* The bus as the panel lets us hear it: the devices, what each publishes, *)
(* and what each says its parameters are (Device and Bus in bus.py,        *)
(* handle_frame in session.py, the naming of devices in coordinator.py).   *)
(* Operators only; Inbound drives them.                                    *)
(*                                                                         *)
(* A parameter is the pair <<topic, parameter>>.  A frame is a record      *)
(* [kind, src, addr, entries]; an entry is [key, v, perm, avail, min, max, *)
(* values], where None is a field not given and values is the set of       *)
(* [v, a] of its enum.  The panel's names for enum values, types, serial   *)
(* numbers and times of day are left out.                                  *)
(***************************************************************************)
EXTENDS Integers, Sequences, Functions

CONSTANT None

DEV_BROADCAST == 65535
DEV_MSG_BROKER == 0
DEV_PANEL == 257
DEV_APP_DEFAULT == 1280
DEV_BLE_MGMT == 1537

IDENTIFY == <<"Identify", "Name">>

MetaFields == {"perm", "avail", "min", "max", "enum", "enum_unavailable"}
\* What a description says of a field it does not give.
Undescribed == [f \in MetaFields |-> IF f \in {"enum", "enum_unavailable"} THEN {} ELSE None]

NewDevice == [params |-> <<>>, meta |-> <<>>]
NewBus == [devices |-> <<>>, unattributed |-> <<>>,
           assigned |-> DEV_APP_DEFAULT, discovered |-> FALSE]

\* d[x] = v on a dict.
With(d, x, v) == [y \in DOMAIN d \cup {x} |-> IF y = x THEN v ELSE d[y]]

----------------------------------------------------------------------------
(* Incoming frames.                                                        *)

Device(bus, addr) ==
  IF addr \in DOMAIN bus.devices THEN bus.devices[addr] ELSE NewDevice

Put(bus, addr, device) == [bus EXCEPT !.devices = With(@, addr, device)]

NoteSeen(bus, addr) == Put(bus, addr, Device(bus, addr))

\* A change of the code that Inbound's run must notice: our own address not
\* looked at.
AttributableToUs(bus, src) == src # DEV_MSG_BROKER

\* Broadcast is not excepted here, though handle_frame notes no such sender.
Attributable(bus, src) == src \notin {DEV_MSG_BROKER, bus.assigned}

Meta(device, key) ==
  IF key \in DOMAIN device.meta THEN device.meta[key] ELSE Undescribed

\* What an entry says about its parameter.  An enum without a value, and a
\* list of unavailable ones without any, is not written at all.
Described(entry) ==
  [perm |-> entry.perm, avail |-> entry.avail, min |-> entry.min, max |-> entry.max,
   enum |-> {e.v : e \in entry.values},
   enum_unavailable |-> {e.v : e \in {x \in entry.values : ~x.a}}]

\* Merged field by field, never replaced; only ever within one device.
Merged(known, told) ==
  [f \in MetaFields |-> IF told[f] = Undescribed[f] THEN known[f] ELSE told[f]]

LearnParam(bus, entry, src) ==
  LET device == Device(bus, src)
      meta == Merged(Meta(device, entry.key), Described(entry))
  IN  IF Described(entry) = Undescribed \/ ~Attributable(bus, src) THEN bus
      ELSE Put(bus, src, [device EXCEPT !.meta = With(@, entry.key, meta)])

\* Another: the first value stays.
UpdateOnce(bus, key, value, src) ==
  IF key \in DOMAIN Device(bus, src).params THEN bus
  ELSE LET device == Device(bus, src)
       IN  Put(bus, src, [device EXCEPT !.params = With(@, key, value)])

Update(bus, key, value, src) ==
  IF Attributable(bus, src)
  THEN LET device == Device(bus, src)
       IN  Put(bus, src, [device EXCEPT !.params = With(@, key, value)])
  ELSE [bus EXCEPT !.unattributed = With(@, key, value)]

FileEntry(bus, entry, src) ==
  LET learned == LearnParam(bus, entry, src)
  IN  IF entry.v = None THEN learned ELSE Update(learned, entry.key, entry.v, src)

\* The bus after the first i entries of a frame.
Filing(bus, entries, src) ==
  LET filed[i \in 0..Len(entries)] ==
        IF i = 0 THEN bus ELSE FileEntry(filed[i - 1], entries[i], src)
  IN  filed

\* A frame proves its sender; then a registration response names us, if there
\* is a client to tell; a value update has one entry, a discovery answer any
\* number.
HandleFrame(bus, frame, client) ==
  LET seen == IF frame.src \in {DEV_BROADCAST, DEV_MSG_BROKER, bus.assigned}
              THEN bus ELSE NoteSeen(bus, frame.src)
  IN  CASE frame.kind = "registration" /\ client -> [seen EXCEPT !.assigned = frame.addr]
        [] frame.kind \in {"info", "discovery"} ->
             Filing(seen, frame.entries, frame.src)[Len(frame.entries)]
        [] OTHER -> seen

\* handle_frame's answer: whether anything an entity reads has moved.
Moves(frame) ==
  \/ frame.kind = "discovery"
  \/ frame.kind = "info" /\ frame.entries[1].v # None

----------------------------------------------------------------------------
(* Writes.                                                                 *)

CommandDest(addr, key) == IF key[1] = "RoomClimate" THEN DEV_PANEL ELSE addr

\* PARAM_VALIDATION: lists and ranges alike as the set of values they admit.
Table ==
  LET T(topic, param, admitted) == [key |-> <<topic, param>>, values |-> admitted]
  IN  {T("RoomClimate", "Mode", {0, 3, 5}), T("RoomClimate", "TgtTemp", 160..300),
       T("AirHeating", "TgtTemp", 50..300), T("AirHeating", "Mode", 0..1),
       T("AirCooling", "TgtTemp", 160..300), T("AirCooling", "Mode", 0..5),
       T("AirCooling", "Active", 0..1), T("AirCirculation", "FanLevel", 0..10),
       T("AirCirculation", "Active", 0..1), T("WaterHeating", "Mode", 0..2),
       T("WaterHeating", "Active", 0..1), T("WaterHeating", "BoostMode", 0..1),
       T("WaterHeating", "FasterHeatingMode", 0..1),
       T("EnergySrc", "DieselLevel", 0..1), T("EnergySrc", "ElectricLevel", 0..2),
       T("Switches", "FreshWaterPump", 0..1), T("FreshWater", "Autofill", 0..1)}

TableAdmits(key, value) == \A rule \in Table : rule.key = key => value \in rule.values

\* A change of the code that Inbound's run must notice: every value of the enum
\* allowed, the unavailable ones too.
AllowedValuesAll(meta) == meta.enum

\* Of no enum, or of one without a value left, nothing: the next rule decides.
AllowedValues(meta) == meta.enum \ meta.enum_unavailable

Bounds(meta) ==
  IF None \in {meta.min, meta.max} THEN {}
  ELSE IF meta.min >= meta.max THEN {} ELSE meta.min .. meta.max

\* The device a write goes to where it has described the parameter, else the
\* entity's own; what neither described is Undescribed.
WriteAuthority(bus, addr, key) ==
  LET dest == CommandDest(addr, key)
      there == Meta(Device(bus, dest), key)
  IN  IF there # Undescribed \/ addr \notin DOMAIN bus.devices THEN there
      ELSE Meta(Device(bus, addr), key)

ValidateWrite(bus, addr, key, value) ==
  LET meta == WriteAuthority(bus, addr, key)
      allowed == AllowedValues(meta)
  IN  /\ meta.perm # 0
      /\ IF allowed # {} THEN value \in allowed
         ELSE IF Bounds(meta) # {} THEN value \in Bounds(meta)
         ELSE TableAdmits(key, value)

----------------------------------------------------------------------------
(* Names.  A name is kept by its parts, with None for a part it has not.   *)

Reported(device, key) ==
  IF key \notin DOMAIN device.params THEN None
  ELSE IF device.params[key] = "" THEN None ELSE device.params[key]

ProductName(device) == Reported(device, IDENTIFY)

\* The owner's word for the device: the Name of the first topic that has one.
\* Devices publish it under one topic (GasBtl), so which one is no question.
Label(device) ==
  LET named == {k \in DOMAIN device.params :
                  k[2] = "Name" /\ k # IDENTIFY /\ Reported(device, k) # None}
  IN  IF named = {} THEN None ELSE device.params[CHOOSE k \in named : TRUE]

LabelIsUnique(bus, addr, label) ==
  \A other \in DOMAIN bus.devices \ {addr} : Label(bus.devices[other]) # label

NameIsUnique(bus, addr, name) ==
  \A other \in DOMAIN bus.devices \ {addr} : ProductName(bus.devices[other]) # name

Name(base, label, number) == [base |-> base, label |-> label, number |-> number]

Placeholder(addr) == Name(None, None, addr)

KnownName(addr) == IF addr = DEV_BLE_MGMT THEN "Bluetooth management" ELSE None

\* TrumaCoordinator.device_info, for a device below the panel.
DeviceName(bus, addr) ==
  LET device == Device(bus, addr)
      product == ProductName(device)
      base == IF product # None THEN product ELSE KnownName(addr)
      label == Label(device)
  IN  IF base = None /\ label = None THEN Placeholder(addr)
      ELSE IF base = None THEN Name(None, label, None)
      ELSE IF label \notin {None, base} /\ LabelIsUnique(bus, addr, label)
           THEN Name(base, label, None)
      ELSE IF NameIsUnique(bus, addr, base) THEN Name(base, None, None)
      ELSE Name(base, None, addr % 256)

DeviceIsNamed(bus, addr) ==
  \/ addr = DEV_PANEL \/ KnownName(addr) # None \/ bus.discovered
  \/ /\ addr \in DOMAIN bus.devices
     /\ \/ ProductName(bus.devices[addr]) # None
        \/ Label(bus.devices[addr]) # None
=============================================================================
