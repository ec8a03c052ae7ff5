-------------------------------- MODULE Inbound --------------------------------
(***************************************************************************)
(* From notifications to named entities: the receiver of Reassembly, the   *)
(* bus it fills, the entities built from what devices publish, and their   *)
(* names in Home Assistant's device registry (TrumaCoordinator._on_frame,  *)
(* _finish_startup, async_sync_device_names; async_add_rows in entity.py). *)
(*                                                                         *)
(* A frame is filed, shown to the listeners and followed by the renaming   *)
(* of devices within the notification that completes it.  An entity's      *)
(* device info is taken when it is built; Home Assistant registers the     *)
(* device in a task of its own, at once or later.  The registry outlives   *)
(* the coordinator, the bus does not.                                      *)
(***************************************************************************)
EXTENDS Bus, Messages

CONSTANTS Frame,       \* the frame a content parses to, see Bus
          MaxMessages, MaxFaults, MaxSessions,   \* see Reassembly
          Rows,        \* the parameters an entity is built for (profiles.py)
          SlotRows,    \* those whose row has requires_avail
          Stranger,    \* a source address read from amid a message
          Garbled,     \* a value decoded from pieces of two messages
          MaxReloads   \* bound on reloads of the config entry

ASSUME StrangerAssumption == \A c \in Contents : Frame[c].src # Stranger
ASSUME NoneAssumption == None \notin Int

\* What the parser returns: values come in the frames that have them, one in a
\* value update; an enum names a value once; and a registration gives us an
\* address, which may be the one we come with (issue #20, run_startup): 0, which
\* handle_frame takes for none, is an answer without one.
ASSUME FrameAssumption ==
  \A c \in Contents :
    /\ DOMAIN Frame[c] = {"kind", "src", "addr", "entries"}
    /\ Frame[c].entries \in Seq(Range(Frame[c].entries))
    /\ Frame[c].kind = "info" => Len(Frame[c].entries) = 1
    /\ Frame[c].kind \notin {"info", "discovery"} => Frame[c].entries = <<>>
    /\ IF Frame[c].kind = "registration"
       THEN Frame[c].addr \notin {None, 0}
       ELSE Frame[c].addr = None
    /\ \A e \in Range(Frame[c].entries) :
         /\ DOMAIN e = {"key", "v", "perm", "avail", "min", "max", "values"}
         /\ \A x, y \in e.values : x.v = y.v => x = y
ASSUME ReloadsAssumption == MaxReloads \in Nat

VARIABLES link, size, buffer, said, now, at, damaged, astray, intact,
          taken, frame, faults, sessions   \* see Reassembly

VARIABLES
  bus,          \* the coordinator's Bus
  given,        \* the address the panel has given us in this session
  registered,   \* the client of this session knows its address
  strayed,      \* the panel spoke from our address before the client knew it
  built,        \* the entities of this coordinator, as [addr, key]
  adding,       \* device infos of entities not yet added, as [addr, name]
  registry,     \* the device registry: an address's name
  unsynced,     \* addresses that came onto the bus or the registry since the
                \* last renaming
  born,         \* messages before this coordinator's time
  reloads

wire == <<link, size, buffer, said, now, at, damaged, astray, intact,
          taken, frame, faults, sessions>>
hub == <<bus, built, adding, registry, unsynced>>
us == <<given, registered, strayed>>
vars == <<wire, hub, us, born, reloads>>

Wire == INSTANCE Reassembly

Addresses == {Frame[c].src : c \in Contents} \cup {Stranger}
OurAddresses == {Frame[c].addr : c \in Contents} \ {None}

\* The sources whose values the bus may refuse, however often it hears them.
Refusable == OurAddresses \cup {DEV_APP_DEFAULT, DEV_MSG_BROKER}

TypeOK ==
  /\ Wire!TypeOK
  /\ DOMAIN bus.devices \subseteq Addresses \ {DEV_MSG_BROKER}
  /\ bus.assigned \in OurAddresses \cup {DEV_APP_DEFAULT}
  /\ \A e \in built : /\ e.addr \in DOMAIN bus.devices
                       /\ e.key \in DOMAIN bus.devices[e.addr].params
  /\ \A e \in adding : \E b \in built : b.addr = e.addr
  /\ DOMAIN registry \subseteq Addresses \ {DEV_PANEL}
  /\ reloads \in 0..MaxReloads /\ born \in 0..Len(said)

Init ==
  /\ Wire!Init
  /\ bus = NewBus /\ given = None /\ registered = FALSE /\ strayed = FALSE
  /\ built = {} /\ adding = {} /\ registry = <<>> /\ unsynced = {}
  /\ born = 0 /\ reloads = 0

----------------------------------------------------------------------------
(* The listeners and the renaming.                                         *)

\* A row asks for a named device, and a slot for one that does not say it is
\* unavailable; neither is forgotten, the next update looks again.
Buildable(b) ==
  {[addr |-> a, key |-> k] : a \in {x \in DOMAIN b.devices : DeviceIsNamed(b, x)},
                             k \in Rows}

ToBuild(b) ==
  {e \in Buildable(b) \ built :
     /\ e.key \in DOMAIN b.devices[e.addr].params
     /\ e.key \in SlotRows => Meta(b.devices[e.addr], e.key).avail # 0}

\* The panel is the hub device, which is named after the config entry.
Infos(b, entities) ==
  {[addr |-> a, name |-> DeviceName(b, a)] :
     a \in {e.addr : e \in entities} \ {DEV_PANEL}}

\* A change of the code that the run must notice: only placeholders renamed.
RenamedOnce(b) ==
  [a \in DOMAIN registry |->
     IF a \in DOMAIN b.devices /\ registry[a] = Placeholder(a) THEN DeviceName(b, a)
     ELSE registry[a]]

Renamed(b) ==
  [a \in DOMAIN registry |->
     IF a \in DOMAIN b.devices /\ DeviceIsNamed(b, a) THEN DeviceName(b, a)
     ELSE registry[a]]

\* async_set_updated_data and async_sync_device_names, on the bus as it is now.
Publish(b) ==
  /\ built' = built \cup ToBuild(b)
  /\ adding' = adding \cup Infos(b, ToBuild(b))
  /\ registry' = Renamed(b)
  /\ unsynced' = {}

\* The coordinator drops its client before that closes the link.
HasClient == link # "closing"

OnFrame(f) ==
  /\ bus' = HandleFrame(bus, f, HasClient)
  /\ registered' = (registered \/ (HasClient /\ f.kind = "registration"))
  /\ strayed' = (strayed \/ (f.src \in OurAddresses /\ ~registered))
  /\ IF Moves(f) THEN Publish(bus')
     ELSE /\ unsynced' = unsynced \cup (DOMAIN bus'.devices \ DOMAIN bus.devices)
          /\ UNCHANGED <<built, adding, registry>>

\* What parse_v3_frame makes of the bytes taken: a cut message has its header
\* and no CBOR; one with foreign bytes has that, or CBOR that says something
\* else; bytes from amid a message are too few, or a header of their own.
Unread(src) == [kind |-> "other", src |-> src, addr |-> None, entries |-> <<>>]

Corrupt(c) ==
  [c EXCEPT !.entries = [i \in 1..Len(c.entries) |->
                           [c.entries[i] EXCEPT !.v = Garbled]]]

Parsed ==
  LET c == Frame[said[frame'.msg]]
  IN  CASE frame'.form = "whole" -> {c}
        [] frame'.form = "head" -> {Unread(c.src)}
        [] frame'.form = "mixed" -> {Unread(c.src), Corrupt(c)}
        [] OTHER -> {Unread(Stranger)}

Hear ==
  IF taken' = taken THEN UNCHANGED <<hub, registered, strayed>>
  ELSE \/ \E f \in Parsed : OnFrame(f)
       \/ frame'.form = "tail" /\ UNCHANGED <<hub, registered, strayed>>

----------------------------------------------------------------------------
(* Steps.                                                                  *)

\* The panel answers the one registration of a session once, and sends from our
\* address only after it.
PanelSpeaks ==
  /\ \E c \in Contents :
       /\ Frame[c].kind = "registration" => given = None
       /\ Frame[c].src \in OurAddresses => Frame[c].src = given
       /\ Wire!Say(c)
       /\ given' = IF Frame[c].kind = "registration" THEN Frame[c].addr ELSE given
  /\ UNCHANGED <<hub, registered, strayed, born, reloads>>

PanelRepeats == Wire!SayAgain /\ UNCHANGED <<hub, us, born, reloads>>

PieceArrives == Wire!SendPiece /\ Hear /\ UNCHANGED <<given, born, reloads>>

\* Every session has a client of its own, which has no address yet.
Opens ==
  /\ Wire!Connect /\ registered' = FALSE /\ given' = None
  /\ UNCHANGED <<hub, strayed, born, reloads>>

LinkChanges ==
  /\ \/ Wire!SubscribeCmd \/ Wire!SubscribeData
     \/ Wire!Disconnect \/ Wire!LinkGone
  /\ UNCHANGED <<hub, us, born, reloads>>

\* _finish_startup: whoever has not named itself by now keeps its address.
\* The client's address is the one its registration has put on the bus.
StartupEnds ==
  /\ link = "up" /\ registered
  /\ bus' = [bus EXCEPT !.discovered = TRUE]
  /\ Publish(bus')
  /\ UNCHANGED <<wire, us, born, reloads>>

\* Home Assistant adds an entity: its device info goes into the registry.
EntityAdded ==
  \E info \in adding :
    /\ adding' = adding \ {info}
    /\ registry' = With(registry, info.addr, info.name)
    /\ unsynced' = unsynced \cup {info.addr}
    /\ UNCHANGED <<wire, bus, us, built, born, reloads>>

\* A change of the code that the run must notice: the entities' book kept
\* across the reload.
ReloadKeepingTheBook ==
  /\ link = "down" /\ sessions \in 1..(MaxSessions - 1)
  /\ reloads < MaxReloads /\ reloads' = reloads + 1
  /\ bus' = NewBus /\ registered' = FALSE /\ strayed' = FALSE /\ born' = Len(said)
  /\ adding' = {} /\ unsynced' = {}
  /\ UNCHANGED <<wire, given, built, registry>>

\* The entry is reloaded, or Home Assistant restarted, between two sessions;
\* before the first and after the last there is nothing to see of it.
Reload ==
  /\ link = "down" /\ sessions \in 1..(MaxSessions - 1)
  /\ reloads < MaxReloads /\ reloads' = reloads + 1
  /\ bus' = NewBus /\ registered' = FALSE /\ strayed' = FALSE /\ born' = Len(said)
  /\ built' = {} /\ adding' = {} /\ unsynced' = {}
  /\ UNCHANGED <<wire, given, registry>>

Next ==
  \/ PanelSpeaks \/ PanelRepeats \/ PieceArrives
  \/ Opens \/ LinkChanges \/ StartupEnds \/ EntityAdded \/ Reload

Spec == Init /\ [][Next]_vars

----------------------------------------------------------------------------
(* Properties.                                                             *)

Serials == 1..Len(said)
EntriesOf == [c \in Contents |-> Range(Frame[c].entries)]
Source(m) == Frame[said[m]].src
Entries(m) == EntriesOf[said[m]]
Later(m) == {n \in intact : n > m}

\* A reading is one the device itself has published, and no older than the
\* last one of it that got through; only where an announcement was lost can it
\* be the mixture of two, and only of our own address, once it is known, one the
\* bus no longer listens to.  And what got through is on the bus: no loss and
\* no disconnect before it keeps the receiver out of step (_handle_data,
\* _handle_cmd, handle_frame, Bus.update).
IsTheirOwn(a, k, value) ==
  \E m \in Serials :
    /\ Source(m) = a /\ \E e \in Entries(m) : e.key = k /\ e.v = value
    /\ \A n \in Later(m) :
         Source(n) = a => \A e \in Entries(n) : e.key = k => e.v \in {None, value}

ReadingsAreCurrent ==
  /\ \A a \in DOMAIN bus.devices \ Refusable : \A k \in DOMAIN bus.devices[a].params :
       \/ astray /\ bus.devices[a].params[k] = Garbled
       \/ IsTheirOwn(a, k, bus.devices[a].params[k])
  /\ \A m \in intact : m > born /\ Source(m) \notin Refusable =>
       \A e \in Entries(m) :
         e.v # None => /\ Source(m) \in DOMAIN bus.devices
                       /\ e.key \in DOMAIN bus.devices[Source(m)].params

\* The bus has no device that has not spoken, as long as no announcement was
\* lost; and we are none of them, unless the panel spoke from our address
\* before a client had learnt it (_attributable, handle_frame).
DevicesAreReal ==
  ~astray =>
    \A a \in DOMAIN bus.devices :
      /\ \E m \in Serials : m > born /\ Source(m) = a
      /\ a \in OurAddresses => strayed

\* What a device's descriptions of a parameter agree on is what a write to it
\* is judged by: a value all enums offer is accepted if none of them is
\* read-only, and one all withhold is refused if they offer another.  A command
\* another device executes is judged by that one's (learn_param, validate_write).
Descriptions(a, k) ==
  UNION {{e \in Entries(m) : e.key = k} : m \in {n \in Serials : n > born /\ Source(n) = a}}

WritesFollowTheDescriptions ==
  \A m \in intact : m > born /\ Source(m) \notin Refusable =>
    \A e \in Entries(m) : e.values # {} /\ CommandDest(Source(m), e.key) = Source(m) =>
      LET told == Descriptions(Source(m), e.key)
          Agreed(available) ==
            {v \in {x.v : x \in e.values} :
               \A d \in told : d.values # {} => [v |-> v, a |-> available] \in d.values}
          Accepts(v) == ValidateWrite(bus, Source(m), e.key, v)
      IN  /\ (\A d \in told : d.perm # 0) => \A v \in Agreed(TRUE) : Accepts(v)
          /\ Agreed(TRUE) # {} => \A v \in Agreed(FALSE) : ~Accepts(v)

\* The registry has the name the bus gives a device, whoever changed it: its own
\* words or another device that took the same name.  It may lag only for a
\* device that came since the last renaming (async_sync_device_names).
NamesFollowTheBus ==
  \A a \in (DOMAIN registry \cap DOMAIN bus.devices) \ unsynced :
    DeviceIsNamed(bus, a) => registry[a] = DeviceName(bus, a)

\* A device that had a name is not called by its address again
\* (async_sync_device_names: "what stops a name going backwards").
NamesNeverGoBack ==
  [][\A a \in DOMAIN registry :
       registry[a] # Placeholder(a) => registry'[a] # Placeholder(a)]_vars

\* The receiver keeps the promise of Delivery.
ImplementsDelivery == Wire!ImplementsDelivery
=============================================================================
