# A verification project for truma_inetx

`src/custom_components/truma_inetx` is a Home Assistant integration that talks to a Truma iNet X panel over
Bluetooth LE. The panel gives one connection slot, the radio adapter is shared with everything else on the
host, the protocol's transport replies carry no identity, and the devices behind the panel acknowledge
commands they do not execute. Everything in the integration runs on one asyncio loop; what can go wrong is
therefore what happens between two awaits.

The project models the parts where that is decided: how the panel is bonded and which of its addresses is
dialled, who owns the link, which reply belongs to which transfer, what becomes of the notifications, which
report confirms which command, and which verdict a user sees. TLC checks each part on a small instance; TLAPS
proves the safety of nearly all of them for every value of the constants.

## 1. Inventory

Paths are relative to `src/custom_components/truma_inetx`.

| Component | Source | State | Operations | Status |
|---|---|---|---|---|
| Session loop | coordinator.py 715-1607 | client, connected event, wake event, hold/window deadlines, reload and stop flags | `_run`, dwell loop, teardown, pause, `async_stop`, reload | modelled: `Coordinator` |
| Commands and refreshes, as callers of the loop | coordinator.py 360-477, 1734-1857 | pending writes, manual requests and their owner token | begin, wait for a session, resume, end, end live mode | modelled: `Coordinator` |
| Confirmed writes | coordinator.py 1674-1725, 1779-1928 | one book of reports per command, attempt, deadline | send, ask, listen, retry, final check | modelled: `ConfirmedWrite` |
| Operation registry | operations.py | running operations, serial, published result | begin, end, state | modelled: `Operations` over `CommandVerdict` |
| Transport, sending | ble.py 340-400, 475-583 | send lock, expected opcode, event, reply, invalidated flag | announce, payload, wait, invalidate, close | modelled: `Transport` |
| Transport, receiving | ble.py 201-333, 340-450 | announced size, buffer | subscribe, reassemble, acknowledge, hand on | modelled: `Reassembly` over `Delivery` |
| Startup, discovery, measurements | session.py | registration, asked/acked addresses, misses per sensor | `run_startup`, `discover_params`, `request_measurements` | modelled: `Session` |
| Bus | bus.py, session.py | devices, parameters and their descriptions, misses | `update`, `learn_param`, `validate_write`, `handle_frame` | partly: operators in `Bus`, driven by `Inbound`; addresses and misses also in `Session`. The dump and the serial numbers are left out |
| Device names | coordinator.py 1251-1468, entity.py | which entities were built; the device registry is Home Assistant's | `_on_frame`, `device_info`, `async_sync_device_names` | modelled: `Inbound` |
| Address resolution and memory, repair issues | bt.py, coordinator.py | avoided addresses, remembered kind and its distrust, failure counters | resolve, remember, raise, clear, adopt | partly: `Routes`. The sweeps for panels without a name and the proxy tracker (proxy.py) are left out |
| Pairing | pairing.py | locals of one call; bonds are BlueZ's | `ensure_bonded`, `_ensure_bonded_bluez` | modelled: `Pairing` |
| Config entry | \_\_init\_\_.py | coordinator, note of the last session end in `hass.data` | setup, update listener, unload | partly, as actions of `Coordinator` |
| Config flow | config_flow.py | the form, the link handed off | pair, store, hand off | not modelled; its two ends are `Pairing`'s result and the initial link of `Coordinator` and `Routes` |
| Entities | entity.py, climate.py, select.py, ... | none of their own | read the bus, call `async_write_many` | partly: when one is built and which name it takes is in `Inbound` |
| Codec | truma/ | none | frames to bytes and back | partly: the outcomes of parsing whole, cut and mixed messages are in `Inbound` |
| Profiles, diagnostics, tools, card | profiles.py, diagnostics.py, tools/, frontend/ | none | tables and reports | not modelled: no state, or not part of a session |

How they interact. The config flow calls `ensure_bonded`, stores an entry and may hand its live link on.
`__init__` builds a coordinator, whose task `_run` resolves an address of the panel, dials it through a
`TrumaBleClient`, runs the startup of session.py over it and then dwells: until the panel falls quiet in poll
mode, for ever in connected mode. Commands and refreshes are tasks of their own; they wake the loop with
`_wake_event`, wait for its `_connected_event` and then use its client directly. Notifications arrive as
callbacks: the command characteristic completes a transfer, the data characteristic yields frames, which go
first into the books of waiting commands and then onto the bus, from which entities are built and devices named.
Every send of every task passes one lock in the client. The registry is told of each command's and refresh's
begin and end.

What is hard, and what must hold:

* **Session loop.** A call arrives in any of the loop's awaits and must neither be lost nor hung up on. A
  reload, an unload and a cancelled unload must close what was opened, and the next dial must keep 30 s from
  the last link, across coordinators. (Bounded waiting, ownership of the minutes of a live request,
  truth of the connected event.)
* **Transport.** Replies carry no identity; late ones, repeated ones, and failures with others queued at the
  lock. (A verdict belongs to its transfer; nothing follows a failure; nobody waits for ever.)
* **Confirmed writes.** Reports come unasked, late, and for several commands at once; a device takes one of
  two coupled settings back. (The verdict is what was reported; success means all settings hold together.)
* **Startup and measurements.** The startup carries on over a transport that refuses everything, and the
  session task and a refresh count the same sensors' misses. (A session is reported as working only if the
  panel answered in it; silence is counted as it happened; a sensor that speaks is asked again.)
* **Registry.** Operations overlap and end in any order. (The newest command decides what is on show.)
* **Receiving.** Notifications are lost, messages begun again, links end amid one. (What is handed on is the
  latest message, whole; what got through is on the bus, and no loss keeps the receiver out of step.)
* **Bus and names.** A device says what it offers in pieces, the panel sends from the address it gave us, two
  sensors take one name, entities register their devices late, a reload forgets all of it. (Readings are the
  device's own, writes are judged by what was said, the registry follows the bus.)
* **Routes.** The history keeps adverts of addresses the panel has left, and a failure may be the address's,
  the bond's or nobody's. (No dead address is dialled twice in a row, a wrong memory costs one attempt, notices
  end with the fault.)
* **Pairing.** BlueZ pairs in a process of its own, keeps keys the panel has dropped, and pairs one object at a
  time. (A reported bond is a new one, a working one survives, a panel that waits gets bonded.)

`PROJECT.json` lists every hazard with its line and the properties that would catch it.

## 2. Modules

| Module | Content |
|---|---|
| `Coordinator` | session task, callers, options, unload and setup |
| `ConfirmedWrite` | commands once they have a link; books, bus, attempts |
| `CommandVerdict` | abstract: the verdict on show is the newest ended command's |
| `Operations` | the registry; `Verdict == INSTANCE CommandVerdict WITH ...` |
| `Transport` | sends of one session, the panel's replies and silences |
| `Session` | registration, discovery and measurements, by the session task and by refreshes |
| `Messages`, `Delivery` | the panel's messages; abstract: each is taken whole while it is the latest, or not at all |
| `Reassembly` | subscribing and reassembly of notifications; `Link == INSTANCE Delivery WITH ...` |
| `Bus` | operators: attribution, values, descriptions, write validation, names |
| `Inbound` | `Reassembly` composed with the bus, the entities and the device registry, over sessions and a reload |
| `Routes` | the address resolver, its memory and the two repair issues |
| `Pairing` | one call of `ensure_bonded`, with BlueZ and the panel as surroundings |
| `MC...` | names for model values, symmetry, the scripts of the commands, the contents of messages |
| `CoordinatorProofs`, `ConfirmedWriteProofs`, `InboundProofs`, `OperationsProofs`, `PairingProofs`, `RoutesProofs`, `SessionProofs`, `TransportProofs` | theorems |

A definition that a comment calls a mutant, or a change of the code that the run must notice, is a plausible
bug of the code in the definition that follows it; no specification uses it. Each property is known to fail
when the one is put in the place of the other.

### Coordinator

An action is the code between two awaits. `phase` is the await `_run` is parked in:

| phase | await |
|---|---|
| boot | `_keep_distance_after_reload`, or the task before its first step |
| dial | resolving, connecting, subscribing (`link` "new" before, "live" after the GATT connect) |
| startup | `_run_startup` |
| remember | `_remember_address_kind` saving to the store |
| hold | a `sleep(1)` of the dwell loop |
| measure | `_request_measurements` from the dwell loop |
| teardown | `_disconnect_client` in the `finally` |
| arming, pause | `_wait_before_retry`: the waiter on the wake event is created, then runs an iteration later |
| handover | `_hand_over_to_reload` |
| gone | the task is over |

The dwell loop's tick is one action per way out, with the order of its checks kept in the guards
(`ReleaseDue`, `ReloadDue`, `Watching`, `Dwelling`). `LoopHead` is reached without an await from the end
of a wait, so it is part of those actions. Commands are idle, waiting (for the connected event), served
(the event was set, the task not yet resumed) or writing; refreshes likewise. `Setup` replaces the
coordinator after an unload; `settling` (the note in `hass.data`) and `lately` (history: a link was really
closed) survive it.

`link` is what the code can see of its client, `open` the connection itself: being opened, up, or disconnected.
A link that works no more is still open until somebody calls `disconnect()` on it. The teardown drops the client
first (`DropClient`) and closes it afterwards (`HangUp`); `async_stop` does the same with what is left
(`DropTheRest`). Neither has a client of a connection that was being opened when `async_stop` cancelled the
dial: that one may stay, `open` "opening" with no client, and nothing closes it any more (coordinator.py:799-809).
`open` is this coordinator's connection; the next one begins with none of its own. It ends with the call of
`disconnect()`, not with what BlueZ makes of the call (ble.py:106-110).

Abstractions. Deadlines are Booleans with an expiry action: the live window, the command hold, the 30 s
settle. `lately` ends no later than `settling`, since the end is noted after the close. A window outlives the
instant between a refresh's being served and its resuming (it is a minute or longer, the instant one loop
iteration). The setup of a coordinator discards the callers of the old one; a change of options while no
session task runs is not modelled; a served caller is not cancelled from outside in that one iteration.
Whether startup succeeds is a choice.

### ConfirmedWrite

One task per command: send, sent (the payload is out, the DataAck outstanding), ask, listen, pause, settle.
The book of a command is `_write_feedback[token]`; `Note` and `bus'` are the two halves of `_on_frame`. `heard`
is a history variable: what the latest report of the setting said since the attempt began, independent of
the book. Devices have no state of their own: any setting may be reported as any value of its range at any
time, which covers commands that were not executed, other hands at the panel, and echoes. `Refuse` stands for
all of validation. What was reported before a session was granted does not matter: the attempt begins by
forgetting it.

### Operations

Begin and end as the context manager guarantees them. `Publishes` is the rule of `end`; targets and error
texts are left out, the state shown is `State`. The refinement maps the command serial to the newest ended
command.

### Transport

The two waits of a transfer, its timers, the `finally`, and the handler of the command characteristic. Every
reply of the panel is tagged with the transfer it is meant for, a tag no guard reads: that is how the
properties can say that an acknowledgement was somebody else's. What the panel owes is a set, so its replies
may be late, reordered, repeated (Ready), negative or missing.

### Session

One record per task: the session task (`Loop`) and each manual refresh. Its stage is the await it is in, its
other fields are the locals of `discover_params` (`todo`, `asked`, `acked`, `round`) and
`request_measurements` (`to`, the `missed` read before the await). What the tasks share is the client (`up`,
`ours`, `registered`) and the bus (`heard`, `levels`, `misses`, `discovered`, its copy of our address).
`last_seen > heard_at` is one flag per address, `spoke`: a frame came since the last miss.

Two histories carry the properties: `proof` is what the startup of this session has seen of the panel, and
`silent` counts a sensor's unanswered requests since it last spoke while nobody waited for it. A measured
topic stands for both. The order of the addresses within a round is left open. An ack is taken at the instant
it comes, so a link that drops in the 0.2 s after it drops after the action. A transport that
invalidates itself over one of its own replies counts as gone at once; the frames that may still come over
its link are left out here (`Transport` has them). An introduction over a link that has dropped may or may not
forget our address, as the drop came before or after its last frame. Commands, whose frames can invalidate
the client as well, are not in this module.

### Reassembly, Delivery and Messages

`link` is the GATT link and how far `_subscribe` has come: the announcement channel is heard before the data
channel, and a closing link is heard to its end. `size` and `buffer` are the client's two fields. The panel
announces a message, sends it in pieces, may begin again or begin another, and any notification may be lost.
Sending and handling one notification is one action, since the loop handles each in one step and in order.
Bytes are counted and not named: of the bytes collected the model knows whose header they begin with and
whether they are the first ones of that message with nothing missing (`exact`). `astray` is set when an
announcement is lost, or forgotten by a disconnect amid its message; up to there `Delivery` promises that each
frame handed on is the latest message, whole. The refinement maps the frame's message to it.

### Bus and Inbound

`Bus` holds operators only, over a record for the bus: who a frame is attributed to (`HandleFrame`), the values
and merged descriptions of a device (`Update`, `LearnParam`), what a write is judged by (`ValidateWrite`, with
the table for parameters no device describes), and what a device is called (`DeviceName`, `DeviceIsNamed`).
A frame's entries are filed one by one, in their order (`Filing`); a field that a description leaves out is
`Undescribed` and takes nothing back.
`Inbound` drives them with `Reassembly` in the place of the transport. `Parsed` is what the parser makes of the
bytes: of a cut message its header, of pieces of two a garbled value or nothing, of bytes from amid a message
nothing or a source that is nobody's (`Stranger`).

A frame is filed, published and followed by the renaming in one action, as the callback does it. `built` are
the entities of this coordinator, `adding` the device infos taken when they were built and not yet
registered, `registry` Home Assistant's, which outlives a `Reload`. `unsynced` are the addresses that came
since the last renaming, for which the registry may lag; `strayed` notes that the panel spoke from our address
before the client knew it; `given` restricts the panel to what it does: it answers a session's registration
once and uses our address afterwards. The panel as a device is named after the entry and left out of the
registry. Types, serial numbers, times and the names of enum values are left out.

`FrameAssumption` says what the parser and the panel guarantee of a frame: only value updates and discovery
answers have entries, an update has one, an enum names a value once, and a registration answer carries an
address (0 or none is an answer without one, which ends the startup). The address may be any other, also 0x0500,
the one we come with: a panel was measured to give it (issue #20, session.py:84-91), and one of the contents of
the run is that answer. Two properties make exceptions the code makes. What is said from an
address of ours, also one of an earlier session, from the default or from the broker is `Refusable`: the bus may
leave it out however often it hears it, so nothing is promised of it. And `WritesFollowTheDescriptions` is about
parameters the device executes itself (a room climate command goes to the panel and is judged by that,
`CommandDest`), and promises acceptance only where no description says read-only (`perm` 0): a later
description without the field does not take it back.

### Routes

`stage` is where `_connect_and_run` is: idle (before resolving), dialling, adopting (taking over the link
pairing handed on), startup, session. The surroundings are what Home Assistant has heard of each address and
when, which ones a connectable scanner reaches, on which the panel answers, and whether the bond is good; all
change at any time, also between `Resolve` and the end of the dial. `Score` and `Before` are the ranking of
`async_resolve_device`, `Fresh` its test for stale adverts. The loop's own state carries the source's names
(`_avoid_addresses`, the last address and kind, `kindStale`, the memory and its copy in the store, the
counters, the issues). Any attempt may fail though it could not (`Fluke`), a bounded number of times. `NoteError`
is what the end of an attempt in an error, at any stage, means for the notice of a lost bond: counted if the error
is a refusal the code knows, which a panel gives that has lost the key; left alone otherwise. Histories:
`failed` and `previous` are the addresses whose dial failed since a session ended well and the last of them,
`lostOn` the kind of the last dial if it carried no session, `adopted` that this session came from pairing.

Left out: `device_from_bluez`, which `_connect_and_run` asks for the entry's unique id (coordinator.py:1223);
that is the panel's name, is compared with addresses, and never matches. The sweeps for panels without a name,
which serve the config flow. The texts of the issues.

### Pairing

One call. `stage` "start" to "connected" is `ensure_bonded`, "bluez" to "refused" a pass of the loop in
`_ensure_bonded_bluez`: look at the objects, decide, wait in `Pair()`, treat its refusal. The locals keep their
names (`trust`, `suspect`, `removalTried`, `pendingPath`; `watching` and `overdue` are the two deadlines as
Booleans with an expiry action). BlueZ is a surrounding with a book of its own: objects it knows and sees, a key
for each (none, good, or `half`: one the panel has dropped), the object it is pairing (`daemon`), which goes on
when the caller has given up, and the links pairings brought up. The clock of the call is `time`: enough left,
only the reserve left, up. `CancelPairing` may fail, and the loop goes on as if it had not. Histories: `made`, the
panel has bonded since the call began; `kept`, BlueZ was asked to call off the pairing under way and did not. The
call starts with
at most one bond, at the identity address, and one adapter. The agent's answers, the discovery filter and
the connection parameters change nothing of ours.

## 3. Runs

| Run | Instance | Shows |
|---|---|---|
| Coordinator | 1 command, 2 refreshes, 3 calls, symmetric refreshes; about 1.06 million states | all hand-overs between loop, callers, reload, unload and setup |
| CoordinatorLive | 1 command, 1 refresh, 2 calls, fairness; about 102 000 states | a reload, a poll and an unload come to their ends |
| Operations | 2 actions and sync, 5 operations | the registry implements `CommandVerdict` |
| Transport | 2 writes, 1 probe, fairness; about 73 000 states | attribution, isolation after a failure, every send returns |
| ConfirmedWrite | a two-setting transaction and a command to one of its settings, 2 attempts, 2 sessions, fairness; about 226 000 states | verdicts follow the reports, every call returns |
| Session | 2 addresses, one of them possibly our own, a refresh, 2 misses, 1 session, fairness; about 90 000 states | what an announced session has proved, the counting of misses, startups end, no sensor is given up for good |
| Inbound | 6 contents of 1 to 3 bytes in pieces of 2, 3 messages, 2 faults, 2 sessions, a reload; about 2.4 million states | the receiver implements `Delivery`; readings, devices, write validation and names follow what got through |
| Routes | the identity address and two private ones, 3 changes, 1 fluke, a reload, both limits 2, fairness; about 1.03 million states | rotation, the cost of a wrong memory, the life of the notices, a live address is reached |
| Pairing | 2 addresses, 2 changes, fairness; about 1.1 million states | a reported bond is new, a panel that waits gets bonded |
| CoordinatorWindow, InboundNames, PairingKeeps | the instances of Coordinator (smaller), Inbound and Pairing | the three disagreements below |

Why the bounds are enough. The coordinator treats commands only through "is one pending", so one command
(which may begin again) shows every guard; refreshes compete for one owner token, which takes two. Three
calls let a caller come before, during and after another, or a setup follow an unload with a call before
it; end-live presses, option changes and the unload are not counted. Five operations suffice for two
commands overtaking each other with syncs around them. Three transfers are one that fails, one queued
behind it, and one whose late reply is still owed; a session's transfers are otherwise alike. Two attempts
have a first and a last one (the code has three: a middle one is both "not the first" and "not the last"),
two sessions an old client and a new one, two commands over a common setting the contention for a report.
In `Session`, two addresses are one in the seed and one that has to be learned, two misses (the code has three)
a first and a last one, and two tasks the contention for a count. One session includes any number of
measurements; with `MaxSessions = 2` a run has 820 000 states, takes three minutes and finds nothing either.

In `Inbound`, the contents are the registration under a new address and under the one we come with, the
panel's echo from our address, a sensor that wakes
unnamed, its answer to a discovery, and the same name from a second sensor; the lengths give a message of one
piece, one of a full piece, and one of two pieces. Three messages are one that is damaged, one that is begun over
it and one that has to survive it, or two sensors and what one of them says later; two faults are the loss of
an announcement and of a piece. In `Routes`, three addresses are one that fails, one that is left over and one
whose kind is remembered; three changes take an address away, bring another and turn the bond; with a limit
of two a counter is below, at and beyond it. In `Pairing`, two addresses are the one that is bonded or being
paired and the other one; two changes move the panel and its mind.

The theorems do not have these bounds. `CHECK_DEADLOCK FALSE` is set everywhere because a bounded number of
calls, messages or changes comes to an end and the system then rests.

Fairness. The loop schedules every ready task and fires every timer: weak fairness on the session task, on
the unload, on every timer and every caller's own steps. Calls, radio and panel are never fair. In `Session`
that is the session task's own progress, as each of its waits has a timer; in `Routes` the session loop's
steps, each of which ends by itself or by a timeout; in `Pairing` both coroutines, the two deadlines, and a
pairing the panel takes part in, which BlueZ carries through. Two strong ones: `asyncio.Lock` is first come first
served, so a queued transfer gets it (`SF` on `Start`); and the deadline of a wait for a device stands however
often reports interrupt it (`SF` on `HearsNothing`).

Two liveness properties have premises that say what the surroundings must do. `LiveAddressIsReached`: the panel
goes on answering at the only fresh address, whatever stale ones are in the history. With two fresh ones, an
identity that failed and a private one that is a phantom, the code does not get there (below). `ReadyPanelIsBonded`
is about the loop, as long as time is left: the panel waits, visibly, at one address, and BlueZ does not carry on a
pairing with another that it was asked to call off (14 below; without this premise TLC finds the counterexample).

### What the code does otherwise than it says

Three are runs that TLC ends with a counterexample; quotations are in `PROJECT.json`.

1. *CoordinatorWindow* (coordinator.py:1494). A refresh requested while the address kind is being saved is
   reported as done and its minutes are dropped.
2. *InboundNames* (coordinator.py:1442). After a reload, a sensor that is heard before it has named itself gets its
   address for a name, over the name the registry had kept.
3. *PairingKeeps* (pairing.py:684). Without a proxy, pairing again removes a bond the panel honours: BlueZ
   refuses with AlreadyExists before the panel has been asked.

Others are in the models, which follow the code, without a run of their own; the properties are stated around
them.

4. coordinator.py:1035. While a command waits, `_wait_before_retry` returns at once, so a failing dial is repeated
   without a pause for up to 75 s; the comments at 945-948 and 986-989 say the backoff is kept.
5. coordinator.py:466-470. Ending the live mode between two sessions leaves a wish that ends the next session
   after a second; the comment at 454-464 says that cannot happen.
6. coordinator.py:1557. Commands are looked for before a measurement is awaited and not after it, so the stall
   check hangs up under one that began meanwhile (against 475-476). `HangUpSparesCalls` is about the
   other ways out of the loop.
7. ble.py:570. The late DataAck of a probe that was given up completes the next transfer, and shifts the
   attribution of every later one by one. ble-transport.md:51-62 excludes that with an argument that covers
   discovery, not measurement requests and the question after a write. `AckIsOwnUntilAProbeFails` ends there.
8. coordinator.py:1879. A report that comes in while the frame still waits for the lock confirms the command; the
   docstring at 1714-1718 allows only reports after the frame. `VerdictFollowsTheReports` counts from the book.
9. coordinator.py:240-242. The comment says the failed addresses are forgotten when they would block every
   candidate. That is so once all have failed; but when the identity has failed once and a fresh phantom stays on
   air, both are demoted and only the phantom is dialled.
10. pairing.py:653. After the bond is made, the object found on the next pass may be an unpaired leftover that
   became visible meanwhile; the link that is released is then not the one `Pair()` brought up.
11. ble.py:553. A bare refusal that answers nothing (`Stray`) ends the session if a DataAck is awaited. Which bytes
   the panel sends unasked is known from one measurement only, so no property forbids it.
12. coordinator.py:1743. A command that finds the link of a startup under way writes before the registration, from
   the default address. `Coordinator` lets it, `Session` and `ConfirmedWrite` are about what happens after.

13. coordinator.py:1235-1238. The comment says the notice of a missing route cannot be raised when a handed-off link
   is adopted. It can: the entry may be reloaded after a pairing of its own while the notice stands, so
   `NoticesEndWithASession` excepts sessions on an adopted link.
14. pairing.py:821-837. `_cancel_pairing` says that the panel's live address cannot be paired until the other pairing is
   released, and swallows a failure to release it. The loop then forgets which object it was (637, 650); the next
   pairing that is called off for its age is the one it asked for since, at another object, and every `Pair()` is
   answered InProgress until BlueZ gives up by itself.
15. coordinator.py:754-755. `async_stop` says it closes every link this coordinator holds; the warning at 799-809 says
   that one still being opened may stay up. `StopClosesItsLinks` promises what was up or handed over, and that the
   rest comes only with the warning. A `disconnect()` that times out or does not reach the radio counts as called.

## 4. Proofs

Every theorem holds for all values of the constants under the named assumptions, which only say that the
constants have their types and the markers (`None`, `NoSize`, `Stranger`) are no ordinary values, that a script
has at least one step, that a message has a byte, that limits are not zero, that the seed has an address the
panel never assigns to us (its own), and what `FrameAssumption` says of frames (section 2).

* **CoordinatorProofs.** `TypeCorrect`; `AnnouncementsAreTrue`, `OpenLinkServesEverybody`,
  `CallsEndThePause`, `WishesAreOwned` for the state invariants, `StopClosesWhatWasUp`, `FirstDialKeepsDistance` and
  `DwellLoopSparesCalls` for the action properties. Every induction rests on the types; the sessions need more.
  `SessionInv` adds that there is no client between two attempts, that an unload has set the stop flag and what
  it has ended stays ended; that a connection that is up belongs to the client or is the one handed over
  (`OpenLinkIsHeld`), and one being opened to a dial, or to one that was cancelled (`DialIsOpening`). Without
  these neither the truth of the connected event is inductive nor what `async_stop` closes.
  `StopClosesWhatWasUp` says that when it returns every connection that was up has been disconnected, and that
  one still being opened is left only by a cancelled dial. `CallsEndThePause` is inductive relative to it.
  `FirstDialKeepsDistance` rests on `DistanceInv`: a link closed lately has been noted, or its attempt still
  runs, in which case the unload notes it before the next coordinator is set up.
* **ConfirmedWriteProofs.** `IInv` adds to the types: a report in a book is the last one on the bus
  (`BookAgrees`), a command that does not run has an empty book (`Blank`), a pause has an attempt left, and in
  an attempt the book holds a satisfying report exactly while the latest one heard is one (`Latest`). From
  it follow `VerdictHolds` and `SuccessHolds`; for a single setting success rests on `BookAgrees`, for
  several on the final check.
* **OperationsProofs.** `TypeCorrect` (tokens are unique, no counter runs ahead), and
  `RegistryImplementsVerdict`: every step of the registry is a step of `CommandVerdict` or a stutter.
* **TransportProofs.** `LockHolds`: the lock is held by exactly the transfer under way, and an open wait is that
  transfer's. On it rest `ReadyEndsNoAckWait` (from the payload on only 0xF0 is accepted; only proved, since
  no run needs to search for it), `FailureIsTheLast` (a failed transfer has set the flag before it gives the
  lock on), and `AcksAreOwn`: as long as every probe was answered, a DataAck is owed only to the transfer under
  way or to one that ended the session, and the one that was taken belongs to the transfer that waits.
* **SessionProofs.** `TypeCorrect`: no sensor is counted past the limit and no request goes to nobody, which needs
  `Proper`, the locals that fit a stage. `MissesAreReal`: `MissInv` adds that a task waiting for an
  answer knows of no more misses than there were; frames meanwhile leave the history alone, so two tasks
  cannot overcount. `AnnouncedHaveAnswered`: `AnswerInv` says what each stage of a startup has seen; in the second
  round everybody in the seed or heard before it is asked or about to be, so a discovery that ends well has
  asked somebody and somebody answered.
* **InboundProofs, the receiver.** `WireInv`: the types, only the latest message is under way, and `InStep`: as
  long as no announcement went missing, the receiver waits for exactly that message and has collected no more of
  it than was sent. So it has as many bytes as were announced only when it has all of them (`WholeMessages`), and
  every step is one of `Delivery` or a stutter (`ReceiverImplementsDelivery`, and `LinkKeepsItsPromise` for the
  composition), for any messages, lengths, payload, faults and sessions.
* **InboundProofs, one frame.** `Filed` says what a frame makes of the bus: only the device at its source changes;
  each value is one of the frame's or an old one it does not mention; each field of a description likewise. It is
  proved by induction over the entries. The library's induction theorems take an operator as parameter, so
  the induction is one over a set of numbers, by the pigeonhole principle on finite sets (`UpTo`).
* **InboundProofs, the bus.** `Inv` is the inductive invariant of the composition, in three parts. `OnTheWire` is
  `WireInv` with `Progress` (of a message that was announced and has lost nothing, the buffer holds all that was
  sent, whatever went wrong before: it is why a message that gets through is on the bus), `Fresh` (nothing said
  before a reload is still in the receiver) and `Addressed` (the panel speaks from our address, and a registration
  is under way, only with `given` set accordingly). `OnTheBus` has the shapes, the entities' rooms, `KnowsItself`
  (while no announcement is lost, a registered client takes the given address for ours, without which one of our
  own frames could become a device), three of the properties themselves (`ReadingsStayCurrent`, `DevicesStayReal`,
  `NamesStayInStep`) and the two halves of what writes are judged by: `MetaIsTold` (each known field was in one of
  the device's descriptions) and `ToldIsKnown` (each field that got through is known, whoever spoke since).
  `WritesStayJudged` follows from these two and not from either: the first keeps the bus from inventing a value,
  the second from forgetting one. `Counted` is the bounds. TLC checked `Inv` on the instance of the run before it
  was proved.
* **InboundProofs, steps.** `TheBusForgetsNothing`: short of a reload no device, parameter or described field
  is lost, whatever a frame leaves out. `NothingIsFiledAsOurs`: no frame changes what the bus has under the address
  it takes for ours. Both are about every step, and no run needs to search for them.
* **RoutesProofs.** `IInv` is `TypeCorrect` with `Blame` (the failure that comes last is in the grudges, and the
  blame lies on an address only while and after it is dialled), `Proved` (what an attempt has proved at each stage),
  `Distrust` (the memory is distrusted exactly when its kind was dialled last and carried no session) and
  `Notices` (a dial begins without the notice of a missing route). From it follow `NoticesEnd`, `Rotates` and
  `MemoryCosts`; the first is inductive only with `Notices`, the others need `Blame` and `Distrust` in the state the
  dial begins in.
* **PairingProofs.** `TypeCorrect` and `ReportsAreNew`. `OldBonds`: until the panel bonds, the only pairing is the
  one the call found. `Unproven`: a caller that has not seen the panel honour a bond stops suspecting only
  when the panel has bonded or no pairing is left; without it a report of the old bond could not be excluded.

Every safety invariant and every safety action property of a passing run is a theorem. Only model-checked are
the liveness properties (`ReloadComesAbout`, `PollSessionEnds`, `StopCompletes`, `EverySendReturns`,
`EveryCommandReturns`, `StartupEnds`, `NotGivenUpForGood`, `LiveAddressIsReached`, `ReadyPanelIsBonded`), which the
prover has no means for: it knows neither `ENABLED` nor well-founded arguments over an operator. And the
three violations, which are counterexamples.

## 5. Plan

1. `Coordinator`, `Session` and `ConfirmedWrite` composed, for the callers' view from the service call to the
   verdict, and for commands that write during a startup or break the client under it.
2. The config flow between `Pairing` and `Coordinator`: the link handed on is filed under an address that a
   rediscovery of the entry can change (config_flow.py:257-261, \_\_init\_\_.py:154-156).
3. `Pairing` with bonds on two adapters.

### Not modelled

* Byte layout and CBOR: covered by unit tests, without state. What parsing does to cut and mixed messages is
  in `Inbound`.
* Profiles: a table of rows. Platforms: reads of the bus and calls of `async_write_many`; when an entity is built
  and what its device is called are in `Inbound`.
* Diagnostics, bus dump, tools, the dial card: read-only or outside the integration.
* proxy.py: a tracker of which scanners are registered, whose only effect is a diagnostic
  entity.
* The discovery sweeps of bt.py, `device_from_bluez`: see `Routes`.
* The dump, serial numbers and `last_seen` as a wall clock (bus.py:397): a clock set back makes devices look silent
  since their last miss until the next frame; time is a flag here.
* Migration of old entries, static paths, the forms of the config flow.
