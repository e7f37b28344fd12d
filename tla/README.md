# Verification of midictrl

midictrl is the firmware of a MIDI footswitch: an ESP32 program of about 2,200
lines of C under FreeRTOS, with a small web page for editing and for playing
from a browser. This directory holds TLA+ models of its components, the TLC
configurations that check them on small instances, and TLAPS proofs of the
properties that matter most.

Contents

1. The system: components, state, operations, interactions
2. What is hard about it
3. The modules, and how they correspond to the code
4. The runs: what each checks, its bounds, and why they are enough
5. Fairness
6. What is proved, and how
7. Where the code and its documents disagree
8. What is not modelled, and why
9. The plan

## 1. The system

| Component (`src/...`) | State it keeps | Operations | What makes it correct |
|---|---|---|---|
| State machine (`components/state_machine`) | `current_bank`, `target_bank`, `current_slot`, `alt_active[]`, `tuner_on`, `browse_started_ms`; a pointer to the shared `config_t` | `state_machine_dispatch` (footswitch, tick), `state_machine_resync`, `state_machine_snapshot`; calls `send_midi`, `state_changed`, `now_ms` | indices stay inside the configuration; what is shown is what sounds and what was announced; an alternative is remembered exactly as the history of presses says; browse mode ends after its timeout, neither early nor never |
| Configuration types (`components/config`) | `config_t` | `config_init_defaults` | the defaults have a bank, and are a configuration like any other |
| Configuration store (`components/config_store`) | the live `config_t`, `/storage/config.json` and its `.tmp` | `config_store_init` (load or restore defaults), `config_store_from_json` (replace), `config_store_save` (encode, write, rename), `config_store_to_json_alloc` | nothing that was answered "saved" is lost; a power loss leaves the old or the new file as a whole; what is announced is stored; what is encoded is decoded again |
| Input manager (`components/input_manager`) | per button: candidate level, sample count, debounced level, start of the press, long-press flag | `poll_task` every 10 ms; reports short and long presses by a callback | exactly one event per press, of the right kind; none for bounce |
| Web server, websocket clients (`components/web_server`) | the table `clients[]`, `s_ws`, the mutex | register, unregister, `broadcast_text`, `send_role`, frames of browsers | exactly one writer, for as long as it stays; no double entries; each browser knows its role |
| Web server, REST (`components/web_server`) | - | `GET` status, config, scan; `POST` config, credentials | see store and clients |
| Browser page (`components/web_server/web/index.html`) | the role it was told, the last state it was sent; the document it edits, the baseline it reverts to | renders, edits, imports, reverts, saves, sends presses | acts on its true role; shows what the device has, and does not write an old document over a new one unknowingly |
| Wi-Fi manager (`components/wifi_manager`) | `state`, `ssid`, `ip`, `sta_attempts`, event bits, credentials in NVS | connection attempts, fallback to an access point, scans, new credentials | the device is always reachable in some way |
| MIDI output (`components/midi_out`) | the UART | `midi_out_send` | bytes as the MIDI standard wants them |
| Boot and tasks (`main/main.c`) | `g_sm`, `g_web` | `app_main`, the tick task (200 ms), `input_to_sm`, the callbacks | whatever order three tasks call the state machine in, its indices stay inside the arrays and the browsers end up with its state |
| Board pins (`components/board`) | constants | - | - |
| Host tests, tools (`tests`, `tools`) | not part of the firmware | - | - |

How they interact:

- Three tasks dispatch events to the one state machine: the input task
  (`input_to_sm`), the tick task, and the httpd task (frames of the writer,
  and the resync after a `POST /api/config`). There is **no lock** around it.
- The state machine calls back, in the task that dispatched: `send_midi`
  writes to the UART and broadcasts the message to the browsers;
  `state_changed` broadcasts a snapshot. Both can block for as long as a
  socket or the UART does, and the dispatching task with them.
- The configuration is shared memory: the store owns it, the state machine
  reads it through a pointer, the httpd task overwrites it and only afterwards,
  when the save has succeeded, calls `state_machine_resync`.
- The client table is guarded by `clients_mutex`; role messages are sent after
  it was given back. A broadcast from any task may find a dead client, drop it
  and promote another one.
- `app_main` copies the long-press thresholds to the input manager once.

## 2. What is hard about it

Every hazard is listed with its line in `PROJECT.json`. The groups are:

- **Order of events**: long mixes of navigation, presses, time-outs and
  configuration changes; the alternative cache is maintained press by press.
- **Time**: all times are wrapping 32-bit milliseconds, read by tasks that run
  late; the input task compares times with one read before a callback blocked.
- **Interleaving**: writers that leave in three ways, noticed by three tasks;
  messages that overtake what they report; a state machine without a lock.
- **Failure**: a power loss or a restart at any step of a save, and every
  storage or memory call that may fail, at boot and while serving.
- **Stale state**: indices into a configuration that has just been replaced;
  table entries for sockets whose number was given to somebody else.

## 3. The modules

| Module | What it is |
|---|---|
| `StateMachine`, `StateMachineProofs`, `MCStateMachine` | the state machine, one action per event; its theorems; three configurations for TLC |
| `AltHistory`, `AltHistoryProofs`, `MCAltHistory` | the alternative cache against a reference computed from the whole history of presses |
| `Dispatch`, `DispatchProofs`, `MCDispatch` | the same state machine as the loads and stores of three tasks, composed with the replacement of the shared configuration and the broadcasts of its snapshots |
| `InputManager`, `InputManagerProofs`, `MCInputManager` | the polling task |
| `Codec` | `config_t`, its JSON, the defaults, and the bytes of a message: operators without state |
| `Editors`, `EditorsProofs`, `MCEditors` | the Config tab in several browsers over the handlers of `/api/config`, composed with `Codec`; the theorems about both |
| `WsClients`, `WsClientsProofs` | the websocket clients of three tasks |
| `WifiManager`, `WifiManagerProofs`, `MCWifiManager` | the Wi-Fi manager over an external driver |
| `DurableConfig` | the abstract specification of the store: a register that survives power losses |
| `ConfigStore`, `ConfigStoreProofs`, `MCConfigStore` | boot, POST, save and power loss; the refinement of `DurableConfig` |

`PROJECT.json` maps each definition to its lines. Some operators are named in
no action: `StepPastTheEnd`, `NeverDrop`, `AnySlot`, `OpenInPlace` and the
like are mistaken versions of the definition that follows them, kept so that
the properties can be tried against plausible bugs. Each property of a passing
run is violated by one of them.

### StateMachine

`vars` are the fields of `struct state_machine` plus the shared `cfg`, the
clock, and what the last event did to the outside world: `sent` (the messages
given to `send_midi`) and `shown` (the snapshot a browser was last given by
`state_changed`). History variables, read by properties only: `idle` (real time
since the last bank step) and `sounding` (the last messages of a program).

| Action | Code |
|---|---|
| `BankStep(1)`, `BankStep(-1)` | `bank_step` 87-104, from Bank Up/Down short |
| `CommitBank`, `SelectSlot`, `ToggleAlternative` | the three branches of `handle_program_press` 106-154 |
| `TapShort`, `TapLong`, `BankLong` | 156-202 |
| `Tick` | `handle_tick` 205-221, whole: the timeout check, the cancellation, the callback |
| `ReplaceConfig`, `Resync` | `cs->cfg = *parsed` of the store, and `state_machine_resync` 243-257 |
| `AdvanceClock` | a millisecond; the tick task is late by at most `TickGap` |

An event is one action, as in the host tests: handlers of *different* tasks
that interleave inside each other are the subject of `Dispatch`. `ReplaceConfig` and `Resync` are two actions, because other tasks do
run between them and because the second may never come. Messages are model
values, lists of them sequences; a configuration is a member of `Configs`. No
configuration of the runs has zero banks, because the store never delivers
one (`ConfigStore!TypeOK`); the guards against it are in the model and the
theorems hold for such configurations too.

### AltHistory

Extends `StateMachine` with the sequence of presses since the bank was loaded,
and states what the spec (2.5) describes: an alternative is on iff the presses
on its slot that count (all for a permanent one, those of the present visit
for a one-time one) are odd in number. The code computes it incrementally.

### Dispatch

The state machine has no lock, the input task, the httpd task and the tick task
all call `state_machine_dispatch`, and the chip has two cores. `StateMachine` says
what an event does; `Dispatch` says in which loads and stores it does it. Each
task has a `frame`: the event it is handling (`op`), where it is (`at`), and what
it holds in registers (`reg`). What the build keeps in registers ends at the next
call through a pointer (`now_ms`, `send_midi`, `state_changed`), so a value loaded
before is used after it only where the code does so.

| Action | Code |
|---|---|
| `BankStep` | `bank_step` 87-104: count and target, current bank, store of the target, clock, store of the window |
| `CommitBank`, `SelectSlot`, `ToggleAlternative` | the branches of `handle_program_press`, store by store |
| `Emit`, `SendMidi` | `emit_message_list` 31-36: the count is loaded before every message, the message where the pointer says |
| `Notify`, `Broadcast`, `FrameNotMade` | `web_server_broadcast_state`: a snapshot in two steps, then, under `clients_mutex`, its broadcast, or no broadcast because there is no memory for the frame (or for fields of it); the other tasks may take and send theirs in between |
| `Join` | the snapshot that `register_client` has sent when a browser joins |
| `Tick` | `handle_tick`: the clock is read before `browse_started_ms` |
| `Post`, `CopyConfig`, `SaveReturns` | `cs->cfg = *parsed` member by member, then the save, which may fail |
| `Resync` | `state_machine_resync` |
| `AdvanceClock` | a millisecond, also in the middle of handlers |

The code reads a snapshot field by field (`state_machine.c:259-294`); the model
reads `current_bank` in one step and everything else in a second. The intermediate
states add nothing to the properties: they do not look inside a snapshot that is
mixed, but ask whether a later one replaces it, and a field that changes between two
reads is changed by a handler that announces it later.

`raced` and `overtaken` are history: whether another handler overlapped the last
resync, and whether what was broadcast last is not the newest snapshot: a later one
had been sent before it, or had got no whole frame. The module reuses the
types and pure operators of `StateMachine` through `INSTANCE StateMachine WITH`.

### Codec

A decoder of the code returns whether its input was well formed and fills in a
structure; `XOk(json)` is the one and `XOf(json)` the other. The differences
between the levels are the point: a malformed message fails its list, slot and
bank; a malformed bank is skipped and the later ones move up; the global settings
fall back one by one; a malformed list of a user function is cut short. Numbers
are cast to 8, 16 or 32 bits as in the code, `CastUint32` standing for what the
build gives for a number that does not fit. `WireBytes` is `midi_out_send`.

### Editors

Several pages, each with the document it edits (`data`), the encoding it reverts
to (`baseline`), the selected bank and the two buttons. A GET is a request
(`asked`) and a snapshot under way (`answers`); a POST is in `posts` until its
answer has arrived. Both travel on connections of their own: they may be handled,
answered and delivered in any order, or get lost. `config_changed` travels on the
websocket of each page (`notices`) and is lost with it. `PostSaved`, `PostUnsaved`
and `RefusePost` are the three ends of `config_post_handler`, `Restart` reads the
file again. `missed` is history: the device has changed since the snapshot was
taken in a way the page has no means to notice, or the snapshot was incomplete.
Results of cJSON are not looked at in `encode_config` and `encode_bank`: when memory
is short, banks and programs are left out of what is sent (`HandleGet`) and of what is
saved (`SavedInPart`), and nobody is told (`PartialEncodings`). A `Restart` that cannot
read the file comes up with the defaults and writes them, if it can.

A name is cut at 31 bytes by the decoder (`Cut`), which may be in the middle of a
character. The browser reads such an end as another character (`AsRead`), and the
name it sends back is cut again: this is all that an unedited save may change. The constant `Json` is what a page
may hold: the values `JSON.parse` can give, closed under taking fields and items.
`Imports` are files that the page can show and send: `IsBank` says that it can list
the programs of a bank (`bank.programs.forEach`, `b.programs.length`). On any other
file the script stops with an exception (see section 7).

### InputManager

One unit of time is one poll interval. A pass (`StartPass`, then `PollButton`
for each button) reads the clock once, as `poll_task` does; `PollButton` is the
whole loop body: sample, debounce, confirm, short press, long press. An event
starts a callback, which may last up to `MaxBlock` units in which pins move and
nothing is sampled; then `CallbackReturns` and the rest of the pass uses the
old time. `episode` is history: what a switch really did; `seen` is what its samples say, each
press being over when a whole window of them was up.

### WsClients

A critical section under `clients_mutex` is one action. What the code does
after giving the mutex back - sending a role - is an action of its own
(`SendRole`, `LoseRole`), so other tasks run in between; `outbox` holds the
message a task is about to send. The httpd task is sequential: `busy` says
what it is in the middle of. Sessions and socket numbers belong to
`esp_http_server`: a number is used again once it was closed, which matters
since the entries of dead clients linger until a broadcast or a close finds
them. `Publish` is the end of `web_server_start`: the routes have been served
a little earlier. `FrameNotMade` is a snapshot without memory for its text.

### ConfigStore and DurableConfig

The boot and the POST handler run one after the other, so there is one program
counter `step`. `Mount`, `LoadConfig` and `RestoreDefaults` are
`config_store_init`; `PostConfig` is `config_store_from_json`; `OpenTmp`,
`WriteTmp`, `RenameTmp` and the two failures are `save_config` and
`write_file_atomic`, shared by both callers as in the code; `Announce` is the
end of `config_post_handler`. `PowerLoss` may come after any step; a file that
was being written may then hold anything. A document is what it decodes to, or
one of the kinds that decode to nothing. `DurableConfig` has a register
`stored` and a working copy `live`; the mapping is `stored <- Decode(file)`
(what the next boot comes up with), `live <- ram`.

`excused` marks the two ways in which the code has no answer to a lack of
memory or storage (a document encoded without some of its banks, a file that
could not be read and was replaced); `SavedIsDurable` does not speak about
them, and the run `config_boot` shows what they cost.

### WifiManager

`ctl` is the program counter of `controller_task`; each call into the driver is
a step, so events and requests come in between. The driver is external: `mode`,
`started`, `link` and a queue `events`, which the event loop works off some time
later (`OnStaStart`, `OnDisconnected`, `OnGotIp`). `SaveSsid` and `SavePass` are
the two NVS writes of `wifi_manager_set_sta_credentials`; a power loss may come
in between, `deferred_restart_task` may not, as `httpd_stop` waits for the
request. Time is abstract: the 20 s wait may end at any moment after the first
event of the boot has been handled. `losses` is history: connections that
failed or were lost since the last success.

## 4. The runs

Distinct states and times are for two workers.

| Run | Checks | Instance |
|---|---|---|
| `state_machine` | types, `BanksInRange`, `ShownIsCurrent`, `LedTellsWhatSounds`, `AltWhereItBelongs`, `BrowseDeadline`, `BrowseTiming`, `NoEarlyTimeout`, `BankChangeIsHeard`, and `BrowseEnds` under fairness | 2 slots, up to 3 banks, 3 configurations, clock modulo 5, ticks up to 2 late: 651,000 states, 70 s |
| `alt_history` | `AltMatchesPresses` | 3 slots (permanent, one-time, none), 2 banks, 6 recorded presses: 130,000 states |
| `dispatch` | types, `ToldTheTruth`, `ResyncRepairs`, `ResyncEndsOverruns` | 2 slots, 2 banks, 2 configurations, one event of the input and one of the httpd task, any number of ticks, clock modulo 3, frames that cannot be made: 8.2 million states, 110 s |
| `input` | types, `PressesAreReportedOnce`, `LongMeansHeld`, `EveryPressCountsOnce` | 2 buttons, thresholds 3 and 0, 2 samples to confirm, clock modulo 5, callbacks up to 2 units: 3.4 million states |
| `editors` | types, `PagesFollow`, `RoundTrip`, `SoundsLikeMidi`, `OnlyRevertLosesTheBank` | 2 symmetrical pages, up to 2 banks with one program and room for one message, 2 inputs or failures in all, a name that is cut in the middle of a character: 923,000 states, 130 s |
| `ws_clients` | types, `ExactlyOneWriter`, `NoDoubleEntry`, `WriterKeepsRole` | 2 table slots, 3 sockets, the 3 tasks of the firmware: 289,000 states |
| `config_store` | types, `SavedIsDurable`, `AnnouncedIsStored`, `RefinesDurableConfig` | 3 configurations: the defaults, a small one, an oversize one: 50,000 states |
| `wifi` | types, `StatusIsTrue`, `FullRound`, `BootComesUp` under fairness | 2 networks, 2 passwords, one pair that cannot be read back, 2 tries: 18,000 states |
| `editors_saved`, `ws_roles`, `config_boot`, `wifi_gives_up` | one statement of a document or a comment each, found violated; see section 7 | as above |

Why these bounds are enough:

- *Slots and banks.* The handlers treat all slots alike except the current and
  the pressed one, and all banks except the current, the target and the ones at
  the wrap-around; two slots (three for the alternatives, one of each kind) and
  three banks give every relation between them. The configurations differ in
  what the properties can tell apart: bank count (3, 2, 1, so that a change
  leaves indices out of range), timeout (2, disabled, 1), permanent, one-time,
  missing and empty programs. Banks that share a program occur.
- *Clock.* 2^32 is replaced by `ClockModulus`. The code compares only
  differences, and `TimeoutAssumption` states what is needed: no timeout is so
  long that the clock comes around before a tick can see it. With 5 and a
  timeout of 2, every combination of start and wrap occurs. `MaxIdle` caps the
  history variable above every timeout.
- *Input.* A threshold of 0 is a value the configuration accepts; 3 exceeds the
  debounce window and a blocked callback of 2. `MaxHeld` caps history above the
  larger threshold. `DEBOUNCE_SAMPLES` is 2, as in the code.
- *Clients.* More sockets than slots, so that clients are refused and numbers
  come back; the theorems say the same for any number.
- *Tries.* 2 stand for 5: the handler only compares with the limit, and a round
  of two has a first, a last and a further attempt. Two networks and passwords
  give matching, mismatched and half-replaced pairs.
- *Presses.* `MaxPresses = 6` lets each of three slots be toggled on, left
  and visited again; the cache has three bits and the handler reads nothing
  else, so all its states are reached well before the bound.

- *Tasks.* One event of the input task and one of the httpd task, from every state
  that earlier presses may have left (browsing or not, an alternative on or not),
  with ticks in between: every pair of handlers overlaps, and a third, the tick,
  with both. The handlers are the same in both tasks, so the httpd task gets one
  press of each kind that stores a bank or a slot, and the POST and the browser that
  joins, which no other task has. The second configuration has fewer banks, no alternative and empty
  lists, so that every index and every count can be left behind. `DispatchProofs`
  removes these bounds for all four properties.
- *Pages.* Two pages, exchangeable (`SYMMETRY`; no liveness is checked there).
  `TypedBanks` and `Imports` have what the decoder tells apart: an emptied number,
  numbers and a channel out of range, a message and a program too many, a name
  too long, odd global settings. `Texts` has a name that is too long, what is left of
  it, what the browser reads, and what is left of that. `MaxEvents = 2` (inputs, failures and restarts)
  allows an edit and a failure, or two edits of two pages. `MaxLoads = 2` lets two snapshots overtake each
  other; `MaxPosts = 1` since a page disables its button until an answer arrives or
  another edit is made. `EditorsProofs` removes these bounds for all five properties:
  any number of pages, loads, posts, banks, documents and events.

Deadlock is checked in every run but `editors` and `editors_saved`, where the
bound on events lets the pages come to rest, as they do when nobody touches them.

## 5. Fairness

`FairSpec` of `StateMachine` assumes weak fairness of `AdvanceClock` and of
`Tick`. Time passes, and the tick task is a FreeRTOS task of priority 4 in a
`while (true)` with a 200 ms delay. Nothing is assumed about players,
browsers, or the resync (a failed save means it never comes).

`FairSpec` of `WifiManager` assumes weak fairness of the controller task, whose
only wait has a timeout, and of the event loop. Nothing is assumed about the
driver, the network, the users or the power.

## 6. What is proved

All theorems hold for every value of the constants that satisfies the named
assumptions of the modules (`SizesAssumption`, `ConfigsAssumption`,
`TimeoutAssumption`, `InputAssumption`, `DispatchAssumption`, `CodecAssumption`,
`JsonAssumption`, `EditorsAssumption`, `ClientsAssumption`, `StoreAssumption`,
`WifiAssumption`); TLC evaluates these on its instances. Every invariant and every
action property of a passing run is stated by a theorem.

**StateMachineProofs**: for any number of slots and banks, any set of
configurations and any width of the clock:
`TypeCorrect`, `BanksStayInRange`, `NothingUnannounced`,
`AltStaysWhereItBelongs`, `LedsTellTheTruth`, `BrowseTimingHolds`,
`BrowseDeadlineHolds`, `TickIsNeverEarly`, `BankChangesAreHeard`. Types come
first (`MachineTypeOK`, then the snapshot); the other invariants are each
inductive relative to the types and, where needed, to `BanksInRange`.
The exception is time. `BrowseDeadline` says that browse mode has been idle for
less than timeout plus gap, and is not inductive: nothing in it relates the
clock, the start of the window and the last tick. `BrowseTiming` is the
strengthening: the wrapped difference is the real idle time (as long as less
than one revolution of the clock has passed, which `TimeoutAssumption` grants
for long enough), and the last tick, `tick_age` ago, saw either no window or an
open one. `BrowseDeadline` follows from it with `tick_age <= TickGap`,
`NoEarlyTimeout` from its first part.

**AltHistoryProofs**: for any number of slots, banks and recorded presses.
`HistoryIsTheMachine` says that recording the presses adds nothing: every step of
`HistoryNext` is one of `Next`, so what is proved of `StateMachine` holds with the
record as well. `CacheMatchesHistory` is `AltMatchesPresses`. The reference counts
toggles in the whole record, so the proof is about what one more press does to that
count: nothing for a slot that was not current (`AppendElsewhere`), the end of a
one-time count when the slot is left (`AppendLeaving`), one more when it is pressed
again (`AppendAgain`).

**DispatchProofs**: for any configurations, any number of slots, banks and events,
any width of the clock: `TypeCorrect`, `OverrunsEnd`, `BanksRepaired`,
`BrowsersToldTheTruth`.
The inductive invariant `Inv` says at each label of each task which event it is
handling and what its registers hold (`OpOK`, `RegOK`). `ResyncEndsOverruns`
is part of `Inv`: while it holds the configuration is not being copied, so the count
that was loaded before the call is still that of the list; and when an undisturbed
resync is over, no task is in the middle of a list (`ResyncInv`).
`SyncedInv`: after an undisturbed resync the banks exist, those in the registers
of every handler included; `ResyncInv`: during one the others are at rest and the
banks are being brought in range. `StoreStep` proves once and for all that a store
of one task keeps `Inv` if it is `Sound`; one lemma per handler shows that its
stores are. `TypeOK` without the registers is not inductive: a bank loaded before
a configuration change is stored after it.
`ToldTheTruth` speaks of the moment when everybody is at rest; `TruthInv` says what
leads there. A handler that has made its first store and not yet called
`state_changed` has *news to come* (`Announces`), and so has the httpd task between
its first store into the configuration and the snapshot of its resync (`NewsToCome`).
While no news is to come, each snapshot under way is the state (`Fresh`), or was
overtaken by one already sent, or is `Superseded`: another task has taken a later one
and still has to send it. And unless somebody has a snapshot under way, the last one
sent is the state or was itself overtaken.

**InputManagerProofs**: for any number of buttons, thresholds below the range of
the clock, debounce windows and blocking times: `TypeCorrect`,
`PressesReported`, `LongPressesAreLong`, `PressesCountOnce`. Whether a press has
been reported depends on where the pass is, so the invariant `InputInv` speaks
about each button relative to the loop (`Done(b)`: sampled in this unit of time).
`Follows` and `InPhase` relate the samples counted by the code to those the switch
has really had; `HeldSoFar` says that the wrapped difference of times is the time
held and has not yet exceeded the threshold unless the long press was reported;
`Reported` says that a switch confirmed to be up has reported its press; `Observed`
says the same of the samples alone, for switches that a blocked callback has
disturbed as well, and relates the code's flag to what was reported.

**EditorsProofs**, first about `Codec`: `WireBytesAreMidi`, for every message the
structure can hold; `ConfigRoundTrip`: every configuration is decoded from its own
JSON without a change, for any number of banks, programs and messages, with one
round-trip lemma per encoder; the banks that are kept are counted by a bijection with
the positions in the document (`OriginIsKept`), here the identity. A second family of
lemmas types the decoders: whatever `JSON.parse` may deliver, what is decoded is a
message, list, slot, bank, global setting, configuration (`MessageTyped` to
`ConfigTyped`, `DefaultsTyped`). `UneditedSaveChangesOnlyNames` is about the page:
a configuration that is encoded, read by the browser (`AsRead`), rendered (a user
function becomes a list), padded to the page's number of programs and decoded is
itself with every name cut once more, for any number of programs the page pads to;
`PaddedDoc` is the part about the padding.

Then about `Editors`, for any number of pages, loads, posts and documents:
`TypeCorrect`, `PagesFollowTheDevice`, `EncodingIsLossless`, `AlwaysMidi`,
`SelectionIsKept`. The inductive invariant is `IInv`:

- `TypeInv`: the types of the device's variables, and of what the pages hold and
  send. A document is not a member of a set, since pages put arbitrary parts together;
  it is good (`GoodDoc`, `GoodBank`, `GoodSlot`) if each part decodes to something of
  its type whenever the decoder accepts it. Edits, padding, imports and reverts keep
  documents good, and a POST of a good one leaves a configuration.
- `DataInv`: a page whose Revert button is off holds exactly what rendering its
  baseline gives.
- `FollowInv`: `PagesFollow` speaks only of idle pages, and is not inductive. A page
  that has missed nothing has the device's configuration as its baseline, or a request
  or a notice is still on its way (`Coming`), or a snapshot is; and of the snapshots
  under way that have missed nothing, the one taken *last* is the device's
  configuration unless something is coming.

With `UneditedSaveChangesOnlyNames`, `DataInv` and `FollowInv` give `PagesFollow`;
`ConfigRoundTrip` gives `RoundTrip`, and `WireBytesAreMidi` with the types of all that
a press can send (`Sendable`) gives `SoundsLikeMidi`.

**WsClientsProofs**: for any number of table slots, sockets and broadcasting
tasks: `OneWriter`, `SocketsOnce`, `WriterStays`, `TypeCorrect`. The inductive
invariant is `Good(clients)`: the table is well typed, has exactly one writer
if it has clients, and no double entries. Every critical section is shown to
map a good table to a good table in which writers kept their role or left
(`TableStep`); that the lowest entry exists is taken from well-founded
induction on the naturals.

**ConfigStoreProofs**: for any configurations, any that are oversize, any that
a lack of memory mutilates: `TypeCorrect`, `NothingSavedIsLost`,
`OnlyStoredIsAnnounced`, `StoreIsADurableRegister`. The inductive invariant
`StoreInv` adds to types and `SavedIsDurable`: during a save the temporary file
holds the document in `data`, which is the encoding of `ram` or what a lack of
memory left of it (`SaveInv`); `synced` and the steps agree (`SyncInv`); and
unless excused, `ram` is the acknowledged configuration or one posted since,
and a state machine in sync has what is in the file (`HistoryInv`). `StoreIsADurableRegister` is the refinement:
initial states map to initial states, each step to a step or a stutter of
`DurableConfig`.

**WifiManagerProofs**: for any networks, passwords and number of tries:
`TypeCorrect`, `StatusTrue` and `RoundIsFull`. The inductive invariant `StatusInv`
says what the controller has done when it is where it is (`ControllerInv`), and that
the bit it waits for is set only after the address was stored, which only the
access point replaces (`AddressInv`). `RoundIsFull` counts failures that the event
loop has not yet seen. Its invariant `QueueInv` says what the queue may hold for each
state of the radio: never more than what has happened to one attempt, because only a
handler makes the next; and while nothing is queued that renews the budget, all
attempts but the one under way have failed since the last success.

**Only model-checked**: the two liveness properties, `BrowseEnds` and `BootComesUp`
(liveness under fairness is beyond the prover). The four runs that expect a violation
show one by a counterexample; there is nothing to prove.

## 7. Where the code and its documents disagree

Shown by a run:

- `editors_saved`: a number field that is emptied is sent as `null`; the decoder
  drops the whole bank, the later ones move up (`config_store.c:340-343`), and the
  device answers `{"saved":true}`. `config_store.h:37-39` says "Replace the
  in-memory config from a JSON string" and reserves only a parse failure.
- `ws_roles`: a role decided under the mutex is sent after it; a promotion by
  another task in between is contradicted, and the writer's page says visitor.
- `config_boot`: a boot finds a valid configuration of the user's, fails to read it
  (a lack of memory, a short read) and writes the defaults over it. A file longer than
  64 KB, which saving does not limit, has the same fate. `config_store.h:16-18` allows
  this for missing and corrupt files only.
- `wifi_gives_up`: a network that is lost at run time for more than five attempts
  leaves the device without station and without access point; the log says
  "falling back to AP", but the task that would do it ended at boot.

Observed while modelling, without a run of their own:

- After boot `current_slot` is 0, so the first press of program 1 counts as
  "pressed again" and sends the alternative; `midi_footswitch_spec.md:146-149`
  describes the primary. The host tests agree with the code, and so does the
  reference of `AltHistory`.
- While a callback blocks the polling task, a switch that is released and pressed
  again counts as held, and a long press is reported. `LongMeansHeld` and
  `PressesAreReportedOnce` excuse such a switch (`disturbed`).
- What the missing lock allows. TLC shows each of these in `MCDispatch` within seconds
  when the exception named here is left out of the property, or the claim is added:
  - a snapshot that was taken before another one is sent after it, and stays on all
    pages, although `main.c:19-20` promises live state changes (`ToldTheTruth` without
    `~overtaken`);
  - a handler that overlaps a resync stores a bank it loaded before: the machine is
    left in a bank beyond `bank_count`, although `state_machine.h:69-70` says that a
    resync clamps it (`ResyncRepairs` without `~raced`, with `synced`);
  - a tick that has read the clock before a bank step stores its window computes a
    difference that underflows, and cancels the navigation that has just begun
    (`midi_footswitch_spec.md:126`);
  - a press commits a target that a step of another task has just left, or a tick
    stores a `current_bank` that a commit has just changed: browse mode is on although
    nobody left the current bank (`midi_footswitch_spec.md:117-125`);
  - a list that is replaced while it is sent may be read beyond its new end, a read
    during a change that `config_store.h:8-10` forbids to the callers
    (`ResyncEndsOverruns` says when this is over);
  - two presses at once may leave LEDs that show another program than the one that
    sounds.
- A POST whose save failed has replaced the configuration in RAM and returns without
  the resync that `state_machine.h:66-69` asks for "after the config changes"; the
  machine rests in a bank that may not exist (`Dispatch!SaveReturns`).
- When memory is short a document without some of its banks or programs is sent to a
  page as the configuration, or saved and answered `{"saved":true}`
  (`config_store.c:179, 324`); a page that saves such a document unedited makes it the
  configuration. A frame with the state may not be made at all (`web_server.c:602`).
- A name that is cut in the middle of a character (`config_store.c:131`) changes when
  the document is saved unedited.
- A page does not load again when its websocket reconnects (`index.html:403-406`
  reacts to `config_changed` only), nor on a notice that comes before its first
  load; a POST whose save failed tells no page; the load that follows a page's own
  save overwrites what was typed meanwhile. `missed` marks the first three.
- An import that fails while the page is drawn (a bank without a list of programs)
  has replaced `configData` already (`index.html:917-919`), while the buttons still
  speak of the document before it. `Editors` leaves such files out.
- Numbers and channels out of range are kept as they are, shown on the page,
  and masked only on the wire; messages beyond the eighth are cut without a word.
- `config.h:110-111` speaks of one empty bank as the factory default;
  `config_init_defaults` makes two, one with a demonstration program. The comment
  at `state_machine.c:14-19` says that a change of slot clears the whole
  alternative cache in one mode; the code clears the entry that is left.

## 8. What is not modelled

- The long-press thresholds are copied to the input manager once, at boot
  (`main.c:194`): `Threshold` is a constant, there is no later step to model.
- The length of Wi-Fi names and passwords (`apply_sta_config` cuts them to 31 and
  63 bytes, `wifi_manager.c:124`): the constants `Accepted` and `Unreadable` stand
  for the effect.
- The text of the JSON (cJSON's parser and printer) and the floating-point value
  of the smoothing factor: `Codec` starts from the tree cJSON holds.
- In `Dispatch` the tap, which only reads one message, and the LEDs of a snapshot,
  which follow from its other fields. A torn `memset` or a torn copy of a single
  bank: each is one store.
- In `Editors` single inputs within a bank (a bank becomes any one of
  `TypedBanks`), files that the page cannot draw, and the drawing of the page, its Play
  and WiFi tabs, exports. Of what a lack of memory may leave out of an encoding, only
  banks and programs: names, targets, lists and members of messages and of the global
  settings can be lost in the same way, and a document without `banks`, `global` or
  `programs` stops the page's script half-way.
- The status and scan handlers and static files: they only read.
- GPIO, UART and socket set-up, mDNS, logging, the board's pin tables, errors of
  the initialisation that abort the boot: no state the properties are about.
- LCD, rotary encoder, expression pedals and LED drivers appear in
  `midi_footswitch_spec.md` and not in the code.

## 9. The plan

Done: all of the above. What would add most from here:

1. The import that fails halfway in `Editors`: a document that is neither the baseline
   nor an edit, which `PagesFollow` and its invariant would have to speak about.
2. A larger `Dispatch` run: two events per task, on a machine that can hold some
   hundred million states. The theorems cover it; the run would show that no
   interesting case needs more than the present bounds.
3. The WiFi tab and the Play tab of the page, as far as they keep state.
4. If the firmware gets the lock that `config_store.h:8-10` announces: `Dispatch`
   with a critical section per handler, shown to implement `StateMachine`.
