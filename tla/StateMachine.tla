----------------------------- MODULE StateMachine -----------------------------
(***************************************************************************)
(* The footswitch state machine (components/state_machine): bank           *)
(* navigation with browse mode and its timeout, program selection, the     *)
(* per-slot alternative, tap and tuner, and the snapshot the browser and   *)
(* the log read.                                                           *)
(*                                                                         *)
(* One action is one event, handled to its end, as in the host tests.      *)
(* The configuration is shared with the configuration store: a POST first  *)
(* overwrites it (ReplaceConfig) and only later, if the save to flash      *)
(* succeeded, calls state_machine_resync (Resync).  Events of the other    *)
(* tasks come in between, and Resync may never come.                       *)
(*                                                                         *)
(* Definitions named in no action (StepPastTheEnd, NeverDrop, ...) stand    *)
(* before the one they are a mistaken version of: the properties are tried  *)
(* against them.                                                            *)
(*                                                                         *)
(* Data: a MIDI message is a model value, a list of them a sequence, and   *)
(* a configuration a member of Configs.  Names, expression targets,        *)
(* brightness and the expression event (a placeholder, lines 235-239) are  *)
(* left out.                                                               *)
(***************************************************************************)
EXTENDS Integers, Sequences

CONSTANTS
    PROGRAMS_PER_BANK,  \* program slots in a bank (config.h:18-22)
    MAX_BANKS,          \* length of config_t.banks (config.h:24)
    Message,            \* MIDI messages
    Configs,            \* the configurations a user may save
    ClockModulus,       \* the millisecond clock is a uint32_t: 2^32
    TickGap,            \* longest time the tick task goes without a dispatch
    MaxIdle             \* bound of the history variable idle

Bank == 0 .. MAX_BANKS - 1
Slot == 0 .. PROGRAMS_PER_BANK - 1
Millis == 0 .. ClockModulus - 1

ProgramSlot ==
    [primary : Seq(Message), alternative : Seq(Message),
     has_alternative : BOOLEAN, alt_persistence : {"permanent", "one_time"}]

(* banks is total: entries from bank_count on exist and are readable. *)
Config ==
    [bank_count : 0 .. MAX_BANKS, banks : [Bank -> [Slot -> ProgramSlot]],
     browse_timeout_ms : Millis,
     tap_message : Message, tuner_message : Message,
     user_function_a : Seq(Message), user_function_b : Seq(Message)]

ASSUME SizesAssumption ==
    /\ PROGRAMS_PER_BANK \in Nat \ {0}
    /\ MAX_BANKS \in Nat \ {0}
    /\ ClockModulus \in Nat \ {0}
    /\ TickGap \in Nat
    /\ MaxIdle \in Nat

ASSUME ConfigsAssumption == Configs \subseteq Config

(* No timeout is so long that the clock, or the history variable, wraps    *)
(* around before a tick can observe it.                                    *)
ASSUME TimeoutAssumption ==
    \A c \in Configs : /\ c.browse_timeout_ms + TickGap < ClockModulus
                       /\ c.browse_timeout_ms + TickGap < MaxIdle

VARIABLES
    cfg,                \* the shared config_t
    synced,             \* FALSE from a change of cfg until the resync
    current_bank, target_bank, current_slot,
    alt_active,         \* the per-slot alt cache
    tuner_on,
    browse_started_ms,
    now,                \* what now_ms() returns
    tick_age,           \* time since the tick task's last dispatch
    sent,               \* messages the last event passed to send_midi
    shown,              \* snapshot read in the last state_changed callback
    \* History, for the properties only:
    idle,               \* real time since the last bank step, up to MaxIdle
    sounding            \* last non-empty payload sent since the last config change

config_vars == <<cfg, synced>>
bank_vars == <<current_bank, target_bank>>
slot_vars == <<current_slot, alt_active>>
clock_vars == <<now, tick_age, idle>>
vars == <<cfg, synced, current_bank, target_bank, current_slot, alt_active,
          tuner_on, browse_started_ms, now, tick_age, sent, shown, idle,
          sounding>>

-------------------------------------------------------------------------------
(* Reading the state *)

Browsing == target_bank # current_bank

(* uint32_t subtraction *)
UintSub(a, b) == IF a >= b THEN a - b ELSE (a - b) + ClockModulus

SlotAt(bank, slot) == cfg.banks[bank][slot]

Payload(slot, alt) == IF alt THEN slot.alternative ELSE slot.primary

CurrentAltShown ==
    /\ alt_active[current_slot]
    /\ SlotAt(current_bank, current_slot).has_alternative

(* A slot's LED: whether it blinks, and its colour (red, green, blue). *)
SlotLed(i) ==
    [browse |-> Browsing,
     show |-> IF i # current_slot THEN "inactive"
              ELSE IF CurrentAltShown THEN "active_alt" ELSE "active_primary"]

Snapshot ==
    [current_bank |-> current_bank, target_bank |-> target_bank,
     current_slot |-> current_slot, in_browse_mode |-> Browsing,
     current_slot_alt_active |-> CurrentAltShown,
     current_slot_empty |-> SlotAt(current_bank, current_slot).primary = <<>>,
     tuner_on |-> tuner_on,
     slot_leds |-> [i \in Slot |-> SlotLed(i)]]

Led == [browse : BOOLEAN, show : {"inactive", "active_primary", "active_alt"}]

SnapshotType ==
    [current_bank : Bank, target_bank : Bank, current_slot : Slot,
     in_browse_mode : BOOLEAN, current_slot_alt_active : BOOLEAN,
     current_slot_empty : BOOLEAN, tuner_on : BOOLEAN,
     slot_leds : [Slot -> Led]]

MachineTypeOK ==
    /\ cfg \in Configs
    /\ synced \in BOOLEAN
    /\ current_bank \in Bank
    /\ target_bank \in Bank
    /\ current_slot \in Slot
    /\ alt_active \in [Slot -> BOOLEAN]
    /\ tuner_on \in BOOLEAN
    /\ browse_started_ms \in Millis
    /\ now \in Millis
    /\ tick_age \in 0 .. TickGap
    /\ sent \in Seq(Message)
    /\ idle \in 0 .. MaxIdle
    /\ sounding \in Seq(Message)

(* In particular slot_at never indexes outside the arrays, not even between *)
(* a change of the configuration and its resync.                            *)
TypeOK == MachineTypeOK /\ shown \in SnapshotType

-------------------------------------------------------------------------------
(* Callbacks and helpers *)

NotifyBeforeTheChange == shown' = Snapshot

(* state_changed: the web server re-reads the snapshot inside the call. *)
NotifyStateChanged == shown' = Snapshot'

Silent == sent' = <<>> /\ UNCHANGED sounding

EmitAlwaysPrimary(bank, slot, alt) ==
    /\ sent' = SlotAt(bank, slot).primary
    /\ sounding' = IF sent' = <<>> THEN sounding ELSE sent'

EmitFromCurrentBank(bank, slot, alt) ==
    /\ sent' = Payload(SlotAt(current_bank, slot), alt)
    /\ sounding' = IF sent' = <<>> THEN sounding ELSE sent'

(* An empty payload activates the slot and sends nothing. *)
EmitSlotMessages(bank, slot, alt) ==
    LET messages == Payload(SlotAt(bank, slot), alt)
    IN  /\ sent' = messages
        /\ sounding' = IF messages = <<>> THEN sounding ELSE messages

NoAlternatives == [s \in Slot |-> FALSE]

-------------------------------------------------------------------------------
(* Events *)

(* state_machine_create, with the configuration read at boot. *)
Init ==
    /\ cfg \in Configs
    /\ synced = TRUE
    /\ current_bank = 0
    /\ target_bank = 0
    /\ current_slot = 0
    /\ alt_active = NoAlternatives
    /\ tuner_on = FALSE
    /\ browse_started_ms = 0
    /\ now = 0
    /\ tick_age = 0
    /\ sent = <<>>
    /\ shown = Snapshot
    /\ idle = 0
    /\ sounding = <<>>

StepPastTheEnd(delta) ==
    (target_bank + delta + cfg.bank_count + 1) % (cfg.bank_count + 1)

(* Bank navigation wraps around at both ends. *)
StepTarget(delta) == (target_bank + delta + cfg.bank_count) % cfg.bank_count

WindowOfFirstStep(target) ==
    IF target # current_bank /\ ~Browsing THEN now ELSE browse_started_ms

(* The timeout starts again at every step, and stops on the way back. *)
WindowStart(target) ==
    IF target # current_bank THEN now
    ELSE IF Browsing THEN 0 ELSE browse_started_ms

(* Bank Down (-1) or Bank Up (+1), short press. *)
BankStep(delta) ==
    /\ cfg.bank_count # 0
    /\ target_bank' = StepTarget(delta)
    /\ browse_started_ms' = WindowStart(target_bank')
    /\ idle' = 0
    /\ Silent
    /\ UNCHANGED <<config_vars, current_bank, slot_vars, tuner_on, now, tick_age>>
    /\ NotifyStateChanged

(* A program press in browse mode enters the target bank. *)
CommitBank(slot) ==
    /\ Browsing
    /\ current_bank' = target_bank
    /\ current_slot' = slot
    /\ alt_active' = NoAlternatives
    /\ browse_started_ms' = 0
    /\ EmitSlotMessages(target_bank, slot, FALSE)
    /\ UNCHANGED <<config_vars, target_bank, tuner_on, clock_vars>>
    /\ NotifyStateChanged

NeverDrop(slot) ==
    [s \in Slot |->
        alt_active[s] /\ (s = slot => SlotAt(current_bank, slot).has_alternative)]

DropAlways(slot) ==
    [s \in Slot |->
        alt_active[s] /\ s # current_slot
            /\ (s = slot => SlotAt(current_bank, slot).has_alternative)]

(* The cache once current_slot has been left for slot: a one-time           *)
(* alternative is dropped, and so is a cached alternative that the          *)
(* configuration no longer has.                                             *)
AltAfterLeaving(slot) ==
    LET leaving == SlotAt(current_bank, current_slot)
        drops(s) ==
            \/ /\ s = current_slot
               /\ leaving.has_alternative
               /\ leaving.alt_persistence = "one_time"
            \/ s = slot /\ ~SlotAt(current_bank, slot).has_alternative
    IN  [s \in Slot |-> alt_active[s] /\ ~drops(s)]

SelectSlot(slot) ==
    /\ ~Browsing
    /\ slot # current_slot
    /\ current_slot' = slot
    /\ alt_active' = AltAfterLeaving(slot)
    /\ EmitSlotMessages(current_bank, slot, alt_active'[slot])
    /\ UNCHANGED <<config_vars, bank_vars, tuner_on, browse_started_ms, clock_vars>>
    /\ NotifyStateChanged

(* The current slot pressed again; nothing happens without an alternative. *)
ToggleAlternative(slot) ==
    /\ ~Browsing
    /\ slot = current_slot
    /\ SlotAt(current_bank, slot).has_alternative
    /\ alt_active' = [alt_active EXCEPT ![slot] = ~@]
    /\ EmitSlotMessages(current_bank, slot, alt_active'[slot])
    /\ UNCHANGED <<config_vars, bank_vars, current_slot, tuner_on,
                   browse_started_ms, clock_vars>>
    /\ NotifyStateChanged

(* The program footswitches above PROGRAMS_PER_BANK are rejected. *)
ProgramPress(slot) ==
    CommitBank(slot) \/ SelectSlot(slot) \/ ToggleAlternative(slot)

TapShort ==
    /\ sent' = <<cfg.tap_message>>
    /\ UNCHANGED <<config_vars, bank_vars, slot_vars, tuner_on,
                   browse_started_ms, clock_vars, shown, sounding>>

TapLong ==
    /\ tuner_on' = ~tuner_on
    /\ sent' = <<cfg.tuner_message>>
    /\ UNCHANGED <<config_vars, bank_vars, slot_vars, browse_started_ms,
                   clock_vars, sounding>>
    /\ NotifyStateChanged

(* Bank Down or Bank Up held: user function A or B, whatever the mode. *)
BankLong ==
    /\ sent' \in {cfg.user_function_a, cfg.user_function_b}
    /\ UNCHANGED <<config_vars, bank_vars, slot_vars, tuner_on,
                   browse_started_ms, clock_vars, shown, sounding>>

ExpiredOneLate ==
    /\ Browsing
    /\ cfg.browse_timeout_ms # 0
    /\ UintSub(now, browse_started_ms) > cfg.browse_timeout_ms

ExpiredByDeadline ==
    /\ Browsing
    /\ cfg.browse_timeout_ms # 0
    /\ now >= browse_started_ms + cfg.browse_timeout_ms

BrowseExpired ==
    /\ Browsing
    /\ cfg.browse_timeout_ms # 0
    /\ UintSub(now, browse_started_ms) >= cfg.browse_timeout_ms

(* The tick task: browse mode is dropped when it has expired. *)
Tick ==
    /\ IF BrowseExpired
       THEN target_bank' = current_bank /\ browse_started_ms' = 0
       ELSE UNCHANGED <<target_bank, browse_started_ms>>
    /\ tick_age' = 0
    /\ Silent
    /\ UNCHANGED <<config_vars, current_bank, slot_vars, tuner_on, now, idle>>
    /\ IF BrowseExpired THEN NotifyStateChanged ELSE UNCHANGED shown

(* The store overwrites the shared configuration: no callback, and the      *)
(* state machine is not told.                                               *)
ReplaceConfig ==
    /\ cfg' \in Configs
    /\ synced' = FALSE
    /\ sent' = <<>>
    /\ sounding' = <<>>
    /\ UNCHANGED <<bank_vars, slot_vars, tuner_on, browse_started_ms,
                   clock_vars, shown>>

UnclampedBank == current_bank

ClampedBank == IF current_bank >= cfg.bank_count THEN 0 ELSE current_bank

(* Called by the POST handler after a successful save. *)
Resync ==
    /\ ~synced
    /\ synced' = TRUE
    /\ sent' = <<>>
    /\ sounding' = <<>>
    /\ UNCHANGED <<cfg, current_slot, tuner_on, clock_vars>>
    /\ IF cfg.bank_count = 0
       THEN UNCHANGED <<bank_vars, alt_active, browse_started_ms, shown>>
       ELSE /\ current_bank' = ClampedBank
            /\ target_bank' = current_bank'
            /\ alt_active' = NoAlternatives
            /\ browse_started_ms' = 0
            /\ NotifyStateChanged

(* A millisecond passes.  The tick task is never kept waiting longer than   *)
(* TickGap, its 200 ms delay plus its scheduling latency.                   *)
AdvanceClock ==
    /\ tick_age < TickGap
    /\ tick_age' = tick_age + 1
    /\ now' = IF now = ClockModulus - 1 THEN 0 ELSE now + 1
    /\ idle' = IF idle < MaxIdle THEN idle + 1 ELSE idle
    /\ Silent
    /\ UNCHANGED <<config_vars, bank_vars, slot_vars, tuner_on,
                   browse_started_ms, shown>>

Next ==
    \/ BankStep(1)
    \/ BankStep(-1)
    \/ \E slot \in Slot : ProgramPress(slot)
    \/ TapShort
    \/ TapLong
    \/ BankLong
    \/ Tick
    \/ ReplaceConfig
    \/ Resync
    \/ AdvanceClock

Spec == Init /\ [][Next]_vars

(* Time passes and the tick task keeps running; nobody has to press         *)
(* anything and a resync may never come.                                    *)
FairSpec == Spec /\ WF_vars(AdvanceClock) /\ WF_vars(Tick)

-------------------------------------------------------------------------------
(* Properties *)

Coherent == synced /\ cfg.bank_count # 0

(* After a configuration change has been followed by its resync, the        *)
(* current and the target bank are banks of the configuration, whatever     *)
(* was pressed between the two calls (state_machine_resync, bank_step).     *)
BanksInRange ==
    Coherent => current_bank < cfg.bank_count /\ target_bank < cfg.bank_count

(* No handler changes what the snapshot says without a state_changed call:  *)
(* what the browser was last told is what it would read now.                *)
ShownIsCurrent == Coherent => shown = Snapshot

(* The LEDs never announce a program other than the one whose messages were *)
(* the last to be sent: across commits, slot changes, resumed alternatives  *)
(* and one-time alternatives (handle_program_press, state_machine_snapshot).*)
LedTellsWhatSounds ==
    LET displayed == Payload(SlotAt(current_bank, current_slot), CurrentAltShown)
    IN  sounding # <<>> /\ displayed # <<>> => sounding = displayed

(* An alternative is remembered only for a slot that has one, and a         *)
(* one-time alternative only while its slot is the current one: no sequence *)
(* of presses lets it survive a visit to another slot.                      *)
AltWhereItBelongs ==
    Coherent =>
        \A s \in Slot : alt_active[s] =>
            LET slot == SlotAt(current_bank, s)
            IN  /\ slot.has_alternative
                /\ slot.alt_persistence = "one_time" => s = current_slot

(* Browse mode outlives its timeout by less than the longest gap between    *)
(* two ticks: every navigation restarts the window, none of them stops it   *)
(* (bank_step, handle_tick).                                                *)
BrowseDeadline ==
    Coherent /\ Browsing /\ cfg.browse_timeout_ms # 0 =>
        idle < cfg.browse_timeout_ms + TickGap

(* Why the two timing properties hold.  What handle_tick computes from the  *)
(* wrapping clock is the real time since the last bank step, or less if the *)
(* clock wrapped around meanwhile; and when the tick task last looked,      *)
(* tick_age ago, either the present window had not begun or it was open.    *)
BrowseTiming ==
    /\ Browsing /\ idle < MaxIdle =>
          LET elapsed == UintSub(now, browse_started_ms)
          IN  elapsed <= idle /\ (idle < ClockModulus => elapsed = idle)
    /\ Coherent /\ Browsing /\ cfg.browse_timeout_ms # 0 =>
          idle <= tick_age \/ idle - tick_age < cfg.browse_timeout_ms

(* The tick never takes a player out of browse mode before the whole        *)
(* timeout has passed since the last bank step, also when the 32-bit clock  *)
(* wraps in the meantime.                                                   *)
NoEarlyTimeout ==
    [][Tick /\ target_bank' # target_bank =>
            cfg.browse_timeout_ms # 0 /\ idle >= cfg.browse_timeout_ms]_vars

(* The current bank changes in two ways only: a player commits it, and then *)
(* the primary of the pressed slot is what is sent; or the resync after a   *)
(* configuration change falls back to bank 0, and then nothing is sent.     *)
BankChangeIsHeard ==
    [][current_bank' # current_bank =>
          /\ alt_active' = NoAlternatives
          /\ \/ sent' = SlotAt(target_bank, current_slot').primary /\ synced' = synced
             \/ sent' = <<>> /\ synced' /\ ~synced /\ current_bank' = 0]_vars

(* Once the player stops navigating, browse mode ends by itself, unless its *)
(* timeout is disabled.                                                     *)
BrowseEnds ==
    (Browsing /\ idle > 0) ~>
        (~Browsing \/ idle = 0 \/ cfg.browse_timeout_ms = 0)
===============================================================================
