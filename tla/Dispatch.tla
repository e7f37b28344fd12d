------------------------------- MODULE Dispatch -------------------------------
(***************************************************************************)
(* Three tasks in the state machine at once.  The input task (priority 6), *)
(* the httpd task (5) and the tick task (4) all call                       *)
(* state_machine_dispatch, and the httpd task also overwrites the shared   *)
(* configuration and calls state_machine_resync; there is no lock, and the *)
(* chip has two cores.  StateMachine takes every event as one action; here *)
(* an event is the sequence of loads and stores the code makes, and the    *)
(* steps of the tasks interleave.                                          *)
(*                                                                         *)
(* The build keeps what it has loaded in registers until it next calls     *)
(* through a pointer (now_ms, send_midi, state_changed), and stores in     *)
(* program order.  A memset is one store, and so is each member of the     *)
(* configuration when it is copied.  A step that ends a handler is merged  *)
(* into the last access before it.                                         *)
(*                                                                         *)
(* Left out: the tap, which only reads one message, and what the LEDs of a *)
(* snapshot add to its other fields.                                       *)
(*                                                                         *)
(* EmitOneMore, EarlyReturn, BeyondByOne and StepPastTheEnd are mistaken    *)
(* versions of what follows them, to try the properties against.           *)
(***************************************************************************)
EXTENDS Integers, Sequences, TLC

CONSTANTS
    PROGRAMS_PER_BANK, MAX_BANKS, Message, Configs, ClockModulus, TickGap,
    Input, Httpd, TickTask,
    Presses,            \* the footswitch events each of the two tasks sees
    FramesFail,         \* may memory run out while a frame is made?
    MaxInputs, MaxRequests  \* bounds: events of the input and the httpd task

Task == {Input, Httpd, TickTask}

VARIABLES
    cfg,                \* the shared config_t
    synced,             \* FALSE from a change of cfg until its resync is over
    sm,                 \* the shared state_machine_t
    now, tick_age,      \* as in StateMachine
    shown,              \* the snapshot that was broadcast last
    frame,              \* what each task is at, and its registers
    events,             \* how many each task has begun, for the bound
    \* History, for the properties only:
    overtaken,          \* a snapshot later than shown was sent before it, or not
                        \* at all, or a frame was sent that lacks fields
    raced               \* another handler overlapped the last resync

vars == <<cfg, synced, sm, now, tick_age, shown, frame, events, overtaken, raced>>

(* The types and the pure operators of StateMachine, on this memory. *)
Live == INSTANCE StateMachine
    WITH current_bank <- sm.current_bank, target_bank <- sm.target_bank,
         current_slot <- sm.current_slot, alt_active <- sm.alt_active,
         tuner_on <- sm.tuner_on, browse_started_ms <- sm.browse_started_ms,
         sent <- <<>>, sounding <- <<>>, idle <- 0, MaxIdle <- ClockModulus

Slot == 0 .. PROGRAMS_PER_BANK - 1
Bank == 0 .. MAX_BANKS - 1

ASSUME DispatchAssumption ==
    /\ PROGRAMS_PER_BANK \in Nat \ {0} /\ MAX_BANKS \in Nat \ {0}
    /\ ClockModulus \in Nat \ {0} /\ TickGap \in Nat
    /\ MaxInputs \in Nat /\ MaxRequests \in Nat /\ FramesFail \in BOOLEAN
    /\ Input # Httpd /\ Input # TickTask /\ Httpd # TickTask
    /\ Configs \subseteq Live!Config
    /\ \A t \in {Input, Httpd} : Presses[t] \subseteq
            [kind : {"step"}, delta : {-1, 1}]
            \cup [kind : {"press"}, slot : Slot]
            \cup [kind : {"user"}, which : {"user_function_a", "user_function_b"}]
            \cup [kind : {"tuner"}]
    /\ \A c \in Configs : c.bank_count > 0 /\ c.browse_timeout_ms + TickGap < ClockModulus

(* state_machine_t *)
Machine ==
    [current_bank : Bank, target_bank : Bank, current_slot : Slot,
     alt_active : [Slot -> BOOLEAN], tuner_on : BOOLEAN,
     browse_started_ms : Live!Millis]

-------------------------------------------------------------------------------
(* Tasks *)

Idle == [at |-> "idle"]
Saving == [at |-> "saving"]     \* in config_store_save: touches nothing here
Null == [empty |-> TRUE]        \* no registers in use

At(t, label) == frame[t].at = label

Resting(t) == At(t, "idle") \/ At(t, "saving")

(* A step of a task: it stores in the machine, and goes on at a label with *)
(* some registers.                                                          *)
Store(t, machine, label, registers) ==
    /\ sm' = machine
    /\ frame' = [frame EXCEPT ![t].at = label, ![t].reg = registers]
    /\ UNCHANGED <<cfg, synced, now, tick_age, shown, events, overtaken, raced>>

Load(t, label, registers) == Store(t, sm, label, registers)

Return(t) ==
    /\ frame' = [frame EXCEPT ![t] = Idle]
    /\ UNCHANGED <<cfg, synced, sm, now, tick_age, shown, events, overtaken, raced>>

Enter(t, op, registers) ==
    frame' = [frame EXCEPT ![t] =
        [op |-> op, at |-> op.kind, reg |-> registers]]

Resyncing == ~Resting(Httpd) /\ frame[Httpd].op.kind = "resync"

-------------------------------------------------------------------------------
(* The callbacks *)

ListAt(list) ==
    IF list.kind = "user" THEN cfg[list.which]
    ELSE Live!Payload(Live!SlotAt(list.bank, list.slot), list.alt)

(* A list that is being sent: its address and the index of the next message. *)
Emission(list) == [list |-> list, i |-> 1]

SlotList(bank, slot, alt) ==
    Emission([kind |-> "slot", bank |-> bank, slot |-> slot, alt |-> alt])

EmitOneMore(reg) == reg.i <= Len(ListAt(reg.list)) + 1

InList(reg) == reg.i <= Len(ListAt(reg.list))

EarlyReturn(t) ==
    frame[t].op.kind = "user" \/ (frame[t].op.kind = "press" /\ frame[t].reg.i = 1)

SendsOnly(t) == frame[t].op.kind = "user"

(* emit_message_list loads the count before every message; send_midi loads  *)
(* the message where the pointer says.                                      *)
Emit(t) ==
    LET reg == frame[t].reg
    IN  \/ At(t, "emit") /\ InList(reg) /\ Load(t, "send", reg)
        \/ At(t, "emit") /\ ~InList(reg) /\ ~SendsOnly(t) /\ Load(t, "notify", Null)
        \/ At(t, "emit") /\ ~InList(reg) /\ SendsOnly(t) /\ Return(t)

SendMidi(t) ==
    /\ At(t, "send")
    /\ Load(t, "emit", [frame[t].reg EXCEPT !.i = @ + 1])

(* state_changed: web_server_broadcast_state takes a snapshot, bank first,  *)
(* and sends it once it gets clients_mutex.  The code reads the fields one  *)
(* by one; here the bank is read in one step and the others in a second.    *)
(* More steps would only mix more states, and a field changes only in a     *)
(* handler that announces it later.  earlier is the tasks that had begun    *)
(* their snapshots before and are not done: if they send them after this    *)
(* one they are overtaken.                                                  *)
InSnapshot(t) == At(t, "snapshot") \/ At(t, "broadcast")

SnapshotOf(bank) ==
    LET slot == Live!SlotAt(bank, sm.current_slot)
    IN  [current_bank |-> bank, target_bank |-> sm.target_bank,
         current_slot |-> sm.current_slot,
         alt |-> sm.alt_active[sm.current_slot] /\ slot.has_alternative,
         empty |-> slot.primary = <<>>, tuner_on |-> sm.tuner_on]

Notify(t) ==
    LET reg == frame[t].reg
    IN  \/ /\ At(t, "notify")
           /\ Load(t, "snapshot",
                [bank |-> sm.current_bank, overtaken |-> FALSE,
                 earlier |-> {u \in Task \ {t} : InSnapshot(u)}])
        \/ /\ At(t, "snapshot")
           /\ Load(t, "broadcast",
                [snapshot |-> SnapshotOf(reg.bank), overtaken |-> reg.overtaken,
                 earlier |-> reg.earlier])

(* The last step of web_server_broadcast_state, with or without a frame. *)
LeaveSnapshot(t) ==
    LET reg == frame[t].reg
        rest(u) == IF InSnapshot(u)
                   THEN [frame[u] EXCEPT !.reg.overtaken = @ \/ u \in reg.earlier,
                                         !.reg.earlier = @ \ {t}]
                   ELSE frame[u]
    IN  /\ At(t, "broadcast")
        /\ synced' = (synced \/ frame[t].op.kind = "resync")
        /\ frame' = [u \in Task |-> IF u = t THEN Idle ELSE rest(u)]
        /\ UNCHANGED <<cfg, sm, now, tick_age, events, raced>>

Broadcast(t) ==
    /\ LeaveSnapshot(t)
    /\ shown' = frame[t].reg.snapshot
    /\ overtaken' = frame[t].reg.overtaken

(* No memory for the text of the frame: nothing is sent, and nobody told.    *)
(* Or none for some fields of it: what is sent then is no snapshot.         *)
FrameNotMade(t) ==
    /\ FramesFail
    /\ LeaveSnapshot(t)
    /\ overtaken' \in {overtaken \/ ~frame[t].reg.overtaken, TRUE}
    /\ UNCHANGED shown

Callbacks(t) ==
    Emit(t) \/ SendMidi(t) \/ Notify(t) \/ Broadcast(t) \/ FrameNotMade(t)

-------------------------------------------------------------------------------
(* The events of the input and httpd tasks *)

(* What a handler loads first. *)
FirstLoad(op) ==
    CASE op.kind = "step"  -> [count |-> cfg.bank_count]
      [] op.kind = "press" -> [target |-> sm.target_bank]
      [] op.kind = "tuner" -> [tuner |-> ~sm.tuner_on]
      [] op.kind \in {"user", "notify"} -> Null
      [] op.kind = "post"  -> [copied |-> 0]

Bound(t) == IF t = Input THEN MaxInputs ELSE MaxRequests

Begin(t, op) ==
    /\ At(t, "idle")
    /\ events[t] < Bound(t)
    /\ events' = [events EXCEPT ![t] = @ + 1]
    /\ Enter(t, op, FirstLoad(op))
    /\ raced' = (raced \/ Resyncing)
    /\ UNCHANGED <<cfg, synced, sm, now, tick_age, shown, overtaken>>

FootswitchEvent(t) == \E op \in Presses[t] : Begin(t, op)

(* A browser joins, and register_client has the state sent to all. *)
Join == Begin(Httpd, [kind |-> "notify"])

StepPastTheEnd(target, delta, count) == (target + delta + count + 1) % (count + 1)

StepTarget(target, delta, count) == (target + delta + count) % count

(* bank_step; bank_count is never 0 here *)
BankStep(t) ==
    LET reg == frame[t].reg
    IN  \/ /\ At(t, "step")
           /\ Load(t, "step current", [was |-> sm.target_bank,
                target |-> StepTarget(sm.target_bank, frame[t].op.delta, reg.count)])
        \/ /\ At(t, "step current")
           /\ Load(t, "step store", [target |-> reg.target,
                browsed |-> reg.was # sm.current_bank,
                browses |-> reg.target # sm.current_bank])
        \/ /\ At(t, "step store")
           /\ LET stepped == [sm EXCEPT !.target_bank = reg.target]
              IN  \/ reg.browses /\ Store(t, stepped, "step clock", Null)
                  \/ ~reg.browses /\ reg.browsed
                        /\ Store(t, stepped, "step window", [window |-> 0])
                  \/ ~reg.browses /\ ~reg.browsed /\ Store(t, stepped, "notify", Null)
        \/ At(t, "step clock") /\ Load(t, "step window", [window |-> now])
        \/ /\ At(t, "step window")
           /\ Store(t, [sm EXCEPT !.browse_started_ms = reg.window], "notify", Null)

(* handle_program_press: in browse mode the bank is committed *)
CommitBank(t) ==
    LET reg == frame[t].reg
        slot == frame[t].op.slot
    IN  \/ /\ At(t, "commit")
           /\ Store(t, [sm EXCEPT !.current_bank = reg.bank], "commit slot", reg)
        \/ /\ At(t, "commit slot")
           /\ Store(t, [sm EXCEPT !.current_slot = slot], "commit alt", reg)
        \/ /\ At(t, "commit alt")
           /\ Store(t, [sm EXCEPT !.alt_active = Live!NoAlternatives,
                                  !.browse_started_ms = 0],
                    "emit", SlotList(reg.bank, slot, FALSE))

(* ... otherwise a different slot is selected ... *)
SelectSlot(t) ==
    LET reg == frame[t].reg
        slot == frame[t].op.slot
        left == Live!SlotAt(reg.bank, reg.leaving)
        drops == left.has_alternative /\ left.alt_persistence = "one_time"
        alt == sm.alt_active[slot] /\ Live!SlotAt(reg.bank, slot).has_alternative
    IN  \/ /\ At(t, "select")
           /\ Store(t, [sm EXCEPT !.alt_active[reg.leaving] = @ /\ ~drops],
                    "select slot", reg)
        \/ /\ At(t, "select slot")
           /\ Store(t, [sm EXCEPT !.current_slot = slot], "select alt", reg)
        \/ /\ At(t, "select alt")
           /\ Store(t, [sm EXCEPT !.alt_active[slot] = alt],
                    "emit", SlotList(reg.bank, slot, alt))

(* ... or the current one pressed again. *)
ToggleAlternative(t) ==
    LET reg == frame[t].reg
        slot == frame[t].op.slot
        toggles == Live!SlotAt(reg.bank, slot).has_alternative
    IN  \/ /\ At(t, "toggle")
           /\ toggles
           /\ Load(t, "toggle store", [bank |-> reg.bank, alt |-> ~sm.alt_active[slot]])
        \/ At(t, "toggle") /\ ~toggles /\ Return(t)
        \/ /\ At(t, "toggle store")
           /\ Store(t, [sm EXCEPT !.alt_active[slot] = reg.alt],
                    "emit", SlotList(reg.bank, slot, reg.alt))

ProgramPress(t) ==
    LET reg == frame[t].reg
    IN  \/ /\ At(t, "press")
           /\ IF reg.target # sm.current_bank
              THEN Load(t, "commit", [bank |-> reg.target])
              ELSE Load(t, "press slot", [bank |-> sm.current_bank])
        \/ /\ At(t, "press slot")
           /\ IF frame[t].op.slot # sm.current_slot
              THEN Load(t, "select", [bank |-> reg.bank, leaving |-> sm.current_slot])
              ELSE Load(t, "toggle", reg)
        \/ CommitBank(t)
        \/ SelectSlot(t)
        \/ ToggleAlternative(t)

(* handle_tap_long and the user functions *)
LongPress(t) ==
    \/ At(t, "tuner") /\ Store(t, [sm EXCEPT !.tuner_on = frame[t].reg.tuner], "notify", Null)
    \/ At(t, "user") /\ Load(t, "emit", Emission(frame[t].op))

Handle(t) == BankStep(t) \/ ProgramPress(t) \/ LongPress(t)

-------------------------------------------------------------------------------
(* The tick task *)

WakeUp ==
    /\ At(TickTask, "idle")
    /\ tick_age > 0             \* it has slept for vTaskDelay
    /\ tick_age' = 0
    /\ Enter(TickTask, [kind |-> "tick"], [target |-> sm.target_bank])
    /\ raced' = (raced \/ Resyncing)
    /\ UNCHANGED <<cfg, synced, sm, now, shown, events, overtaken>>

(* The clock is read before browse_started_ms, and current_bank once more   *)
(* after it.                                                                *)
Tick ==
    LET reg == frame[TickTask].reg
        browsing == reg.target # sm.current_bank /\ cfg.browse_timeout_ms # 0
        expired == Live!UintSub(reg.clock, sm.browse_started_ms) >= reg.timeout
    IN  \/ WakeUp
        \/ /\ At(TickTask, "tick")
           /\ IF browsing
              THEN Load(TickTask, "tick clock", [timeout |-> cfg.browse_timeout_ms])
              ELSE Return(TickTask)
        \/ /\ At(TickTask, "tick clock")
           /\ Load(TickTask, "tick window", [timeout |-> reg.timeout, clock |-> now])
        \/ /\ At(TickTask, "tick window")
           /\ IF expired THEN Load(TickTask, "tick reload", Null) ELSE Return(TickTask)
        \/ /\ At(TickTask, "tick reload")
           /\ Load(TickTask, "tick store", [bank |-> sm.current_bank])
        \/ /\ At(TickTask, "tick store")
           /\ Store(TickTask, [sm EXCEPT !.target_bank = reg.bank], "tick stop", Null)
        \/ /\ At(TickTask, "tick stop")
           /\ Store(TickTask, [sm EXCEPT !.browse_started_ms = 0], "notify", Null)

-------------------------------------------------------------------------------
(* config_post_handler in the httpd task *)

Post == \E new \in Configs : Begin(Httpd, [kind |-> "post", new |-> new])

(* The struct is copied in the order of its fields: the global settings,   *)
(* the banks, and bank_count at the end.                                    *)
Copied(step, new) ==
    IF step = 0 THEN [new EXCEPT !.banks = cfg.banks, !.bank_count = cfg.bank_count]
    ELSE IF step <= MAX_BANKS THEN [cfg EXCEPT !.banks[step - 1] = new.banks[step - 1]]
    ELSE [cfg EXCEPT !.bank_count = new.bank_count]

CopyConfig ==
    LET copied == frame[Httpd].reg.copied
    IN  /\ At(Httpd, "post")
        /\ cfg' = Copied(copied, frame[Httpd].op.new)
        /\ synced' = FALSE
        /\ frame' = IF copied > MAX_BANKS THEN [frame EXCEPT ![Httpd] = Saving]
                    ELSE [frame EXCEPT ![Httpd].reg.copied = @ + 1]
        /\ UNCHANGED <<sm, now, tick_age, shown, events, overtaken, raced>>

(* config_store_save fails and nothing is resynced, or it succeeds. *)
SaveReturns ==
    /\ At(Httpd, "saving")
    /\ \/ frame' = [frame EXCEPT ![Httpd] = Idle] /\ UNCHANGED raced
       \/ /\ Enter(Httpd, [kind |-> "resync"], [bank |-> sm.current_bank])
          /\ raced' = ~(Resting(Input) /\ Resting(TickTask))
    /\ UNCHANGED <<cfg, synced, sm, now, tick_age, shown, events, overtaken>>

BeyondByOne(bank) == bank > cfg.bank_count

BeyondTheBanks(bank) == bank >= cfg.bank_count

(* state_machine_resync: current_bank is stored only when it changes. *)
Resync ==
    LET bank == frame[Httpd].reg.bank
    IN  \/ /\ At(Httpd, "resync")
           /\ IF BeyondTheBanks(bank)
              THEN Store(Httpd, [sm EXCEPT !.current_bank = 0], "resync target", [bank |-> 0])
              ELSE Load(Httpd, "resync target", [bank |-> bank])
        \/ /\ At(Httpd, "resync target")
           /\ Store(Httpd, [sm EXCEPT !.target_bank = bank], "resync alt", Null)
        \/ /\ At(Httpd, "resync alt")
           /\ Store(Httpd, [sm EXCEPT !.alt_active = Live!NoAlternatives,
                                      !.browse_started_ms = 0], "notify", Null)

-------------------------------------------------------------------------------
(* The boot, or that followed by presses that are over: the player may have *)
(* chosen an alternative and be on the way to another bank.                 *)
Init ==
    /\ cfg \in Configs
    /\ synced = TRUE
    /\ sm \in [current_bank : {0}, target_bank : 0 .. cfg.bank_count - 1,
               current_slot : {0}, alt_active : [Slot -> BOOLEAN],
               tuner_on : {FALSE}, browse_started_ms : {0}]
    /\ \A s \in Slot : sm.alt_active[s] => s = 0 /\ cfg.banks[0][0].has_alternative
    /\ now = 0
    /\ tick_age = 0
    /\ shown = SnapshotOf(0)
    /\ frame = [t \in Task |-> Idle]
    /\ events = [t \in {Input, Httpd} |-> 0]
    /\ overtaken = FALSE
    /\ raced = FALSE

(* A millisecond passes, also in the middle of handlers. *)
AdvanceClock ==
    /\ tick_age < TickGap
    /\ tick_age' = tick_age + 1
    /\ now' = (now + 1) % ClockModulus
    /\ UNCHANGED <<cfg, synced, sm, shown, frame, events, overtaken, raced>>

InputStep == FootswitchEvent(Input) \/ Handle(Input) \/ Callbacks(Input)

HttpdStep ==
    \/ FootswitchEvent(Httpd) \/ Handle(Httpd) \/ Callbacks(Httpd)
    \/ Join \/ Post \/ CopyConfig \/ SaveReturns \/ Resync

TickStep == Tick \/ Callbacks(TickTask)

Next == InputStep \/ HttpdStep \/ TickStep \/ AdvanceClock

Spec == Init /\ [][Next]_vars

-------------------------------------------------------------------------------
(* Properties *)

(* Whatever the order of loads and stores, the state machine only ever      *)
(* indexes what is in the arrays.                                           *)
TypeOK ==
    /\ cfg \in Live!Config
    /\ sm \in Machine
    /\ now \in Live!Millis
    /\ tick_age \in 0..TickGap
    /\ shown.current_bank \in Bank /\ shown.current_slot \in Slot
    /\ \A t \in {Input, Httpd} : events[t] \in 0..Bound(t)

(* Once the tasks are at rest and the configuration has been resynced, the  *)
(* browsers have been told what the state is, although another handler may  *)
(* store between the two halves of a snapshot and broadcasts may overtake   *)
(* each other: unless the newest snapshot was sent before an older one, or  *)
(* memory ran out for a frame (main.c:35-43, web_server.c:579-605).         *)
ToldTheTruth ==
    (\A t \in Task : Resting(t)) /\ synced /\ ~overtaken =>
        shown = SnapshotOf(sm.current_bank)

(* Overwriting a list while it is sent may send what lies beyond its end;   *)
(* but not for long: once the change has been resynced with no handler      *)
(* overlapping, and until the next change, no task is about to send a       *)
(* message that is not in its list, not even one whose list was shortened   *)
(* under it before (state_machine.c:31-36, config_store.c:547).             *)
ResyncEndsOverruns ==
    synced /\ ~raced =>
        \A t \in Task : At(t, "send") =>
            frame[t].reg.i <= Len(ListAt(frame[t].reg.list))

(* A resync that no other handler overlaps leaves the state machine in the  *)
(* banks there are, whatever presses and ticks were under way while the     *)
(* configuration was being overwritten and saved (state_machine.c:243-257, *)
(* web_server.c:393-408).                                                   *)
ResyncRepairs == (\A t \in Task : Resting(t)) /\ ~raced => Live!BanksInRange
===============================================================================
