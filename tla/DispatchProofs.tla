---------------------------- MODULE DispatchProofs ----------------------------
(***************************************************************************)
(* What holds of the state machine without a lock, for any configurations, *)
(* any number of slots, banks and events, and any width of the clock.      *)
(***************************************************************************)
EXTENDS Dispatch, TLAPS

LEMMA Sizes ==
    /\ PROGRAMS_PER_BANK \in Nat \ {0} /\ MAX_BANKS \in Nat \ {0}
    /\ ClockModulus \in Nat \ {0} /\ TickGap \in Nat
    /\ MaxInputs \in Nat /\ MaxRequests \in Nat
    /\ 0 \in Slot /\ 0 \in Bank /\ 0 \in Live!Millis
BY DispatchAssumption DEF Slot, Bank, Live!Millis

LEMMA TasksDiffer == Input # Httpd /\ Input # TickTask /\ Httpd # TickTask
BY DispatchAssumption

-------------------------------------------------------------------------------
(* What the tasks hold in their registers *)

List ==
    [kind : {"slot"}, bank : Bank, slot : Slot, alt : BOOLEAN]
    \cup [kind : {"user"}, which : {"user_function_a", "user_function_b"}]

Snapshots ==
    [current_bank : Bank, target_bank : Bank, current_slot : Slot,
     alt : BOOLEAN, empty : BOOLEAN, tuner_on : BOOLEAN]

PressLabel == {"press", "press slot", "commit", "commit slot", "commit alt", "select",
               "select slot", "select alt", "toggle", "toggle store"}
TickLabel == {"tick", "tick clock", "tick window", "tick reload", "tick store", "tick stop"}
ResyncLabel == {"resync", "resync target", "resync alt"}

(* An event, and where its handler may be. *)
OpOK(at, op) ==
    /\ at \notin {"idle", "saving"}
    /\ op.kind = "step" => op.delta \in {-1, 1}
    /\ op.kind = "press" => op.slot \in Slot
    /\ op.kind = "user" =>
          op \in [kind : {"user"}, which : {"user_function_a", "user_function_b"}]
    /\ op.kind = "post" => op.new \in Configs
    /\ at \in {"step", "step current", "step store", "step clock", "step window"} =>
          op.kind = "step"
    /\ at \in PressLabel => op.kind = "press"
    /\ at = "user" => op.kind = "user"
    /\ at = "tuner" => op.kind = "tuner"
    /\ at \in {"emit", "send"} => op.kind \in {"press", "user"}
    /\ at \in TickLabel => op.kind = "tick"
    /\ at \in ResyncLabel => op.kind = "resync"
    /\ at \in {"notify", "snapshot", "broadcast"} => op.kind # "post"
    /\ at = "post" => op.kind = "post"

(* The registers its handler uses there. *)
RegOK(at, reg) ==
    /\ at = "step" => reg.count \in 1 .. MAX_BANKS
    /\ at \in {"step current", "step store", "press"} => reg.target \in Bank
    /\ at = "step window" => reg.window \in Live!Millis
    /\ at \in PressLabel \ {"press"} => reg.bank \in Bank
    /\ at = "select" => reg.leaving \in Slot
    /\ at = "toggle store" => reg.alt \in BOOLEAN
    /\ at = "tuner" => reg.tuner \in BOOLEAN
    /\ at \in {"emit", "send"} => reg \in [list : List, i : Nat]
    /\ at = "snapshot" =>
          reg \in [bank : Bank, overtaken : BOOLEAN, earlier : SUBSET Task]
    /\ at = "broadcast" =>
          reg \in [snapshot : Snapshots, overtaken : BOOLEAN, earlier : SUBSET Task]
    /\ at = "tick store" => reg.bank \in Bank
    /\ at = "post" => reg \in [copied : Nat]
    /\ at \in {"resync", "resync target"} => reg.bank \in Bank

Running(f) ==
    /\ f = [op |-> f.op, at |-> f.at, reg |-> f.reg]
    /\ OpOK(f.at, f.op)
    /\ RegOK(f.at, f.reg)

FrameOK(t) ==
    \/ frame[t] \in {Idle, Saving}
    \/ /\ Running(frame[t])
       /\ frame[t].op.kind \in {"post", "resync"} => t = Httpd

(* Types, strong enough to be inductive. *)
TypeInv ==
    /\ cfg \in Live!Config
    /\ cfg.bank_count > 0
    /\ synced \in BOOLEAN
    /\ raced \in BOOLEAN
    /\ overtaken \in BOOLEAN
    /\ sm \in Machine
    /\ now \in Live!Millis
    /\ tick_age \in 0 .. TickGap
    /\ shown \in Snapshots
    /\ events \in [{Input, Httpd} -> Nat]
    /\ \A t \in {Input, Httpd} : events[t] <= Bound(t)
    /\ frame = [t \in Task |-> frame[t]]
    /\ \A t \in Task : FrameOK(t)

(* Unless the last resync was disturbed, the banks are in range, those in    *)
(* the registers included, from the end of a resync to the next change.     *)
MachineIn(machine) ==
    machine.current_bank < cfg.bank_count /\ machine.target_bank < cfg.bank_count

RegIn(at, reg) ==
    /\ at = "step" => reg.count <= cfg.bank_count
    /\ at \in {"step current", "step store", "press"} => reg.target < cfg.bank_count
    /\ at \in {"commit", "tick store"} => reg.bank < cfg.bank_count

SyncedInv ==
    synced /\ ~raced =>
        /\ MachineIn(sm)
        /\ \A t \in Task : ~Resting(t) => RegIn(frame[t].at, frame[t].reg)

(* During a resync that is not disturbed the others are at rest, and the     *)
(* state machine is being brought into the banks there are.                 *)
ResyncOK(at, reg, machine) ==
    /\ at = "resync" => reg.bank = machine.current_bank
    /\ at = "resync target" =>
          reg.bank = machine.current_bank /\ machine.current_bank < cfg.bank_count
    /\ at \notin {"resync", "resync target"} => MachineIn(machine)

ResyncInv ==
    Resyncing /\ ~raced =>
        /\ Resting(Input) /\ Resting(TickTask)
        /\ ResyncOK(frame[Httpd].at, frame[Httpd].reg, sm)

PhaseInv ==
    /\ At(Httpd, "saving") => ~synced
    /\ Resyncing => ~synced
    /\ frame[Input] # Saving /\ frame[TickTask] # Saving

BanksInv == SyncedInv /\ ResyncInv /\ PhaseInv

Inv == TypeInv /\ ResyncEndsOverruns /\ BanksInv

-------------------------------------------------------------------------------
(* Operators *)

LEMMA SlotTyped ==
    ASSUME TypeInv, NEW bank \in Bank, NEW slot \in Slot
    PROVE  Live!SlotAt(bank, slot) \in Live!ProgramSlot
<1>1. cfg \in Live!Config
    BY DEF TypeInv
<1>2. cfg.banks \in [Bank -> [Slot -> Live!ProgramSlot]]
    BY <1>1 DEF Live!Config, Live!Bank, Live!Slot, Bank, Slot
<1>3. QED
    BY <1>2 DEF Live!SlotAt

LEMMA ListTyped ==
    ASSUME TypeInv, NEW list \in List
    PROVE  ListAt(list) \in Seq(Message)
<1>1. CASE list.kind = "user"
    BY <1>1 DEF ListAt, List, TypeInv, Live!Config
<1>2. CASE list.kind # "user"
    <2>1. list.bank \in Bank /\ list.slot \in Slot
        BY <1>2 DEF List
    <2>2. Live!SlotAt(list.bank, list.slot) \in Live!ProgramSlot
        BY <2>1, SlotTyped
    <2>3. QED
        BY <1>2, <2>2 DEF ListAt, Live!Payload, Live!ProgramSlot
<1>3. QED
    BY <1>1, <1>2

LEMMA MachineFields ==
    ASSUME TypeInv
    PROVE  /\ sm.current_bank \in Bank /\ sm.target_bank \in Bank
           /\ sm.current_slot \in Slot
           /\ sm.alt_active \in [Slot -> BOOLEAN]
           /\ sm.tuner_on \in BOOLEAN
           /\ sm.browse_started_ms \in Live!Millis
BY DEF TypeInv, Machine

LEMMA CountTyped ==
    ASSUME TypeInv
    PROVE  cfg.bank_count \in 1 .. MAX_BANKS /\ cfg.browse_timeout_ms \in Live!Millis
<1>1. cfg.bank_count \in 0 .. MAX_BANKS /\ cfg.bank_count > 0
      /\ cfg.browse_timeout_ms \in Live!Millis
    BY DEF TypeInv, Live!Config
<1>2. QED
    BY <1>1, Sizes

LEMMA SnapshotTyped ==
    ASSUME TypeInv, NEW bank \in Bank
    PROVE  SnapshotOf(bank) \in Snapshots
<1>1. Live!SlotAt(bank, sm.current_slot) \in Live!ProgramSlot
    BY SlotTyped, MachineFields
<1>2. (sm.alt_active[sm.current_slot]
          /\ Live!SlotAt(bank, sm.current_slot).has_alternative) \in BOOLEAN
    OBVIOUS
<1>3. (Live!SlotAt(bank, sm.current_slot).primary = <<>>) \in BOOLEAN
    OBVIOUS
<1>4. QED
    BY <1>2, <1>3, MachineFields DEF SnapshotOf, Snapshots

(* The bank a step leads to. *)
LEMMA StepTyped ==
    ASSUME NEW target \in Bank, NEW delta \in {-1, 1}, NEW count \in 1 .. MAX_BANKS
    PROVE  StepTarget(target, delta, count) \in 0 .. count - 1
<1>1. target + delta + count \in Int /\ count \in Nat \ {0}
    BY Sizes DEF Bank
<1>2. \A a \in Int, n \in Nat \ {0} : a % n \in 0 .. n - 1
    OBVIOUS
<1>3. QED
    BY <1>1, <1>2 DEF StepTarget

-------------------------------------------------------------------------------
(* What a task may rely on, and what a step of it has to establish *)

LEMMA Held ==
    ASSUME Inv, NEW t \in Task, ~Resting(t)
    PROVE  /\ Running(frame[t])
           /\ frame[t].op.kind \in {"post", "resync"} => t = Httpd
           /\ synced /\ ~raced => MachineIn(sm) /\ RegIn(frame[t].at, frame[t].reg)
           /\ frame[t].op.kind = "resync" /\ ~raced =>
                 ResyncOK(frame[t].at, frame[t].reg, sm)
<1>1. FrameOK(t)
    BY DEF Inv, TypeInv
<1>2. frame[t] \notin {Idle, Saving}
    BY DEF Resting, At, Idle, Saving
<1>3. Running(frame[t]) /\ (frame[t].op.kind \in {"post", "resync"} => t = Httpd)
    BY <1>1, <1>2 DEF FrameOK
<1>4. synced /\ ~raced => MachineIn(sm) /\ RegIn(frame[t].at, frame[t].reg)
    BY DEF Inv, BanksInv, SyncedInv
<1>5. frame[t].op.kind = "resync" /\ ~raced => ResyncOK(frame[t].at, frame[t].reg, sm)
    BY <1>3 DEF Inv, BanksInv, ResyncInv, Resyncing
<1>6. QED
    BY <1>3, <1>4, <1>5

Sound(t, machine, label, registers) ==
    /\ machine \in Machine
    /\ OpOK(label, frame[t].op)
    /\ RegOK(label, registers)
    /\ label = "send" => InList(registers)
    /\ synced /\ ~raced => MachineIn(machine) /\ RegIn(label, registers)
    /\ frame[t].op.kind = "resync" /\ ~raced => ResyncOK(label, registers, machine)

LEMMA StoreStep ==
    ASSUME Inv, NEW t \in Task, ~Resting(t),
           NEW machine, NEW label, NEW registers,
           Sound(t, machine, label, registers), Store(t, machine, label, registers)
    PROVE  Inv'
<1>1. /\ Running(frame[t])
      /\ frame[t].op.kind \in {"post", "resync"} => t = Httpd
    BY Held
<1>2. /\ sm' = machine
      /\ UNCHANGED <<cfg, synced, now, tick_age, shown, events, overtaken, raced>>
    BY DEF Store
<1>3. frame = [u \in Task |-> frame[u]]
    BY DEF Inv, TypeInv
<1>4. frame'[t] = [op |-> frame[t].op, at |-> label, reg |-> registers]
    BY <1>1, <1>3 DEF Store, Running
<1>5. \A u \in Task : u # t => frame'[u] = frame[u]
    BY <1>3 DEF Store
<1>6. frame' = [u \in Task |-> frame'[u]]
    BY <1>3 DEF Store
<1>7. /\ OpOK(label, frame[t].op) /\ RegOK(label, registers) /\ machine \in Machine
      /\ label = "send" => InList(registers)
      /\ synced /\ ~raced => MachineIn(machine) /\ RegIn(label, registers)
      /\ frame[t].op.kind = "resync" /\ ~raced => ResyncOK(label, registers, machine)
    BY DEF Sound
<1>8. Running(frame'[t]) /\ label \notin {"idle", "saving"}
    <2>1. /\ frame'[t].op = frame[t].op
          /\ frame'[t].at = label
          /\ frame'[t].reg = registers
        BY <1>4
    <2>2. frame'[t] = [op |-> frame'[t].op, at |-> frame'[t].at, reg |-> frame'[t].reg]
        BY <1>4, <2>1, Zenon
    <2>3. OpOK(frame'[t].at, frame'[t].op) /\ RegOK(frame'[t].at, frame'[t].reg)
        BY <1>7, <2>1, Zenon
    <2>4. label \notin {"idle", "saving"}
        BY <1>7 DEF OpOK
    <2>5. QED
        BY <2>2, <2>3, <2>4, Zenon DEF Running
<1>9. ASSUME NEW u \in Task
      PROVE  FrameOK(u)'
    <2>1. CASE u = t
        <3>1. frame'[t].op = frame[t].op
            BY <1>4
        <3>2. frame'[u].op.kind \in {"post", "resync"} => u = Httpd
            BY <1>1, <2>1, <3>1, Zenon
        <3>3. Running(frame'[u])
            BY <1>8, <2>1, Zenon
        <3>4. QED
            BY <3>2, <3>3, Zenon DEF FrameOK, Running, OpOK, RegOK
    <2>2. CASE u # t
        <3>1. FrameOK(u) /\ frame'[u] = frame[u]
            BY <1>5, <2>2 DEF Inv, TypeInv
        <3>2. QED
            BY <3>1, Zenon DEF FrameOK, Running, OpOK, RegOK
    <2>3. QED
        BY <2>1, <2>2
<1>10. TypeInv'
    BY <1>2, <1>6, <1>7, <1>9 DEF Inv, TypeInv, Bound
<1>11. ResyncEndsOverruns'
    <2>1. ASSUME NEW u \in Task, (At(u, "send"))', synced, ~raced
          PROVE  (frame[u].reg.i <= Len(ListAt(frame[u].reg.list)))'
        <3>1. CASE u = t
            BY <1>2, <1>4, <1>7, <2>1, <3>1
                DEF At, InList, ListAt, Live!SlotAt, Live!Payload
        <3>2. CASE u # t
            <4>1. frame[u].reg.i <= Len(ListAt(frame[u].reg.list))
                BY <1>5, <2>1, <3>2 DEF Inv, ResyncEndsOverruns, At
            <4>2. QED
                BY <1>2, <1>5, <3>2, <4>1 DEF ListAt, Live!SlotAt, Live!Payload
        <3>3. QED
            BY <3>1, <3>2
    <2>2. QED
        BY <1>2, <2>1 DEF ResyncEndsOverruns
<1>12. \A u \in Task : Resting(u)' <=> Resting(u)
    BY <1>4, <1>5, <1>8 DEF Resting, At
<1>13. SyncedInv'
    <2>1. ASSUME NEW u \in Task, ~Resting(u), synced, ~raced
          PROVE  RegIn(frame'[u].at, frame'[u].reg)
        BY <1>4, <1>5, <1>7, <2>1 DEF Inv, BanksInv, SyncedInv
    <2>2. QED
        BY <1>2, <1>7, <1>12, <2>1 DEF SyncedInv, MachineIn, RegIn
<1>14. ResyncInv'
    <2> SUFFICES ASSUME Resyncing', ~raced'
                 PROVE  /\ Resting(Input)' /\ Resting(TickTask)'
                        /\ ResyncOK(frame[Httpd].at, frame[Httpd].reg, sm)'
        BY DEF ResyncInv
    <2>1. Resyncing /\ ~raced
        BY <1>2, <1>4, <1>5, <1>12 DEF Resyncing, Task
    <2>2. Resting(Input) /\ Resting(TickTask)
        BY <2>1 DEF Inv, BanksInv, ResyncInv
    <2>3. t = Httpd /\ frame[t].op.kind = "resync"
        BY <2>1, <2>2 DEF Task, Resyncing
    <2>4. ResyncOK(label, registers, machine)
        BY <1>7, <2>1, <2>3
    <2>5. ResyncOK(frame[Httpd].at, frame[Httpd].reg, sm)'
        <3>1. /\ frame'[Httpd].at = label
              /\ frame'[Httpd].reg = registers
            BY <1>4, <2>3
        <3>2. QED
            BY <1>2, <2>4, <3>1 DEF ResyncOK, MachineIn
    <2>6. Resting(Input)' /\ Resting(TickTask)'
        BY <1>12, <2>2 DEF Task
    <2>7. QED
        BY <2>5, <2>6
<1>15. PhaseInv'
    BY <1>2, <1>4, <1>5, <1>8, <1>12 DEF Inv, BanksInv, PhaseInv, Resyncing, At, Task, Saving
<1>16. QED
    BY <1>10, <1>11, <1>13, <1>14, <1>15 DEF Inv, BanksInv

(* A handler that returns leaves the invariant to the others. *)
LEMMA ReturnStep ==
    ASSUME Inv, NEW t \in Task, ~Resting(t) \/ t = Httpd, Return(t)
    PROVE  Inv'
<1>1. UNCHANGED <<cfg, synced, sm, now, tick_age, shown, events, overtaken, raced>>
    BY DEF Return
<1>2. frame = [u \in Task |-> frame[u]]
    BY DEF Inv, TypeInv
<1>3. frame'[t] = Idle /\ \A u \in Task : u # t => frame'[u] = frame[u]
    BY <1>2 DEF Return
<1>4. frame' = [u \in Task |-> frame'[u]]
    BY <1>2 DEF Return
<1>5. ASSUME NEW u \in Task
      PROVE  FrameOK(u)'
    <2>1. CASE u = t
        BY <1>3, <2>1, Zenon DEF FrameOK, Idle
    <2>2. CASE u # t
        <3>1. FrameOK(u) /\ frame'[u] = frame[u]
            BY <1>3, <2>2 DEF Inv, TypeInv
        <3>2. QED
            BY <3>1, Zenon DEF FrameOK, Running, OpOK, RegOK
    <2>3. QED
        BY <2>1, <2>2
<1>6. TypeInv'
    BY <1>1, <1>4, <1>5 DEF Inv, TypeInv, Bound
<1>7. \A u \in Task : ~Resting(u)' => u # t /\ frame'[u] = frame[u] /\ ~Resting(u)
    BY <1>3 DEF Resting, At, Idle
<1>8. ResyncEndsOverruns'
    <2>1. ASSUME NEW u \in Task, (At(u, "send"))', synced, ~raced
          PROVE  (frame[u].reg.i <= Len(ListAt(frame[u].reg.list)))'
        <3>1. u # t /\ frame'[u] = frame[u]
            BY <1>3, <2>1 DEF At, Idle
        <3>2. frame[u].reg.i <= Len(ListAt(frame[u].reg.list))
            BY <2>1, <3>1 DEF Inv, ResyncEndsOverruns, At
        <3>3. QED
            BY <1>1, <3>1, <3>2 DEF ListAt, Live!SlotAt, Live!Payload
    <2>2. QED
        BY <1>1, <2>1 DEF ResyncEndsOverruns
<1>9. SyncedInv'
    <2>1. ASSUME NEW u \in Task, ~Resting(u)', synced, ~raced
          PROVE  RegIn(frame'[u].at, frame'[u].reg)
        BY <1>7, <2>1 DEF Inv, BanksInv, SyncedInv
    <2>2. synced /\ ~raced => MachineIn(sm)
        BY DEF Inv, BanksInv, SyncedInv
    <2>3. QED
        BY <1>1, <2>1, <2>2 DEF SyncedInv, MachineIn, RegIn
<1>10. ResyncInv' /\ PhaseInv'
    <2>1. Resyncing' => Resyncing /\ t # Httpd /\ frame'[Httpd] = frame[Httpd]
        BY <1>7 DEF Resyncing, Task
    <2>2. Resting(Input) /\ Resting(TickTask) => t = Httpd
        BY DEF Task
    <2>3. ResyncInv'
        BY <1>1, <2>1, <2>2 DEF Inv, BanksInv, ResyncInv
    <2>4. PhaseInv'
        BY <1>1, <1>3, <2>1 DEF Inv, BanksInv, PhaseInv, At, Task, Idle, Saving
    <2>5. QED
        BY <2>3, <2>4
<1>11. QED
    BY <1>6, <1>8, <1>9, <1>10 DEF Inv, BanksInv

-------------------------------------------------------------------------------
(* The steps of a handler, one lemma for each of its parts *)

(* The machine after a store is a machine, in the banks there are if what   *)
(* was stored is.                                                           *)
LEMMA MachineStored ==
    ASSUME TypeInv
    PROVE  /\ \A b \in Bank :
                /\ [sm EXCEPT !.current_bank = b] \in Machine
                /\ [sm EXCEPT !.target_bank = b] \in Machine
           /\ \A s \in Slot : [sm EXCEPT !.current_slot = s] \in Machine
           /\ \A a \in [Slot -> BOOLEAN] :
                /\ [sm EXCEPT !.alt_active = a] \in Machine
                /\ [sm EXCEPT !.alt_active = a, !.browse_started_ms = 0] \in Machine
           /\ \A d \in BOOLEAN : [sm EXCEPT !.tuner_on = d] \in Machine
           /\ \A w \in Live!Millis : [sm EXCEPT !.browse_started_ms = w] \in Machine
BY Sizes DEF TypeInv, Machine

LEMMA BanksStored ==
    ASSUME TypeInv
    PROVE  /\ \A b : /\ [sm EXCEPT !.current_bank = b].current_bank = b
                     /\ [sm EXCEPT !.current_bank = b].target_bank = sm.target_bank
                     /\ [sm EXCEPT !.target_bank = b].current_bank = sm.current_bank
                     /\ [sm EXCEPT !.target_bank = b].target_bank = b
           /\ \A s : MachineIn(sm) => MachineIn([sm EXCEPT !.current_slot = s])
           /\ \A a : /\ MachineIn(sm) => MachineIn([sm EXCEPT !.alt_active = a])
                     /\ MachineIn(sm) => MachineIn([sm EXCEPT !.alt_active = a,
                                                           !.browse_started_ms = 0])
           /\ \A d : MachineIn(sm) => MachineIn([sm EXCEPT !.tuner_on = d])
           /\ \A w : MachineIn(sm) => MachineIn([sm EXCEPT !.browse_started_ms = w])
BY DEF TypeInv, Machine, MachineIn

LEMMA SlotStored ==
    ASSUME TypeInv, NEW s \in Slot, NEW a \in BOOLEAN
    PROVE  /\ [sm EXCEPT !.alt_active[s] = a] \in Machine
           /\ MachineIn(sm) => MachineIn([sm EXCEPT !.alt_active[s] = a])
<1>1. [sm.alt_active EXCEPT ![s] = a] \in [Slot -> BOOLEAN]
    BY MachineFields
<1>2. [sm EXCEPT !.alt_active[s] = a]
        = [sm EXCEPT !.alt_active = [sm.alt_active EXCEPT ![s] = a]]
    BY DEF TypeInv, Machine
<1>3. QED
    BY <1>1, <1>2, MachineStored, BanksStored

LEMMA SlotListTyped ==
    ASSUME NEW bank \in Bank, NEW slot \in Slot, NEW alt \in BOOLEAN
    PROVE  SlotList(bank, slot, alt) \in [list : List, i : Nat]
BY DEF SlotList, Emission, List

(* The labels of a handler, all of them in one list for the provers. *)
HeldAt(t) ==
    /\ OpOK(frame[t].at, frame[t].op)
    /\ RegOK(frame[t].at, frame[t].reg)
    /\ synced /\ ~raced => MachineIn(sm) /\ RegIn(frame[t].at, frame[t].reg)
    /\ frame[t].op.kind = "resync" /\ ~raced => ResyncOK(frame[t].at, frame[t].reg, sm)

LEMMA HeldThere ==
    ASSUME Inv, NEW t \in Task, ~Resting(t)
    PROVE  HeldAt(t) /\ TypeInv
BY Held DEF HeldAt, Running, Inv

LEMMA BankStepKeeps ==
    ASSUME Inv, NEW t \in Task, BankStep(t)
    PROVE  Inv'
<1> DEFINE reg == frame[t].reg
<1>1. ~Resting(t)
    BY DEF BankStep, Resting, At
<1>2. HeldAt(t) /\ TypeInv
    BY <1>1, HeldThere
<1>3. CASE At(t, "step") /\ Load(t, "step current", [was |-> sm.target_bank,
                target |-> StepTarget(sm.target_bank, frame[t].op.delta, reg.count)])
    <2> DEFINE target == StepTarget(sm.target_bank, frame[t].op.delta, reg.count)
    <2>1. target \in 0 .. reg.count - 1 /\ reg.count \in 1 .. MAX_BANKS
        BY <1>2, <1>3, MachineFields, StepTyped DEF HeldAt, OpOK, RegOK, At
    <2>2. target \in Bank
        BY <2>1, Sizes DEF Bank
    <2>3. synced /\ ~raced => target < cfg.bank_count
        <3>1. synced /\ ~raced => reg.count <= cfg.bank_count
            BY <1>2, <1>3 DEF HeldAt, RegIn, At
        <3>2. target \in Int /\ target < reg.count /\ reg.count \in Int
            BY <2>1, Sizes
        <3> HIDE DEF target
        <3>3. QED
            BY <1>2, <3>1, <3>2, CountTyped
    <2> HIDE DEF target
    <2>4. Sound(t, sm, "step current", [was |-> sm.target_bank, target |-> target])
        BY <1>2, <1>3, <2>2, <2>3
            DEF HeldAt, Sound, OpOK, RegOK, RegIn, At, TypeInv, PressLabel, TickLabel,
                ResyncLabel
    <2>5. QED
        BY <1>1, <1>3, <2>4, StoreStep DEF Load, target
<1>4. CASE At(t, "step current") /\ Load(t, "step store", [target |-> reg.target,
                browsed |-> reg.was # sm.current_bank,
                browses |-> reg.target # sm.current_bank])
    <2>1. Sound(t, sm, "step store", [target |-> reg.target,
                browsed |-> reg.was # sm.current_bank,
                browses |-> reg.target # sm.current_bank])
        BY <1>2, <1>4
            DEF HeldAt, Sound, OpOK, RegOK, RegIn, At, TypeInv, PressLabel, TickLabel,
                ResyncLabel
    <2>2. QED
        BY <1>1, <1>4, <2>1, StoreStep DEF Load
<1>5. CASE /\ At(t, "step store")
           /\ LET stepped == [sm EXCEPT !.target_bank = reg.target]
              IN  \/ reg.browses /\ Store(t, stepped, "step clock", Null)
                  \/ ~reg.browses /\ reg.browsed
                        /\ Store(t, stepped, "step window", [window |-> 0])
                  \/ ~reg.browses /\ ~reg.browsed /\ Store(t, stepped, "notify", Null)
    <2> DEFINE stepped == [sm EXCEPT !.target_bank = reg.target]
    <2>1. frame[t].at = "step store" /\ reg.target \in Bank
        BY <1>2, <1>5 DEF HeldAt, RegOK, At
    <2>2. stepped \in Machine
        BY <1>2, <2>1, MachineStored
    <2>3. synced /\ ~raced => MachineIn(stepped)
        BY <1>2, <2>1, BanksStored DEF HeldAt, RegIn, MachineIn
    <2> HIDE DEF stepped
    <2>4. Sound(t, stepped, "step clock", Null)
        BY <1>2, <2>1, <2>2, <2>3
            DEF HeldAt, Sound, OpOK, RegOK, RegIn, PressLabel, TickLabel, ResyncLabel
    <2>5. Sound(t, stepped, "step window", [window |-> 0])
        BY <1>2, <2>1, <2>2, <2>3, Sizes
            DEF HeldAt, Sound, OpOK, RegOK, RegIn, PressLabel, TickLabel, ResyncLabel
    <2>6. Sound(t, stepped, "notify", Null)
        BY <1>2, <2>1, <2>2, <2>3
            DEF HeldAt, Sound, OpOK, RegOK, RegIn, PressLabel, TickLabel, ResyncLabel
    <2>7. \/ Store(t, stepped, "step clock", Null)
          \/ Store(t, stepped, "step window", [window |-> 0])
          \/ Store(t, stepped, "notify", Null)
        BY <1>5 DEF stepped
    <2>8. QED
        BY <1>1, <2>4, <2>5, <2>6, <2>7, StoreStep
<1>6. CASE At(t, "step clock") /\ Load(t, "step window", [window |-> now])
    <2>1. Sound(t, sm, "step window", [window |-> now])
        BY <1>2, <1>6
            DEF HeldAt, Sound, OpOK, RegOK, RegIn, At, TypeInv, PressLabel, TickLabel,
                ResyncLabel
    <2>2. QED
        BY <1>1, <1>6, <2>1, StoreStep DEF Load
<1>7. CASE /\ At(t, "step window")
           /\ Store(t, [sm EXCEPT !.browse_started_ms = reg.window], "notify", Null)
    <2>1. frame[t].at = "step window" /\ reg.window \in Live!Millis
        BY <1>2, <1>7 DEF HeldAt, RegOK, At
    <2>2. [sm EXCEPT !.browse_started_ms = reg.window] \in Machine
        BY <1>2, <2>1, MachineStored
    <2>3. synced /\ ~raced => MachineIn([sm EXCEPT !.browse_started_ms = reg.window])
        BY <1>2, BanksStored DEF HeldAt
    <2>4. Sound(t, [sm EXCEPT !.browse_started_ms = reg.window], "notify", Null)
        BY <1>2, <2>1, <2>2, <2>3
            DEF HeldAt, Sound, OpOK, RegOK, RegIn, PressLabel, TickLabel, ResyncLabel
    <2>5. QED
        BY <1>1, <1>7, <2>4, StoreStep
<1>8. QED
    BY <1>3, <1>4, <1>5, <1>6, <1>7 DEF BankStep

LEMMA CommitBankKeeps ==
    ASSUME Inv, NEW t \in Task, CommitBank(t)
    PROVE  Inv'
<1> DEFINE reg == frame[t].reg
           slot == frame[t].op.slot
           enters == [sm EXCEPT !.current_bank = reg.bank]
           selects == [sm EXCEPT !.current_slot = slot]
           forgets == [sm EXCEPT !.alt_active = Live!NoAlternatives, !.browse_started_ms = 0]
<1>1. ~Resting(t)
    BY DEF CommitBank, Resting, At
<1>2. HeldAt(t) /\ TypeInv
    BY <1>1, HeldThere
<1>3. frame[t].at \in {"commit", "commit slot", "commit alt"}
    BY DEF CommitBank, At
<1>4. frame[t].op.kind = "press" /\ slot \in Slot /\ reg.bank \in Bank
    BY <1>2, <1>3 DEF HeldAt, OpOK, RegOK, PressLabel
<1>5. CASE At(t, "commit") /\ Store(t, enters, "commit slot", reg)
    <2>1. enters \in Machine
        BY <1>2, <1>4, MachineStored
    <2>2. synced /\ ~raced => MachineIn(enters)
        BY <1>2, <1>5, BanksStored DEF HeldAt, RegIn, MachineIn, At
    <2> HIDE DEF enters
    <2>3. Sound(t, enters, "commit slot", reg)
        BY <1>2, <1>4, <2>1, <2>2
            DEF HeldAt, Sound, OpOK, RegOK, RegIn, PressLabel, TickLabel, ResyncLabel
    <2>4. QED
        BY <1>1, <1>5, <2>3, StoreStep
<1>6. CASE At(t, "commit slot") /\ Store(t, selects, "commit alt", reg)
    <2>1. selects \in Machine /\ (synced /\ ~raced => MachineIn(selects))
        BY <1>2, <1>4, MachineStored, BanksStored DEF HeldAt
    <2> HIDE DEF selects
    <2>2. Sound(t, selects, "commit alt", reg)
        BY <1>2, <1>4, <2>1
            DEF HeldAt, Sound, OpOK, RegOK, RegIn, PressLabel, TickLabel, ResyncLabel
    <2>3. QED
        BY <1>1, <1>6, <2>2, StoreStep
<1>7. CASE At(t, "commit alt") /\ Store(t, forgets, "emit", SlotList(reg.bank, slot, FALSE))
    <2>1. Live!NoAlternatives \in [Slot -> BOOLEAN]
        BY DEF Live!NoAlternatives, Live!Slot, Slot
    <2>2. forgets \in Machine /\ (synced /\ ~raced => MachineIn(forgets))
        BY <1>2, <2>1, MachineStored, BanksStored DEF HeldAt
    <2>3. SlotList(reg.bank, slot, FALSE) \in [list : List, i : Nat]
        BY <1>4, SlotListTyped
    <2> HIDE DEF forgets
    <2>4. Sound(t, forgets, "emit", SlotList(reg.bank, slot, FALSE))
        BY <1>2, <1>4, <2>2, <2>3
            DEF HeldAt, Sound, OpOK, RegOK, RegIn, PressLabel, TickLabel, ResyncLabel
    <2>5. QED
        BY <1>1, <1>7, <2>4, StoreStep
<1>8. QED
    BY <1>5, <1>6, <1>7 DEF CommitBank

LEMMA SelectSlotKeeps ==
    ASSUME Inv, NEW t \in Task, SelectSlot(t)
    PROVE  Inv'
<1> DEFINE reg == frame[t].reg
           slot == frame[t].op.slot
           left == Live!SlotAt(reg.bank, reg.leaving)
           drops == left.has_alternative /\ left.alt_persistence = "one_time"
           alt == sm.alt_active[slot] /\ Live!SlotAt(reg.bank, slot).has_alternative
           leaves == [sm EXCEPT !.alt_active[reg.leaving] = @ /\ ~drops]
           selects == [sm EXCEPT !.current_slot = slot]
           resumes == [sm EXCEPT !.alt_active[slot] = alt]
<1>1. ~Resting(t)
    BY DEF SelectSlot, Resting, At
<1>2. HeldAt(t) /\ TypeInv
    BY <1>1, HeldThere
<1>3. frame[t].at \in {"select", "select slot", "select alt"}
    BY DEF SelectSlot, At
<1>4. frame[t].op.kind = "press" /\ slot \in Slot /\ reg.bank \in Bank
    BY <1>2, <1>3 DEF HeldAt, OpOK, RegOK, PressLabel
<1>5. CASE At(t, "select") /\ Store(t, leaves, "select slot", reg)
    <2>1. reg.leaving \in Slot
        BY <1>2, <1>5 DEF HeldAt, RegOK, At
    <2>2. (sm.alt_active[reg.leaving] /\ ~drops) \in BOOLEAN
        OBVIOUS
    <2>3. leaves \in Machine /\ (synced /\ ~raced => MachineIn(leaves))
        BY <1>2, <2>1, <2>2, SlotStored DEF HeldAt
    <2> HIDE DEF leaves
    <2>4. Sound(t, leaves, "select slot", reg)
        BY <1>2, <1>4, <2>3
            DEF HeldAt, Sound, OpOK, RegOK, RegIn, PressLabel, TickLabel, ResyncLabel
    <2>5. QED
        BY <1>1, <1>5, <2>4, StoreStep
<1>6. CASE At(t, "select slot") /\ Store(t, selects, "select alt", reg)
    <2>1. selects \in Machine /\ (synced /\ ~raced => MachineIn(selects))
        BY <1>2, <1>4, MachineStored, BanksStored DEF HeldAt
    <2> HIDE DEF selects
    <2>2. Sound(t, selects, "select alt", reg)
        BY <1>2, <1>4, <2>1
            DEF HeldAt, Sound, OpOK, RegOK, RegIn, PressLabel, TickLabel, ResyncLabel
    <2>3. QED
        BY <1>1, <1>6, <2>2, StoreStep
<1>7. CASE At(t, "select alt") /\ Store(t, resumes, "emit", SlotList(reg.bank, slot, alt))
    <2>1. alt \in BOOLEAN
        OBVIOUS
    <2> HIDE DEF alt
    <2>2. resumes \in Machine /\ (synced /\ ~raced => MachineIn(resumes))
        BY <1>2, <1>4, <2>1, SlotStored DEF HeldAt
    <2>3. SlotList(reg.bank, slot, alt) \in [list : List, i : Nat]
        BY <1>4, <2>1, SlotListTyped
    <2> HIDE DEF resumes
    <2>4. Sound(t, resumes, "emit", SlotList(reg.bank, slot, alt))
        BY <1>2, <1>4, <2>2, <2>3
            DEF HeldAt, Sound, OpOK, RegOK, RegIn, PressLabel, TickLabel, ResyncLabel
    <2>5. QED
        BY <1>1, <1>7, <2>4, StoreStep
<1>8. QED
    BY <1>5, <1>6, <1>7 DEF SelectSlot

LEMMA ToggleAlternativeKeeps ==
    ASSUME Inv, NEW t \in Task, ToggleAlternative(t)
    PROVE  Inv'
<1> DEFINE reg == frame[t].reg
           slot == frame[t].op.slot
           toggles == Live!SlotAt(reg.bank, slot).has_alternative
           toggled == [bank |-> reg.bank, alt |-> ~sm.alt_active[slot]]
           stores == [sm EXCEPT !.alt_active[slot] = reg.alt]
<1>1. ~Resting(t)
    BY DEF ToggleAlternative, Resting, At
<1>2. HeldAt(t) /\ TypeInv
    BY <1>1, HeldThere
<1>3. frame[t].at \in {"toggle", "toggle store"}
    BY DEF ToggleAlternative, At
<1>4. frame[t].op.kind = "press" /\ slot \in Slot /\ reg.bank \in Bank
    BY <1>2, <1>3 DEF HeldAt, OpOK, RegOK, PressLabel
<1>5. CASE At(t, "toggle") /\ Load(t, "toggle store", toggled)
    <2>1. RegOK("toggle store", toggled)
        BY <1>4, MachineFields, <1>2 DEF RegOK, PressLabel
    <2> HIDE DEF toggled
    <2>2. Sound(t, sm, "toggle store", toggled)
        BY <1>2, <1>4, <2>1
            DEF HeldAt, Sound, OpOK, RegIn, TypeInv, PressLabel, TickLabel, ResyncLabel
    <2>3. QED
        BY <1>1, <1>5, <2>2, StoreStep DEF Load
<1>6. CASE At(t, "toggle store") /\ Store(t, stores, "emit", SlotList(reg.bank, slot, reg.alt))
    <2>1. reg.alt \in BOOLEAN
        BY <1>2, <1>6 DEF HeldAt, RegOK, At
    <2>2. stores \in Machine /\ (synced /\ ~raced => MachineIn(stores))
        BY <1>2, <1>4, <2>1, SlotStored DEF HeldAt
    <2>3. SlotList(reg.bank, slot, reg.alt) \in [list : List, i : Nat]
        BY <1>4, <2>1, SlotListTyped
    <2> HIDE DEF stores
    <2>4. Sound(t, stores, "emit", SlotList(reg.bank, slot, reg.alt))
        BY <1>2, <1>4, <2>2, <2>3
            DEF HeldAt, Sound, OpOK, RegOK, RegIn, PressLabel, TickLabel, ResyncLabel
    <2>5. QED
        BY <1>1, <1>6, <2>4, StoreStep
<1>7. CASE Return(t)
    BY <1>1, <1>7, ReturnStep
<1>8. QED
    BY <1>5, <1>6, <1>7 DEF ToggleAlternative

LEMMA ProgramPressKeeps ==
    ASSUME Inv, NEW t \in Task, ProgramPress(t)
    PROVE  Inv'
<1> DEFINE reg == frame[t].reg
<1>1. CASE At(t, "press") \/ At(t, "press slot")
    <2>1. ~Resting(t)
        BY <1>1 DEF Resting, At
    <2>2. HeldAt(t) /\ TypeInv
        BY <2>1, HeldThere
    <2>3. frame[t].op.kind = "press"
        BY <1>1, <2>2 DEF HeldAt, OpOK, PressLabel, At
    <2>4. CASE At(t, "press") /\ Load(t, "commit", [bank |-> reg.target])
        <3>1. Sound(t, sm, "commit", [bank |-> reg.target])
            BY <2>2, <2>3, <2>4
                DEF HeldAt, Sound, OpOK, RegOK, RegIn, TypeInv, At, PressLabel, TickLabel,
                    ResyncLabel
        <3>2. QED
            BY <2>1, <2>4, <3>1, StoreStep DEF Load
    <2>5. CASE At(t, "press") /\ Load(t, "press slot", [bank |-> sm.current_bank])
        <3>1. Sound(t, sm, "press slot", [bank |-> sm.current_bank])
            BY <2>2, <2>3, MachineFields
                DEF HeldAt, Sound, OpOK, RegOK, RegIn, TypeInv, PressLabel, TickLabel,
                    ResyncLabel
        <3>2. QED
            BY <2>1, <2>5, <3>1, StoreStep DEF Load
    <2>6. CASE At(t, "press slot")
                  /\ Load(t, "select", [bank |-> reg.bank, leaving |-> sm.current_slot])
        <3>1. Sound(t, sm, "select", [bank |-> reg.bank, leaving |-> sm.current_slot])
            BY <2>2, <2>3, <2>6, MachineFields
                DEF HeldAt, Sound, OpOK, RegOK, RegIn, TypeInv, At, PressLabel, TickLabel,
                    ResyncLabel
        <3>2. QED
            BY <2>1, <2>6, <3>1, StoreStep DEF Load
    <2>7. CASE At(t, "press slot") /\ Load(t, "toggle", reg)
        <3>1. Sound(t, sm, "toggle", reg)
            BY <2>2, <2>3, <2>7
                DEF HeldAt, Sound, OpOK, RegOK, RegIn, TypeInv, At, PressLabel, TickLabel,
                    ResyncLabel
        <3>2. QED
            BY <2>1, <2>7, <3>1, StoreStep DEF Load
    <2>8. CASE CommitBank(t) \/ SelectSlot(t) \/ ToggleAlternative(t)
        BY <2>8, CommitBankKeeps, SelectSlotKeeps, ToggleAlternativeKeeps
    <2>9. QED
        BY <2>4, <2>5, <2>6, <2>7, <2>8 DEF ProgramPress
<1>2. CASE CommitBank(t) \/ SelectSlot(t) \/ ToggleAlternative(t)
    BY <1>2, CommitBankKeeps, SelectSlotKeeps, ToggleAlternativeKeeps
<1>3. QED
    BY <1>1, <1>2 DEF ProgramPress

LEMMA LongPressKeeps ==
    ASSUME Inv, NEW t \in Task, LongPress(t)
    PROVE  Inv'
<1> DEFINE tuned == [sm EXCEPT !.tuner_on = frame[t].reg.tuner]
<1>1. ~Resting(t)
    BY DEF LongPress, Resting, At
<1>2. HeldAt(t) /\ TypeInv
    BY <1>1, HeldThere
<1>3. CASE At(t, "tuner") /\ Store(t, tuned, "notify", Null)
    <2>1. frame[t].reg.tuner \in BOOLEAN
        BY <1>2, <1>3 DEF HeldAt, RegOK, At
    <2>2. tuned \in Machine /\ (synced /\ ~raced => MachineIn(tuned))
        BY <1>2, <2>1, MachineStored, BanksStored DEF HeldAt
    <2> HIDE DEF tuned
    <2>3. Sound(t, tuned, "notify", Null)
        BY <1>2, <1>3, <2>2
            DEF HeldAt, Sound, OpOK, RegOK, RegIn, At, PressLabel, TickLabel, ResyncLabel
    <2>4. QED
        BY <1>1, <1>3, <2>3, StoreStep
<1>4. CASE At(t, "user") /\ Load(t, "emit", Emission(frame[t].op))
    <2>1. /\ frame[t].op.kind = "user"
          /\ frame[t].op \in [kind : {"user"}, which : {"user_function_a", "user_function_b"}]
        BY <1>2, <1>4 DEF HeldAt, OpOK, At
    <2>2. Emission(frame[t].op) \in [list : List, i : Nat]
        BY <2>1 DEF Emission, List
    <2>3. Sound(t, sm, "emit", Emission(frame[t].op))
        BY <1>2, <2>1, <2>2
            DEF HeldAt, Sound, OpOK, RegOK, RegIn, TypeInv, PressLabel, TickLabel, ResyncLabel
    <2>4. QED
        BY <1>1, <1>4, <2>3, StoreStep DEF Load
<1>5. QED
    BY <1>3, <1>4 DEF LongPress

LEMMA TickKeeps ==
    ASSUME Inv, Tick, ~WakeUp
    PROVE  Inv'
<1> DEFINE reg == frame[TickTask].reg
           clocked == [timeout |-> reg.timeout, clock |-> now]
           returns == [sm EXCEPT !.target_bank = reg.bank]
           stops == [sm EXCEPT !.browse_started_ms = 0]
<1>1. ~Resting(TickTask) /\ TickTask \in Task /\ frame[TickTask].at \in TickLabel
    BY DEF Tick, Resting, At, Task, TickLabel
<1>2. HeldAt(TickTask) /\ TypeInv
    BY <1>1, HeldThere
<1>3. frame[TickTask].op.kind = "tick"
    BY <1>1, <1>2 DEF HeldAt, OpOK
<1>4. CASE Return(TickTask)
    BY <1>1, <1>4, ReturnStep
<1>5. CASE Load(TickTask, "tick clock", [timeout |-> cfg.browse_timeout_ms])
    <2>1. Sound(TickTask, sm, "tick clock", [timeout |-> cfg.browse_timeout_ms])
        BY <1>2, <1>3
            DEF HeldAt, Sound, OpOK, RegOK, RegIn, TypeInv, PressLabel, TickLabel, ResyncLabel
    <2>2. QED
        BY <1>1, <1>5, <2>1, StoreStep DEF Load
<1>6. CASE Load(TickTask, "tick window", clocked)
    <2>1. Sound(TickTask, sm, "tick window", clocked)
        BY <1>2, <1>3
            DEF HeldAt, Sound, OpOK, RegOK, RegIn, TypeInv, PressLabel, TickLabel, ResyncLabel
    <2>2. QED
        BY <1>1, <1>6, <2>1, StoreStep DEF Load
<1>7. CASE Load(TickTask, "tick reload", Null)
    <2>1. Sound(TickTask, sm, "tick reload", Null)
        BY <1>2, <1>3
            DEF HeldAt, Sound, OpOK, RegOK, RegIn, TypeInv, PressLabel, TickLabel, ResyncLabel
    <2>2. QED
        BY <1>1, <1>7, <2>1, StoreStep DEF Load
<1>8. CASE Load(TickTask, "tick store", [bank |-> sm.current_bank])
    <2>1. Sound(TickTask, sm, "tick store", [bank |-> sm.current_bank])
        BY <1>2, <1>3, MachineFields
            DEF HeldAt, Sound, OpOK, RegOK, RegIn, TypeInv, MachineIn, PressLabel, TickLabel,
                ResyncLabel
    <2>2. QED
        BY <1>1, <1>8, <2>1, StoreStep DEF Load
<1>9. CASE At(TickTask, "tick store") /\ Store(TickTask, returns, "tick stop", Null)
    <2>1. reg.bank \in Bank /\ (synced /\ ~raced => reg.bank < cfg.bank_count)
        BY <1>2, <1>9 DEF HeldAt, RegOK, RegIn, At
    <2>2. returns \in Machine
        BY <1>2, <2>1, MachineStored
    <2>3. synced /\ ~raced => MachineIn(returns)
        BY <1>2, <2>1, BanksStored DEF HeldAt, MachineIn
    <2> HIDE DEF returns
    <2>4. Sound(TickTask, returns, "tick stop", Null)
        BY <1>2, <1>3, <2>2, <2>3
            DEF HeldAt, Sound, OpOK, RegOK, RegIn, PressLabel, TickLabel, ResyncLabel
    <2>5. QED
        BY <1>1, <1>9, <2>4, StoreStep
<1>10. CASE Store(TickTask, stops, "notify", Null)
    <2>1. stops \in Machine /\ (synced /\ ~raced => MachineIn(stops))
        BY <1>2, MachineStored, BanksStored, Sizes DEF HeldAt
    <2> HIDE DEF stops
    <2>2. Sound(TickTask, stops, "notify", Null)
        BY <1>2, <1>3, <2>1
            DEF HeldAt, Sound, OpOK, RegOK, RegIn, PressLabel, TickLabel, ResyncLabel
    <2>3. QED
        BY <1>1, <1>10, <2>2, StoreStep
<1>11. QED
    BY <1>4, <1>5, <1>6, <1>7, <1>8, <1>9, <1>10 DEF Tick

LEMMA AtLeast == \A a, b \in Nat : ~(a >= b) => a < b
OBVIOUS

LEMMA ResyncKeeps ==
    ASSUME Inv, Resync
    PROVE  Inv'
<1> DEFINE bank == frame[Httpd].reg.bank
           clamps == [sm EXCEPT !.current_bank = 0]
           follows == [sm EXCEPT !.target_bank = bank]
           forgets == [sm EXCEPT !.alt_active = Live!NoAlternatives, !.browse_started_ms = 0]
<1>1. ~Resting(Httpd) /\ Httpd \in Task /\ frame[Httpd].at \in ResyncLabel
    BY DEF Resync, Resting, At, Task, ResyncLabel
<1>2. HeldAt(Httpd) /\ TypeInv
    BY <1>1, HeldThere
<1>3. frame[Httpd].op.kind = "resync" /\ ~synced
    BY <1>1, <1>2 DEF HeldAt, OpOK, Inv, BanksInv, PhaseInv, Resyncing
<1>4. sm.current_bank \in Nat /\ cfg.bank_count \in Nat /\ cfg.bank_count > 0
    BY <1>2, MachineFields, CountTyped, Sizes DEF Bank
<1>5. CASE At(Httpd, "resync") /\ Store(Httpd, clamps, "resync target", [bank |-> 0])
    <2>1. clamps \in Machine /\ clamps.current_bank = 0
        BY <1>2, Sizes, MachineStored, BanksStored
    <2> HIDE DEF clamps
    <2>2. ResyncOK("resync target", [bank |-> 0], clamps)
        BY <1>4, <2>1 DEF ResyncOK
    <2>3. Sound(Httpd, clamps, "resync target", [bank |-> 0])
        BY <1>2, <1>3, <2>1, <2>2, Sizes
            DEF HeldAt, Sound, OpOK, RegOK, PressLabel, TickLabel, ResyncLabel
    <2>4. QED
        BY <1>1, <1>5, <2>3, StoreStep
<1>6. CASE /\ At(Httpd, "resync") /\ ~BeyondTheBanks(bank)
           /\ Load(Httpd, "resync target", [bank |-> bank])
    <2>1. bank \in Bank /\ (~raced => bank = sm.current_bank)
        BY <1>2, <1>3, <1>6 DEF HeldAt, RegOK, ResyncOK, At
    <2>2. ~raced => sm.current_bank < cfg.bank_count
        BY <1>4, <1>6, <2>1, Zenon, AtLeast DEF BeyondTheBanks
    <2>3. ~raced => ResyncOK("resync target", [bank |-> bank], sm)
        BY <2>1, <2>2 DEF ResyncOK
    <2>4. Sound(Httpd, sm, "resync target", [bank |-> bank])
        BY <1>2, <1>3, <2>1, <2>3
            DEF HeldAt, Sound, OpOK, RegOK, TypeInv, PressLabel, TickLabel, ResyncLabel
    <2>5. QED
        BY <1>1, <1>6, <2>4, StoreStep DEF Load
<1>7. CASE At(Httpd, "resync target") /\ Store(Httpd, follows, "resync alt", Null)
    <2>1. /\ bank \in Bank
          /\ ~raced => bank = sm.current_bank /\ sm.current_bank < cfg.bank_count
        BY <1>2, <1>3, <1>7 DEF HeldAt, RegOK, ResyncOK, At
    <2>2. follows \in Machine
        BY <1>2, <2>1, MachineStored
    <2>3. ~raced => MachineIn(follows)
        BY <1>2, <2>1, BanksStored DEF MachineIn
    <2> HIDE DEF follows
    <2>4. Sound(Httpd, follows, "resync alt", Null)
        BY <1>2, <1>3, <2>2, <2>3
            DEF HeldAt, Sound, OpOK, RegOK, ResyncOK, PressLabel, TickLabel, ResyncLabel
    <2>5. QED
        BY <1>1, <1>7, <2>4, StoreStep
<1>8. CASE At(Httpd, "resync alt") /\ Store(Httpd, forgets, "notify", Null)
    <2>1. Live!NoAlternatives \in [Slot -> BOOLEAN]
        BY DEF Live!NoAlternatives, Live!Slot, Slot
    <2>2. ~raced => MachineIn(sm)
        BY <1>2, <1>3, <1>8 DEF HeldAt, ResyncOK, At
    <2>3. forgets \in Machine /\ (~raced => MachineIn(forgets))
        BY <1>2, <2>1, <2>2, MachineStored, BanksStored
    <2> HIDE DEF forgets
    <2>4. Sound(Httpd, forgets, "notify", Null)
        BY <1>2, <1>3, <2>3
            DEF HeldAt, Sound, OpOK, RegOK, ResyncOK, PressLabel, TickLabel, ResyncLabel
    <2>5. QED
        BY <1>1, <1>8, <2>4, StoreStep
<1>9. QED
    BY <1>5, <1>6, <1>7, <1>8 DEF Resync

LEMMA SentTyped ==
    ASSUME NEW S, NEW r \in [list : S, i : Nat]
    PROVE  [r EXCEPT !.i = @ + 1] \in [list : S, i : Nat]
<1>1. \A n \in Nat : [r EXCEPT !.i = n] \in [list : S, i : Nat]
    OBVIOUS
<1>2. r.i + 1 \in Nat
    OBVIOUS
<1>3. [r EXCEPT !.i = r.i + 1] \in [list : S, i : Nat]
    BY <1>1, <1>2, Zenon
<1>4. QED
    BY <1>3, Zenon

LEMMA CallbackKeeps ==
    ASSUME Inv, NEW t \in Task, Emit(t) \/ SendMidi(t) \/ Notify(t)
    PROVE  Inv'
<1> DEFINE reg == frame[t].reg
           sends == [reg EXCEPT !.i = @ + 1]
           begins == [bank |-> sm.current_bank, overtaken |-> FALSE,
                      earlier |-> {u \in Task \ {t} : InSnapshot(u)}]
           takes == [snapshot |-> SnapshotOf(reg.bank), overtaken |-> reg.overtaken,
                     earlier |-> reg.earlier]
<1>1. ~Resting(t) /\ frame[t].at \in {"emit", "send", "notify", "snapshot"}
    BY DEF Emit, SendMidi, Notify, Resting, At
<1>2. HeldAt(t) /\ TypeInv
    BY <1>1, HeldThere
<1>3. CASE At(t, "emit") /\ InList(reg) /\ Load(t, "send", reg)
    <2>1. Sound(t, sm, "send", reg)
        BY <1>2, <1>3
            DEF HeldAt, Sound, OpOK, RegOK, RegIn, At, TypeInv, PressLabel, TickLabel,
                ResyncLabel
    <2>2. QED
        BY <1>1, <1>3, <2>1, StoreStep DEF Load
<1>4. CASE At(t, "emit") /\ Load(t, "notify", Null)
    <2>1. Sound(t, sm, "notify", Null)
        BY <1>2, <1>4
            DEF HeldAt, Sound, OpOK, RegOK, RegIn, At, TypeInv, PressLabel, TickLabel,
                ResyncLabel
    <2>2. QED
        BY <1>1, <1>4, <2>1, StoreStep DEF Load
<1>5. CASE Return(t)
    BY <1>1, <1>5, ReturnStep
<1>6. CASE At(t, "send") /\ Load(t, "emit", sends)
    <2>1. reg \in [list : List, i : Nat]
        BY <1>2, <1>6 DEF HeldAt, RegOK, At
    <2>2. sends \in [list : List, i : Nat]
        BY <2>1, SentTyped
    <2> HIDE DEF sends
    <2>3. Sound(t, sm, "emit", sends)
        BY <1>2, <1>6, <2>2
            DEF HeldAt, Sound, OpOK, RegOK, RegIn, At, TypeInv, PressLabel, TickLabel,
                ResyncLabel
    <2>4. QED
        BY <1>1, <1>6, <2>3, StoreStep DEF Load
<1>7. CASE At(t, "notify") /\ Load(t, "snapshot", begins)
    <2>1. begins \in [bank : Bank, overtaken : BOOLEAN, earlier : SUBSET Task]
        BY <1>2, MachineFields
    <2> HIDE DEF begins
    <2>2. Sound(t, sm, "snapshot", begins)
        BY <1>2, <1>7, <2>1
            DEF HeldAt, Sound, OpOK, RegOK, RegIn, ResyncOK, At, TypeInv, PressLabel, TickLabel,
                ResyncLabel
    <2>3. QED
        BY <1>1, <1>7, <2>2, StoreStep DEF Load
<1>8. CASE At(t, "snapshot") /\ Load(t, "broadcast", takes)
    <2>1. reg \in [bank : Bank, overtaken : BOOLEAN, earlier : SUBSET Task]
        BY <1>2, <1>8 DEF HeldAt, RegOK, At
    <2>2. SnapshotOf(reg.bank) \in Snapshots
        BY <1>2, <2>1, SnapshotTyped
    <2>3. takes \in [snapshot : Snapshots, overtaken : BOOLEAN, earlier : SUBSET Task]
        BY <2>1, <2>2
    <2> HIDE DEF takes
    <2>4. Sound(t, sm, "broadcast", takes)
        BY <1>2, <1>8, <2>3
            DEF HeldAt, Sound, OpOK, RegOK, RegIn, ResyncOK, At, TypeInv, PressLabel, TickLabel,
                ResyncLabel
    <2>5. QED
        BY <1>1, <1>8, <2>4, StoreStep DEF Load
<1>9. QED
    BY <1>3, <1>4, <1>5, <1>6, <1>7, <1>8 DEF Emit, SendMidi, Notify

-------------------------------------------------------------------------------
(* The other steps *)

LEMMA SameFrame ==
    ASSUME NEW u \in Task, FrameOK(u), frame'[u] = frame[u]
    PROVE  FrameOK(u)'
BY Zenon DEF FrameOK, Running, OpOK, RegOK

(* The beginning of an event. *)
LEMMA EnterStep ==
    ASSUME Inv, NEW t \in Task, NEW op, NEW registers,
           At(t, "idle"), Enter(t, op, registers),
           OpOK(op.kind, op), RegOK(op.kind, registers), op.kind \notin {"send", "resync"},
           op.kind = "post" => t = Httpd,
           synced /\ ~raced => RegIn(op.kind, registers),
           raced' = (raced \/ Resyncing),
           tick_age' \in 0 .. TickGap,
           events' \in [{Input, Httpd} -> Nat],
           \A u \in {Input, Httpd} : events'[u] <= Bound(u),
           UNCHANGED <<cfg, synced, sm, now, shown, overtaken>>
    PROVE  Inv'
<1>1. frame = [u \in Task |-> frame[u]]
    BY DEF Inv, TypeInv
<1>2. /\ frame'[t] = [op |-> op, at |-> op.kind, reg |-> registers]
      /\ \A u \in Task : u # t => frame'[u] = frame[u]
      /\ frame' = [u \in Task |-> frame'[u]]
    BY <1>1 DEF Enter
<1>3. /\ frame'[t].op = op /\ frame'[t].at = op.kind /\ frame'[t].reg = registers
      /\ frame'[t] = [op |-> frame'[t].op, at |-> frame'[t].at, reg |-> frame'[t].reg]
    BY <1>2
<1>4. ASSUME NEW u \in Task
      PROVE  FrameOK(u)'
    <2>1. CASE u = t
        <3>1. Running(frame'[u])
            BY <1>3, <2>1, Zenon DEF Running
        <3>2. frame'[u].op.kind \in {"post", "resync"} => u = Httpd
            BY <1>3, <2>1
        <3>3. QED
            BY <3>1, <3>2, Zenon DEF FrameOK, Running, OpOK, RegOK
    <2>2. CASE u # t
        BY <1>2, <2>2, SameFrame DEF Inv, TypeInv
    <2>3. QED
        BY <2>1, <2>2
<1>5. raced' \in BOOLEAN
    BY Zenon
<1>6. TypeInv'
    BY <1>2, <1>4, <1>5 DEF Inv, TypeInv, Bound
<1>7. ResyncEndsOverruns'
    <2>1. ASSUME NEW u \in Task, (At(u, "send"))', synced, ~raced
          PROVE  (frame[u].reg.i <= Len(ListAt(frame[u].reg.list)))'
        <3>1. u # t /\ frame'[u] = frame[u]
            BY <1>2, <1>3, <2>1 DEF At
        <3>2. frame[u].reg.i <= Len(ListAt(frame[u].reg.list))
            BY <2>1, <3>1 DEF Inv, ResyncEndsOverruns, At
        <3>3. QED
            BY <3>1, <3>2 DEF ListAt, Live!SlotAt, Live!Payload
    <2>2. QED
        BY <2>1 DEF ResyncEndsOverruns
<1>8. SyncedInv'
    <2>1. ASSUME NEW u \in Task, ~Resting(u)', synced, ~raced
          PROVE  RegIn(frame'[u].at, frame'[u].reg)
        <3>1. CASE u = t
            BY <1>3, <2>1, <3>1
        <3>2. CASE u # t
            BY <1>2, <2>1, <3>2 DEF Inv, BanksInv, SyncedInv, Resting, At
        <3>3. QED
            BY <3>1, <3>2
    <2>2. synced /\ ~raced => MachineIn(sm)
        BY DEF Inv, BanksInv, SyncedInv
    <2>3. raced => raced'
        OBVIOUS
    <2>4. QED
        BY <2>1, <2>2, <2>3 DEF SyncedInv, MachineIn, RegIn
<1>9. Resyncing' => Resyncing
    BY <1>2, <1>3 DEF Resyncing, Resting, At, Task
<1>10. ResyncInv'
    BY <1>9 DEF ResyncInv
<1>11. PhaseInv'
    <2>1. op.kind \notin {"idle", "saving"}
        BY DEF OpOK
    <2>2. frame'[t] # Saving /\ ~At(t, "saving")'
        BY <1>3, <2>1 DEF Saving, At
    <2>3. frame'[Input] # Saving /\ frame'[TickTask] # Saving
        BY <1>2, <2>2 DEF Inv, BanksInv, PhaseInv, Task
    <2>4. At(Httpd, "saving")' => At(Httpd, "saving")
        BY <1>2, <2>2 DEF At, Task
    <2>5. QED
        BY <1>9, <2>3, <2>4 DEF Inv, BanksInv, PhaseInv
<1>12. QED
    BY <1>6, <1>7, <1>8, <1>10, <1>11 DEF Inv, BanksInv

LEMMA BeginKeeps ==
    ASSUME Inv, NEW t \in {Input, Httpd}, NEW op,
           \/ op \in Presses[t]
           \/ t = Httpd /\ op \in [kind : {"post"}, new : Configs]
           \/ t = Httpd /\ op \in [kind : {"notify"}],
           Begin(t, op)
    PROVE  Inv'
<1>1. \/ op \in [kind : {"step"}, delta : {-1, 1}]
      \/ op \in [kind : {"press"}, slot : Slot]
      \/ op \in [kind : {"user"}, which : {"user_function_a", "user_function_b"}]
      \/ op \in [kind : {"tuner"}]
      \/ t = Httpd /\ op \in [kind : {"post"}, new : Configs]
      \/ t = Httpd /\ op \in [kind : {"notify"}]
    BY DispatchAssumption
<1>2. OpOK(op.kind, op)
    BY <1>1 DEF OpOK, PressLabel, TickLabel, ResyncLabel
<1>3. TypeInv
    BY DEF Inv
<1>4. /\ op.kind = "step" => FirstLoad(op) = [count |-> cfg.bank_count]
      /\ op.kind = "press" => FirstLoad(op) = [target |-> sm.target_bank]
      /\ op.kind = "tuner" => FirstLoad(op) = [tuner |-> ~sm.tuner_on]
      /\ op.kind = "post" => FirstLoad(op) = [copied |-> 0]
    BY DEF FirstLoad
<1>5. RegOK(op.kind, FirstLoad(op))
    <2>1. CASE op.kind = "step"
        BY <1>3, <1>4, <2>1, CountTyped DEF RegOK, PressLabel
    <2>2. CASE op.kind = "press"
        BY <1>3, <1>4, <2>2, MachineFields DEF RegOK, PressLabel
    <2>3. CASE op.kind = "tuner"
        <3>1. (~sm.tuner_on) \in BOOLEAN
            OBVIOUS
        <3>2. FirstLoad(op).tuner = ~sm.tuner_on
            <4>1. FirstLoad(op) = [tuner |-> ~sm.tuner_on]
                BY <1>4, <2>3, Zenon
            <4>2. \A d \in BOOLEAN : [tuner |-> d].tuner = d
                OBVIOUS
            <4>3. QED
                BY <3>1, <4>1, <4>2, Zenon
        <3>3. FirstLoad(op).tuner \in BOOLEAN
            BY <3>1, <3>2, Zenon
        <3>4. QED
            BY <2>3, <3>3 DEF RegOK, PressLabel
    <2>4. CASE op.kind \in {"user", "notify"}
        BY <2>4 DEF RegOK, PressLabel
    <2>5. CASE op.kind = "post"
        BY <1>4, <2>5 DEF RegOK, PressLabel
    <2>6. QED
        BY <1>1, <2>1, <2>2, <2>3, <2>4, <2>5
<1>6. synced /\ ~raced => RegIn(op.kind, FirstLoad(op))
    <2>1. synced /\ ~raced => sm.target_bank < cfg.bank_count
        BY DEF Inv, BanksInv, SyncedInv, MachineIn
    <2>2. cfg.bank_count <= cfg.bank_count
        BY <1>3, CountTyped, Sizes
    <2>3. CASE op.kind = "step"
        BY <1>4, <2>2, <2>3 DEF RegIn
    <2>4. CASE op.kind = "press"
        BY <1>4, <2>1, <2>4 DEF RegIn
    <2>5. CASE op.kind \in {"user", "tuner", "post", "notify"}
        BY <2>5 DEF RegIn
    <2>6. QED
        BY <1>1, <2>3, <2>4, <2>5
<1>7. /\ op.kind \notin {"send", "resync"}
      /\ op.kind = "post" => t = Httpd
      /\ t \in Task
    BY <1>1 DEF Task
<1>8. /\ events' \in [{Input, Httpd} -> Nat]
      /\ \A u \in {Input, Httpd} : events'[u] <= Bound(u)
    <2>1. /\ events \in [{Input, Httpd} -> Nat]
          /\ \A u \in {Input, Httpd} : events[u] <= Bound(u)
          /\ events[t] < Bound(t)
          /\ events' = [events EXCEPT ![t] = @ + 1]
        BY DEF Inv, TypeInv, Begin
    <2>2. \A u \in {Input, Httpd} : Bound(u) \in Nat
        BY Sizes DEF Bound
    <2>3. events'[t] \in Nat /\ events'[t] <= Bound(t)
        BY <2>1, <2>2
    <2>4. QED
        BY <2>1, <2>3
<1>9. tick_age' \in 0 .. TickGap
    BY DEF Inv, TypeInv, Begin
<1>10. QED
    BY <1>2, <1>5, <1>6, <1>7, <1>8, <1>9, EnterStep DEF Begin

LEMMA WakeUpKeeps ==
    ASSUME Inv, WakeUp
    PROVE  Inv'
<1> DEFINE op == [kind |-> "tick"]
           registers == [target |-> sm.target_bank]
<1>1. /\ OpOK(op.kind, op) /\ RegOK(op.kind, registers) /\ RegIn(op.kind, registers)
      /\ op.kind \notin {"send", "resync"} /\ op.kind # "post"
    BY DEF OpOK, RegOK, RegIn, PressLabel, TickLabel, ResyncLabel
<1>2. tick_age' \in 0 .. TickGap
    BY Sizes DEF WakeUp
<1>3. /\ events' \in [{Input, Httpd} -> Nat]
      /\ \A u \in {Input, Httpd} : events'[u] <= Bound(u)
    BY DEF Inv, TypeInv, WakeUp
<1>4. /\ TickTask \in Task /\ At(TickTask, "idle") /\ Enter(TickTask, op, registers)
      /\ raced' = (raced \/ Resyncing)
      /\ UNCHANGED <<cfg, synced, sm, now, shown, overtaken>>
    BY DEF WakeUp, Task
<1> HIDE DEF op, registers
<1>5. QED
    BY <1>1, <1>2, <1>3, <1>4, EnterStep

LEMMA RegMarked ==
    ASSUME NEW S, NEW r, NEW w \in BOOLEAN, NEW d \in SUBSET Task
    PROVE  LET q == [r EXCEPT !.overtaken = w, !.earlier = d]
           IN  /\ r \in [bank : S, overtaken : BOOLEAN, earlier : SUBSET Task] =>
                    /\ q \in [bank : S, overtaken : BOOLEAN, earlier : SUBSET Task]
                    /\ q.bank = r.bank /\ q.overtaken = w /\ q.earlier = d
               /\ r \in [snapshot : S, overtaken : BOOLEAN, earlier : SUBSET Task] =>
                    /\ q \in [snapshot : S, overtaken : BOOLEAN, earlier : SUBSET Task]
                    /\ q.snapshot = r.snapshot /\ q.overtaken = w /\ q.earlier = d
OBVIOUS

(* A snapshot under way when another one is sent.                           *)
Marked(f, v, e) == [f EXCEPT !.reg.overtaken = @ \/ v, !.reg.earlier = @ \ e]

LEMMA OvertakenTyped ==
    ASSUME NEW f, Running(f), f.at \in {"snapshot", "broadcast"}, NEW v, NEW e
    PROVE  /\ Running(Marked(f, v, e))
           /\ Marked(f, v, e).op = f.op /\ Marked(f, v, e).at = f.at
           /\ f.at = "snapshot" => Marked(f, v, e).reg.bank = f.reg.bank
           /\ f.at = "broadcast" => Marked(f, v, e).reg.snapshot = f.reg.snapshot
           /\ Marked(f, v, e).reg.overtaken = (f.reg.overtaken \/ v)
           /\ Marked(f, v, e).reg.earlier = f.reg.earlier \ e
<1> DEFINE w == f.reg.overtaken \/ v
           d == f.reg.earlier \ e
           reg == [f.reg EXCEPT !.overtaken = w, !.earlier = d]
           g == [op |-> f.op, at |-> f.at, reg |-> reg]
<1>1. f = [op |-> f.op, at |-> f.at, reg |-> f.reg] /\ OpOK(f.at, f.op) /\ RegOK(f.at, f.reg)
    BY Zenon DEF Running
<1>2. \/ f.at = "snapshot"
            /\ f.reg \in [bank : Bank, overtaken : BOOLEAN, earlier : SUBSET Task]
      \/ f.at = "broadcast"
            /\ f.reg \in [snapshot : Snapshots, overtaken : BOOLEAN, earlier : SUBSET Task]
    BY <1>1 DEF RegOK
<1>3. Marked(f, v, e) = g
    <2>1. Marked(f, v, e) = [f EXCEPT !.reg = reg]
        BY Zenon DEF Marked
    <2>2. \A r : [f EXCEPT !.reg = r] = [op |-> f.op, at |-> f.at, reg |-> r]
        BY <1>1
    <2>3. QED
        BY <2>1, <2>2, Zenon
<1>4. w \in BOOLEAN /\ d \in SUBSET Task
    <2>1. w \in BOOLEAN
        OBVIOUS
    <2>2. d \in SUBSET Task
        BY <1>2
    <2>3. QED
        BY <2>1, <2>2
<1> HIDE DEF w, d
<1>5. ASSUME f.at = "snapshot"
      PROVE  /\ reg \in [bank : Bank, overtaken : BOOLEAN, earlier : SUBSET Task]
             /\ reg.bank = f.reg.bank
    <2>1. f.reg \in [bank : Bank, overtaken : BOOLEAN, earlier : SUBSET Task]
        BY <1>2, <1>5
    <2>2. QED
        BY <2>1, <1>4, RegMarked
<1>6. ASSUME f.at = "broadcast"
      PROVE  /\ reg \in [snapshot : Snapshots, overtaken : BOOLEAN, earlier : SUBSET Task]
             /\ reg.snapshot = f.reg.snapshot
    <2>1. f.reg \in [snapshot : Snapshots, overtaken : BOOLEAN, earlier : SUBSET Task]
        BY <1>2, <1>6
    <2>2. QED
        BY <2>1, <1>4, RegMarked
<1>11. reg.overtaken = w /\ reg.earlier = d
    BY <1>2, <1>4, RegMarked
<1> HIDE DEF reg
<1>7. RegOK(f.at, reg)
    BY <1>5, <1>6 DEF RegOK, PressLabel
<1>8. g.op = f.op /\ g.at = f.at /\ g.reg = reg
    OBVIOUS
<1>9. Running(g)
    BY <1>1, <1>7, <1>8, Zenon DEF Running
<1>10. QED
    BY <1>3, <1>5, <1>6, <1>11, <1>8, <1>9, Zenon DEF w, d

(* What the others see of it. *)
LEMMA BroadcastFrames ==
    ASSUME Inv, NEW t \in Task, LeaveSnapshot(t)
    PROVE  /\ frame'[t] = Idle
           /\ \A u \in Task : u # t /\ ~InSnapshot(u) => frame'[u] = frame[u]
           /\ \A u \in Task : u # t /\ InSnapshot(u) =>
                /\ Running(frame'[u])
                /\ frame'[u].op = frame[u].op /\ frame'[u].at = frame[u].at
                /\ frame[u].at = "snapshot" => frame'[u].reg.bank = frame[u].reg.bank
                /\ frame[u].at = "broadcast" =>
                        frame'[u].reg.snapshot = frame[u].reg.snapshot
                /\ frame'[u].reg.overtaken
                        = (frame[u].reg.overtaken \/ u \in frame[t].reg.earlier)
                /\ frame'[u].reg.earlier = frame[u].reg.earlier \ {t}
           /\ frame' = [u \in Task |-> frame'[u]]
<1> DEFINE sees(u) == Marked(frame[u], u \in frame[t].reg.earlier, {t})
<1> DEFINE rest(u) == IF InSnapshot(u) THEN sees(u) ELSE frame[u]
<1>1. /\ frame'[t] = Idle
      /\ \A u \in Task : u # t /\ ~InSnapshot(u) => frame'[u] = frame[u]
      /\ \A u \in Task : u # t /\ InSnapshot(u) => frame'[u] = sees(u)
      /\ frame' = [u \in Task |-> frame'[u]]
    <2>1. frame' = [u \in Task |-> IF u = t THEN Idle ELSE rest(u)]
        BY Zenon DEF LeaveSnapshot, Marked
    <2> HIDE DEF sees
    <2>2. QED
        BY <2>1
<1>2. ASSUME NEW u \in Task, InSnapshot(u)
      PROVE  /\ Running(sees(u))
             /\ sees(u).op = frame[u].op /\ sees(u).at = frame[u].at
             /\ frame[u].at = "snapshot" => sees(u).reg.bank = frame[u].reg.bank
             /\ frame[u].at = "broadcast" => sees(u).reg.snapshot = frame[u].reg.snapshot
             /\ sees(u).reg.overtaken
                    = (frame[u].reg.overtaken \/ u \in frame[t].reg.earlier)
             /\ sees(u).reg.earlier = frame[u].reg.earlier \ {t}
    <2>1. ~Resting(u) /\ frame[u].at \in {"snapshot", "broadcast"}
        BY <1>2 DEF InSnapshot, Resting, At
    <2>2. Running(frame[u])
        BY <2>1, Held
    <2>3. \A v, e : LET g == Marked(frame[u], v, e)
                     IN  /\ Running(g)
                         /\ g.op = frame[u].op /\ g.at = frame[u].at
                         /\ frame[u].at = "snapshot" => g.reg.bank = frame[u].reg.bank
                         /\ frame[u].at = "broadcast" =>
                                g.reg.snapshot = frame[u].reg.snapshot
                         /\ g.reg.overtaken = (frame[u].reg.overtaken \/ v)
                         /\ g.reg.earlier = frame[u].reg.earlier \ e
        BY <2>1, <2>2, OvertakenTyped
    <2> DEFINE v == u \in frame[t].reg.earlier
               g == Marked(frame[u], v, {t})
    <2> HIDE DEF v
    <2>4. /\ Running(g)
          /\ g.op = frame[u].op /\ g.at = frame[u].at
          /\ frame[u].at = "snapshot" => g.reg.bank = frame[u].reg.bank
          /\ frame[u].at = "broadcast" => g.reg.snapshot = frame[u].reg.snapshot
          /\ g.reg.overtaken = (frame[u].reg.overtaken \/ v)
          /\ g.reg.earlier = frame[u].reg.earlier \ {t}
        BY <2>3
    <2>5. sees(u) = g
        BY Zenon DEF v
    <2> HIDE DEF g, sees
    <2>6. QED
        BY <2>4, <2>5, Zenon DEF v
<1> HIDE DEF sees
<1>3. QED
    BY <1>1, <1>2

LEMMA BroadcastKeeps ==
    ASSUME Inv, NEW t \in Task, Broadcast(t) \/ FrameNotMade(t)
    PROVE  Inv'
<1> DEFINE reg == frame[t].reg
<1>1. ~Resting(t) /\ At(t, "broadcast")
    BY DEF Broadcast, FrameNotMade, LeaveSnapshot, Resting, At
<1>2. HeldAt(t) /\ TypeInv
    BY <1>1, HeldThere
<1>3. reg \in [snapshot : Snapshots, overtaken : BOOLEAN, earlier : SUBSET Task]
    BY <1>1, <1>2 DEF HeldAt, RegOK, At
<1>4. /\ LeaveSnapshot(t)
      /\ synced' = (synced \/ frame[t].op.kind = "resync")
      /\ UNCHANGED <<cfg, sm, now, tick_age, events, raced>>
      /\ shown' \in {reg.snapshot, shown}
      /\ overtaken' \in {reg.overtaken, overtaken \/ ~reg.overtaken, TRUE}
    BY DEF Broadcast, FrameNotMade, LeaveSnapshot
<1>5. /\ frame'[t] = Idle
      /\ \A u \in Task : u # t => frame'[u] = frame[u] \/ InSnapshot(u)
      /\ frame' = [u \in Task |-> frame'[u]]
    BY <1>4, BroadcastFrames
<1>6. ASSUME NEW u \in Task, u # t, InSnapshot(u)
      PROVE  /\ FrameOK(u)'
             /\ frame'[u].op = frame[u].op /\ frame'[u].at = frame[u].at
    <2>1. ~Resting(u)
        BY <1>6 DEF InSnapshot, Resting, At
    <2>2. frame[u].op.kind \in {"post", "resync"} => u = Httpd
        BY <2>1, Held
    <2>3. /\ Running(frame'[u])
          /\ frame'[u].op = frame[u].op /\ frame'[u].at = frame[u].at
        BY <1>4, <1>6, BroadcastFrames
    <2>4. frame'[u].op.kind \in {"post", "resync"} => u = Httpd
        BY <2>2, <2>3, Zenon
    <2>5. FrameOK(u)'
        BY <2>3, <2>4, Zenon DEF FrameOK, Running, OpOK, RegOK
    <2>6. QED
        BY <2>3, <2>5
<1>7. ASSUME NEW u \in Task
      PROVE  FrameOK(u)'
    <2>1. CASE u = t
        BY <1>5, <2>1, Zenon DEF FrameOK, Idle
    <2>2. CASE u # t /\ frame'[u] = frame[u]
        BY <1>2, <2>2, SameFrame DEF TypeInv
    <2>3. CASE u # t /\ InSnapshot(u)
        BY <1>6, <2>3
    <2>4. QED
        BY <1>5, <2>1, <2>2, <2>3
<1>8. synced' \in BOOLEAN /\ shown' \in Snapshots /\ overtaken' \in BOOLEAN
    <2>1. synced' \in BOOLEAN
        BY <1>4, Zenon
    <2>2. shown' \in Snapshots /\ reg.overtaken \in BOOLEAN
        BY <1>2, <1>3, <1>4 DEF TypeInv
    <2>3. (overtaken \/ ~reg.overtaken) \in BOOLEAN
        OBVIOUS
    <2>4. QED
        BY <1>4, <2>1, <2>2, <2>3, Zenon
<1>9. TypeInv'
    <2>1. /\ cfg \in Live!Config /\ cfg.bank_count > 0 /\ raced \in BOOLEAN /\ sm \in Machine
          /\ now \in Live!Millis /\ tick_age \in 0 .. TickGap
          /\ events \in [{Input, Httpd} -> Nat]
          /\ \A u \in {Input, Httpd} : events[u] <= Bound(u)
        BY <1>2 DEF TypeInv
    <2>2. QED
        BY <1>4, <1>5, <1>7, <1>8, <2>1 DEF TypeInv, Bound
<1>10. \A u \in Task : ~Resting(u)' =>
          /\ u # t /\ ~Resting(u)
          /\ frame'[u].at = frame[u].at /\ frame'[u].op = frame[u].op
          /\ frame'[u] = frame[u] \/ InSnapshot(u)
    <2>1. ASSUME NEW u \in Task, ~Resting(u)'
          PROVE  u # t
        BY <1>5, <2>1 DEF Resting, At, Idle
    <2>2. ASSUME NEW u \in Task, ~Resting(u)', u # t
          PROVE  /\ frame'[u].at = frame[u].at /\ frame'[u].op = frame[u].op
                 /\ frame'[u] = frame[u] \/ InSnapshot(u)
        BY <1>5, <1>6, <2>2
    <2>3. QED
        BY <2>1, <2>2 DEF Resting, At
<1>11. ResyncEndsOverruns'
    <2>1. ASSUME NEW u \in Task, (At(u, "send"))', synced', ~raced'
          PROVE  (frame[u].reg.i <= Len(ListAt(frame[u].reg.list)))'
        <3>1. ~Resting(u)'
            BY <2>1 DEF Resting, At
        <3>2. frame[u].at = "send"
            BY <1>10, <2>1, <3>1 DEF At
        <3>3. frame'[u] = frame[u]
            BY <1>10, <3>1, <3>2 DEF InSnapshot, At
        <3>4. CASE frame[t].op.kind = "resync"
            <4>1. Resyncing /\ t = Httpd
                BY <1>1, <3>4, Held DEF Resyncing
            <4>2. Resting(Input) /\ Resting(TickTask) /\ ~Resting(u) /\ u # t
                BY <1>4, <1>10, <2>1, <3>1, <4>1 DEF Inv, BanksInv, ResyncInv
            <4>3. QED
                BY <4>1, <4>2 DEF Task
        <3>5. CASE synced
            <4>1. ~raced
                BY <1>4, <2>1, Zenon
            <4>2. frame[u].reg.i <= Len(ListAt(frame[u].reg.list))
                BY <3>2, <3>5, <4>1, Zenon DEF Inv, ResyncEndsOverruns, At
            <4>3. (ListAt(frame[u].reg.list))' = ListAt(frame[u].reg.list)
                BY <1>4, <3>3 DEF ListAt, Live!SlotAt, Live!Payload
            <4>4. QED
                BY <3>3, <4>2, <4>3, Zenon
        <3>6. synced \/ frame[t].op.kind = "resync"
            BY <1>4, <2>1, Zenon
        <3>7. QED
            BY <3>4, <3>5, <3>6
    <2>2. QED
        BY <2>1 DEF ResyncEndsOverruns
<1>12. SyncedInv'
    <2> SUFFICES ASSUME synced', ~raced'
                 PROVE  (/\ MachineIn(sm)
                         /\ \A u \in Task : ~Resting(u) => RegIn(frame[u].at, frame[u].reg))'
        BY Zenon DEF SyncedInv
    <2>1. MachineIn(sm)
        <3>1. CASE synced
            BY <1>4, <3>1 DEF Inv, BanksInv, SyncedInv
        <3>2. CASE frame[t].op.kind = "resync"
            BY <1>1, <1>2, <1>4, <3>2 DEF HeldAt, ResyncOK, At
        <3>3. QED
            BY <1>4, <3>1, <3>2
    <2>2. ASSUME NEW u \in Task, ~Resting(u)'
          PROVE  RegIn(frame'[u].at, frame'[u].reg)
        <3>1. CASE InSnapshot(u)
            BY <1>10, <2>2, <3>1 DEF InSnapshot, At, RegIn
        <3>2. CASE frame'[u] = frame[u] /\ synced
            BY <1>4, <1>10, <2>2, <3>2 DEF Inv, BanksInv, SyncedInv
        <3>3. CASE frame[t].op.kind = "resync"
            <4>1. t = Httpd /\ Resyncing
                BY <1>1, <3>3, Held DEF Resyncing
            <4>2. Resting(Input) /\ Resting(TickTask)
                BY <1>4, <4>1 DEF Inv, BanksInv, ResyncInv
            <4>3. QED
                BY <1>10, <2>2, <4>1, <4>2 DEF Task
        <3>4. QED
            BY <1>4, <1>10, <2>2, <3>1, <3>2, <3>3
    <2>3. QED
        BY <1>4, <2>1, <2>2 DEF MachineIn, RegIn
<1>13. Resyncing' => Resyncing /\ t # Httpd
    BY <1>10 DEF Resyncing, Task
<1>14. ResyncInv'
    <2>1. Resyncing' => raced
        BY <1>1, <1>13 DEF Inv, BanksInv, ResyncInv, Task
    <2>2. QED
        BY <1>4, <2>1 DEF ResyncInv
<1>15. PhaseInv'
    <2>1. ASSUME NEW u \in Task, At(u, "saving")'
          PROVE  u # t /\ At(u, "saving")
        <3>1. u # t
            BY <1>5, <2>1 DEF At, Idle
        <3>2. InSnapshot(u) => frame'[u].at = frame[u].at
            BY <1>6, <3>1
        <3>3. QED
            BY <1>5, <2>1, <3>1, <3>2 DEF At
    <2>2. t # Httpd /\ ~synced => ~synced'
        BY <1>1, <1>4, Held
    <2>3. \A u \in Task : frame'[u] = Saving => frame[u] = Saving
        <3>1. ASSUME NEW u \in Task, frame'[u] = Saving
              PROVE  frame[u] = Saving
            <4>1. At(u, "saving")' /\ u # t /\ At(u, "saving")
                BY <2>1, <3>1 DEF At, Saving
            <4>2. QED
                BY <1>5, <3>1, <4>1 DEF InSnapshot, At
        <3>2. QED
            BY <3>1
    <2>4. QED
        BY <1>13, <2>1, <2>2, <2>3 DEF Inv, BanksInv, PhaseInv, Task
<1>16. QED
    BY <1>9, <1>11, <1>12, <1>14, <1>15 DEF Inv, BanksInv

LEMMA Updated ==
    ASSUME NEW S, NEW T, NEW f \in [S -> T], NEW x \in S, NEW y \in T
    PROVE  [f EXCEPT ![x] = y] \in [S -> T]
OBVIOUS

(* One more member of the configuration has been copied. *)
LEMMA CopiedOne ==
    ASSUME NEW f, Running(f), f.at = "post", f.reg \in [copied : Nat]
    PROVE  LET g == [f EXCEPT !.reg.copied = @ + 1]
           IN  Running(g) /\ g.op = f.op /\ g.at = "post"
<1> DEFINE reg == [f.reg EXCEPT !.copied = f.reg.copied + 1]
           g == [op |-> f.op, at |-> f.at, reg |-> reg]
<1>1. f = [op |-> f.op, at |-> f.at, reg |-> f.reg] /\ OpOK(f.at, f.op)
    BY Zenon DEF Running
<1>2. [f EXCEPT !.reg.copied = @ + 1] = g
    <2>1. [f EXCEPT !.reg.copied = @ + 1] = [f EXCEPT !.reg = reg]
        BY Zenon
    <2>2. \A r : [f EXCEPT !.reg = r] = [op |-> f.op, at |-> f.at, reg |-> r]
        BY <1>1
    <2>3. QED
        BY <2>1, <2>2, Zenon
<1>3. reg \in [copied : Nat]
    OBVIOUS
<1> HIDE DEF reg
<1>4. RegOK(f.at, reg)
    BY <1>3 DEF RegOK, PressLabel
<1>5. g.op = f.op /\ g.at = f.at /\ g.reg = reg
    OBVIOUS
<1>6. Running(g)
    BY <1>1, <1>4, <1>5, Zenon DEF Running
<1>7. QED
    BY <1>2, <1>5, <1>6, Zenon

LEMMA CopiedTyped ==
    ASSUME NEW c \in Live!Config, c.bank_count > 0, cfg = c,
           NEW new \in Configs, NEW step \in Nat
    PROVE  Copied(step, new) \in Live!Config /\ Copied(step, new).bank_count > 0
<1>1. new \in Live!Config /\ new.bank_count > 0
    BY DispatchAssumption
<1>2. CASE step = 0
    <2>1. Copied(step, new) = [new EXCEPT !.banks = c.banks, !.bank_count = c.bank_count]
        BY <1>2 DEF Copied
    <2>2. QED
        BY <1>1, <2>1 DEF Live!Config
<1>3. CASE step # 0 /\ step <= MAX_BANKS
    <2>1. step - 1 \in Live!Bank
        BY <1>3, Sizes DEF Live!Bank
    <2>2. c.banks \in [Live!Bank -> [Live!Slot -> Live!ProgramSlot]]
          /\ new.banks[step - 1] \in [Live!Slot -> Live!ProgramSlot]
        BY <1>1, <2>1 DEF Live!Config
    <2>3. [c.banks EXCEPT ![step - 1] = new.banks[step - 1]]
            \in [Live!Bank -> [Live!Slot -> Live!ProgramSlot]]
        BY <2>1, <2>2, Zenon, Updated
    <2>4. Copied(step, new)
            = [c EXCEPT !.banks = [c.banks EXCEPT ![step - 1] = new.banks[step - 1]]]
        BY <1>3, Zenon DEF Copied
    <2>5. QED
        BY <2>3, <2>4 DEF Live!Config
<1>4. CASE step > MAX_BANKS
    <2>1. Copied(step, new) = [c EXCEPT !.bank_count = new.bank_count]
        BY <1>4, Sizes DEF Copied
    <2>2. QED
        BY <1>1, <2>1 DEF Live!Config
<1>5. QED
    BY <1>2, <1>3, <1>4, Sizes

(* The step leaves the other tasks where they are. *)
LEMMA CopyFrame ==
    ASSUME Inv, CopyConfig
    PROVE  /\ frame' = [u \in Task |-> frame'[u]]
           /\ \/ frame'[Httpd] = Saving
              \/ frame'[Httpd] = [frame[Httpd] EXCEPT !.reg.copied = @ + 1]
           /\ \A u \in Task : u # Httpd => frame'[u] = frame[u]
<1> DEFINE goes == [frame[Httpd] EXCEPT !.reg.copied = @ + 1]
<1>1. Httpd \in Task /\ frame = [u \in Task |-> frame[u]]
    BY DEF Inv, TypeInv, Task
<1>2. frame' = [frame EXCEPT ![Httpd] = Saving] \/ frame' = [frame EXCEPT ![Httpd] = goes]
    BY Zenon DEF CopyConfig
<1> HIDE DEF goes
<1>3. \A f : LET g == [frame EXCEPT ![Httpd] = f]
             IN  /\ g = [u \in Task |-> g[u]] /\ g[Httpd] = f
                 /\ \A u \in Task : u # Httpd => g[u] = frame[u]
    BY <1>1
<1>4. QED
    BY <1>2, <1>3, Zenon DEF goes

LEMMA CopyConfigKeeps ==
    ASSUME Inv, CopyConfig
    PROVE  Inv'
<1> DEFINE copied == frame[Httpd].reg.copied
           new == frame[Httpd].op.new
           goes == [frame[Httpd] EXCEPT !.reg.copied = @ + 1]
<1>1. ~Resting(Httpd) /\ Httpd \in Task /\ frame[Httpd].at = "post"
    BY DEF CopyConfig, Resting, At, Task
<1>2. HeldAt(Httpd) /\ TypeInv /\ Running(frame[Httpd])
    BY <1>1, HeldThere, Held
<1>3. /\ frame[Httpd].op.kind = "post" /\ new \in Configs
      /\ frame[Httpd].reg \in [copied : Nat]
    BY <1>1, <1>2 DEF HeldAt, OpOK, RegOK
<1>4. /\ cfg' = Copied(copied, new) /\ synced' = FALSE
      /\ UNCHANGED <<sm, now, tick_age, shown, events, overtaken, raced>>
      /\ frame' = [u \in Task |-> frame'[u]]
      /\ frame'[Httpd] = Saving \/ frame'[Httpd] = goes
      /\ \A u \in Task : u # Httpd => frame'[u] = frame[u]
    BY <1>1, <1>2, CopyFrame DEF CopyConfig, TypeInv
<1>5. cfg' \in Live!Config /\ (cfg.bank_count > 0)'
    <2>1. copied \in Nat /\ cfg \in Live!Config /\ cfg.bank_count > 0
        BY <1>2, <1>3 DEF TypeInv
    <2>2. Copied(copied, new) \in Live!Config /\ Copied(copied, new).bank_count > 0
        BY <1>3, <2>1, CopiedTyped
    <2>3. QED
        BY <1>4, <2>2, Zenon
<1>6. /\ Running(goes) /\ goes.op = frame[Httpd].op /\ goes.at = "post"
    BY <1>1, <1>2, <1>3, CopiedOne
<1> HIDE DEF goes
<1>8. ASSUME NEW u \in Task
      PROVE  FrameOK(u)'
    <2>1. CASE frame'[u] = Saving
        BY <2>1, Zenon DEF FrameOK
    <2>2. CASE u = Httpd /\ frame'[u] = goes
        BY <1>6, <2>2, Zenon DEF FrameOK, Running, OpOK, RegOK
    <2>3. CASE u # Httpd
        BY <1>2, <1>4, <2>3, SameFrame DEF TypeInv
    <2>4. QED
        BY <1>4, <2>1, <2>2, <2>3
<1>9. TypeInv'
    <2>1. /\ raced \in BOOLEAN /\ sm \in Machine /\ overtaken \in BOOLEAN /\ shown \in Snapshots
          /\ now \in Live!Millis /\ tick_age \in 0 .. TickGap
          /\ events \in [{Input, Httpd} -> Nat]
          /\ \A u \in {Input, Httpd} : events[u] <= Bound(u)
        BY <1>2 DEF TypeInv
    <2>2. QED
        BY <1>4, <1>5, <1>8, <2>1 DEF TypeInv, Bound
<1>11. ResyncEndsOverruns'
    BY <1>4 DEF ResyncEndsOverruns
<1>12. SyncedInv'
    BY <1>4 DEF SyncedInv
<1>13. ~Resyncing'
    BY <1>3, <1>4, <1>6 DEF Resyncing, Resting, At, Saving
<1>14. ResyncInv' /\ PhaseInv'
    <2>1. \A u \in {Input, TickTask} : frame'[u] # Saving
        BY <1>4, TasksDiffer DEF Task, Inv, BanksInv, PhaseInv
    <2>2. QED
        BY <1>4, <1>13, <2>1 DEF ResyncInv, PhaseInv
<1>15. QED
    BY <1>9, <1>11, <1>12, <1>14 DEF Inv, BanksInv

LEMMA SaveReturnsKeeps ==
    ASSUME Inv, SaveReturns
    PROVE  Inv'
<1> DEFINE op == [kind |-> "resync"]
           registers == [bank |-> sm.current_bank]
<1>1. Httpd \in Task /\ At(Httpd, "saving") /\ ~synced
    BY DEF SaveReturns, Task, Inv, BanksInv, PhaseInv
<1>2. CASE frame' = [frame EXCEPT ![Httpd] = Idle] /\ UNCHANGED raced
    <2>1. Return(Httpd)
        BY <1>2 DEF SaveReturns, Return
    <2>2. QED
        BY <1>1, <2>1, ReturnStep
<1>3. CASE /\ Enter(Httpd, op, registers)
           /\ raced' = ~(Resting(Input) /\ Resting(TickTask))
    <2>1. UNCHANGED <<cfg, synced, sm, now, tick_age, shown, events, overtaken>>
        BY DEF SaveReturns
    <2>2. TypeInv
        BY DEF Inv
    <2>3. OpOK("resync", op) /\ RegOK("resync", registers)
        BY <2>2, MachineFields DEF OpOK, RegOK, PressLabel, TickLabel, ResyncLabel
    <2>4. /\ frame'[Httpd] = [op |-> op, at |-> "resync", reg |-> registers]
          /\ \A u \in Task : u # Httpd => frame'[u] = frame[u]
          /\ frame' = [u \in Task |-> frame'[u]]
        <3>1. frame = [u \in Task |-> frame[u]]
            BY <2>2 DEF TypeInv
        <3>2. QED
            BY <1>1, <1>3, <3>1 DEF Enter
    <2>5. /\ frame'[Httpd].op = op /\ frame'[Httpd].at = "resync"
          /\ frame'[Httpd].reg = registers
          /\ frame'[Httpd] = [op |-> frame'[Httpd].op, at |-> frame'[Httpd].at,
                              reg |-> frame'[Httpd].reg]
        BY <2>4
    <2>6. Running(frame'[Httpd])
        BY <2>3, <2>5, Zenon DEF Running
    <2>7. ASSUME NEW u \in Task
          PROVE  FrameOK(u)'
        <3>1. CASE u = Httpd
            BY <2>6, <3>1, Zenon DEF FrameOK, Running, OpOK, RegOK
        <3>2. CASE u # Httpd
            BY <2>2, <2>4, <3>2, SameFrame DEF TypeInv
        <3>3. QED
            BY <3>1, <3>2
    <2>8. raced' \in BOOLEAN
        BY <1>3, Zenon
    <2>9. TypeInv'
        BY <2>1, <2>2, <2>4, <2>7, <2>8 DEF TypeInv, Bound
    <2>10. ResyncEndsOverruns'
        BY <1>1, <2>1 DEF ResyncEndsOverruns
    <2>11. SyncedInv'
        BY <1>1, <2>1 DEF SyncedInv
    <2>12. ResyncInv'
        <3>1. ASSUME ~raced'
              PROVE  Resting(Input)' /\ Resting(TickTask)'
            BY <1>3, <2>4, <3>1, TasksDiffer DEF Resting, At, Task
        <3>2. ResyncOK("resync", registers, sm)
            BY DEF ResyncOK
        <3>3. ResyncOK(frame[Httpd].at, frame[Httpd].reg, sm)'
            BY <2>1, <2>5 DEF ResyncOK
        <3>4. QED
            BY <3>1, <3>3 DEF ResyncInv
    <2>13. PhaseInv'
        <3>1. frame'[Input] # Saving /\ frame'[TickTask] # Saving
            BY <2>4, TasksDiffer DEF Inv, BanksInv, PhaseInv, Task
        <3>2. QED
            BY <1>1, <2>1, <3>1 DEF PhaseInv
    <2>14. QED
        BY <2>9, <2>10, <2>11, <2>12, <2>13 DEF Inv, BanksInv
<1>4. QED
    BY <1>2, <1>3 DEF SaveReturns

LEMMA UntouchedKeeps ==
    ASSUME Inv, now' \in Live!Millis, tick_age' \in 0 .. TickGap,
           UNCHANGED <<cfg, synced, sm, shown, frame, events, overtaken, raced>>
    PROVE  Inv'
<1>1. \A u \in Task : FrameOK(u)'
    BY SameFrame DEF Inv, TypeInv
<1>2. TypeInv'
    BY <1>1 DEF Inv, TypeInv, Bound
<1>3. ResyncEndsOverruns'
    BY DEF Inv, ResyncEndsOverruns, At, ListAt, Live!SlotAt, Live!Payload
<1>4. BanksInv'
    <2>1. Resting(Input)' = Resting(Input) /\ Resting(TickTask)' = Resting(TickTask)
          /\ Resyncing' = Resyncing /\ \A u \in Task : Resting(u)' = Resting(u)
        BY DEF Resyncing, Resting, At
    <2>2. SyncedInv'
        BY <2>1 DEF Inv, BanksInv, SyncedInv, RegIn, MachineIn
    <2>3. ResyncInv'
        BY <2>1 DEF Inv, BanksInv, ResyncInv, ResyncOK, MachineIn
    <2>4. PhaseInv'
        BY <2>1 DEF Inv, BanksInv, PhaseInv, At
    <2>5. QED
        BY <2>2, <2>3, <2>4 DEF BanksInv
<1>5. QED
    BY <1>2, <1>3, <1>4 DEF Inv

LEMMA AdvanceClockKeeps ==
    ASSUME Inv, AdvanceClock
    PROVE  Inv'
<1>1. now \in Nat /\ tick_age \in 0 .. TickGap
    BY Sizes DEF Inv, TypeInv, Live!Millis
<1>2. \A a \in Nat, n \in Nat \ {0} : (a + 1) % n \in 0 .. n - 1
    OBVIOUS
<1>3. now' \in Live!Millis
    BY <1>1, <1>2, Sizes DEF AdvanceClock, Live!Millis
<1>4. tick_age' \in 0 .. TickGap
    BY <1>1, Sizes DEF AdvanceClock
<1>5. QED
    BY <1>3, <1>4, UntouchedKeeps DEF AdvanceClock

LEMMA InvInit == Init => Inv
<1> SUFFICES ASSUME Init
             PROVE  Inv
    OBVIOUS
<1>1. cfg \in Live!Config /\ cfg.bank_count > 0
    BY DispatchAssumption DEF Init
<1>2. cfg.bank_count \in 1 .. MAX_BANKS /\ cfg.banks \in [Bank -> [Slot -> Live!ProgramSlot]]
    BY <1>1, Sizes DEF Live!Config, Live!Bank, Live!Slot, Bank, Slot
<1>3. /\ sm \in [current_bank : {0}, target_bank : 0 .. cfg.bank_count - 1,
                 current_slot : {0}, alt_active : [Slot -> BOOLEAN],
                 tuner_on : {FALSE}, browse_started_ms : {0}]
      /\ 0 .. cfg.bank_count - 1 \subseteq Bank
    <2>1. \A m \in Nat : \A n \in 1 .. m : 0 .. n - 1 \subseteq 0 .. m - 1
        OBVIOUS
    <2>2. 0 .. cfg.bank_count - 1 \subseteq Bank
        BY <1>2, <2>1, Sizes DEF Bank
    <2>3. QED
        BY <2>2, Zenon DEF Init
<1>4. sm \in Machine /\ MachineIn(sm)
    <2>1. sm \in Machine
        <3>1. \A A, B, C, D, E, F, a, b, c, d, e :
                a \subseteq A /\ b \subseteq B /\ c \subseteq C /\ d \subseteq E /\ e \subseteq F =>
                [current_bank : a, target_bank : b, current_slot : c, alt_active : D,
                 tuner_on : d, browse_started_ms : e]
                  \subseteq [current_bank : A, target_bank : B, current_slot : C,
                             alt_active : D, tuner_on : E, browse_started_ms : F]
            OBVIOUS
        <3>2. /\ {0} \subseteq Bank /\ {0} \subseteq Slot /\ {FALSE} \subseteq BOOLEAN
              /\ {0} \subseteq Live!Millis
            BY Sizes
        <3>3. QED
            BY <1>3, <3>1, <3>2, Zenon DEF Machine
    <2>2. 0 < cfg.bank_count /\ \A b \in 0 .. cfg.bank_count - 1 : b < cfg.bank_count
        BY <1>2, Sizes
    <2>3. QED
        BY <1>3, <2>1, <2>2 DEF MachineIn
<1>5. \A t \in Task : frame[t] = Idle
    BY DEF Init
<1>6. SnapshotOf(0) \in Snapshots
    <2>1. sm.current_slot = 0 /\ sm.tuner_on \in BOOLEAN /\ sm.target_bank \in Bank
        BY <1>3
    <2> DEFINE alt == sm.alt_active[sm.current_slot]
                        /\ Live!SlotAt(0, sm.current_slot).has_alternative
               empty == Live!SlotAt(0, sm.current_slot).primary = <<>>
    <2>2. alt \in BOOLEAN /\ empty \in BOOLEAN
        OBVIOUS
    <2>3. SnapshotOf(0) = [current_bank |-> 0, target_bank |-> sm.target_bank,
                           current_slot |-> sm.current_slot, alt |-> alt, empty |-> empty,
                           tuner_on |-> sm.tuner_on]
        BY Zenon DEF SnapshotOf
    <2>4. \A b \in Bank, s \in Slot, a, e, d \in BOOLEAN :
            [current_bank |-> 0, target_bank |-> b, current_slot |-> s, alt |-> a,
             empty |-> e, tuner_on |-> d] \in Snapshots
        BY Sizes DEF Snapshots
    <2> HIDE DEF alt, empty
    <2>5. QED
        BY <2>1, <2>2, <2>3, <2>4, Sizes, Zenon
<1>7. TypeInv
    <2>1. /\ synced \in BOOLEAN /\ raced \in BOOLEAN /\ overtaken \in BOOLEAN
          /\ now \in Live!Millis /\ tick_age \in 0 .. TickGap
        <3>1. synced = TRUE /\ raced = FALSE /\ overtaken = FALSE /\ now = 0 /\ tick_age = 0
            BY Zenon DEF Init
        <3>2. 0 \in 0 .. TickGap
            BY Sizes
        <3>3. QED
            BY <3>1, <3>2, Sizes, Zenon
    <2>2. /\ events \in [{Input, Httpd} -> Nat]
          /\ \A t \in {Input, Httpd} : events[t] <= Bound(t)
        BY Sizes DEF Init, Bound
    <2>3. frame = [t \in Task |-> frame[t]] /\ \A t \in Task : FrameOK(t)
        BY <1>5 DEF Init, FrameOK
    <2>4. shown \in Snapshots
        BY <1>6 DEF Init
    <2>5. QED
        BY <1>1, <1>4, <2>1, <2>2, <2>3, <2>4 DEF TypeInv
<1>8. \A t \in Task : frame[t].at = "idle"
    BY <1>5 DEF Idle
<1>9. ResyncEndsOverruns
    BY <1>8 DEF ResyncEndsOverruns, At
<1>10. BanksInv
    BY <1>4, <1>5, <1>8
        DEF BanksInv, SyncedInv, ResyncInv, PhaseInv, Resyncing, Resting, At, Task, Idle, Saving
<1>11. QED
    BY <1>7, <1>9, <1>10 DEF Inv

LEMMA InvNext == Inv /\ [Next]_vars => Inv'
<1> SUFFICES ASSUME Inv, [Next]_vars
             PROVE  Inv'
    OBVIOUS
<1>1. ASSUME NEW t \in {Input, Httpd}, FootswitchEvent(t)
      PROVE  Inv'
    BY <1>1, BeginKeeps DEF FootswitchEvent
<1>2. CASE Post
    <2>1. PICK new \in Configs : Begin(Httpd, [kind |-> "post", new |-> new])
        BY <1>2 DEF Post
    <2>2. QED
        BY <2>1, BeginKeeps
<1>10. CASE Join
    BY <1>10, BeginKeeps DEF Join
<1>3. ASSUME NEW t \in Task, Handle(t)
      PROVE  Inv'
    BY <1>3, BankStepKeeps, ProgramPressKeeps, LongPressKeeps DEF Handle
<1>4. ASSUME NEW t \in Task, Callbacks(t)
      PROVE  Inv'
    BY <1>4, CallbackKeeps, BroadcastKeeps DEF Callbacks
<1>5. CASE Tick
    BY <1>5, TickKeeps, WakeUpKeeps
<1>6. CASE CopyConfig \/ SaveReturns \/ Resync
    BY <1>6, CopyConfigKeeps, SaveReturnsKeeps, ResyncKeeps
<1>7. CASE AdvanceClock
    BY <1>7, AdvanceClockKeeps
<1>8. CASE UNCHANGED vars
    BY <1>8, UntouchedKeeps DEF vars, Inv, TypeInv
<1>9. QED
    BY <1>1, <1>2, <1>3, <1>4, <1>5, <1>6, <1>7, <1>8, <1>10
        DEF Next, InputStep, HttpdStep, TickStep, Task

LEMMA InvHolds == Spec => []Inv
BY InvInit, InvNext, PTL DEF Spec

-------------------------------------------------------------------------------
(* Whatever the order of the loads and stores of the three tasks, the banks *)
(* and slots in the state machine index the arrays of the configuration     *)
(* (slot_at, handle_program_press, state_machine_resync).                   *)
THEOREM TypeCorrect == Spec => []TypeOK
<1>1. Inv => TypeOK
    <2> SUFFICES ASSUME Inv
                 PROVE  TypeOK
        OBVIOUS
    <2>1. \A t \in {Input, Httpd} : events[t] \in 0 .. Bound(t)
        <3>1. \A t \in {Input, Httpd} : events[t] \in Nat /\ events[t] <= Bound(t)
            BY DEF Inv, TypeInv
        <3>2. \A t \in {Input, Httpd} : Bound(t) \in Nat
            BY Sizes DEF Bound
        <3>3. QED
            BY <3>1, <3>2
    <2>2. QED
        BY <2>1 DEF Inv, TypeInv, TypeOK, Snapshots
<1>2. QED
    BY <1>1, InvHolds, PTL

(* What overwriting a list under way may do is over with the resync: then no *)
(* task sends what is not in its list, until the configuration changes again *)
(* (emit_message_list, config_store_from_json, state_machine_resync).    *)
THEOREM OverrunsEnd == Spec => []ResyncEndsOverruns
<1>1. Inv => ResyncEndsOverruns
    BY DEF Inv
<1>2. QED
    BY <1>1, InvHolds, PTL

(* A resync that no other handler overlaps repairs the banks, whatever was  *)
(* under way while the configuration was overwritten and saved              *)
(* (state_machine_resync, config_post_handler).                             *)
THEOREM BanksRepaired == Spec => []ResyncRepairs
<1>1. Inv => ResyncRepairs
    BY DEF Inv, BanksInv, SyncedInv, MachineIn, ResyncRepairs, Live!BanksInRange, Live!Coherent
<1>2. QED
    BY <1>1, InvHolds, PTL

-------------------------------------------------------------------------------
(* Why the browsers are told the truth in the end.  From its first store to  *)
(* its call of state_changed a handler has news to come; so has the httpd    *)
(* task from the first store into the configuration to the snapshot of its   *)
(* resync.  While no news is to come, a snapshot under way is the truth, or   *)
(* overtaken, or somebody took a later one and has not sent it; and when     *)
(* nobody has a snapshot under way, the last one sent is the truth, or was    *)
(* overtaken.                                                                *)
ChangeLabel == {"step clock", "step window", "commit slot", "commit alt", "select slot",
                "select alt", "tick stop", "resync target", "resync alt", "notify"}

Announces(f) ==
    f.at \in ChangeLabel \/ (f.at \in {"emit", "send"} /\ f.op.kind # "user")

ResyncTells == InSnapshot(Httpd) /\ frame[Httpd].op.kind = "resync"

NewsToCome == (\E t \in Task : Announces(frame[t])) \/ (~synced /\ ~ResyncTells)

Fresh(t) ==
    /\ At(t, "snapshot") => frame[t].reg.bank = sm.current_bank
    /\ At(t, "broadcast") => frame[t].reg.snapshot = SnapshotOf(sm.current_bank)

Superseded(t) ==
    \E u \in Task : u # t /\ InSnapshot(u) /\ t \in frame[u].reg.earlier

Told ==
    /\ \A t \in Task : InSnapshot(t) =>
          NewsToCome \/ Fresh(t) \/ frame[t].reg.overtaken \/ Superseded(t)
    /\ \/ NewsToCome \/ overtaken \/ shown = SnapshotOf(sm.current_bank)
       \/ \E t \in Task : InSnapshot(t) /\ ~frame[t].reg.overtaken

(* The snapshots under way are in the order in which they were begun, and     *)
(* what overtook one has overtaken those before it.                          *)
Before(t, u) == InSnapshot(u) /\ t \in frame[u].reg.earlier

OrderInv ==
    /\ \A t, u \in Task : Before(t, u) =>
          /\ InSnapshot(t) /\ ~Before(u, t)
          /\ frame[u].reg.overtaken => frame[t].reg.overtaken
    /\ \A t, u, v \in Task : Before(t, u) /\ Before(u, v) => Before(t, v)

TruthInv == OrderInv /\ Told

(* A step outside the snapshots leaves their order as it is. *)
LEMMA OrderKept ==
    ASSUME OrderInv, NEW t \in Task, ~InSnapshot(t), ~InSnapshot(t)',
           \A u \in Task : u # t => frame'[u] = frame[u]
    PROVE  OrderInv'
<1>1. \A u \in Task : InSnapshot(u)' <=> InSnapshot(u)
    BY DEF InSnapshot, At
<1>2. \A u \in Task : InSnapshot(u) => frame'[u] = frame[u]
    OBVIOUS
<1>3. \A u, v \in Task : Before(u, v)' <=> Before(u, v)
    BY <1>1, <1>2 DEF Before
<1>4. ASSUME NEW u \in Task, NEW v \in Task, Before(u, v)'
      PROVE  /\ InSnapshot(u)' /\ ~Before(v, u)'
             /\ frame'[v].reg.overtaken => frame'[u].reg.overtaken
    <2>1. Before(u, v) /\ InSnapshot(u) /\ InSnapshot(v)
        BY <1>3, <1>4 DEF OrderInv, Before
    <2>2. QED
        BY <1>1, <1>2, <1>3, <2>1 DEF OrderInv
<1>5. QED
    BY <1>3, <1>4 DEF OrderInv

(* A task that is going to announce a change makes everything else moot. *)
LEMMA LoudStep ==
    ASSUME TruthInv, NEW t \in Task, Announces(frame'[t]), ~InSnapshot(t),
           \A u \in Task : u # t => frame'[u] = frame[u]
    PROVE  TruthInv'
<1>1. Told'
    BY DEF Told, NewsToCome, Announces, ChangeLabel
<1>2. ~InSnapshot(t)'
    BY DEF InSnapshot, At, Announces, ChangeLabel
<1>3. QED
    BY <1>1, <1>2, OrderKept DEF TruthInv

LEMMA SameSnapshot ==
    ASSUME UNCHANGED <<sm, cfg>>
    PROVE  SnapshotOf(sm.current_bank)' = SnapshotOf(sm.current_bank)
BY DEF SnapshotOf, Live!SlotAt

(* Nothing changes for the browsers when a task goes on that has nothing to  *)
(* announce.                                                                 *)
LEMMA QuietStep ==
    ASSUME TruthInv, NEW t \in Task,
           UNCHANGED <<sm, cfg, shown, overtaken, synced>>,
           \A u \in Task : u # t => frame'[u] = frame[u],
           ~Announces(frame[t]), ~InSnapshot(t), ~InSnapshot(t)'
    PROVE  TruthInv'
<1>1. NewsToCome => NewsToCome'
    <2>1. (\E u \in Task : Announces(frame[u])) => NewsToCome'
        BY DEF NewsToCome, Announces, ChangeLabel
    <2>2. ResyncTells' => ResyncTells
        BY DEF ResyncTells, InSnapshot, At, Task
    <2>3. QED
        BY <2>1, <2>2 DEF NewsToCome
<1>2. \A u \in Task : InSnapshot(u)' <=> InSnapshot(u)
    BY DEF InSnapshot, At
<1>3. ASSUME NEW u \in Task, InSnapshot(u)'
      PROVE  /\ Fresh(u) => Fresh(u)'
             /\ frame[u].reg.overtaken => frame[u].reg.overtaken'
             /\ Superseded(u) => Superseded(u)'
    <2>1. u # t /\ frame'[u] = frame[u]
        BY <1>3
    <2>2. Fresh(u) => Fresh(u)'
        BY <2>1, SameSnapshot DEF Fresh, At
    <2>3. Superseded(u) => Superseded(u)'
        BY <1>2 DEF Superseded
    <2>4. QED
        BY <2>1, <2>2, <2>3
<1>4. QED
    <2>1. ASSUME NEW u \in Task, InSnapshot(u)
          PROVE  InSnapshot(u)' /\ frame'[u].reg.overtaken = frame[u].reg.overtaken
        <3>1. u # t
            BY <2>1
        <3>2. QED
            BY <1>2, <2>1, <3>1
    <2>2. Told'
        BY <1>1, <1>2, <1>3, <2>1, SameSnapshot DEF TruthInv, Told
    <2>3. QED
        BY <2>2, OrderKept DEF TruthInv

(* A step of a handler, and a return. *)
Loud(op, label) ==
    label \in ChangeLabel \/ (label \in {"emit", "send"} /\ op.kind # "user")

LEMMA StoreTells ==
    ASSUME Inv, TruthInv, NEW t \in Task, ~Resting(t), ~InSnapshot(t),
           NEW machine, NEW label, NEW registers, Store(t, machine, label, registers),
           \/ Loud(frame[t].op, label)
           \/ /\ machine = sm
              /\ ~Loud(frame[t].op, frame[t].at)
              /\ label \notin {"snapshot", "broadcast"}
    PROVE  TruthInv'
<1>1. frame = [u \in Task |-> frame[u]] /\ Running(frame[t])
    BY Held DEF Inv, TypeInv
<1>2. frame'[t] = [op |-> frame[t].op, at |-> label, reg |-> registers]
    BY <1>1 DEF Store, Running
<1>3. \A u \in Task : u # t => frame'[u] = frame[u]
    BY <1>1 DEF Store
<1>4. frame'[t].op = frame[t].op /\ frame'[t].at = label
    BY <1>2
<1>5. CASE Loud(frame[t].op, label)
    BY <1>3, <1>4, <1>5, LoudStep DEF Loud, Announces
<1>6. CASE ~Loud(frame[t].op, label)
    <2>1. /\ machine = sm
          /\ ~Loud(frame[t].op, frame[t].at)
          /\ label \notin {"snapshot", "broadcast"}
        BY <1>6
    <2>2. ~Announces(frame[t]) /\ ~InSnapshot(t)'
        BY <1>4, <2>1 DEF Loud, Announces, InSnapshot, At
    <2>3. QED
        BY <1>3, <2>1, <2>2, QuietStep DEF Store
<1>7. QED
    BY <1>5, <1>6

LEMMA ReturnTells ==
    ASSUME Inv, TruthInv, NEW t \in Task, Return(t), ~Announces(frame[t]), ~InSnapshot(t)
    PROVE  TruthInv'
<1>1. frame = [u \in Task |-> frame[u]]
    BY DEF Inv, TypeInv
<1>2. frame'[t] = Idle /\ \A u \in Task : u # t => frame'[u] = frame[u]
    BY <1>1 DEF Return
<1>3. ~InSnapshot(t)'
    BY <1>2 DEF InSnapshot, At, Idle
<1>4. QED
    BY <1>2, <1>3, QuietStep DEF Return

LEMMA BankStepTells ==
    ASSUME Inv, TruthInv, NEW t \in Task, BankStep(t)
    PROVE  TruthInv'
<1>1. ~Resting(t) /\ ~InSnapshot(t)
    BY DEF BankStep, Resting, InSnapshot, At
<1>2. PICK machine, label, registers :
        /\ Store(t, machine, label, registers)
        /\ \/ Loud(frame[t].op, label)
           \/ /\ machine = sm /\ label \in {"step current", "step store"}
              /\ frame[t].at \in {"step", "step current"}
    BY DEF BankStep, Load, Loud, ChangeLabel, At
<1>3. QED
    BY <1>1, <1>2, StoreTells DEF Loud, ChangeLabel, InSnapshot, At

LEMMA ProgramPressTells ==
    ASSUME Inv, TruthInv, NEW t \in Task, ProgramPress(t)
    PROVE  TruthInv'
<1>1. ~Resting(t) /\ ~InSnapshot(t)
    BY DEF ProgramPress, CommitBank, SelectSlot, ToggleAlternative, Resting, InSnapshot, At
<1>2. frame[t].at \in PressLabel => frame[t].op.kind = "press"
    BY <1>1, HeldThere DEF HeldAt, OpOK
<1>3. CASE Return(t) /\ At(t, "toggle")
    BY <1>3, ReturnTells DEF Announces, ChangeLabel, InSnapshot, At
<1>4. CASE ~(Return(t) /\ At(t, "toggle"))
    <2>1. PICK machine, label, registers :
            /\ Store(t, machine, label, registers)
            /\ \/ Loud(frame[t].op, label)
               \/ /\ machine = sm
                  /\ label \in {"commit", "press slot", "select", "toggle", "toggle store"}
                  /\ frame[t].at \in {"press", "press slot", "toggle"}
        <3>1. CASE CommitBank(t)
            BY <1>2, <3>1 DEF CommitBank, Loud, ChangeLabel, At, PressLabel
        <3>2. CASE SelectSlot(t)
            BY <1>2, <3>2 DEF SelectSlot, Loud, ChangeLabel, At, PressLabel
        <3>3. CASE ToggleAlternative(t)
            BY <1>2, <1>4, <3>3
                DEF ToggleAlternative, Load, Loud, ChangeLabel, At, PressLabel
        <3>4. CASE ~(CommitBank(t) \/ SelectSlot(t) \/ ToggleAlternative(t))
            BY <3>4 DEF ProgramPress, Load, At
        <3>5. QED
            BY <3>1, <3>2, <3>3, <3>4
    <2>2. QED
        BY <1>1, <2>1, StoreTells DEF Loud, ChangeLabel, InSnapshot, At
<1>5. QED
    BY <1>3, <1>4

LEMMA LongPressTells ==
    ASSUME Inv, TruthInv, NEW t \in Task, LongPress(t)
    PROVE  TruthInv'
<1>1. ~Resting(t) /\ ~InSnapshot(t)
    BY DEF LongPress, Resting, InSnapshot, At
<1>2. PICK machine, label, registers :
        /\ Store(t, machine, label, registers)
        /\ \/ Loud(frame[t].op, label)
           \/ machine = sm /\ label = "emit" /\ frame[t].at = "user"
    BY DEF LongPress, Load, Loud, ChangeLabel, At
<1>3. QED
    BY <1>1, <1>2, StoreTells DEF Loud, ChangeLabel, InSnapshot, At

LEMMA TickTells ==
    ASSUME Inv, TruthInv, Tick, ~WakeUp
    PROVE  TruthInv'
<1>1. TickTask \in Task /\ ~Resting(TickTask) /\ ~InSnapshot(TickTask)
    BY DEF Tick, Resting, InSnapshot, At, Task
<1>2. CASE Return(TickTask) /\ frame[TickTask].at \in {"tick", "tick window"}
    BY <1>1, <1>2, ReturnTells DEF Announces, ChangeLabel, InSnapshot, At
<1>3. CASE ~(Return(TickTask) /\ frame[TickTask].at \in {"tick", "tick window"})
    <2>1. PICK machine, label, registers :
            /\ Store(TickTask, machine, label, registers)
            /\ \/ Loud(frame[TickTask].op, label)
               \/ /\ machine = sm
                  /\ label \in {"tick clock", "tick window", "tick reload", "tick store"}
                  /\ frame[TickTask].at \in {"tick", "tick clock", "tick window",
                                             "tick reload"}
        BY <1>3 DEF Tick, Load, Loud, ChangeLabel, At
    <2>2. QED
        BY <1>1, <2>1, StoreTells DEF Loud, ChangeLabel, InSnapshot, At
<1>4. QED
    BY <1>2, <1>3

LEMMA ResyncTellsIt ==
    ASSUME Inv, TruthInv, Resync
    PROVE  TruthInv'
<1>1. Httpd \in Task /\ ~Resting(Httpd) /\ ~InSnapshot(Httpd)
    BY DEF Resync, Resting, InSnapshot, At, Task
<1>2. PICK machine, label, registers :
        Store(Httpd, machine, label, registers) /\ Loud(frame[Httpd].op, label)
    BY DEF Resync, Load, Loud, ChangeLabel, At
<1>3. QED
    BY <1>1, <1>2, StoreTells

LEMMA EmitTells ==
    ASSUME Inv, TruthInv, NEW t \in Task, Emit(t) \/ SendMidi(t)
    PROVE  TruthInv'
<1>1. ~Resting(t) /\ ~InSnapshot(t)
    BY DEF Emit, SendMidi, Resting, InSnapshot, At
<1>2. CASE At(t, "emit") /\ SendsOnly(t) /\ Return(t)
    BY <1>2, ReturnTells DEF SendsOnly, Announces, ChangeLabel, InSnapshot, At
<1>3. CASE ~(At(t, "emit") /\ SendsOnly(t) /\ Return(t))
    <2>1. PICK label, registers :
            /\ Store(t, sm, label, registers)
            /\ \/ Loud(frame[t].op, label)
               \/ /\ frame[t].op.kind = "user"
                  /\ {label, frame[t].at} \subseteq {"emit", "send"}
        BY <1>3 DEF Emit, SendMidi, Load, Loud, ChangeLabel, At
    <2>2. QED
        BY <1>1, <2>1, StoreTells DEF Loud, ChangeLabel, InSnapshot, At
<1>4. QED
    BY <1>2, <1>3

(* A snapshot begins with the bank, and is complete one step later. *)
LEMMA NotifyTells ==
    ASSUME Inv, TruthInv, NEW t \in Task, Notify(t)
    PROVE  TruthInv'
<1>1. ~Resting(t)
    BY DEF Notify, Resting, At
<1>2. frame = [u \in Task |-> frame[u]] /\ Running(frame[t])
    BY <1>1, Held DEF Inv, TypeInv
<1>3. CASE At(t, "notify")
    <2> DEFINE reg == [bank |-> sm.current_bank, overtaken |-> FALSE,
                       earlier |-> {u \in Task \ {t} : InSnapshot(u)}]
    <2>1. Store(t, sm, "snapshot", reg)
        BY <1>3 DEF Notify, Load, At
    <2>2. frame'[t] = [op |-> frame[t].op, at |-> "snapshot", reg |-> reg]
        BY <1>2, <2>1 DEF Store, Running
    <2>3. \A u \in Task : u # t => frame'[u] = frame[u]
        BY <1>2, <2>1 DEF Store
    <2>4. /\ frame'[t].at = "snapshot" /\ frame'[t].reg.bank = sm.current_bank
          /\ frame'[t].reg.earlier = {u \in Task \ {t} : InSnapshot(u)}
        BY <2>2
    <2>5. InSnapshot(t)' /\ Fresh(t)'
        BY <2>1, <2>4 DEF InSnapshot, Fresh, At, Store
    <2>6. ASSUME NEW u \in Task, u # t, InSnapshot(u)'
          PROVE  Superseded(u)'
        <3>1. InSnapshot(u)
            BY <2>3, <2>6 DEF InSnapshot, At
        <3>2. QED
            BY <2>4, <2>5, <2>6, <3>1 DEF Superseded
    <2>7. \A u \in Task : u # t => (InSnapshot(u)' <=> InSnapshot(u))
        BY <2>3 DEF InSnapshot, At
    <2>8. frame'[t].reg.overtaken = FALSE
        BY <2>2
    <2>9. ~InSnapshot(t)
        BY <1>3 DEF InSnapshot, At
    <2>10. \A u, v \in Task : Before(u, v)' <=>
                (v # t /\ Before(u, v)) \/ (v = t /\ u # t /\ InSnapshot(u))
        <3>1. ASSUME NEW u \in Task, NEW v \in Task, v # t
              PROVE  Before(u, v)' <=> Before(u, v)
            BY <2>3, <2>7, <3>1 DEF Before
        <3>2. \A u \in Task : Before(u, t)' <=> u # t /\ InSnapshot(u)
            BY <2>4, <2>5 DEF Before
        <3>3. QED
            BY <3>1, <3>2
    <2>11. \A u, v \in Task : Before(u, v) => u # t /\ v # t /\ InSnapshot(u) /\ InSnapshot(v)
        BY <2>9 DEF TruthInv, OrderInv, Before
    <2>12. OrderInv'
        <3>1. ASSUME NEW u \in Task, NEW v \in Task, Before(u, v)'
              PROVE  /\ InSnapshot(u)' /\ ~Before(v, u)'
                     /\ frame'[v].reg.overtaken => frame'[u].reg.overtaken
            <4>1. CASE v = t
                BY <2>7, <2>8, <2>10, <2>11, <3>1, <4>1
            <4>2. CASE v # t
                <5>1. Before(u, v) /\ u # t /\ InSnapshot(u)
                    BY <2>10, <2>11, <3>1, <4>2
                <5>2. /\ ~Before(v, u)
                      /\ frame[v].reg.overtaken => frame[u].reg.overtaken
                    BY <5>1 DEF TruthInv, OrderInv
                <5>3. QED
                    BY <2>3, <2>7, <2>10, <4>2, <5>1, <5>2
            <4>3. QED
                BY <4>1, <4>2
        <3>2. ASSUME NEW u \in Task, NEW v \in Task, NEW w \in Task,
                     Before(u, v)', Before(v, w)'
              PROVE  Before(u, w)'
            <4>1. v # t
                BY <2>9, <2>10, <2>11, <3>2
            <4>2. Before(u, v) /\ u # t /\ InSnapshot(u)
                BY <2>10, <2>11, <3>2, <4>1
            <4>3. CASE w = t
                BY <2>10, <4>2, <4>3
            <4>4. CASE w # t
                <5>1. Before(v, w)
                    BY <2>10, <3>2, <4>4
                <5>2. Before(u, w)
                    BY <4>2, <5>1 DEF TruthInv, OrderInv
                <5>3. QED
                    BY <2>10, <4>4, <5>2
            <4>5. QED
                BY <4>3, <4>4
        <3>3. QED
            BY <3>1, <3>2 DEF OrderInv
    <2>13. QED
        BY <2>5, <2>6, <2>8, <2>12 DEF TruthInv, Told
<1>4. CASE At(t, "snapshot")
    <2> DEFINE reg == [snapshot |-> SnapshotOf(frame[t].reg.bank),
                       overtaken |-> frame[t].reg.overtaken,
                       earlier |-> frame[t].reg.earlier]
    <2>1. Store(t, sm, "broadcast", reg)
        BY <1>4 DEF Notify, Load, At
    <2>2. frame'[t] = [op |-> frame[t].op, at |-> "broadcast", reg |-> reg]
        BY <1>2, <2>1 DEF Store, Running
    <2>3. \A u \in Task : u # t => frame'[u] = frame[u]
        BY <1>2, <2>1 DEF Store
    <2>4. /\ frame'[t].op = frame[t].op /\ frame'[t].at = "broadcast"
          /\ frame'[t].reg.snapshot = SnapshotOf(frame[t].reg.bank)
          /\ frame'[t].reg.overtaken = frame[t].reg.overtaken
          /\ frame'[t].reg.earlier = frame[t].reg.earlier
        BY <2>2
    <2>5. UNCHANGED <<sm, cfg, shown, overtaken, synced>>
        BY <2>1 DEF Store
    <2>6. \A u \in Task : InSnapshot(u)' <=> InSnapshot(u)
        BY <1>4, <2>3, <2>4 DEF InSnapshot, At
    <2>7. NewsToCome => NewsToCome'
        <3>1. ~Announces(frame[t])
            BY <1>4 DEF Announces, ChangeLabel, At
        <3>2. (\E u \in Task : Announces(frame[u])) => NewsToCome'
            BY <2>3, <3>1 DEF NewsToCome, Announces, ChangeLabel
        <3>3. ResyncTells' => ResyncTells
            BY <2>3, <2>4, <2>6 DEF ResyncTells, Task
        <3>4. QED
            BY <2>5, <3>2, <3>3 DEF NewsToCome
    <2>8. ASSUME NEW u \in Task, InSnapshot(u)
          PROVE  /\ Fresh(u) => Fresh(u)'
                 /\ frame[u].reg.overtaken => frame[u].reg.overtaken'
        <3>1. CASE u = t
            BY <1>4, <2>4, <2>5, <3>1, SameSnapshot DEF Fresh, At
        <3>2. CASE u # t
            BY <2>3, <2>5, <3>2, SameSnapshot DEF Fresh, At
        <3>3. QED
            BY <3>1, <3>2
    <2>9. \A u \in Task : Superseded(u) => Superseded(u)'
        BY <2>3, <2>4, <2>6 DEF Superseded
    <2>10. \A u \in Task : InSnapshot(u) =>
                /\ frame'[u].reg.overtaken = frame[u].reg.overtaken
                /\ frame'[u].reg.earlier = frame[u].reg.earlier
        BY <2>3, <2>4
    <2>11. \A u, v \in Task : Before(u, v)' <=> Before(u, v)
        BY <2>6, <2>10 DEF Before
    <2>12. OrderInv'
        <3>1. ASSUME NEW u \in Task, NEW v \in Task, Before(u, v)'
              PROVE  /\ InSnapshot(u)' /\ ~Before(v, u)'
                     /\ frame'[v].reg.overtaken => frame'[u].reg.overtaken
            <4>1. Before(u, v) /\ InSnapshot(u) /\ InSnapshot(v)
                BY <2>11, <3>1 DEF TruthInv, OrderInv, Before
            <4>2. QED
                BY <2>6, <2>10, <2>11, <4>1 DEF TruthInv, OrderInv
        <3>2. QED
            BY <2>11, <3>1 DEF TruthInv, OrderInv
    <2>13. Told'
        BY <2>5, <2>6, <2>7, <2>8, <2>9, <2>10, SameSnapshot DEF TruthInv, Told
    <2>14. QED
        BY <2>12, <2>13 DEF TruthInv
<1>5. QED
    BY <1>3, <1>4 DEF Notify

(* Whoever sends a snapshot, or fails to, marks those it overtakes. *)
LEMMA BroadcastTells ==
    ASSUME Inv, TruthInv, NEW t \in Task, Broadcast(t) \/ FrameNotMade(t)
    PROVE  TruthInv'
<1>1. InSnapshot(t) /\ At(t, "broadcast")
    BY DEF Broadcast, FrameNotMade, LeaveSnapshot, InSnapshot
<1>2. /\ LeaveSnapshot(t)
      /\ \/ shown' = frame[t].reg.snapshot /\ overtaken' = frame[t].reg.overtaken
         \/ shown' = shown /\ overtaken' = (overtaken \/ ~frame[t].reg.overtaken)
         \/ overtaken'
      /\ synced' = (synced \/ frame[t].op.kind = "resync")
      /\ UNCHANGED <<sm, cfg>>
    BY DEF Broadcast, FrameNotMade, LeaveSnapshot
<1>3. /\ frame'[t] = Idle
      /\ \A u \in Task : u # t /\ ~InSnapshot(u) => frame'[u] = frame[u]
      /\ \A u \in Task : u # t /\ InSnapshot(u) =>
            /\ frame'[u].op = frame[u].op /\ frame'[u].at = frame[u].at
            /\ frame[u].at = "snapshot" => frame'[u].reg.bank = frame[u].reg.bank
            /\ frame[u].at = "broadcast" => frame'[u].reg.snapshot = frame[u].reg.snapshot
            /\ frame'[u].reg.overtaken
                    = (frame[u].reg.overtaken \/ u \in frame[t].reg.earlier)
            /\ frame'[u].reg.earlier = frame[u].reg.earlier \ {t}
    BY <1>2, BroadcastFrames
<1>4. \A u \in Task : InSnapshot(u)' <=> u # t /\ InSnapshot(u)
    BY <1>3 DEF InSnapshot, At, Idle
<1>5. NewsToCome => NewsToCome'
    <2>1. (\E u \in Task : Announces(frame[u])) => NewsToCome'
        <3>1. ASSUME NEW u \in Task, Announces(frame[u])
              PROVE  u # t /\ frame'[u] = frame[u]
            BY <1>1, <1>3, <3>1 DEF Announces, ChangeLabel, InSnapshot, At
        <3>2. QED
            BY <3>1 DEF NewsToCome, Announces, ChangeLabel
    <2>2. ~synced /\ ~ResyncTells => ~synced' /\ ~ResyncTells'
        <3>1. CASE t = Httpd
            BY <1>1, <1>2, <1>4, <3>1 DEF ResyncTells
        <3>2. CASE t # Httpd
            <4>1. frame[t].op.kind # "resync"
                BY <1>1, <3>2, Held DEF Resting, At
            <4>2. ResyncTells' => ResyncTells
                BY <1>3, <1>4, <3>2 DEF ResyncTells, Task
            <4>3. QED
                BY <1>2, <4>1, <4>2
        <3>3. QED
            BY <3>1, <3>2
    <2>3. QED
        BY <2>1, <2>2 DEF NewsToCome
<1>6. ASSUME NEW u \in Task, InSnapshot(u)'
      PROVE  (NewsToCome \/ Fresh(u) \/ frame[u].reg.overtaken \/ Superseded(u))'
    <2>1. u # t /\ InSnapshot(u)
        BY <1>4, <1>6
    <2>2. NewsToCome \/ Fresh(u) \/ frame[u].reg.overtaken \/ Superseded(u)
        BY <2>1 DEF TruthInv, Told
    <2>3. CASE Fresh(u)
        BY <1>2, <1>3, <2>1, <2>3, SameSnapshot DEF Fresh, At
    <2>4. CASE frame[u].reg.overtaken
        BY <1>3, <2>1, <2>4
    <2>5. CASE Superseded(u)
        <3>1. PICK w \in Task : w # u /\ InSnapshot(w) /\ u \in frame[w].reg.earlier
            BY <2>5 DEF Superseded
        <3>2. CASE w = t
            BY <1>3, <2>1, <3>1, <3>2
        <3>3. CASE w # t
            <4>1. InSnapshot(w)' /\ u \in frame'[w].reg.earlier
                BY <1>3, <1>4, <2>1, <3>1, <3>3
            <4>2. QED
                BY <3>1, <4>1 DEF Superseded
        <3>4. QED
            BY <3>2, <3>3
    <2>6. QED
        BY <1>5, <2>2, <2>3, <2>4, <2>5
<1>7. \A u, v \in Task : Before(u, v)' <=> Before(u, v) /\ u # t /\ v # t
    <2>1. ASSUME NEW u \in Task, NEW v \in Task, v # t, InSnapshot(v)
          PROVE  Before(u, v)' <=> Before(u, v) /\ u # t
        BY <1>3, <1>4, <2>1 DEF Before
    <2>2. QED
        BY <1>4, <2>1 DEF Before
<1>8. OrderInv'
    <2>1. ASSUME NEW u \in Task, NEW v \in Task, Before(u, v)'
          PROVE  /\ InSnapshot(u)' /\ ~Before(v, u)'
                 /\ frame'[v].reg.overtaken => frame'[u].reg.overtaken
        <3>1. Before(u, v) /\ u # t /\ v # t
            BY <1>7, <2>1
        <3>2. /\ InSnapshot(u) /\ InSnapshot(v) /\ ~Before(v, u)
              /\ frame[v].reg.overtaken => frame[u].reg.overtaken
            BY <3>1 DEF TruthInv, OrderInv, Before
        <3>3. v \in frame[t].reg.earlier => u \in frame[t].reg.earlier
            BY <1>1, <3>1 DEF TruthInv, OrderInv, Before
        <3>4. frame'[v].reg.overtaken => frame'[u].reg.overtaken
            BY <1>3, <3>1, <3>2, <3>3
        <3>5. QED
            BY <1>4, <1>7, <3>1, <3>2, <3>4
    <2>2. ASSUME NEW u \in Task, NEW v \in Task, NEW w \in Task,
                 Before(u, v)', Before(v, w)'
          PROVE  Before(u, w)'
        <3>1. Before(u, w)
            BY <1>7, <2>2 DEF TruthInv, OrderInv
        <3>2. QED
            BY <1>7, <2>2, <3>1
    <2>3. QED
        BY <2>1, <2>2 DEF OrderInv
<1>9. ASSUME NEW u \in Task, u # t, InSnapshot(u), ~frame[u].reg.overtaken,
             u \notin frame[t].reg.earlier
      PROVE  InSnapshot(u)' /\ ~frame'[u].reg.overtaken
    BY <1>3, <1>4, <1>9
<1>10. (\/ NewsToCome \/ overtaken \/ shown = SnapshotOf(sm.current_bank)
        \/ \E u \in Task : InSnapshot(u) /\ ~frame[u].reg.overtaken)'
    <2>1. CASE /\ shown' = frame[t].reg.snapshot
               /\ overtaken' = frame[t].reg.overtaken
        <3>1. NewsToCome \/ Fresh(t) \/ frame[t].reg.overtaken \/ Superseded(t)
            BY <1>1 DEF TruthInv, Told
        <3>2. CASE Fresh(t)
            BY <1>1, <1>2, <2>1, <3>2, SameSnapshot DEF Fresh
        <3>3. CASE Superseded(t) /\ ~frame[t].reg.overtaken
            <4>1. PICK u \in Task : u # t /\ Before(t, u)
                BY <3>3 DEF Superseded, Before
            <4>2. InSnapshot(u) /\ ~Before(u, t) /\ ~frame[u].reg.overtaken
                BY <3>3, <4>1 DEF TruthInv, OrderInv, Before
            <4>3. QED
                BY <1>1, <1>9, <4>1, <4>2 DEF Before
        <3>4. QED
            BY <1>5, <2>1, <3>1, <3>2, <3>3
    <2>2. CASE /\ shown' = shown
               /\ overtaken' = (overtaken \/ ~frame[t].reg.overtaken)
        <3>1. SUFFICES ASSUME frame[t].reg.overtaken,
                              \E u \in Task : InSnapshot(u) /\ ~frame[u].reg.overtaken
                       PROVE  \E u \in Task : (InSnapshot(u) /\ ~frame[u].reg.overtaken)'
            BY <1>2, <1>5, <2>2, SameSnapshot DEF TruthInv, Told
        <3>2. PICK u \in Task : InSnapshot(u) /\ ~frame[u].reg.overtaken
            BY <3>1
        <3>3. u # t /\ u \notin frame[t].reg.earlier
            BY <1>1, <3>1, <3>2 DEF TruthInv, OrderInv, Before
        <3>4. QED
            BY <1>9, <3>2, <3>3
    <2>3. CASE overtaken'
        BY <2>3
    <2>4. QED
        BY <1>2, <2>1, <2>2, <2>3
<1>11. QED
    BY <1>6, <1>8, <1>10 DEF TruthInv, Told

(* A task that begins, or ends outside the state machine, has told nothing   *)
(* and has nothing to tell yet.                                              *)
LEMMA EnterTells ==
    ASSUME Inv, TruthInv, NEW t \in Task, NEW f, Resting(t),
           f.at \notin ChangeLabel \cup {"emit", "send", "snapshot", "broadcast"},
           frame' = [frame EXCEPT ![t] = f],
           UNCHANGED <<sm, cfg, shown, overtaken, synced>>
    PROVE  TruthInv'
<1>1. frame = [u \in Task |-> frame[u]]
    BY DEF Inv, TypeInv
<1>2. frame'[t] = f /\ \A u \in Task : u # t => frame'[u] = frame[u]
    BY <1>1
<1>3. ~Announces(frame[t]) /\ ~InSnapshot(t) /\ ~InSnapshot(t)'
    BY <1>2 DEF Announces, ChangeLabel, Resting, InSnapshot, At
<1>4. QED
    BY <1>2, <1>3, QuietStep

LEMMA BeginTells ==
    ASSUME Inv, TruthInv, NEW t \in Task, NEW op, Begin(t, op),
           op.kind \in {"step", "press", "user", "tuner", "post", "notify"}
    PROVE  TruthInv'
<1> DEFINE f == [op |-> op, at |-> op.kind, reg |-> FirstLoad(op)]
<1>1. Resting(t) /\ frame' = [frame EXCEPT ![t] = f]
    BY DEF Begin, Enter, Resting
<1>2. op.kind # "notify" =>
          f.at \notin ChangeLabel \cup {"emit", "send", "snapshot", "broadcast"}
    BY DEF ChangeLabel
<1>3. UNCHANGED <<sm, cfg, shown, overtaken, synced>>
    BY DEF Begin
<1>5. f.at = op.kind
    OBVIOUS
<1> HIDE DEF f
<1>6. CASE op.kind = "notify"
    <2>1. frame = [u \in Task |-> frame[u]]
        BY DEF Inv, TypeInv
    <2>2. frame'[t].at = "notify" /\ \A u \in Task : u # t => frame'[u] = frame[u]
        BY <1>1, <1>5, <1>6, <2>1
    <2>3. Announces(frame'[t]) /\ ~InSnapshot(t)
        BY <1>1, <2>2 DEF Announces, ChangeLabel, Resting, InSnapshot, At
    <2>4. QED
        BY <2>2, <2>3, LoudStep
<1>7. CASE op.kind # "notify"
    BY <1>1, <1>2, <1>3, <1>7, EnterTells
<1>4. QED
    BY <1>6, <1>7

LEMMA WakeUpTells ==
    ASSUME Inv, TruthInv, WakeUp
    PROVE  TruthInv'
<1> DEFINE f == [op |-> [kind |-> "tick"], at |-> "tick",
                 reg |-> [target |-> sm.target_bank]]
<1>1. TickTask \in Task /\ Resting(TickTask) /\ frame' = [frame EXCEPT ![TickTask] = f]
    BY DEF WakeUp, Enter, Resting, Task
<1>2. f.at \notin ChangeLabel \cup {"emit", "send", "snapshot", "broadcast"}
    BY DEF ChangeLabel
<1>3. UNCHANGED <<sm, cfg, shown, overtaken, synced>>
    BY DEF WakeUp
<1> HIDE DEF f
<1>4. QED
    BY <1>1, <1>2, <1>3, EnterTells

LEMMA SaveReturnsTells ==
    ASSUME Inv, TruthInv, SaveReturns
    PROVE  TruthInv'
<1> DEFINE f == [op |-> [kind |-> "resync"], at |-> "resync",
                 reg |-> [bank |-> sm.current_bank]]
<1>1. Httpd \in Task /\ Resting(Httpd)
    BY DEF SaveReturns, Resting, Task
<1>2. UNCHANGED <<sm, cfg, shown, overtaken, synced>>
    BY DEF SaveReturns
<1>3. CASE frame' = [frame EXCEPT ![Httpd] = Idle]
    <2>1. Idle.at \notin ChangeLabel \cup {"emit", "send", "snapshot", "broadcast"}
        BY DEF Idle, ChangeLabel
    <2>2. QED
        BY <1>1, <1>2, <1>3, <2>1, EnterTells
<1>4. CASE frame' = [frame EXCEPT ![Httpd] = f]
    <2>1. f.at \notin ChangeLabel \cup {"emit", "send", "snapshot", "broadcast"}
        BY DEF ChangeLabel
    <2> HIDE DEF f
    <2>2. QED
        BY <1>1, <1>2, <1>4, <2>1, EnterTells
<1>5. QED
    BY <1>3, <1>4 DEF SaveReturns, Enter

(* While the configuration is being copied, the resync is still to come. *)
LEMMA CopyConfigTells ==
    ASSUME Inv, TruthInv, CopyConfig
    PROVE  TruthInv'
<1> DEFINE goes == [frame[Httpd] EXCEPT !.reg.copied = @ + 1]
<1>1. At(Httpd, "post") /\ ~Resting(Httpd) /\ Httpd \in Task
    BY DEF CopyConfig, Resting, At, Task
<1>2. Running(frame[Httpd]) /\ frame[Httpd].reg \in [copied : Nat]
    BY <1>1, HeldThere, Held DEF HeldAt, RegOK, At
<1>3. frame'[Httpd].at \in {"saving", "post"}
    <2>1. frame'[Httpd] = Saving \/ frame'[Httpd] = goes
        BY CopyFrame
    <2>2. goes.at = "post"
        BY <1>1, <1>2, CopiedOne DEF At
    <2> HIDE DEF goes
    <2>3. QED
        BY <2>1, <2>2 DEF Saving
<1>4. ~synced' /\ ~ResyncTells'
    BY <1>3 DEF CopyConfig, ResyncTells, InSnapshot, At
<1>5. /\ ~InSnapshot(Httpd) /\ ~InSnapshot(Httpd)'
      /\ \A u \in Task : u # Httpd => frame'[u] = frame[u]
    <2>1. frame = [u \in Task |-> frame[u]]
        BY DEF Inv, TypeInv
    <2>2. QED
        BY <1>1, <1>3, <2>1 DEF CopyConfig, InSnapshot, At
<1>6. QED
    BY <1>1, <1>4, <1>5, OrderKept DEF TruthInv, Told, NewsToCome

LEMMA UntouchedTells ==
    ASSUME TruthInv, UNCHANGED <<cfg, synced, sm, shown, frame, overtaken>>
    PROVE  TruthInv'
<1>1. \A u \in Task : (Fresh(u)' <=> Fresh(u)) /\ (InSnapshot(u)' <=> InSnapshot(u))
    BY SameSnapshot DEF Fresh, InSnapshot, At
<1>2. \A u \in Task : Superseded(u)' <=> Superseded(u)
    BY <1>1 DEF Superseded
<1>3. NewsToCome' <=> NewsToCome
    BY <1>1 DEF NewsToCome, Announces, ResyncTells, ChangeLabel, Task
<1>4. OrderInv'
    BY DEF TruthInv, OrderInv, Before, InSnapshot, At
<1>5. QED
    BY <1>1, <1>2, <1>3, <1>4, SameSnapshot DEF TruthInv, Told

LEMMA TruthInit == Init => TruthInv
<1> SUFFICES ASSUME Init
             PROVE  TruthInv
    OBVIOUS
<1>1. sm.current_bank = 0 /\ shown = SnapshotOf(0)
    BY DEF Init
<1>2. \A t \in Task : ~InSnapshot(t)
    BY DEF Init, InSnapshot, At, Idle
<1>3. QED
    BY <1>1, <1>2 DEF TruthInv, Told, OrderInv, Before

LEMMA PressKinds ==
    \A t \in {Input, Httpd} : \A op \in Presses[t] :
        op.kind \in {"step", "press", "user", "tuner"}
BY DispatchAssumption

LEMMA TruthNext == Inv /\ TruthInv /\ [Next]_vars => TruthInv'
<1> SUFFICES ASSUME Inv, TruthInv, [Next]_vars
             PROVE  TruthInv'
    OBVIOUS
<1>1. ASSUME NEW t \in {Input, Httpd}, FootswitchEvent(t)
      PROVE  TruthInv'
    <2>1. PICK op \in Presses[t] : Begin(t, op)
        BY <1>1 DEF FootswitchEvent
    <2>2. t \in Task /\ op.kind \in {"step", "press", "user", "tuner", "post", "notify"}
        BY PressKinds DEF Task
    <2>3. QED
        BY <2>1, <2>2, BeginTells
<1>2. CASE Post
    <2>1. PICK new \in Configs : Begin(Httpd, [kind |-> "post", new |-> new])
        BY <1>2 DEF Post
    <2>2. [kind |-> "post", new |-> new].kind = "post" /\ Httpd \in Task
        BY DEF Task
    <2>3. QED
        BY <2>1, <2>2, BeginTells
<1>9. CASE Join
    <2>1. [kind |-> "notify"].kind = "notify" /\ Httpd \in Task
        BY DEF Task
    <2>2. QED
        BY <1>9, <2>1, BeginTells DEF Join
<1>3. ASSUME NEW t \in Task, Handle(t)
      PROVE  TruthInv'
    BY <1>3, BankStepTells, ProgramPressTells, LongPressTells DEF Handle
<1>4. ASSUME NEW t \in Task, Callbacks(t)
      PROVE  TruthInv'
    BY <1>4, EmitTells, NotifyTells, BroadcastTells DEF Callbacks
<1>5. CASE Tick
    BY <1>5, TickTells, WakeUpTells
<1>6. CASE CopyConfig \/ SaveReturns \/ Resync
    BY <1>6, CopyConfigTells, SaveReturnsTells, ResyncTellsIt
<1>7. CASE AdvanceClock \/ UNCHANGED vars
    BY <1>7, UntouchedTells DEF AdvanceClock, vars
<1>8. QED
    BY <1>1, <1>2, <1>3, <1>4, <1>5, <1>6, <1>7, <1>9
        DEF Next, InputStep, HttpdStep, TickStep, Task

(* However the handlers, the snapshots and the broadcasts of the three tasks *)
(* overlap, once they are at rest after a resync the last thing the browsers *)
(* were sent is the state, unless the newest snapshot was sent before an     *)
(* older one or got no frame (main.c's state_changed,                        *)
(* web_server_broadcast_state).                                              *)
THEOREM BrowsersToldTheTruth == Spec => []ToldTheTruth
<1>1. Inv /\ TruthInv => ToldTheTruth
    <2> SUFFICES ASSUME TruthInv, \A t \in Task : Resting(t), synced, ~overtaken
                 PROVE  shown = SnapshotOf(sm.current_bank)
        BY DEF ToldTheTruth
    <2>1. \A t \in Task : ~InSnapshot(t) /\ ~Announces(frame[t])
        BY DEF Resting, InSnapshot, Announces, ChangeLabel, At
    <2>2. QED
        BY <2>1 DEF TruthInv, Told, NewsToCome
<1>2. Init => Inv /\ TruthInv
    BY InvInit, TruthInit
<1>3. (Inv /\ TruthInv) /\ [Next]_vars => (Inv /\ TruthInv)'
    BY InvNext, TruthNext
<1>4. QED
    BY <1>1, <1>2, <1>3, PTL DEF Spec
===============================================================================
