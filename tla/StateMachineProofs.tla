-------------------------- MODULE StateMachineProofs --------------------------
(***************************************************************************)
(* Proofs about StateMachine, for every number of slots and banks, every   *)
(* set of configurations and every width of the clock.                     *)
(***************************************************************************)
EXTENDS StateMachine, TLAPS

-------------------------------------------------------------------------------
(* Lemmas about the operators *)

(* The remainder by which bank_step wraps around is a bank number. *)
LEMMA WrapInRange ==
    ASSUME NEW n \in Nat \ {0}, NEW a \in Int
    PROVE  a % n \in 0 .. n - 1
OBVIOUS

(* What slot_at returns is a program slot. *)
LEMMA SlotTyped ==
    ASSUME MachineTypeOK, NEW bank \in Bank, NEW slot \in Slot
    PROVE  SlotAt(bank, slot) \in ProgramSlot
BY ConfigsAssumption DEF MachineTypeOK, SlotAt, Config

(* The unsigned difference of two clock readings is a clock reading. *)
LEMMA UintSubTyped ==
    ASSUME NEW a \in Millis, NEW b \in Millis
    PROVE  UintSub(a, b) \in Millis
BY SizesAssumption DEF Millis, UintSub

(* Whatever the state, its snapshot is well formed. *)
LEMMA SnapshotTyped == MachineTypeOK => Snapshot \in SnapshotType
<1> SUFFICES ASSUME MachineTypeOK PROVE Snapshot \in SnapshotType
    OBVIOUS
<1>1. SlotAt(current_bank, current_slot) \in ProgramSlot
    BY SlotTyped DEF MachineTypeOK
<1>2. CurrentAltShown \in BOOLEAN
    BY <1>1 DEF CurrentAltShown, MachineTypeOK, ProgramSlot
<1>3. \A i \in Slot : SlotLed(i) \in Led
    BY DEF SlotLed, Led, Browsing
<1>4. QED
    BY <1>2, <1>3 DEF Snapshot, SnapshotType, MachineTypeOK, Browsing

-------------------------------------------------------------------------------
(* Type correctness *)

(* The remembered alternatives stay a function on the slots. *)
LEMMA LeavingTyped ==
    ASSUME MachineTypeOK, NEW slot \in Slot
    PROVE  AltAfterLeaving(slot) \in [Slot -> BOOLEAN]
BY DEF AltAfterLeaving

(* So does the cleared cache. *)
LEMMA NoAlternativesTyped == NoAlternatives \in [Slot -> BOOLEAN]
BY DEF NoAlternatives

(* Every step keeps the state well typed. *)
LEMMA MachineTypeStep ==
    MachineTypeOK /\ [Next]_vars => MachineTypeOK'
<1> SUFFICES ASSUME MachineTypeOK, [Next]_vars PROVE MachineTypeOK'
    OBVIOUS
<1> USE SizesAssumption
<1>c. cfg \in Config
    BY ConfigsAssumption DEF MachineTypeOK
<1>p. ASSUME NEW slot \in Slot, NEW bank \in Bank, NEW alt \in BOOLEAN
      PROVE  Payload(SlotAt(bank, slot), alt) \in Seq(Message)
    BY SlotTyped DEF Payload, ProgramSlot
<1>e. <<>> \in Seq(Message)
    OBVIOUS
<1>1. ASSUME NEW delta \in {1, -1}, BankStep(delta)
      PROVE  MachineTypeOK'
    <2>1. target_bank' \in 0 .. cfg.bank_count - 1
        <3>1. cfg.bank_count \in Nat \ {0}
            BY <1>1, <1>c DEF BankStep, StepTarget, WindowStart, Config
        <3>2. target_bank + delta + cfg.bank_count \in Int
            BY <3>1 DEF MachineTypeOK, Bank
        <3>3. QED
            BY <1>1, <3>1, <3>2, WrapInRange DEF BankStep, StepTarget, WindowStart
    <2>2. target_bank' \in Bank
        BY <2>1, <1>c DEF Bank, Config
    <2>3. browse_started_ms' \in Millis
        BY <1>1 DEF BankStep, StepTarget, WindowStart, MachineTypeOK, Millis
    <2>4. QED
        BY <1>1, <2>2, <2>3 DEF BankStep, StepTarget, WindowStart, MachineTypeOK, Silent, config_vars,
            slot_vars
<1>2. ASSUME NEW slot \in Slot, CommitBank(slot)
      PROVE  MachineTypeOK'
    <2>1. sent' \in Seq(Message) /\ sounding' \in Seq(Message)
        BY <1>2, <1>p DEF CommitBank, EmitSlotMessages, MachineTypeOK
    <2>2. QED
        BY <1>2, <2>1, NoAlternativesTyped
            DEF CommitBank, MachineTypeOK, Millis, config_vars, clock_vars
<1>3. ASSUME NEW slot \in Slot, SelectSlot(slot)
      PROVE  MachineTypeOK'
    <2>1. alt_active' \in [Slot -> BOOLEAN]
        BY <1>3, LeavingTyped DEF SelectSlot
    <2>2. sent' \in Seq(Message) /\ sounding' \in Seq(Message)
        BY <1>3, <2>1, <1>p DEF SelectSlot, EmitSlotMessages, MachineTypeOK
    <2>3. QED
        BY <1>3, <2>1, <2>2 DEF SelectSlot, MachineTypeOK, config_vars, bank_vars,
            clock_vars
<1>4. ASSUME NEW slot \in Slot, ToggleAlternative(slot)
      PROVE  MachineTypeOK'
    <2>1. alt_active' \in [Slot -> BOOLEAN]
        BY <1>4 DEF ToggleAlternative, MachineTypeOK
    <2>2. sent' \in Seq(Message) /\ sounding' \in Seq(Message)
        BY <1>4, <2>1, <1>p DEF ToggleAlternative, EmitSlotMessages, MachineTypeOK
    <2>3. QED
        BY <1>4, <2>1, <2>2 DEF ToggleAlternative, MachineTypeOK, config_vars,
            bank_vars, clock_vars
<1>5. CASE TapShort \/ TapLong \/ BankLong
    <2>1. sent' \in Seq(Message)
        <3>1. <<cfg.tap_message>> \in Seq(Message) /\ <<cfg.tuner_message>> \in Seq(Message)
            BY <1>c DEF Config
        <3>2. cfg.user_function_a \in Seq(Message) /\ cfg.user_function_b \in Seq(Message)
            BY <1>c DEF Config
        <3>3. QED
            BY <1>5, <3>1, <3>2 DEF TapShort, TapLong, BankLong
    <2>2. QED
        BY <1>5, <2>1 DEF TapShort, TapLong, BankLong, MachineTypeOK, config_vars,
            bank_vars, slot_vars, clock_vars
<1>6. CASE Tick
    <2>1. target_bank' \in Bank /\ browse_started_ms' \in Millis
        BY <1>6 DEF Tick, MachineTypeOK, Millis
    <2>2. QED
        BY <1>6, <2>1 DEF Tick, MachineTypeOK, Silent, config_vars, slot_vars
<1>7. CASE ReplaceConfig
    BY <1>7, <1>e DEF ReplaceConfig, MachineTypeOK, bank_vars, slot_vars, clock_vars
<1>8. CASE Resync
    <2>1. current_bank' \in Bank /\ target_bank' \in Bank
        BY <1>8 DEF ClampedBank, Resync, MachineTypeOK, Bank, bank_vars
    <2>2. alt_active' \in [Slot -> BOOLEAN] /\ browse_started_ms' \in Millis
        BY <1>8, NoAlternativesTyped DEF ClampedBank, Resync, MachineTypeOK, Millis
    <2>3. QED
        BY <1>8, <2>1, <2>2 DEF ClampedBank, Resync, MachineTypeOK, clock_vars
<1>9. CASE AdvanceClock
    <2>1. now' \in Millis /\ tick_age' \in 0 .. TickGap /\ idle' \in 0 .. MaxIdle
        BY <1>9 DEF AdvanceClock, MachineTypeOK, Millis
    <2>2. QED
        BY <1>9, <2>1 DEF AdvanceClock, MachineTypeOK, Silent, config_vars,
            bank_vars, slot_vars
<1>10. CASE UNCHANGED vars
    BY <1>10 DEF MachineTypeOK, vars
<1>11. QED
    BY <1>1, <1>2, <1>3, <1>4, <1>5, <1>6, <1>7, <1>8, <1>9, <1>10
        DEF Next, ProgramPress

(* A step either leaves the shown snapshot alone or shows the new state. *)
LEMMA ShownStep == [Next]_vars => shown' = shown \/ NotifyStateChanged
BY DEF Next, vars, BankStep, StepTarget, WindowStart, ProgramPress, CommitBank, SelectSlot,
    ToggleAlternative, TapShort, TapLong, BankLong, Tick, ReplaceConfig, Resync,
    StepTarget, WindowStart, ClampedBank,
    AdvanceClock

(* The state is always well typed; in particular the bank and slot numbers  *)
(* with which slot_at indexes the configuration are inside its arrays, also *)
(* after a configuration change that was never followed by a resync.        *)
THEOREM TypeCorrect == Spec => []TypeOK
<1>1. Init => TypeOK
    <2> SUFFICES ASSUME Init PROVE TypeOK
        OBVIOUS
    <2>0. <<>> \in Seq(Message)
        OBVIOUS
    <2>1. MachineTypeOK
        BY <2>0, SizesAssumption, NoAlternativesTyped
            DEF Init, MachineTypeOK, Bank, Slot, Millis
    <2>2. QED
        BY <2>1, SnapshotTyped DEF Init, TypeOK
<1>2. TypeOK /\ [Next]_vars => TypeOK'
    <2> SUFFICES ASSUME TypeOK, [Next]_vars PROVE TypeOK'
        OBVIOUS
    <2>1. MachineTypeOK'
        BY MachineTypeStep DEF TypeOK
    <2>2. (Snapshot \in SnapshotType)'
        BY <2>1, SnapshotTyped, PTL
    <2>3. shown' \in SnapshotType
        BY <2>2, ShownStep DEF TypeOK, NotifyStateChanged, SnapshotType
    <2>4. QED
        BY <2>1, <2>3 DEF TypeOK, SnapshotType
<1>3. QED
    BY <1>1, <1>2, PTL DEF Spec

-------------------------------------------------------------------------------
(* Safety *)

(* Steps that leave the configuration, the banks and the slots alone: taps, *)
(* user functions, the clock, and stuttering.                               *)
LEMMA QuietStep ==
    ASSUME TapShort \/ TapLong \/ BankLong \/ AdvanceClock \/ UNCHANGED vars
    PROVE  UNCHANGED <<cfg, synced, current_bank, target_bank, current_slot,
                       alt_active, browse_started_ms>>
BY DEF TapShort, TapLong, BankLong, AdvanceClock, vars, config_vars, bank_vars,
    slot_vars

(* After a resync the banks are banks of the configuration, for good.       *)
THEOREM BanksStayInRange == Spec => []BanksInRange
<1>1. Init => BanksInRange
    BY ConfigsAssumption DEF Init, BanksInRange, Coherent, Config
<1>2. TypeOK /\ BanksInRange /\ [Next]_vars => BanksInRange'
    <2> SUFFICES ASSUME TypeOK, BanksInRange, [Next]_vars
                 PROVE  BanksInRange'
        OBVIOUS
    <2> USE DEF BanksInRange, Coherent
    <2>c. cfg.bank_count \in Nat /\ current_bank \in Nat /\ target_bank \in Nat
        BY ConfigsAssumption DEF TypeOK, MachineTypeOK, Config, Bank
    <2>1. ASSUME NEW delta \in {1, -1}, BankStep(delta)
          PROVE  BanksInRange'
        <3>1. cfg.bank_count \in Nat \ {0}
            BY <2>1, <2>c DEF BankStep, StepTarget, WindowStart
        <3>2. target_bank + delta + cfg.bank_count \in Int
            BY <2>c
        <3>3. target_bank' \in 0 .. cfg.bank_count - 1
            BY <2>1, <3>1, <3>2, WrapInRange DEF BankStep, StepTarget, WindowStart
        <3>4. QED
            BY <2>1, <2>c, <3>3 DEF BankStep, StepTarget, WindowStart, config_vars
    <2>2. ASSUME NEW slot \in Slot, ProgramPress(slot)
          PROVE  BanksInRange'
        BY <2>2 DEF ProgramPress, CommitBank, SelectSlot, ToggleAlternative,
            config_vars, bank_vars
    <2>3. CASE Tick
        BY <2>3 DEF Tick, config_vars
    <2>4. CASE ReplaceConfig
        BY <2>4 DEF ReplaceConfig
    <2>5. CASE Resync
        BY <2>5, <2>c DEF ClampedBank, Resync
    <2>6. CASE TapShort \/ TapLong \/ BankLong \/ AdvanceClock \/ UNCHANGED vars
        BY <2>6, QuietStep
    <2>7. QED
        BY <2>1, <2>2, <2>3, <2>4, <2>5, <2>6 DEF Next
<1>3. QED
    BY <1>1, <1>2, TypeCorrect, PTL DEF Spec

(* The snapshot depends on these variables only. *)
LEMMA SnapshotUnchanged ==
    ASSUME UNCHANGED <<cfg, current_bank, target_bank, current_slot, alt_active,
                       tuner_on>>
    PROVE  Snapshot' = Snapshot
BY DEF Snapshot, SlotLed, CurrentAltShown, Browsing, SlotAt

(* Every change of what the snapshot says has been announced: no handler    *)
(* returns early between a change and its notify_state_changed.             *)
THEOREM NothingUnannounced == Spec => []ShownIsCurrent
<1>1. Init => ShownIsCurrent
    BY DEF Init, ShownIsCurrent
<1>2. ShownIsCurrent /\ [Next]_vars => ShownIsCurrent'
    <2> SUFFICES ASSUME ShownIsCurrent, [Next]_vars
                 PROVE  ShownIsCurrent'
        OBVIOUS
    <2>1. ASSUME NotifyStateChanged
          PROVE  ShownIsCurrent'
        BY <2>1 DEF NotifyStateChanged, ShownIsCurrent
    <2>2. ASSUME UNCHANGED <<cfg, synced, current_bank, target_bank,
                             current_slot, alt_active, tuner_on, shown>>
          PROVE  ShownIsCurrent'
        BY <2>2, SnapshotUnchanged DEF ShownIsCurrent, Coherent
    <2>3. ASSUME ~Coherent'
          PROVE  ShownIsCurrent'
        BY <2>3 DEF ShownIsCurrent
    <2>4. ASSUME NEW delta \in {1, -1}, BankStep(delta)
          PROVE  ShownIsCurrent'
        BY <2>4, <2>1 DEF BankStep, StepTarget, WindowStart
    <2>5. ASSUME NEW slot \in Slot, ProgramPress(slot)
          PROVE  ShownIsCurrent'
        BY <2>5, <2>1 DEF ProgramPress, CommitBank, SelectSlot, ToggleAlternative
    <2>6. CASE TapLong
        BY <2>6, <2>1 DEF TapLong
    <2>7. CASE TapShort \/ BankLong \/ AdvanceClock \/ UNCHANGED vars
        BY <2>7, <2>2 DEF TapShort, BankLong, AdvanceClock, vars, config_vars,
            bank_vars, slot_vars
    <2>8. CASE Tick
        <3>1. CASE BrowseExpired
            BY <3>1, <2>8, <2>1 DEF Tick
        <3>2. CASE ~BrowseExpired
            BY <3>2, <2>8, <2>2 DEF Tick, config_vars, slot_vars
        <3>3. QED
            BY <3>1, <3>2
    <2>9. CASE ReplaceConfig
        BY <2>9, <2>3 DEF ReplaceConfig, Coherent
    <2>10. CASE Resync
        <3>1. CASE cfg.bank_count = 0
            BY <3>1, <2>10, <2>3 DEF ClampedBank, Resync, Coherent
        <3>2. CASE cfg.bank_count # 0
            BY <3>2, <2>10, <2>1 DEF ClampedBank, Resync
        <3>3. QED
            BY <3>1, <3>2
    <2>11. QED
        BY <2>4, <2>5, <2>6, <2>7, <2>8, <2>9, <2>10 DEF Next
<1>3. QED
    BY <1>1, <1>2, PTL DEF Spec

(* A one-time alternative never lives on in a slot the player has left, and *)
(* no slot without an alternative is ever remembered as playing one.        *)
THEOREM AltStaysWhereItBelongs == Spec => []AltWhereItBelongs
<1>1. Init => AltWhereItBelongs
    BY DEF Init, AltWhereItBelongs, NoAlternatives
<1>2. TypeOK /\ AltWhereItBelongs /\ [Next]_vars => AltWhereItBelongs'
    <2> SUFFICES ASSUME TypeOK, AltWhereItBelongs, [Next]_vars
                 PROVE  AltWhereItBelongs'
        OBVIOUS
    <2> USE DEF AltWhereItBelongs
    <2>1. ASSUME UNCHANGED <<cfg, synced, current_bank, current_slot, alt_active>>
          PROVE  AltWhereItBelongs'
        BY <2>1 DEF Coherent, SlotAt
    <2>2. ASSUME alt_active' = NoAlternatives
          PROVE  AltWhereItBelongs'
        BY <2>2 DEF NoAlternatives
    <2>3. ASSUME NEW delta \in {1, -1}, BankStep(delta)
          PROVE  AltWhereItBelongs'
        BY <2>3, <2>1 DEF BankStep, StepTarget, WindowStart, config_vars, slot_vars
    <2>4. ASSUME NEW slot \in Slot, CommitBank(slot)
          PROVE  AltWhereItBelongs'
        BY <2>4, <2>2 DEF CommitBank
    <2>5. ASSUME NEW slot \in Slot, SelectSlot(slot)
          PROVE  AltWhereItBelongs'
        <3> SUFFICES ASSUME Coherent', NEW s \in Slot, alt_active'[s]
                     PROVE  /\ SlotAt(current_bank, s)'.has_alternative
                            /\ SlotAt(current_bank, s)'.alt_persistence = "one_time"
                                  => s = current_slot'
            OBVIOUS
        <3>1. Coherent /\ SlotAt(current_bank, s)' = SlotAt(current_bank, s)
            BY <2>5 DEF SelectSlot, config_vars, bank_vars, Coherent, SlotAt
        <3>2. /\ alt_active[s]
              /\ s = current_slot =>
                    ~ /\ SlotAt(current_bank, s).has_alternative
                      /\ SlotAt(current_bank, s).alt_persistence = "one_time"
              /\ s = slot => SlotAt(current_bank, s).has_alternative
            BY <2>5 DEF SelectSlot, AltAfterLeaving
        <3>3. SlotAt(current_bank, s).has_alternative
            BY <3>1, <3>2
        <3>4. SlotAt(current_bank, s).alt_persistence # "one_time"
            BY <3>1, <3>2
        <3>5. QED
            BY <3>1, <3>3, <3>4
    <2>6. ASSUME NEW slot \in Slot, ToggleAlternative(slot)
          PROVE  AltWhereItBelongs'
        <3>1. \A s \in Slot : s # slot => alt_active'[s] = alt_active[s]
            BY <2>6 DEF ToggleAlternative, TypeOK, MachineTypeOK
        <3>2. QED
            BY <2>6, <3>1 DEF ToggleAlternative, config_vars, bank_vars, Coherent,
                SlotAt
    <2>7. CASE Tick
        BY <2>7, <2>1 DEF Tick, config_vars, slot_vars
    <2>8. CASE ReplaceConfig
        BY <2>8 DEF ReplaceConfig, Coherent
    <2>9. CASE Resync
        <3>1. CASE cfg.bank_count = 0
            BY <3>1, <2>9 DEF ClampedBank, Resync, Coherent
        <3>2. CASE cfg.bank_count # 0
            BY <3>2, <2>9, <2>2 DEF ClampedBank, Resync
        <3>3. QED
            BY <3>1, <3>2
    <2>10. CASE TapShort \/ TapLong \/ BankLong \/ AdvanceClock \/ UNCHANGED vars
        BY <2>10, <2>1, QuietStep
    <2>11. QED
        BY <2>3, <2>4, <2>5, <2>6, <2>7, <2>8, <2>9, <2>10 DEF Next, ProgramPress
<1>3. QED
    BY <1>1, <1>2, TypeCorrect, PTL DEF Spec

(* What a program press has just sent is what the LEDs show next. *)
LEMMA EmittedIsDisplayed ==
    ASSUME LedTellsWhatSounds,
           NEW bank, NEW slot, NEW alt \in BOOLEAN,
           EmitSlotMessages(bank, slot, alt),
           current_bank' = bank, current_slot' = slot, cfg' = cfg,
           CurrentAltShown' = alt
    PROVE  LedTellsWhatSounds'
BY DEF EmitSlotMessages, LedTellsWhatSounds, Payload, SlotAt

(* The LEDs always announce the program that was last sent. *)
THEOREM LedsTellTheTruth == Spec => []LedTellsWhatSounds
<1>1. Init => LedTellsWhatSounds
    BY DEF Init, LedTellsWhatSounds
<1>2. TypeOK /\ LedTellsWhatSounds /\ [Next]_vars => LedTellsWhatSounds'
    <2> SUFFICES ASSUME TypeOK, LedTellsWhatSounds, [Next]_vars
                 PROVE  LedTellsWhatSounds'
        OBVIOUS
    <2>1. ASSUME UNCHANGED <<cfg, current_bank, current_slot, alt_active, sounding>>
          PROVE  LedTellsWhatSounds'
        BY <2>1 DEF LedTellsWhatSounds, SlotAt, Payload, CurrentAltShown
    <2>2. ASSUME sounding' = <<>>
          PROVE  LedTellsWhatSounds'
        BY <2>2 DEF LedTellsWhatSounds
    <2>3. ASSUME NEW delta \in {1, -1}, BankStep(delta)
          PROVE  LedTellsWhatSounds'
        BY <2>3, <2>1 DEF BankStep, StepTarget, WindowStart, Silent, config_vars, slot_vars
    <2>4. ASSUME NEW slot \in Slot, CommitBank(slot)
          PROVE  LedTellsWhatSounds'
        <3>1. CurrentAltShown' = FALSE
            BY <2>4 DEF CommitBank, CurrentAltShown, NoAlternatives
        <3>2. QED
            BY <2>4, <3>1, EmittedIsDisplayed DEF CommitBank, config_vars
    <2>5. ASSUME NEW slot \in Slot, SelectSlot(slot)
          PROVE  LedTellsWhatSounds'
        <3>1. alt_active' \in [Slot -> BOOLEAN]
            BY <2>5, LeavingTyped DEF SelectSlot, TypeOK
        <3>2. alt_active'[slot] => SlotAt(current_bank, slot).has_alternative
            BY <2>5 DEF SelectSlot, AltAfterLeaving
        <3>3. CurrentAltShown' <=> alt_active'[slot]
            BY <2>5, <3>2 DEF SelectSlot, CurrentAltShown, SlotAt, config_vars,
                bank_vars
        <3>4. CurrentAltShown' = alt_active'[slot]
            BY <3>1, <3>3 DEF CurrentAltShown
        <3>5. QED
            BY <2>5, <3>1, <3>4, EmittedIsDisplayed
                DEF SelectSlot, config_vars, bank_vars
    <2>6. ASSUME NEW slot \in Slot, ToggleAlternative(slot)
          PROVE  LedTellsWhatSounds'
        <3>1. alt_active' \in [Slot -> BOOLEAN]
            BY <2>6 DEF ToggleAlternative, TypeOK, MachineTypeOK
        <3>2. CurrentAltShown' <=> alt_active'[slot]
            BY <2>6 DEF ToggleAlternative, CurrentAltShown, SlotAt, config_vars,
                bank_vars
        <3>3. CurrentAltShown' = alt_active'[slot]
            BY <3>1, <3>2 DEF CurrentAltShown
        <3>4. QED
            BY <2>6, <3>1, <3>3, EmittedIsDisplayed
                DEF ToggleAlternative, config_vars, bank_vars
    <2>7. CASE Tick
        BY <2>7, <2>1 DEF Tick, Silent, config_vars, slot_vars
    <2>8. CASE ReplaceConfig \/ Resync
        BY <2>8, <2>2 DEF ReplaceConfig, ClampedBank, Resync
    <2>9. CASE TapShort \/ TapLong \/ BankLong \/ AdvanceClock \/ UNCHANGED vars
        <3>1. UNCHANGED sounding
            BY <2>9 DEF TapShort, TapLong, BankLong, AdvanceClock, Silent, vars
        <3>2. QED
            BY <2>9, <3>1, <2>1, QuietStep
    <2>10. QED
        BY <2>3, <2>4, <2>5, <2>6, <2>7, <2>8, <2>9 DEF Next, ProgramPress
<1>3. QED
    BY <1>1, <1>2, TypeCorrect, PTL DEF Spec

(* How the unsigned difference grows when a millisecond passes. *)
LEMMA UintSubAdvance ==
    ASSUME NEW a \in Millis, NEW b \in Millis, NEW c \in Millis,
           c = IF a = ClockModulus - 1 THEN 0 ELSE a + 1
    PROVE  UintSub(c, b) = IF UintSub(a, b) = ClockModulus - 1 THEN 0
                           ELSE UintSub(a, b) + 1
BY SizesAssumption DEF Millis, UintSub

(* Outside browse mode nothing is claimed about the timing. *)
LEMMA NotBrowsingTiming == ~Browsing => BrowseTiming
BY DEF BrowseTiming

(* Elapsed time as handle_tick computes it, and as it is. *)
THEOREM BrowseTimingHolds == Spec => []BrowseTiming
<1>1. Init => BrowseTiming
    BY DEF Init, BrowseTiming, Browsing
<1>2. TypeOK /\ BrowseTiming /\ [Next]_vars => BrowseTiming'
    <2> SUFFICES ASSUME TypeOK, BrowseTiming, [Next]_vars
                 PROVE  BrowseTiming'
        OBVIOUS
    <2> USE SizesAssumption
    <2>t. /\ now \in Millis /\ browse_started_ms \in Millis
          /\ idle \in 0 .. MaxIdle /\ tick_age \in 0 .. TickGap
          /\ cfg.browse_timeout_ms \in Millis
        BY ConfigsAssumption DEF TypeOK, MachineTypeOK, Config
    <2>u. ASSUME ~Browsing'
          PROVE  BrowseTiming'
        BY <2>u DEF BrowseTiming
    <2>v. ASSUME UNCHANGED <<cfg, synced, current_bank, target_bank,
                             browse_started_ms, now, tick_age, idle>>
          PROVE  BrowseTiming'
        BY <2>v DEF BrowseTiming, Browsing, Coherent, UintSub
    <2>1. ASSUME NEW delta \in {1, -1}, BankStep(delta)
          PROVE  BrowseTiming'
        <3>1. CASE target_bank' = current_bank
            BY <3>1, <2>1, <2>u DEF BankStep, StepTarget, WindowStart, Browsing
        <3>2. CASE target_bank' # current_bank
            <4>1. /\ browse_started_ms' = now /\ now' = now /\ idle' = 0
                  /\ tick_age' = tick_age
                BY <3>2, <2>1 DEF BankStep, StepTarget, WindowStart
            <4>2. UintSub(now', browse_started_ms') = 0
                BY <4>1, <2>t DEF UintSub, Millis
            <4>3. QED
                BY <4>1, <4>2, <2>t DEF BrowseTiming
        <3>3. QED
            BY <3>1, <3>2
    <2>2. ASSUME NEW slot \in Slot, CommitBank(slot)
          PROVE  BrowseTiming'
        BY <2>2, <2>u DEF CommitBank, Browsing
    <2>3. ASSUME NEW slot \in Slot, SelectSlot(slot) \/ ToggleAlternative(slot)
          PROVE  BrowseTiming'
        BY <2>3, <2>u DEF SelectSlot, ToggleAlternative, Browsing, bank_vars
    <2>4. CASE Tick
        <3>1. CASE BrowseExpired
            BY <3>1, <2>4, <2>u DEF Tick, Browsing
        <3>2. CASE ~BrowseExpired
            <4>1. /\ UNCHANGED <<cfg, synced, current_bank, target_bank,
                                 browse_started_ms, now, idle>>
                  /\ tick_age' = 0
                BY <3>2, <2>4 DEF Tick, config_vars
            <4>2. ASSUME Coherent, Browsing, cfg.browse_timeout_ms # 0
                  PROVE  idle < cfg.browse_timeout_ms
                <5>1. UintSub(now, browse_started_ms) < cfg.browse_timeout_ms
                    <6>1. UintSub(now, browse_started_ms) \in Millis
                        BY <2>t, UintSubTyped
                    <6>2. QED
                        BY <6>1, <3>2, <4>2, <2>t DEF BrowseExpired, Millis
                <5>2. idle < cfg.browse_timeout_ms + TickGap
                    BY <4>2, <2>t DEF BrowseTiming, Millis
                <5>3. idle < ClockModulus /\ idle < MaxIdle
                    BY <5>2, <2>t, TimeoutAssumption
                        DEF TypeOK, MachineTypeOK, Millis
                <5>4. QED
                    BY <5>1, <5>3, <4>2 DEF BrowseTiming
            <4>3. QED
                BY <4>1, <4>2, <2>t DEF BrowseTiming, Browsing, Coherent, UintSub,
                    Millis
        <3>3. QED
            BY <3>1, <3>2
    <2>5. CASE ReplaceConfig
        BY <2>5 DEF ReplaceConfig, BrowseTiming, Browsing, Coherent, UintSub,
            bank_vars, clock_vars
    <2>6. CASE Resync
        <3>1. CASE cfg.bank_count = 0
            BY <3>1, <2>6 DEF ClampedBank, Resync, BrowseTiming, Browsing, Coherent, UintSub,
                bank_vars, clock_vars
        <3>2. CASE cfg.bank_count # 0
            BY <3>2, <2>6, <2>u DEF ClampedBank, Resync, Browsing
        <3>3. QED
            BY <3>1, <3>2
    <2>7. CASE AdvanceClock
        <3>1. /\ UNCHANGED <<cfg, synced, current_bank, target_bank,
                             browse_started_ms>>
              /\ tick_age' = tick_age + 1
              /\ idle' = IF idle < MaxIdle THEN idle + 1 ELSE idle
            BY <2>7 DEF AdvanceClock, config_vars, bank_vars
        <3>2. now' \in Millis
            BY <2>7, MachineTypeStep DEF TypeOK, MachineTypeOK
        <3>3. UintSub(now', browse_started_ms) =
                  IF UintSub(now, browse_started_ms) = ClockModulus - 1 THEN 0
                  ELSE UintSub(now, browse_started_ms) + 1
            BY <2>7, <3>2, <2>t, UintSubAdvance DEF AdvanceClock
        <3>4. UintSub(now, browse_started_ms) \in Millis
            BY <2>t, UintSubTyped
        <3>5. QED
            BY <3>1, <3>3, <3>4, <2>t
                DEF BrowseTiming, Browsing, Coherent, Millis
    <2>8. CASE TapShort \/ TapLong \/ BankLong \/ UNCHANGED vars
        BY <2>8, <2>v DEF TapShort, TapLong, BankLong, vars, config_vars,
            bank_vars, clock_vars
    <2>9. QED
        BY <2>1, <2>2, <2>3, <2>4, <2>5, <2>6, <2>7, <2>8 DEF Next, ProgramPress
<1>3. QED
    BY <1>1, <1>2, TypeCorrect, PTL DEF Spec

(* Browse mode is over one tick after its timeout at the latest. *)
THEOREM BrowseDeadlineHolds == Spec => []BrowseDeadline
<1>1. TypeOK /\ BrowseTiming => BrowseDeadline
    <2> SUFFICES ASSUME TypeOK, BrowseTiming, Coherent, Browsing,
                        cfg.browse_timeout_ms # 0
                 PROVE  idle < cfg.browse_timeout_ms + TickGap
        BY DEF BrowseDeadline
    <2>1. /\ idle \in Nat /\ tick_age \in 0 .. TickGap
          /\ cfg.browse_timeout_ms \in Nat \ {0}
        BY ConfigsAssumption, SizesAssumption
            DEF TypeOK, MachineTypeOK, Config, Millis
    <2>2. idle <= tick_age \/ idle - tick_age < cfg.browse_timeout_ms
        BY DEF BrowseTiming
    <2>3. QED
        BY <2>1, <2>2, SizesAssumption
<1>2. QED
    BY <1>1, TypeCorrect, BrowseTimingHolds, PTL

(* And it is never dropped by the tick before its timeout, however often    *)
(* the millisecond clock has wrapped around.                                *)
THEOREM TickIsNeverEarly == Spec => NoEarlyTimeout
<1>1. TypeOK /\ BrowseTiming /\ [Next]_vars =>
          [Tick /\ target_bank' # target_bank =>
              cfg.browse_timeout_ms # 0 /\ idle >= cfg.browse_timeout_ms]_vars
    <2> SUFFICES ASSUME TypeOK, BrowseTiming, Tick, target_bank' # target_bank
                 PROVE  cfg.browse_timeout_ms # 0 /\ idle >= cfg.browse_timeout_ms
        OBVIOUS
    <2>1. BrowseExpired
        BY DEF Tick
    <2>2. /\ now \in Millis /\ browse_started_ms \in Millis
          /\ idle \in 0 .. MaxIdle /\ cfg.browse_timeout_ms \in Millis
        BY ConfigsAssumption DEF TypeOK, MachineTypeOK, Config
    <2>3. cfg.browse_timeout_ms <= MaxIdle
        BY <2>2, TimeoutAssumption, SizesAssumption
            DEF TypeOK, MachineTypeOK, Millis
    <2>4. UintSub(now, browse_started_ms) \in Millis
        BY <2>2, UintSubTyped
    <2>5. CASE idle < MaxIdle
        BY <2>5, <2>1, <2>2, <2>4 DEF BrowseTiming, BrowseExpired, Millis
    <2>6. CASE idle = MaxIdle
        BY <2>6, <2>1, <2>3 DEF BrowseExpired
    <2>7. QED
        BY <2>2, <2>5, <2>6, SizesAssumption
<1>2. QED
    BY <1>1, TypeCorrect, BrowseTimingHolds, PTL DEF Spec, NoEarlyTimeout

(* The current bank never changes behind the player's back. *)
THEOREM BankChangesAreHeard == Spec => BankChangeIsHeard
<1>1. TypeOK /\ [Next]_vars =>
          [current_bank' # current_bank =>
             /\ alt_active' = NoAlternatives
             /\ \/ sent' = SlotAt(target_bank, current_slot').primary /\ synced' = synced
                \/ sent' = <<>> /\ synced' /\ ~synced /\ current_bank' = 0]_vars
    <2> SUFFICES ASSUME TypeOK, Next, current_bank' # current_bank
                 PROVE  /\ alt_active' = NoAlternatives
                        /\ \/ /\ sent' = SlotAt(target_bank, current_slot').primary
                              /\ synced' = synced
                           \/ sent' = <<>> /\ synced' /\ ~synced /\ current_bank' = 0
        OBVIOUS
    <2>1. (\E slot \in Slot : CommitBank(slot)) \/ Resync
        BY DEF Next, BankStep, StepTarget, WindowStart, ProgramPress, SelectSlot, ToggleAlternative,
            TapShort, TapLong, BankLong, Tick, ReplaceConfig, AdvanceClock,
            bank_vars
    <2>2. ASSUME NEW slot \in Slot, CommitBank(slot)
          PROVE  /\ alt_active' = NoAlternatives
                 /\ sent' = SlotAt(target_bank, current_slot').primary
                 /\ synced' = synced
        BY <2>2 DEF CommitBank, EmitSlotMessages, Payload, config_vars, SlotAt
    <2>3. CASE Resync
        <3>1. cfg.bank_count # 0
            BY <2>3 DEF ClampedBank, Resync, bank_vars
        <3>2. QED
            BY <3>1, <2>3 DEF ClampedBank, Resync
    <2>4. QED
        BY <2>1, <2>2, <2>3
<1>2. QED
    BY <1>1, TypeCorrect, PTL DEF Spec, BankChangeIsHeard
===============================================================================
