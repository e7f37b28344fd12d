--------------------------- MODULE AltHistoryProofs ---------------------------
(***************************************************************************)
(* The alternative cache agrees with the history of presses, for any       *)
(* number of slots and banks, any configurations and any number of         *)
(* recorded presses.                                                       *)
(***************************************************************************)
EXTENDS AltHistory, StateMachineProofs, FiniteSetTheorems

-------------------------------------------------------------------------------
(* Counting the presses that count *)

(* LiveToggles for a record p, with oneTime for the persistence. *)
Toggles(p, s, oneTime) ==
    {k \in 2 .. Len(p) : /\ p[k] = s
                         /\ p[k - 1] = s
                         /\ oneTime => \A j \in k .. Len(p) : p[j] = s}

OneTime(s) == SlotAt(current_bank, s).alt_persistence = "one_time"

LEMMA LiveAreToggles ==
    \A s \in Slot : LiveToggles(s) = Toggles(presses, s, OneTime(s))
BY DEF LiveToggles, Toggles, OneTime

LEMMA TogglesFinite ==
    ASSUME NEW p \in Seq(Slot), NEW s, NEW oneTime \in BOOLEAN
    PROVE  /\ IsFiniteSet(Toggles(p, s, oneTime))
           /\ Cardinality(Toggles(p, s, oneTime)) \in Nat
<1>1. IsFiniteSet(2 .. Len(p))
    BY FS_Interval
<1>2. Toggles(p, s, oneTime) \in SUBSET (2 .. Len(p))
    BY DEF Toggles
<1>3. QED
    BY <1>1, <1>2, FS_Subset, FS_CardinalityType

(* A record of one press has no toggles. *)
LEMMA NoToggles ==
    ASSUME NEW x, NEW s, NEW oneTime \in BOOLEAN
    PROVE  Cardinality(Toggles(<<x>>, s, oneTime)) = 0
<1>1. Toggles(<<x>>, s, oneTime) = {}
    BY DEF Toggles
<1>2. QED
    BY <1>1, FS_EmptySet

(* A press changes nothing for a slot that was not the current one. *)
LEMMA AppendElsewhere ==
    ASSUME NEW p \in Seq(Slot), Len(p) > 0, NEW x \in Slot, NEW s \in Slot,
           s # p[Len(p)], NEW oneTime \in BOOLEAN
    PROVE  Toggles(Append(p, x), s, oneTime) = Toggles(p, s, oneTime)
<1> DEFINE q == Append(p, x)
<1>1. /\ Len(q) = Len(p) + 1
      /\ \A j \in 1 .. Len(p) : q[j] = p[j]
    OBVIOUS
<1> HIDE DEF q
<1>2. \A k \in 2 .. Len(q) : q[k - 1] = s => k \in 2 .. Len(p)
    BY <1>1
<1>3. ASSUME NEW k \in 2 .. Len(p)
      PROVE  k \in Toggles(q, s, oneTime) <=> k \in Toggles(p, s, oneTime)
    <2>1. Len(p) \in k .. Len(p) /\ Len(p) \in k .. Len(q)
        BY <1>1
    <2>2. ~(\A j \in k .. Len(p) : p[j] = s) /\ ~(\A j \in k .. Len(q) : q[j] = s)
        BY <1>1, <2>1
    <2>3. k \in 2 .. Len(q) /\ q[k] = p[k] /\ q[k - 1] = p[k - 1]
        BY <1>1
    <2>4. QED
        BY <2>2, <2>3 DEF Toggles
<1>4. \A k : k \in Toggles(q, s, oneTime) => k \in 2 .. Len(p)
    BY <1>2 DEF Toggles
<1>5. \A k : k \in Toggles(p, s, oneTime) => k \in 2 .. Len(p)
    BY DEF Toggles
<1>6. Toggles(q, s, oneTime) = Toggles(p, s, oneTime)
    BY <1>3, <1>4, <1>5
<1>7. QED
    BY <1>6 DEF q

(* Another slot is pressed: a one-time alternative is forgotten. *)
LEMMA AppendLeaving ==
    ASSUME NEW p \in Seq(Slot), Len(p) > 0, NEW x \in Slot, NEW s \in Slot,
           s = p[Len(p)], x # s, NEW oneTime \in BOOLEAN
    PROVE  Toggles(Append(p, x), s, oneTime) =
               IF oneTime THEN {} ELSE Toggles(p, s, FALSE)
<1> DEFINE q == Append(p, x)
<1>1. /\ Len(q) = Len(p) + 1
      /\ \A j \in 1 .. Len(p) : q[j] = p[j]
      /\ q[Len(q)] = x
    OBVIOUS
<1> HIDE DEF q
<1>2. CASE oneTime
    <2>1. \A k \in 2 .. Len(q) : ~(\A j \in k .. Len(q) : q[j] = s)
        <3>1. \A k \in 2 .. Len(q) : Len(q) \in k .. Len(q)
            OBVIOUS
        <3>2. QED
            BY <1>1, <3>1
    <2>2. Toggles(q, s, oneTime) = {}
        BY <1>2, <2>1 DEF Toggles
    <2>3. QED
        BY <1>2, <2>2 DEF q
<1>3. CASE ~oneTime
    <2>1. \A k \in 2 .. Len(q) : q[k] = s => k \in 2 .. Len(p)
        BY <1>1
    <2>2. \A k \in 2 .. Len(p) : k \in 2 .. Len(q) /\ q[k] = p[k] /\ q[k - 1] = p[k - 1]
        BY <1>1
    <2>3. Toggles(q, s, FALSE) = Toggles(p, s, FALSE)
        BY <2>1, <2>2 DEF Toggles
    <2>4. oneTime = FALSE
        BY <1>3
    <2>5. QED
        BY <1>3, <2>3, <2>4 DEF q
<1>4. QED
    BY <1>2, <1>3

(* The current slot is pressed again: one toggle more. *)
LEMMA AppendAgain ==
    ASSUME NEW p \in Seq(Slot), Len(p) > 0, NEW s \in Slot, s = p[Len(p)],
           NEW oneTime \in BOOLEAN
    PROVE  Cardinality(Toggles(Append(p, s), s, oneTime)) =
               Cardinality(Toggles(p, s, oneTime)) + 1
<1> DEFINE q == Append(p, s)
<1>1. /\ Len(q) = Len(p) + 1
      /\ \A j \in 1 .. Len(p) : q[j] = p[j]
      /\ q[Len(q)] = s /\ q[Len(q) - 1] = s
    OBVIOUS
<1> HIDE DEF q
<1>2. Len(q) \in Toggles(q, s, oneTime)
    <2>1. Len(q) \in 2 .. Len(q)
        BY <1>1
    <2>2. \A j \in Len(q) .. Len(q) : q[j] = s
        BY <1>1
    <2>3. QED
        BY <1>1, <2>1, <2>2 DEF Toggles
<1>3. Len(q) \notin Toggles(p, s, oneTime)
    BY <1>1 DEF Toggles
<1>4. ASSUME NEW k \in 2 .. Len(p)
      PROVE  k \in Toggles(q, s, oneTime) <=> k \in Toggles(p, s, oneTime)
    <2>1. k \in 2 .. Len(q) /\ q[k] = p[k] /\ q[k - 1] = p[k - 1]
        BY <1>1
    <2>2. (\A j \in k .. Len(q) : q[j] = s) <=> (\A j \in k .. Len(p) : p[j] = s)
        <3>1. \A j \in k .. Len(q) : j = Len(q) \/ j \in k .. Len(p)
            BY <1>1
        <3>2. \A j \in k .. Len(p) : j \in k .. Len(q) /\ q[j] = p[j]
            BY <1>1
        <3>3. QED
            BY <1>1, <3>1, <3>2
    <2>3. QED
        BY <2>1, <2>2 DEF Toggles
<1>5. \A k : k \in Toggles(q, s, oneTime) => k = Len(q) \/ k \in 2 .. Len(p)
    BY <1>1 DEF Toggles
<1>6. \A k : k \in Toggles(p, s, oneTime) => k \in 2 .. Len(p)
    BY DEF Toggles
<1>7. Toggles(q, s, oneTime) = Toggles(p, s, oneTime) \cup {Len(q)}
    BY <1>2, <1>4, <1>5, <1>6
<1>8. Cardinality(Toggles(q, s, oneTime)) = Cardinality(Toggles(p, s, oneTime)) + 1
    <2> DEFINE S == Toggles(p, s, oneTime)
    <2>1. IsFiniteSet(S)
        BY TogglesFinite
    <2>2. Len(q) \notin S /\ Toggles(q, s, oneTime) = S \cup {Len(q)}
        BY <1>3, <1>7
    <2> HIDE DEF S
    <2>3. Cardinality(S \cup {Len(q)}) = Cardinality(S) + 1
        BY <2>1, <2>2, FS_AddElement
    <2>4. QED
        BY <2>2, <2>3 DEF S
<1>9. QED
    BY <1>8 DEF q

-------------------------------------------------------------------------------
(* The record only adds to the state machine *)

LEMMA StepsOfTheMachine == [HistoryNext]_historyVars => [Next]_vars
BY DEF HistoryNext, RecordPress, RecordResync, RecordOther, Next, historyVars

(* Recording the presses restricts the state machine and changes nothing:   *)
(* whatever it does while it is recorded, it does anyway.                   *)
THEOREM HistoryIsTheMachine == HistorySpec => Spec
BY StepsOfTheMachine, PTL DEF HistorySpec, HistoryInit, Spec

-------------------------------------------------------------------------------
(* The inductive invariant: the last press recorded is the current slot. *)

RecordOK ==
    /\ presses \in Seq(Slot)
    /\ Len(presses) > 0
    /\ presses[Len(presses)] = current_slot

(* The bit of a slot that has c toggles. *)
BitOf(s, c) == SlotAt(current_bank, s).has_alternative /\ c % 2 = 1

Matches == \A s \in Slot :
    alt_active[s] <=> BitOf(s, Cardinality(Toggles(presses, s, OneTime(s))))

LEMMA MatchesIsProperty ==
    ASSUME MachineTypeOK
    PROVE  AltMatchesPresses <=> (Coherent => Matches)
<1>1. \A s \in Slot : alt_active[s] \in BOOLEAN
    BY DEF MachineTypeOK
<1>2. \A s \in Slot : AltOf(s) <=> BitOf(s, Cardinality(Toggles(presses, s, OneTime(s))))
    BY LiveAreToggles DEF AltOf, BitOf
<1>3. \A s \in Slot : AltOf(s) \in BOOLEAN
    BY <1>1, SlotTyped DEF AltOf, MachineTypeOK, ProgramSlot
<1>4. QED
    BY <1>1, <1>2, <1>3 DEF AltMatchesPresses, Matches

(* When the record starts again, so does the cache. *)
LEMMA FreshMatches ==
    (\E x \in Slot : presses = <<x>>) /\ alt_active = NoAlternatives => Matches
<1> SUFFICES ASSUME NEW x \in Slot, presses = <<x>>, alt_active = NoAlternatives
             PROVE  Matches
    OBVIOUS
<1>1. \A s \in Slot : OneTime(s) \in BOOLEAN
    BY DEF OneTime
<1>2. \A s \in Slot : Cardinality(Toggles(presses, s, OneTime(s))) = 0
    BY <1>1, NoToggles
<1>3. QED
    BY <1>2 DEF Matches, BitOf, NoAlternatives

(* A different slot is selected. *)
LEMMA SelectMatches ==
    ASSUME MachineTypeOK, RecordOK, Matches, NEW slot \in Slot, SelectSlot(slot),
           presses' = Append(presses, slot)
    PROVE  Matches'
<1>1. /\ cfg' = cfg /\ current_bank' = current_bank
      /\ slot # current_slot
      /\ alt_active' = AltAfterLeaving(slot)
    BY DEF SelectSlot, config_vars, bank_vars
<1>2. ASSUME NEW s \in Slot
      PROVE  alt_active'[s] <=>
                 BitOf(s, Cardinality(Toggles(presses', s, OneTime(s))))
    <2> DEFINE old == Cardinality(Toggles(presses, s, OneTime(s)))
               new == Cardinality(Toggles(presses', s, OneTime(s)))
    <2>1. alt_active[s] <=> BitOf(s, old)
        BY DEF Matches
    <2>2. OneTime(s) \in BOOLEAN
        BY DEF OneTime
    <2>3. CASE s # current_slot
        <3>1. new = old
            BY <2>2, <2>3, AppendElsewhere DEF RecordOK
        <3>2. alt_active'[s] <=> alt_active[s] /\ (s = slot =>
                  SlotAt(current_bank, slot).has_alternative)
            BY <1>1, <2>3 DEF AltAfterLeaving
        <3>3. QED
            BY <2>1, <3>1, <3>2 DEF BitOf
    <2>4. CASE s = current_slot /\ OneTime(s)
        <3>1. Toggles(presses', s, OneTime(s)) = {}
            BY <1>1, <2>2, <2>4, AppendLeaving DEF RecordOK
        <3>2. new = 0
            BY <3>1, FS_EmptySet
        <3>3. alt_active'[s] <=> alt_active[s]
                  /\ ~SlotAt(current_bank, s).has_alternative
            BY <1>1, <2>4 DEF AltAfterLeaving, OneTime
        <3>4. QED
            BY <2>1, <3>2, <3>3 DEF BitOf
    <2>5. CASE s = current_slot /\ ~OneTime(s)
        <3>1. OneTime(s) = FALSE
            BY <2>2, <2>5
        <3>2. Toggles(presses', s, FALSE) = Toggles(presses, s, FALSE)
            BY <1>1, <2>5, AppendLeaving DEF RecordOK
        <3>3. alt_active'[s] <=> alt_active[s]
            BY <1>1, <2>5 DEF AltAfterLeaving, OneTime
        <3>4. QED
            BY <2>1, <3>1, <3>2, <3>3
    <2>6. QED
        BY <2>3, <2>4, <2>5
<1>3. \A s \in Slot : OneTime(s)' = OneTime(s)
    BY <1>1 DEF OneTime, SlotAt
<1>4. QED
    BY <1>1, <1>2, <1>3 DEF Matches, BitOf, SlotAt

(* The current slot is pressed again. *)
LEMMA ToggleMatches ==
    ASSUME MachineTypeOK, RecordOK, Matches, NEW slot \in Slot,
           ToggleAlternative(slot), presses' = Append(presses, slot)
    PROVE  Matches'
<1>1. /\ cfg' = cfg /\ current_bank' = current_bank
      /\ slot = current_slot
      /\ SlotAt(current_bank, slot).has_alternative
      /\ alt_active' = [alt_active EXCEPT ![slot] = ~@]
    BY DEF ToggleAlternative, config_vars, bank_vars
<1>2. ASSUME NEW s \in Slot
      PROVE  alt_active'[s] <=>
                 BitOf(s, Cardinality(Toggles(presses', s, OneTime(s))))
    <2> DEFINE old == Cardinality(Toggles(presses, s, OneTime(s)))
               new == Cardinality(Toggles(presses', s, OneTime(s)))
    <2>1. alt_active[s] <=> BitOf(s, old)
        BY DEF Matches
    <2>2. OneTime(s) \in BOOLEAN
        BY DEF OneTime
    <2>3. CASE s # current_slot
        <3>1. new = old
            BY <2>2, <2>3, AppendElsewhere DEF RecordOK
        <3>2. alt_active'[s] = alt_active[s]
            BY <1>1, <2>3 DEF MachineTypeOK
        <3>3. QED
            BY <2>1, <3>1, <3>2
    <2>4. CASE s = current_slot
        <3>1. new = old + 1
            BY <1>1, <2>2, <2>4, AppendAgain DEF RecordOK
        <3>2. alt_active'[s] <=> ~alt_active[s]
            BY <1>1, <2>4 DEF MachineTypeOK
        <3>3. old \in Nat
            BY <2>2, TogglesFinite DEF RecordOK
        <3> HIDE DEF old, new
        <3>4. new % 2 = 1 <=> ~(old % 2 = 1)
            BY <3>1, <3>3
        <3>5. BitOf(s, new) <=> ~BitOf(s, old)
            BY <1>1, <2>4, <3>4 DEF BitOf
        <3>6. QED
            BY <2>1, <3>2, <3>5 DEF new
    <2>5. QED
        BY <2>3, <2>4
<1>3. \A s \in Slot : OneTime(s)' = OneTime(s)
    BY <1>1 DEF OneTime, SlotAt
<1>4. QED
    BY <1>1, <1>2, <1>3 DEF Matches, BitOf, SlotAt

(* A step that leaves the record, the slots and the configuration alone. *)
LEMMA UnchangedMatches ==
    ASSUME RecordOK, Coherent => Matches,
           UNCHANGED <<cfg, synced, current_bank, current_slot, alt_active, presses>>
    PROVE  RecordOK' /\ (Coherent => Matches)'
BY DEF RecordOK, Coherent, Matches, BitOf, SlotAt, Toggles, OneTime

LEMMA RecordStep ==
    ASSUME MachineTypeOK, RecordOK, Coherent => Matches, [HistoryNext]_historyVars
    PROVE  RecordOK' /\ (Coherent => Matches)'
<1>1. ASSUME NEW slot \in Slot, CommitBank(slot), presses' = <<slot>>
      PROVE  RecordOK' /\ Matches'
    <2>1. current_slot' = slot /\ alt_active' = NoAlternatives
        BY <1>1 DEF CommitBank
    <2>2. Matches'
        <3>1. (\E x \in Slot : presses = <<x>>)' /\ (alt_active = NoAlternatives)'
            BY <1>1, <2>1 DEF NoAlternatives
        <3>2. QED
            BY <3>1, FreshMatches, PTL
    <2>3. RecordOK'
        BY <1>1, <2>1 DEF RecordOK
    <2>4. QED
        BY <2>2, <2>3
<1>2. ASSUME NEW slot \in Slot, SelectSlot(slot) \/ ToggleAlternative(slot),
             presses' = Append(presses, slot)
      PROVE  RecordOK' /\ (Coherent => Matches)'
    <2>1. current_slot' = slot /\ Coherent' = Coherent
        BY <1>2 DEF SelectSlot, ToggleAlternative, config_vars, Coherent
    <2>2. RecordOK'
        BY <1>2, <2>1 DEF RecordOK
    <2>3. Coherent => Matches'
        BY <1>2, SelectMatches, ToggleMatches
    <2>4. QED
        BY <2>1, <2>2, <2>3
<1>3. CASE RecordPress
    BY <1>1, <1>2, <1>3 DEF RecordPress, ProgramPress, CommitBank, SelectSlot,
        ToggleAlternative
<1>4. CASE RecordResync
    <2>1. current_slot \in Slot /\ current_slot' = current_slot
          /\ presses' = <<current_slot>>
        BY <1>4 DEF RecordResync, Resync, MachineTypeOK
    <2>2. RecordOK'
        BY <2>1 DEF RecordOK
    <2>3. CASE cfg.bank_count = 0
        BY <1>4, <2>2, <2>3 DEF RecordResync, Resync, Coherent
    <2>4. CASE cfg.bank_count # 0
        <3>1. alt_active' = NoAlternatives
            BY <1>4, <2>4 DEF RecordResync, Resync
        <3>2. Matches'
            <4>1. (\E x \in Slot : presses = <<x>>)' /\ (alt_active = NoAlternatives)'
                BY <2>1, <3>1 DEF NoAlternatives
            <4>2. QED
                BY <4>1, FreshMatches, PTL
        <3>3. QED
            BY <2>2, <3>2
    <2>5. QED
        BY <2>3, <2>4
<1>5. CASE RecordOther
    <2>1. CASE ReplaceConfig
        BY <1>5, <2>1 DEF RecordOther, ReplaceConfig, RecordOK, slot_vars, Coherent
    <2>2. CASE ~ReplaceConfig
        <3>1. UNCHANGED <<cfg, synced, current_bank, current_slot, alt_active, presses>>
            BY <1>5, <2>2 DEF RecordOther, BankStep, TapShort, TapLong, BankLong, Tick,
                AdvanceClock, config_vars, bank_vars, slot_vars
        <3>2. QED
            BY <3>1, UnchangedMatches
    <2>3. QED
        BY <2>1, <2>2
<1>6. CASE UNCHANGED historyVars
    BY <1>6, UnchangedMatches DEF historyVars, vars
<1>7. QED
    BY <1>3, <1>4, <1>5, <1>6 DEF HistoryNext

(* The cached bit of every slot is what the whole history of presses says,  *)
(* however long it is and whatever kinds of alternative the bank mixes.     *)
THEOREM CacheMatchesHistory == HistorySpec => []AltMatchesPresses
<1>1. HistoryInit => RecordOK /\ (Coherent => Matches)
    <2> SUFFICES ASSUME HistoryInit PROVE RecordOK /\ Matches
        OBVIOUS
    <2>1. current_slot \in Slot /\ presses = <<current_slot>>
          /\ alt_active = NoAlternatives
        BY SizesAssumption DEF HistoryInit, Init, Slot
    <2>2. QED
        BY <2>1, FreshMatches DEF RecordOK
<1>2. MachineTypeOK /\ RecordOK /\ (Coherent => Matches) /\ [HistoryNext]_historyVars
          => (RecordOK /\ (Coherent => Matches))'
    BY RecordStep
<1>3. HistorySpec => []MachineTypeOK
    <2>1. TypeOK => MachineTypeOK
        BY DEF TypeOK
    <2>2. QED
        BY <2>1, HistoryIsTheMachine, TypeCorrect, PTL
<1>4. MachineTypeOK /\ (Coherent => Matches) => AltMatchesPresses
    BY MatchesIsProperty
<1>5. QED
    BY <1>1, <1>2, <1>3, <1>4, PTL DEF HistorySpec

===============================================================================
