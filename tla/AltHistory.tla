------------------------------ MODULE AltHistory ------------------------------
(***************************************************************************)
(* The alternative cache against a reference.  The state machine keeps one *)
(* bit per slot and updates it press by press; section 2.5 of              *)
(* midi_footswitch_spec.md describes instead what a player remembers: all  *)
(* presses since the bank was loaded.  presses records them, and AltOf     *)
(* reads the answer off the whole record.                                  *)
(***************************************************************************)
EXTENDS StateMachine, FiniteSets

CONSTANT MaxPresses  \* bound on the recorded presses of one bank

VARIABLE presses     \* the slot current at load, then every slot pressed

historyVars == <<vars, presses>>

HistoryInit == Init /\ presses = <<current_slot>>

(* A commit loads the target bank: the record starts again. *)
RecordPress ==
    /\ Browsing \/ Len(presses) < MaxPresses
    /\ \E slot \in Slot :
          /\ ProgramPress(slot)
          /\ presses' = IF Browsing THEN <<slot>> ELSE Append(presses, slot)

(* So does the resync after a configuration change. *)
RecordResync == Resync /\ presses' = <<current_slot>>

RecordOther ==
    /\ \/ BankStep(1)
       \/ BankStep(-1)
       \/ TapShort
       \/ TapLong
       \/ BankLong
       \/ Tick
       \/ ReplaceConfig
       \/ AdvanceClock
    /\ UNCHANGED presses

HistoryNext == RecordPress \/ RecordResync \/ RecordOther

HistorySpec == HistoryInit /\ [][HistoryNext]_historyVars

(* The presses that toggled slot s and still count: all of them for a       *)
(* permanent alternative, those of the present visit for a one-time one.    *)
LiveToggles(s) ==
    {k \in 2 .. Len(presses) :
        /\ presses[k] = s
        /\ presses[k - 1] = s
        /\ SlotAt(current_bank, s).alt_persistence = "one_time" =>
              \A j \in k .. Len(presses) : presses[j] = s}

AltOf(s) ==
    /\ SlotAt(current_bank, s).has_alternative
    /\ Cardinality(LiveToggles(s)) % 2 = 1

(* The cached bit of every slot is what the whole history of presses in     *)
(* this bank says, for every mix of permanent, one-time and no alternative, *)
(* with browsing, cancelling and refused configurations in between          *)
(* (handle_program_press, lines 106-154).                                   *)
AltMatchesPresses ==
    Coherent => \A s \in Slot : alt_active[s] = AltOf(s)
===============================================================================
