---------------------------- MODULE MCStateMachine ----------------------------
(***************************************************************************)
(* Instances of StateMachine for TLC: two slots, three banks, a clock that *)
(* wraps, and configurations that differ in the number of banks, in the    *)
(* timeout and in what their slots hold.                                   *)
(***************************************************************************)
EXTENDS StateMachine, FiniteSets, TLC

CONSTANTS p, q, a, tap, tuner, fn

MCMessage == {p, q, a, tap, tuner, fn}

Empty == [primary |-> <<>>, alternative |-> <<>>,
          has_alternative |-> FALSE, alt_persistence |-> "permanent"]
Plain(m) == [Empty EXCEPT !.primary = <<m>>]
WithAlt(m, persistence) ==
    [primary |-> <<m>>, alternative |-> <<a>>,
     has_alternative |-> TRUE, alt_persistence |-> persistence]

(* A configuration with the given banks; the other entries of the array are *)
(* zeroed, as decode_config leaves them.                                    *)
MakeConfig(banks, timeout) ==
    [bank_count |-> Len(banks),
     banks |-> [b \in Bank |-> IF b < Len(banks) THEN banks[b + 1]
                               ELSE [s \in Slot |-> Empty]],
     browse_timeout_ms |-> timeout, tap_message |-> tap, tuner_message |-> tuner,
     user_function_a |-> <<fn, tap>>, user_function_b |-> <<>>]

AltBank == [s \in Slot |-> IF s = 0 THEN WithAlt(p, "permanent") ELSE WithAlt(q, "one_time")]
PlainBank == [s \in Slot |-> IF s = 0 THEN Plain(q) ELSE Empty]

Stage == MakeConfig(<<AltBank, PlainBank, AltBank>>, 2)
Rehearsal == MakeConfig(<<PlainBank, AltBank>>, 0)
Solo == MakeConfig(<<AltBank>>, 1)

MCConfigs == {Stage, Rehearsal, Solo}
===============================================================================
