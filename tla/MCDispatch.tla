------------------------------ MODULE MCDispatch ------------------------------
(***************************************************************************)
(* Two slots in two banks, and a configuration with one bank and empty     *)
(* lists.  Time is in units of the timeout.                                *)
(***************************************************************************)
EXTENDS Dispatch

CONSTANTS m, n

MCMessage == {m, n}

Empty == [primary |-> <<>>, alternative |-> <<>>,
          has_alternative |-> FALSE, alt_persistence |-> "permanent"]
WithAlternative ==
    [primary |-> <<>>, alternative |-> <<n>>,
     has_alternative |-> TRUE, alt_persistence |-> "one_time"]
Plain == [Empty EXCEPT !.primary = <<m>>]

MakeConfig(count, first, second, list) ==
    [bank_count |-> count,
     banks |-> [b \in Bank |-> [s \in Slot |-> IF b = 0 THEN first ELSE second]],
     browse_timeout_ms |-> 1, tap_message |-> m, tuner_message |-> n,
     user_function_a |-> list, user_function_b |-> list]

Stage == MakeConfig(2, WithAlternative, Plain, <<m>>)
Rehearsal == MakeConfig(1, Plain, Empty, <<>>)

MCConfigs == {Stage, Rehearsal}

(* With two banks a step down is a step up, and both user functions have    *)
(* the same list.  The handlers are the same in both tasks, so the httpd    *)
(* task gets one press of each kind that stores a bank or a slot.           *)
Step == [kind |-> "step", delta |-> 1]
Press(slot) == [kind |-> "press", slot |-> slot]

MCPresses ==
    [t \in {Input, Httpd} |->
        IF t = Httpd THEN {Step, Press(1)}
        ELSE {Step, Press(0), Press(1), [kind |-> "tuner"],
              [kind |-> "user", which |-> "user_function_a"]}]
===============================================================================
