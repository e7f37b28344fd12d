----------------------------- MODULE MCAltHistory -----------------------------
(***************************************************************************)
(* Three slots, one of each kind, and a second bank.  The clock stands     *)
(* still (TickGap = 0): time matters in MCStateMachine, not here.          *)
(***************************************************************************)
EXTENDS AltHistory, TLC

CONSTANTS m, a

MCMessage == {m, a}

NoAlternative ==
    [primary |-> <<m>>, alternative |-> <<>>,
     has_alternative |-> FALSE, alt_persistence |-> "permanent"]
Alternative(persistence) ==
    [primary |-> <<m>>, alternative |-> <<a>>,
     has_alternative |-> TRUE, alt_persistence |-> persistence]

MixedBank ==
    (0 :> Alternative("permanent")) @@ (1 :> Alternative("one_time"))
        @@ (2 :> NoAlternative)
SwappedBank ==
    (0 :> NoAlternative) @@ (1 :> Alternative("permanent"))
        @@ (2 :> Alternative("one_time"))

MakeConfig(banks) ==
    [bank_count |-> 2, banks |-> banks, browse_timeout_ms |-> 0,
     tap_message |-> m, tuner_message |-> m,
     user_function_a |-> <<m>>, user_function_b |-> <<>>]

MCConfigs ==
    {MakeConfig((0 :> MixedBank) @@ (1 :> SwappedBank)),
     MakeConfig((0 :> SwappedBank) @@ (1 :> MixedBank))}
===============================================================================
