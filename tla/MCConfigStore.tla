----------------------------- MODULE MCConfigStore -----------------------------
(* Three configurations: the defaults, a small one, and one that is too     *)
(* long for read_file.  Under memory pressure a configuration loses banks,  *)
(* all its banks, or its list of banks; large always keeps some, so that a  *)
(* save of it can never leave the defaults behind.                          *)
EXTENDS ConfigStore

CONSTANTS factory, small, large

MCConfigs == {factory, small, large}
MCOversize == {large}
MCPartial ==
    [c \in MCConfigs |-> IF c = small THEN {NoBanks, NoShape}
                         ELSE IF c = large THEN {small}
                         ELSE {small, NoShape}]
===============================================================================
