----------------------------- MODULE DurableConfig -----------------------------
(***************************************************************************)
(* What the configuration store promises: a register that survives a power *)
(* loss.  stored is the configuration the next boot comes up with, live    *)
(* the one the firmware works with.  Each step replaces one of them as a   *)
(* whole.                                                                  *)
(***************************************************************************)
CONSTANTS
    Configs,    \* configurations
    Defaults,   \* the factory defaults
    Off,        \* live while the device is off
    Loses       \* what may be left of each configuration saved without memory

VARIABLES stored, live

Init == stored \in Configs /\ live = Off

(* A boot that cannot read the stored configuration comes up with defaults. *)
Boot ==
    /\ live = Off
    /\ live' \in {stored, Defaults}
    /\ UNCHANGED stored

Edit == live # Off /\ live' \in Configs /\ UNCHANGED stored

Save == live # Off /\ stored' \in {live} \cup Loses[live] /\ UNCHANGED live

PowerLoss == live # Off /\ live' = Off /\ UNCHANGED stored

(* A storage that cannot be mounted is formatted. *)
Format == live = Off /\ stored' = Defaults /\ UNCHANGED live

Next == Boot \/ Edit \/ Save \/ PowerLoss \/ Format

Spec == Init /\ [][Next]_<<stored, live>>
===============================================================================
