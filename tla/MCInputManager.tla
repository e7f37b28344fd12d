---------------------------- MODULE MCInputManager ----------------------------
(***************************************************************************)
(* Two buttons, one of them with the threshold 0 a configuration may hold, *)
(* and a clock that wraps around while the other is held down.             *)
(***************************************************************************)
EXTENDS InputManager, TLC

MCThreshold == (0 :> 3) @@ (1 :> 0)
===============================================================================
