-------------------------------- MODULE MCGui --------------------------------
(***************************************************************************)
(* Small instances of GuiApp for TLC.                                      *)
(***************************************************************************)
EXTENDS GuiApp, TLC

Alike == Permutations(Server)
=============================================================================
