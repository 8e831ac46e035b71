--------------------------- MODULE MCCommandStore ---------------------------
(***************************************************************************)
(* CommandStore for TLC.  Requests are interchangeable, and so are         *)
(* commands: no action and no safety property tells one from another.      *)
(* Liveness runs and refinement runs take no symmetry.                     *)
(***************************************************************************)
EXTENDS CommandStore, TLC

StoreSymmetry == Permutations(Requests) \cup Permutations(Commands)
=============================================================================
