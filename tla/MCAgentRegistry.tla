-------------------------- MODULE MCAgentRegistry ---------------------------
(***************************************************************************)
(* AgentRegistry for TLC.  Requests are interchangeable as far as they are *)
(* of the same kind, and so are ids: no action tells one from another.     *)
(***************************************************************************)
EXTENDS AgentRegistry, TLC

RegistrySymmetry ==
  Permutations(Requests \ Beats) \cup Permutations(Beats) \cup Permutations(Ids)
=============================================================================
