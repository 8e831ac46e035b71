----------------------------- MODULE MCKubedial -----------------------------
(***************************************************************************)
(* Kubedial and Delivery for TLC.  Runs are interchangeable, and so are    *)
(* the requests that carry reports and the ids the commander gives out.    *)
(***************************************************************************)
EXTENDS Delivery, TLC

DialSymmetry ==
  Permutations(Runs) \cup Permutations(Requests \ Posts)
    \cup Permutations(Agents) \cup Permutations(Files)
    \cup Permutations(Commands) \cup Permutations(Posts)
=============================================================================
