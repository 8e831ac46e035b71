-------------------------- MODULE CommandLifecycle --------------------------
(***************************************************************************)
(* What the commander promises about one command, whatever its handlers    *)
(* do in between: a command appears once, as pending; from then on it may  *)
(* be given a verdict (completed or failed), again and again, but never    *)
(* becomes pending a second time; the output of an execution is attached   *)
(* only to a command that has a verdict; and a command that is withdrawn   *)
(* never comes back.                                                       *)
(***************************************************************************)
CONSTANTS Commands,   \* command ids
          Results,    \* what an execution may report
          NoResult    \* no report is attached to the command

VARIABLES state,      \* per command: where it is in its life
          outcome     \* per command: the report attached to it

lifecycleVars == <<state, outcome>>

Verdicts == {"completed", "failed"}

LifecycleInit ==
  /\ state = [c \in Commands |-> "unborn"]
  /\ outcome = [c \in Commands |-> NoResult]

\* The command becomes visible to its agent.
Submit(c) ==
  /\ state[c] = "unborn"
  /\ state' = [state EXCEPT ![c] = "pending"]
  /\ UNCHANGED outcome

\* An execution of the command was judged.
Conclude(c, v) ==
  /\ state[c] \in {"pending"} \cup Verdicts
  /\ state' = [state EXCEPT ![c] = v]
  /\ UNCHANGED outcome

\* The output of a judged execution is kept with the command.
Attach(c, result) ==
  /\ state[c] \in Verdicts
  /\ outcome' = [outcome EXCEPT ![c] = result]
  /\ UNCHANGED state

\* The submission of the command failed half way and was undone.
Withdraw(c) ==
  /\ state[c] \in {"pending"} \cup Verdicts
  /\ state' = [state EXCEPT ![c] = "withdrawn"]
  /\ outcome' = [outcome EXCEPT ![c] = NoResult]

LifecycleNext ==
  \E c \in Commands :
    \/ Submit(c)
    \/ \E v \in Verdicts : Conclude(c, v)
    \/ \E result \in Results : Attach(c, result)
    \/ Withdraw(c)

LifecycleSpec == LifecycleInit /\ [][LifecycleNext]_lifecycleVars
=============================================================================
