-------------------------- MODULE CommandDispatch ---------------------------
(***************************************************************************)
(* What the whole system promises about a command, from the administrator  *)
(* to the agent and back: on the life of CommandLifecycle, it is executed  *)
(* after it was submitted, perhaps several times, perhaps even when it is  *)
(* withdrawn; it is given only verdicts that one of its executions had,    *)
(* and only results that tell of one; and none of this is ever before the  *)
(* execution it tells of.                                                  *)
(***************************************************************************)
EXTENDS CommandLifecycle

VARIABLE done \* the executions: of which command, with what success

dispatchVars == <<state, outcome, done>>

DispatchInit == LifecycleInit /\ done = {}

Perform(c, success) ==
  /\ state[c] # "unborn"
  /\ done' = done \cup {<<c, success>>}
  /\ UNCHANGED lifecycleVars

\* A step in the life of a command; what is told of an execution has happened.
Told(c, success) == <<c, success>> \in done

Live ==
  /\ \E c \in Commands :
       \/ Submit(c) \/ Withdraw(c)
       \/ Told(c, TRUE) /\ Conclude(c, "completed")
       \/ Told(c, FALSE) /\ Conclude(c, "failed")
       \/ \E result \in Results : Told(c, result.success) /\ Attach(c, result)
  /\ UNCHANGED done

DispatchNext == Live \/ \E c \in Commands, success \in BOOLEAN : Perform(c, success)

DispatchSpec == DispatchInit /\ [][DispatchNext]_dispatchVars
=============================================================================
