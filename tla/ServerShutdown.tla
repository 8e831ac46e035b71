--------------------------- MODULE ServerShutdown ---------------------------
(***************************************************************************)
(* The end of the commander process: cmd/main.go and server/server.go      *)
(* around the handlers of CommandStore.                                    *)
(*                                                                         *)
(* Two goroutines see to it.  One waits for a signal and then calls        *)
(* Shutdown with 30 seconds; Shutdown closes the listener first and then   *)
(* waits for the handlers in flight.  The other is main itself, in Start,  *)
(* which returns as soon as the listener is closed; main has nothing to    *)
(* wait for, and when it returns the process ends with every goroutine.    *)
(***************************************************************************)
EXTENDS CommandStore

VARIABLES listening, \* the server accepts connections
          grace,     \* Shutdown: "none" yet, "waiting" for the handlers, "over"
          process    \* main is "serving" or the process has "exited"

shutdownVars == <<listening, grace, process>>
serverVars == <<cmdSecret, filesSecret, stored, job, pc, copy, reply,
                listening, grace, process>>

ServerTypeOK ==
  /\ TypeOK
  /\ listening \in BOOLEAN
  /\ grace \in {"none", "waiting", "over"}
  /\ process \in {"serving", "exited"}

ServerInit ==
  /\ Init
  /\ listening = TRUE
  /\ grace = "none"
  /\ process = "serving"

\* A connection is accepted and its request gets a goroutine.
Accepted(r) == listening /\ Receive(r) /\ UNCHANGED shutdownVars

\* The handlers run while the process does, also during the grace.
Handled(r) == process = "serving" /\ Handle(r) /\ UNCHANGED shutdownVars

\* SIGINT or SIGTERM: Shutdown closes the listener.
Signalled ==
  /\ grace = "none"
  /\ grace' = "waiting"
  /\ listening' = FALSE
  /\ UNCHANGED <<vars, process>>

\* Shutdown returns: no handler is left, or the 30 seconds are over.
ShutdownReturns ==
  /\ process = "serving" /\ grace = "waiting"
  /\ (\A r \in Requests : ~Active(r)) \/ Faulty
  /\ grace' = "over"
  /\ UNCHANGED <<vars, listening, process>>

CutOff == [r \in Requests |-> IF Active(r) THEN "done" ELSE pc[r]]

\* Start returns ErrServerClosed and main ends: the handlers in flight are
\* cut off where they are.
MainReturns ==
  /\ process = "serving" /\ ~listening
  /\ process' = "exited"
  /\ pc' = CutOff
  /\ UNCHANGED <<secrets, job, copy, reply, listening, grace>>

ServerNext ==
  \/ \E r \in Requests : Accepted(r) \/ Handled(r)
  \/ Signalled \/ ShutdownReturns \/ MainReturns

ServerSpec == ServerInit /\ [][ServerNext]_serverVars

-----------------------------------------------------------------------------
\* Properties

\* main.go:56 "Handle graceful shutdown" and server.go:123 "Shutdown gracefully
\* shuts down the server": unless the 30 seconds ran out, a request that was
\* accepted before the signal is answered before the process ends.
GracefulIsAnswered ==
  process = "exited" /\ grace = "waiting" =>
    \A r \in Requests : job[r] # NoJob => reply[r] # 0

\* What is missing is only that main waits: when it is still there as Shutdown
\* returns, and the 30 seconds did not run out, every request that was ever
\* accepted has been answered, and none is accepted any more (main.go:67-77,
\* server.go:124-126).
WaitedIsAnswered ==
  ~Faulty /\ grace = "over" =>
    \A r \in Requests : job[r] # NoJob => reply[r] # 0

-----------------------------------------------------------------------------
\* The inductive invariant of ServerShutdownProofs; it holds together with
\* TypeOK and HandlersFitJobs.

\* Nobody gets in after the signal, whoever is in is served or was answered
\* while the process is there, and nobody is left when Shutdown has waited.
ShutdownInv ==
  /\ grace # "none" \/ process = "exited" => ~listening
  /\ process = "serving" =>
       \A r \in Requests : job[r] # NoJob => Active(r) \/ reply[r] # 0
  /\ ~Faulty /\ grace = "over" => \A r \in Requests : ~Active(r)
  /\ WaitedIsAnswered
=============================================================================
