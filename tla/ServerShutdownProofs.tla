------------------------ MODULE ServerShutdownProofs ------------------------
(***************************************************************************)
(* Theorems about ServerShutdown.  To the Secrets and the handlers, the    *)
(* end of main is the Kill of CommandStore and the rest of the shutdown    *)
(* nothing at all, so what CommandStoreProofs shows of the commander holds *)
(* of one that is shut down.  What Shutdown does for the requests that are *)
(* in flight rests on an invariant of its own.                             *)
(***************************************************************************)
EXTENDS ServerShutdown, CommandStoreProofs

\* A request that the server accepts or serves is one of CommandStore.
LEMMA ServedIsStored ==
  ASSUME NEW r \in Requests, Accepted(r) \/ Handled(r)
  PROVE  Next
BY DEF Accepted, Handled, Next

\* The end of main with handlers in flight is a Kill; without any, nothing.
LEMMA ReturnIsKill ==
  ASSUME TypeOK, Faulty, MainReturns
  PROVE  [Next]_vars
<1>1. CASE \E r \in Requests : Active(r)
  <2>1. Kill
    BY <1>1 DEF MainReturns, Kill, CutOff, secrets
  <2> QED
    BY <2>1 DEF Next
<1>2. CASE \A r \in Requests : ~Active(r)
  <2>1. pc \in [Requests -> ActivePCs \cup {"idle", "done"}]
    BY DEF TypeOK
  <2>2. pc' = [r \in Requests |-> pc[r]]
    BY <1>2, Zenon DEF MainReturns, CutOff
  <2>3. pc' = pc
    BY <2>1, <2>2
  <2> QED
    BY <2>3 DEF MainReturns, vars, secrets
<1> QED
  BY <1>1, <1>2

\* Every step of the process is a step of the commander or leaves it alone.
LEMMA ServerMoves ==
  ASSUME Faulty
  PROVE  TypeOK /\ [ServerNext]_serverVars => [Next]_vars
<1> SUFFICES ASSUME TypeOK, [ServerNext]_serverVars
             PROVE  [Next]_vars
  OBVIOUS
<1>1. CASE \E r \in Requests : Accepted(r) \/ Handled(r)
  BY <1>1, ServedIsStored
<1>2. CASE Signalled
  BY <1>2 DEF Signalled
<1>3. CASE ShutdownReturns
  BY <1>3 DEF ShutdownReturns
<1>4. CASE MainReturns
  BY <1>4, ReturnIsKill
<1>5. CASE UNCHANGED serverVars
  BY <1>5 DEF serverVars, vars
<1> QED
  BY <1>1, <1>2, <1>3, <1>4, <1>5 DEF ServerNext

\* IInv along the process: TypeOK, on which ServerMoves rests, is part of it.
LEMMA ServerInvariance ==
  ASSUME Faulty
  PROVE  ServerSpec => []IInv
<1>1. ServerInit => IInv
  BY InitIInv DEF ServerInit
<1>2. IInv /\ [ServerNext]_serverVars => IInv'
  BY ServerMoves, IInvKept DEF IInv
<1> QED
  BY <1>1, <1>2, PTL DEF ServerSpec

\* A commander that is told to stop while handlers are in flight does to its
\* Secrets what a commander that dies may do, and nothing else: the two
\* goroutines of main.go:56-77 add no behaviour to CommandStore.
THEOREM ShutdownIsAKill ==
  ASSUME Faulty
  PROVE  ServerSpec => Spec
<1>1. ServerInit => Init
  BY DEF ServerInit
<1>2. IInv /\ [ServerNext]_serverVars => [Next]_vars
  BY ServerMoves DEF IInv
<1> QED
  BY <1>1, <1>2, ServerInvariance, PTL DEF ServerSpec, Spec

\* A report answered 200 is on record also when the process is stopped,
\* whichever handlers the stop cuts off (main.go:72-77).
THEOREM AcksOutliveShutdown ==
  ASSUME Faulty
  PROVE  ServerSpec => []AckedIsRecorded
BY ShutdownIsAKill, AcksAreKept, PTL

-----------------------------------------------------------------------------
\* Shutdown

\* The end of main stops handlers and changes nothing else.
LEMMA ReturnKeepsTypes ==
  ASSUME TypeOK, HandlersFitJobs, MainReturns
  PROVE  TypeOK' /\ HandlersFitJobs'
<1>1. /\ pc' = [r \in Requests |-> IF Active(r) THEN "done" ELSE pc[r]]
      /\ UNCHANGED <<secrets, job, copy, reply>>
  BY DEF MainReturns, CutOff
<1>2. pc' \in [Requests -> ActivePCs \cup {"idle", "done"}]
  BY <1>1 DEF TypeOK
<1>3. TypeOK'
  BY <1>1, <1>2 DEF TypeOK, secrets
<1>4. HandlersFitJobs'
  BY <1>1 DEF HandlersFitJobs, Active, ActivePCs, CreatePCs, ReportPCs, ReadPCs
<1> QED
  BY <1>3, <1>4

\* So types are kept in the process, whether or not calls break.
LEMMA ServerTypesKept ==
  TypeOK /\ HandlersFitJobs /\ [ServerNext]_serverVars => TypeOK' /\ HandlersFitJobs'
<1> SUFFICES ASSUME TypeOK, HandlersFitJobs, [ServerNext]_serverVars
             PROVE  TypeOK' /\ HandlersFitJobs'
  OBVIOUS
<1>1. CASE MainReturns
  BY <1>1, ReturnKeepsTypes
<1>2. CASE [Next]_vars
  BY <1>2, TypeOKKept
<1>3. [Next]_vars \/ MainReturns
  BY ServedIsStored DEF ServerNext, Signalled, ShutdownReturns, serverVars, vars
<1> QED
  BY <1>1, <1>2, <1>3

\* Every state of the process is well typed.
THEOREM ServerTypeCorrect == ServerSpec => []ServerTypeOK
<1> DEFINE Own == /\ listening \in BOOLEAN
                  /\ grace \in {"none", "waiting", "over"}
                  /\ process \in {"serving", "exited"}
           Types == TypeOK /\ HandlersFitJobs
<1>1. ServerInit => Own /\ Types
  BY InitTypeOK DEF ServerInit
<1>2. Own /\ [ServerNext]_serverVars => Own'
  BY DEF ServerNext, Accepted, Handled, Signalled, ShutdownReturns, MainReturns,
         serverVars, shutdownVars
<1>3. Types /\ [ServerNext]_serverVars => Types'
  BY ServerTypesKept
<1>4. Own /\ Types => ServerTypeOK
  BY DEF ServerTypeOK
<1> QED
  BY <1>1, <1>2, <1>3, <1>4, PTL DEF ServerSpec

\* A handler that moves goes on to another call or answers its request; the
\* others stay where they are.
LEMMA HandlersAnswer ==
  ASSUME TypeOK, NEW r \in Requests, Handle(r)
  PROVE  /\ Active(r) /\ job' = job
         /\ Active(r)' \/ reply'[r] # 0
         /\ \A q \in Requests \ {r} : pc'[q] = pc[q] /\ reply'[q] = reply[q]
<1>1. /\ job' = job
      /\ pc[r] \in ActivePCs
      /\ \/ \E next \in ActivePCs : Goto(r, next)
         \/ \E code \in Codes \ {0} : Answer(r, code)
  BY DEF Handle, CreateCommand, CreateFiles, Rollback, GetForStatus, PutStatus, GetForResult,
         PutResult, ReadCommand, ReadResult, ActivePCs, CreatePCs, ReportPCs, ReadPCs, Codes,
         secrets
<1>2. CASE \E next \in ActivePCs : Goto(r, next)
  BY <1>1, <1>2 DEF Goto, Active, TypeOK
<1>3. CASE \E code \in Codes \ {0} : Answer(r, code)
  BY <1>1, <1>3 DEF Answer, Active, TypeOK
<1> QED
  BY <1>1, <1>2, <1>3

\* A request that is accepted is one to be served, or was turned down.
LEMMA AcceptedIsServed ==
  ASSUME TypeOK, NEW r \in Requests, Receive(r)
  PROVE  /\ Active(r)' \/ (job'[r] = job[r] /\ reply'[r] # 0)
         /\ \A q \in Requests \ {r} :
              pc'[q] = pc[q] /\ reply'[q] = reply[q] /\ job'[q] = job[q]
BY DEF Receive, ReceiveCreate, ReceiveReport, ReceiveRead, Reject, Accept, Answer, Active, TypeOK,
       ActivePCs, CreatePCs, ReportPCs, ReadPCs

\* Every step of the process keeps ShutdownInv.
LEMMA ShutdownInvKept ==
  TypeOK /\ ShutdownInv /\ [ServerNext]_serverVars => ShutdownInv'
<1> SUFFICES ASSUME TypeOK, ShutdownInv, [ServerNext]_serverVars
             PROVE  ShutdownInv'
  OBVIOUS
<1>1. ASSUME NEW r \in Requests, Accepted(r)
      PROVE  ShutdownInv'
  <2>1. listening /\ Receive(r) /\ UNCHANGED shutdownVars
    BY <1>1 DEF Accepted
  <2>2. grace = "none" /\ process # "exited"
    BY <2>1 DEF ShutdownInv
  <2> QED
    BY <2>1, <2>2, AcceptedIsServed DEF ShutdownInv, WaitedIsAnswered, shutdownVars, Active
<1>2. ASSUME NEW r \in Requests, Handled(r)
      PROVE  ShutdownInv'
  <2>1. process = "serving" /\ Handle(r) /\ UNCHANGED shutdownVars
    BY <1>2 DEF Handled
  <2>2. Active(r)
    BY <2>1, HandlersAnswer
  <2> QED
    BY <2>1, <2>2, HandlersAnswer DEF ShutdownInv, WaitedIsAnswered, shutdownVars, Active
<1>3. CASE Signalled
  BY <1>3 DEF Signalled, ShutdownInv, WaitedIsAnswered, vars, Active
<1>4. CASE ShutdownReturns
  BY <1>4 DEF ShutdownReturns, ShutdownInv, WaitedIsAnswered, vars, Active
<1>5. CASE MainReturns
  <2>1. \A r \in Requests : ~Active(r)'
    BY <1>5 DEF MainReturns, CutOff, Active, ActivePCs, CreatePCs, ReportPCs, ReadPCs
  <2> QED
    BY <1>5, <2>1 DEF MainReturns, ShutdownInv, WaitedIsAnswered
<1>6. CASE UNCHANGED serverVars
  BY <1>6 DEF serverVars, ShutdownInv, WaitedIsAnswered, Active
<1> QED
  BY <1>1, <1>2, <1>3, <1>4, <1>5, <1>6 DEF ServerNext

\* When Shutdown has returned before main did, and not because of its timeout,
\* every request that was accepted is answered.
THEOREM WaitingAnswersAll == ServerSpec => []WaitedIsAnswered
<1> DEFINE Types == TypeOK /\ HandlersFitJobs
<1>1. ServerInit => Types /\ ShutdownInv
  BY InitTypeOK DEF ServerInit, Init, ShutdownInv, WaitedIsAnswered
<1>2. Types /\ [ServerNext]_serverVars => Types'
  BY ServerTypesKept
<1>3. Types /\ ShutdownInv /\ [ServerNext]_serverVars => ShutdownInv'
  BY ShutdownInvKept
<1>4. ShutdownInv => WaitedIsAnswered
  BY DEF ShutdownInv
<1> QED
  BY <1>1, <1>2, <1>3, <1>4, PTL DEF ServerSpec
=============================================================================
