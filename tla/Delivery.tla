------------------------------ MODULE Delivery ------------------------------
(***************************************************************************)
(* What becomes of a command on its way through Kubedial: from the request *)
(* that posted it, through the Secrets, the list of a run and the          *)
(* downloads, to an execution; and from there back, as a report, to the    *)
(* Secrets.  This module adds no behaviour.                                *)
(***************************************************************************)
EXTENDS Kubedial

\* What was posted under this id, by the request that created it.
PostedAs(c, names) == \E r \in Requests : Creates(r, c) /\ job[r].files = names
PostedFor(c, a) == \E r \in Requests : Creates(r, c) /\ job[r].agent = a

-----------------------------------------------------------------------------
\* Properties

\* An execution is faithful to the request that posted the command, however
\* many updates and readers are between them: it takes the command to have
\* the files that were posted, has no other files, and a run executes only
\* what was addressed to the id it had registered under (run.go:107, 134-155).
ExecutedAsPosted ==
  \A e \in executions :
    /\ PostedAs(e.cmd, e.names)
    /\ e.files \subseteq e.names
    /\ e.by \in Runs => PostedFor(e.cmd, agentId[e.by])

\* The system implements CommandDispatch: verdicts and results follow the
\* executions they tell of, and executions the submission.
Dispatch == INSTANCE CommandDispatch
  WITH Results <- Result,
       state <- [c \in Commands |-> StateOf(c)],
       outcome <- [c \in Commands |-> OutcomeOf(c)],
       done <- {<<e.cmd, e.success>> : e \in executions}

ImplementsDispatch == Dispatch!DispatchSpec

\* When nothing breaks, what a run skips is a command whose creation was not
\* answered yet: the window in which CompletedWasExecutedWhole is violated
\* closes with the answer to the administrator (run.go:144-149).
Skips(d) ==
  /\ phase[d] = "fetch" /\ phase'[d] = "fetch"
  /\ task'[d].got \cup task'[d].want # task[d].got \cup task[d].want

SkipsOnlyWhatIsNew ==
  [][~Faulty => \A d \in Processes :
       Skips(d) => \A r \in Requests : Creates(r, task[d].cmd) => reply[r] # 201]_allVars

\* When nothing breaks, no execution is forgotten: its command holds a verdict
\* and a result, or a process is about to report on it, or a report on it is
\* at the commander (run.go:155-169, service UpdateResult).
Judged(c) ==
  Present(c) /\ cmdSecret[c].status \in Terminal /\ cmdSecret[c].result # NoResult

UnderWay(c) ==
  \/ \E d \in Processes : phase[d] = "submit" /\ task[d].cmd = c
  \/ \E r \in Requests : Reports(r, c) /\ pc[r] \in ReportPCs

ExecutedIsReported ==
  ~Faulty => \A e \in executions : Judged(e.cmd) \/ UnderWay(e.cmd)

-----------------------------------------------------------------------------
\* The inductive invariants; they hold together with IInv and DialInv.

\* A Secret tells what was posted.
SecretsAsPosted ==
  \A c \in Commands :
    Present(c) => PostedAs(c, cmdSecret[c].filenames) /\ PostedFor(c, cmdSecret[c].agent)

\* So does the list of a run, of commands that are for it.
ListAsPosted(d) ==
  /\ \A l \in todo[d] :
       /\ l.cmd \in stored
       /\ PostedAs(l.cmd, l.names) /\ PostedFor(l.cmd, agentId[d])
  /\ phase[d] \in {"off", "list"} => todo[d] = {} /\ \A e \in executions : e.by # d

\* And so does the task of a process at work.
TaskAsPosted(d) ==
  phase[d] \in {"fetch", "submit"} =>
    /\ task[d].cmd \in stored
    /\ PostedAs(task[d].cmd, task[d].names)
    /\ task[d].got \cup task[d].want \subseteq task[d].names
    /\ d \in Runs => PostedFor(task[d].cmd, agentId[d])

PostedInv ==
  /\ SecretsAsPosted
  /\ \A d \in Runs : ListAsPosted(d)
  /\ \A d \in Processes : TaskAsPosted(d)
  /\ \A e \in executions : e.cmd \in stored
  /\ ExecutedAsPosted

\* When nothing breaks, what is reported on was stored, and it stays.
ReportsAreStored ==
  \A r \in Requests : job[r].op = "report" => job[r].cmd \in stored

DeliveryInv == ReportsAreStored /\ ExecutedIsReported
=============================================================================
