------------------------------ MODULE Kubedial ------------------------------
(***************************************************************************)
(* kubedialer beside the commander of CommandStore: the processes that     *)
(* fetch commands, download their files, execute them in their own cluster *)
(* and report.                                                             *)
(*                                                                         *)
(* A process is started once and ends: "run" is the CronJob's, which       *)
(* registers, lists what is pending for the id it was given and works that *)
(* list off; "apply" is started by hand for one command.  The CronJob      *)
(* forbids overlapping runs, nothing keeps an apply from overlapping.      *)
(*                                                                         *)
(* The calls that only read the commander are one step here; the report    *)
(* (PUT /commands/{id}/result) is a request to the handlers of             *)
(* CommandStore, so it can be overtaken, lost, refused, or still be at     *)
(* work when the process has given it up.                                  *)
(***************************************************************************)
EXTENDS CommandStore

CONSTANTS Runs,      \* processes of "kubedialer run"
          Applies,   \* processes of "kubedialer apply --command-id"
          Posts,     \* the requests that administrators may send
          NoCommand, \* a process works on no command
          NoCall     \* a process waits for no answer

VARIABLES phase,     \* where each process is
          agentId,   \* the id a run was registered under
          todo,      \* the commands a run listed and has not begun
          task,      \* what a process works on
          call,      \* the request that carries its report
          executions \* history: what was executed, by whom, with what outcome

dialVars == <<phase, agentId, todo, task, call, executions>>
allVars == <<cmdSecret, filesSecret, stored, job, pc, copy, reply,
             phase, agentId, todo, task, call, executions>>

Processes == Runs \cup Applies

Phases == {"off", "list", "next", "fetch", "submit", "await", "exited"}

\* What the JSON of a command tells a process.
Listing == [cmd : Commands, names : SUBSET Files]

Task == [cmd : Commands \cup {NoCommand},
         names : SUBSET Files,  \* command.Filenames
         want : SUBSET Files,   \* the names not yet asked for
         got : SUBSET Files,    \* the files downloaded
         success : BOOLEAN]     \* result.Success

NoTask == [cmd |-> NoCommand, names |-> {}, want |-> {}, got |-> {}, success |-> FALSE]

NewTask(l) ==
  [cmd |-> l.cmd, names |-> l.names, want |-> l.names, got |-> {}, success |-> FALSE]

Execution == [by : Processes, cmd : Commands, names : SUBSET Files,
              files : SUBSET Files, success : BOOLEAN]

ASSUME DialerAssumption ==
  /\ Runs \cap Applies = {}
  /\ Posts \subseteq Requests
  /\ Absent \notin Agents
  /\ NoCommand \notin Commands
  /\ NoCall \notin Requests

DialTypeOK ==
  /\ TypeOK
  /\ phase \in [Processes -> Phases]
  /\ agentId \in [Runs -> Agents \cup {Absent}]
  /\ todo \in [Runs -> SUBSET Listing]
  /\ task \in [Processes -> Task]
  /\ call \in [Processes -> Requests \cup {NoCall}]
  /\ executions \subseteq Execution

KubedialInit ==
  /\ Init
  /\ phase = [d \in Processes |-> "off"]
  /\ agentId = [d \in Runs |-> Absent]
  /\ todo = [d \in Runs |-> {}]
  /\ task = [d \in Processes |-> NoTask]
  /\ call = [d \in Processes |-> NoCall]
  /\ executions = {}

-----------------------------------------------------------------------------
\* Steps the processes share

Working(d) == phase[d] \notin {"off", "exited"}

MoveTo(d, next) == phase' = [phase EXCEPT ![d] = next]

\* A process ends with an error, or because there is nothing to do.
Exit(d) ==
  /\ MoveTo(d, "exited")
  /\ UNCHANGED <<vars, agentId, todo, task, call, executions>>

\* After a command: a run takes the next one, an apply is done.
Finish(d) == MoveTo(d, IF d \in Runs THEN "next" ELSE "exited")

-----------------------------------------------------------------------------
\* kubedialer run

Registered == {agentId[d] : d \in Runs} \ {Absent}

\* The CronJob starts a run when none is at work.  RegisterAgent sends no id,
\* so the commander makes up a new one.
StartRun(d) ==
  /\ d \in Runs /\ phase[d] = "off"
  /\ \A other \in Runs : ~Working(other)
  /\ \/ \E a \in Agents \ Registered :
          /\ agentId' = [agentId EXCEPT ![d] = a]
          /\ MoveTo(d, "list")
          /\ UNCHANGED <<vars, todo, task, call, executions>>
     \/ Faulty /\ Exit(d)

Listed(commands) ==
  {[cmd |-> c, names |-> cmdSecret[c].filenames] : c \in commands}

\* Faulty variant: the query selects on the agent and not on the status.
ListPendingAnyStatus(d) ==
  /\ phase[d] = "list"
  /\ todo' = [todo EXCEPT ![d] =
       Listed({c \in Commands : Present(c) /\ cmdSecret[c].agent = agentId[d]})]
  /\ MoveTo(d, "next")
  /\ UNCHANGED <<vars, agentId, task, call, executions>>

\* Faulty variant: the query selects on the status and not on the agent.
ListPendingAnyAgent(d) ==
  /\ phase[d] = "list"
  /\ todo' = [todo EXCEPT ![d] = Listed(UNION {PendingFor(a) : a \in Agents})]
  /\ MoveTo(d, "next")
  /\ UNCHANGED <<vars, agentId, task, call, executions>>

\* GetPendingCommands with the id of this registration.
ListPending(d) ==
  /\ phase[d] = "list"
  /\ \/ /\ todo' = [todo EXCEPT ![d] = Listed(PendingFor(agentId[d]))]
        /\ MoveTo(d, "next")
        /\ UNCHANGED <<vars, agentId, task, call, executions>>
     \/ Faulty /\ Exit(d)

\* The loop over the commands.  The executor is created before it, only when
\* there is a command; when that fails the run ends.
TakeNext(d) ==
  /\ phase[d] = "next"
  /\ \/ \E l \in todo[d] :
          /\ todo' = [todo EXCEPT ![d] = @ \ {l}]
          /\ task' = [task EXCEPT ![d] = NewTask(l)]
          /\ MoveTo(d, "fetch")
          /\ UNCHANGED <<vars, agentId, call, executions>>
     \/ (todo[d] = {} \/ Faulty) /\ Exit(d)

-----------------------------------------------------------------------------
\* kubedialer apply

\* GetCommand: any command, whatever its status and its agent.
StartApply(d) ==
  /\ d \in Applies /\ phase[d] = "off"
  /\ \/ \E c \in Commands :
          /\ Present(c)
          /\ task' = [task EXCEPT ![d] =
               NewTask([cmd |-> c, names |-> cmdSecret[c].filenames])]
          /\ MoveTo(d, "fetch")
          /\ UNCHANGED <<vars, agentId, todo, call, executions>>
     \/ CallFails(\E c \in Commands : ~Present(c)) /\ Exit(d)

-----------------------------------------------------------------------------
\* Both

Downloaded(d, f) ==
  /\ task' = [task EXCEPT ![d].want = @ \ {f}, ![d].got = @ \cup {f}]
  /\ UNCHANGED <<vars, phase, agentId, todo, call, executions>>

Skipped(d, f) ==
  /\ task' = [task EXCEPT ![d].want = @ \ {f}]
  /\ UNCHANGED <<vars, phase, agentId, todo, call, executions>>

\* Faulty variants: apply goes on without a file, as run does; run gives up
\* on a file that is missing, as apply does.
DownloadSkipping(d) ==
  /\ phase[d] = "fetch"
  /\ \E f \in task[d].want :
       \/ HasFile(task[d].cmd, f) /\ Downloaded(d, f)
       \/ CallFails(~HasFile(task[d].cmd, f)) /\ Skipped(d, f)

DownloadStrict(d) ==
  /\ phase[d] = "fetch"
  /\ \E f \in task[d].want :
       \/ HasFile(task[d].cmd, f) /\ Downloaded(d, f)
       \/ CallFails(~HasFile(task[d].cmd, f)) /\ Exit(d)

\* GetCommandFile for one of the names.  When it fails, a run goes on without
\* the file and an apply ends.
Download(d) ==
  /\ phase[d] = "fetch"
  /\ \E f \in task[d].want :
       \/ HasFile(task[d].cmd, f) /\ Downloaded(d, f)
       \/ /\ CallFails(~HasFile(task[d].cmd, f))
          /\ IF d \in Runs THEN Skipped(d, f) ELSE Exit(d)

\* Faulty variant: the report does not look at the error of the execution.
ExecuteUnjudged(d) ==
  /\ phase[d] = "fetch" /\ task[d].want = {}
  /\ \E ok \in BOOLEAN :
       executions' = executions \cup
         {[by |-> d, cmd |-> task[d].cmd, names |-> task[d].names,
           files |-> task[d].got, success |-> ok]}
  /\ task' = [task EXCEPT ![d].success = TRUE]
  /\ MoveTo(d, "submit")
  /\ UNCHANGED <<vars, agentId, todo, call>>

\* executor.Execute with the files that were downloaded.
Execute(d) ==
  /\ phase[d] = "fetch" /\ task[d].want = {}
  /\ \E ok \in BOOLEAN :
       /\ executions' = executions \cup
            {[by |-> d, cmd |-> task[d].cmd, names |-> task[d].names,
              files |-> task[d].got, success |-> ok]}
       /\ task' = [task EXCEPT ![d].success = ok]
  /\ MoveTo(d, "submit")
  /\ UNCHANGED <<vars, agentId, todo, call>>

\* Faulty variant: what is reported is success, whatever was executed.
SubmitOptimist(d) ==
  /\ phase[d] = "submit"
  /\ \E r \in Requests \ Posts :
       /\ Accept(r, [op |-> "report", cmd |-> task[d].cmd, success |-> TRUE],
                 "getForStatus")
       /\ call' = [call EXCEPT ![d] = r]
       /\ MoveTo(d, "await")
       /\ UNCHANGED <<agentId, todo, task, executions>>

\* Faulty variant: an execution that failed is not reported.
SubmitSuccessOnly(d) ==
  /\ phase[d] = "submit"
  /\ \/ /\ task[d].success
        /\ \E r \in Requests \ Posts :
             /\ Accept(r, [op |-> "report", cmd |-> task[d].cmd,
                           success |-> TRUE], "getForStatus")
             /\ call' = [call EXCEPT ![d] = r]
        /\ MoveTo(d, "await")
        /\ UNCHANGED <<agentId, todo, task, executions>>
     \/ /\ ~task[d].success
        /\ Finish(d)
        /\ UNCHANGED <<vars, agentId, todo, task, call, executions>>

\* SubmitResult reaches the commander, or does not.
Submit(d) ==
  /\ phase[d] = "submit"
  /\ \/ \E r \in Requests \ Posts :
          /\ Accept(r, [op |-> "report", cmd |-> task[d].cmd,
                        success |-> task[d].success], "getForStatus")
          /\ call' = [call EXCEPT ![d] = r]
          /\ MoveTo(d, "await")
          /\ UNCHANGED <<agentId, todo, task, executions>>
     \/ /\ Faulty
        /\ Finish(d)
        /\ UNCHANGED <<vars, agentId, todo, task, call, executions>>

\* Faulty variant: the HTTP client has no timeout.
ReturnAnsweredOnly(d) ==
  /\ phase[d] = "await"
  /\ pc[call[d]] = "done"
  /\ call' = [call EXCEPT ![d] = NoCall]
  /\ Finish(d)
  /\ UNCHANGED <<vars, agentId, todo, task, executions>>

\* SubmitResult returns: it was answered, the connection broke with the
\* commander's process, or the client's 30 seconds are over.  A run logs an
\* error and goes on; an apply ends in any case.
Return(d) ==
  /\ phase[d] = "await"
  /\ pc[call[d]] = "done" \/ Faulty
  /\ call' = [call EXCEPT ![d] = NoCall]
  /\ Finish(d)
  /\ UNCHANGED <<vars, agentId, todo, task, executions>>

\* The pod of a process is evicted, or the process crashes.
Crash(d) == Faulty /\ Working(d) /\ Exit(d)

-----------------------------------------------------------------------------
Dial(d) ==
  \/ d \in Runs /\ (ListPending(d) \/ TakeNext(d))
  \/ Download(d) \/ Execute(d) \/ Submit(d) \/ Return(d)

\* Administrators address a command to an id the commander has given out.
Post(r) ==
  /\ r \in Posts
  /\ ReceiveCreate(r)
  /\ job'[r].agent \in Registered
  /\ UNCHANGED dialVars

Commander ==
  /\ (\E r \in Requests : Handle(r)) \/ Kill
  /\ UNCHANGED dialVars

KubedialNext ==
  \/ \E r \in Requests : Post(r)
  \/ Commander
  \/ \E d \in Processes : StartRun(d) \/ StartApply(d) \/ Dial(d) \/ Crash(d)

KubedialSpec == KubedialInit /\ [][KubedialNext]_allVars

\* A process that was started is scheduled; its calls to the commander end,
\* because the HTTP client has a timeout, whether or not the commander does
\* anything.
DialerFairness == \A d \in Processes : WF_allVars(Dial(d))
HungCommanderSpec == KubedialSpec /\ DialerFairness

\* The commander is scheduled, too.
KubedialFairSpec ==
  HungCommanderSpec /\ \A r \in Requests : WF_allVars(Handle(r) /\ UNCHANGED dialVars)

\* The CronJob comes round again, so every run is started in its turn.
CronSpec == KubedialFairSpec /\ \A d \in Runs : WF_allVars(StartRun(d))

-----------------------------------------------------------------------------
\* Properties

\* Every verdict and every result the commander keeps was earned: some process
\* executed that very command with that outcome, however reports were lost,
\* repeated or overtaken (run.go:134-169, service UpdateResult).
VerdictWasEarned ==
  \A c \in Commands :
    Present(c) =>
      /\ cmdSecret[c].status \in Terminal =>
           \E e \in executions : e.cmd = c /\ cmdSecret[c].status = Verdict(e.success)
      /\ cmdSecret[c].result # NoResult =>
           \E e \in executions : e.cmd = c /\ cmdSecret[c].result.success = e.success

\* No run takes up a command after the report of somebody who executed it was
\* answered 200 (client GetPendingCommands, repository GetPending).
AckedIsNotListed ==
  [][\A d \in Runs :
       \A l \in todo'[d] \ todo[d] :
         ~ \E r \in Requests : Reports(r, l.cmd) /\ reply[r] = 200]_allVars

\* An apply never executes a part of a command: also when it is started while
\* the creation still lacks the files Secret, or when a download breaks, it
\* ends rather than execute what it has (apply.go:96-104).
ApplyIsWhole ==
  \A e \in executions : e.by \in Applies => e.files = e.names

\* Started processes end, even when the commander hangs or dies: a run that
\* never ended would keep the CronJob from starting another one
\* (cronjob.yaml:10; client/commander.go:86).
ProcessesEnd ==
  \A d \in Processes : Working(d) ~> (phase[d] = "exited")

\* When nothing breaks, a command that a run has listed ends with a verdict
\* and a result, though an apply may race the run and the creation may not be
\* through yet.
ListedIsJudged ==
  \A d \in Runs, c \in Commands :
    (\E l \in todo[d] : l.cmd = c) ~>
      (Present(c) /\ cmdSecret[c].status \in Terminal
                  /\ cmdSecret[c].result # NoResult)

\* models.go:23: "completed" says the command was executed successfully, so
\* somebody must have executed all of it.  A run executes what it could
\* download, and executing nothing succeeds.
CompletedWasExecutedWhole ==
  \A c \in Commands :
    Present(c) /\ cmdSecret[c].status = "completed" =>
      \E e \in executions : e.cmd = c /\ e.success /\ e.files = cmdSecret[c].filenames

\* docs/architecture.md:204: "kubedialer registers on every CronJob invocation.
\* If the agent Secret already exists (same agent ID), the repository updates
\* the metadata": the invocations are one agent, so a command that was created
\* for it before an invocation is executed then at the latest.
LaterRunServes ==
  \A c \in Commands, d \in Runs :
    (phase[d] = "off" /\ \E r \in Requests : Creates(r, c) /\ reply[r] = 201) ~>
      (Present(c) /\ cmdSecret[c].status \in Terminal)

-----------------------------------------------------------------------------
\* The inductive invariant behind the safety properties; it holds together
\* with IInv.

\* A process that downloads or reports has a command, and a run that lists has
\* been registered.
StagesReached ==
  \A d \in Processes :
    /\ phase[d] \in {"fetch", "submit"} => task[d].cmd \in Commands
    /\ phase[d] = "list" => d \in Runs /\ agentId[d] \in Agents

\* A process about to report has executed that command, with that outcome.
SubmitsEarned ==
  \A d \in Processes :
    phase[d] = "submit" =>
      \E e \in executions : e.cmd = task[d].cmd /\ e.success = task[d].success

\* So has the author of every report that is at the commander, whether or not
\* he still waits for the answer.
ReportsEarned ==
  \A r \in Requests :
    job[r].op = "report" =>
      \E e \in executions : e.cmd = job[r].cmd /\ e.success = job[r].success

\* An apply that is still at it has every file it has asked for.
NothingSkipped ==
  \A d \in Applies :
    phase[d] = "fetch" => task[d].names = task[d].got \cup task[d].want

\* What the processes rely on, and what they have done.
DialInv ==
  /\ DialTypeOK
  /\ StagesReached
  /\ SubmitsEarned
  /\ ReportsEarned
  /\ NothingSkipped
  /\ ApplyIsWhole
=============================================================================
