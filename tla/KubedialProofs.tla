--------------------------- MODULE KubedialProofs ---------------------------
(***************************************************************************)
(* Proofs about Kubedial, for any number of dialer processes, commands,    *)
(* agents, files and requests.  The processes are shown to use the         *)
(* commander only as CommandStore allows, so that the theorems about       *)
(* CommandStore hold here; the invariant of the processes is proved        *)
(* together with the one of the commander.                                 *)
(***************************************************************************)
EXTENDS Kubedial, CommandStoreProofs

\* Initially no process has done anything.
LEMMA InitDialInv == KubedialInit => IInv /\ DialInv
<1> SUFFICES ASSUME KubedialInit PROVE IInv /\ DialInv
  OBVIOUS
<1>1. IInv
  BY InitIInv DEF KubedialInit
<1>2. NoTask \in Task
  BY DEF NoTask, Task
<1>3. DialTypeOK
  BY <1>1, <1>2 DEF KubedialInit, DialTypeOK, IInv, Phases
<1>4. StagesReached /\ SubmitsEarned /\ NothingSkipped /\ ApplyIsWhole
  BY DEF KubedialInit, StagesReached, SubmitsEarned, NothingSkipped, ApplyIsWhole, Processes
<1>5. ReportsEarned
  BY DEF KubedialInit, Init, NoJob, ReportsEarned
<1> QED
  BY <1>1, <1>3, <1>4, <1>5 DEF DialInv

\* Each handler works on the job it came with.
LEMMA JobsStay == \A r \in Requests : Handle(r) \/ Kill => job' = job
BY DEF Handle, Kill, CreateCommand, CreateFiles, Rollback, GetForStatus, PutStatus,
       GetForResult, PutResult, ReadCommand, ReadResult

-----------------------------------------------------------------------------
\* What the processes do to the commander

\* The report of a process is a report like any other.
LEMMA SubmitIsReceive ==
  ASSUME DialInv, NEW d \in Processes, Submit(d), ~UNCHANGED vars
  PROVE  \E r \in Requests : ReceiveReport(r)
<1>1. PICK r \in Requests :
        Accept(r, [op |-> "report", cmd |-> task[d].cmd, success |-> task[d].success],
               "getForStatus")
  BY DEF Submit
<1>2. task[d].cmd \in Commands /\ task[d].success \in BOOLEAN
  BY DEF Submit, DialInv, DialTypeOK, StagesReached, Task
<1> QED
  BY <1>1, <1>2 DEF ReceiveReport

\* No other step of a process changes anything at the commander.
LEMMA ProcessesOnlyReport ==
  ASSUME NEW d \in Processes,
         StartRun(d) \/ StartApply(d) \/ Crash(d) \/ (Dial(d) /\ ~Submit(d))
  PROVE  UNCHANGED vars
BY DEF StartRun, StartApply, Crash, Dial, ListPending, TakeNext, Download, Downloaded, Skipped,
       Execute, Return, Exit

\* Every step of the whole is a step of the commander, or none.
LEMMA StoreStep == DialInv /\ [KubedialNext]_allVars => [Next]_vars
<1> SUFFICES ASSUME DialInv, [KubedialNext]_allVars, ~UNCHANGED vars PROVE Next
  OBVIOUS
<1>1. ASSUME NEW r \in Requests, Post(r) PROVE Next
  BY <1>1 DEF Post, Next, Receive
<1>2. CASE Commander
  BY <1>2 DEF Commander, Next
<1>3. ASSUME NEW d \in Processes, StartRun(d) \/ StartApply(d) \/ Dial(d) \/ Crash(d)
      PROVE  Next
  BY <1>3, ProcessesOnlyReport, SubmitIsReceive DEF Next, Receive
<1>4. ~UNCHANGED allVars
  BY DEF allVars, vars
<1> QED
  BY <1>1, <1>2, <1>3, <1>4 DEF KubedialNext

-----------------------------------------------------------------------------
\* What the steps of the processes leave as it was

\* Nobody but a reporter changes what is reported, and executions stay.
LEMMA EarnedKept ==
  ASSUME ReportsEarned, job' = job, executions \subseteq executions'
  PROVE  ReportsEarned'
BY DEF ReportsEarned

\* A process that ends leaves nothing to be kept.
LEMMA ExitKept ==
  ASSUME DialInv, TypeOK', NEW d \in Processes, Exit(d)
  PROVE  DialInv'
<1>1. /\ phase' = [phase EXCEPT ![d] = "exited"]
      /\ job' = job
      /\ UNCHANGED <<agentId, todo, task, call, executions>>
  BY DEF Exit, MoveTo, vars
<1>2. DialTypeOK'
  BY <1>1 DEF DialInv, DialTypeOK, Phases
<1>3. StagesReached' /\ SubmitsEarned'
  BY <1>1 DEF DialInv, DialTypeOK, StagesReached, SubmitsEarned
<1>4. NothingSkipped' /\ ApplyIsWhole'
  BY <1>1 DEF DialInv, DialTypeOK, NothingSkipped, ApplyIsWhole, Processes
<1>5. ReportsEarned'
  BY <1>1, EarnedKept DEF DialInv
<1> QED
  BY <1>2, <1>3, <1>4, <1>5 DEF DialInv

\* A command that was read is a listing.
LEMMA ListedIsListing ==
  ASSUME TypeOK, NEW S \in SUBSET Commands, \A c \in S : Present(c)
  PROVE  Listed(S) \in SUBSET Listing
<1>1. \A c \in S : cmdSecret[c] \in CommandSecret
  BY DEF TypeOK, Present
<1>2. \A c \in S : cmdSecret[c].filenames \in SUBSET Files
  BY <1>1 DEF CommandSecret
<1> QED
  BY <1>2 DEF Listed, Listing

\* What a process takes up is a task.
LEMMA NewTaskIsTask ==
  ASSUME NEW l \in Listing
  PROVE  /\ NewTask(l) \in Task
         /\ NewTask(l).cmd = l.cmd /\ l.cmd \in Commands
         /\ NewTask(l).names = NewTask(l).want /\ NewTask(l).got = {}
BY DEF NewTask, Task, Listing

\* The start of a run.
LEMMA StartRunKept ==
  ASSUME DialInv, TypeOK', NEW d \in Processes, StartRun(d)
  PROVE  DialInv'
<1>1. CASE Exit(d)
  BY <1>1, ExitKept
<1>2. ASSUME NEW a \in Agents,
             agentId' = [agentId EXCEPT ![d] = a], MoveTo(d, "list"),
             UNCHANGED <<vars, todo, task, call, executions>>
      PROVE  DialInv'
  <2>1. /\ phase' = [phase EXCEPT ![d] = "list"] /\ d \in Runs
        /\ job' = job
    BY <1>2 DEF MoveTo, vars, StartRun
  <2>2. DialTypeOK'
    BY <1>2, <2>1 DEF DialInv, DialTypeOK, Phases
  <2>3. StagesReached' /\ SubmitsEarned'
    BY <1>2, <2>1 DEF DialInv, DialTypeOK, StagesReached, SubmitsEarned
  <2>4. NothingSkipped' /\ ApplyIsWhole'
    BY <1>2, <2>1 DEF DialInv, DialTypeOK, NothingSkipped, ApplyIsWhole, Processes
  <2>5. ReportsEarned'
    BY <1>2, <2>1, EarnedKept DEF DialInv
  <2> QED
    BY <2>2, <2>3, <2>4, <2>5 DEF DialInv
<1> QED
  BY <1>1, <1>2 DEF StartRun

\* A run has listed what is pending for it.
LEMMA ListPendingKept ==
  ASSUME DialInv, TypeOK', NEW d \in Runs, ListPending(d)
  PROVE  DialInv'
<1> USE DEF Processes
<1>1. CASE Exit(d)
  BY <1>1, ExitKept
<1>2. CASE /\ todo' = [todo EXCEPT ![d] = Listed(PendingFor(agentId[d]))]
           /\ MoveTo(d, "next")
           /\ UNCHANGED <<vars, agentId, task, call, executions>>
  <2>1. phase' = [phase EXCEPT ![d] = "next"] /\ job' = job
    BY <1>2 DEF MoveTo, vars
  <2>2. Listed(PendingFor(agentId[d])) \in SUBSET Listing
    BY ListedIsListing DEF PendingFor, DialInv, DialTypeOK
  <2>3. DialTypeOK'
    BY <1>2, <2>1, <2>2 DEF DialInv, DialTypeOK, Phases
  <2>4. StagesReached' /\ SubmitsEarned'
    BY <1>2, <2>1 DEF DialInv, DialTypeOK, StagesReached, SubmitsEarned
  <2>5. NothingSkipped' /\ ApplyIsWhole'
    BY <1>2, <2>1 DEF DialInv, DialTypeOK, NothingSkipped, ApplyIsWhole
  <2>6. ReportsEarned'
    BY <1>2, <2>1, EarnedKept DEF DialInv
  <2> QED
    BY <2>3, <2>4, <2>5, <2>6 DEF DialInv
<1> QED
  BY <1>1, <1>2 DEF ListPending

\* A process takes a command up: a run from its list, an apply by its id.
LEMMA BeginKept ==
  ASSUME DialInv, TypeOK', NEW d \in Processes, NEW l \in Listing,
         task' = [task EXCEPT ![d] = NewTask(l)], MoveTo(d, "fetch"),
         todo' \in [Runs -> SUBSET Listing],
         UNCHANGED <<vars, agentId, call, executions>>
  PROVE  DialInv'
<1>1. phase' = [phase EXCEPT ![d] = "fetch"] /\ job' = job
  BY DEF MoveTo, vars
<1>2. /\ NewTask(l) \in Task /\ NewTask(l).cmd \in Commands
      /\ NewTask(l).names = NewTask(l).got \cup NewTask(l).want
  BY NewTaskIsTask
<1>3. DialTypeOK'
  BY <1>1, <1>2 DEF DialInv, DialTypeOK, Phases
<1>4. StagesReached' /\ SubmitsEarned'
  BY <1>1, <1>2 DEF DialInv, DialTypeOK, StagesReached, SubmitsEarned
<1>5. NothingSkipped' /\ ApplyIsWhole'
  BY <1>1, <1>2 DEF DialInv, DialTypeOK, NothingSkipped, ApplyIsWhole, Processes
<1>6. ReportsEarned'
  BY <1>1, EarnedKept DEF DialInv
<1> QED
  BY <1>3, <1>4, <1>5, <1>6 DEF DialInv

\* The loop of a run.
LEMMA TakeNextKept ==
  ASSUME DialInv, TypeOK', NEW d \in Runs, TakeNext(d)
  PROVE  DialInv'
<1>1. CASE Exit(d)
  BY <1>1, ExitKept DEF Processes
<1>2. ASSUME NEW l \in todo[d],
             todo' = [todo EXCEPT ![d] = @ \ {l}],
             task' = [task EXCEPT ![d] = NewTask(l)], MoveTo(d, "fetch"),
             UNCHANGED <<vars, agentId, call, executions>>
      PROVE  DialInv'
  <2>1. l \in Listing /\ todo' \in [Runs -> SUBSET Listing]
    BY <1>2 DEF DialInv, DialTypeOK
  <2> QED
    BY <1>2, <2>1, BeginKept DEF Processes
<1> QED
  BY <1>1, <1>2 DEF TakeNext

\* The start of an apply.
LEMMA StartApplyKept ==
  ASSUME DialInv, TypeOK', NEW d \in Processes, StartApply(d)
  PROVE  DialInv'
<1>1. CASE Exit(d)
  BY <1>1, ExitKept
<1>2. ASSUME NEW c \in Commands, Present(c),
             task' = [task EXCEPT ![d] =
               NewTask([cmd |-> c, names |-> cmdSecret[c].filenames])],
             MoveTo(d, "fetch"),
             UNCHANGED <<vars, agentId, todo, call, executions>>
      PROVE  DialInv'
  <2>1. [cmd |-> c, names |-> cmdSecret[c].filenames] \in Listing
    <3>1. cmdSecret[c] \in CommandSecret
      BY <1>2 DEF DialInv, DialTypeOK, TypeOK, Present
    <3> QED
      BY <3>1 DEF CommandSecret, Listing
  <2>2. todo' \in [Runs -> SUBSET Listing]
    BY <1>2 DEF DialInv, DialTypeOK
  <2> QED
    BY <1>2, <2>1, <2>2, BeginKept
<1> QED
  BY <1>1, <1>2 DEF StartApply

\* A file that came is among the files asked for.
LEMMA DownloadedKept ==
  ASSUME DialInv, TypeOK', NEW d \in Processes, phase[d] = "fetch",
         NEW f \in task[d].want, Downloaded(d, f)
  PROVE  DialInv'
<1>1. /\ task' = [task EXCEPT ![d].want = @ \ {f}, ![d].got = @ \cup {f}]
      /\ UNCHANGED <<vars, phase, agentId, todo, call, executions>> /\ job' = job
  BY DEF Downloaded, vars
<1>2. task[d] \in Task /\ f \in Files
  BY DEF DialInv, DialTypeOK, Task
<1> DEFINE t == [task[d] EXCEPT !.want = @ \ {f}, !.got = @ \cup {f}]
<1>3. /\ t \in Task /\ t.cmd = task[d].cmd /\ t.names = task[d].names
      /\ t.got \cup t.want = task[d].got \cup task[d].want
  BY <1>2 DEF Task
<1>4. task' = [task EXCEPT ![d] = t]
  BY <1>1
<1> HIDE DEF t
<1>5. DialTypeOK'
  BY <1>1, <1>3, <1>4 DEF DialInv, DialTypeOK
<1>6. StagesReached' /\ SubmitsEarned'
  BY <1>1, <1>3, <1>4 DEF DialInv, DialTypeOK, StagesReached, SubmitsEarned
<1>7. NothingSkipped' /\ ApplyIsWhole'
  BY <1>1, <1>3, <1>4 DEF DialInv, DialTypeOK, NothingSkipped, ApplyIsWhole, Processes
<1>8. ReportsEarned'
  BY <1>1, EarnedKept DEF DialInv
<1> QED
  BY <1>5, <1>6, <1>7, <1>8 DEF DialInv

\* Only a run goes on without a file.
LEMMA SkippedKept ==
  ASSUME DialInv, TypeOK', NEW d \in Runs, phase[d] = "fetch",
         NEW f \in task[d].want, Skipped(d, f)
  PROVE  DialInv'
<1> USE DEF Processes
<1>1. /\ task' = [task EXCEPT ![d].want = @ \ {f}]
      /\ UNCHANGED <<vars, phase, agentId, todo, call, executions>> /\ job' = job
  BY DEF Skipped, vars
<1> DEFINE t == [task[d] EXCEPT !.want = @ \ {f}]
<1>2. t \in Task /\ t.cmd = task[d].cmd
  BY DEF DialInv, DialTypeOK, Task
<1>3. task' = [task EXCEPT ![d] = t]
  BY <1>1
<1> HIDE DEF t
<1>4. DialTypeOK'
  BY <1>1, <1>2, <1>3 DEF DialInv, DialTypeOK
<1>5. StagesReached' /\ SubmitsEarned'
  BY <1>1, <1>2, <1>3 DEF DialInv, DialTypeOK, StagesReached, SubmitsEarned
<1>6. NothingSkipped' /\ ApplyIsWhole'
  BY <1>1, <1>3, DialerAssumption DEF DialInv, DialTypeOK, NothingSkipped, ApplyIsWhole
<1>7. ReportsEarned'
  BY <1>1, EarnedKept DEF DialInv
<1> QED
  BY <1>4, <1>5, <1>6, <1>7 DEF DialInv

\* The download of one file, for a run and for an apply.
LEMMA DownloadKept ==
  ASSUME DialInv, TypeOK', NEW d \in Processes, Download(d)
  PROVE  DialInv'
BY DownloadedKept, SkippedKept, ExitKept DEF Download

\* An execution is recorded with its outcome, which is then reported.
LEMMA ExecuteKept ==
  ASSUME DialInv, TypeOK', NEW d \in Processes, Execute(d)
  PROVE  DialInv'
<1> PICK ok \in BOOLEAN :
      /\ executions' = executions \cup
           {[by |-> d, cmd |-> task[d].cmd, names |-> task[d].names,
             files |-> task[d].got, success |-> ok]}
      /\ task' = [task EXCEPT ![d].success = ok]
  BY DEF Execute
<1> DEFINE e == [by |-> d, cmd |-> task[d].cmd, names |-> task[d].names,
                 files |-> task[d].got, success |-> ok]
           t == [task[d] EXCEPT !.success = ok]
<1>1. /\ phase[d] = "fetch" /\ task[d].want = {} /\ phase' = [phase EXCEPT ![d] = "submit"]
      /\ UNCHANGED <<vars, agentId, todo, call>> /\ job' = job
  BY DEF Execute, MoveTo, vars
<1>2. task[d] \in Task /\ task[d].cmd \in Commands
  BY <1>1 DEF DialInv, DialTypeOK, StagesReached
<1>3. /\ e \in Execution /\ e.cmd = task[d].cmd /\ e.success = ok
      /\ e.by = d /\ e.files = task[d].got /\ e.names = task[d].names
  BY <1>2 DEF Execution, Task
<1>4. t \in Task /\ t.cmd = task[d].cmd /\ t.success = ok
  BY <1>2 DEF Task
<1>5. task' = [task EXCEPT ![d] = t] /\ executions' = executions \cup {e}
  OBVIOUS
<1> HIDE DEF e, t
<1>6. DialTypeOK'
  BY <1>1, <1>3, <1>4, <1>5 DEF DialInv, DialTypeOK, Phases
<1>7. StagesReached'
  BY <1>1, <1>2, <1>4, <1>5 DEF DialInv, DialTypeOK, StagesReached
<1>8. SubmitsEarned'
  BY <1>1, <1>3, <1>4, <1>5 DEF DialInv, DialTypeOK, SubmitsEarned
<1>9. NothingSkipped'
  BY <1>1, <1>5 DEF DialInv, DialTypeOK, NothingSkipped, Processes
<1>10. ApplyIsWhole'
  <2>1. d \in Applies => e.files = e.names
    BY <1>1, <1>3 DEF DialInv, NothingSkipped
  <2> QED
    BY <1>3, <1>5, <2>1 DEF DialInv, ApplyIsWhole
<1>11. ReportsEarned'
  BY <1>1, <1>5, EarnedKept DEF DialInv
<1> QED
  BY <1>6, <1>7, <1>8, <1>9, <1>10, <1>11 DEF DialInv

\* A process that goes on to its next command, or ends, leaves nothing to be
\* kept.
LEMMA FinishKept ==
  ASSUME DialInv, TypeOK', NEW d \in Processes, Finish(d), job' = job,
         call' \in [Processes -> Requests \cup {NoCall}],
         UNCHANGED <<agentId, todo, task, executions>>
  PROVE  DialInv'
<1> PICK next \in {"next", "exited"} : phase' = [phase EXCEPT ![d] = next]
  BY DEF Finish, MoveTo
<1>1. DialTypeOK'
  BY DEF DialInv, DialTypeOK, Phases
<1>2. StagesReached' /\ SubmitsEarned'
  BY DEF DialInv, DialTypeOK, StagesReached, SubmitsEarned
<1>3. NothingSkipped' /\ ApplyIsWhole'
  BY DEF DialInv, DialTypeOK, NothingSkipped, ApplyIsWhole, Processes
<1>4. ReportsEarned'
  BY EarnedKept DEF DialInv
<1> QED
  BY <1>1, <1>2, <1>3, <1>4 DEF DialInv

\* The report that is sent was earned.
LEMMA SubmitKept ==
  ASSUME DialInv, TypeOK', NEW d \in Processes, Submit(d)
  PROVE  DialInv'
<1> DEFINE j == [op |-> "report", cmd |-> task[d].cmd, success |-> task[d].success]
<1>1. ASSUME NEW r \in Requests, Accept(r, j, "getForStatus"),
             call' = [call EXCEPT ![d] = r], MoveTo(d, "await"),
             UNCHANGED <<agentId, todo, task, executions>>
      PROVE  DialInv'
  <2>1. phase' = [phase EXCEPT ![d] = "await"] /\ job' = [job EXCEPT ![r] = j]
    BY <1>1 DEF MoveTo, Accept
  <2>2. j.cmd = task[d].cmd /\ j.success = task[d].success
    OBVIOUS
  <2> HIDE DEF j
  <2>3. DialTypeOK'
    BY <1>1, <2>1 DEF DialInv, DialTypeOK, Phases
  <2>4. StagesReached' /\ SubmitsEarned'
    BY <1>1, <2>1 DEF DialInv, DialTypeOK, StagesReached, SubmitsEarned
  <2>5. NothingSkipped' /\ ApplyIsWhole'
    BY <1>1, <2>1 DEF DialInv, DialTypeOK, NothingSkipped, ApplyIsWhole, Processes
  <2>6. ReportsEarned'
    <3>1. PICK e \in executions : e.cmd = j.cmd /\ e.success = j.success
      BY <2>2 DEF DialInv, SubmitsEarned, Submit
    <3> QED
      BY <1>1, <2>1, <3>1 DEF DialInv, DialTypeOK, TypeOK, ReportsEarned
  <2> QED
    BY <2>3, <2>4, <2>5, <2>6 DEF DialInv
<1>2. CASE Finish(d) /\ UNCHANGED <<vars, agentId, todo, task, call, executions>>
  <2>1. job' = job /\ call' \in [Processes -> Requests \cup {NoCall}]
    BY <1>2 DEF vars, DialInv, DialTypeOK
  <2> QED
    BY <1>2, <2>1, FinishKept
<1> QED
  BY <1>1, <1>2 DEF Submit

\* The wait for an answer ends.
LEMMA ReturnKept ==
  ASSUME DialInv, TypeOK', NEW d \in Processes, Return(d)
  PROVE  DialInv'
<1>1. job' = job /\ call' \in [Processes -> Requests \cup {NoCall}]
  BY DEF Return, vars, DialInv, DialTypeOK
<1> QED
  BY <1>1, FinishKept DEF Return

-----------------------------------------------------------------------------
\* Steps of the commander and of administrators

\* While no process moves, nothing it relies on changes.
LEMMA OthersKept ==
  ASSUME DialInv, TypeOK', UNCHANGED dialVars, ReportsEarned'
  PROVE  DialInv'
<1>1. DialTypeOK'
  BY DEF DialInv, DialTypeOK, dialVars
<1>2. StagesReached' /\ SubmitsEarned'
  BY DEF DialInv, StagesReached, SubmitsEarned, dialVars
<1>3. NothingSkipped' /\ ApplyIsWhole'
  BY DEF DialInv, NothingSkipped, ApplyIsWhole, dialVars
<1> QED
  BY <1>1, <1>2, <1>3 DEF DialInv

\* A new command is no report.
LEMMA PostKept ==
  ASSUME DialInv, TypeOK', NEW r \in Requests, Post(r)
  PROVE  DialInv'
<1>1. UNCHANGED dialVars
  BY DEF Post
<1>2. \A q \in Requests : job'[q].op = "report" => job'[q] = job[q]
  BY DEF Post, ReceiveCreate, Accept, DialInv, DialTypeOK, TypeOK
<1>3. ReportsEarned'
  BY <1>1, <1>2 DEF DialInv, ReportsEarned, dialVars
<1> QED
  BY <1>1, <1>3, OthersKept

\* The handlers invent no report.
LEMMA CommanderKept ==
  ASSUME DialInv, TypeOK', Commander
  PROVE  DialInv'
<1>1. UNCHANGED dialVars /\ job' = job
  BY JobsStay DEF Commander, Kill
<1>2. ReportsEarned'
  BY <1>1, EarnedKept DEF DialInv, dialVars
<1> QED
  BY <1>1, <1>2, OthersKept

\* The two invariants are kept together.
LEMMA DialInvKept == IInv /\ DialInv /\ [KubedialNext]_allVars => IInv' /\ DialInv'
<1> SUFFICES ASSUME IInv, DialInv, [KubedialNext]_allVars PROVE IInv' /\ DialInv'
  OBVIOUS
<1>1. IInv' /\ TypeOK'
  <2>1. IInv'
    BY StoreStep, IInvKept
  <2> QED
    BY <2>1 DEF IInv
<1>2. ASSUME NEW r \in Requests, Post(r) PROVE DialInv'
  BY <1>1, <1>2, PostKept
<1>3. CASE Commander
  BY <1>1, <1>3, CommanderKept
<1>4. ASSUME NEW d \in Processes, StartRun(d) PROVE DialInv'
  BY <1>1, <1>4, StartRunKept
<1>5. ASSUME NEW d \in Processes, StartApply(d) PROVE DialInv'
  BY <1>1, <1>5, StartApplyKept
<1>6. ASSUME NEW d \in Processes, Dial(d) PROVE DialInv'
  BY <1>1, <1>6, ListPendingKept, TakeNextKept, DownloadKept, ExecuteKept, SubmitKept, ReturnKept
     DEF Dial
<1>7. ASSUME NEW d \in Processes, Crash(d) PROVE DialInv'
  BY <1>1, <1>7, ExitKept DEF Crash
<1>8. CASE UNCHANGED allVars
  <2>1. UNCHANGED dialVars /\ job' = job
    BY <1>8 DEF allVars, dialVars
  <2>2. ReportsEarned'
    BY <2>1, EarnedKept DEF DialInv, dialVars
  <2> QED
    BY <1>1, <2>1, <2>2, OthersKept
<1> QED
  BY <1>1, <1>2, <1>3, <1>4, <1>5, <1>6, <1>7, <1>8 DEF KubedialNext

-----------------------------------------------------------------------------
\* Theorems

\* The processes and the commander keep their invariants whatever fails.
THEOREM DialInvariance == KubedialSpec => [](IInv /\ DialInv)
<1>1. KubedialInit => IInv /\ DialInv
  BY InitDialInv
<1>2. (IInv /\ DialInv) /\ [KubedialNext]_allVars => (IInv /\ DialInv)'
  BY DialInvKept
<1> QED
  BY <1>1, <1>2, PTL DEF KubedialSpec

\* The whole system uses the commander as CommandStore describes: what is
\* proved of Spec holds beside any number of dialer processes.
THEOREM StoreInTheWhole == KubedialSpec => Spec
<1>1. KubedialInit => Init
  BY DEF KubedialInit
<1>2. (IInv /\ DialInv) /\ [KubedialNext]_allVars => [Next]_vars
  BY StoreStep
<1> QED
  BY <1>1, <1>2, DialInvariance, PTL DEF KubedialSpec, Spec

\* The processes keep their form.
THEOREM DialTypeCorrect == KubedialSpec => []DialTypeOK
<1>1. DialInv => DialTypeOK
  BY DEF DialInv
<1> QED
  BY <1>1, DialInvariance, PTL

\* No verdict and no result without an execution of that command with that
\* outcome, however many processes work on it and whatever is lost.
THEOREM VerdictsAreEarned == KubedialSpec => []VerdictWasEarned
<1>1. IInv /\ DialInv => VerdictWasEarned
  <2> SUFFICES ASSUME IInv, DialInv, NEW c \in Commands, Present(c)
               PROVE  /\ cmdSecret[c].status \in Terminal =>
                           \E e \in executions :
                             e.cmd = c /\ cmdSecret[c].status = Verdict(e.success)
                      /\ cmdSecret[c].result # NoResult =>
                           \E e \in executions :
                             e.cmd = c /\ cmdSecret[c].result.success = e.success
    BY DEF VerdictWasEarned
  <2>1. \A r \in Requests :
          Reports(r, c) => \E e \in executions : e.cmd = c /\ e.success = job[r].success
    BY DEF DialInv, ReportsEarned, Reports
  <2>2. ASSUME cmdSecret[c].status \in Terminal
        PROVE  \E e \in executions : e.cmd = c /\ cmdSecret[c].status = Verdict(e.success)
    <3>1. PICK r \in Requests : Reports(r, c) /\ cmdSecret[c].status = Verdict(job[r].success)
      BY <2>2 DEF IInv, Authored
    <3>2. PICK e \in executions : e.cmd = c /\ e.success = job[r].success
      BY <2>1, <3>1
    <3> QED
      BY <3>1, <3>2
  <2>3. ASSUME cmdSecret[c].result # NoResult
        PROVE  \E e \in executions : e.cmd = c /\ cmdSecret[c].result.success = e.success
    <3>1. cmdSecret[c].result \in Result
      BY <2>3 DEF IInv, TypeOK, CommandSecret, Present
    <3>2. cmdSecret[c].result.from \in Requests
      BY <3>1 DEF Result
    <3>3. /\ Reports(cmdSecret[c].result.from, c)
          /\ cmdSecret[c].result.success = job[cmdSecret[c].result.from].success
      BY <2>3 DEF IInv, Authored
    <3> QED
      BY <2>1, <3>2, <3>3
  <2> QED
    BY <2>2, <2>3
<1> QED
  BY <1>1, DialInvariance, PTL

\* An apply executes all of a command or nothing.
THEOREM AppliesAreWhole == KubedialSpec => []ApplyIsWhole
<1>1. DialInv => ApplyIsWhole
  BY DEF DialInv
<1> QED
  BY <1>1, DialInvariance, PTL

\* No run lists a command whose report was answered 200.
THEOREM AckedStaysUnlisted == KubedialSpec => AckedIsNotListed
<1> DEFINE Unlisted == \A d \in Runs :
             \A l \in todo'[d] \ todo[d] :
               ~ \E r \in Requests : Reports(r, l.cmd) /\ reply[r] = 200
<1>1. AckedIsRecorded /\ (IInv /\ DialInv) /\ [KubedialNext]_allVars => [Unlisted]_allVars
  <2> HAVE AckedIsRecorded /\ (IInv /\ DialInv) /\ [KubedialNext]_allVars
  <2> SUFFICES ASSUME KubedialNext PROVE Unlisted
    OBVIOUS
  <2> SUFFICES ASSUME NEW d \in Runs, NEW l \in todo'[d] \ todo[d],
                      NEW r \in Requests, Reports(r, l.cmd), reply[r] = 200
               PROVE  FALSE
    OBVIOUS
  <2>1. PICK p \in Runs : ListPending(p) /\ ~Exit(p)
    <3>1. \A q \in Requests : Post(q) => todo' = todo
      BY DEF Post, dialVars
    <3>2. Commander => todo' = todo
      BY DEF Commander, dialVars
    <3>3. \A p \in Processes :
            StartRun(p) \/ StartApply(p) \/ Download(p) \/ Execute(p) \/ Submit(p) \/ Return(p)
              \/ Crash(p) \/ Exit(p) => todo' = todo
      BY DEF StartRun, StartApply, Download, Downloaded, Skipped, Execute, Submit, Return, Crash,
             Exit
    <3>4. \A p \in Runs : TakeNext(p) => todo'[d] \subseteq todo[d]
      BY <3>3 DEF TakeNext, DialInv, DialTypeOK, Processes
    <3> QED
      BY <3>1, <3>2, <3>3, <3>4 DEF KubedialNext, Dial, Processes
  <2>2. /\ phase[p] = "list"
        /\ todo' = [todo EXCEPT ![p] = Listed(PendingFor(agentId[p]))]
    BY <2>1 DEF ListPending
  <2>3. agentId[p] \in Agents
    BY <2>2 DEF DialInv, StagesReached, Processes
  <2>4. l \in Listed(PendingFor(agentId[p]))
    BY <2>2 DEF DialInv, DialTypeOK
  <2>5. l.cmd \in PendingFor(agentId[p])
    BY <2>4 DEF Listed
  <2> QED
    BY <2>3, <2>5 DEF AckedIsRecorded, Reports
<1>2. KubedialSpec => []AckedIsRecorded
  BY StoreInTheWhole, AcksAreKept, PTL
<1> QED
  BY <1>1, <1>2, DialInvariance, PTL DEF KubedialSpec, AckedIsNotListed
=============================================================================
