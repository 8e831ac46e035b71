--------------------------- MODULE DeliveryProofs ---------------------------
(***************************************************************************)
(* Proofs about Delivery: what is executed is what was posted, the whole   *)
(* system implements CommandDispatch, and, when nothing breaks, what is    *)
(* skipped was not answered for yet and what is executed is reported.      *)
(***************************************************************************)
EXTENDS Delivery, KubedialProofs

-----------------------------------------------------------------------------
\* What was posted

\* What was posted under an id stays so: no request is given another job.
LEMMA PostedStays ==
  ASSUME IInv, [Next]_vars
  PROVE  /\ \A c, names : PostedAs(c, names) => PostedAs(c, names)'
         /\ \A c, a : PostedFor(c, a) => PostedFor(c, a)'
         /\ stored \subseteq stored'
<1>1. \A r \in Requests : job[r].op = "create" => job'[r] = job[r]
  <2>1. ASSUME NEW q \in Requests, Receive(q), NEW r \in Requests, job[r].op = "create"
        PROVE  job'[r] = job[r]
    BY <2>1, JobKinds DEF Receive, ReceiveCreate, Reject, ReceiveReport, ReceiveRead, Accept,
       IInv, TypeOK, HandlersFitJobs
  <2> QED
    BY <2>1, JobsStay DEF Next, vars
<1>2. stored \subseteq stored'
  <2>1. ASSUME NEW q \in Requests, Receive(q) PROVE stored' = stored
    BY <2>1 DEF Receive, ReceiveCreate, Reject, ReceiveReport, ReceiveRead, Accept, secrets
  <2>2. ASSUME NEW q \in Requests, Handle(q) PROVE stored \subseteq stored'
    BY <2>2 DEF Handle, CreateCommand, StoreCommand, CreateFiles, Rollback, GetForStatus, PutStatus,
       GetForResult, PutResult, ReadCommand, ReadResult, secrets
  <2> QED
    BY <2>1, <2>2 DEF Next, Kill, vars
<1> QED
  BY <1>1, <1>2 DEF PostedAs, PostedFor, Creates

\* A Secret that a handler stores has the files and the agent of the command.
LEMMA SecretsKept ==
  ASSUME IInv, SecretsAsPosted, [Next]_vars
  PROVE  SecretsAsPosted'
<1> SUFFICES ASSUME NEW c \in Commands, Present(c)'
             PROVE  (PostedAs(c, cmdSecret[c].filenames) /\ PostedFor(c, cmdSecret[c].agent))'
  BY DEF SecretsAsPosted
<1>1. CASE /\ Present(c)
           /\ cmdSecret'[c].filenames = cmdSecret[c].filenames
           /\ cmdSecret'[c].agent = cmdSecret[c].agent
  BY <1>1, PostedStays DEF SecretsAsPosted
<1>2. CASE cmdSecret' = cmdSecret
  BY <1>1, <1>2 DEF Present
<1>3. ASSUME NEW r \in Requests, Handle(r), cmdSecret' # cmdSecret
      PROVE  (PostedAs(c, cmdSecret[c].filenames) /\ PostedFor(c, cmdSecret[c].agent))'
  <2>1. CASE CreateCommand(r)
    <3>1. /\ job[r] \in CreateJob /\ job[r].cmd \in Commands /\ job' = job
          /\ cmdSecret' = [cmdSecret EXCEPT ![job[r].cmd] = NewCommand(r)]
          /\ NewCommand(r).filenames = job[r].files /\ NewCommand(r).agent = job[r].agent
      BY <1>3, <2>1, JobKinds DEF CreateCommand, StoreCommand, NewCommand, IInv, HandlersFitJobs,
         CreatePCs
    <3>2. CASE c = job[r].cmd
      BY <3>1, <3>2, JobKinds DEF PostedAs, PostedFor, Creates, IInv, TypeOK
    <3>3. CASE c # job[r].cmd
      BY <1>1, <3>1, <3>3 DEF Present, IInv, TypeOK
    <3> QED
      BY <3>2, <3>3
  <2>2. CASE Rollback(r)
    BY <1>1, <1>3, <2>2 DEF Rollback, Present, IInv, TypeOK
  <2>3. CASE PutStatus(r)
    <3>1. WriteSecret(r, WithVerdict(copy[r], job[r].success))
      BY <1>3, <2>3 DEF PutStatus
    <3>2. PICK t \in CommandSecret :
            /\ job[r].cmd \in Commands /\ cmdSecret[job[r].cmd] \in CommandSecret
            /\ cmdSecret' = [cmdSecret EXCEPT ![job[r].cmd] = t]
            /\ t.filenames = cmdSecret[job[r].cmd].filenames
            /\ t.agent = cmdSecret[job[r].cmd].agent
      BY <2>3, <3>1, PutStatusEffect
    <3> QED
      BY <1>1, <3>2, AbsentIsNoSecret DEF Present, IInv, TypeOK
  <2>4. CASE PutResult(r)
    <3>1. WriteSecret(r, WithResult(copy[r], r))
      BY <1>3, <2>4 DEF PutResult
    <3>2. PICK t \in CommandSecret :
            /\ job[r].cmd \in Commands /\ cmdSecret[job[r].cmd] \in CommandSecret
            /\ cmdSecret' = [cmdSecret EXCEPT ![job[r].cmd] = t]
            /\ t.filenames = cmdSecret[job[r].cmd].filenames
            /\ t.agent = cmdSecret[job[r].cmd].agent
      BY <2>4, <3>1, PutResultEffect
    <3> QED
      BY <1>1, <3>2, AbsentIsNoSecret DEF Present, IInv, TypeOK
  <2> QED
    BY <1>3, <2>1, <2>2, <2>3, <2>4 DEF Handle, CreateFiles, GetForStatus, GetForResult,
       ReadCommand, ReadResult, secrets
<1>4. ASSUME NEW r \in Requests, Receive(r) PROVE cmdSecret' = cmdSecret
  BY <1>4 DEF Receive, ReceiveCreate, Reject, ReceiveReport, ReceiveRead, Accept, secrets
<1> QED
  BY <1>2, <1>3, <1>4 DEF Next, Kill, vars

-----------------------------------------------------------------------------
\* What the processes make of it

\* An execution as ExecutedAsPosted wants it.
FaithfulBy(e, d) ==
  /\ e.by = d
  /\ e.cmd \in stored /\ PostedAs(e.cmd, e.names)
  /\ e.files \subseteq e.names
  /\ d \in Runs => PostedFor(e.cmd, agentId[d])

\* The step of one process, d.  It gets an id only when it has done nothing.
StepOf(d) ==
  /\ \A p \in Processes \ {d} : phase'[p] = phase[p] /\ task'[p] = task[p]
  /\ \A p \in Runs \ {d} : agentId'[p] = agentId[p] /\ todo'[p] = todo[p]
  /\ d \in Runs => agentId'[d] = agentId[d] \/ phase[d] = "off"

\* Such a step leaves what others have as it was posted.
LEMMA StepOfKept ==
  ASSUME IInv, PostedInv, [Next]_vars, NEW d \in Processes, StepOf(d),
         d \in Runs => ListAsPosted(d)', TaskAsPosted(d)',
         executions \subseteq executions',
         \A e \in executions' \ executions : FaithfulBy(e, d)'
  PROVE  PostedInv'
<1> USE PostedStays DEF Processes
<1>1. SecretsAsPosted'
  BY SecretsKept DEF PostedInv
<1>2. ASSUME NEW p \in Runs PROVE ListAsPosted(p)'
  <2>1. CASE p = d
    BY <2>1
  <2>2. CASE p # d
    BY <2>2 DEF PostedInv, ListAsPosted, StepOf, FaithfulBy
  <2> QED
    BY <2>1, <2>2
<1>3. ASSUME NEW p \in Processes PROVE TaskAsPosted(p)'
  <2>1. CASE p = d
    BY <2>1
  <2>2. CASE p # d
    BY <2>2 DEF PostedInv, TaskAsPosted, StepOf
  <2> QED
    BY <2>1, <2>2
<1>4. (\A e \in executions : e.cmd \in stored)'
  BY DEF PostedInv, FaithfulBy
<1>5. ASSUME NEW e \in executions'
      PROVE  (/\ PostedAs(e.cmd, e.names)
              /\ e.files \subseteq e.names
              /\ e.by \in Runs => PostedFor(e.cmd, agentId[e.by]))'
  <2>1. CASE e \in executions
    <3>1. PostedAs(e.cmd, e.names)' /\ e.files \subseteq e.names
      BY <2>1 DEF PostedInv, ExecutedAsPosted
    <3>2. ASSUME e.by \in Runs PROVE agentId'[e.by] = agentId[e.by]
      BY <2>1, <3>2 DEF StepOf, PostedInv, ListAsPosted
    <3> QED
      BY <2>1, <3>1, <3>2 DEF PostedInv, ExecutedAsPosted
  <2>2. CASE e \notin executions
    BY <2>2 DEF FaithfulBy
  <2> QED
    BY <2>1, <2>2
<1> QED
  BY <1>1, <1>2, <1>3, <1>4, <1>5 DEF PostedInv, ExecutedAsPosted

\* While no process moves, what it has is as it was posted.
LEMMA PostedIfNoneMoves ==
  ASSUME IInv, PostedInv, [Next]_vars, UNCHANGED dialVars
  PROVE  PostedInv'
<1> USE PostedStays DEF dialVars
<1>1. SecretsAsPosted'
  BY SecretsKept DEF PostedInv
<1>2. (\A d \in Runs : ListAsPosted(d))'
  BY DEF PostedInv, ListAsPosted
<1>3. (\A d \in Processes : TaskAsPosted(d))'
  BY DEF PostedInv, TaskAsPosted
<1>4. (\A e \in executions : e.cmd \in stored)' /\ ExecutedAsPosted'
  BY DEF PostedInv, ExecutedAsPosted
<1> QED
  BY <1>1, <1>2, <1>3, <1>4 DEF PostedInv

\* A process that ends, or goes on to its next command.
LEMMA LeaveKept ==
  ASSUME IInv, DialInv, PostedInv, [Next]_vars, NEW d \in Processes,
         NEW next \in Phases \ {"off", "list", "fetch", "submit"}, MoveTo(d, next),
         UNCHANGED <<agentId, todo, task, executions>>
  PROVE  PostedInv'
<1> USE DEF MoveTo, DialInv, DialTypeOK
<1>1. StepOf(d)
  BY DEF StepOf
<1>2. d \in Runs => ListAsPosted(d)'
  BY PostedStays DEF PostedInv, ListAsPosted
<1>3. TaskAsPosted(d)'
  BY DEF TaskAsPosted
<1> QED
  BY <1>1, <1>2, <1>3, StepOfKept

\* So, a process that exits.
LEMMA ExitAsPosted ==
  ASSUME IInv, DialInv, PostedInv, NEW d \in Processes, Exit(d)
  PROVE  PostedInv'
<1>1. [Next]_vars /\ "exited" \in Phases
  BY DEF Exit, Phases
<1> QED
  BY <1>1, LeaveKept DEF Exit

\* A run gets an id before it lists or executes anything.
LEMMA StartRunAsPosted ==
  ASSUME IInv, DialInv, PostedInv, NEW d \in Processes, StartRun(d)
  PROVE  PostedInv'
<1> USE DEF DialInv, DialTypeOK
<1>1. CASE Exit(d)
  BY <1>1, ExitAsPosted
<1>2. CASE ~Exit(d)
  <2>1. PICK a \in Agents :
          /\ agentId' = [agentId EXCEPT ![d] = a]
          /\ phase' = [phase EXCEPT ![d] = "list"]
          /\ UNCHANGED <<vars, todo, task, call, executions>>
    BY <1>2 DEF StartRun, MoveTo
  <2>2. d \in Runs /\ phase[d] = "off"
    BY DEF StartRun
  <2>3. StepOf(d)
    BY <2>1, <2>2 DEF StepOf
  <2>4. ListAsPosted(d)' /\ TaskAsPosted(d)'
    BY <2>1, <2>2 DEF PostedInv, ListAsPosted, TaskAsPosted
  <2> QED
    BY <2>1, <2>3, <2>4, StepOfKept
<1> QED
  BY <1>1, <1>2

\* What a run lists is in the Secrets, and addressed to its id.
LEMMA ListPendingAsPosted ==
  ASSUME IInv, DialInv, PostedInv, NEW d \in Runs, ListPending(d)
  PROVE  PostedInv'
<1> USE DEF DialInv, DialTypeOK, Processes
<1>1. CASE Exit(d)
  BY <1>1, ExitAsPosted
<1>2. CASE ~Exit(d)
  <2>1. /\ todo' = [todo EXCEPT ![d] = Listed(PendingFor(agentId[d]))]
        /\ phase' = [phase EXCEPT ![d] = "next"]
        /\ UNCHANGED <<vars, agentId, task, call, executions>>
    BY <1>2 DEF ListPending, MoveTo
  <2>2. StepOf(d)
    BY <2>1 DEF StepOf
  <2>3. ASSUME NEW l \in todo'[d]
        PROVE  l.cmd \in stored /\ PostedAs(l.cmd, l.names) /\ PostedFor(l.cmd, agentId[d])
    <3>1. PICK c \in PendingFor(agentId[d]) : l = [cmd |-> c, names |-> cmdSecret[c].filenames]
      BY <2>1, <2>3 DEF Listed
    <3>2. l.cmd = c /\ l.names = cmdSecret[c].filenames
      BY <3>1
    <3>3. c \in Commands /\ Present(c) /\ cmdSecret[c].agent = agentId[d]
      BY DEF PendingFor
    <3> QED
      BY <3>2, <3>3 DEF PostedInv, SecretsAsPosted, IInv, OneCreator
  <2>4. ListAsPosted(d)'
    BY <2>1, <2>3 DEF ListAsPosted, PostedAs, PostedFor, Creates, vars
  <2>5. TaskAsPosted(d)'
    BY <2>1 DEF TaskAsPosted
  <2> QED
    BY <2>1, <2>2, <2>4, <2>5, StepOfKept
<1> QED
  BY <1>1, <1>2

\* A run takes a command from its list.
LEMMA TakeNextAsPosted ==
  ASSUME IInv, DialInv, PostedInv, NEW d \in Runs, TakeNext(d)
  PROVE  PostedInv'
<1> USE DEF DialInv, DialTypeOK, Processes
<1>1. CASE Exit(d)
  BY <1>1, ExitAsPosted
<1>2. CASE ~Exit(d)
  <2>1. PICK l \in todo[d] :
          /\ todo' = [todo EXCEPT ![d] = @ \ {l}]
          /\ task' = [task EXCEPT ![d] = NewTask(l)]
          /\ phase' = [phase EXCEPT ![d] = "fetch"]
          /\ UNCHANGED <<vars, agentId, call, executions>>
    BY <1>2 DEF TakeNext, MoveTo
  <2>2. /\ NewTask(l).cmd = l.cmd /\ NewTask(l).names = l.names
        /\ NewTask(l).want = l.names /\ NewTask(l).got = {}
    BY DEF NewTask
  <2>3. StepOf(d)
    BY <2>1 DEF StepOf
  <2>4. ListAsPosted(d)'
    BY <2>1 DEF PostedInv, ListAsPosted, PostedAs, PostedFor, Creates, vars
  <2>5. TaskAsPosted(d)'
    BY <2>1, <2>2 DEF PostedInv, ListAsPosted, TaskAsPosted, PostedAs, PostedFor, Creates, vars
  <2> QED
    BY <2>1, <2>3, <2>4, <2>5, StepOfKept
<1> QED
  BY <1>1, <1>2

\* An apply takes a command from its Secret.
LEMMA StartApplyAsPosted ==
  ASSUME IInv, DialInv, PostedInv, NEW d \in Processes, StartApply(d)
  PROVE  PostedInv'
<1> USE DEF DialInv, DialTypeOK, Processes
<1>1. CASE Exit(d)
  BY <1>1, ExitAsPosted
<1>2. CASE ~Exit(d)
  <2>1. PICK c \in Commands :
          /\ Present(c)
          /\ task' = [task EXCEPT ![d] =
               NewTask([cmd |-> c, names |-> cmdSecret[c].filenames])]
          /\ phase' = [phase EXCEPT ![d] = "fetch"]
          /\ UNCHANGED <<vars, agentId, todo, call, executions>>
    BY <1>2 DEF StartApply, MoveTo
  <2>2. /\ task'[d].cmd = c /\ task'[d].names = cmdSecret[c].filenames
        /\ task'[d].want = cmdSecret[c].filenames /\ task'[d].got = {}
    BY <2>1 DEF NewTask
  <2>3. StepOf(d) /\ d \notin Runs
    BY <2>1, DialerAssumption DEF StepOf, StartApply
  <2>4. TaskAsPosted(d)'
    BY <2>1, <2>2, <2>3
       DEF PostedInv, SecretsAsPosted, TaskAsPosted, PostedAs, PostedFor, Creates, vars,
           IInv, OneCreator
  <2> QED
    BY <2>1, <2>3, <2>4, StepOfKept
<1> QED
  BY <1>1, <1>2

\* Downloads only move names within a task.
LEMMA DownloadAsPosted ==
  ASSUME IInv, DialInv, PostedInv, NEW d \in Processes, Download(d)
  PROVE  PostedInv'
<1> USE DEF DialInv, DialTypeOK, Processes
<1>1. CASE Exit(d)
  BY <1>1, ExitAsPosted
<1>2. CASE ~Exit(d)
  <2>1. /\ phase[d] = "fetch" /\ UNCHANGED <<vars, phase, agentId, todo, call, executions>>
        /\ \A p \in Processes \ {d} : task'[p] = task[p]
        /\ task'[d].cmd = task[d].cmd /\ task'[d].names = task[d].names
        /\ task'[d].got \cup task'[d].want \subseteq task[d].got \cup task[d].want
    <3>1. PICK f \in task[d].want : Downloaded(d, f) \/ Skipped(d, f)
      BY <1>2 DEF Download
    <3>2. task[d] \in Task
      OBVIOUS
    <3> QED
      BY <3>1, <3>2 DEF Download, Downloaded, Skipped, Task
  <2>2. StepOf(d)
    BY <2>1 DEF StepOf
  <2>3. d \in Runs => ListAsPosted(d)'
    BY <2>1 DEF PostedInv, ListAsPosted, PostedAs, PostedFor, Creates, vars
  <2>4. TaskAsPosted(d)'
    BY <2>1 DEF PostedInv, TaskAsPosted, PostedAs, PostedFor, Creates, vars
  <2> QED
    BY <2>1, <2>2, <2>3, <2>4, StepOfKept
<1> QED
  BY <1>1, <1>2

\* What is executed is the task.
LEMMA ExecuteAsPosted ==
  ASSUME IInv, DialInv, PostedInv, NEW d \in Processes, Execute(d)
  PROVE  PostedInv'
<1> USE DEF DialInv, DialTypeOK, Processes
<1> PICK ok \in BOOLEAN :
      /\ executions' = executions \cup
           {[by |-> d, cmd |-> task[d].cmd, names |-> task[d].names,
             files |-> task[d].got, success |-> ok]}
      /\ task' = [task EXCEPT ![d].success = ok]
  BY DEF Execute
<1>1. /\ phase[d] = "fetch" /\ phase' = [phase EXCEPT ![d] = "submit"]
      /\ UNCHANGED <<vars, agentId, todo, call>>
  BY DEF Execute, MoveTo
<1>2. /\ task'[d].cmd = task[d].cmd /\ task'[d].names = task[d].names
      /\ task'[d].got = task[d].got /\ task'[d].want = task[d].want
  <2>1. task[d] \in Task
    OBVIOUS
  <2> QED
    BY <2>1 DEF Task
<1>3. TaskAsPosted(d)
  BY DEF PostedInv
<1>4. StepOf(d)
  BY <1>1 DEF StepOf
<1>5. TaskAsPosted(d)'
  BY <1>1, <1>2, <1>3 DEF TaskAsPosted, PostedAs, PostedFor, Creates, vars
<1>6. d \in Runs => ListAsPosted(d)'
  BY <1>1 DEF PostedInv, ListAsPosted, PostedAs, PostedFor, Creates, vars
<1>7. ASSUME NEW e \in executions' \ executions PROVE FaithfulBy(e, d)'
  <2>1. /\ e.by = d /\ e.cmd = task[d].cmd /\ e.names = task[d].names
        /\ e.files = task[d].got
    BY <1>7
  <2> QED
    BY <1>1, <1>3, <2>1 DEF TaskAsPosted, FaithfulBy, PostedAs, PostedFor, Creates, vars
<1>8. [Next]_vars /\ executions \subseteq executions'
  BY <1>1
<1> QED
  BY <1>4, <1>5, <1>6, <1>7, <1>8, StepOfKept

\* The report changes nothing of this.
LEMMA SubmitAsPosted ==
  ASSUME IInv, DialInv, PostedInv, NEW d \in Processes, Submit(d) \/ Return(d)
  PROVE  PostedInv'
<1>1. [Next]_vars
  <2>1. CASE Submit(d)
    BY <2>1, SubmitIsReceive DEF Next, Receive
  <2>2. CASE Return(d)
    BY <2>2 DEF Return
  <2> QED
    BY <2>1, <2>2
<1>2. PICK next \in {"await", "next", "exited"} :
        MoveTo(d, next) /\ UNCHANGED <<agentId, todo, task, executions>>
  BY DEF Submit, Return, Finish
<1>3. next \in Phases \ {"off", "list", "fetch", "submit"}
  BY DEF Phases
<1> QED
  BY <1>1, <1>2, <1>3, LeaveKept

\* Nothing is posted, listed or executed yet.
LEMMA InitPostedInv == KubedialInit => PostedInv
BY DEF KubedialInit, Init, PostedInv, SecretsAsPosted, ListAsPosted, TaskAsPosted,
       ExecutedAsPosted, Present, Processes

\* Every step of the whole keeps what is posted.
LEMMA PostedInvKept ==
  IInv /\ DialInv /\ PostedInv /\ [KubedialNext]_allVars => PostedInv'
<1> SUFFICES ASSUME IInv, DialInv, PostedInv, [KubedialNext]_allVars PROVE PostedInv'
  OBVIOUS
<1>1. [Next]_vars
  BY StoreStep
<1>2. ASSUME NEW r \in Requests, Post(r) PROVE PostedInv'
  BY <1>1, <1>2, PostedIfNoneMoves DEF Post
<1>3. CASE Commander \/ UNCHANGED allVars
  BY <1>1, <1>3, PostedIfNoneMoves DEF Commander, allVars, dialVars
<1>4. ASSUME NEW d \in Processes, StartRun(d) \/ StartApply(d) \/ Dial(d) \/ Crash(d)
      PROVE  PostedInv'
  BY <1>4, StartRunAsPosted, StartApplyAsPosted, ListPendingAsPosted, TakeNextAsPosted,
     DownloadAsPosted, ExecuteAsPosted, SubmitAsPosted, ExitAsPosted DEF Dial, Crash
<1> QED
  BY <1>2, <1>3, <1>4 DEF KubedialNext

\* PostedInv is an invariant of the whole system.
THEOREM PostedInvariance == KubedialSpec => []PostedInv
<1>1. KubedialInit => PostedInv
  BY InitPostedInv
<1>2. (IInv /\ DialInv) /\ PostedInv /\ [KubedialNext]_allVars => PostedInv'
  BY PostedInvKept
<1> QED
  BY <1>1, <1>2, DialInvariance, PTL DEF KubedialSpec

\* Every execution is of what was posted under the id, with no other files,
\* and a run's is of what was addressed to it: whatever is lost, updated or
\* rolled back in between.
THEOREM ExecutionsAreFaithful == KubedialSpec => []ExecutedAsPosted
<1>1. PostedInv => ExecutedAsPosted
  BY DEF PostedInv
<1> QED
  BY <1>1, PostedInvariance, PTL

-----------------------------------------------------------------------------
\* The whole system implements CommandDispatch

\* What has been told of an execution was one.
LEMMA ReportIsTold ==
  ASSUME DialInv, NEW r \in Requests, job[r].op = "report"
  PROVE  Dispatch!Told(job[r].cmd, job[r].success)
<1>1. PICK e \in executions : e.cmd = job[r].cmd /\ e.success = job[r].success
  BY DEF DialInv, ReportsEarned
<1> QED
  BY <1>1 DEF Dispatch!Told

\* The life of a command is the same for the commander and for the whole.
LEMMA LivesAgree ==
  /\ \A c : Lifecycle!Submit(c) => Dispatch!Submit(c)
  /\ \A c : Lifecycle!Withdraw(c) => Dispatch!Withdraw(c)
  /\ \A c, v : Lifecycle!Conclude(c, v) => Dispatch!Conclude(c, v)
  /\ \A c, result : Lifecycle!Attach(c, result) => Dispatch!Attach(c, result)
BY DEF Lifecycle!Submit, Dispatch!Submit, Lifecycle!Withdraw, Dispatch!Withdraw,
       Lifecycle!Conclude, Dispatch!Conclude, Lifecycle!Attach, Dispatch!Attach,
       Lifecycle!Verdicts, Dispatch!Verdicts

\* A step that touches neither the store nor the executions is none.
LEMMA NothingDispatched ==
  UNCHANGED <<cmdSecret, stored, executions>> => UNCHANGED Dispatch!dispatchVars
BY DEF Dispatch!dispatchVars, StateOf, OutcomeOf, Present

\* An update by a report tells of an execution that was.
LEMMA ReportIsLive ==
  ASSUME IInv, DialInv, NEW r \in Requests, PutStatus(r) \/ PutResult(r),
         cmdSecret' # cmdSecret, executions' = executions
  PROVE  Dispatch!Live
<1>1. CASE PutStatus(r)
  <2>1. WriteSecret(r, WithVerdict(copy[r], job[r].success))
    BY <1>1 DEF PutStatus
  <2>2. /\ job[r].cmd \in Commands /\ job[r] \in ReportJob
        /\ Dispatch!Conclude(job[r].cmd, Verdict(job[r].success))
    BY <1>1, <2>1, PutStatusIsConclude, LivesAgree
  <2>3. job[r].success \in BOOLEAN /\ Dispatch!Told(job[r].cmd, job[r].success)
    BY <2>2, JobKinds, ReportIsTold
  <2> QED
    BY <2>2, <2>3 DEF Dispatch!Live, Verdict
<1>2. CASE PutResult(r)
  <2>1. WriteSecret(r, WithResult(copy[r], r))
    BY <1>2 DEF PutResult
  <2>2. PICK res \in Result :
          /\ job[r].cmd \in Commands /\ job[r] \in ReportJob
          /\ res.success = job[r].success
          /\ Dispatch!Attach(job[r].cmd, res)
    BY <1>2, <2>1, PutResultIsAttach, LivesAgree
  <2>3. Dispatch!Told(job[r].cmd, res.success)
    BY <2>2, JobKinds, ReportIsTold
  <2> QED
    BY <2>2, <2>3 DEF Dispatch!Live
<1> QED
  BY <1>1, <1>2

\* A step of the commander is one in the life of a command, or none.
LEMMA CommanderIsLive ==
  ASSUME IInv, DialInv, NEW r \in Requests, Handle(r), executions' = executions
  PROVE  Dispatch!Live \/ UNCHANGED Dispatch!dispatchVars
<1>1. CASE UNCHANGED <<cmdSecret, stored>>
  BY <1>1, NothingDispatched
<1>2. CASE CreateCommand(r) /\ ~UNCHANGED <<cmdSecret, stored>>
  <2>1. StoreCommand(r) /\ job[r].cmd \in Commands
    BY <1>2, JobKinds DEF CreateCommand, IInv, HandlersFitJobs, CreatePCs
  <2>2. Dispatch!Submit(job[r].cmd)
    BY <1>2, <2>1, StoreIsSubmit, LivesAgree
  <2> QED
    BY <2>1, <2>2 DEF Dispatch!Live
<1>3. CASE Rollback(r) /\ ~UNCHANGED <<cmdSecret, stored>>
  <2>1. cmdSecret' = [cmdSecret EXCEPT ![job[r].cmd] = Absent]
    BY <1>3 DEF Rollback
  <2>2. \E c \in Commands : Dispatch!Withdraw(c)
    BY <1>3, <2>1, RollbackIsWithdraw, LivesAgree
  <2> QED
    BY <2>2 DEF Dispatch!Live
<1>4. CASE (PutStatus(r) \/ PutResult(r)) /\ ~UNCHANGED <<cmdSecret, stored>>
  BY <1>4, ReportIsLive DEF PutStatus, PutResult
<1>5. CreateFiles(r) \/ GetForStatus(r) \/ GetForResult(r) \/ ReadCommand(r) \/ ReadResult(r)
        => UNCHANGED <<cmdSecret, stored>>
  BY DEF CreateFiles, GetForStatus, GetForResult, ReadCommand, ReadResult, secrets
<1> QED
  BY <1>1, <1>2, <1>3, <1>4, <1>5 DEF Handle

\* An execution is of a command that was submitted.
LEMMA ExecuteIsPerform ==
  ASSUME IInv, DialInv, PostedInv, NEW d \in Processes, Execute(d)
  PROVE  Dispatch!DispatchNext
<1>1. PICK ok \in BOOLEAN :
        executions' = executions \cup
          {[by |-> d, cmd |-> task[d].cmd, names |-> task[d].names,
            files |-> task[d].got, success |-> ok]}
  BY DEF Execute
<1> DEFINE c == task[d].cmd
           e == [by |-> d, cmd |-> c, names |-> task[d].names, files |-> task[d].got,
                 success |-> ok]
           Done == {<<x.cmd, x.success>> : x \in executions}
<1>2. phase[d] = "fetch" /\ c \in Commands /\ c \in stored /\ UNCHANGED <<cmdSecret, stored>>
  BY DEF Execute, DialInv, StagesReached, PostedInv, TaskAsPosted, vars
<1>3. StateOf(c) # "unborn"
  <2>1. Present(c) => cmdSecret[c].status # "unborn"
    BY <1>2 DEF IInv, TypeOK, Present, CommandSecret, Status, Terminal
  <2> QED
    BY <1>2, <2>1 DEF StateOf
<1>4. Done' = Done \cup {<<c, ok>>}
  <2>1. e.cmd = c /\ e.success = ok /\ executions' = executions \cup {e}
    BY <1>1
  <2> HIDE DEF e
  <2> QED
    BY <2>1
<1>5. UNCHANGED Dispatch!lifecycleVars
  BY <1>2 DEF Dispatch!lifecycleVars, StateOf, OutcomeOf, Present
<1>6. Dispatch!Perform(c, ok)
  BY <1>2, <1>3, <1>4, <1>5 DEF Dispatch!Perform
<1> QED
  BY <1>2, <1>6 DEF Dispatch!DispatchNext

\* Every step of the whole is one of the dispatch, or none.
LEMMA DispatchMoves ==
  IInv /\ DialInv /\ PostedInv /\ [KubedialNext]_allVars
    => [Dispatch!DispatchNext]_Dispatch!dispatchVars
<1> SUFFICES ASSUME IInv, DialInv, PostedInv, [KubedialNext]_allVars
             PROVE  Dispatch!DispatchNext \/ UNCHANGED Dispatch!dispatchVars
  OBVIOUS
<1>1. ASSUME NEW r \in Requests, Post(r) PROVE UNCHANGED <<cmdSecret, stored, executions>>
  BY <1>1 DEF Post, ReceiveCreate, Accept, dialVars
<1>2. ASSUME NEW r \in Requests, Handle(r), UNCHANGED dialVars
      PROVE  Dispatch!DispatchNext \/ UNCHANGED Dispatch!dispatchVars
  BY <1>2, CommanderIsLive DEF Dispatch!DispatchNext, dialVars
<1>3. Kill /\ UNCHANGED dialVars => UNCHANGED <<cmdSecret, stored, executions>>
  BY DEF Kill, dialVars
<1>4. ASSUME NEW d \in Processes,
             StartRun(d) \/ StartApply(d) \/ Crash(d) \/ (Dial(d) /\ ~Execute(d))
      PROVE  UNCHANGED <<cmdSecret, stored, executions>>
  BY <1>4 DEF StartRun, StartApply, Crash, Dial, ListPending, TakeNext, Download, Downloaded,
     Skipped, Submit, Accept, Return, Exit, vars
<1>5. UNCHANGED allVars => UNCHANGED <<cmdSecret, stored, executions>>
  BY DEF allVars
<1> QED
  BY <1>1, <1>2, <1>3, <1>4, <1>5, NothingDispatched, ExecuteIsPerform
  DEF KubedialNext, Commander

\* Handlers, runs and applies, interleaved, failing and overtaking each other,
\* implement CommandDispatch.
THEOREM DispatchIsImplemented == KubedialSpec => ImplementsDispatch
<1>1. KubedialInit => Dispatch!DispatchInit
  BY LifecycleStarts
  DEF KubedialInit, Dispatch!DispatchInit, Dispatch!LifecycleInit, Lifecycle!LifecycleInit
<1>2. (IInv /\ DialInv) /\ PostedInv /\ [KubedialNext]_allVars
        => [Dispatch!DispatchNext]_Dispatch!dispatchVars
  BY DispatchMoves
<1> QED
  BY <1>1, <1>2, DialInvariance, PostedInvariance, PTL
  DEF KubedialSpec, ImplementsDispatch, Dispatch!DispatchSpec

-----------------------------------------------------------------------------
\* What is skipped

\* A name that is skipped is one of the command, and the commander lacks it.
LEMMA SkippedIsMissing ==
  ASSUME ~Faulty, DialInv, [KubedialNext]_allVars, NEW d \in Processes, Skips(d)
  PROVE  \E f \in task[d].want : ~HasFile(task[d].cmd, f)
<1> USE DEF Skips, DialInv, DialTypeOK, Processes
<1>1. \A r \in Requests : ~Post(r)
  BY DEF Post, dialVars
<1>2. ~Commander /\ ~UNCHANGED allVars
  BY DEF Commander, dialVars, allVars
<1>3. ASSUME NEW p \in Processes, StartRun(p) \/ StartApply(p) \/ Crash(p) \/ Exit(p)
      PROVE  FALSE
  <2>1. phase'[p] # "fetch" \/ phase[p] # "fetch"
    BY <1>3 DEF StartRun, StartApply, Crash, Exit, MoveTo
  <2>2. \A q \in Processes \ {p} : task'[q] = task[q]
    BY <1>3 DEF StartRun, StartApply, Crash, Exit
  <2> QED
    BY <2>1, <2>2
<1>4. ASSUME NEW p \in Processes, Dial(p), ~Exit(p)
      PROVE  Download(p) /\ p = d
  <2>1. ASSUME ~Download(p) PROVE phase'[p] # "fetch" \/ phase[p] # "fetch"
    BY <1>4, <2>1 DEF Dial, ListPending, TakeNext, Execute, Submit, Return, Finish, MoveTo
  <2>2. \A q \in Processes \ {p} : task'[q] = task[q]
    BY <1>4 DEF Dial, ListPending, TakeNext, Download, Downloaded, Skipped, Execute, Submit, Return
  <2> QED
    BY <2>1, <2>2
<1>5. PICK f \in task[d].want : CallFails(~HasFile(task[d].cmd, f)) \/ Downloaded(d, f)
  BY <1>1, <1>2, <1>3, <1>4 DEF KubedialNext, Download
<1>6. ~Downloaded(d, f)
  <2>1. task[d] \in Task
    OBVIOUS
  <2> QED
    BY <2>1 DEF Downloaded, Task
<1> QED
  BY <1>5, <1>6 DEF CallFails

\* When nothing breaks, a run skips only files of commands whose creation has
\* not been answered 201.
THEOREM OnlyNewIsSkipped == KubedialSpec => SkipsOnlyWhatIsNew
<1>1. (IInv /\ DialInv) /\ PostedInv /\ [KubedialNext]_allVars =>
        [~Faulty => \A d \in Processes :
           Skips(d) => \A r \in Requests : Creates(r, task[d].cmd) => reply[r] # 201]_allVars
  <2> SUFFICES ASSUME IInv, DialInv, PostedInv, [KubedialNext]_allVars, ~Faulty,
                      NEW d \in Processes, Skips(d),
                      NEW r \in Requests, Creates(r, task[d].cmd), reply[r] = 201
               PROVE  FALSE
    OBVIOUS
  <2> DEFINE c == task[d].cmd
  <2>1. PICK f \in task[d].want : ~HasFile(c, f)
    BY SkippedIsMissing
  <2>2. PICK q \in Requests : Creates(q, c) /\ job[q].files = task[d].names
    BY DEF PostedInv, TaskAsPosted, PostedAs, Skips
  <2>3. c \in Commands
    BY DEF DialInv, StagesReached, Skips
  <2>4. q = r
    BY <2>2, <2>3 DEF IInv, OneCreator
  <2>5. f \in job[r].files
    BY <2>2, <2>4 DEF PostedInv, TaskAsPosted, Skips
  <2>6. HasFile(c, f)
    BY <2>5 DEF IInv, CreatedIsComplete, Creates
  <2> QED
    BY <2>1, <2>6
<1> QED
  BY <1>1, DialInvariance, PostedInvariance, PTL DEF KubedialSpec, SkipsOnlyWhatIsNew

-----------------------------------------------------------------------------
\* When nothing breaks, no execution is forgotten

\* A verdict with a result stays.
LEMMA JudgedStays ==
  ASSUME ~Faulty, IInv, CalmInv, [Next]_vars, NEW c \in Commands, Judged(c)
  PROVE  Judged(c)'
<1>1. CASE cmdSecret' = cmdSecret
  BY <1>1 DEF Judged, Present
<1>2. ASSUME NEW r \in Requests, Handle(r), cmdSecret' # cmdSecret PROVE Judged(c)'
  <2>1. CASE CreateCommand(r)
    <3>1. job[r].cmd \notin stored /\ cmdSecret' = [cmdSecret EXCEPT ![job[r].cmd] = NewCommand(r)]
      BY <1>2, <2>1 DEF CreateCommand, StoreCommand, IInv, OneCreator
    <3> QED
      BY <3>1 DEF Judged, Present, IInv, TypeOK, OneCreator
  <2>2. CASE PutStatus(r)
    <3>1. PICK t \in CommandSecret :
            /\ job[r].cmd \in Commands
            /\ cmdSecret' = [cmdSecret EXCEPT ![job[r].cmd] = t]
            /\ t.result = cmdSecret[job[r].cmd].result /\ t.status \in Terminal
      BY <1>2, <2>2, PutStatusEffect DEF PutStatus
    <3> QED
      BY <3>1, AbsentIsNoSecret DEF Judged, Present, IInv, TypeOK
  <2>3. CASE PutResult(r)
    <3>1. PICK t \in CommandSecret :
            /\ job[r].cmd \in Commands
            /\ cmdSecret' = [cmdSecret EXCEPT ![job[r].cmd] = t]
            /\ t.result # NoResult /\ t.status \in Terminal
      BY <1>2, <2>3, PutResultEffect DEF PutResult
    <3> QED
      BY <3>1, AbsentIsNoSecret DEF Judged, Present, IInv, TypeOK
  <2>4. ~Rollback(r)
    BY DEF Rollback, CalmInv
  <2> QED
    BY <1>2, <2>1, <2>2, <2>3, <2>4 DEF Handle, CreateFiles, GetForStatus, GetForResult,
       ReadCommand, ReadResult, secrets
<1>3. ASSUME NEW r \in Requests, Receive(r) PROVE cmdSecret' = cmdSecret
  BY <1>3 DEF Receive, ReceiveCreate, Reject, ReceiveReport, ReceiveRead, Accept, secrets
<1> QED
  BY <1>1, <1>2, <1>3 DEF Next, Kill, vars

\* A report at the commander stays there until its command is followed up.
LEMMA ReportGoesOn ==
  ASSUME ~Faulty, IInv, IInv', CalmInv, CalmInv', [Next]_vars,
         NEW c \in stored, NEW r \in Requests, Reports(r, c), pc[r] \in ReportPCs
  PROVE  Judged(c)' \/ \E q \in Requests : Reports(q, c)' /\ pc'[q] \in ReportPCs
<1>1. job'[r] = job[r]
  <2>1. ASSUME NEW q \in Requests, Receive(q) PROVE job'[r] = job[r]
    BY <2>1 DEF Receive, ReceiveCreate, Reject, ReceiveReport, ReceiveRead, Accept, IInv, TypeOK,
       ReportPCs
  <2> QED
    BY <2>1, JobsStay DEF Next, vars
<1>2. pc'[r] \in ReportPCs \/ (pc'[r] = "done" /\ copy'[r] # Absent)
  <2>1. CASE pc'[r] = pc[r]
    BY <2>1
  <2>2. CASE GetForStatus(r) \/ GetForResult(r)
    <3>1. Present(c)
      BY DEF CalmInv
    <3> QED
      BY <2>2, <3>1 DEF GetForStatus, GetForResult, CallFails, Reports, Goto, IInv, TypeOK, ReportPCs
  <2>3. CASE PutStatus(r) \/ PutResult(r)
    BY <2>3 DEF PutStatus, PutResult, Goto, Answer, IInv, TypeOK, HandlersFitJobs, ReportPCs
  <2>4. ASSUME NEW q \in Requests, Receive(q) PROVE pc'[r] = pc[r]
    BY <2>4 DEF Receive, ReceiveCreate, Reject, ReceiveReport, ReceiveRead, Accept, Answer,
       IInv, TypeOK, ReportPCs
  <2>5. ASSUME NEW q \in Requests, Handle(q), q # r PROVE pc'[r] = pc[r]
    BY <2>5 DEF Handle, CreateCommand, CreateFiles, Rollback, GetForStatus, PutStatus, GetForResult,
       PutResult, ReadCommand, ReadResult, Goto, Answer, IInv, TypeOK
  <2>6. Handle(r) => GetForStatus(r) \/ GetForResult(r) \/ PutStatus(r) \/ PutResult(r)
    BY DEF Handle, CreateCommand, CreateFiles, Rollback, ReadCommand, ReadResult, ReportPCs
  <2> QED
    BY <2>1, <2>2, <2>3, <2>4, <2>5, <2>6 DEF Next, Kill, vars
<1>3. CASE pc'[r] = "done" /\ copy'[r] # Absent
  <2>1. IsFollowedUp(c)'
    BY <1>1, <1>3 DEF CalmInv, ReportsAreFollowedUp, Reports
  <2> QED
    BY <2>1 DEF IsFollowedUp, WillAttach, Judged, ReportPCs, Reports
<1> QED
  BY <1>1, <1>2, <1>3 DEF Reports

\* What the processes report on was stored.
LEMMA ReportsStoredKept ==
  ASSUME IInv, DialInv, PostedInv, ReportsAreStored, [KubedialNext]_allVars
  PROVE  ReportsAreStored'
<1>1. stored \subseteq stored'
  BY StoreStep, PostedStays
<1>2. CASE \A r \in Requests : job'[r].op = "report" => job'[r] = job[r]
  BY <1>1, <1>2 DEF ReportsAreStored
<1>3. ASSUME NEW d \in Processes, Submit(d) PROVE ReportsAreStored'
  <2>1. CASE job' = job
    BY <1>2, <2>1
  <2>2. ASSUME NEW r \in Requests,
               job' = [job EXCEPT ![r] = [op |-> "report", cmd |-> task[d].cmd,
                                          success |-> task[d].success]]
        PROVE  ReportsAreStored'
    <3>1. task[d].cmd \in stored
      BY <1>3 DEF PostedInv, TaskAsPosted, Submit
    <3> QED
      BY <1>1, <2>2, <3>1 DEF ReportsAreStored, IInv, TypeOK
  <2> QED
    BY <1>3, <2>1, <2>2 DEF Submit, Accept, vars
<1>4. ASSUME NEW r \in Requests, Post(r)
      PROVE  \A q \in Requests : job'[q].op = "report" => job'[q] = job[q]
  BY <1>4 DEF Post, ReceiveCreate, Accept, IInv, TypeOK
<1>5. Commander => job' = job
  BY JobsStay DEF Commander, Kill
<1>6. ASSUME NEW d \in Processes,
             StartRun(d) \/ StartApply(d) \/ Crash(d) \/ (Dial(d) /\ ~Submit(d))
      PROVE  job' = job
  BY <1>6, ProcessesOnlyReport DEF vars
<1>7. UNCHANGED allVars => job' = job
  BY DEF allVars
<1> QED
  BY <1>2, <1>3, <1>4, <1>5, <1>6, <1>7 DEF KubedialNext

\* An execution that is judged or under way stays so.
LEMMA UnderWayStays ==
  ASSUME ~Faulty, IInv, IInv', CalmInv, CalmInv', DialInv, [KubedialNext]_allVars,
         NEW c \in stored, Judged(c) \/ UnderWay(c)
  PROVE  (Judged(c) \/ UnderWay(c))'
<1>1. [Next]_vars /\ c \in Commands
  BY StoreStep DEF IInv, TypeOK
<1>2. CASE Judged(c)
  BY <1>1, <1>2, JudgedStays
<1>3. ASSUME NEW r \in Requests, Reports(r, c), pc[r] \in ReportPCs
      PROVE  (Judged(c) \/ UnderWay(c))'
  BY <1>1, <1>3, ReportGoesOn DEF UnderWay, ReportPCs
<1>4. ASSUME NEW d \in Processes, phase[d] = "submit", task[d].cmd = c
      PROVE  (Judged(c) \/ UnderWay(c))'
  <2>1. CASE phase'[d] = phase[d] /\ task'[d] = task[d]
    BY <1>4, <2>1 DEF UnderWay
  <2>2. CASE Submit(d)
    <3>1. PICK r \in Requests :
            Accept(r, [op |-> "report", cmd |-> task[d].cmd, success |-> task[d].success],
                   "getForStatus")
      BY <2>2 DEF Submit
    <3>2. Reports(r, c)' /\ pc'[r] \in ReportPCs
      BY <1>4, <3>1 DEF Accept, Reports, ReportPCs, IInv, TypeOK
    <3> QED
      BY <3>2 DEF UnderWay, ReportPCs
  <2>3. ASSUME NEW p \in Processes, p # d,
               StartRun(p) \/ StartApply(p) \/ Dial(p) \/ Crash(p)
        PROVE  phase'[d] = phase[d] /\ task'[d] = task[d]
    BY <2>3 DEF StartRun, StartApply, Crash, Dial, ListPending, TakeNext, Download, Downloaded,
       Skipped, Execute, Submit, Return, Finish, MoveTo, Exit, DialInv, DialTypeOK
  <2>4. StartRun(d) \/ StartApply(d) \/ Dial(d) \/ Crash(d) => Submit(d)
    BY <1>4 DEF StartRun, StartApply, Dial, Crash, ListPending, TakeNext, Download, Execute, Return
  <2>5. (\E r \in Requests : Post(r)) \/ Commander \/ UNCHANGED allVars =>
          phase' = phase /\ task' = task
    BY DEF Post, Commander, allVars, dialVars
  <2> QED
    BY <2>1, <2>2, <2>3, <2>4, <2>5 DEF KubedialNext
<1> QED
  BY <1>2, <1>3, <1>4 DEF UnderWay

\* When nothing breaks every step keeps DeliveryInv.
LEMMA DeliveryKept ==
  ASSUME ~Faulty
  PROVE  /\ IInv /\ DialInv /\ PostedInv /\ CalmInv /\ DeliveryInv
         /\ [KubedialNext]_allVars
         => CalmInv' /\ DeliveryInv'
<1> SUFFICES ASSUME IInv, DialInv, PostedInv, CalmInv, DeliveryInv, [KubedialNext]_allVars
             PROVE  CalmInv' /\ DeliveryInv'
  OBVIOUS
<1>1. IInv' /\ CalmInv'
  BY StoreStep, CalmKept, DialInvKept
<1>2. ReportsAreStored'
  BY ReportsStoredKept DEF DeliveryInv
<1>3. ASSUME NEW e \in executions PROVE (Judged(e.cmd) \/ UnderWay(e.cmd))'
  <2>1. e.cmd \in stored
    BY DEF PostedInv
  <2>2. Judged(e.cmd) \/ UnderWay(e.cmd)
    BY DEF DeliveryInv, ExecutedIsReported
  <2> QED
    BY <1>1, <2>1, <2>2, UnderWayStays
<1>4. ASSUME NEW e \in executions' \ executions PROVE UnderWay(e.cmd)'
  <2>1. PICK d \in Processes : Execute(d)
    BY <1>4 DEF KubedialNext, Post, Commander, dialVars, allVars, StartRun, StartApply, Crash, Dial,
       ListPending, TakeNext, Download, Downloaded, Skipped, Submit, Return, Exit
  <2>2. e.cmd = task[d].cmd
    BY <1>4, <2>1 DEF Execute
  <2>3. task[d] \in Task /\ phase' = [phase EXCEPT ![d] = "submit"]
    BY <2>1 DEF Execute, MoveTo, DialInv, DialTypeOK
  <2>4. phase'[d] = "submit" /\ task'[d].cmd = task[d].cmd
    BY <2>1, <2>3 DEF Execute, DialInv, DialTypeOK, Task
  <2> QED
    BY <2>2, <2>4 DEF UnderWay
<1> QED
  BY <1>1, <1>2, <1>3, <1>4 DEF DeliveryInv, ExecutedIsReported

\* When nothing breaks, what a process has executed is judged, or its report
\* is on its way: no overtaken update and no other reporter loses it.  This is
\* what ListedIsJudged rests on after an execution.
THEOREM ExecutionsAreReported == KubedialSpec => []ExecutedIsReported
<1>1. CASE ~Faulty
  <2>1. KubedialInit => CalmInv /\ DeliveryInv
    BY CalmStarts DEF KubedialInit, Init, NoJob, DeliveryInv, ReportsAreStored, ExecutedIsReported
  <2>2. (IInv /\ DialInv) /\ PostedInv /\ (CalmInv /\ DeliveryInv) /\ [KubedialNext]_allVars
          => (CalmInv /\ DeliveryInv)'
    BY <1>1, DeliveryKept
  <2>3. CalmInv /\ DeliveryInv => ExecutedIsReported
    BY DEF DeliveryInv
  <2> QED
    BY <2>1, <2>2, <2>3, DialInvariance, PostedInvariance, PTL DEF KubedialSpec
<1>2. CASE Faulty
  <2>1. ExecutedIsReported
    BY <1>2 DEF ExecutedIsReported
  <2> QED
    BY <2>1, PTL
<1> QED
  BY <1>1, <1>2
=============================================================================
