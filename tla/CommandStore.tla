---------------------------- MODULE CommandStore ----------------------------
(***************************************************************************)
(* The command API of kubecommander: endpoint/command.go calls             *)
(* service/command.go, which calls repository/command.go, which keeps each *)
(* command in two Kubernetes Secrets, cmd-<id> and cmd-<id>-files.         *)
(*                                                                         *)
(* The HTTP server runs every request in a goroutine of its own and there  *)
(* is no lock anywhere, so the handlers interleave at each call they make  *)
(* to the Kubernetes API.  One such call, with the local computation that  *)
(* follows it, is one action here.  A call can go four ways: it takes      *)
(* effect and the handler learns so; the API server refuses it; and, when  *)
(* the environment is Faulty, it is lost, or it takes effect and the       *)
(* handler is told of an error (the request context is cancelled, or the   *)
(* connection breaks, after the API server has acted).                     *)
(*                                                                         *)
(* An update sends back the resourceVersion that was read, so the API      *)
(* server refuses it when the Secret has changed since.                    *)
(***************************************************************************)
EXTENDS Naturals

CONSTANTS Commands,   \* command ids; uuid.New() never returns one twice
          Agents,     \* agent ids a command can be addressed to
          Files,      \* manifest file names
          Requests,   \* HTTP requests to the command API, each served once
          Faulty,     \* Kubernetes calls may break and the process may die
          Absent,     \* there is no such Secret
          NoResult    \* the Secret has no "result" key

VARIABLES cmdSecret,   \* cmd-<id>
          filesSecret, \* cmd-<id>-files: the names of the files it holds
          stored,      \* history: ids whose cmd-<id> was ever created
          job,         \* what each request asks for
          pc,          \* the Kubernetes call each handler makes next
          copy,        \* the Secret each handler has read
          reply        \* the HTTP status each request was answered with

secrets == <<cmdSecret, filesSecret, stored>>
vars == <<cmdSecret, filesSecret, stored, job, pc, copy, reply>>

-----------------------------------------------------------------------------
\* Data

\* Faulty variant, to test the properties: a status the model does not know.
VerdictMisspelt(success) == IF success THEN "success" ELSE "failed"

\* The status service UpdateResult derives from the report.
Verdict(success) == IF success THEN "completed" ELSE "failed"

Terminal == {"completed", "failed"}

\* models.CommandStatus.  No handler ever writes "running".
Status == {"pending", "running"} \cup Terminal

\* A CommandResult: who submitted it stands for its output and timestamps.
Result == [from : Requests, success : BOOLEAN]

CommandSecret ==
  [rv : Nat,                        \* resourceVersion
   agent : Agents,                  \* label kubedial.io/agent-id
   label : Status,                  \* label kubedial.io/status
   status : Status,                 \* Data["metadata"], field status
   filenames : SUBSET Files,        \* Data["metadata"], field filenames
   result : Result \cup {NoResult}] \* Data["result"]

NoJob == [op |-> "none"]

CreateJob == [op : {"create"}, cmd : Commands, agent : Agents,
              files : SUBSET Files]
ReportJob == [op : {"report"}, cmd : Commands, success : BOOLEAN]
ReadJob   == [op : {"read"}, cmd : Commands]

ASSUME AbsentAssumption ==
  Absent \notin CommandSecret /\ \A files \in SUBSET Files : files # Absent
ASSUME NoResultAssumption == NoResult \notin Result
ASSUME FaultyAssumption == Faulty \in BOOLEAN

CreatePCs == {"createCommand", "createFiles", "rollback"}
ReportPCs == {"getForStatus", "putStatus", "getForResult", "putResult"}
ReadPCs   == {"readCommand", "readResult"}
ActivePCs == CreatePCs \cup ReportPCs \cup ReadPCs

\* HTTP status codes; 0 while the request is not answered.
Codes == {0, 200, 201, 400, 404, 500}

TypeOK ==
  /\ cmdSecret \in [Commands -> CommandSecret \cup {Absent}]
  /\ filesSecret \in [Commands -> {Absent} \cup SUBSET Files]
  /\ stored \in SUBSET Commands
  /\ job \in [Requests -> CreateJob \cup ReportJob \cup ReadJob \cup {NoJob}]
  /\ pc \in [Requests -> ActivePCs \cup {"idle", "done"}]
  /\ copy \in [Requests -> CommandSecret \cup {Absent}]
  /\ reply \in [Requests -> Codes]

Init ==
  /\ cmdSecret = [c \in Commands |-> Absent]
  /\ filesSecret = [c \in Commands |-> Absent]
  /\ stored = {}
  /\ job = [r \in Requests |-> NoJob]
  /\ pc = [r \in Requests |-> "idle"]
  /\ copy = [r \in Requests |-> Absent]
  /\ reply = [r \in Requests |-> 0]

-----------------------------------------------------------------------------
\* Steps that several handlers share

Active(r) == pc[r] \in ActivePCs

Present(c) == cmdSecret[c] # Absent

\* A call errs when the API server refuses it, or when it breaks.
CallFails(refused) == refused \/ Faulty

Accept(r, j, next) ==
  /\ pc[r] = "idle"
  /\ job' = [job EXCEPT ![r] = j]
  /\ pc' = [pc EXCEPT ![r] = next]
  /\ UNCHANGED <<cmdSecret, filesSecret, stored, copy, reply>>

Goto(r, next) ==
  /\ pc' = [pc EXCEPT ![r] = next]
  /\ UNCHANGED reply

Answer(r, code) ==
  /\ pc' = [pc EXCEPT ![r] = "done"]
  /\ reply' = [reply EXCEPT ![r] = code]

\* A GET of cmd-<id>: the Secret is there and the call works.
ReadSecret(r) ==
  /\ Present(job[r].cmd)
  /\ copy' = [copy EXCEPT ![r] = cmdSecret[job[r].cmd]]

\* The API server accepts an UPDATE of cmd-<id> when the resourceVersion that
\* was read, and is sent back with the Secret, is still its own.
VersionMatches(r) ==
  /\ Present(job[r].cmd)
  /\ cmdSecret[job[r].cmd].rv = copy[r].rv

\* Faulty variant: the Secret is built anew and sent without resourceVersion,
\* which no API server refuses.
WriteSecretUnversioned(r, s) ==
  /\ Present(job[r].cmd)
  /\ cmdSecret' = [cmdSecret EXCEPT ![job[r].cmd] = [s EXCEPT !.rv = @ + 1]]

\* An UPDATE of cmd-<id> with content s that goes through.
WriteSecret(r, s) ==
  /\ VersionMatches(r)
  /\ cmdSecret' = [cmdSecret EXCEPT ![job[r].cmd] = [s EXCEPT !.rv = @ + 1]]

-----------------------------------------------------------------------------
\* POST /commands

\* An id that no request was given before.
Fresh(c) == \A r \in Requests : job[r].op = "create" => job[r].cmd # c

\* The form is parsed (endpoint Create) and the command gets an id (service
\* Create).  A part that cannot be opened or read is logged and skipped:
\* files are the ones that remain, any non-empty set.
ReceiveCreate(r) ==
  \E c \in Commands, a \in Agents, files \in (SUBSET Files) \ {{}} :
    /\ Fresh(c)
    /\ Accept(r, [op |-> "create", cmd |-> c, agent |-> a, files |-> files],
              "createCommand")

\* No usable file, or a body that does not parse: the request is turned down
\* before the repository is called.
Reject(r) ==
  /\ pc[r] = "idle"
  /\ Answer(r, 400)
  /\ UNCHANGED <<secrets, job, copy>>

\* Faulty variant: the names of the parts that were skipped are kept, too.
NewCommandAllNames(r) ==
  [rv |-> 0, agent |-> job[r].agent, label |-> "pending", status |-> "pending",
   filenames |-> Files, result |-> NoResult]

NewCommand(r) ==
  [rv |-> 0, agent |-> job[r].agent, label |-> "pending", status |-> "pending",
   filenames |-> job[r].files, result |-> NoResult]

StoreCommand(r) ==
  /\ cmdSecret' = [cmdSecret EXCEPT ![job[r].cmd] = NewCommand(r)]
  /\ stored' = stored \cup {job[r].cmd}

\* repository Create, first call.  After an error the handler answers 500 and
\* does not look whether the Secret was created.
CreateCommand(r) ==
  /\ pc[r] = "createCommand"
  /\ \/ StoreCommand(r) /\ Goto(r, "createFiles")
     \/ Faulty /\ StoreCommand(r) /\ Answer(r, 500)
     \/ Faulty /\ UNCHANGED <<cmdSecret, stored>> /\ Answer(r, 500)
  /\ UNCHANGED <<filesSecret, job, copy>>

\* Faulty variant: the error of the second call is not passed on.
CreateFilesErrorIgnored(r) ==
  /\ pc[r] = "createFiles"
  /\ \/ filesSecret' = [filesSecret EXCEPT ![job[r].cmd] = job[r].files]
     \/ Faulty /\ UNCHANGED filesSecret
  /\ Answer(r, 201)
  /\ UNCHANGED <<cmdSecret, stored, job, copy>>

\* repository Create, second call: the command is already visible.
CreateFiles(r) ==
  /\ pc[r] = "createFiles"
  /\ \/ /\ filesSecret' = [filesSecret EXCEPT ![job[r].cmd] = job[r].files]
        /\ Answer(r, 201) \/ (Faulty /\ Goto(r, "rollback"))
     \/ Faulty /\ UNCHANGED filesSecret /\ Goto(r, "rollback")
  /\ UNCHANGED <<cmdSecret, stored, job, copy>>

\* repository Create, the error path: delete cmd-<id> and ignore whether that
\* worked.
Rollback(r) ==
  /\ pc[r] = "rollback"
  /\ \/ cmdSecret' = [cmdSecret EXCEPT ![job[r].cmd] = Absent]
     \/ UNCHANGED cmdSecret
  /\ Answer(r, 500)
  /\ UNCHANGED <<filesSecret, stored, job, copy>>

-----------------------------------------------------------------------------
\* PUT /commands/{id}/result

ReceiveReport(r) ==
  \E c \in Commands, ok \in BOOLEAN :
    Accept(r, [op |-> "report", cmd |-> c, success |-> ok], "getForStatus")

\* repository UpdateStatus, GET.  Not found and any other error answer 500.
GetForStatus(r) ==
  /\ pc[r] = "getForStatus"
  /\ \/ ReadSecret(r) /\ Goto(r, "putStatus")
     \/ CallFails(~Present(job[r].cmd)) /\ UNCHANGED copy /\ Answer(r, 500)
  /\ UNCHANGED <<secrets, job>>

\* Faulty variant: the status is taken from the absence of an error message,
\* the wrong way round.
WithVerdictInverted(s, success) ==
  [s EXCEPT !.status = Verdict(~success), !.label = Verdict(~success)]

\* The Secret with the verdict of the report in metadata and label.
WithVerdict(s, success) ==
  [s EXCEPT !.status = Verdict(success), !.label = Verdict(success)]

\* Faulty variants: service UpdateResult does not look at the error of
\* UpdateStatus; SaveResult reuses the Secret that UpdateStatus read; the
\* label is updated and the metadata is not.
PutStatusErrorIgnored(r) ==
  /\ pc[r] = "putStatus"
  /\ \/ WriteSecret(r, WithVerdict(copy[r], job[r].success))
     \/ CallFails(~VersionMatches(r)) /\ UNCHANGED cmdSecret
  /\ Goto(r, "getForResult")
  /\ UNCHANGED <<filesSecret, stored, job, copy>>

PutStatusNoReread(r) ==
  /\ pc[r] = "putStatus"
  /\ \/ /\ WriteSecret(r, WithVerdict(copy[r], job[r].success))
        /\ Goto(r, "putResult") \/ (Faulty /\ Answer(r, 500))
     \/ CallFails(~VersionMatches(r)) /\ UNCHANGED cmdSecret /\ Answer(r, 500)
  /\ UNCHANGED <<filesSecret, stored, job, copy>>

PutStatusLabelOnly(r) ==
  /\ pc[r] = "putStatus"
  /\ \/ /\ WriteSecret(r, [copy[r] EXCEPT !.label = Verdict(job[r].success)])
        /\ Goto(r, "getForResult") \/ (Faulty /\ Answer(r, 500))
     \/ CallFails(~VersionMatches(r)) /\ UNCHANGED cmdSecret /\ Answer(r, 500)
  /\ UNCHANGED <<filesSecret, stored, job, copy>>

\* repository UpdateStatus, UPDATE.
PutStatus(r) ==
  /\ pc[r] = "putStatus"
  /\ \/ /\ WriteSecret(r, WithVerdict(copy[r], job[r].success))
        /\ Goto(r, "getForResult") \/ (Faulty /\ Answer(r, 500))
     \/ CallFails(~VersionMatches(r)) /\ UNCHANGED cmdSecret /\ Answer(r, 500)
  /\ UNCHANGED <<filesSecret, stored, job, copy>>

\* repository SaveResult, GET.
GetForResult(r) ==
  /\ pc[r] = "getForResult"
  /\ \/ ReadSecret(r) /\ Goto(r, "putResult")
     \/ CallFails(~Present(job[r].cmd)) /\ UNCHANGED copy /\ Answer(r, 500)
  /\ UNCHANGED <<secrets, job>>

WithResult(s, r) ==
  [s EXCEPT !.result = [from |-> r, success |-> job[r].success]]

\* repository SaveResult, UPDATE.
PutResult(r) ==
  /\ pc[r] = "putResult"
  /\ \/ /\ WriteSecret(r, WithResult(copy[r], r))
        /\ Answer(r, 200) \/ (Faulty /\ Answer(r, 500))
     \/ CallFails(~VersionMatches(r)) /\ UNCHANGED cmdSecret /\ Answer(r, 500)
  /\ UNCHANGED <<filesSecret, stored, job, copy>>

-----------------------------------------------------------------------------
\* GET /commands/{id}: the command and its result come from two GETs

ReceiveRead(r) ==
  \E c \in Commands : Accept(r, [op |-> "read", cmd |-> c], "readCommand")

\* service GetWithResult, repository Get.
ReadCommand(r) ==
  /\ pc[r] = "readCommand"
  /\ \/ ReadSecret(r) /\ Goto(r, "readResult")
     \/ ~Present(job[r].cmd) /\ UNCHANGED copy /\ Answer(r, 404)
     \/ Faulty /\ UNCHANGED copy /\ Answer(r, 500)
  /\ UNCHANGED <<secrets, job>>

\* service GetWithResult, repository GetResult.  The response, left in copy,
\* is the command of the first GET with the result of the second.
ReadResult(r) ==
  LET c == job[r].cmd
      result == IF Present(c) THEN cmdSecret[c].result ELSE NoResult
  IN /\ pc[r] = "readResult"
     /\ \/ copy' = [copy EXCEPT ![r].result = result] /\ Answer(r, 200)
        \/ Faulty /\ UNCHANGED copy /\ Answer(r, 500)
     /\ UNCHANGED <<secrets, job>>

-----------------------------------------------------------------------------
\* One-call reads, used by the dialer

\* repository GetPending: the label selector of kubedial.io/status=pending
\* and the agent; what it returns is decoded from the metadata.
PendingFor(a) ==
  {c \in Commands : /\ Present(c)
                    /\ cmdSecret[c].agent = a
                    /\ cmdSecret[c].label = "pending"}

\* repository GetFile: nil, answered 404, when the Secret or the key is missing.
HasFile(c, f) == filesSecret[c] # Absent /\ f \in filesSecret[c]

-----------------------------------------------------------------------------
\* The commander process ends (SIGTERM, eviction, crash): the handlers in
\* flight never answer, what they stored remains.
Kill ==
  /\ Faulty
  /\ \E r \in Requests : Active(r)
  /\ pc' = [r \in Requests |-> IF Active(r) THEN "done" ELSE pc[r]]
  /\ UNCHANGED <<cmdSecret, filesSecret, stored, job, copy, reply>>

Receive(r) ==
  ReceiveCreate(r) \/ Reject(r) \/ ReceiveReport(r) \/ ReceiveRead(r)

Handle(r) ==
  \/ CreateCommand(r) \/ CreateFiles(r) \/ Rollback(r)
  \/ GetForStatus(r) \/ PutStatus(r) \/ GetForResult(r) \/ PutResult(r)
  \/ ReadCommand(r) \/ ReadResult(r)

Next == (\E r \in Requests : Receive(r) \/ Handle(r)) \/ Kill

Spec == Init /\ [][Next]_vars

\* The Go scheduler runs every handler, and every Kubernetes call returns.
Fairness == \A r \in Requests : WF_vars(Handle(r))

FairSpec == Spec /\ Fairness

-----------------------------------------------------------------------------
\* Properties

Reports(r, c) == job[r].op = "report" /\ job[r].cmd = c
Creates(r, c) == job[r].op = "create" /\ job[r].cmd = c

\* A command that holds a result has a verdict, in the metadata and in the
\* label GetPending selects on: between UpdateStatus and SaveResult no other
\* handler can put an older Secret back (service/command.go:91-95).
ResultAfterVerdict ==
  \A c \in Commands :
    Present(c) /\ cmdSecret[c].result # NoResult =>
      cmdSecret[c].status \in Terminal /\ cmdSecret[c].label \in Terminal

\* A report answered 200 stays on record whatever other reports, creations
\* and restarts follow: as long as the command exists it holds a result and
\* is offered to no agent again; the result may be one that a later report put
\* in its place (service/command.go:81-96, repository UpdateStatus, SaveResult
\* and GetPending).
AckedIsRecorded ==
  \A r \in Requests :
    job[r].op = "report" /\ reply[r] = 200 =>
      /\ \A a \in Agents : job[r].cmd \notin PendingFor(a)
      /\ Present(job[r].cmd) => cmdSecret[job[r].cmd].result # NoResult

\* A creation answered 201 left both Secrets, and nothing takes either away
\* or parts them: every name the command lists is a file the agent can
\* download (repository/command.go:56-102, the rollback at 96 included).
CreatedIsComplete ==
  \A r \in Requests :
    job[r].op = "create" /\ reply[r] = 201 =>
      LET c == job[r].cmd
      IN Present(c) /\ cmdSecret[c].filenames = job[r].files
                   /\ \A f \in cmdSecret[c].filenames : HasFile(c, f)

\* When all who report on a command agree, status and result of the command
\* agree too, whichever of their two updates went through (service
\* UpdateResult writes them in two updates).
AllAgree(c) ==
  \A r1, r2 \in Requests :
    Reports(r1, c) /\ Reports(r2, c) => job[r1].success = job[r2].success

VerdictMatchesResult(c) ==
  Present(c) /\ cmdSecret[c].result # NoResult =>
    cmdSecret[c].status = Verdict(cmdSecret[c].result.success)

VerdictAgrees == \A c \in Commands : AllAgree(c) => VerdictMatchesResult(c)

\* GET /commands/{id} is never ahead of the store, though it puts two reads
\* together (service GetWithResult): a verdict or a result that was shown is
\* still there as long as the command is.
ReadNeverAhead ==
  \A r \in Requests :
    job[r].op = "read" /\ reply[r] = 200 /\ Present(job[r].cmd) =>
      LET now == cmdSecret[job[r].cmd]
      IN /\ copy[r].status \in Terminal => now.status \in Terminal
         /\ copy[r].result # NoResult =>
              now.result # NoResult /\ now.status \in Terminal

\* What the commander promises about one command (CommandLifecycle): the
\* steps of all handlers, interleaved and failing, only ever move a command
\* along its life.
StateOf(c) ==
  IF Present(c) THEN cmdSecret[c].status
  ELSE IF c \in stored THEN "withdrawn" ELSE "unborn"

OutcomeOf(c) == IF Present(c) THEN cmdSecret[c].result ELSE NoResult

Lifecycle == INSTANCE CommandLifecycle
  WITH Results <- Result,
       state <- [c \in Commands |-> StateOf(c)],
       outcome <- [c \in Commands |-> OutcomeOf(c)]

ImplementsLifecycle == Lifecycle!LifecycleSpec

\* When no call breaks, reporters that race for one command do not lock each
\* other out: optimistic updates refuse some of them, but once one has read
\* the command the command ends with a verdict and a result.
ReportsLand ==
  \A c \in Commands :
    (\E r \in Requests : Reports(r, c) /\ pc[r] = "putStatus") ~>
      (Present(c) /\ cmdSecret[c].status \in Terminal
                 /\ cmdSecret[c].result # NoResult)

\* A reporter that will attach a result unless it is overtaken: it reads next,
\* or its copy is the Secret as it is.
WillAttach(r, c) ==
  /\ Reports(r, c)
  /\ pc[r] = "getForResult" \/ (pc[r] = "putResult" /\ copy[r] = cmdSecret[c])

IsFollowedUp(c) ==
  /\ Present(c) /\ cmdSecret[c].status \in Terminal
  /\ cmdSecret[c].result # NoResult \/ \E r \in Requests : WillAttach(r, c)

\* When no call breaks, no report is refused in vain: a report that has read
\* the command and is done with leaves it with a verdict, and with a result or
\* with another reporter that will attach one (repository/command.go:196, 253:
\* a lost race is not retried).
ReportsAreFollowedUp ==
  ~Faulty =>
    \A r \in Requests :
      job[r].op = "report" /\ pc[r] = "done" /\ copy[r] # Absent =>
        IsFollowedUp(job[r].cmd)

\* When no call breaks, a report that nobody competes with is kept as it is,
\* though creations and readers meet it (service/command.go:81-96).
SoleReportStands ==
  ~Faulty =>
    \A r \in Requests :
      /\ job[r].op = "report" /\ pc[r] = "done" /\ copy[r] # Absent
      /\ \A q \in Requests : Reports(q, job[r].cmd) => q = r
      => LET c == job[r].cmd
         IN /\ Present(c)
            /\ cmdSecret[c].status = Verdict(job[r].success)
            /\ cmdSecret[c].result = [from |-> r, success |-> job[r].success]

\* models.go:23-26: "completed" says the command was executed successfully,
\* "failed" that its execution failed.  So when all reports are dealt with the
\* status and the kept result should tell the same story.  They need not: with
\* reporters that disagree, one can win UpdateStatus and the other SaveResult.
StatusTellsResult ==
  \A c \in Commands :
    (\A r \in Requests : Reports(r, c) => ~Active(r)) => VerdictMatchesResult(c)

-----------------------------------------------------------------------------
\* The inductive invariant behind the safety properties

\* What a handler works on is the job its request came with, and it has read
\* a Secret before it uses one.
HandlersFitJobs ==
  \A r \in Requests :
    /\ pc[r] = "idle" => job[r] = NoJob
    /\ pc[r] \in CreatePCs => job[r] \in CreateJob
    /\ pc[r] \in ReportPCs => job[r] \in ReportJob
    /\ pc[r] \in ReadPCs => job[r] \in ReadJob
    /\ pc[r] \in {"putStatus", "putResult", "readResult"} => copy[r] # Absent
    /\ reply[r] # 0 => pc[r] = "done"

\* An id belongs to one creation, and its Secret is created once.
OneCreator ==
  /\ \A r1, r2 \in Requests : \A c \in Commands :
       Creates(r1, c) /\ Creates(r2, c) => r1 = r2
  /\ \A c \in stored : \E r \in Requests : Creates(r, c)
  /\ \A c \in Commands : Present(c) => c \in stored
  /\ \A r \in Requests : pc[r] = "createCommand" => job[r].cmd \notin stored

\* Between its two calls a creation finds its command as it left it, as far
\* as the file names go.
CreationHolds ==
  \A r \in Requests :
    pc[r] \in {"createFiles", "rollback"} =>
      /\ Present(job[r].cmd)
      /\ cmdSecret[job[r].cmd].filenames = job[r].files

\* A Secret that a handler is about to send back is not newer than the one in
\* the store, and has the same resourceVersion only if it is the same.
CopyNotAhead ==
  \A r \in Requests :
    pc[r] \in {"putStatus", "putResult"} =>
      /\ job[r].cmd \in stored
      /\ Present(job[r].cmd) =>
           /\ copy[r].rv <= cmdSecret[job[r].cmd].rv
           /\ copy[r].rv = cmdSecret[job[r].cmd].rv => copy[r] = cmdSecret[job[r].cmd]

\* Once its UpdateStatus went through, a reporter finds a verdict.
VerdictBeforeResult ==
  \A r \in Requests :
    pc[r] \in {"getForResult", "putResult"} =>
      /\ job[r].cmd \in stored
      /\ Present(job[r].cmd) => cmdSecret[job[r].cmd].status \in Terminal

\* Label and metadata tell the same status; a verdict and a result were each
\* reported by somebody.
Authored ==
  \A c \in Commands :
    Present(c) =>
      LET s == cmdSecret[c]
      IN /\ s.label = s.status
         /\ s.status # "running"
         /\ s.status \in Terminal =>
              \E r \in Requests : Reports(r, c) /\ s.status = Verdict(job[r].success)
         /\ s.result # NoResult =>
              /\ Reports(s.result.from, c)
              /\ s.result.success = job[s.result.from].success

\* What a reader holds is not ahead of the store.
ReadsArePast ==
  \A r \in Requests :
    pc[r] = "readResult" \/ (job[r].op = "read" /\ reply[r] = 200) =>
      /\ copy[r] # Absent
      /\ job[r].cmd \in stored
      /\ Present(job[r].cmd) =>
           LET now == cmdSecret[job[r].cmd]
           IN /\ copy[r].status \in Terminal => now.status \in Terminal
              /\ copy[r].result # NoResult => now.result # NoResult

\* A report answered 200 is about a command that was stored, and that holds a
\* result if it is still there.
AcksHold ==
  \A r \in Requests :
    job[r].op = "report" /\ reply[r] = 200 =>
      /\ job[r].cmd \in stored
      /\ Present(job[r].cmd) => cmdSecret[job[r].cmd].result # NoResult

\* TypeOK and the parts above, with the properties that are inductive with
\* them, hold initially and are kept by every step of every handler.
IInv ==
  /\ TypeOK
  /\ HandlersFitJobs
  /\ OneCreator
  /\ CreationHolds
  /\ CopyNotAhead
  /\ VerdictBeforeResult
  /\ Authored
  /\ ResultAfterVerdict
  /\ AcksHold
  /\ CreatedIsComplete
  /\ ReadsArePast

\* What is known besides when nothing breaks: a command that was stored stays,
\* a report starts from nothing, and whatever has updated a command since it
\* was created is followed up.
CalmInv ==
  /\ \A c \in stored : Present(c)
  /\ \A r \in Requests : pc[r] # "rollback"
  /\ \A r \in Requests : pc[r] \in {"idle", "getForStatus"} => copy[r] = Absent
  /\ \A c \in Commands :
       Present(c) /\ (cmdSecret[c].rv > 0 \/ cmdSecret[c].status \in Terminal) =>
         IsFollowedUp(c)
  /\ ReportsAreFollowedUp
=============================================================================
