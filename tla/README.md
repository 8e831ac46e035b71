# A verification of kubedial

kubedial carries Kubernetes manifests from a central server, **kubecommander**,
to agents in other clusters, **kubedialer**. An administrator posts a command
(manifest files for one agent); a CronJob in the agent's cluster starts
`kubedialer run` every minute, which registers, fetches the pending commands of
its agent, executes them and reports; `kubedialer apply --command-id` does the
same for one command by hand. All state of the commander is in Kubernetes
Secrets. This directory holds TLA+ models of that protocol, the TLC
configurations that check them and the TLAPS proofs about them.

Paths below are relative to the repository.

## 1. Inventory

| Component | State | Operations | Hard behaviour | What makes it correct |
|---|---|---|---|---|
| Command store: `kubecommander/internal/repository/command.go`, `service/command.go` | Secret `cmd-<id>` (labels agent and status, metadata, result) and Secret `cmd-<id>-files` | Create (two calls and a rollback), UpdateResult (UpdateStatus and SaveResult, each GET then UPDATE), GetWithResult (two GETs), GetPending, GetFile, List, ListFiles | handlers interleave at every Kubernetes call, no lock, no retry; a call can fail after it took effect; the process can die between two calls | acknowledged creations and reports are not lost; a result implies a verdict; a verdict never becomes pending again; readers see nothing that is not there |
| Command endpoints: `endpoint/command.go` | none | parse, call the service, answer a status code | uploads that cannot be read are skipped | an answer says what happened |
| Agent registry: `repository/agent.go`, `service/agent.go`, `endpoint/agent.go` | Secret `agent-<id>` (metadata, token) | Register (create, or update when it exists), Get, List, UpdateLastSeen | create / already exists / get / update interleave with each other and with an operator who deletes the Secret; UpdateLastSeen reads twice | an agent keeps the token that was stored with it; a token whose Secret was deleted does not come back |
| Authentication: `repository/auth.go`, `service/auth.go`, `endpoint/middleware.go` | none (reads agent Secrets and Secret `users`) | ValidateToken | two calls, not atomic with registration | whom it takes for an agent bears that agent's token |
| Commander process: `cmd/main.go`, `server/server.go` | listening, in its grace, ended | one goroutine per request; shutdown on SIGTERM | `Start` returns when the shutdown begins, so `main` ends before the handlers in flight | what was answered is on record; what was accepted is answered |
| Dialer processes: `kubedialer/cmd/run.go`, `apply.go` | none beyond the process: list of commands, files, result | register, list, download, execute, report | lost and late reports, crashes, run beside apply, commands that are not complete yet | no verdict without an execution, no report for another command, processes end |
| Commander client: `kubedialer/internal/client/commander.go` | none | one HTTP call each, 30 s timeout, no retry | the caller has given up while the handler still works | |
| Executor and applyer: `kubedialer/internal/executor/` | the agent's cluster | Execute, Apply, Delete | objects one by one, stops at the first error; files in map order; get then update with other writers in between; a second execution beside the first | an execution that reports success has put everything in place; what it did before an error is a known part; no update is blind; a dry run changes nothing |
| Models: `common/models/models.go` | | Command, CommandResult, Agent, statuses | | the statuses mean what their comments say |
| Configuration, logging, Kubernetes clients, CLI root, RBAC and deployment | | | | not modelled |

Interactions: dialer and administrators reach the commander over HTTP only; the
commander reaches its Secrets over the Kubernetes API only; nothing is shared
in memory between handlers. The API server compares `resourceVersion` on
UPDATE, and the code sends back the one it read. That comparison is the only
concurrency control in the system.

## 2. Modules

| Module | Models | |
|---|---|---|
| `CommandLifecycle` | what the commander promises about one command: submitted once, judged, result attached after the verdict, perhaps withdrawn for ever | abstract specification |
| `CommandStore` | command endpoints, service and repository, one action per Kubernetes call | the core |
| `CommandStoreProofs` | theorems about `CommandStore` | TLAPS |
| `Kubedial` | extends `CommandStore` with the dialer processes | composition |
| `KubedialProofs` | theorems about `Kubedial` | TLAPS |
| `CommandDispatch` | what the whole system promises about one command: the life of `CommandLifecycle`, in which a verdict and a result tell of an execution that happened before | abstract specification |
| `Delivery` | no behaviour of its own: what becomes of a command in `Kubedial` between the request that posted it and its execution, and of the execution on its way back; the mapping to `CommandDispatch` | properties |
| `DeliveryProofs` | theorems about `Delivery` | TLAPS |
| `ServerShutdown` | extends `CommandStore` with the end of the commander process | composition |
| `ServerShutdownProofs` | theorems about `ServerShutdown` | TLAPS |
| `AgentDirectory` | what the commander promises about tokens: one per agent, for life, never given twice | abstract specification |
| `AgentRegistry` | authentication, and the agent endpoints, service and repository | |
| `AgentRegistryProofs` | theorems about `AgentRegistry` | TLAPS |
| `Applyer` | the executor and the applyer, with the objects of the agent's cluster | |
| `ApplyerProofs` | theorems about `Applyer` | TLAPS |
| `ConvergenceProofs` | theorems about repeated and overlapping executions in `Applyer` | TLAPS |
| `MCCommandStore`, `MCKubedial`, `MCAgentRegistry`, `MCApplyer` | symmetry sets for TLC; `MCApplyer` also the manifests and the commands | |

Definitions that are introduced as "Faulty variant" are plausible mistakes; each
property is checked to fail when one of them takes the place of the definition
after it. No specification uses them.

### CommandStore and the code

`cmdSecret[c]` is the Secret `cmd-<c>`, `Absent` when there is none: `rv` its
resourceVersion, `agent` and `label` its labels, `status` and `filenames` the
two fields of its metadata that anything depends on, `result` its result key.
`filesSecret[c]` is the set of keys of `cmd-<c>-files`. `pc[r]` is the call that
the handler of request `r` makes next, `job[r]` its arguments, `copy[r]` the
Secret it has read, `reply[r]` the status code of its answer. `stored` is a
history variable: the ids that were ever visible.

| Code | Actions |
|---|---|
| endpoint Create, service Create, repository Create | `ReceiveCreate` or `Reject`, then `CreateCommand`, `CreateFiles`, on error `Rollback` |
| endpoint and service UpdateResult | `ReceiveReport`, `GetForStatus`, `PutStatus`, `GetForResult`, `PutResult` |
| endpoint Get, service GetWithResult | `ReceiveRead`, `ReadCommand`, `ReadResult` |
| repository GetPending, GetFile | operators `PendingFor`, `HasFile` (one call each) |
| `main` ends | `Kill`; requests that come later find the Secrets as they are, which is the restart |

A handler is sequential between its Kubernetes calls, touches no shared memory
there, and its calls are the only steps others see; so a call and the local code
after it are one action. Each call has up to three outcomes besides success:
refused by the API server (missing Secret, wrong version), lost, or done but
reported as failed. The last two need `Faulty`. An API server that turns a
creation down (a file name it does not accept as a key, a Secret that is too
large) looks to the handler like a lost call and is covered by it.

What is abstracted: file contents (a name stands for them), timestamps, output
and error texts (a result is known by its author), the fields of a command that
only the applyer reads. Answers that are never received are covered on the
dialer's side, where waiting can end at any time. UUIDs do not repeat (`Fresh`).

### Kubedial and the code

A process `d` of `Runs` or `Applies` is one run of the program, from `phase`
"off" to "exited". `StartRun` is the CronJob's start (no other run at work,
`cronjob.yaml:10`) with RegisterAgent, `ListPending` is GetPendingCommands,
`TakeNext` the loop and the creation of the executor, `Download` one
GetCommandFile, `Execute` the executor, `Submit` and `Return` the beginning and
the end of SubmitResult, `StartApply` the GetCommand of apply, `Crash` the end of
the process at any point. Between `Submit` and `Return` the report is a request
like others of `CommandStore`, and `Return` does not end it: the handler of a
report that was given up goes on.

Calls that only read the commander are one step. This is exact for GetPending
and GetFile, each of which is one Kubernetes call; for GetCommand it is exact
because a process uses only what comes from the first of its two reads.
`executions` is a history variable. Commands are addressed to ids that the
commander gave out (`Post`), and only processes report; an administrator who
reports by hand would be a process that executed nothing.

`Delivery` follows a command through this. `PostedAs` and `PostedFor` are the
files and the agent of the request that created it; `ExecutedAsPosted` compares
them with each execution. `ImplementsDispatch` takes the state and the outcome
of a command from its Secret, as the mapping to `CommandLifecycle` does, and
the executions from `executions`. `Skips` is a download that leaves a file out,
`UnderWay` a report that a process is about to send or a handler works on.

### ServerShutdown and the code

`Signalled` is the goroutine of `main.go:57-69` up to the closing of the listener
in `Shutdown`, `ShutdownReturns` its end (no handler is left, or the 30 seconds
are over, which needs `Faulty`), and `MainReturns` the return of `Start` and
`main` (`main.go:73-78`), which ends the process with the handlers in flight.
`main` waits for the listener only, not for the goroutine. The handlers are those
of `CommandStore`; they run while the process does.

### AgentRegistry and the code

`agentSecret[i]` is the Secret `agent-<i>` with its version and its token.
`revision` is the resourceVersion given out last: unlike a command's, an agent's
Secret can be deleted and created again, and versions do not repeat. `job`,
`pc`, `copy` and `reply` are as in `CommandStore`, `identity[r]` is whom
ValidateToken took the sender for. `issued` and `struck` are history variables:
the tokens that were ever stored, and those whose Secret was deleted. A token is
32 random bytes of one registration, and the request stands for it.

| Code | Actions |
|---|---|
| AuthMiddleware, ValidateToken | `Arrive` (no bearer token), `ListTokens`, `GetUsers` |
| endpoint Register, service Register, repository Create | `ReceiveRegister` or `ReceiveUnreadable`, `BeginRegister`, `CreateAgent` |
| repository update | `GetAgent`, `PutAgent` |
| repository UpdateLastSeen | `ReceiveBeat`, `BeatGet`, then `GetAgent`, `PutAgent` |
| endpoint Get and List, and below | `ReceiveGet`, `ReceiveList`, `FindAgent`, `ListAgents` |
| `kubectl delete secret` by an operator, the end of the process | `DeleteSecret`, `Kill` |

No route leads to UpdateLastSeen yet; `Beats` are the requests that call it, so
the program as it is has `Beats = {}`. The properties hold with it as well. The
names, versions and times in the metadata are left out: no handler decides on
them. A registration that names an id may name any that somebody can know
(`Nameable`): an id that was made up by `uuid.New` is not known before it is
stored.

### Applyer and the code

`cluster[o]` is the object `o` (namespace and name) at the API server of the
agent's cluster: whether it is there, whether it is being deleted, its value,
whether the value belongs to server-side apply by "kubedialer", and the revision
of its last change. For each process `command[d]` is the command with its
options, `left[d]` the files that are not concatenated yet, `manifest[d]` the
decoded objects, `cursor[d]` the object at hand, `copy[d]` the object that
client-side apply has read. `settled[d]` is a history variable: which objects the
execution has dealt with, and the revision after each.

| Code | Actions |
|---|---|
| Execute, the loop over the map of files | `Start`, `Concatenate` (in any order) |
| the switch on the operation, decodeManifests | `Decode` |
| the loops of Apply and Delete | `First`, `Advance`, `Stop`, `Finish` |
| RESTMapping, the namespace of an object | `Unmappable`, `Key` |
| applyObject, server-side | `Patch` |
| applyObject, client-side | `GetObject`, then `CreateObject` or `UpdateObject` |
| deleteObject | `DeleteObject` |
| other clients of the cluster, the garbage collector (external) | `OthersWrite`, `OthersDelete`, `Collect` |

A value stands for what an object holds besides its name. The API server (external)
compares the version of an update, refuses a server-side apply of a value that
others own unless it is forced, writes nothing on a dry run, and leaves the
version alone when a write changes nothing. An update in the middle of a foreground
deletion that drops the finalizer has the effect of `Collect`.

## 3. Runs

| Run | Instance | Question |
|---|---|---|
| `store` | 2 commands, 4 requests, all faults | are acknowledged creations and reports kept, do verdict, label, result and reads agree; do the handlers implement `CommandLifecycle`; is `IInv` an invariant |
| `kubedial` | 1 command with 1 or 2 files, two runs one after the other and an apply, all faults | are verdicts earned, is apply all or nothing, is an acknowledged command left alone; are executions faithful to what was posted; does the system implement `CommandDispatch`; are `DialInv` and `PostedInv` invariants |
| `kubedial_hung` | 1 command, a run and an apply, no fairness for the commander | do processes end |
| `kubedial_progress` | 1 command with 1 or 2 files, a run and an apply, no faults | does what was listed end with a verdict and a result, does one of the reports always land, is no report refused in vain, no execution forgotten and no file skipped that could have been there; is `CalmInv` an invariant |
| `registry` | 2 agents, 3 requests and a heartbeat, operators, all faults | do agents keep their tokens and struck tokens stay out; do the handlers implement `AgentDirectory`; is `RegistryInv` an invariant |
| `registry_progress` | 1 agent, 3 registrations and a heartbeat, no faults | do updates of one agent lock each other out, is each refused one overtaken by another; is `RegistryCalmInv` an invariant |
| `applyer` | 2 executions, 4 files of 3 names, every mode, other writers, all faults | is success complete, is a part a part in order, is every update informed, does a malformed document or a dry apply leave the cluster alone, does an execution touch only what its command names, who undoes what it has settled; is `ApplyerInv` an invariant |
| `store_disagree` | 1 creation and 2 reports, no faults | violated: status and result can contradict each other |
| `kubedial_partial` | 1 command, one run, no faults | violated: a completed command of which nothing was executed |
| `kubedial_later` | 1 command, two runs one after the other, no faults | violated: a command posted for the id of a run that has listed already is taken up by no later run |
| `shutdown_grace` | 2 requests and a signal, no faults | violated: an accepted request is cut off though nothing hangs |
| `applyer_dry` | 1 delete with DryRun, no faults | violated: it deletes |

**Bounds.** A request is served once, a process runs once; `Requests`, `Runs`,
`Applies` and `Dialers` bound the length of a behaviour. Versions are not bounded,
since each request and each object of a manifest adds only a few.

Every hazard of the store involves at most one creation and two further handlers
on one command: four requests add a third reporter or a reader, two commands
show that ids do not mix. In `kubedial`, two processes with a request each race
for one command, a second run follows one that ended or crashed, and two files
allow for a download that is partly done. That a run with several commands gives
each its own verdict is a theorem (`VerdictsAreEarned`, for any `Commands`).

In `registry`, two requests can meet at one agent while the third registers another
or brings it back after its Secret was deleted; a token is stored by one request,
held by a second, and used by a third. In `applyer`, `Writes` bounds the
revision up to which others write: 1, so that one of them is there first or
comes in between, and may be deleted again; later on the second execution, which may bring other values in
either mode, is the other writer, and `Collect` is not bounded. `Manifests`
mentions one object twice with different values, has an object without a
namespace, one whose kind is not known and one document that cannot be decoded;
`Orders` has a server-side apply and a delete of two files, client-side applies of
one file and of a cluster-wide object before a kind that is not known, an apply and
a delete with Force, dry applies, commands without a namespace or without a file, and an
operation that does not exist.

`TypeOK` and `ApplyerTypeOK` are checked as invariants of their own; in `kubedial`
and `registry` the type invariants `DialTypeOK` and `RegistryTypeOK` are checked as
the first conjuncts of `DialInv` and `RegistryInv`.

The behaviours end when all is served, so deadlock is not checked. Symmetry is
used where no liveness is checked: no action and no property tells requests,
commands, files, runs or executions apart.

**Fairness.** `FairSpec` and `RegistryFairSpec` are weak fairness of each
handler: Go runs every goroutine, and a Kubernetes call returns or fails.
Arrivals have none. `DialerFairness` is weak fairness of each started process;
that waiting for an answer is among its steps (`Return` is enabled without an
answer when `Faulty`) is what the client's timeout gives. `HungCommanderSpec` has
no fairness for the commander, `KubedialFairSpec` adds it. `CronSpec` adds that
the CronJob starts runs. Crashing has none.

`ReportsLand`, `ListedIsJudged` and `UpdatesLand` assume that nothing breaks. With
faults they do not hold and the code does not claim them: a report or a
registration that is lost is not sent again.

## 4. Proofs

### CommandStoreProofs

For any sets of commands, agents, files and requests and for either value of
`Faulty`, `Spec` implies always `TypeOK`, `ResultAfterVerdict`, `AckedIsRecorded`,
`CreatedIsComplete`, `VerdictAgrees` and `ReadNeverAhead`, and implements
`CommandLifecycle`. The assumptions are that the marks `Absent` and `NoResult`
differ from data and that `Faulty` is Boolean.

All rest on one inductive invariant, `IInv`. The properties are not inductive
because they speak of the Secrets and of requests that were answered, while what
can spoil them is under way in a handler. `IInv` adds what is known of handlers:

- `HandlersFitJobs`: a handler works on the kind of job it was given and has read
  a Secret before it sends one;
- `OneCreator`: an id has one creation and its Secret is created once, so a
  Secret that was deleted does not come back with a version that matches an
  old copy;
- `CopyNotAhead`: a copy about to be sent is no newer than the Secret, and equal
  to it when the versions are equal. This is the optimistic lock as an
  invariant: an accepted UPDATE changes the current Secret and nothing else;
- `CreationHolds`: only the rollback of its own creation takes a command away, so
  an answered creation cannot lose it;
- `VerdictBeforeResult`: who is past UpdateStatus finds a verdict, whoever else
  has written in between;
- `Authored`: label and metadata agree, and verdict and result come from reports;
  with that, reporters that agree cannot produce a contradiction;
- `ReadsArePast` and `AcksHold`: what was shown or acknowledged is there while the
  command is.

Each step of each handler is a lemma; an update goes through one lemma for the
conjuncts that all updates keep. The refinement maps `StoreCommand` to `Submit`,
an accepted `PutStatus` to `Conclude`, an accepted `PutResult` to `Attach`, the
effective `Rollback` to `Withdraw`, and everything else to stuttering.

When nothing breaks, more is known, and `NoneIsRefusedInVain` says what
`ReportsLand` rests on: a report that is done leaves its command with a verdict, and
with a result or with a reporter that nobody has overtaken yet. `CalmInv`
(`CalmInvariance`) is inductive together with `IInv` when `~Faulty`: no command goes away, a report starts
from nothing, and whatever has changed a command since its creation is followed
up. An UPDATE is refused only when the version has moved on, and then whoever
moved it either has attached a result or will read the Secret anew. It follows
(`SoleReportsStand`) that a report that nobody competes with is kept as it is.

### KubedialProofs

For any sets of runs and applies as well, the composition implements
`CommandStore`'s `Spec` (`StoreInTheWhole`), so all of the above holds beside the
dialer processes, and `VerdictWasEarned`, `ApplyIsWhole` and `AckedIsNotListed`
hold always. It assumes that runs are not applies, and that the marks differ from
data. Its invariant is `DialInv`, which is inductive together with `IInv`:

- `StagesReached`: who downloads or reports has a command, who lists an id;
- `SubmitsEarned` and `ReportsEarned`: the outcome travels with the report, from
  the process to the request and so, by `Authored`, to the Secret. The request
  is needed because a report outlives its sender's wait;
- `NothingSkipped`: an apply that still downloads has lost no file.

`AckedIsNotListed` is an action property: it follows from `AckedIsRecorded` in
the state in which a run asks, and from the fact that `ListPending` is the only
step that adds to a list.

### DeliveryProofs

For any sets of processes, commands, files and requests:

- `ExecutionsAreFaithful`: every execution is of files that were posted under this
  id, and that of a run is of a command addressed to the id it registered under.
  The invariant `PostedInv` says the same of every place the command passes: the
  Secret (`SecretsAsPosted`), the list of a run, the task of a process. That an
  id has one creation (`OneCreator`) makes "what was posted" one thing; that
  updates send back what they have read keeps it in the Secret;
- `DispatchIsImplemented`: the system implements `CommandDispatch`. `Execute` maps to
  `Perform`, which needs `PostedInv` to know that the command was submitted; an
  accepted `PutStatus` or `PutResult` maps to `Conclude` or `Attach`, which need
  `ReportsEarned` for the execution they tell of;
- `OnlyNewIsSkipped`: when nothing breaks, a run skips a file only while the
  creation of its command has not been answered. So `kubedial_partial` shows all
  there is: an administrator who has his 201 before the run lists is safe;
- `ExecutionsAreReported`: when nothing breaks, every execution is judged on record,
  or its report is under way. `DeliveryInv`, which adds that what is reported on was
  stored, is inductive with `CalmInv`, whose followers are the reports this counts on. With `ReportsLand` it is the safety
  core of `ListedIsJudged`.

### ServerShutdownProofs

With `Faulty`, every step of the server is a step of `CommandStore` or a stutter
(`ShutdownIsAKill`): the return of `main` is `Kill`, or nothing when no handler is
in flight. So a graceful shutdown is no better than a crash, which
`shutdown_grace` shows, and no worse: `AcksOutliveShutdown` is `AckedIsRecorded`
for the server. `WaitingAnswersAll`, which needs no assumption, is what the shutdown
does achieve: if `Shutdown` returns while `main` is still there, and not by its
timeout, every accepted request was answered. Its invariant, `ShutdownInv`, says that
nobody gets in after the signal and that whoever is in is at work or answered. So
a `main` that waited for `Shutdown` would have the property `shutdown_grace` shows
to be violated.

### AgentRegistryProofs

For any sets of ids, requests, heartbeats and users, with or without operators and
faults, `RegistrySpec` implies always `RegistryTypeOK`, `FreshTokenWorks`,
`AdmittedAsItself`, `StruckStaysOut` and `RegisteredStays`, and implements
`AgentDirectory`. It assumes that tokens of agents and of users differ, that
heartbeats are requests, and that the marks differ from data. The invariant is
`RegistryInv`:

- `SecretsAreIssued` and `IssuedIsHeld` tie Secrets and tokens both ways: a stored
  token is of a registration of this very agent, and a token that was ever
  stored is still stored unless its Secret was deleted. The properties are about
  the second and are not inductive without the first;
- `CopiesAreVersions`: a copy is the Secret as it is, if the versions agree. As
  versions do not repeat, a Secret that was deleted and created again in between
  does not match, and an accepted UPDATE leaves the token alone. Hence a struck
  token is not brought back by a handler that has read it before;
- `MadeUpIsAlone`: nobody else registers under an id that was just made up, so
  such a registration finds no Secret and the token it answers is the stored one;
- `SuccessIsIssued`: what an answer 201 rests on: the token it stored, or the one
  of the Secret it has read and updated.

The refinement maps the effective `CreateAgent` to `Enrol`, `DeleteSecret` to
`Strike`, everything else to stuttering.

`RefusalsAreOvertaken` is for the case that nothing breaks and nobody deletes
Secrets: an update is refused only if another update of the same agent, that had
read the same Secret, went through. `RegistryCalmInv` (`RegistryCalmInvariance`),
inductive together with `RegistryInv`, says it of handlers under way: a copy is current or was overtaken.

### ApplyerProofs

For any manifests, commands, executions and objects, any `Writes`, with and without
faults, `ApplyerSpec` implies always `ApplyerTypeOK`, `SuccessIsInPlace`,
`PartsAreInOrder`, `MalformedTouchesNothing`, `UpdatesAreInformed`,
`DryApplyIsDry` and `TouchesOnlyItsOwn`. It assumes the types of `Content` and `Options`, that there is a
value, and that the marks differ from data. The invariant is `ApplyerInv`:

- `LoopHasOperation` and `LoopIsDecoded`: an execution in the loop has an operation
  and an object, the whole manifest was decoded before, and it consists of the
  documents of the command's files and no others. The manifest is filled before
  the loop, in any order of the files, so that an execution touches only its own
  objects has to be known of the manifest and not only of the step;
- `ReadIsVersion`: the object that is going to be overwritten is the one that was
  read, if its version is; with it an accepted update is informed;
- `PassedIsSettled`: the loop has settled what it has passed, so at its end
  everything is settled;
- `SettledIsInPlace`: what was settled has stayed as demanded or was changed at a
  later revision, by whomever; each action either leaves an object alone or
  moves its revision past all settlements, and re-establishes the settlement it
  adds;
- `InOrder`: the settled objects are an initial part of the loop's order.

The action properties rest on `EffectOfStep`: a step of an execution leaves the
cluster alone, or it is `Settles`: the object at hand is changed as its document
asks, everything else stays, and the settlement is recorded.

### ConvergenceProofs

A lost report, or an apply beside a run, makes the same objects be applied again,
perhaps at the same time. For any manifests, options and executions, with all faults:

- `SuccessesLast`: this undoes nothing. An apply that has reported success has all
  its objects in the cluster, with its values, for good, without the exception for
  later changes that `SuccessIsInPlace` needs. The hypotheses are those under which
  it can hold: no other client writes (`Writes = 0`), and the commands apply and
  ask for one value per object (`Agreeing`), as the same command does twice. The
  invariant `AgreementInv` says that the cluster holds agreed values only and
  keeps what was settled. No run has this instance; it was checked with TLC on two
  executions of several kinds of apply with all faults before it was proved;
- `UncontestedLasts`: without these hypotheses, for applies and deletes that
  disagree, cross each other, fail and die, and with others who write up to
  `Writes`, `UncontestedStays` tells who can undo what an execution has settled after
  that: an applied object has another value, and a deleted one comes back, only by
  an execution that applies something else to the same object (`Contested`). That
  an applied object is gone is no contradiction: a delete may have followed, or the
  garbage collector removes what another client had marked before, which a write
  does not take back. It is inductive relative to `ApplyerInv`: a contest,
  once begun, lasts, since a command is never changed (`ContestedLasts`); a step
  that settles the object again gives it what was demanded or is itself the contest
  (`SettledAgain`), which needs `LoopIsDecoded` to find the document in the files of
  its command.

### Only model-checked

The liveness properties `ReportsLand`, `ProcessesEnd`, `ListedIsJudged` and
`UpdatesLand` need fairness and `ENABLED`, which are out of the installed provers'
reach. What is proved is the safety part of three of them (`ReportsAreFollowedUp`,
`ExecutedIsReported`, `RefusedWasOvertaken`): nothing that was started is dropped;
that it gets on is left to TLC. The violations are TLC's as well.

## 5. Findings

1. `store_disagree`: the two updates of `service/command.go:91-95` are not
   atomic. With an apply and a run that disagree, a command can end "failed" with
   a result that says success. When all reporters agree this cannot happen
   (`VerdictAgrees`, proved).
2. `kubedial_partial`: a command is visible before its files. A run that
   lists it in between skips every file (`run.go:144-149`), executes nothing and
   reports success; the command is completed and never executed. Apply ends
   instead (`ApplyIsWhole`). The window closes with the answer to the creation
   (`SkipsOnlyWhatIsNew`, proved).
3. `kubedial_later`: a run registers without an id (`run.go:86-93`) and is given a
   new one each time, so a command for the id of an earlier run stays pending for
   ever. `docs/architecture.md:204` takes it that an agent comes back under its id.
4. `shutdown_grace`: `main` does not wait for `Shutdown` (`main.go:64-78`), so
   accepted requests are cut off on every SIGTERM. With a `main` that waits they are
   not (`WaitedIsAnswered`, proved).
5. `applyer_dry`: DryRun is not passed on to Delete (`executor.go:57-62`), so a dry
   delete deletes. `models.go:55` says "no actual changes".

Met while modelling, without a run of their own:

- no code stores "running", which `models.go:21` and `docs/architecture.md:209`
  describe: a command under execution is pending, and is offered to others;
- a registration under an id that exists keeps the stored token and answers a new
  one that is stored nowhere (`service/agent.go:40`), which no request can use;
  `FreshTokenWorks` is therefore about registrations without an id, and
  `RegisteredStays` says what holds of the others;
- UpdateLastSeen writes the metadata of its first read over what a registration
  has stored since (`repository/agent.go:128-142`);
- `LastSeen` is taken before the calls of a registration (`service/agent.go:37`),
  so it can go back when two of them meet;
- a delete without Force returns when the object is marked, not when it is gone
  (`applyer.go:255-270`), where `docs/architecture.md:246` has it wait; `Demanded`
  asks for no more, so no property covers that wait;
- the files of a command are concatenated in the order of a Go map
  (`executor.go:38`), so a delete does not reverse the order in which the apply of
  the same files went, when there are several, as `docs/architecture.md:243` says;
- the README's example has the metadata key "operation" (`README.md:48`), the code
  reads "operationType".

## 6. Not modelled

- Configuration, logging, the set-up of Kubernetes clients, TLS material, RBAC,
  the command line and the Makefile hold no state that the protocol depends on
  and take no part in it.
- The metadata of an agent and the identity that AuthMiddleware hands on: nothing
  in the code decides on them.
- How kinds come to be known: the RESTMapper is built once, with the applyer
  (`applyer.go:65-70`), so a kind that a CustomResourceDefinition of the same
  manifest defines is not known in that execution. Here a kind is known or not
  (`Unmapped`).
- Prune, which the code carries and does not use.

The composition of `Kubedial` with `AgentRegistry` and `Applyer` is not checked as
one module. In `Kubedial` an id is given by `StartRun` and an execution succeeds or
fails by choice; `Applyer` and `AgentRegistry` say what is behind either choice.
They share no state (the Secrets of agents and commands are different ones, and the
agent's cluster is another), so nothing but the size of the model would come of
it.

## 7. Plan

Done: all modules of section 2, their runs, and the proofs of section 4. Left:

1. `ProcessesEnd` and the other liveness properties as theorems, should a prover
   with `ENABLED` be at hand.
2. When a heartbeat route is added to the commander: the metadata of an agent in
   `AgentRegistry`, for the lost update of UpdateLastSeen.
3. When "running" is stored: a claim of a command before its execution in
   `CommandLifecycle` and `Kubedial`, with mutual exclusion of executions.
