------------------------------ MODULE Applyer -------------------------------
(***************************************************************************)
(* executor.Execute and the K8sApplyer of kubedialer: what the execution   *)
(* of a command does to the cluster of the agent.                          *)
(*                                                                         *)
(* The files of a command are concatenated in the order of a Go map, which *)
(* is any order, and decoded; their objects are then applied one by one in *)
(* that order, or deleted in the reverse order, until one fails.  Several  *)
(* processes may execute at the same time (an apply beside a run, or a     *)
(* second attempt after a report was lost), and other clients of the       *)
(* cluster write to the same objects.  One call to the API server, with    *)
(* the local code after it, is one action; a call may be refused, and when *)
(* the environment is Faulty it may be lost, turned down by a policy that  *)
(* is not modelled, or take effect and be reported as failed.              *)
(***************************************************************************)
EXTENDS Naturals, Sequences

CONSTANTS Names,       \* kind and name of an object
          Namespaces,
          Values,      \* what can be in an object besides its name
          Files,       \* manifest files
          Content,     \* the documents of each file, in order
          Clusterwide, \* names whose kind has no namespace
          Unmapped,    \* names whose kind the RESTMapper does not know
          Options,     \* the commands that may be executed
          Dialers,     \* executions, each by a process
          Writes,      \* bound: others write while the revision is below it,
                       \* and delete until it has passed it
          Faulty,      \* calls may break and a process may die
          NoNamespace, \* neither the manifest nor the command has one
          NoCommand,   \* nothing is being executed
          Malformed    \* a document that is not an object

VARIABLES cluster,  \* what the API server keeps
          revision, \* the resourceVersion given out last
          command,  \* what each process executes
          left,     \* the files it has not concatenated yet
          manifest, \* the objects it has decoded
          cursor,   \* the object it is at
          pc,       \* what it does next
          copy,     \* the object that client-side apply has read
          settled,  \* history: what it has put in place, and when
          outcome   \* of the execution

clusterVars == <<cluster, revision>>
applyerVars == <<cluster, revision, command, left, manifest, cursor, pc, copy,
                 settled, outcome>>

-----------------------------------------------------------------------------
\* Data

\* A namespaced object has a namespace, one of the whole cluster has none.
Objects == (Namespaces \cup {NoNamespace}) \X Names

Object ==
  [live : BOOLEAN,    \* it exists
   doomed : BOOLEAN,  \* it is being deleted in the foreground
   rv : Nat,          \* revision of its last change, its removal included
   value : Values,
   applied : BOOLEAN] \* its value belongs to server-side apply by "kubedialer"

Entry == [name : Names, ns : Namespaces \cup {NoNamespace}, value : Values]

\* models.Command as the executor uses it; Prune is not used.  The commander
\* accepts any string as an operation.
Command ==
  [op : {"apply", "delete", "unknown"},
   serverSide : BOOLEAN, dryRun : BOOLEAN, force : BOOLEAN,
   ns : Namespaces \cup {NoNamespace},
   files : SUBSET Files]

Settlement == [index : Nat, rev : Nat]

ASSUME ApplyerAssumption ==
  /\ Clusterwide \subseteq Names /\ Unmapped \subseteq Names
  /\ Content \in [Files -> Seq(Entry \cup {Malformed})]
  /\ Malformed \notin Entry
  /\ Options \subseteq Command /\ NoCommand \notin Command
  /\ Values # {}
  /\ Writes \in Nat
  /\ Faulty \in BOOLEAN

ApplyerTypeOK ==
  /\ cluster \in [Objects -> Object]
  /\ revision \in Nat
  /\ command \in [Dialers -> Command \cup {NoCommand}]
  /\ left \in [Dialers -> SUBSET Files]
  /\ manifest \in [Dialers -> Seq(Entry \cup {Malformed})]
  /\ cursor \in [Dialers -> Nat]
  /\ pc \in [Dialers -> {"idle", "concat", "next", "create", "update", "done"}]
  /\ copy \in [Dialers -> Object]
  /\ settled \in [Dialers -> SUBSET Settlement]
  /\ outcome \in [Dialers -> {"none", "success", "failed", "lost"}]

\* The cluster starts empty; what others put there first is as good as there.
Nothing == [live |-> FALSE, doomed |-> FALSE, rv |-> 0,
            value |-> CHOOSE v \in Values : TRUE, applied |-> FALSE]

ApplyerInit ==
  /\ cluster = [o \in Objects |-> Nothing]
  /\ revision = 0
  /\ command = [d \in Dialers |-> NoCommand]
  /\ left = [d \in Dialers |-> {}]
  /\ manifest = [d \in Dialers |-> <<>>]
  /\ cursor = [d \in Dialers |-> 0]
  /\ pc = [d \in Dialers |-> "idle"]
  /\ copy = [d \in Dialers |-> Nothing]
  /\ settled = [d \in Dialers |-> {}]
  /\ outcome = [d \in Dialers |-> "none"]

-----------------------------------------------------------------------------
\* The API server of the cluster

\* It has no path for a namespaced object without a namespace, for one of the
\* whole cluster with a namespace, or for a kind that it does not know.
Placeable(o) ==
  /\ o[2] \in Clusterwide <=> o[1] = NoNamespace
  /\ o[2] \notin Unmapped

\* An object as it is after a change.
Changed(o, new) ==
  /\ cluster' = [cluster EXCEPT ![o] = [new EXCEPT !.rv = revision + 1]]
  /\ revision' = revision + 1

\* A write; one that changes nothing leaves the resourceVersion alone.
Written(o, v, applied) ==
  LET new == [cluster[o] EXCEPT !.live = TRUE, !.value = v, !.applied = applied]
  IN IF new = cluster[o] THEN UNCHANGED clusterVars ELSE Changed(o, new)

\* A foreground deletion marks the object; it goes when its dependents have
\* gone, or when an update drops the mark, which is left to Collect.  A
\* background deletion removes it at once.
Deleted(o, foreground) ==
  IF foreground
  THEN IF cluster[o].doomed THEN UNCHANGED clusterVars
       ELSE Changed(o, [cluster[o] EXCEPT !.doomed = TRUE])
  ELSE Changed(o, Nothing)

\* Another manager owns the value and it is not the one that is applied.
Conflicting(o, v) ==
  cluster[o].live /\ ~cluster[o].applied /\ cluster[o].value # v

-----------------------------------------------------------------------------
\* Execute: the files, then the objects

Move(d, next) == pc' = [pc EXCEPT ![d] = next] /\ UNCHANGED outcome

End(d, verdict) ==
  /\ pc' = [pc EXCEPT ![d] = "done"]
  /\ outcome' = [outcome EXCEPT ![d] = verdict]

Start(d) ==
  /\ pc[d] = "idle"
  /\ \E c \in Options :
       /\ command' = [command EXCEPT ![d] = c]
       /\ left' = [left EXCEPT ![d] = c.files]
  /\ Move(d, "concat")
  /\ UNCHANGED <<clusterVars, manifest, cursor, copy, settled>>

\* The loop over the map of files.
Concatenate(d) ==
  /\ pc[d] = "concat"
  /\ \E f \in left[d] :
       /\ left' = [left EXCEPT ![d] = @ \ {f}]
       /\ manifest' = [manifest EXCEPT ![d] = @ \o Content[f]]
  /\ UNCHANGED <<clusterVars, command, cursor, pc, copy, settled, outcome>>

Decodable(d) == \A i \in DOMAIN manifest[d] : manifest[d][i] # Malformed

\* Faulty variant: an index off by one.
FirstOffByOne(d) == IF command[d].op = "apply" THEN 1 ELSE Len(manifest[d]) - 1

First(d) == IF command[d].op = "apply" THEN 1 ELSE Len(manifest[d])

\* Faulty variant: the loop of decodeManifests ends at any error, as it does
\* at io.EOF.
DecodeLenient(d) ==
  /\ pc[d] = "concat" /\ left[d] = {}
  /\ \/ /\ command[d].op # "unknown"
        /\ manifest' = [manifest EXCEPT ![d] = SelectSeq(@, LAMBDA e : e # Malformed)]
        /\ cursor' = [cursor EXCEPT ![d] =
             IF command[d].op = "apply" THEN 1 ELSE Len(manifest'[d])]
        /\ Move(d, "next")
     \/ /\ command[d].op = "unknown"
        /\ UNCHANGED <<cursor, manifest>>
        /\ End(d, "failed")
  /\ UNCHANGED <<clusterVars, command, left, copy, settled>>

\* The operation is looked at, and all documents are decoded before the first
\* object is touched.
Decode(d) ==
  /\ pc[d] = "concat" /\ left[d] = {}
  /\ \/ /\ command[d].op # "unknown" /\ Decodable(d)
        /\ cursor' = [cursor EXCEPT ![d] = First(d)]
        /\ Move(d, "next")
     \/ /\ command[d].op = "unknown" \/ ~Decodable(d)
        /\ UNCHANGED cursor
        /\ End(d, "failed")
  /\ UNCHANGED <<clusterVars, command, left, manifest, copy, settled>>

Key(e, ns) ==
  <<IF e.name \in Clusterwide THEN NoNamespace
    ELSE IF e.ns = NoNamespace THEN ns ELSE e.ns, e.name>>

\* The object that the i-th document of a manifest is about, once the
\* namespace is resolved.
Target(d, i) == Key(manifest[d][i], command[d].ns)

Current(d) == manifest[d][cursor[d]]
Place(d) == Target(d, cursor[d])

At(d, step, op) ==
  /\ pc[d] = step
  /\ command[d].op = op
  /\ cursor[d] \in DOMAIN manifest[d]
  /\ Current(d).name \notin Unmapped

\* A call errs when the API server refuses it, or when it breaks.
CallFails(refused) == refused \/ Faulty

Advance(d) ==
  /\ cursor' = [cursor EXCEPT ![d] = IF command[d].op = "apply" THEN @ + 1 ELSE @ - 1]
  /\ Move(d, "next")

\* Faulty variant: an object that fails is logged and the loop goes on.
StopCarryOn(d) == Advance(d) /\ UNCHANGED <<clusterVars, settled>>

Stop(d) == End(d, "failed") /\ UNCHANGED <<clusterVars, cursor, settled>>

Settled(d) ==
  settled' = [settled EXCEPT ![d] = @ \cup {[index |-> cursor[d], rev |-> revision']}]

\* The loop has come to its end.
Finish(d) ==
  /\ pc[d] = "next" /\ cursor[d] \notin DOMAIN manifest[d]
  /\ End(d, "success")
  /\ UNCHANGED <<clusterVars, command, left, manifest, cursor, copy, settled>>

\* RESTMapping fails.
Unmappable(d) ==
  /\ pc[d] = "next" /\ cursor[d] \in DOMAIN manifest[d]
  /\ Current(d).name \in Unmapped
  /\ Stop(d)
  /\ UNCHANGED <<command, left, manifest, copy>>

-----------------------------------------------------------------------------
\* applyObject

\* Faulty variant: the content is that of the object decoded last, which all
\* places of the loop share.
PutLast(d, applied) ==
  IF command[d].dryRun THEN UNCHANGED <<clusterVars, settled>>
  ELSE /\ Written(Place(d), manifest[d][Len(manifest[d])].value, applied)
       /\ Settled(d)

\* The object at hand is written, unless this is a dry run.
Put(d, applied) ==
  IF command[d].dryRun THEN UNCHANGED <<clusterVars, settled>>
  ELSE Written(Place(d), Current(d).value, applied) /\ Settled(d)

PutOrBroken(d, applied) ==
  Put(d, applied) /\ (Advance(d) \/ (Faulty /\ End(d, "failed") /\ UNCHANGED cursor))

PatchAllowed(d) ==
  /\ Placeable(Place(d))
  /\ Conflicting(Place(d), Current(d).value) => command[d].force

\* Server-side apply.  What others own with the same value is owned together.
Patch(d) ==
  LET old == cluster[Place(d)]
      own == ~old.live \/ old.applied \/ old.value # Current(d).value
  IN /\ At(d, "next", "apply") /\ command[d].serverSide
     /\ \/ PatchAllowed(d) /\ PutOrBroken(d, own)
        \/ CallFails(~PatchAllowed(d)) /\ Stop(d)
     /\ UNCHANGED <<command, left, manifest, copy>>

\* Client-side apply looks first.
GetObject(d) ==
  /\ At(d, "next", "apply") /\ ~command[d].serverSide
  /\ \/ /\ cluster[Place(d)].live
        /\ copy' = [copy EXCEPT ![d] = cluster[Place(d)]]
        /\ Move(d, "update")
        /\ UNCHANGED <<clusterVars, cursor, settled>>
     \/ /\ ~cluster[Place(d)].live
        /\ Move(d, "create")
        /\ UNCHANGED <<clusterVars, cursor, settled, copy>>
     \/ Faulty /\ UNCHANGED copy /\ Stop(d)
  /\ UNCHANGED <<command, left, manifest>>

CreateAllowed(d) == Placeable(Place(d)) /\ ~cluster[Place(d)].live

\* It was not there; somebody may have created it by now.
CreateObject(d) ==
  /\ At(d, "create", "apply")
  /\ \/ CreateAllowed(d) /\ PutOrBroken(d, FALSE)
     \/ CallFails(~CreateAllowed(d)) /\ Stop(d)
  /\ UNCHANGED <<command, left, manifest, copy>>

\* Faulty variant: the object is sent without a resourceVersion.
UpdateAllowedUnversioned(d) == cluster[Place(d)].live

\* The resourceVersion that was read is sent back with the object.
UpdateAllowed(d) ==
  /\ cluster[Place(d)].live
  /\ cluster[Place(d)].rv = copy[d].rv

\* An update leaves a value that it does not change to its owner.
StaysApplied(d) ==
  cluster[Place(d)].applied /\ cluster[Place(d)].value = Current(d).value

\* Faulty variant: DryRun is not passed on with the update.
UpdateObjectWet(d) ==
  /\ At(d, "update", "apply")
  /\ \/ /\ UpdateAllowed(d)
        /\ Written(Place(d), Current(d).value, StaysApplied(d))
        /\ Settled(d) /\ Advance(d)
     \/ CallFails(~UpdateAllowed(d)) /\ Stop(d)
  /\ UNCHANGED <<command, left, manifest, copy>>

UpdateObject(d) ==
  /\ At(d, "update", "apply")
  /\ \/ UpdateAllowed(d) /\ PutOrBroken(d, StaysApplied(d))
     \/ CallFails(~UpdateAllowed(d)) /\ Stop(d)
  /\ UNCHANGED <<command, left, manifest, copy>>

-----------------------------------------------------------------------------
\* deleteObject: DryRun is not among its options, Force chooses the
\* propagation, and an object that is not there is skipped
DeleteObject(d) ==
  /\ At(d, "next", "delete")
  /\ \/ /\ IF cluster[Place(d)].live
           THEN Deleted(Place(d), ~command[d].force) ELSE UNCHANGED clusterVars
        /\ Settled(d)
        /\ Advance(d) \/ (Faulty /\ End(d, "failed") /\ UNCHANGED cursor)
     \/ Faulty /\ Stop(d)
  /\ UNCHANGED <<command, left, manifest, copy>>

-----------------------------------------------------------------------------
\* The process of an execution dies.
Die(d) ==
  /\ Faulty
  /\ pc[d] \notin {"idle", "done"}
  /\ End(d, "lost")
  /\ UNCHANGED <<clusterVars, command, left, manifest, cursor, copy, settled>>

Execute(d) ==
  \/ Concatenate(d) \/ Decode(d) \/ Finish(d) \/ Unmappable(d)
  \/ Patch(d) \/ GetObject(d) \/ CreateObject(d) \/ UpdateObject(d)
  \/ DeleteObject(d)

dialerVars == <<command, left, manifest, cursor, pc, copy, settled, outcome>>

\* Other clients of the cluster.
OthersWrite(o) ==
  /\ revision < Writes /\ Placeable(o)
  /\ \E v \in Values : Written(o, v, FALSE)
  /\ UNCHANGED dialerVars

OthersDelete(o) ==
  /\ revision <= Writes /\ cluster[o].live
  /\ \E foreground \in BOOLEAN : Deleted(o, foreground)
  /\ UNCHANGED dialerVars

\* The garbage collector removes what was marked.
Collect(o) ==
  /\ cluster[o].live /\ cluster[o].doomed
  /\ Changed(o, Nothing)
  /\ UNCHANGED dialerVars

ApplyerNext ==
  \/ \E d \in Dialers : Start(d) \/ Execute(d) \/ Die(d)
  \/ \E o \in Objects : OthersWrite(o) \/ OthersDelete(o) \/ Collect(o)

ApplyerSpec == ApplyerInit /\ [][ApplyerNext]_applyerVars

-----------------------------------------------------------------------------
\* Properties

Applies(d) == command[d] # NoCommand /\ command[d].op = "apply"
Deletes(d) == command[d] # NoCommand /\ command[d].op = "delete"

\* The last document of an apply that is about its object.
LastMention(d, i) ==
  \A j \in DOMAIN manifest[d] : j > i => Target(d, j) # Target(d, i)

\* An apply wants its value, a delete wants the object gone or going.
Demanded(d, i) ==
  LET o == cluster[Target(d, i)]
  IN IF Applies(d) THEN o.live /\ o.value = manifest[d][i].value
     ELSE ~o.live \/ o.doomed

\* An execution that reports success has dealt with every object it was given,
\* and each is still as the manifest wants it, unless somebody has changed
\* it after this execution had put it in place (applyer.go:79-119).
SuccessIsInPlace ==
  \A d \in Dialers :
    /\ outcome[d] = "success"
    /\ Deletes(d) \/ (Applies(d) /\ ~command[d].dryRun)
    => \A i \in DOMAIN manifest[d] :
         Deletes(d) \/ LastMention(d, i) =>
           \E s \in settled[d] :
             /\ s.index = i
             /\ cluster[Target(d, i)].rv > s.rev \/ Demanded(d, i)

\* An execution that fails, dies or is under way has dealt with an initial
\* part of the objects, one after the other: an apply with the first ones of
\* the manifest, a delete with the last ones (applyer.go:87-94, 108-114).
InOrder(d) ==
  \A s \in settled[d] : \A j \in DOMAIN manifest[d] :
    (IF Applies(d) THEN j < s.index ELSE j > s.index) =>
      \E t \in settled[d] : t.index = j /\ t.rev <= s.rev

PartsAreInOrder == \A d \in Dialers : InOrder(d)

\* When one document of one file cannot be decoded, no object of any file is
\* touched, whatever the order of the files (applyer.go:81-84, 101-104).
MalformedTouchesNothing ==
  \A d \in Dialers :
    command[d] # NoCommand /\ settled[d] # {} =>
      \A f \in command[d].files : \A i \in DOMAIN Content[f] : Content[f][i] # Malformed

\* Client-side apply overwrites exactly the object it has read: what another
\* client or another execution has written in between is not lost
\* (applyer.go:203, 219-224).
UpdatesAreInformed ==
  [][\A d \in Dialers :
       pc[d] = "update" /\ settled'[d] # settled[d] =>
         cluster[Place(d)] = copy[d]]_applyerVars

\* A step of this execution.
Steps(d) == pc'[d] # pc[d] \/ cursor'[d] # cursor[d]

\* A dry run of an apply changes nothing, in either mode, up to its end or its
\* failure (applyer.go:175-181, 206-209, 220-223).
DryApplyIsDry ==
  [][\A d \in Dialers :
       Applies(d) /\ command[d].dryRun /\ Steps(d) => UNCHANGED cluster]_applyerVars

\* models.go:55: "DryRun enables dry-run mode (no actual changes)", for any
\* command.
DryRunIsDry ==
  [][\A d \in Dialers :
       command[d] # NoCommand /\ command[d].dryRun /\ Steps(d) =>
         UNCHANGED cluster]_applyerVars

\* The documents of the files of a command.
Documents(c) ==
  (UNION {{Content[f][i] : i \in DOMAIN Content[f]} : f \in c.files}) \ {Malformed}

\* An execution touches only objects that the files of its command name, in
\* the namespace that the document or else the command gives, and leaves one
\* that it has changed as the document asks (applyer.go:79-119, 159-165).
TouchesOnlyItsOwn ==
  [][\A d \in Dialers : Steps(d) =>
       \A o \in Objects : cluster'[o] # cluster[o] =>
         \E e \in Documents(command[d]) :
           /\ Key(e, command[d].ns) = o
           /\ IF Applies(d) THEN cluster'[o].live /\ cluster'[o].value = e.value
              ELSE ~cluster'[o].live \/ cluster'[o].doomed]_applyerVars

\* Somebody has begun to apply what this execution does not want of its object.
Contested(d, i) ==
  \E other \in Dialers :
    /\ Applies(other) /\ ~command[other].dryRun
    /\ \E e \in Documents(command[other]) :
         /\ Key(e, command[other].ns) = Target(d, i)
         /\ Deletes(d) \/ e.value # manifest[d][i].value

\* What an execution has settled is undone by nobody but who wants something
\* else: once the other clients are at rest, an uncontested object that was
\* applied has no other value (a delete may take it away), and one that was
\* deleted does not come back,
\* whichever executions of the same or another command overlap, fail, die or
\* are repeated (run.go:134-169; applyer.go:195-224, 255-270).
UncontestedStays ==
  \A d \in Dialers : \A s \in settled[d] :
    s.rev > Writes =>
      \/ Demanded(d, s.index)
      \/ Applies(d) /\ ~cluster[Target(d, s.index)].live
      \/ Contested(d, s.index)

\* Commands that only apply, and none of which wants another value of an object
\* than v: what an agent has when the same command is executed again, because
\* its report was lost or an apply runs beside a run.
Agreeing(v) ==
  \A c \in Options :
    c.op # "delete" /\ \A e \in Documents(c) : v[Key(e, c.ns)] = e.value

\* While nobody else writes (Writes = 0) and the commands agree, executions
\* never undo each other: whatever has overlapped, failed halfway, died or been
\* repeated, every apply that has reported success has all its objects in the
\* cluster, with its values, for good (applyer.go:79-98, 195-224).
SuccessesHold ==
  \A d \in Dialers :
    outcome[d] = "success" /\ Applies(d) /\ ~command[d].dryRun =>
      \A i \in DOMAIN manifest[d] :
        cluster[Target(d, i)].live /\ cluster[Target(d, i)].value = manifest[d][i].value

-----------------------------------------------------------------------------
\* The inductive invariant of ApplyerProofs

InLoop(d) == pc[d] \in {"next", "create", "update"}

\* An execution that puts objects in place, or away, for good.
Wet(d) == Deletes(d) \/ (Applies(d) /\ ~command[d].dryRun)

\* An execution has an operation before it touches an object, and is at an
\* object while it has an object in hand.
LoopHasOperation(d) ==
  /\ pc[d] = "idle" <=> command[d] = NoCommand
  /\ InLoop(d) =>
       \/ Applies(d) /\ cursor[d] >= 1
       \/ Deletes(d) /\ cursor[d] <= Len(manifest[d])
  /\ pc[d] \in {"create", "update"} => Applies(d) /\ cursor[d] \in DOMAIN manifest[d]
  /\ outcome[d] # "none" => pc[d] = "done"
  /\ settled[d] # {} => Wet(d)

\* The manifest has what is in the files that were read, and nothing else; all
\* of it was decoded before the first object is touched.
LoopIsDecoded(d) ==
  /\ pc[d] = "idle" => manifest[d] = <<>>
  /\ pc[d] # "idle" =>
       /\ left[d] \subseteq command[d].files
       /\ \A f \in command[d].files \ left[d] : \A i \in DOMAIN Content[f] :
            \E j \in DOMAIN manifest[d] : manifest[d][j] = Content[f][i]
       /\ LET documents == Documents(command[d])
          IN \A j \in DOMAIN manifest[d] :
               manifest[d][j] # Malformed => manifest[d][j] \in documents
  /\ InLoop(d) \/ settled[d] # {} =>
       pc[d] \notin {"idle", "concat"} /\ left[d] = {} /\ Decodable(d)

\* The object that is going to be overwritten is the one that was read, if its
\* version is.
ReadIsVersion(d) ==
  pc[d] = "update" =>
    /\ copy[d].rv <= revision
    /\ cluster[Place(d)].rv = copy[d].rv => cluster[Place(d)] = copy[d]

SettledAt(d, i) == \E s \in settled[d] : s.index = i

\* The loop has settled what it has passed.
PassedIsSettled(d) ==
  /\ InLoop(d) /\ Wet(d) =>
       \A i \in DOMAIN manifest[d] :
         (IF Applies(d) THEN i < cursor[d] ELSE i > cursor[d]) => SettledAt(d, i)
  /\ outcome[d] = "success" /\ Wet(d) =>
       \A i \in DOMAIN manifest[d] : SettledAt(d, i)

\* What was settled has stayed as it was demanded, or was changed later.
SettledIsInPlace(d) ==
  \A s \in settled[d] :
    /\ s.rev <= revision
    /\ s.index \in DOMAIN manifest[d]
    /\ cluster[Target(d, s.index)].rv > s.rev \/ Demanded(d, s.index)

ExecutionInv(d) ==
  /\ LoopHasOperation(d)
  /\ LoopIsDecoded(d)
  /\ ReadIsVersion(d)
  /\ PassedIsSettled(d)
  /\ SettledIsInPlace(d)
  /\ InOrder(d)

ApplyerInv ==
  /\ ApplyerTypeOK
  /\ \A o \in Objects : cluster[o].rv <= revision
  /\ \A d \in Dialers : ExecutionInv(d)

\* What is behind SuccessesHold: the cluster holds agreed values only, and what
\* was settled is there.
AgreedObject(v, o) ==
  /\ ~cluster[o].doomed
  /\ cluster[o].live => cluster[o].value = v[o] /\ cluster[o].rv > 0

AgreedExecution(v, d) ==
  /\ pc[d] # "idle" => command[d] \in Options
  /\ \A s \in settled[d] : cluster[Target(d, s.index)].live

AgreementInv(v) ==
  /\ \A o \in Objects : AgreedObject(v, o)
  /\ \A d \in Dialers : AgreedExecution(v, d)
=============================================================================
