------------------------- MODULE ConvergenceProofs --------------------------
(***************************************************************************)
(* What repeated and overlapping executions of the same objects come to:   *)
(* the proofs of SuccessesHold, for any number of executions that fail and *)
(* die at will in a cluster that nobody else writes to, and of             *)
(* UncontestedStays, where commands may disagree and others write, too.    *)
(***************************************************************************)
EXTENDS ApplyerProofs

-----------------------------------------------------------------------------
\* The cluster

\* A write of the agreed value, or no change at all.
AgreedChange(v) ==
  \/ UNCHANGED clusterVars
  \/ \E o \in Objects, a \in BOOLEAN : v[o] \in Values /\ Written(o, v[o], a)

\* It leaves agreed objects only, and takes none away.
LEMMA AgreedChangeKept ==
  ASSUME ApplyerTypeOK, NEW v, \A o \in Objects : AgreedObject(v, o), AgreedChange(v)
  PROVE  \A o \in Objects :
           AgreedObject(v, o)' /\ (cluster[o].live => cluster'[o].live)
<1>1. CASE UNCHANGED clusterVars
  BY <1>1 DEF clusterVars, AgreedObject
<1>2. ASSUME NEW o \in Objects, NEW a \in BOOLEAN, v[o] \in Values, Written(o, v[o], a),
             ~UNCHANGED clusterVars
      PROVE  \A p \in Objects :
               AgreedObject(v, p)' /\ (cluster[p].live => cluster'[p].live)
  <2> DEFINE new == [cluster[o] EXCEPT !.live = TRUE, !.value = v[o], !.applied = a]
  <2>1. cluster[o] \in Object /\ cluster \in [Objects -> Object] /\ revision \in Nat
    BY DEF ApplyerTypeOK
  <2>2. new \in Object /\ new.live /\ new.value = v[o] /\ new.doomed = cluster[o].doomed
    BY <1>2, <2>1 DEF Object
  <2>3. Changed(o, new)
    BY <1>2 DEF Written
  <2> HIDE DEF new
  <2>4. /\ cluster'[o].live = new.live /\ cluster'[o].value = new.value
        /\ cluster'[o].doomed = new.doomed
    BY <2>2, <2>3, ChangedBumps
  <2>5. cluster' = [cluster EXCEPT ![o] = [new EXCEPT !.rv = revision + 1]]
    BY <2>3 DEF Changed
  <2>6. cluster'[o].rv = revision + 1
    BY <2>1, <2>2, <2>5 DEF Object
  <2>7. \A p \in Objects \ {o} : cluster'[p] = cluster[p]
    BY <2>1, <2>5
  <2>8. AgreedObject(v, o)' /\ cluster'[o].live
    BY <2>1, <2>2, <2>4, <2>6 DEF AgreedObject
  <2> QED
    BY <2>7, <2>8 DEF AgreedObject
<1> QED
  BY <1>1, <1>2 DEF AgreedChange

\* Nobody but the executions does anything to such a cluster.
LEMMA OthersRest ==
  ASSUME Writes = 0, ApplyerInv, NEW v, NEW o \in Objects, AgreedObject(v, o)
  PROVE  ~OthersWrite(o) /\ ~OthersDelete(o) /\ ~Collect(o)
<1>1. cluster[o].rv \in Nat /\ cluster[o].rv <= revision /\ revision \in Nat
  BY DEF ApplyerInv, ApplyerTypeOK, Object
<1>2. ~(revision < Writes) /\ (cluster[o].live => ~(revision <= Writes))
  BY <1>1 DEF AgreedObject
<1> QED
  BY <1>2 DEF AgreedObject, OthersWrite, OthersDelete, Collect

\* An execution that does not move keeps its agreement,
LEMMA AgreedStays ==
  ASSUME ApplyerInv, NEW v, NEW d \in Dialers, AgreedExecution(v, d), Same(d),
         \A o \in Objects : cluster[o].live => cluster'[o].live
  PROVE  AgreedExecution(v, d)'
<1>1. ASSUME NEW s \in settled[d]
      PROVE  cluster'[Target(d, s.index)].live
  <2>1. s.index \in DOMAIN manifest[d] /\ command[d] # NoCommand /\ manifest[d][s.index] # Malformed
    BY DEF ApplyerInv, ExecutionInv, SettledIsInPlace, LoopIsDecoded, LoopHasOperation, Decodable
  <2>2. Target(d, s.index) \in Objects
    BY <2>1, TargetIsObject DEF ApplyerInv
  <2> QED
    BY <2>2 DEF AgreedExecution
<1> QED
  BY <1>1 DEF AgreedExecution, Same, Target

\* and so do all when one of them moves and keeps its own.
LEMMA AgreementStep ==
  ASSUME ApplyerInv, NEW v, AgreementInv(v), AgreedChange(v), NEW d \in Dialers,
         \A e \in Dialers \ {d} : Same(e), AgreedExecution(v, d)'
  PROVE  AgreementInv(v)'
<1>1. \A o \in Objects : AgreedObject(v, o)' /\ (cluster[o].live => cluster'[o].live)
  BY AgreedChangeKept DEF AgreementInv, ApplyerInv
<1>2. \A e \in Dialers : AgreedExecution(v, e)'
  BY <1>1, AgreedStays DEF AgreementInv
<1> QED
  BY <1>1, <1>2 DEF AgreementInv

-----------------------------------------------------------------------------
\* The steps of an execution

\* Every execution applies.
LEMMA NoneDeletes ==
  ASSUME NEW v, Agreeing(v), AgreementInv(v), NEW d \in Dialers
  PROVE  ~DeleteObject(d)
BY DEF Agreeing, AgreementInv, AgreedExecution, DeleteObject, At

\* A process starts with a command of the options and an empty manifest.
LEMMA StartAgrees ==
  ASSUME ApplyerInv, NEW v, AgreementInv(v), NEW d \in Dialers, Start(d)
  PROVE  AgreementInv(v)'
<1>1. PICK c \in Options :
        command' = [command EXCEPT ![d] = c] /\ left' = [left EXCEPT ![d] = c.files]
  BY DEF Start
<1>2. pc' = [pc EXCEPT ![d] = "concat"] /\ UNCHANGED <<outcome, clusterVars, manifest, cursor, copy, settled>>
  BY DEF Start, Move
<1>3. settled[d] = {} /\ manifest[d] = <<>>
  BY DEF Start, ApplyerInv, ExecutionInv, LoopIsDecoded, AgreementInv, AgreedExecution
<1>4. command'[d] = c /\ left'[d] = c.files /\ pc'[d] = "concat" /\ settled'[d] = {} /\ manifest'[d] = <<>>
  BY <1>1, <1>2, <1>3 DEF ApplyerInv, ApplyerTypeOK
<1>5. AgreedExecution(v, d)'
  BY <1>4 DEF AgreedExecution
<1>6. \A e \in Dialers \ {d} : Same(e)
  BY <1>1, <1>2 DEF Same, ApplyerInv, ApplyerTypeOK
<1> QED
  BY <1>2, <1>5, <1>6, AgreementStep DEF AgreedChange

\* A step that settles nothing and leaves the cluster alone; nothing was settled
\* before the manifest was complete.
LEMMA QuietAgrees ==
  ASSUME ApplyerInv, NEW v, AgreementInv(v), NEW d \in Dialers, pc[d] # "idle", pc'[d] # "idle",
         UNCHANGED <<clusterVars, command, settled>>,
         UNCHANGED manifest \/ settled[d] = {},
         \A e \in Dialers \ {d} : Same(e)
  PROVE  AgreementInv(v)'
<1>1. AgreedExecution(v, d)'
  BY DEF AgreementInv, AgreedExecution, Target, clusterVars
<1> QED
  BY <1>1, AgreementStep DEF AgreedChange

\* The concatenation of the files is of this kind,
LEMMA ConcatenateAgrees ==
  ASSUME ApplyerInv, NEW v, AgreementInv(v), NEW d \in Dialers, Concatenate(d)
  PROVE  AgreementInv(v)'
<1>1. /\ pc[d] = "concat" /\ pc'[d] = "concat" /\ settled[d] = {}
      /\ UNCHANGED <<clusterVars, command, settled>>
  BY DEF Concatenate, ApplyerInv, ExecutionInv, LoopIsDecoded
<1>2. \A e \in Dialers \ {d} : Same(e)
  BY DEF Concatenate, Same, ApplyerInv, ApplyerTypeOK
<1> QED
  BY <1>1, <1>2, QuietAgrees

\* and so are most other steps.
LEMMA OtherStepsAgree ==
  ASSUME ApplyerInv, NEW v, AgreementInv(v), NEW d \in Dialers,
         Decode(d) \/ Finish(d) \/ Unmappable(d) \/ GetObject(d) \/ Die(d)
  PROVE  AgreementInv(v)'
<1>1. pc[d] # "idle" /\ UNCHANGED <<clusterVars, command, left, manifest, settled>>
  BY DEF Decode, Finish, Unmappable, GetObject, Die, At, Stop, Move, End
<1>2. PICK next \in {"next", "create", "update", "done"} : pc' = [pc EXCEPT ![d] = next]
  BY DEF Decode, Finish, Unmappable, GetObject, Die, Stop, Move, End
<1>3. \A e \in Dialers \ {d} : cursor'[e] = cursor[e] /\ copy'[e] = copy[e] /\ outcome'[e] = outcome[e]
  BY DEF Decode, Finish, Unmappable, GetObject, Die, Stop, Move, End, ApplyerInv, ApplyerTypeOK
<1>4. pc'[d] # "idle" /\ \A e \in Dialers \ {d} : Same(e)
  BY <1>1, <1>2, <1>3 DEF Same, ApplyerInv, ApplyerTypeOK
<1> QED
  BY <1>1, <1>4, QuietAgrees

\* A write is of the agreed value, and what it settles is there.
LEMMA PutAgrees ==
  ASSUME ApplyerInv, NEW v, Agreeing(v), AgreementInv(v), NEW d \in Dialers,
         InLoop(d), cursor[d] \in DOMAIN manifest[d], NEW a \in BOOLEAN,
         PutOrBroken(d, a) \/ Stop(d), UNCHANGED <<command, left, manifest, copy>>
  PROVE  AgreementInv(v)'
<1>1. PICK next \in {"next", "done"} : pc' = [pc EXCEPT ![d] = next]
  BY DEF PutOrBroken, Stop, Advance, Move, End
<1>2. pc[d] # "idle" /\ pc'[d] # "idle"
  BY <1>1 DEF InLoop, ApplyerInv, ApplyerTypeOK
<1>3. \A e \in Dialers \ {d} : Same(e)
  BY <1>1 DEF Same, PutOrBroken, Put, Stop, Settled, Advance, Move, End, ApplyerInv, ApplyerTypeOK
<1>4. CASE UNCHANGED <<clusterVars, settled>>
  BY <1>2, <1>3, <1>4, QuietAgrees
<1>5. CASE Written(Place(d), Current(d).value, a) /\ Settled(d)
  <2>1. Place(d) \in Objects /\ Current(d).value \in Values
    BY PlaceIsObject
  <2>2. Current(d) \in Documents(command[d]) /\ command[d] \in Options
    BY <1>2, CurrentIsDocument DEF AgreementInv, AgreedExecution
  <2>3. v[Place(d)] = Current(d).value
    BY <2>2 DEF Agreeing, Place, Target, Current
  <2>4. AgreedChange(v)
    BY <1>5, <2>1, <2>3 DEF AgreedChange
  <2>5. \A o \in Objects : cluster[o].live => cluster'[o].live
    BY <2>4, AgreedChangeKept DEF ApplyerInv, AgreementInv
  <2>6. cluster'[Place(d)].live
    BY <1>5, <2>1, WrittenBumps DEF ApplyerInv
  <2>7. ASSUME NEW s \in settled'[d]
        PROVE  cluster'[Target(d, s.index)].live
    <3>1. CASE s \in settled[d]
      <4>1. s.index \in DOMAIN manifest[d] /\ command[d] # NoCommand /\ manifest[d][s.index] # Malformed
        BY <3>1 DEF ApplyerInv, ExecutionInv, SettledIsInPlace, LoopIsDecoded, LoopHasOperation,
                    Decodable
      <4>2. Target(d, s.index) \in Objects
        BY <4>1, TargetIsObject DEF ApplyerInv
      <4> QED
        BY <2>5, <3>1, <4>2 DEF AgreementInv, AgreedExecution
    <3>2. CASE s.index = cursor[d]
      BY <2>6, <3>2 DEF Place
    <3> QED
      BY <1>5, <2>7, <3>1, <3>2 DEF Settled, ApplyerInv, ApplyerTypeOK
  <2>8. AgreedExecution(v, d)'
    BY <1>2, <2>7 DEF AgreementInv, AgreedExecution, Target
  <2> QED
    BY <1>3, <2>4, <2>8, AgreementStep
<1> QED
  BY <1>4, <1>5 DEF PutOrBroken, Put, Stop

\* All three writes of applyObject are.
LEMMA WritesAgree ==
  ASSUME ApplyerInv, NEW v, Agreeing(v), AgreementInv(v), NEW d \in Dialers,
         Patch(d) \/ CreateObject(d) \/ UpdateObject(d)
  PROVE  AgreementInv(v)'
<1>1. /\ InLoop(d) /\ cursor[d] \in DOMAIN manifest[d]
      /\ UNCHANGED <<command, left, manifest, copy>>
  BY AtObject DEF Patch, CreateObject, UpdateObject
<1>2. Place(d) \in Objects
  BY <1>1, PlaceIsObject
<1> DEFINE own == ~cluster[Place(d)].live \/ cluster[Place(d)].applied
                    \/ cluster[Place(d)].value # Current(d).value
<1>3. own \in BOOLEAN /\ StaysApplied(d) \in BOOLEAN /\ FALSE \in BOOLEAN
  BY <1>2 DEF StaysApplied, ApplyerInv, ApplyerTypeOK, Object
<1>4. PutOrBroken(d, own) \/ PutOrBroken(d, StaysApplied(d)) \/ PutOrBroken(d, FALSE) \/ Stop(d)
  BY DEF Patch, CreateObject, UpdateObject
<1> HIDE DEF own
<1> QED
  BY <1>1, <1>3, <1>4, PutAgrees

-----------------------------------------------------------------------------
\* The theorems

\* The empty cluster agrees with anything.
LEMMA InitAgrees ==
  ASSUME ApplyerInit, NEW v
  PROVE  AgreementInv(v)
BY DEF ApplyerInit, Nothing, AgreementInv, AgreedObject, AgreedExecution

\* Every step keeps the agreement.
LEMMA NextAgrees ==
  ASSUME Writes = 0, NEW v, Agreeing(v), ApplyerInv, AgreementInv(v), [ApplyerNext]_applyerVars
  PROVE  AgreementInv(v)'
<1>1. ASSUME NEW d \in Dialers, Start(d) \/ Execute(d) \/ Die(d)
      PROVE  AgreementInv(v)'
  <2>1. ~DeleteObject(d)
    BY NoneDeletes
  <2> QED
    BY <1>1, <2>1, StartAgrees, ConcatenateAgrees, OtherStepsAgree, WritesAgree DEF Execute
<1>2. ASSUME NEW o \in Objects, OthersWrite(o) \/ OthersDelete(o) \/ Collect(o)
      PROVE  AgreementInv(v)'
  BY <1>2, OthersRest DEF AgreementInv
<1>3. CASE UNCHANGED applyerVars
  BY <1>3 DEF applyerVars, AgreementInv, AgreedObject, AgreedExecution, Target
<1> QED
  BY <1>1, <1>2, <1>3 DEF ApplyerNext

\* While the commands agree and nobody else writes, the cluster never holds a
\* value that was not agreed, and nothing that was settled goes away.
THEOREM AgreementInvariance ==
  ASSUME Writes = 0, NEW CONSTANT v, Agreeing(v)
  PROVE  ApplyerSpec => []AgreementInv(v)
<1>1. ApplyerInit => AgreementInv(v)
  BY InitAgrees
<1>2. ApplyerInv /\ AgreementInv(v) /\ [ApplyerNext]_applyerVars => AgreementInv(v)'
  BY NextAgrees
<1> QED
  BY <1>1, <1>2, ApplyerInvariance, PTL DEF ApplyerSpec

\* So what was reported as a success stays true, whatever is executed again,
\* overlaps, fails halfway or dies.
THEOREM SuccessesLast ==
  ASSUME Writes = 0, NEW CONSTANT v, Agreeing(v)
  PROVE  ApplyerSpec => []SuccessesHold
<1>1. ApplyerInv /\ AgreementInv(v) => SuccessesHold
  <2> SUFFICES ASSUME ApplyerInv, AgreementInv(v), NEW d \in Dialers,
                      outcome[d] = "success", Applies(d), ~command[d].dryRun,
                      NEW i \in DOMAIN manifest[d]
               PROVE  /\ cluster[Target(d, i)].live
                      /\ cluster[Target(d, i)].value = manifest[d][i].value
    BY DEF SuccessesHold
  <2>1. PICK s \in settled[d] : s.index = i
    BY DEF ApplyerInv, ExecutionInv, PassedIsSettled, SettledAt, Wet
  <2>2. pc[d] # "idle" /\ command[d] # NoCommand /\ manifest[d][i] # Malformed
    BY <2>1 DEF ApplyerInv, ExecutionInv, LoopIsDecoded, LoopHasOperation, Decodable
  <2>3. Target(d, i) \in Objects
    BY <2>2, TargetIsObject DEF ApplyerInv
  <2>4. manifest[d][i] \in Documents(command[d]) /\ command[d] \in Options
    BY <2>2 DEF ApplyerInv, ExecutionInv, LoopIsDecoded, AgreementInv, AgreedExecution
  <2>5. v[Target(d, i)] = manifest[d][i].value
    BY <2>4 DEF Agreeing, Target
  <2>6. cluster[Target(d, i)].live
    BY <2>1 DEF AgreementInv, AgreedExecution
  <2> QED
    BY <2>3, <2>5, <2>6 DEF AgreementInv, AgreedObject
<1> QED
  BY <1>1, ApplyerInvariance, AgreementInvariance, PTL

-----------------------------------------------------------------------------
\* Commands that do not agree, and other clients

\* The body of UncontestedStays.
Stays(d, s) ==
  s.rev > Writes =>
    \/ Demanded(d, s.index)
    \/ Applies(d) /\ ~cluster[Target(d, s.index)].live
    \/ Contested(d, s.index)

\* An execution keeps its command, and from the first object on its manifest.
LEMMA OrdersKept ==
  ASSUME ApplyerInv, [ApplyerNext]_applyerVars, NEW d \in Dialers
  PROVE  /\ command[d] # NoCommand => command'[d] = command[d]
         /\ settled[d] # {} => manifest'[d] = manifest[d]
<1> USE DEF ApplyerInv, ExecutionInv, ApplyerTypeOK
<1>1. ASSUME NEW e \in Dialers, Start(e)
      PROVE  /\ command[d] # NoCommand => command'[d] = command[d]
             /\ manifest'[d] = manifest[d]
  BY <1>1 DEF Start, LoopHasOperation
<1>2. ASSUME NEW e \in Dialers, Concatenate(e)
      PROVE  /\ command'[d] = command[d]
             /\ settled[d] # {} => manifest'[d] = manifest[d]
  BY <1>2 DEF Concatenate, LoopIsDecoded
<1>3. ASSUME NEW e \in Dialers, Execute(e) \/ Die(e), ~Concatenate(e)
      PROVE  UNCHANGED <<command, manifest>>
  BY <1>3 DEF Execute, Die, Decode, Finish, Unmappable, Patch, GetObject, CreateObject,
              UpdateObject, DeleteObject
<1>4. ASSUME NEW o \in Objects, OthersWrite(o) \/ OthersDelete(o) \/ Collect(o)
      PROVE  UNCHANGED <<command, manifest>>
  BY <1>4 DEF OthersWrite, OthersDelete, Collect, dialerVars
<1> QED
  BY <1>1, <1>2, <1>3, <1>4 DEF ApplyerNext, applyerVars

\* What somebody has begun to want stays wanted.
LEMMA ContestedLasts ==
  ASSUME ApplyerInv, [ApplyerNext]_applyerVars, NEW d \in Dialers, NEW i,
         command'[d] = command[d], manifest'[d] = manifest[d], Contested(d, i)
  PROVE  Contested(d, i)'
<1>1. PICK other \in Dialers :
        /\ Applies(other) /\ ~command[other].dryRun
        /\ \E e \in Documents(command[other]) :
             /\ Key(e, command[other].ns) = Target(d, i)
             /\ Deletes(d) \/ e.value # manifest[d][i].value
  BY DEF Contested
<1>2. command'[other] = command[other]
  BY <1>1, OrdersKept DEF Applies
<1>3. /\ Applies(other)' = Applies(other) /\ Deletes(d)' = Deletes(d)
      /\ Target(d, i)' = Target(d, i)
      /\ Documents(command[other])' = Documents(command[other])
  BY <1>2 DEF Applies, Deletes, Target, Documents
<1> QED
  BY <1>1, <1>2, <1>3 DEF Contested

\* What has been settled: an object that its execution asked for, whose
\* documents are those of its command.
LEMMA SettledFacts ==
  ASSUME ApplyerInv, NEW d \in Dialers, NEW s \in settled[d]
  PROVE  /\ s.rev \in Nat /\ revision \in Nat /\ s.rev <= revision
         /\ Wet(d) /\ command[d] # NoCommand
         /\ Target(d, s.index) \in Objects
<1> USE DEF ApplyerInv, ExecutionInv
<1>1. s.rev \in Nat /\ revision \in Nat /\ s.rev <= revision /\ s.index \in DOMAIN manifest[d]
  BY DEF SettledIsInPlace, ApplyerTypeOK, Settlement
<1>2. Wet(d) /\ command[d] # NoCommand /\ manifest[d][s.index] # Malformed
  BY <1>1 DEF LoopHasOperation, LoopIsDecoded, Decodable, Wet, Applies, Deletes
<1> QED
  BY <1>1, <1>2, TargetIsObject

\* A later settlement of the same object gives it what was demanded, takes it
\* away from an apply, or contests it.
LEMMA SettledAgain ==
  ASSUME ApplyerInv, [ApplyerNext]_applyerVars, NEW d \in Dialers, Settles(d),
         NEW e \in Dialers, NEW s \in settled[e], Stays(e, s),
         s.rev > Writes, Target(e, s.index) = Place(d)
  PROVE  Stays(e, s)'
<1> DEFINE o == Place(d)
<1>1. Wet(e) /\ command[e] # NoCommand
  BY SettledFacts
<1>2. /\ command'[e] = command[e] /\ manifest'[e] = manifest[e]
      /\ Target(e, s.index)' = Target(e, s.index)
      /\ Applies(e)' = Applies(e) /\ Deletes(e)' = Deletes(e)
  BY <1>1, OrdersKept DEF Target, Applies, Deletes
<1>3. CASE Contested(e, s.index)
  BY <1>2, <1>3, ContestedLasts DEF Stays
<1>4. CASE /\ Applies(d) /\ ~command[d].dryRun
           /\ cluster'[o].live /\ cluster'[o].value = Current(d).value
  <2>1. CASE Applies(e) /\ Current(d).value = manifest[e][s.index].value
    BY <1>2, <1>4, <2>1 DEF Stays, Demanded
  <2>2. CASE Deletes(e) \/ Current(d).value # manifest[e][s.index].value
    <3>1. Current(d) \in Documents(command[d]) /\ Key(Current(d), command[d].ns) = o
      BY CurrentIsDocument DEF Settles
    <3>2. Contested(e, s.index)
      BY <1>4, <2>2, <3>1 DEF Contested
    <3> QED
      BY <1>2, <3>2, ContestedLasts DEF Stays
  <2> QED
    BY <1>1, <2>1, <2>2 DEF Wet
<1>5. CASE /\ ~Contested(e, s.index) /\ ~Applies(d)
           /\ ~cluster'[o].live \/ cluster'[o].doomed
           /\ \/ ~cluster'[o].live
              \/ cluster'[o].live = cluster[o].live /\ cluster'[o].value = cluster[o].value
  <2>1. CASE Applies(e)
    <3>1. ~cluster[o].live \/ (cluster[o].live /\ cluster[o].value = manifest[e][s.index].value)
      BY <1>5, <2>1 DEF Stays, Demanded
    <3> QED
      BY <1>2, <1>5, <2>1, <3>1 DEF Stays, Demanded
  <2>2. CASE ~Applies(e)
    BY <1>2, <1>5, <2>2 DEF Stays, Demanded
  <2> QED
    BY <2>1, <2>2
<1> QED
  BY <1>3, <1>4, <1>5 DEF Settles

\* An object that does not change stays as it was wanted.
LEMMA UntouchedStays ==
  ASSUME ApplyerInv, [ApplyerNext]_applyerVars,
         NEW e \in Dialers, NEW s \in settled[e], Stays(e, s),
         cluster'[Target(e, s.index)] = cluster[Target(e, s.index)]
  PROVE  Stays(e, s)'
<1>1. command[e] # NoCommand
  BY SettledFacts
<1>2. /\ command'[e] = command[e] /\ manifest'[e] = manifest[e]
      /\ Target(e, s.index)' = Target(e, s.index)
      /\ Applies(e)' = Applies(e)
  BY <1>1, OrdersKept DEF Target, Applies
<1>3. CASE Contested(e, s.index)
  BY <1>2, <1>3, ContestedLasts DEF Stays
<1>4. CASE ~Contested(e, s.index)
  BY <1>2, <1>4 DEF Stays, Demanded
<1> QED
  BY <1>3, <1>4

\* Once the other clients are at rest, only the garbage collector touches an
\* object besides the executions.
LEMMA CollectedStays ==
  ASSUME ApplyerInv, [ApplyerNext]_applyerVars, NEW p \in Objects,
         OthersWrite(p) \/ OthersDelete(p) \/ Collect(p),
         NEW e \in Dialers, NEW s \in settled[e], Stays(e, s)
  PROVE  Stays(e, s)'
<1> SUFFICES ASSUME s.rev > Writes PROVE Stays(e, s)'
  BY DEF Stays
<1>1. /\ s.rev \in Nat /\ revision \in Nat /\ s.rev <= revision /\ Writes \in Nat
      /\ command[e] # NoCommand /\ Target(e, s.index) \in Objects
  BY SettledFacts, ApplyerAssumption
<1>2. ~(revision < Writes) /\ ~(revision <= Writes)
  BY <1>1
<1>3. Collect(p) /\ Changed(p, Nothing)
  BY <1>2 DEF OthersWrite, OthersDelete, Collect
<1>4. ~cluster'[p].live
  BY <1>3, ChangedBumps, NothingIsObject DEF ApplyerInv
<1>5. CASE Target(e, s.index) = p
  <2>1. Target(e, s.index)' = p /\ Applies(e)' = Applies(e)
    BY <1>1, <1>5, OrdersKept DEF Target, Applies
  <2> QED
    BY <1>4, <2>1 DEF Stays, Demanded
<1>6. CASE Target(e, s.index) # p
  <2>1. cluster'[Target(e, s.index)] = cluster[Target(e, s.index)]
    BY <1>1, <1>3, <1>6 DEF Changed, ApplyerInv, ApplyerTypeOK
  <2> QED
    BY <2>1, UntouchedStays
<1> QED
  BY <1>5, <1>6

\* A step keeps what was settled, and what it settles is as demanded.
LEMMA NextStays ==
  ASSUME ApplyerInv, UncontestedStays, [ApplyerNext]_applyerVars
  PROVE  UncontestedStays'
<1> SUFFICES ASSUME NEW e \in Dialers, NEW s \in settled'[e]
             PROVE  Stays(e, s)'
  BY DEF UncontestedStays, Stays
<1>1. s \in settled[e] => Stays(e, s)
  BY DEF UncontestedStays, Stays
<1>2. CASE UNCHANGED <<clusterVars, settled>>
  BY <1>1, <1>2, UntouchedStays DEF clusterVars
<1>3. ASSUME NEW d \in Dialers, Settles(d)
      PROVE  Stays(e, s)'
  <2>1. settled' = [settled EXCEPT ![d] = settled[d] \cup {[index |-> cursor[d], rev |-> revision']}]
    BY <1>3 DEF Settles, Settled
  <2>2. CASE s \in settled[e]
    <3>1. Target(e, s.index) \in Objects
      BY <2>2, SettledFacts
    <3>2. CASE Target(e, s.index) = Place(d)
      <4>1. CASE s.rev > Writes
        BY <1>1, <1>3, <2>2, <3>2, <4>1, SettledAgain
      <4> QED
        BY <4>1 DEF Stays
    <3>3. CASE Target(e, s.index) # Place(d)
      BY <1>1, <1>3, <2>2, <3>1, <3>3, UntouchedStays DEF Settles
    <3> QED
      BY <3>2, <3>3
  <2>3. CASE e = d /\ s.index = cursor[d]
    <3>1. /\ Target(d, s.index)' = Place(d) /\ Applies(d)' = Applies(d)
          /\ manifest'[d][s.index] = Current(d)
      BY <1>3, <2>3 DEF Settles, Target, Place, Applies, Current
    <3> QED
      BY <1>3, <2>3, <3>1 DEF Settles, Stays, Demanded
  <2> QED
    BY <2>1, <2>2, <2>3 DEF ApplyerInv, ApplyerTypeOK
<1>4. ASSUME NEW p \in Objects, OthersWrite(p) \/ OthersDelete(p) \/ Collect(p)
      PROVE  Stays(e, s)'
  <2>1. s \in settled[e]
    BY <1>4 DEF OthersWrite, OthersDelete, Collect, dialerVars
  <2> QED
    BY <1>1, <1>4, <2>1, CollectedStays
<1> QED
  BY <1>2, <1>3, <1>4, EffectOfStep DEF ApplyerNext, applyerVars, clusterVars

\* Once the other clients are at rest, nobody undoes what was settled but who
\* wants something else: an uncontested object that was applied never has another
\* value, though a delete may take it away, and one that was deleted never comes
\* back.
THEOREM UncontestedLasts == ApplyerSpec => []UncontestedStays
<1>1. ApplyerInit => UncontestedStays
  BY DEF ApplyerInit, UncontestedStays
<1>2. ApplyerInv /\ UncontestedStays /\ [ApplyerNext]_applyerVars => UncontestedStays'
  BY NextStays
<1> QED
  BY <1>1, <1>2, ApplyerInvariance, PTL DEF ApplyerSpec
=============================================================================
