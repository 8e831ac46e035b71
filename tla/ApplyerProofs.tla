---------------------------- MODULE ApplyerProofs ---------------------------
(***************************************************************************)
(* Proofs about Applyer, for any manifests and commands, any number of     *)
(* executions, other writers without bound, and whatever fails.            *)
(***************************************************************************)
EXTENDS Applyer, SequenceTheorems, TLAPS

-----------------------------------------------------------------------------
\* Data

\* The documents of a manifest are numbered from 1.
LEMMA ManifestDomain ==
  ASSUME ApplyerTypeOK, NEW d \in Dialers
  PROVE  Len(manifest[d]) \in Nat /\ DOMAIN manifest[d] = 1..Len(manifest[d])
BY LenProperties DEF ApplyerTypeOK

\* A concatenation holds what was concatenated.
LEMMA ConcatHolds ==
  ASSUME NEW S, NEW a \in Seq(S), NEW c \in Seq(S)
  PROVE  /\ \A i \in DOMAIN a : i \in DOMAIN (a \o c) /\ (a \o c)[i] = a[i]
         /\ \A i \in DOMAIN c : \E j \in DOMAIN (a \o c) : (a \o c)[j] = c[i]
<1> DEFINE m == a \o c
<1>1. /\ Len(a) \in Nat /\ DOMAIN a = 1..Len(a)
      /\ Len(c) \in Nat /\ DOMAIN c = 1..Len(c)
  BY LenProperties
<1>2. /\ m \in Seq(S) /\ Len(m) = Len(a) + Len(c)
      /\ \A i \in 1..Len(a) + Len(c) : m[i] = IF i <= Len(a) THEN a[i] ELSE c[i - Len(a)]
  BY ConcatProperties
<1>3. DOMAIN m = 1..Len(a) + Len(c)
  BY <1>2, LenProperties
<1> HIDE DEF m
<1>4. \A i \in DOMAIN a : i \in DOMAIN m /\ m[i] = a[i]
  BY <1>1, <1>2, <1>3
<1>5. ASSUME NEW i \in DOMAIN c
      PROVE  \E j \in DOMAIN m : m[j] = c[i]
  <2>1. /\ Len(a) + i \in 1..Len(a) + Len(c) /\ ~(Len(a) + i <= Len(a))
        /\ (Len(a) + i) - Len(a) = i
    BY <1>1
  <2> QED
    BY <1>2, <1>3, <2>1
<1> QED
  BY <1>4, <1>5 DEF m

\* It holds nothing else.
LEMMA ConcatHoldsOnly ==
  ASSUME NEW S, NEW a \in Seq(S), NEW c \in Seq(S)
  PROVE  \A j \in DOMAIN (a \o c) :
           (j \in DOMAIN a /\ (a \o c)[j] = a[j]) \/ \E i \in DOMAIN c : (a \o c)[j] = c[i]
<1> DEFINE m == a \o c
<1>1. /\ Len(a) \in Nat /\ DOMAIN a = 1..Len(a)
      /\ Len(c) \in Nat /\ DOMAIN c = 1..Len(c)
  BY LenProperties
<1>2. /\ m \in Seq(S) /\ Len(m) = Len(a) + Len(c)
      /\ \A i \in 1..Len(a) + Len(c) : m[i] = IF i <= Len(a) THEN a[i] ELSE c[i - Len(a)]
  BY ConcatProperties
<1>3. DOMAIN m = 1..Len(a) + Len(c)
  BY <1>2, LenProperties
<1> HIDE DEF m
<1>4. ASSUME NEW j \in DOMAIN m
      PROVE  (j \in DOMAIN a /\ m[j] = a[j]) \/ \E i \in DOMAIN c : m[j] = c[i]
  <2>1. CASE j <= Len(a)
    BY <1>1, <1>2, <1>3, <2>1
  <2>2. CASE ~(j <= Len(a))
    <3>1. j - Len(a) \in DOMAIN c /\ m[j] = c[j - Len(a)]
      BY <1>1, <1>2, <1>3, <2>2
    <3> QED
      BY <3>1
  <2> QED
    BY <2>1, <2>2
<1> QED
  BY <1>4 DEF m

\* What a file of a command holds are its documents.
LEMMA DocumentOf ==
  ASSUME NEW c, NEW f \in c.files, NEW i \in DOMAIN Content[f], Content[f][i] # Malformed
  PROVE  Content[f][i] \in Documents(c)
<1>1. Content[f][i] \in {Content[f][k] : k \in DOMAIN Content[f]}
  OBVIOUS
<1>2. {Content[f][k] : k \in DOMAIN Content[f]}
        \in {{Content[g][k] : k \in DOMAIN Content[g]} : g \in c.files}
  OBVIOUS
<1> QED
  BY <1>1, <1>2 DEF Documents

\* An object that was decoded has a place in the cluster.
LEMMA TargetIsObject ==
  ASSUME ApplyerTypeOK, NEW d \in Dialers, command[d] # NoCommand,
         NEW i \in DOMAIN manifest[d], manifest[d][i] # Malformed
  PROVE  Target(d, i) \in Objects /\ manifest[d][i].value \in Values
<1>1. manifest[d] \in Seq(Entry \cup {Malformed}) /\ command[d] \in Command
  BY DEF ApplyerTypeOK
<1>2. manifest[d][i] \in Entry
  BY <1>1, ElementOfSeq, ManifestDomain
<1>3. command[d].ns \in Namespaces \cup {NoNamespace}
  BY <1>1 DEF Command
<1> QED
  BY <1>2, <1>3 DEF Target, Key, Objects, Entry

\* The mark of what does not exist is typed.
LEMMA NothingIsObject == Nothing \in Object /\ ~Nothing.live
BY ApplyerAssumption DEF Nothing, Object

\* The objects and jobs a loop is about.
LEMMA PlaceIsObject ==
  ASSUME ApplyerInv, NEW d \in Dialers, InLoop(d), cursor[d] \in DOMAIN manifest[d]
  PROVE  Place(d) \in Objects /\ Current(d).value \in Values
BY TargetIsObject
DEF ApplyerInv, ExecutionInv, LoopIsDecoded, LoopHasOperation, InLoop, Decodable, Place, Current

\* The object at hand is one that the command names.
LEMMA CurrentIsDocument ==
  ASSUME ApplyerInv, NEW d \in Dialers, InLoop(d), cursor[d] \in DOMAIN manifest[d]
  PROVE  /\ Current(d) \in Documents(command[d])
         /\ Key(Current(d), command[d].ns) = Place(d)
BY DEF ApplyerInv, ExecutionInv, LoopIsDecoded, InLoop, Decodable, Current, Place, Target

-----------------------------------------------------------------------------
\* What happens to the cluster

\* Objects stay as they are or get the next revision.
Bumps ==
  /\ cluster' \in [Objects -> Object]
  /\ revision' \in Nat /\ revision' >= revision
  /\ \A o \in Objects :
       cluster'[o] = cluster[o] \/ (cluster'[o].rv = revision + 1 /\ revision' = revision + 1)

\* A call without effect keeps versions in order.
LEMMA NothingBumps == ASSUME ApplyerTypeOK, UNCHANGED clusterVars PROVE Bumps
BY DEF ApplyerTypeOK, Bumps, clusterVars

\* So does any change of an object,
LEMMA ChangedBumps ==
  ASSUME ApplyerTypeOK, NEW o \in Objects, NEW new \in Object, Changed(o, new)
  PROVE  /\ Bumps
         /\ cluster'[o].live = new.live /\ cluster'[o].value = new.value
         /\ cluster'[o].doomed = new.doomed
<1> DEFINE t == [new EXCEPT !.rv = revision + 1]
<1>1. revision + 1 \in Nat /\ revision + 1 >= revision
  BY DEF ApplyerTypeOK
<1>2. /\ t \in Object /\ t.rv = revision + 1
      /\ t.live = new.live /\ t.value = new.value /\ t.doomed = new.doomed
  BY <1>1 DEF Object
<1>3. cluster \in [Objects -> Object]
  BY DEF ApplyerTypeOK
<1>4. cluster' = [cluster EXCEPT ![o] = t] /\ revision' = revision + 1
  BY DEF Changed
<1> HIDE DEF t
<1> QED
  BY <1>1, <1>2, <1>3, <1>4 DEF Bumps

\* any write,
LEMMA WrittenBumps ==
  ASSUME ApplyerTypeOK, NEW o \in Objects, NEW v \in Values, NEW a \in BOOLEAN, Written(o, v, a)
  PROVE  Bumps /\ cluster'[o].live /\ cluster'[o].value = v
<1> DEFINE new == [cluster[o] EXCEPT !.live = TRUE, !.value = v, !.applied = a]
<1>1. cluster[o] \in Object
  BY DEF ApplyerTypeOK
<1>2. new \in Object /\ new.live /\ new.value = v
  BY <1>1 DEF Object
<1> HIDE DEF new
<1>3. CASE new = cluster[o] /\ UNCHANGED clusterVars
  BY <1>2, <1>3, NothingBumps DEF clusterVars
<1>4. CASE Changed(o, new)
  BY <1>2, <1>4, ChangedBumps
<1> QED
  BY <1>3, <1>4 DEF Written, new

\* and any deletion.
LEMMA DeletedBumps ==
  ASSUME ApplyerTypeOK, NEW o \in Objects, NEW fg \in BOOLEAN, Deleted(o, fg)
  PROVE  Bumps /\ (~cluster'[o].live \/ cluster'[o].doomed)
<1>1. cluster[o] \in Object
  BY DEF ApplyerTypeOK
<1>2. CASE fg /\ cluster[o].doomed /\ UNCHANGED clusterVars
  BY <1>2, NothingBumps DEF clusterVars
<1>3. CASE Changed(o, [cluster[o] EXCEPT !.doomed = TRUE])
  <2>1. LET new == [cluster[o] EXCEPT !.doomed = TRUE] IN new \in Object /\ new.doomed
    BY <1>1 DEF Object
  <2> QED
    BY <1>3, <2>1, ChangedBumps
<1>4. CASE Changed(o, Nothing)
  BY <1>4, NothingIsObject, ChangedBumps
<1> QED
  BY <1>2, <1>3, <1>4 DEF Deleted

\* The loop invariant of an execution survives what others do to the cluster.
Same(d) ==
  /\ command'[d] = command[d] /\ left'[d] = left[d] /\ manifest'[d] = manifest[d]
  /\ cursor'[d] = cursor[d] /\ pc'[d] = pc[d] /\ copy'[d] = copy[d]
  /\ settled'[d] = settled[d] /\ outcome'[d] = outcome[d]

\* What was settled stays in place, or is changed by a later revision.
LEMMA InPlaceKept ==
  ASSUME ApplyerInv, Bumps, NEW d \in Dialers,
         command'[d] = command[d], manifest'[d] = manifest[d],
         NEW s \in settled[d]
  PROVE  /\ s.rev <= revision'
         /\ s.index \in DOMAIN manifest'[d]
         /\ Target(d, s.index)' = Target(d, s.index)
         /\ cluster'[Target(d, s.index)].rv > s.rev \/ Demanded(d, s.index)'
<1> USE DEF ApplyerInv, ExecutionInv
<1>1. s \in Settlement /\ s.rev \in Nat /\ s.rev <= revision /\ s.index \in DOMAIN manifest[d]
  BY DEF SettledIsInPlace, ApplyerTypeOK, Settlement
<1>2. command[d] # NoCommand /\ manifest[d][s.index] # Malformed
  BY <1>1 DEF LoopIsDecoded, LoopHasOperation, Decodable
<1>3. Target(d, s.index) \in Objects /\ Target(d, s.index)' = Target(d, s.index)
  BY <1>1, <1>2, TargetIsObject DEF Target
<1>4. revision \in Nat
  BY DEF ApplyerTypeOK
<1>5. CASE cluster'[Target(d, s.index)] = cluster[Target(d, s.index)]
  <2>1. Demanded(d, s.index)' = Demanded(d, s.index)
    BY <1>3, <1>5 DEF Demanded, Applies
  <2> QED
    BY <1>1, <1>3, <1>4, <1>5, <2>1 DEF SettledIsInPlace, Bumps
<1>6. CASE cluster'[Target(d, s.index)].rv = revision + 1 /\ revision' = revision + 1
  BY <1>1, <1>3, <1>4, <1>6
<1> QED
  BY <1>3, <1>5, <1>6 DEF Bumps

\* Other executions are not disturbed by what one of them does to the cluster.
LEMMA OthersKept ==
  ASSUME ApplyerInv, Bumps, NEW d \in Dialers, Same(d)
  PROVE  ExecutionInv(d)'
<1> USE DEF ApplyerInv, ExecutionInv, Same
<1>1. LoopHasOperation(d)'
  BY DEF LoopHasOperation, InLoop, Wet, Applies, Deletes
<1>2. LoopIsDecoded(d)'
  BY DEF LoopIsDecoded, InLoop, Decodable
<1>3. ReadIsVersion(d)'
  <2> SUFFICES ASSUME pc[d] = "update"
               PROVE  /\ copy[d].rv <= revision'
                      /\ cluster'[Place(d)].rv = copy[d].rv => cluster'[Place(d)] = copy[d]
    BY DEF ReadIsVersion, Place, Target
  <2>1. Place(d) \in Objects
    BY PlaceIsObject DEF InLoop, LoopHasOperation
  <2>2. copy[d].rv \in Nat /\ copy[d].rv <= revision /\ revision \in Nat
    BY DEF ApplyerTypeOK, Object, ReadIsVersion
  <2> QED
    BY <2>1, <2>2 DEF ReadIsVersion, Bumps
<1>4. PassedIsSettled(d)'
  BY DEF PassedIsSettled, InLoop, Wet, Applies, Deletes, SettledAt
<1>5. SettledIsInPlace(d)'
  BY InPlaceKept DEF SettledIsInPlace
<1>6. InOrder(d)'
  BY DEF InOrder, Applies
<1> QED
  BY <1>1, <1>2, <1>3, <1>4, <1>5, <1>6

\* So a step of one execution keeps the invariant when it keeps its own part.
LEMMA StepKept ==
  ASSUME ApplyerInv, NEW d \in Dialers, ApplyerTypeOK', Bumps,
         \A e \in Dialers \ {d} : Same(e), ExecutionInv(d)'
  PROVE  ApplyerInv'
<1>1. \A o \in Objects : cluster'[o].rv <= revision'
  BY DEF ApplyerInv, ApplyerTypeOK, Bumps, Object
<1>2. \A e \in Dialers : ExecutionInv(e)'
  BY OthersKept
<1> QED
  BY <1>1, <1>2 DEF ApplyerInv

-----------------------------------------------------------------------------
\* Before the loop

\* A process starts with all the files of its command, and nothing settled.
LEMMA StartKept ==
  ASSUME ApplyerInv, NEW d \in Dialers, Start(d)
  PROVE  ApplyerInv'
<1> USE DEF ApplyerInv, ExecutionInv
<1>1. PICK c \in Options :
        command' = [command EXCEPT ![d] = c] /\ left' = [left EXCEPT ![d] = c.files]
  BY DEF Start
<1>2. c \in Command /\ c # NoCommand /\ c.files \in SUBSET Files
  BY ApplyerAssumption DEF Command
<1>3. pc' = [pc EXCEPT ![d] = "concat"] /\ UNCHANGED outcome
  BY DEF Start, Move
<1>4. ApplyerTypeOK'
  BY <1>1, <1>2, <1>3 DEF Start, ApplyerTypeOK, clusterVars
<1>5. Bumps /\ \A e \in Dialers \ {d} : Same(e)
  BY <1>1, <1>3, NothingBumps DEF Start, Same, ApplyerTypeOK
<1>6. /\ settled'[d] = {} /\ outcome'[d] = "none" /\ pc'[d] = "concat"
      /\ manifest'[d] = <<>>
  BY <1>3 DEF Start, LoopIsDecoded, LoopHasOperation, ApplyerTypeOK
<1>7. command'[d] = c /\ left'[d] = c.files
  BY <1>1 DEF ApplyerTypeOK
<1>8. LoopHasOperation(d)' /\ LoopIsDecoded(d)'
  BY <1>2, <1>6, <1>7 DEF LoopHasOperation, LoopIsDecoded, InLoop
<1>9. ReadIsVersion(d)' /\ PassedIsSettled(d)' /\ SettledIsInPlace(d)' /\ InOrder(d)'
  BY <1>6 DEF ReadIsVersion, PassedIsSettled, SettledIsInPlace, InOrder, InLoop
<1> QED
  BY <1>4, <1>5, <1>8, <1>9, StepKept

\* A manifest that grows by a file holds what it held, what is in the file, and
\* nothing else.
LEMMA ManifestGrows ==
  ASSUME ApplyerTypeOK, NEW d \in Dialers, NEW f \in Files
  PROVE  LET m == manifest[d] \o Content[f]
         IN /\ m \in Seq(Entry \cup {Malformed})
            /\ \A i \in DOMAIN manifest[d] : i \in DOMAIN m /\ m[i] = manifest[d][i]
            /\ \A i \in DOMAIN Content[f] : \E j \in DOMAIN m : m[j] = Content[f][i]
            /\ \A j \in DOMAIN m :
                 \/ j \in DOMAIN manifest[d] /\ m[j] = manifest[d][j]
                 \/ \E i \in DOMAIN Content[f] : m[j] = Content[f][i]
<1> DEFINE S == Entry \cup {Malformed}
<1>1. manifest[d] \in Seq(S) /\ Content[f] \in Seq(S)
  BY ApplyerAssumption DEF ApplyerTypeOK
<1> HIDE DEF S
<1>2. \A a, c \in Seq(S) :
        /\ a \o c \in Seq(S)
        /\ \A i \in DOMAIN a : i \in DOMAIN (a \o c) /\ (a \o c)[i] = a[i]
        /\ \A i \in DOMAIN c : \E j \in DOMAIN (a \o c) : (a \o c)[j] = c[i]
        /\ \A j \in DOMAIN (a \o c) :
             (j \in DOMAIN a /\ (a \o c)[j] = a[j]) \/ \E i \in DOMAIN c : (a \o c)[j] = c[i]
  BY ConcatHolds, ConcatHoldsOnly, ConcatProperties
<1> QED
  BY <1>1, <1>2 DEF S

\* A file more in the manifest is a file less to be read.
LEMMA ConcatenateKept ==
  ASSUME ApplyerInv, NEW d \in Dialers, Concatenate(d)
  PROVE  ApplyerInv'
<1> USE DEF ApplyerInv, ExecutionInv
<1>1. PICK f \in left[d] :
        /\ left' = [left EXCEPT ![d] = left[d] \ {f}]
        /\ manifest' = [manifest EXCEPT ![d] = manifest[d] \o Content[f]]
  BY DEF Concatenate
<1>2. f \in Files
  BY DEF ApplyerTypeOK
<1> DEFINE m == manifest[d] \o Content[f]
<1>4. m \in Seq(Entry \cup {Malformed})
  BY <1>2, ManifestGrows
<1>5. \A i \in DOMAIN manifest[d] : i \in DOMAIN m /\ m[i] = manifest[d][i]
  BY <1>2, ManifestGrows
<1>6. \A i \in DOMAIN Content[f] : \E j \in DOMAIN m : m[j] = Content[f][i]
  BY <1>2, ManifestGrows
<1>7. \A j \in DOMAIN m :
        \/ j \in DOMAIN manifest[d] /\ m[j] = manifest[d][j]
        \/ \E i \in DOMAIN Content[f] : m[j] = Content[f][i]
  BY <1>2, ManifestGrows
<1> HIDE DEF m
<1>8. manifest'[d] = m /\ left'[d] = left[d] \ {f}
  BY <1>1 DEF ApplyerTypeOK, m
<1>9. ApplyerTypeOK'
  BY <1>1, <1>4 DEF ApplyerTypeOK, Concatenate, clusterVars, m
<1>10. Bumps /\ \A e \in Dialers \ {d} : Same(e)
  BY <1>1, NothingBumps DEF Concatenate, Same, ApplyerTypeOK
<1>11. pc[d] = "concat" /\ settled[d] = {} /\ outcome[d] = "none"
       /\ UNCHANGED <<command, pc, settled, outcome>>
  BY DEF Concatenate, LoopIsDecoded, LoopHasOperation, ApplyerTypeOK
<1>12. LoopHasOperation(d)'
  BY <1>11 DEF LoopHasOperation, InLoop
<1>13. LoopIsDecoded(d)'
  <2>1. left[d] \subseteq command[d].files /\ f \in command[d].files
    BY <1>11 DEF LoopIsDecoded
  <2>2. ASSUME NEW g \in command[d].files \ left'[d], NEW i \in DOMAIN Content[g]
        PROVE  \E j \in DOMAIN m : m[j] = Content[g][i]
    <3>1. CASE g = f
      BY <1>6, <3>1
    <3>2. CASE g # f
      <4>1. PICK j \in DOMAIN manifest[d] : manifest[d][j] = Content[g][i]
        BY <1>8, <1>11, <2>2, <3>2 DEF LoopIsDecoded
      <4> QED
        BY <1>5, <4>1
    <3> QED
      BY <3>1, <3>2
  <2>3. ASSUME NEW j \in DOMAIN m, m[j] # Malformed
        PROVE  m[j] \in Documents(command[d])
    <3>1. CASE j \in DOMAIN manifest[d] /\ m[j] = manifest[d][j]
      BY <1>11, <2>3, <3>1 DEF LoopIsDecoded
    <3>2. CASE \E i \in DOMAIN Content[f] : m[j] = Content[f][i]
      BY <2>1, <2>3, <3>2, DocumentOf
    <3> QED
      BY <1>7, <3>1, <3>2
  <2>4. /\ pc'[d] = "concat" /\ settled'[d] = {} /\ command'[d] = command[d]
        /\ Documents(command[d])' = Documents(command[d])
    BY <1>11 DEF Documents
  <2>5. left'[d] \subseteq command'[d].files
    BY <1>8, <2>1, <2>4
  <2> QED
    BY <1>8, <2>2, <2>3, <2>4, <2>5 DEF LoopIsDecoded, InLoop, Documents
<1>14. ReadIsVersion(d)' /\ PassedIsSettled(d)' /\ SettledIsInPlace(d)' /\ InOrder(d)'
  BY <1>11 DEF ReadIsVersion, PassedIsSettled, SettledIsInPlace, InOrder, InLoop
<1> QED
  BY <1>9, <1>10, <1>12, <1>13, <1>14, StepKept

\* The loop starts with nothing settled, and nothing to be passed.
LEMMA DecodeKept ==
  ASSUME ApplyerInv, NEW d \in Dialers, Decode(d)
  PROVE  ApplyerInv'
<1> USE DEF ApplyerInv, ExecutionInv
<1>1. Len(manifest[d]) \in Nat /\ DOMAIN manifest[d] = 1..Len(manifest[d])
  BY ManifestDomain
<1>2. /\ pc[d] = "concat" /\ left[d] = {} /\ settled[d] = {} /\ outcome[d] = "none"
      /\ command[d] \in Command /\ command[d] # NoCommand
      /\ UNCHANGED <<clusterVars, command, left, manifest, copy, settled>>
  BY DEF Decode, LoopIsDecoded, LoopHasOperation, ApplyerTypeOK
<1>3. CASE /\ command[d].op # "unknown" /\ Decodable(d)
           /\ cursor' = [cursor EXCEPT ![d] = First(d)]
           /\ Move(d, "next")
  <2>1. command[d].op \in {"apply", "delete"}
    BY <1>2, <1>3 DEF Command
  <2>2. First(d) \in Nat /\ (Applies(d) => First(d) = 1) /\ (Deletes(d) => First(d) = Len(manifest[d]))
    BY <1>1 DEF First, Applies, Deletes
  <2>3. /\ cursor'[d] = First(d) /\ pc'[d] = "next" /\ outcome'[d] = "none"
        /\ pc' = [pc EXCEPT ![d] = "next"] /\ UNCHANGED outcome
    BY <1>2, <1>3 DEF Move, ApplyerTypeOK
  <2>4. ApplyerTypeOK'
    BY <1>2, <1>3, <2>2, <2>3 DEF ApplyerTypeOK, clusterVars
  <2>5. Bumps /\ \A e \in Dialers \ {d} : Same(e)
    BY <1>2, <1>3, <2>3, NothingBumps DEF Same, ApplyerTypeOK
  <2>6. LoopHasOperation(d)'
    BY <1>1, <1>2, <2>1, <2>2, <2>3 DEF LoopHasOperation, InLoop, Applies, Deletes
  <2>7. LoopIsDecoded(d)'
    BY <1>2, <1>3, <2>3 DEF LoopIsDecoded, InLoop, Decodable
  <2>8. PassedIsSettled(d)'
    BY <1>1, <1>2, <2>1, <2>2, <2>3 DEF PassedIsSettled, InLoop, Wet, Applies, Deletes
  <2>9. ReadIsVersion(d)' /\ SettledIsInPlace(d)' /\ InOrder(d)'
    BY <1>2, <2>3 DEF ReadIsVersion, SettledIsInPlace, InOrder
  <2> QED
    BY <2>4, <2>5, <2>6, <2>7, <2>8, <2>9, StepKept
<1>4. CASE UNCHANGED cursor /\ End(d, "failed")
  <2>1. /\ pc'[d] = "done" /\ outcome'[d] = "failed"
        /\ pc' = [pc EXCEPT ![d] = "done"] /\ outcome' = [outcome EXCEPT ![d] = "failed"]
    BY <1>4 DEF End, ApplyerTypeOK
  <2>2. ApplyerTypeOK'
    BY <1>2, <1>4, <2>1 DEF ApplyerTypeOK, clusterVars
  <2>3. Bumps /\ \A e \in Dialers \ {d} : Same(e)
    BY <1>2, <1>4, <2>1, NothingBumps DEF Same, ApplyerTypeOK
  <2>4. LoopHasOperation(d)' /\ LoopIsDecoded(d)'
    BY <1>2, <2>1 DEF LoopHasOperation, LoopIsDecoded, InLoop
  <2>5. ReadIsVersion(d)' /\ PassedIsSettled(d)' /\ SettledIsInPlace(d)' /\ InOrder(d)'
    BY <1>2, <2>1 DEF ReadIsVersion, PassedIsSettled, SettledIsInPlace, InOrder, InLoop
  <2> QED
    BY <2>2, <2>3, <2>4, <2>5, StepKept
<1> QED
  BY <1>3, <1>4 DEF Decode

-----------------------------------------------------------------------------
\* The loop

\* An execution that ends without touching an object keeps what it has done.
LEMMA EndKept ==
  ASSUME ApplyerInv, NEW d \in Dialers, pc[d] \notin {"idle", "done"},
         NEW verdict \in {"success", "failed", "lost"}, End(d, verdict),
         verdict = "success" => InLoop(d) /\ cursor[d] \notin DOMAIN manifest[d],
         UNCHANGED <<clusterVars, command, left, manifest, cursor, copy, settled>>
  PROVE  ApplyerInv'
<1> USE DEF ApplyerInv, ExecutionInv
<1>1. /\ pc'[d] = "done" /\ outcome'[d] = verdict
      /\ pc' = [pc EXCEPT ![d] = "done"] /\ outcome' = [outcome EXCEPT ![d] = verdict]
  BY DEF End, ApplyerTypeOK
<1>2. ApplyerTypeOK'
  BY <1>1 DEF ApplyerTypeOK, clusterVars
<1>3. Bumps /\ \A e \in Dialers \ {d} : Same(e)
  BY <1>1, NothingBumps DEF Same, ApplyerTypeOK
<1>4. LoopHasOperation(d)' /\ LoopIsDecoded(d)' /\ ReadIsVersion(d)'
  BY <1>1 DEF LoopHasOperation, LoopIsDecoded, ReadIsVersion, InLoop, Decodable, Wet, Applies, Deletes
<1>5. ASSUME verdict = "success", Wet(d), NEW i \in DOMAIN manifest[d]
      PROVE  SettledAt(d, i)
  <2>1. Len(manifest[d]) \in Nat /\ DOMAIN manifest[d] = 1..Len(manifest[d]) /\ cursor[d] \in Nat
    BY ManifestDomain DEF ApplyerTypeOK
  <2>2. CASE Applies(d)
    <3>1. ~Deletes(d)
      BY <2>2 DEF Applies, Deletes
    <3>2. cursor[d] > Len(manifest[d])
      BY <1>5, <2>1, <3>1 DEF LoopHasOperation
    <3> QED
      BY <1>5, <2>1, <2>2, <3>2 DEF PassedIsSettled
  <2>3. CASE ~Applies(d)
    <3>1. cursor[d] = 0
      BY <1>5, <2>1, <2>3 DEF LoopHasOperation
    <3> QED
      BY <1>5, <2>1, <2>3, <3>1 DEF PassedIsSettled
  <2> QED
    BY <2>2, <2>3
<1>6. PassedIsSettled(d)'
  BY <1>1, <1>5 DEF PassedIsSettled, InLoop, Wet, Applies, Deletes, SettledAt
<1>7. SettledIsInPlace(d)'
  BY <1>3, InPlaceKept DEF SettledIsInPlace
<1>8. InOrder(d)'
  BY DEF InOrder, Applies
<1> QED
  BY <1>2, <1>3, <1>4, <1>6, <1>7, <1>8, StepKept

\* Going on to the next object, or stopping at this one.
Leaves(d) == Advance(d) \/ (End(d, "failed") /\ UNCHANGED cursor)

\* A step without effect on the cluster settles nothing.
LEMMA LeavesEffect ==
  ASSUME ApplyerInv, NEW d \in Dialers, InLoop(d), cursor[d] \in DOMAIN manifest[d], Leaves(d)
  PROVE  /\ cursor' \in [Dialers -> Nat]
         /\ pc' \in [Dialers -> {"idle", "concat", "next", "create", "update", "done"}]
         /\ outcome' \in [Dialers -> {"none", "success", "failed", "lost"}]
         /\ \A e \in Dialers \ {d} :
              cursor'[e] = cursor[e] /\ pc'[e] = pc[e] /\ outcome'[e] = outcome[e]
         /\ \/ /\ pc'[d] = "next" /\ outcome'[d] = "none"
               /\ \/ Applies(d) /\ ~Deletes(d) /\ cursor'[d] = cursor[d] + 1
                  \/ Deletes(d) /\ ~Applies(d) /\ cursor'[d] = cursor[d] - 1
            \/ pc'[d] = "done" /\ outcome'[d] = "failed"
<1> USE DEF ApplyerInv, ExecutionInv
<1>1. cursor[d] \in Nat /\ cursor[d] >= 1
  BY ManifestDomain
<1>2. outcome[d] = "none" /\ (Applies(d) \/ Deletes(d))
  BY DEF LoopHasOperation, InLoop, ApplyerTypeOK
<1>3. CASE Advance(d)
  <2>1. \/ Applies(d) /\ ~Deletes(d) /\ command[d].op = "apply"
        \/ Deletes(d) /\ ~Applies(d) /\ command[d].op # "apply"
    BY <1>2 DEF Applies, Deletes
  <2> QED
    BY <1>1, <1>2, <1>3, <2>1 DEF Advance, Move, ApplyerTypeOK
<1>4. CASE End(d, "failed") /\ UNCHANGED cursor
  BY <1>4 DEF End, ApplyerTypeOK
<1> QED
  BY <1>3, <1>4 DEF Leaves

\* A dry run leaves an object without a change.
LEMMA PassKept ==
  ASSUME ApplyerInv, NEW d \in Dialers, InLoop(d), cursor[d] \in DOMAIN manifest[d],
         ~Wet(d), Leaves(d), UNCHANGED <<clusterVars, command, left, manifest, copy, settled>>
  PROVE  ApplyerInv'
<1> USE DEF ApplyerInv, ExecutionInv
<1>1. /\ cursor' \in [Dialers -> Nat]
      /\ pc' \in [Dialers -> {"idle", "concat", "next", "create", "update", "done"}]
      /\ outcome' \in [Dialers -> {"none", "success", "failed", "lost"}]
      /\ \A e \in Dialers \ {d} :
           cursor'[e] = cursor[e] /\ pc'[e] = pc[e] /\ outcome'[e] = outcome[e]
      /\ \/ /\ pc'[d] = "next" /\ outcome'[d] = "none"
            /\ \/ Applies(d) /\ ~Deletes(d) /\ cursor'[d] = cursor[d] + 1
               \/ Deletes(d) /\ ~Applies(d) /\ cursor'[d] = cursor[d] - 1
         \/ pc'[d] = "done" /\ outcome'[d] = "failed"
  BY LeavesEffect
<1>2. ApplyerTypeOK'
  BY <1>1 DEF ApplyerTypeOK, clusterVars
<1>3. Bumps /\ \A e \in Dialers \ {d} : Same(e)
  BY <1>1, NothingBumps DEF Same
<1>4. LoopHasOperation(d)'
  BY <1>1, ManifestDomain DEF LoopHasOperation, InLoop, Applies, Deletes, Wet
<1>5. LoopIsDecoded(d)' /\ ReadIsVersion(d)'
  BY <1>1 DEF LoopIsDecoded, ReadIsVersion, InLoop, Decodable
<1>6. PassedIsSettled(d)'
  BY <1>1 DEF PassedIsSettled, Wet, Applies, Deletes
<1>7. SettledIsInPlace(d)'
  BY <1>3, InPlaceKept DEF SettledIsInPlace
<1>8. InOrder(d)'
  BY DEF InOrder, Applies
<1> QED
  BY <1>2, <1>3, <1>4, <1>5, <1>6, <1>7, <1>8, StepKept

\* The object at hand is settled: it is as demanded, and all that comes before
\* it in the order of the loop was settled earlier.
LEMMA SettleKept ==
  ASSUME ApplyerInv, NEW d \in Dialers, InLoop(d), cursor[d] \in DOMAIN manifest[d],
         NEW at \in DOMAIN manifest[d], at = cursor[d],
         Wet(d), Bumps, Demanded(d, at)', Settled(d), Leaves(d),
         UNCHANGED <<command, left, manifest, copy>>
  PROVE  ApplyerInv'
<1> DEFINE now == [index |-> at, rev |-> revision']
<1>1. /\ cursor' \in [Dialers -> Nat]
      /\ pc' \in [Dialers -> {"idle", "concat", "next", "create", "update", "done"}]
      /\ outcome' \in [Dialers -> {"none", "success", "failed", "lost"}]
      /\ \A e \in Dialers \ {d} :
           cursor'[e] = cursor[e] /\ pc'[e] = pc[e] /\ outcome'[e] = outcome[e]
      /\ \/ /\ pc'[d] = "next" /\ outcome'[d] = "none"
            /\ \/ Applies(d) /\ ~Deletes(d) /\ cursor'[d] = cursor[d] + 1
               \/ Deletes(d) /\ ~Applies(d) /\ cursor'[d] = cursor[d] - 1
         \/ pc'[d] = "done" /\ outcome'[d] = "failed"
  BY LeavesEffect
<1>2. cursor[d] \in Nat /\ Len(manifest[d]) \in Nat /\ DOMAIN manifest[d] = 1..Len(manifest[d])
  BY ManifestDomain DEF ApplyerInv, ApplyerTypeOK
<1>3. now \in Settlement /\ now.index = at /\ now.rev = revision'
  BY <1>2 DEF Bumps, Settlement
<1>4. /\ settled' \in [Dialers -> SUBSET Settlement]
      /\ settled'[d] = settled[d] \cup {now}
      /\ \A e \in Dialers \ {d} : settled'[e] = settled[e]
  BY <1>3 DEF Settled, ApplyerInv, ApplyerTypeOK
<1> HIDE DEF now
<1>5. ApplyerTypeOK'
  BY <1>1, <1>4 DEF ApplyerInv, ApplyerTypeOK, Bumps
<1>6. \A e \in Dialers \ {d} : Same(e)
  BY <1>1, <1>4 DEF Same
<1> USE DEF ApplyerInv, ExecutionInv
<1>7. LoopHasOperation(d)'
  BY <1>1, <1>2 DEF LoopHasOperation, InLoop, Wet, Applies, Deletes
<1>8. LoopIsDecoded(d)' /\ ReadIsVersion(d)'
  BY <1>1 DEF LoopIsDecoded, ReadIsVersion, InLoop, Decodable
<1>9. PassedIsSettled(d)'
  <2>1. SettledAt(d, at)' /\ \A i : SettledAt(d, i) => SettledAt(d, i)'
    BY <1>3, <1>4 DEF SettledAt
  <2>2. Wet(d)' = Wet(d) /\ Applies(d)' = Applies(d)
    BY DEF Wet, Applies, Deletes
  <2>3. ASSUME pc'[d] = "next", Wet(d), NEW i \in DOMAIN manifest[d],
               IF Applies(d) THEN i < cursor'[d] ELSE i > cursor'[d]
        PROVE  SettledAt(d, i)'
    <3>1. i = at \/ (IF Applies(d) THEN i < cursor[d] ELSE i > cursor[d])
      BY <1>1, <1>2, <2>3
    <3> QED
      BY <2>1, <2>3, <3>1 DEF PassedIsSettled
  <2> QED
    BY <1>1, <2>2, <2>3 DEF PassedIsSettled, InLoop
<1>10. SettledIsInPlace(d)'
  <2> SUFFICES ASSUME NEW s \in settled'[d]
               PROVE  /\ s.rev <= revision'
                      /\ s.index \in DOMAIN manifest'[d]
                      /\ cluster'[Target(d, s.index)'].rv > s.rev \/ Demanded(d, s.index)'
    BY DEF SettledIsInPlace
  <2>1. CASE s = now
    BY <1>3, <2>1 DEF Bumps
  <2>2. CASE s \in settled[d]
    BY <2>2, InPlaceKept
  <2> QED
    BY <1>4, <2>1, <2>2
<1>11. InOrder(d)'
  <2> SUFFICES ASSUME NEW s \in settled'[d], NEW j \in DOMAIN manifest[d],
                      IF Applies(d) THEN j < s.index ELSE j > s.index
               PROVE  \E t \in settled'[d] : t.index = j /\ t.rev <= s.rev
    BY DEF InOrder, Applies
  <2>1. CASE s = now
    <3>1. PICK t \in settled[d] : t.index = j
      BY <1>3, <2>1 DEF PassedIsSettled, SettledAt
    <3>2. t.rev \in Nat /\ t.rev <= revision /\ revision \in Nat
      BY DEF SettledIsInPlace, ApplyerTypeOK, Settlement
    <3> QED
      BY <1>3, <1>4, <2>1, <3>1, <3>2 DEF Bumps
  <2>2. CASE s \in settled[d]
    BY <1>4, <2>2 DEF InOrder
  <2> QED
    BY <1>4, <2>1, <2>2
<1> QED
  BY <1>5, <1>6, <1>7, <1>8, <1>9, <1>10, <1>11, StepKept

\* Looking at an object that is there keeps it in hand as it is.
LEMMA GetObjectKept ==
  ASSUME ApplyerInv, NEW d \in Dialers, GetObject(d)
  PROVE  ApplyerInv'
<1>1. /\ pc[d] = "next" /\ InLoop(d) /\ cursor[d] \in DOMAIN manifest[d]
      /\ Applies(d) /\ ~Deletes(d) /\ outcome[d] = "none"
      /\ UNCHANGED <<command, left, manifest>>
  BY DEF GetObject, At, InLoop, Applies, Deletes, ApplyerInv, ApplyerTypeOK, ExecutionInv,
         LoopHasOperation
<1>2. Place(d) \in Objects
  BY <1>1, PlaceIsObject
<1>3. CASE UNCHANGED copy /\ Stop(d)
  BY <1>1, <1>3, EndKept DEF Stop
<1>4. ASSUME NEW next \in {"create", "update"}, Move(d, next), NEW c \in Object,
             copy' = [copy EXCEPT ![d] = c], next = "update" => c = cluster[Place(d)],
             UNCHANGED <<clusterVars, cursor, settled>>
      PROVE  ApplyerInv'
  <2> USE <1>4 DEF ApplyerInv, ExecutionInv
  <2>1. pc' = [pc EXCEPT ![d] = next] /\ pc'[d] = next /\ UNCHANGED outcome
    BY DEF Move, ApplyerTypeOK
  <2>2. ApplyerTypeOK' /\ Bumps /\ \A e \in Dialers \ {d} : Same(e)
    BY <1>1, <2>1, NothingBumps DEF ApplyerTypeOK, clusterVars, Same
  <2>3. LoopHasOperation(d)'
    BY <1>1, <2>1 DEF LoopHasOperation, InLoop, Wet, Applies, Deletes
  <2>4. LoopIsDecoded(d)'
    BY <1>1, <2>1 DEF LoopIsDecoded, InLoop, Decodable
  <2>5. ReadIsVersion(d)'
    <3>1. Place(d)' = Place(d)
      BY <1>1 DEF Place, Target
    <3>2. next = "update" => copy'[d] = cluster[Place(d)]
      BY DEF ApplyerTypeOK
    <3> QED
      BY <1>2, <2>1, <3>1, <3>2 DEF ReadIsVersion, clusterVars
  <2>6. PassedIsSettled(d)'
    BY <1>1, <2>1 DEF PassedIsSettled, InLoop, Wet, Applies, Deletes, SettledAt
  <2>7. SettledIsInPlace(d)'
    BY <1>1, <2>2, InPlaceKept DEF SettledIsInPlace
  <2>8. InOrder(d)'
    BY <1>1 DEF InOrder, Applies
  <2> QED
    BY <2>2, <2>3, <2>4, <2>5, <2>6, <2>7, <2>8, StepKept
<1>5. CASE /\ cluster[Place(d)].live
           /\ copy' = [copy EXCEPT ![d] = cluster[Place(d)]]
           /\ Move(d, "update")
           /\ UNCHANGED <<clusterVars, cursor, settled>>
  <2>1. cluster[Place(d)] \in Object
    BY <1>2 DEF ApplyerInv, ApplyerTypeOK
  <2> QED
    BY <1>4, <1>5, <2>1
<1>6. CASE Move(d, "create") /\ UNCHANGED <<clusterVars, cursor, settled, copy>>
  <2>1. copy[d] \in Object /\ copy' = [copy EXCEPT ![d] = copy[d]]
    BY <1>6 DEF ApplyerInv, ApplyerTypeOK
  <2> QED
    BY <1>4, <1>6, <2>1
<1> QED
  BY <1>3, <1>5, <1>6 DEF GetObject

\* Writing an object settles it, or is a dry run.
LEMMA PutKept ==
  ASSUME ApplyerInv, NEW d \in Dialers, InLoop(d), cursor[d] \in DOMAIN manifest[d],
         Applies(d), NEW a \in BOOLEAN, PutOrBroken(d, a),
         UNCHANGED <<command, left, manifest, copy>>
  PROVE  ApplyerInv'
<1>1. Leaves(d) /\ ~Deletes(d)
  BY DEF PutOrBroken, Leaves, Applies, Deletes
<1>2. command[d].dryRun \in BOOLEAN
  BY DEF ApplyerInv, ApplyerTypeOK, Command, Applies
<1>3. CASE command[d].dryRun
  <2>1. UNCHANGED <<clusterVars, settled>> /\ ~Wet(d)
    BY <1>1, <1>3 DEF PutOrBroken, Put, Wet
  <2> QED
    BY <1>1, <2>1, PassKept
<1>4. CASE ~command[d].dryRun
  <2>1. Written(Place(d), Current(d).value, a) /\ Settled(d) /\ Wet(d)
    BY <1>4 DEF PutOrBroken, Put, Wet
  <2>2. Place(d) \in Objects /\ Current(d).value \in Values
    BY PlaceIsObject
  <2>3. Bumps /\ cluster'[Place(d)].live /\ cluster'[Place(d)].value = Current(d).value
    BY <2>1, <2>2, WrittenBumps DEF ApplyerInv
  <2>4. PICK at \in DOMAIN manifest[d] : at = cursor[d]
    OBVIOUS
  <2>5. Demanded(d, at)'
    BY <2>3, <2>4 DEF Demanded, Place, Current, Target, Applies
  <2> QED
    BY <1>1, <2>1, <2>3, <2>4, <2>5, SettleKept
<1> QED
  BY <1>2, <1>3, <1>4

\* What being at an object means.
LEMMA AtObject ==
  ASSUME ApplyerInv, NEW d \in Dialers, NEW step \in {"next", "create", "update"}, NEW op,
         At(d, step, op)
  PROVE  /\ InLoop(d) /\ pc[d] = step /\ cursor[d] \in DOMAIN manifest[d]
         /\ command[d] # NoCommand
         /\ op = "apply" => Applies(d)
         /\ op = "delete" => Deletes(d) /\ Wet(d)
BY DEF At, InLoop, ApplyerInv, ExecutionInv, LoopHasOperation, Applies, Deletes, Wet

\* An execution that stops at an object keeps what it has settled.
LEMMA StopKept ==
  ASSUME ApplyerInv, NEW d \in Dialers, InLoop(d), Stop(d),
         UNCHANGED <<command, left, manifest, copy>>
  PROVE  ApplyerInv'
BY EndKept DEF Stop, InLoop

\* Server-side apply settles the object at hand.
LEMMA PatchKept ==
  ASSUME ApplyerInv, NEW d \in Dialers, Patch(d)
  PROVE  ApplyerInv'
<1>1. At(d, "next", "apply") /\ UNCHANGED <<command, left, manifest, copy>>
  BY DEF Patch
<1>2. InLoop(d) /\ cursor[d] \in DOMAIN manifest[d] /\ Applies(d)
  BY <1>1, AtObject
<1>3. CASE Stop(d)
  BY <1>1, <1>2, <1>3, StopKept
<1> DEFINE own == ~cluster[Place(d)].live \/ cluster[Place(d)].applied
                    \/ cluster[Place(d)].value # Current(d).value
<1>4. CASE PutOrBroken(d, own)
  <2>1. Place(d) \in Objects
    BY <1>2, PlaceIsObject
  <2>2. own \in BOOLEAN
    BY <2>1 DEF ApplyerInv, ApplyerTypeOK, Object
  <2> HIDE DEF own
  <2> QED
    BY <1>1, <1>2, <1>4, <2>2, PutKept
<1> QED
  BY <1>3, <1>4 DEF Patch

\* So does the creation of what was not there,
LEMMA CreateObjectKept ==
  ASSUME ApplyerInv, NEW d \in Dialers, CreateObject(d)
  PROVE  ApplyerInv'
<1>1. At(d, "create", "apply") /\ UNCHANGED <<command, left, manifest, copy>>
  BY DEF CreateObject
<1>2. InLoop(d) /\ cursor[d] \in DOMAIN manifest[d] /\ Applies(d)
  BY <1>1, AtObject
<1>3. CASE Stop(d)
  BY <1>1, <1>2, <1>3, StopKept
<1>4. CASE PutOrBroken(d, FALSE)
  BY <1>1, <1>2, <1>4, PutKept
<1> QED
  BY <1>3, <1>4 DEF CreateObject

\* and the update of what was.
LEMMA UpdateObjectKept ==
  ASSUME ApplyerInv, NEW d \in Dialers, UpdateObject(d)
  PROVE  ApplyerInv'
<1>1. At(d, "update", "apply") /\ UNCHANGED <<command, left, manifest, copy>>
  BY DEF UpdateObject
<1>2. InLoop(d) /\ cursor[d] \in DOMAIN manifest[d] /\ Applies(d)
  BY <1>1, AtObject
<1>3. CASE Stop(d)
  BY <1>1, <1>2, <1>3, StopKept
<1>4. CASE PutOrBroken(d, StaysApplied(d))
  <2>1. Place(d) \in Objects
    BY <1>2, PlaceIsObject
  <2>2. StaysApplied(d) \in BOOLEAN
    BY <2>1 DEF StaysApplied, ApplyerInv, ApplyerTypeOK, Object
  <2> QED
    BY <1>1, <1>2, <1>4, <2>2, PutKept
<1> QED
  BY <1>3, <1>4 DEF UpdateObject

\* A deletion settles its object; what is not there is as good as deleted.
LEMMA DeleteObjectKept ==
  ASSUME ApplyerInv, NEW d \in Dialers, DeleteObject(d)
  PROVE  ApplyerInv'
<1>1. At(d, "next", "delete") /\ UNCHANGED <<command, left, manifest, copy>>
  BY DEF DeleteObject
<1>2. InLoop(d) /\ cursor[d] \in DOMAIN manifest[d] /\ Deletes(d) /\ Wet(d) /\ ~Applies(d)
  BY <1>1, AtObject DEF Deletes, Applies
<1>3. CASE Stop(d)
  BY <1>1, <1>2, <1>3, StopKept
<1>4. CASE /\ IF cluster[Place(d)].live
              THEN Deleted(Place(d), ~command[d].force) ELSE UNCHANGED clusterVars
           /\ Settled(d)
           /\ Leaves(d)
  <2>1. Place(d) \in Objects /\ command[d].force \in BOOLEAN
    BY <1>2, PlaceIsObject DEF ApplyerInv, ApplyerTypeOK, Command, Deletes
  <2>2. Bumps /\ (~cluster'[Place(d)].live \/ cluster'[Place(d)].doomed)
    BY <1>4, <2>1, DeletedBumps, NothingBumps DEF ApplyerInv, clusterVars
  <2>3. PICK at \in DOMAIN manifest[d] : at = cursor[d]
    BY <1>2
  <2>4. Demanded(d, at)'
    BY <1>1, <1>2, <2>2, <2>3 DEF Demanded, Place, Target, Applies
  <2> QED
    BY <1>1, <1>2, <1>4, <2>2, <2>3, <2>4, SettleKept
<1> QED
  BY <1>3, <1>4 DEF DeleteObject, Leaves

\* At the end of the loop everything is settled.
LEMMA FinishKept ==
  ASSUME ApplyerInv, NEW d \in Dialers, Finish(d)
  PROVE  ApplyerInv'
BY EndKept DEF Finish, InLoop

\* An unknown kind stops the execution.
LEMMA UnmappableKept ==
  ASSUME ApplyerInv, NEW d \in Dialers, Unmappable(d)
  PROVE  ApplyerInv'
BY StopKept DEF Unmappable, InLoop

\* So does the end of the process.
LEMMA DieKept ==
  ASSUME ApplyerInv, NEW d \in Dialers, Die(d)
  PROVE  ApplyerInv'
BY EndKept DEF Die

\* Other clients give what they change the next revision.
LEMMA OthersMoveKept ==
  ASSUME ApplyerInv, NEW o \in Objects, OthersWrite(o) \/ OthersDelete(o) \/ Collect(o)
  PROVE  ApplyerInv'
<1>1. Bumps
  <2>1. CASE OthersWrite(o)
    BY <2>1, WrittenBumps DEF OthersWrite, ApplyerInv
  <2>2. CASE OthersDelete(o)
    BY <2>2, DeletedBumps DEF OthersDelete, ApplyerInv
  <2>3. CASE Collect(o)
    BY <2>3, ChangedBumps, NothingIsObject DEF Collect, ApplyerInv
  <2> QED
    BY <2>1, <2>2, <2>3
<1>2. UNCHANGED dialerVars
  BY DEF OthersWrite, OthersDelete, Collect
<1>3. ApplyerTypeOK' /\ \A d \in Dialers : Same(d)
  BY <1>1, <1>2 DEF ApplyerInv, ApplyerTypeOK, Bumps, dialerVars, Same
<1>4. \A d \in Dialers : ExecutionInv(d)'
  BY <1>1, <1>3, OthersKept
<1>5. \A p \in Objects : cluster'[p].rv <= revision'
  BY <1>1 DEF ApplyerInv, ApplyerTypeOK, Bumps, Object
<1> QED
  BY <1>3, <1>4, <1>5 DEF ApplyerInv

-----------------------------------------------------------------------------
\* The theorems

\* The invariant holds at the start.
LEMMA InitApplyerInv == ApplyerInit => ApplyerInv
<1> SUFFICES ASSUME ApplyerInit PROVE ApplyerInv
  OBVIOUS
<1>1. ApplyerTypeOK
  BY NothingIsObject, EmptySeq DEF ApplyerInit, ApplyerTypeOK
<1>2. \A o \in Objects : cluster[o].rv <= revision
  BY DEF ApplyerInit, Nothing
<1>3. ASSUME NEW d \in Dialers PROVE ExecutionInv(d)
  <2>1. /\ pc[d] = "idle" /\ command[d] = NoCommand /\ manifest[d] = <<>>
        /\ settled[d] = {} /\ outcome[d] = "none"
    BY DEF ApplyerInit
  <2> QED
    BY <2>1
    DEF ExecutionInv, LoopHasOperation, LoopIsDecoded, ReadIsVersion, PassedIsSettled,
        SettledIsInPlace, InOrder, InLoop
<1> QED
  BY <1>1, <1>2, <1>3 DEF ApplyerInv

\* Every step keeps it.
LEMMA NextApplyerInv == ApplyerInv /\ [ApplyerNext]_applyerVars => ApplyerInv'
<1> SUFFICES ASSUME ApplyerInv, [ApplyerNext]_applyerVars PROVE ApplyerInv'
  OBVIOUS
<1>1. ASSUME NEW d \in Dialers, Start(d) PROVE ApplyerInv'
  BY <1>1, StartKept
<1>2. ASSUME NEW d \in Dialers, Concatenate(d) PROVE ApplyerInv'
  BY <1>2, ConcatenateKept
<1>3. ASSUME NEW d \in Dialers, Decode(d) PROVE ApplyerInv'
  BY <1>3, DecodeKept
<1>4. ASSUME NEW d \in Dialers, Finish(d) PROVE ApplyerInv'
  BY <1>4, FinishKept
<1>5. ASSUME NEW d \in Dialers, Unmappable(d) PROVE ApplyerInv'
  BY <1>5, UnmappableKept
<1>6. ASSUME NEW d \in Dialers, Patch(d) PROVE ApplyerInv'
  BY <1>6, PatchKept
<1>7. ASSUME NEW d \in Dialers, GetObject(d) PROVE ApplyerInv'
  BY <1>7, GetObjectKept
<1>8. ASSUME NEW d \in Dialers, CreateObject(d) PROVE ApplyerInv'
  BY <1>8, CreateObjectKept
<1>9. ASSUME NEW d \in Dialers, UpdateObject(d) PROVE ApplyerInv'
  BY <1>9, UpdateObjectKept
<1>10. ASSUME NEW d \in Dialers, DeleteObject(d) PROVE ApplyerInv'
  BY <1>10, DeleteObjectKept
<1>11. ASSUME NEW d \in Dialers, Die(d) PROVE ApplyerInv'
  BY <1>11, DieKept
<1>12. ASSUME NEW o \in Objects, OthersWrite(o) \/ OthersDelete(o) \/ Collect(o)
       PROVE  ApplyerInv'
  BY <1>12, OthersMoveKept
<1>13. CASE UNCHANGED applyerVars
  <2>1. ApplyerTypeOK' /\ Bumps /\ \A d \in Dialers : Same(d)
    BY <1>13, NothingBumps DEF ApplyerInv, ApplyerTypeOK, applyerVars, clusterVars, Same
  <2>2. \A d \in Dialers : ExecutionInv(d)'
    BY <2>1, OthersKept
  <2> QED
    BY <1>13, <2>1, <2>2 DEF ApplyerInv, applyerVars
<1> QED
  BY <1>1, <1>2, <1>3, <1>4, <1>5, <1>6, <1>7, <1>8, <1>9, <1>10, <1>11, <1>12, <1>13
  DEF ApplyerNext, Execute

\* ApplyerInv is an invariant of the executions on a cluster.
THEOREM ApplyerInvariance == ApplyerSpec => []ApplyerInv
<1>1. ApplyerInit => ApplyerInv
  BY InitApplyerInv
<1>2. ApplyerInv /\ [ApplyerNext]_applyerVars => ApplyerInv'
  BY NextApplyerInv
<1> QED
  BY <1>1, <1>2, PTL DEF ApplyerSpec

\* Every state is well typed.
THEOREM ApplyerTypeCorrect == ApplyerSpec => []ApplyerTypeOK
<1>1. ApplyerInv => ApplyerTypeOK
  BY DEF ApplyerInv
<1> QED
  BY <1>1, ApplyerInvariance, PTL

\* A success means that every object is in place, or was changed afterwards.
THEOREM SuccessIsComplete == ApplyerSpec => []SuccessIsInPlace
<1>1. ApplyerInv => SuccessIsInPlace
  <2> SUFFICES ASSUME ApplyerInv, NEW d \in Dialers, outcome[d] = "success", Wet(d),
                      NEW i \in DOMAIN manifest[d]
               PROVE  \E s \in settled[d] :
                        /\ s.index = i
                        /\ cluster[Target(d, i)].rv > s.rev \/ Demanded(d, i)
    BY DEF SuccessIsInPlace, Wet
  <2>1. PICK s \in settled[d] : s.index = i
    BY DEF ApplyerInv, ExecutionInv, PassedIsSettled, SettledAt
  <2> QED
    BY <2>1 DEF ApplyerInv, ExecutionInv, SettledIsInPlace
<1> QED
  BY <1>1, ApplyerInvariance, PTL

\* What an execution has dealt with is an initial part of its objects.
THEOREM PartsStayInOrder == ApplyerSpec => []PartsAreInOrder
<1>1. ApplyerInv => PartsAreInOrder
  BY DEF ApplyerInv, ExecutionInv, PartsAreInOrder
<1> QED
  BY <1>1, ApplyerInvariance, PTL

\* A manifest with a malformed document touches no object.
THEOREM MalformedIsHarmless == ApplyerSpec => []MalformedTouchesNothing
<1>1. ApplyerInv => MalformedTouchesNothing
  <2> SUFFICES ASSUME ApplyerInv, NEW d \in Dialers, command[d] # NoCommand, settled[d] # {},
                      NEW f \in command[d].files, NEW i \in DOMAIN Content[f]
               PROVE  Content[f][i] # Malformed
    BY DEF MalformedTouchesNothing
  <2>1. pc[d] # "idle" /\ left[d] = {} /\ Decodable(d)
    BY DEF ApplyerInv, ExecutionInv, LoopIsDecoded
  <2>2. PICK j \in DOMAIN manifest[d] : manifest[d][j] = Content[f][i]
    BY <2>1 DEF ApplyerInv, ExecutionInv, LoopIsDecoded
  <2> QED
    BY <2>1, <2>2 DEF Decodable
<1> QED
  BY <1>1, ApplyerInvariance, PTL

\* Steps of others leave an execution and what it has settled alone.
LEMMA OthersLeaveAlone ==
  ASSUME ApplyerTypeOK, NEW d \in Dialers,
         \/ \E e \in Dialers \ {d} : Start(e) \/ Execute(e) \/ Die(e)
         \/ \E o \in Objects : OthersWrite(o) \/ OthersDelete(o) \/ Collect(o)
         \/ UNCHANGED applyerVars
  PROVE  pc'[d] = pc[d] /\ cursor'[d] = cursor[d] /\ settled'[d] = settled[d]
<1> USE DEF ApplyerTypeOK
<1>1. ASSUME NEW e \in Dialers \ {d}, Start(e) \/ Concatenate(e) \/ Decode(e) \/ Finish(e)
                                        \/ Unmappable(e) \/ GetObject(e) \/ Die(e)
      PROVE  pc'[d] = pc[d] /\ cursor'[d] = cursor[d] /\ settled'[d] = settled[d]
  BY <1>1 DEF Start, Concatenate, Decode, Finish, Unmappable, GetObject, Die, Move, End, Stop
<1>2. ASSUME NEW e \in Dialers \ {d}, Patch(e) \/ CreateObject(e) \/ UpdateObject(e)
                                        \/ DeleteObject(e)
      PROVE  pc'[d] = pc[d] /\ cursor'[d] = cursor[d] /\ settled'[d] = settled[d]
  BY <1>2 DEF Patch, CreateObject, UpdateObject, DeleteObject, PutOrBroken, Put, Settled,
              Advance, Move, End, Stop
<1>3. ASSUME NEW o \in Objects, OthersWrite(o) \/ OthersDelete(o) \/ Collect(o)
      PROVE  pc'[d] = pc[d] /\ cursor'[d] = cursor[d] /\ settled'[d] = settled[d]
  BY <1>3 DEF OthersWrite, OthersDelete, Collect, dialerVars
<1> QED
  BY <1>1, <1>2, <1>3 DEF Execute, applyerVars

\* Client-side apply overwrites exactly what it has read.
THEOREM UpdatesStayInformed == ApplyerSpec => UpdatesAreInformed
<1>1. ASSUME ApplyerInv, [ApplyerNext]_applyerVars, NEW d \in Dialers,
             pc[d] = "update", settled'[d] # settled[d]
      PROVE  cluster[Place(d)] = copy[d]
  <2>1. Execute(d) \/ Start(d) \/ Die(d)
    BY <1>1, OthersLeaveAlone DEF ApplyerInv, ApplyerNext
  <2>2. UpdateObject(d) \/ Die(d)
    BY <1>1, <2>1 DEF Execute, Start, Concatenate, Decode, Finish, Unmappable, Patch, GetObject,
                      CreateObject, DeleteObject, At
  <2>3. UpdateAllowed(d)
    BY <1>1, <2>2 DEF UpdateObject, Stop, Die
  <2> QED
    BY <1>1, <2>3 DEF UpdateAllowed, ApplyerInv, ExecutionInv, ReadIsVersion
<1>2. ApplyerInv /\ [ApplyerNext]_applyerVars =>
        [\A d \in Dialers :
           pc[d] = "update" /\ settled'[d] # settled[d] =>
             cluster[Place(d)] = copy[d]]_applyerVars
  BY <1>1
<1> QED
  BY <1>2, ApplyerInvariance, PTL DEF ApplyerSpec, UpdatesAreInformed

\* A dry run of an apply changes nothing.
THEOREM DryApplyStaysDry == ApplyerSpec => DryApplyIsDry
<1>1. ASSUME ApplyerInv, [ApplyerNext]_applyerVars, NEW d \in Dialers,
             Applies(d), command[d].dryRun, Steps(d)
      PROVE  UNCHANGED cluster
  <2>1. Execute(d) \/ Start(d) \/ Die(d)
    BY <1>1, OthersLeaveAlone DEF ApplyerInv, ApplyerNext, Steps
  <2>2. ~DeleteObject(d)
    BY <1>1 DEF DeleteObject, At, Applies
  <2>3. CASE Patch(d) \/ CreateObject(d) \/ UpdateObject(d)
    BY <1>1, <2>3 DEF Patch, CreateObject, UpdateObject, PutOrBroken, Put, Stop, clusterVars
  <2> QED
    BY <2>1, <2>2, <2>3
    DEF Execute, Start, Die, Concatenate, Decode, Finish, Unmappable, GetObject, Stop, clusterVars
<1>2. ApplyerInv /\ [ApplyerNext]_applyerVars =>
        [\A d \in Dialers :
           Applies(d) /\ command[d].dryRun /\ Steps(d) => UNCHANGED cluster]_applyerVars
  BY <1>1
<1> QED
  BY <1>2, ApplyerInvariance, PTL DEF ApplyerSpec, DryApplyIsDry

\* A write or a deletion changes one object only,
LEMMA OneObject ==
  ASSUME ApplyerTypeOK, NEW o \in Objects, NEW v, NEW a, NEW fg,
         Written(o, v, a) \/ Deleted(o, fg),
         NEW p \in Objects \ {o}
  PROVE  cluster'[p] = cluster[p]
<1>1. \A new : Changed(o, new) => cluster'[p] = cluster[p]
  BY DEF Changed, ApplyerTypeOK
<1> QED
  BY <1>1 DEF Written, Deleted, clusterVars

\* and a deletion leaves the value of what stays.
LEMMA DeletedValue ==
  ASSUME ApplyerTypeOK, NEW o \in Objects, NEW fg \in BOOLEAN, Deleted(o, fg)
  PROVE  ~cluster'[o].live
           \/ (cluster'[o].live = cluster[o].live /\ cluster'[o].value = cluster[o].value)
<1>1. cluster[o] \in Object
  BY DEF ApplyerTypeOK
<1>2. CASE Changed(o, [cluster[o] EXCEPT !.doomed = TRUE])
  <2>1. LET new == [cluster[o] EXCEPT !.doomed = TRUE]
        IN new \in Object /\ new.live = cluster[o].live /\ new.value = cluster[o].value
    BY <1>1 DEF Object
  <2> QED
    BY <1>2, <2>1, ChangedBumps
<1>3. CASE Changed(o, Nothing)
  BY <1>3, NothingIsObject, ChangedBumps
<1> QED
  BY <1>2, <1>3 DEF Deleted, clusterVars

\* What a step of an execution does to the cluster: nothing, or the object at
\* hand is settled as its document asks and no other is touched.
Settles(d) ==
  /\ InLoop(d) /\ cursor[d] \in DOMAIN manifest[d] /\ Wet(d)
  /\ Settled(d) /\ Bumps /\ UNCHANGED <<command, manifest>>
  /\ \A o \in Objects \ {Place(d)} : cluster'[o] = cluster[o]
  /\ \/ /\ Applies(d) /\ ~Deletes(d) /\ ~command[d].dryRun
        /\ cluster'[Place(d)].live /\ cluster'[Place(d)].value = Current(d).value
     \/ /\ Deletes(d) /\ ~Applies(d)
        /\ ~cluster'[Place(d)].live \/ cluster'[Place(d)].doomed
        /\ \/ ~cluster'[Place(d)].live
           \/ /\ cluster'[Place(d)].live = cluster[Place(d)].live
              /\ cluster'[Place(d)].value = cluster[Place(d)].value

\* A write is of this kind,
LEMMA PutSettles ==
  ASSUME ApplyerInv, NEW d \in Dialers, InLoop(d), cursor[d] \in DOMAIN manifest[d],
         Applies(d), NEW a \in BOOLEAN, Put(d, a), UNCHANGED <<command, manifest>>
  PROVE  UNCHANGED <<clusterVars, settled>> \/ Settles(d)
<1>1. CASE command[d].dryRun
  BY <1>1 DEF Put
<1>2. CASE ~command[d].dryRun
  <2>1. Written(Place(d), Current(d).value, a) /\ Settled(d) /\ Wet(d) /\ ~Deletes(d)
    BY <1>2 DEF Put, Wet, Applies, Deletes
  <2>2. Place(d) \in Objects /\ Current(d).value \in Values
    BY PlaceIsObject
  <2>3. Bumps /\ cluster'[Place(d)].live /\ cluster'[Place(d)].value = Current(d).value
    BY <2>1, <2>2, WrittenBumps DEF ApplyerInv
  <2>4. \A o \in Objects \ {Place(d)} : cluster'[o] = cluster[o]
    BY <2>1, <2>2, OneObject DEF ApplyerInv
  <2> QED
    BY <1>2, <2>1, <2>3, <2>4 DEF Settles
<1> QED
  BY <1>1, <1>2

\* and so is a deletion.
LEMMA DeleteSettles ==
  ASSUME ApplyerInv, NEW d \in Dialers, DeleteObject(d)
  PROVE  UNCHANGED <<clusterVars, settled>> \/ Settles(d)
<1>1. InLoop(d) /\ cursor[d] \in DOMAIN manifest[d] /\ Deletes(d) /\ Wet(d) /\ ~Applies(d)
  BY AtObject DEF DeleteObject, Deletes, Applies
<1>2. CASE Stop(d)
  BY <1>2 DEF Stop
<1>3. CASE /\ IF cluster[Place(d)].live
              THEN Deleted(Place(d), ~command[d].force) ELSE UNCHANGED clusterVars
           /\ Settled(d)
  <2>1. Place(d) \in Objects /\ command[d].force \in BOOLEAN
    BY <1>1, PlaceIsObject DEF ApplyerInv, ApplyerTypeOK, Command, Deletes
  <2>2. Bumps /\ (~cluster'[Place(d)].live \/ cluster'[Place(d)].doomed)
    BY <1>3, <2>1, DeletedBumps, NothingBumps DEF ApplyerInv, clusterVars
  <2>3. \/ ~cluster'[Place(d)].live
        \/ /\ cluster'[Place(d)].live = cluster[Place(d)].live
           /\ cluster'[Place(d)].value = cluster[Place(d)].value
    BY <1>3, <2>1, DeletedValue DEF ApplyerInv, clusterVars
  <2>4. \A o \in Objects \ {Place(d)} : cluster'[o] = cluster[o]
    BY <1>3, <2>1, OneObject DEF ApplyerInv, clusterVars
  <2> QED
    BY <1>1, <1>3, <2>2, <2>3, <2>4 DEF Settles, DeleteObject
<1> QED
  BY <1>2, <1>3 DEF DeleteObject

\* All other steps do nothing to it.
LEMMA EffectOfStep ==
  ASSUME ApplyerInv, NEW d \in Dialers, Start(d) \/ Execute(d) \/ Die(d)
  PROVE  UNCHANGED <<clusterVars, settled>> \/ Settles(d)
<1>1. CASE Patch(d) \/ CreateObject(d) \/ UpdateObject(d)
  <2>1. /\ InLoop(d) /\ cursor[d] \in DOMAIN manifest[d] /\ Applies(d)
        /\ UNCHANGED <<command, manifest>>
    BY <1>1, AtObject DEF Patch, CreateObject, UpdateObject
  <2>2. Place(d) \in Objects
    BY <2>1, PlaceIsObject
  <2> DEFINE own == ~cluster[Place(d)].live \/ cluster[Place(d)].applied
                      \/ cluster[Place(d)].value # Current(d).value
  <2>3. own \in BOOLEAN /\ StaysApplied(d) \in BOOLEAN /\ FALSE \in BOOLEAN
    BY <2>2 DEF StaysApplied, ApplyerInv, ApplyerTypeOK, Object
  <2>4. Put(d, own) \/ Put(d, StaysApplied(d)) \/ Put(d, FALSE) \/ Stop(d)
    BY <1>1 DEF Patch, CreateObject, UpdateObject, PutOrBroken
  <2> HIDE DEF own
  <2> QED
    BY <2>1, <2>3, <2>4, PutSettles DEF Stop
<1>2. CASE DeleteObject(d)
  BY <1>2, DeleteSettles
<1>3. CASE \/ Start(d) \/ Concatenate(d) \/ Decode(d) \/ Finish(d) \/ Unmappable(d)
           \/ GetObject(d) \/ Die(d)
  BY <1>3 DEF Start, Concatenate, Decode, Finish, Unmappable, GetObject, Die, Stop
<1> QED
  BY <1>1, <1>2, <1>3 DEF Execute

\* An execution touches only what its files name, and leaves it as they ask.
THEOREM OnlyItsOwnTouched == ApplyerSpec => TouchesOnlyItsOwn
<1>1. ASSUME ApplyerInv, [ApplyerNext]_applyerVars, NEW d \in Dialers, Steps(d),
             NEW o \in Objects, cluster'[o] # cluster[o]
      PROVE  \E e \in Documents(command[d]) :
               /\ Key(e, command[d].ns) = o
               /\ IF Applies(d) THEN cluster'[o].live /\ cluster'[o].value = e.value
                  ELSE ~cluster'[o].live \/ cluster'[o].doomed
  <2>1. Execute(d) \/ Start(d) \/ Die(d)
    BY <1>1, OthersLeaveAlone DEF ApplyerInv, ApplyerNext, Steps
  <2>2. Settles(d)
    BY <1>1, <2>1, EffectOfStep DEF clusterVars
  <2>3. o = Place(d)
    BY <1>1, <2>2 DEF Settles
  <2>4. Current(d) \in Documents(command[d]) /\ Key(Current(d), command[d].ns) = o
    BY <1>1, <2>2, <2>3, CurrentIsDocument DEF Settles
  <2> QED
    BY <2>2, <2>3, <2>4 DEF Settles
<1>2. ApplyerInv /\ [ApplyerNext]_applyerVars =>
        [\A d \in Dialers : Steps(d) =>
           \A o \in Objects : cluster'[o] # cluster[o] =>
             \E e \in Documents(command[d]) :
               /\ Key(e, command[d].ns) = o
               /\ IF Applies(d) THEN cluster'[o].live /\ cluster'[o].value = e.value
                  ELSE ~cluster'[o].live \/ cluster'[o].doomed]_applyerVars
  BY <1>1
<1> QED
  BY <1>2, ApplyerInvariance, PTL DEF ApplyerSpec, TouchesOnlyItsOwn
=============================================================================
