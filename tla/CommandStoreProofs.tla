------------------------- MODULE CommandStoreProofs -------------------------
(***************************************************************************)
(* Proofs about CommandStore, for any number of commands, agents, files    *)
(* and requests, and for a faulty as for a faultless environment.          *)
(***************************************************************************)
EXTENDS CommandStore, TLAPS

\* A Secret is not the mark of a missing one, nor is a set of file names.
LEMMA AbsentIsNoSecret ==
  /\ \A s \in CommandSecret : s # Absent
  /\ \A files \in SUBSET Files : files # Absent
BY AbsentAssumption

\* A job of one kind is not of another.
LEMMA JobKinds ==
  /\ \A j \in CreateJob : j.op = "create" /\ j.cmd \in Commands /\ j.agent \in Agents
                          /\ j.files \in SUBSET Files
  /\ \A j \in ReportJob : j.op = "report" /\ j.cmd \in Commands /\ j.success \in BOOLEAN
  /\ \A j \in ReadJob : j.op = "read" /\ j.cmd \in Commands
  /\ NoJob.op = "none"
BY DEF CreateJob, ReportJob, ReadJob, NoJob

\* Storing a Secret counts its version up and changes nothing else.
LEMMA NextVersion ==
  ASSUME NEW s \in CommandSecret
  PROVE  LET t == [s EXCEPT !.rv = @ + 1]
         IN /\ t \in CommandSecret
            /\ t.rv = s.rv + 1 /\ t.agent = s.agent /\ t.filenames = s.filenames
            /\ t.status = s.status /\ t.label = s.label /\ t.result = s.result
BY DEF CommandSecret

\* What UpdateStatus sends: the verdict in both places, everything else as it
\* was read.
LEMMA VerdictSent ==
  ASSUME NEW s \in CommandSecret, NEW ok \in BOOLEAN
  PROVE  LET t == WithVerdict(s, ok)
         IN /\ t \in CommandSecret
            /\ t.rv = s.rv /\ t.agent = s.agent /\ t.filenames = s.filenames
            /\ t.result = s.result /\ t.status = Verdict(ok) /\ t.label = Verdict(ok)
            /\ Verdict(ok) \in Terminal
<1>1. Verdict(ok) \in Terminal /\ Verdict(ok) \in Status
  BY DEF Verdict, Terminal, Status
<1> QED
  BY <1>1 DEF WithVerdict, CommandSecret

\* What SaveResult sends: the result, everything else as it was read.
LEMMA ResultSent ==
  ASSUME NEW s \in CommandSecret, NEW r \in Requests, job[r] \in ReportJob
  PROVE  LET t == WithResult(s, r)
         IN /\ t \in CommandSecret
            /\ t.rv = s.rv /\ t.agent = s.agent /\ t.filenames = s.filenames
            /\ t.status = s.status /\ t.label = s.label
            /\ t.result.from = r /\ t.result.success = job[r].success
            /\ t.result # NoResult
<1> DEFINE res == [from |-> r, success |-> job[r].success]
<1>1. res \in Result /\ res.from = r /\ res.success = job[r].success
  BY JobKinds DEF Result
<1>2. res # NoResult
  BY <1>1, NoResultAssumption
<1>3. WithResult(s, r) = [s EXCEPT !.result = res]
  BY DEF WithResult
<1> HIDE DEF res
<1> QED
  BY <1>1, <1>2, <1>3 DEF CommandSecret

\* Types, and the job each handler works on, hold initially.
LEMMA InitTypeOK == Init => TypeOK /\ HandlersFitJobs
BY DEF Init, TypeOK, HandlersFitJobs, Codes, ActivePCs, CreatePCs, ReportPCs, ReadPCs

\* Every action keeps TypeOK and HandlersFitJobs.
LEMMA TypeOKKept == TypeOK /\ HandlersFitJobs /\ [Next]_vars => TypeOK' /\ HandlersFitJobs'
<1> SUFFICES ASSUME TypeOK, HandlersFitJobs, [Next]_vars
             PROVE  TypeOK' /\ HandlersFitJobs'
  OBVIOUS
<1> USE DEF TypeOK, HandlersFitJobs, ActivePCs, CreatePCs, ReportPCs, ReadPCs, Codes
<1>1. ASSUME NEW r \in Requests, ReceiveCreate(r)
      PROVE  TypeOK' /\ HandlersFitJobs'
  BY <1>1 DEF ReceiveCreate, Accept, CreateJob
<1>2. ASSUME NEW r \in Requests, Reject(r)
      PROVE  TypeOK' /\ HandlersFitJobs'
  BY <1>2 DEF Reject, Answer, secrets
<1>3. ASSUME NEW r \in Requests, ReceiveReport(r)
      PROVE  TypeOK' /\ HandlersFitJobs'
  BY <1>3 DEF ReceiveReport, Accept, ReportJob
<1>4. ASSUME NEW r \in Requests, ReceiveRead(r)
      PROVE  TypeOK' /\ HandlersFitJobs'
  BY <1>4 DEF ReceiveRead, Accept, ReadJob
<1>5. ASSUME NEW r \in Requests, CreateCommand(r)
      PROVE  TypeOK' /\ HandlersFitJobs'
  BY <1>5, AbsentIsNoSecret DEF CreateCommand, StoreCommand, NewCommand, Goto, Answer, CommandSecret, Status, CreateJob
<1>6. ASSUME NEW r \in Requests, CreateFiles(r)
      PROVE  TypeOK' /\ HandlersFitJobs'
  BY <1>6, AbsentIsNoSecret DEF CreateFiles, Goto, Answer, CreateJob
<1>7. ASSUME NEW r \in Requests, Rollback(r)
      PROVE  TypeOK' /\ HandlersFitJobs'
  BY <1>7, AbsentIsNoSecret DEF Rollback, Answer
<1>8. ASSUME NEW r \in Requests, GetForStatus(r)
      PROVE  TypeOK' /\ HandlersFitJobs'
  BY <1>8, AbsentIsNoSecret DEF GetForStatus, ReadSecret, Present, Goto, Answer, secrets, ReportJob
<1>9. ASSUME NEW r \in Requests, PutStatus(r)
      PROVE  TypeOK' /\ HandlersFitJobs'
  <2>1. [WithVerdict(copy[r], job[r].success) EXCEPT !.rv = @ + 1] \in CommandSecret
    BY <1>9, VerdictSent, NextVersion, JobKinds DEF PutStatus
  <2> QED
    BY <1>9, <2>1, AbsentIsNoSecret DEF PutStatus, WriteSecret, VersionMatches, Present, Goto, Answer, ReportJob
<1>10. ASSUME NEW r \in Requests, GetForResult(r)
      PROVE  TypeOK' /\ HandlersFitJobs'
  BY <1>10, AbsentIsNoSecret DEF GetForResult, ReadSecret, Present, Goto, Answer, secrets, ReportJob
<1>11. ASSUME NEW r \in Requests, PutResult(r)
      PROVE  TypeOK' /\ HandlersFitJobs'
  <2>1. [WithResult(copy[r], r) EXCEPT !.rv = @ + 1] \in CommandSecret
    BY <1>11, ResultSent, NextVersion DEF PutResult
  <2> QED
    BY <1>11, <2>1, AbsentIsNoSecret DEF PutResult, WriteSecret, VersionMatches, Present, Goto, Answer, ReportJob
<1>12. ASSUME NEW r \in Requests, ReadCommand(r)
      PROVE  TypeOK' /\ HandlersFitJobs'
  BY <1>12, AbsentIsNoSecret DEF ReadCommand, ReadSecret, Present, Goto, Answer, secrets, ReadJob
<1>13. ASSUME NEW r \in Requests, ReadResult(r)
      PROVE  TypeOK' /\ HandlersFitJobs'
  <2>1. ASSUME NEW res \in Result \cup {NoResult}
        PROVE  [copy[r] EXCEPT !.result = res] \in CommandSecret
    BY <1>13 DEF ReadResult, CommandSecret
  <2>2. cmdSecret[job[r].cmd] \in CommandSecret =>
          cmdSecret[job[r].cmd].result \in Result \cup {NoResult}
    BY DEF CommandSecret
  <2>3. job[r].cmd \in Commands
    BY <1>13, JobKinds DEF ReadResult
  <2>4. copy'[r] \in CommandSecret \cup {Absent} /\ copy' = [copy EXCEPT ![r] = copy'[r]]
    BY <1>13, <2>1, <2>2, <2>3 DEF ReadResult, Present
  <2> QED
    BY <1>13, <2>4, AbsentIsNoSecret DEF ReadResult, Answer, secrets
<1>14. CASE Kill
  BY <1>14 DEF Kill, Active
<1>15. CASE UNCHANGED vars
  BY <1>15 DEF vars
<1> QED
  BY <1>1, <1>2, <1>3, <1>4, <1>5, <1>6, <1>7, <1>8, <1>9, <1>10, <1>11, <1>12,
     <1>13, <1>14, <1>15 DEF Next, Receive, Handle

\* The inductive invariant holds initially.
LEMMA InitIInv == Init => IInv
<1> SUFFICES ASSUME Init PROVE IInv
  OBVIOUS
<1>1. TypeOK /\ HandlersFitJobs
  BY InitTypeOK
<1>2. \A r \in Requests : pc[r] = "idle" /\ job[r].op = "none" /\ reply[r] = 0
  BY DEF Init, NoJob
<1>3. \A c \in Commands : ~Present(c)
  BY DEF Init, Present
<1>4. stored = {}
  BY DEF Init
<1> QED
  BY <1>1, <1>2, <1>3, <1>4 DEF IInv, OneCreator, CreationHolds, CopyNotAhead,
     VerdictBeforeResult, Authored, ResultAfterVerdict, AcksHold,
     CreatedIsComplete, ReadsArePast, Creates, Reports

\* A new id was never stored, so it parts no creation from its command.
LEMMA ReceiveCreateKept ==
  ASSUME NEW r \in Requests, IInv, TypeOK', HandlersFitJobs', ReceiveCreate(r)
  PROVE  IInv'
<1> USE DEF IInv, TypeOK, HandlersFitJobs, ReceiveCreate, Accept, Fresh,
            Creates, Reports, Present, CreatePCs, ReportPCs, ReadPCs
<1>1. OneCreator' /\ CreationHolds' /\ CopyNotAhead'
  BY JobKinds DEF OneCreator, CreationHolds, CopyNotAhead
<1>2. VerdictBeforeResult' /\ Authored' /\ ResultAfterVerdict'
  BY JobKinds DEF VerdictBeforeResult, Authored, ResultAfterVerdict
<1>3. AcksHold' /\ CreatedIsComplete' /\ ReadsArePast'
  BY JobKinds DEF AcksHold, CreatedIsComplete, ReadsArePast, HasFile
<1> QED
  BY <1>1, <1>2, <1>3

\* A rejected request has no job.
LEMMA RejectKept ==
  ASSUME NEW r \in Requests, IInv, TypeOK', HandlersFitJobs', Reject(r)
  PROVE  IInv'
<1> USE DEF IInv, TypeOK, HandlersFitJobs, Reject, Answer, secrets,
            Creates, Reports, Present, CreatePCs, ReportPCs, ReadPCs
<1>1. OneCreator' /\ CreationHolds' /\ CopyNotAhead'
  BY JobKinds DEF OneCreator, CreationHolds, CopyNotAhead
<1>2. VerdictBeforeResult' /\ Authored' /\ ResultAfterVerdict'
  BY JobKinds DEF VerdictBeforeResult, Authored, ResultAfterVerdict
<1>3. AcksHold' /\ CreatedIsComplete' /\ ReadsArePast'
  BY JobKinds DEF AcksHold, CreatedIsComplete, ReadsArePast, HasFile
<1> QED
  BY <1>1, <1>2, <1>3

\* A report that starts has read nothing and was answered nothing.
LEMMA ReceiveReportKept ==
  ASSUME NEW r \in Requests, IInv, TypeOK', HandlersFitJobs', ReceiveReport(r)
  PROVE  IInv'
<1> USE DEF IInv, TypeOK, HandlersFitJobs, ReceiveReport, Accept,
            Creates, Reports, Present, CreatePCs, ReportPCs, ReadPCs
<1>1. OneCreator' /\ CreationHolds' /\ CopyNotAhead'
  BY JobKinds DEF OneCreator, CreationHolds, CopyNotAhead
<1>2. VerdictBeforeResult' /\ Authored' /\ ResultAfterVerdict'
  BY JobKinds DEF VerdictBeforeResult, Authored, ResultAfterVerdict
<1>3. AcksHold' /\ CreatedIsComplete' /\ ReadsArePast'
  BY JobKinds DEF AcksHold, CreatedIsComplete, ReadsArePast, HasFile
<1> QED
  BY <1>1, <1>2, <1>3

\* So has a read.
LEMMA ReceiveReadKept ==
  ASSUME NEW r \in Requests, IInv, TypeOK', HandlersFitJobs', ReceiveRead(r)
  PROVE  IInv'
<1> USE DEF IInv, TypeOK, HandlersFitJobs, ReceiveRead, Accept,
            Creates, Reports, Present, CreatePCs, ReportPCs, ReadPCs
<1>1. OneCreator' /\ CreationHolds' /\ CopyNotAhead'
  BY JobKinds DEF OneCreator, CreationHolds, CopyNotAhead
<1>2. VerdictBeforeResult' /\ Authored' /\ ResultAfterVerdict'
  BY JobKinds DEF VerdictBeforeResult, Authored, ResultAfterVerdict
<1>3. AcksHold' /\ CreatedIsComplete' /\ ReadsArePast'
  BY JobKinds DEF AcksHold, CreatedIsComplete, ReadsArePast, HasFile
<1> QED
  BY <1>1, <1>2, <1>3

\* What UpdateStatus has just read is what the store holds.
LEMMA GetForStatusKept ==
  ASSUME NEW r \in Requests, IInv, TypeOK', HandlersFitJobs', GetForStatus(r)
  PROVE  IInv'
<1> USE DEF IInv, TypeOK, HandlersFitJobs, GetForStatus, ReadSecret, Goto, Answer, secrets,
            Creates, Reports, Present, CreatePCs, ReportPCs, ReadPCs
<1>1. OneCreator' /\ CreationHolds' /\ VerdictBeforeResult'
  BY JobKinds DEF OneCreator, CreationHolds, VerdictBeforeResult
<1>2. Authored' /\ ResultAfterVerdict' /\ AcksHold'
  BY JobKinds DEF Authored, ResultAfterVerdict, AcksHold
<1>3. CreatedIsComplete' /\ ReadsArePast'
  BY JobKinds DEF CreatedIsComplete, ReadsArePast, HasFile
<1>4. CopyNotAhead'
  BY JobKinds DEF CopyNotAhead, OneCreator, CommandSecret
<1> QED
  BY <1>1, <1>2, <1>3, <1>4

\* And so is what SaveResult has just read.
LEMMA GetForResultKept ==
  ASSUME NEW r \in Requests, IInv, TypeOK', HandlersFitJobs', GetForResult(r)
  PROVE  IInv'
<1> USE DEF IInv, TypeOK, HandlersFitJobs, GetForResult, ReadSecret, Goto, Answer, secrets,
            Creates, Reports, Present, CreatePCs, ReportPCs, ReadPCs
<1>1. OneCreator' /\ CreationHolds' /\ VerdictBeforeResult'
  BY JobKinds DEF OneCreator, CreationHolds, VerdictBeforeResult
<1>2. Authored' /\ ResultAfterVerdict' /\ AcksHold'
  BY JobKinds DEF Authored, ResultAfterVerdict, AcksHold
<1>3. CreatedIsComplete' /\ ReadsArePast'
  BY JobKinds DEF CreatedIsComplete, ReadsArePast, HasFile
<1>4. CopyNotAhead'
  BY JobKinds DEF CopyNotAhead, OneCreator, CommandSecret
<1> QED
  BY <1>1, <1>2, <1>3, <1>4

\* A reader's first GET is the store as it is.
LEMMA ReadCommandKept ==
  ASSUME NEW r \in Requests, IInv, TypeOK', HandlersFitJobs', ReadCommand(r)
  PROVE  IInv'
<1> USE DEF IInv, TypeOK, HandlersFitJobs, ReadCommand, ReadSecret, Goto, Answer, secrets,
            Creates, Reports, Present, CreatePCs, ReportPCs, ReadPCs
<1>1. OneCreator' /\ CreationHolds' /\ CopyNotAhead'
  BY JobKinds DEF OneCreator, CreationHolds, CopyNotAhead
<1>2. VerdictBeforeResult' /\ Authored' /\ ResultAfterVerdict'
  BY JobKinds DEF VerdictBeforeResult, Authored, ResultAfterVerdict
<1>3. AcksHold' /\ CreatedIsComplete'
  BY JobKinds DEF AcksHold, CreatedIsComplete, HasFile
<1>4. ReadsArePast'
  BY JobKinds DEF ReadsArePast, OneCreator
<1> QED
  BY <1>1, <1>2, <1>3, <1>4

\* The result it adds from the second GET is the store's, too.
LEMMA ReadResultKept ==
  ASSUME NEW r \in Requests, IInv, TypeOK', HandlersFitJobs', ReadResult(r)
  PROVE  IInv'
<1> USE DEF IInv, TypeOK, HandlersFitJobs, ReadResult, Answer, secrets,
            Creates, Reports, Present, CreatePCs, ReportPCs, ReadPCs
<1>1. OneCreator' /\ CreationHolds' /\ CopyNotAhead'
  BY JobKinds DEF OneCreator, CreationHolds, CopyNotAhead
<1>2. VerdictBeforeResult' /\ Authored' /\ ResultAfterVerdict'
  BY JobKinds DEF VerdictBeforeResult, Authored, ResultAfterVerdict
<1>3. AcksHold' /\ CreatedIsComplete'
  BY JobKinds DEF AcksHold, CreatedIsComplete, HasFile
<1>4. ReadsArePast'
  <2>1. copy[r] \in CommandSecret /\ job[r].cmd \in Commands /\ job[r].op = "read"
    BY JobKinds
  <2>2. reply'[r] = 200 =>
          /\ copy'[r] \in CommandSecret
          /\ copy'[r].status = copy[r].status
          /\ copy'[r].result = IF cmdSecret[job[r].cmd] # Absent
                               THEN cmdSecret[job[r].cmd].result ELSE NoResult
    BY <2>1 DEF CommandSecret
  <2>3. \A q \in Requests \ {r} :
          copy'[q] = copy[q] /\ reply'[q] = reply[q] /\ pc'[q] = pc[q]
    OBVIOUS
  <2>4. UNCHANGED <<cmdSecret, stored, job>> /\ pc'[r] = "done"
    OBVIOUS
  <2> QED
    BY <2>1, <2>2, <2>3, <2>4, AbsentIsNoSecret DEF ReadsArePast
<1> QED
  BY <1>1, <1>2, <1>3, <1>4

\* A process that dies leaves the store as it is and answers nobody.
LEMMA KillKept == ASSUME IInv, TypeOK', HandlersFitJobs', Kill PROVE IInv'
<1> USE DEF IInv, TypeOK, HandlersFitJobs, Kill, Active, Creates, Reports, Present,
            ActivePCs, CreatePCs, ReportPCs, ReadPCs
<1>1. OneCreator' /\ CreationHolds' /\ CopyNotAhead'
  BY DEF OneCreator, CreationHolds, CopyNotAhead
<1>2. VerdictBeforeResult' /\ Authored' /\ ResultAfterVerdict'
  BY DEF VerdictBeforeResult, Authored, ResultAfterVerdict
<1>3. AcksHold' /\ CreatedIsComplete' /\ ReadsArePast'
  BY DEF AcksHold, CreatedIsComplete, ReadsArePast, HasFile
<1> QED
  BY <1>1, <1>2, <1>3

\* A creation stores a command nobody can have seen: its id is not stored.
LEMMA CreateCommandKept ==
  ASSUME NEW r \in Requests, IInv, TypeOK', HandlersFitJobs', CreateCommand(r)
  PROVE  IInv'
<1> DEFINE c == job[r].cmd
<1>1. job[r] \in CreateJob /\ c \in Commands /\ Creates(r, c) /\ c \notin stored /\ ~Present(c)
  BY JobKinds DEF IInv, HandlersFitJobs, CreateCommand, CreatePCs, OneCreator, Creates
<1>2. CASE UNCHANGED <<cmdSecret, stored>> /\ Answer(r, 500)
  <2> USE <1>1, <1>2 DEF IInv, TypeOK, HandlersFitJobs, CreateCommand, Goto, Answer,
                         Creates, Reports, Present, CreatePCs, ReportPCs, ReadPCs
  <2>1. OneCreator' /\ CreationHolds' /\ CopyNotAhead'
    BY DEF OneCreator, CreationHolds, CopyNotAhead
  <2>2. VerdictBeforeResult' /\ Authored' /\ ResultAfterVerdict'
    BY DEF VerdictBeforeResult, Authored, ResultAfterVerdict
  <2>3. AcksHold' /\ CreatedIsComplete' /\ ReadsArePast'
    BY DEF AcksHold, CreatedIsComplete, ReadsArePast, HasFile
  <2> QED
    BY <2>1, <2>2, <2>3
<1>3. CASE StoreCommand(r)
  <2>1. /\ cmdSecret' = [cmdSecret EXCEPT ![c] = NewCommand(r)]
        /\ stored' = stored \cup {c}
        /\ NewCommand(r) # Absent
        /\ NewCommand(r).filenames = job[r].files
        /\ NewCommand(r).status = "pending" /\ NewCommand(r).label = "pending"
        /\ NewCommand(r).result = NoResult
    BY <1>1, <1>3, AbsentIsNoSecret DEF StoreCommand, NewCommand, CreateJob, CommandSecret, Status
  <2> USE <1>1, <2>1 DEF IInv, TypeOK, HandlersFitJobs, CreateCommand, Goto, Answer,
                         Creates, Reports, Present, CreatePCs, ReportPCs, ReadPCs
  <2>2. OneCreator' /\ CreationHolds'
    BY JobKinds DEF OneCreator, CreationHolds
  <2>3. CopyNotAhead' /\ VerdictBeforeResult'
    BY DEF CopyNotAhead, VerdictBeforeResult
  <2>4. Authored' /\ ResultAfterVerdict'
    BY DEF Authored, ResultAfterVerdict, Terminal
  <2>5. AcksHold' /\ CreatedIsComplete' /\ ReadsArePast'
    BY DEF AcksHold, CreatedIsComplete, ReadsArePast, HasFile, OneCreator
  <2> QED
    BY <2>2, <2>3, <2>4, <2>5
<1> QED
  BY <1>2, <1>3 DEF CreateCommand

\* The second Secret belongs to this creation alone.
LEMMA CreateFilesKept ==
  ASSUME NEW r \in Requests, IInv, TypeOK', HandlersFitJobs', CreateFiles(r)
  PROVE  IInv'
<1> USE DEF IInv, TypeOK, HandlersFitJobs, CreateFiles, Goto, Answer,
            Creates, Reports, Present, CreatePCs, ReportPCs, ReadPCs
<1>1. OneCreator' /\ CreationHolds' /\ CopyNotAhead'
  BY DEF OneCreator, CreationHolds, CopyNotAhead
<1>2. VerdictBeforeResult' /\ Authored' /\ ResultAfterVerdict'
  BY DEF VerdictBeforeResult, Authored, ResultAfterVerdict
<1>3. AcksHold' /\ ReadsArePast'
  BY JobKinds DEF AcksHold, ReadsArePast
<1>4. CreatedIsComplete'
  BY JobKinds, AbsentIsNoSecret DEF CreatedIsComplete, CreationHolds, OneCreator, HasFile
<1> QED
  BY <1>1, <1>2, <1>3, <1>4

\* A rollback takes its own command away, which no creation answered 201 for.
LEMMA RollbackKept ==
  ASSUME NEW r \in Requests, IInv, TypeOK', HandlersFitJobs', Rollback(r)
  PROVE  IInv'
<1> USE DEF IInv, TypeOK, HandlersFitJobs, Rollback, Answer,
            Creates, Reports, Present, CreatePCs, ReportPCs, ReadPCs
<1>1. OneCreator' /\ CreationHolds' /\ CopyNotAhead'
  BY JobKinds DEF OneCreator, CreationHolds, CopyNotAhead
<1>2. VerdictBeforeResult' /\ Authored' /\ ResultAfterVerdict'
  BY JobKinds DEF VerdictBeforeResult, Authored, ResultAfterVerdict
<1>3. AcksHold' /\ ReadsArePast'
  BY JobKinds DEF AcksHold, ReadsArePast
<1>4. CreatedIsComplete'
  BY JobKinds DEF CreatedIsComplete, OneCreator, HasFile
<1> QED
  BY <1>1, <1>2, <1>3, <1>4

\* What UpdateStatus does to the store when its UPDATE goes through.
LEMMA PutStatusEffect ==
  ASSUME NEW r \in Requests, IInv, PutStatus(r),
         WriteSecret(r, WithVerdict(copy[r], job[r].success))
  PROVE  LET c == job[r].cmd
         IN \E t \in CommandSecret :
              /\ c \in Commands /\ c \in stored
              /\ job[r] \in ReportJob /\ Reports(r, c)
              /\ cmdSecret[c] \in CommandSecret
              /\ cmdSecret' = [cmdSecret EXCEPT ![c] = t]
              /\ t.rv = cmdSecret[c].rv + 1
              /\ t.filenames = cmdSecret[c].filenames /\ t.agent = cmdSecret[c].agent
              /\ t.result = cmdSecret[c].result
              /\ t.status = Verdict(job[r].success) /\ t.label = t.status
              /\ t.status \in Terminal
<1> DEFINE c == job[r].cmd
           t == [WithVerdict(copy[r], job[r].success) EXCEPT !.rv = @ + 1]
<1>1. /\ job[r] \in ReportJob /\ Reports(r, c) /\ c \in Commands
      /\ copy[r] \in CommandSecret /\ job[r].success \in BOOLEAN
  BY JobKinds DEF IInv, TypeOK, HandlersFitJobs, PutStatus, ReportPCs, Reports
<1>2. VersionMatches(r) /\ cmdSecret' = [cmdSecret EXCEPT ![c] = t]
  BY DEF WriteSecret
<1>3. copy[r] = cmdSecret[c] /\ c \in stored
  BY <1>2 DEF IInv, CopyNotAhead, PutStatus, VersionMatches
<1>4. /\ t \in CommandSecret /\ t.rv = copy[r].rv + 1
      /\ t.filenames = copy[r].filenames /\ t.agent = copy[r].agent
      /\ t.result = copy[r].result
      /\ t.status = Verdict(job[r].success) /\ t.label = Verdict(job[r].success)
      /\ t.status \in Terminal
  BY <1>1, VerdictSent, NextVersion
<1> HIDE DEF t
<1> QED
  BY <1>1, <1>2, <1>3, <1>4

\* What SaveResult does to the store when its UPDATE goes through.
LEMMA PutResultEffect ==
  ASSUME NEW r \in Requests, IInv, PutResult(r),
         WriteSecret(r, WithResult(copy[r], r))
  PROVE  LET c == job[r].cmd
         IN \E t \in CommandSecret :
              /\ c \in Commands /\ c \in stored
              /\ job[r] \in ReportJob /\ Reports(r, c)
              /\ cmdSecret[c] \in CommandSecret
              /\ cmdSecret' = [cmdSecret EXCEPT ![c] = t]
              /\ t.rv = cmdSecret[c].rv + 1
              /\ t.filenames = cmdSecret[c].filenames /\ t.agent = cmdSecret[c].agent
              /\ t.status = cmdSecret[c].status /\ t.label = cmdSecret[c].label
              /\ t.status \in Terminal /\ t.label \in Terminal
              /\ t.result # NoResult
              /\ t.result.from = r /\ t.result.success = job[r].success
<1> DEFINE c == job[r].cmd
           t == [WithResult(copy[r], r) EXCEPT !.rv = @ + 1]
<1>1. /\ job[r] \in ReportJob /\ Reports(r, c) /\ c \in Commands
      /\ copy[r] \in CommandSecret
  BY JobKinds DEF IInv, TypeOK, HandlersFitJobs, PutResult, ReportPCs, Reports
<1>2. VersionMatches(r) /\ cmdSecret' = [cmdSecret EXCEPT ![c] = t]
  BY DEF WriteSecret
<1>3. copy[r] = cmdSecret[c] /\ c \in stored
  BY <1>2 DEF IInv, CopyNotAhead, PutResult, VersionMatches
<1>4. cmdSecret[c].status \in Terminal /\ cmdSecret[c].label \in Terminal
  BY <1>1, <1>2 DEF IInv, VerdictBeforeResult, Authored, PutResult, VersionMatches, Present
<1>5. /\ t \in CommandSecret /\ t.rv = copy[r].rv + 1
      /\ t.filenames = copy[r].filenames /\ t.agent = copy[r].agent
      /\ t.status = copy[r].status /\ t.label = copy[r].label
      /\ t.result # NoResult
      /\ t.result.from = r /\ t.result.success = job[r].success
  BY <1>1, ResultSent, NextVersion
<1> HIDE DEF t
<1> QED
  BY <1>1, <1>2, <1>3, <1>4, <1>5

\* A verdict is written into the Secret as it stands: nothing a handler or a
\* reader relies on is undone.
LEMMA PutStatusKept ==
  ASSUME NEW r \in Requests, IInv, TypeOK', HandlersFitJobs', PutStatus(r)
  PROVE  IInv'
<1> DEFINE c == job[r].cmd
<1> USE DEF IInv, TypeOK, HandlersFitJobs, PutStatus, Goto, Answer,
            Creates, Reports, Present, CreatePCs, ReportPCs, ReadPCs
<1>1. CASE UNCHANGED cmdSecret /\ Answer(r, 500)
  <2>1. OneCreator' /\ CreationHolds' /\ CopyNotAhead'
    BY <1>1 DEF OneCreator, CreationHolds, CopyNotAhead
  <2>2. VerdictBeforeResult' /\ Authored' /\ ResultAfterVerdict'
    BY <1>1 DEF VerdictBeforeResult, Authored, ResultAfterVerdict
  <2>3. AcksHold' /\ CreatedIsComplete' /\ ReadsArePast'
    BY <1>1 DEF AcksHold, CreatedIsComplete, ReadsArePast, HasFile
  <2> QED
    BY <2>1, <2>2, <2>3
<1>2. CASE WriteSecret(r, WithVerdict(copy[r], job[r].success))
  <2>1. PICK t \in CommandSecret :
          /\ c \in Commands /\ c \in stored
          /\ job[r] \in ReportJob /\ Reports(r, c)
          /\ cmdSecret[c] \in CommandSecret
          /\ cmdSecret' = [cmdSecret EXCEPT ![c] = t]
          /\ t.rv = cmdSecret[c].rv + 1
          /\ t.filenames = cmdSecret[c].filenames
          /\ t.result = cmdSecret[c].result
          /\ t.status = Verdict(job[r].success) /\ t.label = t.status
          /\ t.status \in Terminal
    BY <1>2, PutStatusEffect
  <2>2. t # Absent /\ cmdSecret[c] # Absent /\ cmdSecret[c].rv \in Nat
    BY <2>1, AbsentIsNoSecret DEF CommandSecret
  <2>3. OneCreator' /\ CreationHolds'
    BY <2>1, <2>2 DEF OneCreator, CreationHolds
  <2>4. CopyNotAhead'
    BY <2>1, <2>2 DEF CopyNotAhead, CommandSecret
  <2>5. VerdictBeforeResult' /\ ResultAfterVerdict'
    BY <2>1, <2>2 DEF VerdictBeforeResult, ResultAfterVerdict
  <2>6. Authored'
    BY <2>1, <2>2 DEF Authored, Terminal
  <2>7. AcksHold'
    BY <2>1, <2>2 DEF AcksHold
  <2>8. CreatedIsComplete'
    BY <2>1, <2>2 DEF CreatedIsComplete, HasFile
  <2>9. ReadsArePast'
    BY <2>1, <2>2 DEF ReadsArePast
  <2> QED
    BY <2>3, <2>4, <2>5, <2>6, <2>7, <2>8, <2>9
<1> QED
  BY <1>1, <1>2

\* A result is written beside the verdict that is already there.
LEMMA PutResultKept ==
  ASSUME NEW r \in Requests, IInv, TypeOK', HandlersFitJobs', PutResult(r)
  PROVE  IInv'
<1> DEFINE c == job[r].cmd
<1> USE DEF IInv, TypeOK, HandlersFitJobs, PutResult, Goto, Answer,
            Creates, Reports, Present, CreatePCs, ReportPCs, ReadPCs
<1>1. CASE UNCHANGED cmdSecret /\ Answer(r, 500)
  <2>1. OneCreator' /\ CreationHolds' /\ CopyNotAhead'
    BY <1>1 DEF OneCreator, CreationHolds, CopyNotAhead
  <2>2. VerdictBeforeResult' /\ Authored' /\ ResultAfterVerdict'
    BY <1>1 DEF VerdictBeforeResult, Authored, ResultAfterVerdict
  <2>3. AcksHold' /\ CreatedIsComplete' /\ ReadsArePast'
    BY <1>1 DEF AcksHold, CreatedIsComplete, ReadsArePast, HasFile
  <2> QED
    BY <2>1, <2>2, <2>3
<1>2. CASE WriteSecret(r, WithResult(copy[r], r))
  <2>1. PICK t \in CommandSecret :
          /\ c \in Commands /\ c \in stored
          /\ job[r] \in ReportJob /\ Reports(r, c)
          /\ cmdSecret[c] \in CommandSecret
          /\ cmdSecret' = [cmdSecret EXCEPT ![c] = t]
          /\ t.rv = cmdSecret[c].rv + 1
          /\ t.filenames = cmdSecret[c].filenames
          /\ t.status = cmdSecret[c].status /\ t.label = cmdSecret[c].label
          /\ t.status \in Terminal /\ t.label \in Terminal
          /\ t.result # NoResult
          /\ t.result.from = r /\ t.result.success = job[r].success
    BY <1>2, PutResultEffect
  <2>2. t # Absent /\ cmdSecret[c] # Absent /\ cmdSecret[c].rv \in Nat
    BY <2>1, AbsentIsNoSecret DEF CommandSecret
  <2>3. OneCreator' /\ CreationHolds'
    BY <2>1, <2>2 DEF OneCreator, CreationHolds
  <2>4. CopyNotAhead'
    BY <2>1, <2>2 DEF CopyNotAhead, CommandSecret
  <2>5. VerdictBeforeResult' /\ ResultAfterVerdict'
    BY <2>1, <2>2 DEF VerdictBeforeResult, ResultAfterVerdict
  <2>6. Authored'
    BY <2>1, <2>2 DEF Authored, Terminal
  <2>7. AcksHold'
    BY <2>1, <2>2 DEF AcksHold
  <2>8. CreatedIsComplete'
    BY <2>1, <2>2 DEF CreatedIsComplete, HasFile
  <2>9. ReadsArePast'
    BY <2>1, <2>2 DEF ReadsArePast
  <2> QED
    BY <2>3, <2>4, <2>5, <2>6, <2>7, <2>8, <2>9
<1> QED
  BY <1>1, <1>2

\* A step that changes nothing keeps everything.
LEMMA StutterKept == IInv /\ UNCHANGED vars => IInv'
<1> SUFFICES ASSUME IInv, UNCHANGED vars PROVE IInv'
  OBVIOUS
<1> USE DEF IInv, vars, Creates, Reports, Present
<1>1. TypeOK' /\ HandlersFitJobs' /\ OneCreator' /\ CreationHolds' /\ CopyNotAhead'
  BY DEF TypeOK, HandlersFitJobs, OneCreator, CreationHolds, CopyNotAhead
<1>2. VerdictBeforeResult' /\ Authored' /\ ResultAfterVerdict'
  BY DEF VerdictBeforeResult, Authored, ResultAfterVerdict
<1>3. AcksHold' /\ CreatedIsComplete' /\ ReadsArePast'
  BY DEF AcksHold, CreatedIsComplete, ReadsArePast, HasFile
<1> QED
  BY <1>1, <1>2, <1>3

-----------------------------------------------------------------------------
\* The theorems

\* Every step of every handler keeps the inductive invariant.
LEMMA IInvKept == IInv /\ [Next]_vars => IInv'
<1> SUFFICES ASSUME IInv, [Next]_vars PROVE IInv'
  OBVIOUS
<1>1. TypeOK' /\ HandlersFitJobs'
  BY TypeOKKept DEF IInv
<1>2. ASSUME NEW r \in Requests, Receive(r) PROVE IInv'
  BY <1>1, <1>2, ReceiveCreateKept, RejectKept, ReceiveReportKept, ReceiveReadKept
     DEF Receive
<1>3. ASSUME NEW r \in Requests, Handle(r) PROVE IInv'
  BY <1>1, <1>3, CreateCommandKept, CreateFilesKept, RollbackKept, GetForStatusKept,
     PutStatusKept, GetForResultKept, PutResultKept, ReadCommandKept, ReadResultKept
     DEF Handle
<1>4. CASE Kill
  BY <1>1, <1>4, KillKept
<1>5. CASE UNCHANGED vars
  BY <1>5, StutterKept
<1> QED
  BY <1>2, <1>3, <1>4, <1>5 DEF Next

\* In every behaviour of the command API the inductive invariant holds.
THEOREM Invariance == Spec => []IInv
<1>1. Init => IInv
  BY InitIInv
<1>2. IInv /\ [Next]_vars => IInv'
  BY IInvKept
<1> QED
  BY <1>1, <1>2, PTL DEF Spec

\* The Secrets, the jobs and the answers keep their form.
THEOREM TypeCorrect == Spec => []TypeOK
<1>1. IInv => TypeOK
  BY DEF IInv
<1> QED
  BY <1>1, Invariance, PTL

\* A result is only ever beside a verdict, however many reporters race.
THEOREM VerdictComesFirst == Spec => []ResultAfterVerdict
<1>1. IInv => ResultAfterVerdict
  BY DEF IInv
<1> QED
  BY <1>1, Invariance, PTL

\* What was answered 200 to a reporter stays on record.
THEOREM AcksAreKept == Spec => []AckedIsRecorded
<1>1. IInv => AckedIsRecorded
  <2> SUFFICES ASSUME IInv, NEW r \in Requests, job[r].op = "report", reply[r] = 200
               PROVE  /\ \A a \in Agents : job[r].cmd \notin PendingFor(a)
                      /\ Present(job[r].cmd) => cmdSecret[job[r].cmd].result # NoResult
    BY DEF AckedIsRecorded
  <2>1. Present(job[r].cmd) => cmdSecret[job[r].cmd].result # NoResult
    BY DEF IInv, AcksHold
  <2>2. job[r].cmd \in Commands /\ Present(job[r].cmd) =>
          cmdSecret[job[r].cmd].label \in Terminal
    BY <2>1 DEF IInv, ResultAfterVerdict
  <2> QED
    BY <2>1, <2>2 DEF PendingFor, Terminal
<1> QED
  BY <1>1, Invariance, PTL

\* What was answered 201 to an administrator stays whole.
THEOREM CreationsAreKept == Spec => []CreatedIsComplete
<1>1. IInv => CreatedIsComplete
  BY DEF IInv
<1> QED
  BY <1>1, Invariance, PTL

\* Reporters that agree leave a status and a result that agree.
THEOREM AgreementIsKept == Spec => []VerdictAgrees
<1>1. IInv => VerdictAgrees
  <2> SUFFICES ASSUME IInv, NEW c \in Commands, AllAgree(c), Present(c),
                      cmdSecret[c].result # NoResult
               PROVE  cmdSecret[c].status = Verdict(cmdSecret[c].result.success)
    BY DEF VerdictAgrees, VerdictMatchesResult
  <2>1. cmdSecret[c].result \in Result
    BY DEF IInv, TypeOK, CommandSecret, Present
  <2>2. cmdSecret[c].result.from \in Requests
    BY <2>1 DEF Result
  <2>3. /\ Reports(cmdSecret[c].result.from, c)
        /\ cmdSecret[c].result.success = job[cmdSecret[c].result.from].success
    BY DEF IInv, Authored
  <2>4. PICK r \in Requests : Reports(r, c) /\ cmdSecret[c].status = Verdict(job[r].success)
    BY DEF IInv, Authored, ResultAfterVerdict
  <2> QED
    BY <2>2, <2>3, <2>4 DEF AllAgree
<1> QED
  BY <1>1, Invariance, PTL

\* A reader was never shown a verdict or a result that the store lacks.
THEOREM ReadsAreKept == Spec => []ReadNeverAhead
<1>1. IInv => ReadNeverAhead
  <2> SUFFICES ASSUME IInv, NEW r \in Requests, job[r].op = "read", reply[r] = 200,
                      Present(job[r].cmd)
               PROVE  LET now == cmdSecret[job[r].cmd]
                      IN /\ copy[r].status \in Terminal => now.status \in Terminal
                         /\ copy[r].result # NoResult =>
                              now.result # NoResult /\ now.status \in Terminal
    BY DEF ReadNeverAhead
  <2>1. job[r].cmd \in Commands
    BY DEF IInv, ReadsArePast, TypeOK
  <2> QED
    BY <2>1 DEF IInv, ReadsArePast, ResultAfterVerdict
<1> QED
  BY <1>1, Invariance, PTL

-----------------------------------------------------------------------------
\* The handlers implement the life of a command

\* Nothing is stored yet: every command is unborn.
LEMMA LifecycleStarts == Init => Lifecycle!LifecycleInit
BY DEF Init, Lifecycle!LifecycleInit, StateOf, OutcomeOf, Present

\* A step that leaves the store alone is no step in the life of a command.
LEMMA NoStoreNoLife ==
  UNCHANGED <<cmdSecret, stored>> => UNCHANGED Lifecycle!lifecycleVars
BY DEF Lifecycle!lifecycleVars, StateOf, OutcomeOf, Present

\* The first call of a creation submits the command.
LEMMA StoreIsSubmit ==
  ASSUME NEW r \in Requests, IInv, CreateCommand(r), StoreCommand(r)
  PROVE  Lifecycle!Submit(job[r].cmd)
<1> DEFINE c == job[r].cmd
<1>1. c \in Commands /\ c \notin stored /\ ~Present(c) /\ job[r] \in CreateJob
  BY JobKinds DEF IInv, HandlersFitJobs, CreateCommand, CreatePCs, OneCreator
<1>2. /\ cmdSecret' = [cmdSecret EXCEPT ![c] = NewCommand(r)]
      /\ stored' = stored \cup {c}
      /\ NewCommand(r) # Absent
      /\ NewCommand(r).status = "pending" /\ NewCommand(r).result = NoResult
  BY <1>1, AbsentIsNoSecret DEF StoreCommand, NewCommand, CreateJob, CommandSecret, Status
<1> QED
  BY <1>1, <1>2 DEF IInv, TypeOK, Lifecycle!Submit, StateOf, OutcomeOf, Present

\* A rollback that goes through withdraws the command.
LEMMA RollbackIsWithdraw ==
  ASSUME NEW r \in Requests, IInv, Rollback(r),
         cmdSecret' = [cmdSecret EXCEPT ![job[r].cmd] = Absent]
  PROVE  \E c \in Commands : Lifecycle!Withdraw(c)
<1>1. PICK c \in Commands : c = job[r].cmd /\ c \in stored /\ Present(c)
  BY JobKinds DEF IInv, HandlersFitJobs, Rollback, CreatePCs, OneCreator, CreationHolds
<1>2. StateOf(c) \in {"pending"} \cup Lifecycle!Verdicts
  BY <1>1 DEF IInv, TypeOK, Authored, StateOf, OutcomeOf, Present, CommandSecret, Status, Terminal,
              Lifecycle!Verdicts
<1>3. stored' = stored /\ cmdSecret' = [cmdSecret EXCEPT ![c] = Absent]
  BY <1>1 DEF Rollback
<1>4. \A d \in Commands :
        /\ StateOf(d)' = IF d = c THEN "withdrawn" ELSE StateOf(d)
        /\ OutcomeOf(d)' = IF d = c THEN NoResult ELSE OutcomeOf(d)
  BY <1>1, <1>3 DEF IInv, TypeOK, StateOf, OutcomeOf, Present
<1>5. Lifecycle!Withdraw(c)
  BY <1>2, <1>4 DEF Lifecycle!Withdraw
<1> QED
  BY <1>5

\* The UPDATE of UpdateStatus concludes the command.
LEMMA PutStatusIsConclude ==
  ASSUME NEW r \in Requests, IInv, PutStatus(r),
         WriteSecret(r, WithVerdict(copy[r], job[r].success))
  PROVE  LET v == Verdict(job[r].success)
         IN /\ job[r].cmd \in Commands /\ v \in Lifecycle!Verdicts
            /\ job[r] \in ReportJob
            /\ Lifecycle!Conclude(job[r].cmd, v)
<1> DEFINE c == job[r].cmd
<1>1. PICK t \in CommandSecret :
        /\ c \in Commands /\ c \in stored /\ job[r] \in ReportJob
        /\ cmdSecret[c] \in CommandSecret
        /\ cmdSecret' = [cmdSecret EXCEPT ![c] = t]
        /\ t.result = cmdSecret[c].result
        /\ t.status \in Terminal /\ t.status = Verdict(job[r].success)
  BY PutStatusEffect
<1>2. t # Absent /\ cmdSecret[c] # Absent /\ stored' = stored
  BY <1>1, AbsentIsNoSecret DEF PutStatus
<1>3. StateOf(c) \in {"pending"} \cup Lifecycle!Verdicts
  BY <1>1, <1>2 DEF IInv, Authored, StateOf, OutcomeOf, Present, CommandSecret, Status, Terminal,
                    Lifecycle!Verdicts
<1>4. Lifecycle!Conclude(c, t.status)
  BY <1>1, <1>2, <1>3 DEF IInv, TypeOK, Lifecycle!Conclude, StateOf, OutcomeOf, Present
<1> QED
  BY <1>1, <1>4 DEF Terminal, Lifecycle!Verdicts

\* The UPDATE of SaveResult attaches the report.
LEMMA PutResultIsAttach ==
  ASSUME NEW r \in Requests, IInv, PutResult(r), WriteSecret(r, WithResult(copy[r], r))
  PROVE  \E res \in Result :
           /\ job[r].cmd \in Commands /\ job[r] \in ReportJob
           /\ res.success = job[r].success
           /\ Lifecycle!Attach(job[r].cmd, res)
<1> DEFINE c == job[r].cmd
<1>1. PICK t \in CommandSecret :
        /\ c \in Commands /\ c \in stored /\ job[r] \in ReportJob
        /\ cmdSecret[c] \in CommandSecret
        /\ cmdSecret' = [cmdSecret EXCEPT ![c] = t]
        /\ t.status = cmdSecret[c].status
        /\ t.status \in Terminal
        /\ t.result # NoResult /\ t.result.success = job[r].success
  BY PutResultEffect
<1>2. t # Absent /\ cmdSecret[c] # Absent /\ stored' = stored
  BY <1>1, AbsentIsNoSecret DEF PutResult
<1>3. t.result \in Result
  BY <1>1 DEF CommandSecret
<1>4. Lifecycle!Attach(c, t.result)
  BY <1>1, <1>2 DEF IInv, TypeOK, Lifecycle!Attach, Lifecycle!Verdicts, StateOf, OutcomeOf, Present,
                    Terminal
<1> QED
  BY <1>1, <1>3, <1>4

\* Every step of every handler is a step in the life of one command, or none.
LEMMA LifecycleMoves ==
  IInv /\ [Next]_vars => [Lifecycle!LifecycleNext]_Lifecycle!lifecycleVars
<1> SUFFICES ASSUME IInv, [Next]_vars
             PROVE  Lifecycle!LifecycleNext \/ UNCHANGED Lifecycle!lifecycleVars
  OBVIOUS
<1>1. CASE UNCHANGED <<cmdSecret, stored>>
  BY <1>1, NoStoreNoLife
<1>2. ASSUME NEW r \in Requests, CreateCommand(r), ~UNCHANGED <<cmdSecret, stored>>
      PROVE  Lifecycle!LifecycleNext
  <2>1. StoreCommand(r) /\ job[r].cmd \in Commands
    BY <1>2, JobKinds DEF CreateCommand, IInv, HandlersFitJobs, CreatePCs
  <2> QED
    BY <1>2, <2>1, StoreIsSubmit DEF Lifecycle!LifecycleNext
<1>3. ASSUME NEW r \in Requests, Rollback(r), ~UNCHANGED <<cmdSecret, stored>>
      PROVE  Lifecycle!LifecycleNext
  <2>1. cmdSecret' = [cmdSecret EXCEPT ![job[r].cmd] = Absent] /\ job[r].cmd \in Commands
    BY <1>3, JobKinds DEF Rollback, IInv, HandlersFitJobs, CreatePCs
  <2> QED
    BY <1>3, <2>1, RollbackIsWithdraw, Zenon DEF Lifecycle!LifecycleNext
<1>4. ASSUME NEW r \in Requests, PutStatus(r), ~UNCHANGED <<cmdSecret, stored>>
      PROVE  Lifecycle!LifecycleNext
  BY <1>4, PutStatusIsConclude DEF PutStatus, Lifecycle!LifecycleNext
<1>5. ASSUME NEW r \in Requests, PutResult(r), ~UNCHANGED <<cmdSecret, stored>>
      PROVE  Lifecycle!LifecycleNext
  BY <1>5, PutResultIsAttach DEF PutResult, Lifecycle!LifecycleNext
<1>6. ASSUME NEW r \in Requests, Receive(r) PROVE UNCHANGED <<cmdSecret, stored>>
  BY <1>6 DEF Receive, ReceiveCreate, Reject, ReceiveReport, ReceiveRead, Accept, secrets
<1>7. ASSUME NEW r \in Requests,
             CreateFiles(r) \/ GetForStatus(r) \/ GetForResult(r) \/ ReadCommand(r) \/ ReadResult(r)
      PROVE  UNCHANGED <<cmdSecret, stored>>
  BY <1>7 DEF CreateFiles, GetForStatus, GetForResult, ReadCommand, ReadResult, secrets
<1> QED
  BY <1>1, <1>2, <1>3, <1>4, <1>5, <1>6, <1>7 DEF Next, Handle, Kill, vars

\* The interleaved and failing handlers implement CommandLifecycle.
THEOREM LifecycleIsImplemented == Spec => ImplementsLifecycle
<1>1. Init => Lifecycle!LifecycleInit
  BY LifecycleStarts
<1>2. IInv /\ [Next]_vars => [Lifecycle!LifecycleNext]_Lifecycle!lifecycleVars
  BY LifecycleMoves
<1> QED
  BY <1>1, <1>2, Invariance, PTL DEF Spec, ImplementsLifecycle, Lifecycle!LifecycleSpec

-----------------------------------------------------------------------------
\* When nothing breaks

\* Who else works on a command, and what it has been given, is left to it by a
\* step that does not touch the store, of a handler that was not about to
\* attach a result itself.
LEMMA CalmIfStoreStays ==
  ASSUME CalmInv, NEW r \in Requests, UNCHANGED <<cmdSecret, stored>>,
         \A q \in Requests \ {r} : job'[q] = job[q] /\ pc'[q] = pc[q] /\ copy'[q] = copy[q],
         \A c : WillAttach(r, c) => WillAttach(r, c)',
         pc'[r] # "rollback",
         pc'[r] \in {"idle", "getForStatus"} => copy'[r] = Absent,
         job'[r].op = "report" /\ pc'[r] = "done" /\ copy'[r] # Absent =>
           IsFollowedUp(job'[r].cmd)
  PROVE  CalmInv'
<1>1. \A c : IsFollowedUp(c) => IsFollowedUp(c)'
  BY DEF IsFollowedUp, WillAttach, Reports, Present
<1>2. (\A c \in stored : Present(c))' /\ (\A q \in Requests : pc[q] # "rollback")'
  BY DEF CalmInv, Present
<1>3. (\A q \in Requests : pc[q] \in {"idle", "getForStatus"} => copy[q] = Absent)'
  BY DEF CalmInv
<1> QED
  BY <1>1, <1>2, <1>3 DEF CalmInv, ReportsAreFollowedUp, Present

\* An update that leaves its command followed up leaves every other command to
\* whom it was left before.
LEMMA CalmIfFollowedUp ==
  ASSUME IInv, CalmInv, NEW r \in Requests, NEW c \in Commands, Reports(r, c),
         \A d : d # c => cmdSecret'[d] = cmdSecret[d],
         stored' = stored, job' = job,
         \A q \in Requests \ {r} : pc'[q] = pc[q] /\ copy'[q] = copy[q],
         pc'[r] \in {"getForResult", "done"},
         IsFollowedUp(c)'
  PROVE  CalmInv'
<1>1. ASSUME NEW d, d # c, IsFollowedUp(d) PROVE IsFollowedUp(d)'
  BY <1>1 DEF IsFollowedUp, WillAttach, Reports, Present
<1>2. (\A d \in stored : Present(d))' /\ (\A q \in Requests : pc[q] # "rollback")'
  BY DEF CalmInv, Present, IsFollowedUp
<1>3. (\A q \in Requests : pc[q] \in {"idle", "getForStatus"} => copy[q] = Absent)'
  BY DEF CalmInv
<1>4. ASSUME NEW d \in Commands,
             Present(d)', (cmdSecret[d].rv > 0 \/ cmdSecret[d].status \in Terminal)'
      PROVE  IsFollowedUp(d)'
  BY <1>1, <1>4 DEF CalmInv, Present
<1>5. ReportsAreFollowedUp'
  BY <1>1 DEF CalmInv, ReportsAreFollowedUp, Reports
<1> QED
  BY <1>2, <1>3, <1>4, <1>5 DEF CalmInv

\* A creation stores a command that nobody has reported on.
LEMMA CalmCreateCommand ==
  ASSUME ~Faulty, IInv, CalmInv, NEW r \in Requests, CreateCommand(r)
  PROVE  CalmInv'
<1> DEFINE c == job[r].cmd
<1>1. c \in Commands /\ c \notin stored /\ ~Present(c) /\ job[r] \in CreateJob
  BY JobKinds DEF IInv, HandlersFitJobs, CreateCommand, CreatePCs, OneCreator
<1>2. /\ cmdSecret' = [cmdSecret EXCEPT ![c] = NewCommand(r)]
      /\ stored' = stored \cup {c}
      /\ NewCommand(r) # Absent /\ NewCommand(r).rv = 0 /\ NewCommand(r).status = "pending"
      /\ pc' = [pc EXCEPT ![r] = "createFiles"] /\ job' = job /\ copy' = copy
  BY <1>1, AbsentIsNoSecret DEF CreateCommand, StoreCommand, NewCommand, CreateJob, CommandSecret,
     Status, Goto
<1>3. ASSUME NEW d, IsFollowedUp(d) PROVE d # c /\ IsFollowedUp(d)'
  <2>1. d # c /\ cmdSecret'[d] = cmdSecret[d]
    BY <1>1, <1>2, <1>3 DEF IsFollowedUp, IInv, TypeOK
  <2> QED
    BY <1>1, <1>2, <1>3, <2>1, JobKinds DEF IsFollowedUp, WillAttach, Reports, Present, IInv, TypeOK
<1>4. (\A d \in stored : Present(d))' /\ (\A q \in Requests : pc[q] # "rollback")'
  BY <1>1, <1>2 DEF CalmInv, Present, IInv, TypeOK
<1>5. (\A q \in Requests : pc[q] \in {"idle", "getForStatus"} => copy[q] = Absent)'
  BY <1>2 DEF CalmInv, IInv, TypeOK
<1>6. ASSUME NEW d \in Commands,
             Present(d)', (cmdSecret[d].rv > 0 \/ cmdSecret[d].status \in Terminal)'
      PROVE  IsFollowedUp(d)'
  BY <1>1, <1>2, <1>3, <1>6 DEF CalmInv, Present, Terminal, IInv, TypeOK
<1>7. ReportsAreFollowedUp'
  BY <1>2, <1>3, JobKinds DEF CalmInv, ReportsAreFollowedUp, IInv, TypeOK
<1> QED
  BY <1>4, <1>5, <1>6, <1>7 DEF CalmInv

\* A status that is written is followed up by its reporter; one that is refused,
\* by whoever came first.
LEMMA CalmPutStatus ==
  ASSUME ~Faulty, IInv, CalmInv, NEW r \in Requests, PutStatus(r)
  PROVE  CalmInv'
<1> DEFINE c == job[r].cmd
<1>1. /\ job[r] \in ReportJob /\ Reports(r, c) /\ c \in Commands /\ c \in stored
      /\ copy[r] \in CommandSecret
  BY JobKinds DEF IInv, TypeOK, HandlersFitJobs, CopyNotAhead, PutStatus, ReportPCs, Reports
<1>2. Present(c) /\ cmdSecret[c] \in CommandSecret
  BY <1>1 DEF CalmInv, Present, IInv, TypeOK
<1>3. CASE WriteSecret(r, WithVerdict(copy[r], job[r].success))
  <2>1. PICK t \in CommandSecret :
          cmdSecret' = [cmdSecret EXCEPT ![c] = t] /\ t.status \in Terminal
    BY <1>3, PutStatusEffect
  <2>2. /\ pc' = [pc EXCEPT ![r] = "getForResult"]
        /\ stored' = stored /\ job' = job /\ copy' = copy
    BY <1>2, <1>3 DEF PutStatus, Goto, WriteSecret, CallFails
  <2>3. IsFollowedUp(c)'
    BY <1>1, <2>1, <2>2, AbsentIsNoSecret
       DEF IsFollowedUp, WillAttach, Reports, Present, IInv, TypeOK
  <2>4. \A d : d # c => cmdSecret'[d] = cmdSecret[d]
    BY <2>1 DEF IInv, TypeOK
  <2> QED
    BY <1>1, <2>2, <2>3, <2>4, CalmIfFollowedUp DEF IInv, TypeOK
<1>4. CASE ~VersionMatches(r) /\ UNCHANGED cmdSecret /\ Answer(r, 500)
  <2>1. cmdSecret[c].rv > 0
    <3>1. copy[r].rv \in Nat /\ cmdSecret[c].rv \in Nat
      BY <1>1, <1>2 DEF CommandSecret
    <3>2. copy[r].rv <= cmdSecret[c].rv /\ copy[r].rv # cmdSecret[c].rv
      BY <1>2, <1>4 DEF VersionMatches, IInv, CopyNotAhead, PutStatus
    <3> QED
      BY <3>1, <3>2
  <2>2. IsFollowedUp(c)
    BY <1>1, <1>2, <2>1 DEF CalmInv
  <2>3. /\ pc' = [pc EXCEPT ![r] = "done"]
        /\ UNCHANGED <<cmdSecret, stored, job, copy>>
    BY <1>4 DEF PutStatus, Answer
  <2> QED
    BY <2>2, <2>3, CalmIfStoreStays DEF PutStatus, WillAttach, IInv, TypeOK
<1> QED
  BY <1>3, <1>4 DEF PutStatus, CallFails

\* A result that is refused has been overtaken: the verdict was updated, and
\* who updated it follows it up.
LEMMA CalmPutResult ==
  ASSUME ~Faulty, IInv, CalmInv, NEW r \in Requests, PutResult(r)
  PROVE  CalmInv'
<1> DEFINE c == job[r].cmd
<1>1. /\ job[r] \in ReportJob /\ Reports(r, c) /\ c \in Commands /\ c \in stored
  BY JobKinds DEF IInv, TypeOK, HandlersFitJobs, CopyNotAhead, PutResult, ReportPCs, Reports
<1>2. Present(c) /\ cmdSecret[c].status \in Terminal
  BY <1>1 DEF CalmInv, IInv, VerdictBeforeResult, PutResult
<1>3. pc' = [pc EXCEPT ![r] = "done"] /\ UNCHANGED <<stored, job, copy>>
  BY DEF PutResult, Answer
<1>4. CASE WriteSecret(r, WithResult(copy[r], r))
  <2>1. PICK t \in CommandSecret :
          /\ cmdSecret' = [cmdSecret EXCEPT ![c] = t]
          /\ t.status \in Terminal /\ t.result # NoResult
    BY <1>4, PutResultEffect
  <2>2. IsFollowedUp(c)'
    BY <1>1, <1>3, <2>1, AbsentIsNoSecret DEF IsFollowedUp, Present, IInv, TypeOK
  <2>3. \A d : d # c => cmdSecret'[d] = cmdSecret[d]
    BY <2>1 DEF IInv, TypeOK
  <2> QED
    BY <1>1, <1>3, <2>2, <2>3, CalmIfFollowedUp DEF IInv, TypeOK
<1>5. CASE ~VersionMatches(r) /\ UNCHANGED cmdSecret
  <2>1. copy[r] # cmdSecret[c]
    BY <1>2, <1>5 DEF VersionMatches
  <2>2. IsFollowedUp(c)
    BY <1>1, <1>2 DEF CalmInv
  <2>3. \A d : ~WillAttach(r, d)
    BY <2>1 DEF WillAttach, Reports, PutResult
  <2> QED
    BY <1>3, <1>5, <2>2, <2>3, CalmIfStoreStays DEF IInv, TypeOK
<1> QED
  BY <1>4, <1>5 DEF PutResult, CallFails

\* SaveResult finds the command its verdict was written to.
LEMMA CalmGetForResult ==
  ASSUME ~Faulty, IInv, CalmInv, NEW r \in Requests, GetForResult(r)
  PROVE  CalmInv'
<1>1. Present(job[r].cmd)
  BY DEF CalmInv, IInv, VerdictBeforeResult, GetForResult
<1>2. /\ pc' = [pc EXCEPT ![r] = "putResult"]
      /\ copy' = [copy EXCEPT ![r] = cmdSecret[job[r].cmd]]
      /\ UNCHANGED <<cmdSecret, stored, job>>
  BY <1>1 DEF GetForResult, CallFails, ReadSecret, Goto, secrets
<1>3. \A c : WillAttach(r, c) => WillAttach(r, c)'
  BY <1>2 DEF WillAttach, Reports, IInv, TypeOK
<1> QED
  BY <1>2, <1>3, CalmIfStoreStays DEF IInv, TypeOK

\* The handlers that do not update a command.
LEMMA CalmOthers ==
  ASSUME ~Faulty, IInv, CalmInv, NEW r \in Requests,
         Receive(r) \/ CreateFiles(r) \/ GetForStatus(r) \/ ReadCommand(r) \/ ReadResult(r)
  PROVE  CalmInv'
<1> USE DEF IInv, TypeOK, HandlersFitJobs
<1>1. CASE Receive(r)
  <2>1. /\ pc[r] = "idle" /\ copy[r] = Absent
        /\ UNCHANGED <<cmdSecret, stored, copy>>
        /\ \A q \in Requests \ {r} : job'[q] = job[q] /\ pc'[q] = pc[q]
        /\ pc'[r] # "rollback"
    BY <1>1 DEF Receive, ReceiveCreate, Reject, ReceiveReport, ReceiveRead, Accept, Answer,
       secrets, CalmInv
  <2> QED
    BY <2>1, CalmIfStoreStays DEF WillAttach
<1>2. CASE CreateFiles(r)
  <2>1. /\ pc' = [pc EXCEPT ![r] = "done"] /\ job[r].op = "create"
        /\ UNCHANGED <<cmdSecret, stored, job, copy>>
    BY <1>2, JobKinds DEF CreateFiles, Answer, CreatePCs
  <2> QED
    BY <1>2, <2>1, CalmIfStoreStays DEF CreateFiles, WillAttach
<1>3. CASE GetForStatus(r)
  <2>1. /\ pc'[r] \in {"putStatus", "done"} /\ (pc'[r] = "done" => copy'[r] = Absent)
        /\ UNCHANGED <<cmdSecret, stored, job>>
        /\ \A q \in Requests \ {r} : pc'[q] = pc[q] /\ copy'[q] = copy[q]
    BY <1>3 DEF GetForStatus, ReadSecret, Goto, Answer, secrets, CalmInv
  <2> QED
    BY <1>3, <2>1, CalmIfStoreStays DEF GetForStatus, WillAttach
<1>4. CASE ReadCommand(r) \/ ReadResult(r)
  <2>1. /\ pc'[r] \in {"readResult", "done"} /\ job[r].op = "read"
        /\ pc[r] \in {"readCommand", "readResult"}
        /\ UNCHANGED <<cmdSecret, stored, job>>
        /\ \A q \in Requests \ {r} : pc'[q] = pc[q] /\ copy'[q] = copy[q]
    BY <1>4, JobKinds DEF ReadCommand, ReadResult, ReadSecret, Goto, Answer, secrets, ReadPCs
  <2> QED
    BY <2>1, CalmIfStoreStays DEF WillAttach
<1> QED
  BY <1>1, <1>2, <1>3, <1>4

\* When nothing breaks every step keeps the calm invariant.
LEMMA CalmKept == ~Faulty /\ IInv /\ CalmInv /\ [Next]_vars => CalmInv'
<1> SUFFICES ASSUME ~Faulty, IInv, CalmInv, [Next]_vars PROVE CalmInv'
  OBVIOUS
<1>1. ASSUME NEW r \in Requests, Handle(r) PROVE CalmInv'
  <2>1. ~Rollback(r)
    BY DEF Rollback, CalmInv
  <2> QED
    BY <1>1, <2>1, CalmCreateCommand, CalmPutStatus, CalmPutResult, CalmGetForResult, CalmOthers
       DEF Handle
<1>2. CASE UNCHANGED vars
  BY <1>2 DEF vars, CalmInv, ReportsAreFollowedUp, IsFollowedUp, WillAttach, Reports, Present
<1> QED
  BY <1>1, <1>2, CalmOthers DEF Next, Kill

\* Nothing has been reported.
LEMMA CalmStarts == Init => CalmInv
BY DEF Init, NoJob, CalmInv, Present, ReportsAreFollowedUp

\* When no Kubernetes call breaks and the process does not die, a command that
\* was stored stays, and each one that a report has updated has its result or a
\* report under way that will attach one.
THEOREM CalmInvariance ==
  ASSUME ~Faulty
  PROVE  Spec => []CalmInv
<1>1. Init => CalmInv
  BY CalmStarts
<1>2. IInv /\ CalmInv /\ [Next]_vars => CalmInv'
  BY CalmKept
<1> QED
  BY <1>1, <1>2, Invariance, PTL DEF Spec

\* When no Kubernetes call breaks and the process does not die, no report is
\* refused in vain, however many race: this is what ReportsLand rests on, for
\* any number of reporters.
THEOREM NoneIsRefusedInVain == Spec => []ReportsAreFollowedUp
<1>1. CASE ~Faulty
  <2>1. Spec => []CalmInv
    BY <1>1, CalmInvariance
  <2>2. CalmInv => ReportsAreFollowedUp
    BY DEF CalmInv
  <2> QED
    BY <2>1, <2>2, PTL
<1>2. CASE Faulty
  <2>1. ReportsAreFollowedUp
    BY <1>2 DEF ReportsAreFollowedUp
  <2> QED
    BY <2>1, PTL
<1> QED
  BY <1>1, <1>2

\* So a report that nobody competes with is kept as it is.
THEOREM SoleReportsStand == Spec => []SoleReportStands
<1>1. IInv /\ ReportsAreFollowedUp => SoleReportStands
  <2> SUFFICES ASSUME IInv, ReportsAreFollowedUp, ~Faulty, NEW r \in Requests,
                      job[r].op = "report", pc[r] = "done", copy[r] # Absent,
                      \A q \in Requests : Reports(q, job[r].cmd) => q = r
               PROVE  /\ Present(job[r].cmd)
                      /\ cmdSecret[job[r].cmd].status = Verdict(job[r].success)
                      /\ cmdSecret[job[r].cmd].result = [from |-> r, success |-> job[r].success]
    BY Zenon DEF SoleReportStands
  <2> DEFINE c == job[r].cmd
             s == cmdSecret[c]
  <2>1. c \in Commands
    BY DEF IInv, TypeOK, CreateJob, ReportJob, ReadJob, NoJob
  <2>2. IsFollowedUp(c)
    BY DEF ReportsAreFollowedUp
  <2>3. ~ \E q \in Requests : WillAttach(q, c)
    BY DEF WillAttach
  <2>4. Present(c) /\ s.status \in Terminal /\ s.result # NoResult
    BY <2>2, <2>3 DEF IsFollowedUp
  <2>5. s.status = Verdict(job[r].success)
    BY <2>1, <2>4 DEF IInv, Authored
  <2>6. s \in CommandSecret /\ s.result \in Result
    BY <2>1, <2>4 DEF IInv, TypeOK, Present, CommandSecret
  <2>7. s.result.from = r /\ s.result.success = job[r].success
    BY <2>1, <2>4, <2>6 DEF IInv, Authored, Result
  <2>8. s.result = [from |-> r, success |-> job[r].success]
    BY <2>6, <2>7 DEF Result
  <2> QED
    BY <2>4, <2>5, <2>8
<1> QED
  BY <1>1, Invariance, NoneIsRefusedInVain, PTL
=============================================================================
