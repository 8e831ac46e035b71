------------------------ MODULE AgentRegistryProofs -------------------------
(***************************************************************************)
(* Proofs about AgentRegistry, for any number of agents, requests and      *)
(* users, whatever breaks and whoever deletes Secrets.                     *)
(***************************************************************************)
EXTENDS AgentRegistry, TLAPS

\* A Secret is not the mark of a missing one.
LEMMA AbsentIsNoSecret == \A s \in AgentSecret : s # Absent
BY RegistryAssumption

\* The types hold initially.
LEMMA InitRegistryTypeOK == RegistryInit => RegistryTypeOK
BY RegistryAssumption DEF RegistryInit, RegistryTypeOK, Job, NoJob, Ops, PCs, Codes

\* A step that stores nothing and concerns one request.
Quiet(r) ==
  /\ UNCHANGED secretVars
  /\ pc[r] # "done"
  /\ \A q \in Requests \ {r} :
       /\ job'[q] = job[q] /\ pc'[q] = pc[q] /\ identity'[q] = identity[q]
       /\ copy'[q] = copy[q] /\ reply'[q] = reply[q]

\* What such a step has to see to for the invariant to hold.
Careful(r) ==
  /\ FitsJob(r)'
  /\ CopyIsVersion(r)'
  /\ ~(job'[r].op = "register" /\ reply'[r] = 201)
  /\ identity'[r] \in Ids =>
       job'[r].bearer \in issued /\ Registers(job'[r].bearer, identity'[r])
  /\ pc'[r] = "createAgent" /\ ~job'[r].named =>
       \A q \in Requests \ {r} : ~Registers(q, job'[r].id)
  /\ job'[r].op = "register" =>
       \A q \in Requests \ {r} :
         pc[q] = "createAgent" /\ ~job[q].named => job[q].id # job'[r].id

\* A careful step keeps the invariant: nobody's token is this request, because
\* the request of an issued token is done.
LEMMA QuietKept ==
  ASSUME NEW r \in Requests, RegistryInv, RegistryTypeOK', Quiet(r), Careful(r)
  PROVE  RegistryInv'
<1> USE DEF RegistryInv, RegistryTypeOK, Quiet, Careful, secretVars
<1>1. r \notin issued
  BY DEF IssuedIsHeld
<1>2. \A t \in issued : t \in Requests \ {r}
  BY <1>1
<1>3. HandlersFitJobs'
  BY DEF HandlersFitJobs, FitsJob
<1>4. SecretsAreIssued'
  BY <1>2 DEF SecretsAreIssued, Registers, Present
<1>5. IssuedIsHeld'
  BY <1>2 DEF IssuedIsHeld, Present
<1>6. CopiesAreVersions'
  BY DEF CopiesAreVersions, CopyIsVersion, Present
<1>7. MadeUpIsAlone'
  BY DEF MadeUpIsAlone, Registers
<1>8. SuccessIsIssued'
  BY <1>2 DEF SuccessIsIssued, Registers, Registered
<1>9. AdmittedAsItself'
  BY <1>2 DEF AdmittedAsItself, Registers
<1> QED
  BY <1>3, <1>4, <1>5, <1>6, <1>7, <1>8, <1>9

-----------------------------------------------------------------------------
\* Requests arrive

\* A request that arrives is careful when it names no id that somebody made up.
LEMMA ArriveIsCareful ==
  ASSUME RegistryInv, NEW r \in Requests, NEW i \in Ids \cup {NoId},
         NEW op \in Ops, op # "beat", op = "get" => i \in Ids, Arrive(r, op, i),
         op = "register" /\ i # NoId => Nameable(i)
  PROVE  RegistryTypeOK' /\ Quiet(r) /\ Careful(r)
<1> USE DEF RegistryInv, RegistryTypeOK, Arrive, Goto, Answer
<1>1. PICK t \in Tokens \cup {NoToken} :
        job' = [job EXCEPT ![r] = [op |-> op, named |-> i # NoId, id |-> i, bearer |-> t]]
  BY DEF Known, Tokens
<1>2. job' \in [Requests -> Job]
  BY <1>1 DEF Job
<1>3. pc' \in [Requests -> PCs] /\ reply' \in [Requests -> Codes]
  BY DEF PCs, Codes
<1>4. RegistryTypeOK'
  BY <1>2, <1>3 DEF secretVars
<1>5. Quiet(r)
  BY <1>1 DEF Quiet
<1>6. FitsJob(r)' /\ CopyIsVersion(r)' /\ ~(job'[r].op = "register" /\ reply'[r] = 201)
  BY <1>1 DEF HandlersFitJobs, FitsJob, CopyIsVersion
<1>7. identity'[r] = Nobody /\ pc'[r] # "createAgent"
  BY DEF HandlersFitJobs, FitsJob
<1>8. ASSUME job'[r].op = "register", NEW q \in Requests \ {r},
             pc[q] = "createAgent", ~job[q].named
      PROVE  job[q].id # job'[r].id
  <2>1. q \notin issued /\ job[q].op = "register" /\ job[q].id \in Ids
    BY <1>8 DEF IssuedIsHeld, HandlersFitJobs, FitsJob
  <2> QED
    BY <1>1, <1>8, <2>1, RegistryAssumption DEF Nameable, Registers
<1> QED
  BY <1>4, <1>5, <1>6, <1>7, <1>8, RegistryAssumption DEF Careful

\* So is a heartbeat, which registers nothing.
LEMMA BeatIsCareful ==
  ASSUME RegistryInv, NEW r \in Requests, ReceiveBeat(r)
  PROVE  RegistryTypeOK' /\ Quiet(r) /\ Careful(r)
<1> USE DEF RegistryInv, RegistryTypeOK, ReceiveBeat, Goto
<1>1. PICK i \in Ids :
        job' = [job EXCEPT ![r] =
                 [op |-> "beat", named |-> TRUE, id |-> i, bearer |-> NoToken]]
  OBVIOUS
<1>2. job' \in [Requests -> Job] /\ pc' \in [Requests -> PCs]
  BY <1>1 DEF Job, Ops, PCs
<1>3. RegistryTypeOK' /\ Quiet(r)
  BY <1>1, <1>2 DEF secretVars, Quiet
<1>4. FitsJob(r)' /\ CopyIsVersion(r)'
  BY <1>1 DEF HandlersFitJobs, FitsJob, CopyIsVersion
<1>5. job'[r].op = "beat" /\ identity'[r] = Nobody /\ pc'[r] = "beatGet"
  BY <1>1 DEF HandlersFitJobs, FitsJob
<1> QED
  BY <1>3, <1>4, <1>5, RegistryAssumption DEF Careful

\* Whatever arrives is careful.
LEMMA ReceiveIsCareful ==
  ASSUME RegistryInv, NEW r \in Requests, Receive(r)
  PROVE  RegistryTypeOK' /\ Quiet(r) /\ Careful(r)
<1>1. CASE ReceiveRegister(r)
  BY <1>1, ArriveIsCareful, RegistryAssumption DEF ReceiveRegister, Ops
<1>2. CASE ReceiveUnreadable(r)
  BY <1>2, ArriveIsCareful DEF ReceiveUnreadable, Ops
<1>3. CASE ReceiveGet(r)
  BY <1>3, ArriveIsCareful DEF ReceiveGet, Ops
<1>4. CASE ReceiveList(r)
  BY <1>4, ArriveIsCareful DEF ReceiveList, Ops
<1>5. CASE ReceiveBeat(r)
  BY <1>5, BeatIsCareful
<1> QED
  BY <1>1, <1>2, <1>3, <1>4, <1>5 DEF Receive

-----------------------------------------------------------------------------
\* Authentication

\* A registration that begins with an id that was made up is alone with it;
\* one that was given an id was careful when it arrived.
LEMMA BeginIsCareful ==
  ASSUME RegistryInv, NEW r \in Requests, pc[r] \in {"listTokens", "getUsers"},
         NEW who \in Ids \cup {Admin},
         who \in Ids => job[r].bearer \in issued /\ Registers(job[r].bearer, who),
         identity' = [identity EXCEPT ![r] = who],
         job[r].op = "register", BeginRegister(r),
         UNCHANGED <<secretVars, copy>>
  PROVE  RegistryTypeOK' /\ Quiet(r) /\ Careful(r)
<1> USE DEF RegistryInv, RegistryTypeOK, Goto
<1>1. PICK i \in Ids :
        /\ IF job[r].named THEN i = job[r].id ELSE Fresh(i)
        /\ job' = [job EXCEPT ![r].id = i]
  BY DEF BeginRegister
<1>2. /\ job' \in [Requests -> Job]
      /\ job'[r].op = "register" /\ job'[r].id = i
      /\ job'[r].named = job[r].named /\ job'[r].bearer = job[r].bearer
  BY <1>1 DEF Job
<1>3. pc' = [pc EXCEPT ![r] = "createAgent"] /\ pc' \in [Requests -> PCs] /\ reply' = reply
  BY DEF BeginRegister, PCs
<1>4. RegistryTypeOK'
  BY <1>2, <1>3 DEF BeginRegister, secretVars
<1>5. Quiet(r)
  BY <1>1, <1>3 DEF Quiet
<1>6. FitsJob(r)' /\ CopyIsVersion(r)' /\ reply'[r] # 201
  BY <1>2, <1>3 DEF HandlersFitJobs, FitsJob, CopyIsVersion
<1>7. identity'[r] \in Ids => job'[r].bearer \in issued /\ Registers(job'[r].bearer, identity'[r])
  BY <1>2, RegistryAssumption
<1>8. ~job[r].named => \A q \in Requests : ~Registers(q, i)
  BY <1>1 DEF Fresh
<1>9. ASSUME NEW q \in Requests \ {r}, pc[q] = "createAgent", ~job[q].named
      PROVE  job[q].id # i
  <2>1. Registers(q, job[q].id)
    BY <1>9 DEF HandlersFitJobs, FitsJob, Registers
  <2> QED
    BY <1>1, <1>8, <1>9, <2>1 DEF MadeUpIsAlone
<1> QED
  BY <1>2, <1>4, <1>5, <1>6, <1>7, <1>8, <1>9 DEF Careful

\* Letting a request in is careful, when the sender is who it is said to be.
LEMMA AdmitIsCareful ==
  ASSUME RegistryInv, NEW r \in Requests, pc[r] \in {"listTokens", "getUsers"},
         NEW who \in Ids \cup {Admin},
         who \in Ids => job[r].bearer \in issued /\ Registers(job[r].bearer, who),
         Admit(r, who), UNCHANGED <<secretVars, copy>>
  PROVE  RegistryTypeOK' /\ Quiet(r) /\ Careful(r)
<1> USE DEF RegistryInv, RegistryTypeOK, Goto, Answer
<1>1. CASE job[r].op = "register" /\ BeginRegister(r)
  BY <1>1, BeginIsCareful DEF Admit
<1>2. CASE job[r].op # "register"
  <2>1. UNCHANGED job
    BY <1>2 DEF Admit
  <2>2. RegistryTypeOK' /\ Quiet(r)
    BY <1>2, <2>1 DEF Admit, PCs, Codes, Quiet, secretVars
  <2>3. FitsJob(r)' /\ CopyIsVersion(r)'
    BY <1>2, <2>1 DEF Admit, HandlersFitJobs, FitsJob, CopyIsVersion
  <2>4. pc'[r] # "createAgent"
    BY <1>2 DEF Admit
  <2>5. identity'[r] \in Ids =>
          job'[r].bearer \in issued /\ Registers(job'[r].bearer, identity'[r])
    BY <2>1, RegistryAssumption DEF Admit
  <2> QED
    BY <1>2, <2>1, <2>2, <2>3, <2>4, <2>5 DEF Careful
<1> QED
  BY <1>1, <1>2 DEF Admit

\* A handler goes on to its next call, or answers, with what it has read.
Moves(r, next, code, c) ==
  /\ Active(r)
  /\ UNCHANGED <<secretVars, job, identity>>
  /\ next \in PCs \ {"idle", "createAgent", "beatGet"}
  /\ pc' = [pc EXCEPT ![r] = next]
  /\ code \in Codes \ {201} /\ reply' = [reply EXCEPT ![r] = code]
  /\ code # 0 => next = "done"
  /\ next = "findAgent" => job[r].op = "get"
  /\ c \in AgentSecret \cup {Absent} /\ copy' = [copy EXCEPT ![r] = c]
  /\ next \in {"getAgent", "putAgent"} =>
       /\ job[r].id \in Ids
       /\ job[r].op = "beat" \/ (job[r].op = "register" /\ job[r].named)
  /\ next = "putAgent" => Present(job[r].id) /\ c = agentSecret[job[r].id]

\* Such a move is careful.
LEMMA MoveIsCareful ==
  ASSUME RegistryInv, NEW r \in Requests, NEW next, NEW code, NEW c, Moves(r, next, code, c)
  PROVE  RegistryTypeOK' /\ Quiet(r) /\ Careful(r)
<1> USE DEF RegistryInv, RegistryTypeOK, Active, Moves
<1>1. RegistryTypeOK' /\ Quiet(r)
  BY DEF Quiet, secretVars
<1>2. FitsJob(r)'
  BY DEF HandlersFitJobs, FitsJob
<1>3. CopyIsVersion(r)'
  BY DEF CopyIsVersion, SecretsAreIssued, Present, secretVars
<1>4. identity'[r] \in Ids =>
        job'[r].bearer \in issued /\ Registers(job'[r].bearer, identity'[r])
  BY DEF AdmittedAsItself, Registers
<1>5. ASSUME job'[r].op = "register", NEW q \in Requests \ {r},
             pc[q] = "createAgent", ~job[q].named
      PROVE  job[q].id # job'[r].id
  BY <1>5 DEF MadeUpIsAlone, HandlersFitJobs, FitsJob
<1> QED
  BY <1>1, <1>2, <1>3, <1>4, <1>5 DEF Careful

\* The id of the Secret that holds a token is the one the token was issued to.
LEMMA HolderIsIssued ==
  ASSUME RegistryInv, NEW t \in Tokens \cup {NoToken}, NEW i \in Holders(t)
  PROVE  i \in Ids /\ t \in issued /\ Registers(t, i)
BY DEF RegistryInv, SecretsAreIssued, Holders

\* The first phase of ValidateToken does what careful handlers do.
LEMMA ListTokensIsCareful ==
  ASSUME RegistryInv, NEW r \in Requests, ListTokens(r)
  PROVE  RegistryTypeOK' /\ Quiet(r) /\ Careful(r)
<1> USE DEF RegistryInv, RegistryTypeOK, ListTokens
<1>1. job[r].bearer \in Tokens \cup {NoToken}
  BY DEF Job
<1>2. ASSUME NEW i \in Holders(job[r].bearer), Admit(r, i)
      PROVE  RegistryTypeOK' /\ Quiet(r) /\ Careful(r)
  BY <1>1, <1>2, HolderIsIssued, AdmitIsCareful
<1>3. CASE Goto(r, "getUsers") /\ UNCHANGED <<job, identity>>
  <2>1. Moves(r, "getUsers", 0, copy[r])
    BY <1>3 DEF Moves, Goto, Active, PCs, Codes, HandlersFitJobs, FitsJob
  <2> QED
    BY <2>1, MoveIsCareful
<1>4. CASE TurnDown(r)
  <2>1. Moves(r, "done", 401, copy[r])
    BY <1>4 DEF Moves, TurnDown, Answer, Active, PCs, Codes
  <2> QED
    BY <2>1, MoveIsCareful
<1> QED
  BY <1>2, <1>3, <1>4

\* So does the second.
LEMMA GetUsersIsCareful ==
  ASSUME RegistryInv, NEW r \in Requests, GetUsers(r)
  PROVE  RegistryTypeOK' /\ Quiet(r) /\ Careful(r)
<1> USE DEF RegistryInv, RegistryTypeOK, GetUsers
<1>1. CASE Admit(r, Admin)
  BY <1>1, AdmitIsCareful, RegistryAssumption
<1>2. CASE TurnDown(r)
  <2>1. Moves(r, "done", 401, copy[r])
    BY <1>2 DEF Moves, TurnDown, Answer, Active, PCs, Codes
  <2> QED
    BY <2>1, MoveIsCareful
<1> QED
  BY <1>1, <1>2

-----------------------------------------------------------------------------
\* Reads

\* So does the GET of an update.
LEMMA GetAgentIsCareful ==
  ASSUME RegistryInv, NEW r \in Requests, GetAgent(r)
  PROVE  RegistryTypeOK' /\ Quiet(r) /\ Careful(r)
<1> USE DEF RegistryInv, RegistryTypeOK, GetAgent
<1>1. /\ job[r].id \in Ids
      /\ job[r].op = "beat" \/ (job[r].op = "register" /\ job[r].named)
      /\ reply[r] = 0
  BY DEF HandlersFitJobs, FitsJob
<1>2. CASE Answer(r, 500) /\ UNCHANGED copy
  <2>1. Moves(r, "done", 500, copy[r])
    BY <1>2 DEF Moves, Answer, Active, PCs, Codes
  <2> QED
    BY <2>1, MoveIsCareful
<1>3. CASE Present(job[r].id) /\ Goto(r, "putAgent")
           /\ copy' = [copy EXCEPT ![r] = agentSecret[job[r].id]]
  <2>1. Moves(r, "putAgent", 0, agentSecret[job[r].id])
    BY <1>1, <1>3 DEF Moves, Goto, Active, PCs, Codes, Present
  <2> QED
    BY <2>1, MoveIsCareful
<1> QED
  BY <1>2, <1>3

\* So does the first GET of UpdateLastSeen.
LEMMA BeatGetIsCareful ==
  ASSUME RegistryInv, NEW r \in Requests, BeatGet(r)
  PROVE  RegistryTypeOK' /\ Quiet(r) /\ Careful(r)
<1> USE DEF RegistryInv, RegistryTypeOK, BeatGet
<1>1. job[r].op = "beat" /\ job[r].id \in Ids /\ reply[r] = 0
  BY DEF HandlersFitJobs, FitsJob
<1>2. CASE Answer(r, 500)
  <2>1. Moves(r, "done", 500, copy[r])
    BY <1>2 DEF Moves, Answer, Active, PCs, Codes
  <2> QED
    BY <2>1, MoveIsCareful
<1>3. CASE Present(job[r].id) /\ Goto(r, "getAgent")
  <2>1. Moves(r, "getAgent", 0, copy[r])
    <3>1. /\ pc' = [pc EXCEPT ![r] = "getAgent"] /\ reply' = [reply EXCEPT ![r] = 0]
          /\ copy' = [copy EXCEPT ![r] = copy[r]] /\ copy[r] \in AgentSecret \cup {Absent}
      BY <1>1, <1>3 DEF Goto
    <3>2. UNCHANGED <<secretVars, job, identity>> /\ Active(r)
      BY DEF Active
    <3> HIDE DEF BeatGet, RegistryInv, RegistryTypeOK
    <3> QED
      BY <1>1, <3>1, <3>2 DEF Moves, PCs, Codes
  <2> QED
    BY <2>1, MoveIsCareful
<1> QED
  BY <1>2, <1>3

\* So does GET /agents/{id}.
LEMMA FindAgentIsCareful ==
  ASSUME RegistryInv, NEW r \in Requests, FindAgent(r)
  PROVE  RegistryTypeOK' /\ Quiet(r) /\ Careful(r)
<1> USE DEF RegistryInv, RegistryTypeOK, FindAgent
<1>1. job[r].id \in Ids
  BY DEF HandlersFitJobs, FitsJob
<1>2. PICK c \in AgentSecret \cup {Absent} : copy' = [copy EXCEPT ![r] = c]
  BY <1>1 DEF Present
<1>3. PICK code \in {200, 404, 500} : Answer(r, code)
  OBVIOUS
<1>4. Moves(r, "done", code, c)
  BY <1>2, <1>3 DEF Moves, Answer, Active, PCs, Codes
<1> QED
  BY <1>4, MoveIsCareful

\* So does GET /agents.
LEMMA ListAgentsIsCareful ==
  ASSUME RegistryInv, NEW r \in Requests, ListAgents(r)
  PROVE  RegistryTypeOK' /\ Quiet(r) /\ Careful(r)
<1> USE DEF RegistryInv, RegistryTypeOK, ListAgents
<1>1. PICK code \in {200, 500} : Answer(r, code)
  OBVIOUS
<1>2. Moves(r, "done", code, copy[r])
  BY <1>1 DEF Moves, Answer, Active, PCs, Codes
<1> QED
  BY <1>2, MoveIsCareful

-----------------------------------------------------------------------------
\* Stores

\* Storing one Secret gives it the next version and leaves the others alone.
LEMMA StoreEffect ==
  ASSUME RegistryTypeOK, NEW i \in Ids, NEW t \in Requests, Store(i, t)
  PROVE  /\ agentSecret' \in [Ids -> AgentSecret \cup {Absent}]
         /\ revision' = revision + 1
         /\ agentSecret'[i] # Absent
         /\ agentSecret'[i].rv = revision + 1
         /\ agentSecret'[i].token = t
         /\ \A j \in Ids \ {i} : agentSecret'[j] = agentSecret[j]
<1> USE DEF RegistryTypeOK, Store
<1>1. LET s == [rv |-> revision + 1, token |-> t]
      IN s \in AgentSecret /\ s.rv = revision + 1 /\ s.token = t
  BY DEF AgentSecret
<1> QED
  BY <1>1, AbsentIsNoSecret

\* A registration that creates the Secret of its agent issues its own token.
LEMMA StoreNewKept ==
  ASSUME RegistryInv, NEW r \in Requests, pc[r] = "createAgent", StoreNew(r),
         NEW code \in {201, 500}, Answer(r, code),
         UNCHANGED <<struck, job, identity, copy>>
  PROVE  RegistryInv'
<1> DEFINE i == job[r].id
<1> USE DEF RegistryInv, RegistryTypeOK
<1>1. i \in Ids /\ Registers(r, i) /\ r \notin issued /\ ~Present(i)
  BY DEF HandlersFitJobs, FitsJob, Registers, IssuedIsHeld, StoreNew
<1>3. /\ agentSecret' \in [Ids -> AgentSecret \cup {Absent}]
      /\ revision' = revision + 1
      /\ agentSecret'[i] # Absent
      /\ agentSecret'[i].rv = revision + 1
      /\ agentSecret'[i].token = r
      /\ \A j \in Ids \ {i} : agentSecret'[j] = agentSecret[j]
      /\ issued' = issued \cup {r}
  BY <1>1, StoreEffect DEF StoreNew
<1>4. /\ pc' = [pc EXCEPT ![r] = "done"] /\ reply' = [reply EXCEPT ![r] = code]
      /\ \A j \in Ids : Present(j)' <=> j = i \/ Present(j)
  BY <1>3 DEF Answer, Present
<1>5. RegistryTypeOK' /\ struck' \subseteq issued'
  BY <1>3, <1>4 DEF PCs, Codes
<1>6. HandlersFitJobs'
  BY <1>4 DEF HandlersFitJobs, FitsJob
<1>7. SecretsAreIssued'
  <2> SUFFICES ASSUME NEW j \in Ids, Present(j)'
               PROVE  /\ agentSecret'[j].rv <= revision'
                      /\ agentSecret'[j].token \in issued' \ struck'
                      /\ Registers(agentSecret'[j].token, j)
    BY DEF SecretsAreIssued, Registers
  <2>1. CASE j = i
    BY <1>1, <1>3, <2>1
  <2>2. CASE j # i
    <3>1. agentSecret[j] \in AgentSecret /\ agentSecret'[j] = agentSecret[j] /\ Present(j)
      BY <1>3, <1>4, <2>2 DEF Present
    <3> QED
      BY <1>3, <3>1 DEF SecretsAreIssued, AgentSecret
  <2> QED
    BY <2>1, <2>2
<1>8. IssuedIsHeld'
  BY <1>1, <1>3, <1>4 DEF IssuedIsHeld, Registers, Present
<1>9. CopiesAreVersions'
  <2> SUFFICES ASSUME NEW q \in Requests, pc'[q] = "putAgent" PROVE CopyIsVersion(q)'
    BY DEF CopiesAreVersions, CopyIsVersion
  <2>1. /\ pc[q] = "putAgent" /\ job[q].id \in Ids /\ copy[q] # Absent /\ copy[q] \in AgentSecret
        /\ copy[q].rv \in Nat /\ copy[q].rv <= revision
    BY <1>4 DEF CopiesAreVersions, CopyIsVersion, HandlersFitJobs, FitsJob, AgentSecret
  <2>2. CASE job[q].id = i
    BY <1>3, <2>1, <2>2 DEF CopyIsVersion
  <2>3. CASE job[q].id # i
    BY <1>3, <2>1, <2>3 DEF CopyIsVersion, CopiesAreVersions, Present
  <2> QED
    BY <2>2, <2>3
<1>10. MadeUpIsAlone'
  BY <1>4 DEF MadeUpIsAlone
<1>11. SuccessIsIssued'
  BY <1>1, <1>3, <1>4 DEF SuccessIsIssued, Registers, Registered
<1>12. AdmittedAsItself'
  BY <1>3 DEF AdmittedAsItself, Registers
<1> QED
  BY <1>5, <1>6, <1>7, <1>8, <1>9, <1>10, <1>11, <1>12

\* An update that goes through stores the token that was there.
LEMMA PutAgentEffect ==
  ASSUME RegistryInv, NEW r \in Requests, pc[r] = "putAgent", VersionMatches(r),
         Store(job[r].id, copy[r].token)
  PROVE  LET i == job[r].id
         IN /\ i \in Ids /\ Present(i) /\ copy[r] = agentSecret[i] /\ copy[r] # Absent
            /\ agentSecret' \in [Ids -> AgentSecret \cup {Absent}]
            /\ revision' = revision + 1
            /\ agentSecret'[i] # Absent
            /\ agentSecret'[i].rv = revision + 1
            /\ agentSecret'[i].token = agentSecret[i].token
            /\ \A j \in Ids \ {i} : agentSecret'[j] = agentSecret[j]
<1> DEFINE i == job[r].id
<1> USE DEF RegistryInv, RegistryTypeOK
<1>1. i \in Ids /\ Present(i) /\ copy[r] = agentSecret[i] /\ copy[r] \in AgentSecret
  BY DEF HandlersFitJobs, FitsJob, VersionMatches, CopiesAreVersions, CopyIsVersion, Present
<1>2. copy[r].token \in Requests
  BY <1>1 DEF AgentSecret
<1> QED
  BY <1>1, <1>2, StoreEffect, AbsentIsNoSecret

\* An accepted UPDATE keeps the token of the current Secret.
LEMMA PutAgentKept ==
  ASSUME RegistryInv, NEW r \in Requests, pc[r] = "putAgent", VersionMatches(r),
         Store(job[r].id, copy[r].token),
         NEW code \in {Success(r), 500}, Answer(r, code),
         UNCHANGED <<issued, struck, job, identity, copy>>
  PROVE  RegistryInv'
<1> DEFINE i == job[r].id
<1> USE DEF RegistryInv, RegistryTypeOK
<1>1. /\ i \in Ids /\ Present(i) /\ copy[r] = agentSecret[i] /\ copy[r] # Absent
      /\ agentSecret' \in [Ids -> AgentSecret \cup {Absent}]
      /\ revision' = revision + 1
      /\ agentSecret'[i] # Absent
      /\ agentSecret'[i].rv = revision + 1
      /\ agentSecret'[i].token = agentSecret[i].token
      /\ \A j \in Ids \ {i} : agentSecret'[j] = agentSecret[j]
  BY PutAgentEffect
<1>2. /\ pc' = [pc EXCEPT ![r] = "done"] /\ reply' = [reply EXCEPT ![r] = code]
      /\ code \in {200, 201, 500}
      /\ code = 201 => job[r].op = "register" /\ job[r].named
      /\ \A j \in Ids : Present(j)' <=> Present(j)
  BY <1>1 DEF Answer, Present, Success, HandlersFitJobs, FitsJob
<1>3. \A j \in Ids : Present(j) => agentSecret'[j].token = agentSecret[j].token
  BY <1>1
<1>4. RegistryTypeOK' /\ struck' \subseteq issued'
  BY <1>1, <1>2 DEF PCs, Codes
<1>5. HandlersFitJobs'
  BY <1>2 DEF HandlersFitJobs, FitsJob
<1>6. SecretsAreIssued'
  <2> SUFFICES ASSUME NEW j \in Ids, Present(j)'
               PROVE  /\ agentSecret'[j].rv <= revision'
                      /\ agentSecret'[j].token \in issued' \ struck'
                      /\ Registers(agentSecret'[j].token, j)
    BY DEF SecretsAreIssued, Registers
  <2>1. agentSecret'[j].token \in issued' \ struck' /\ Registers(agentSecret'[j].token, j)
    BY <1>2, <1>3 DEF SecretsAreIssued
  <2>2. agentSecret[j] \in AgentSecret /\ agentSecret[j].rv \in Nat /\ agentSecret[j].rv <= revision
    BY <1>2 DEF SecretsAreIssued, Present, AgentSecret
  <2> QED
    BY <1>1, <2>1, <2>2
<1>7. IssuedIsHeld'
  BY <1>2, <1>3 DEF IssuedIsHeld
<1>8. CopiesAreVersions'
  <2> SUFFICES ASSUME NEW q \in Requests, pc'[q] = "putAgent" PROVE CopyIsVersion(q)'
    BY DEF CopiesAreVersions, CopyIsVersion
  <2>1. /\ pc[q] = "putAgent" /\ job[q].id \in Ids /\ copy[q] # Absent /\ copy[q] \in AgentSecret
        /\ copy[q].rv \in Nat /\ copy[q].rv <= revision
    BY <1>2 DEF CopiesAreVersions, CopyIsVersion, HandlersFitJobs, FitsJob, AgentSecret
  <2>2. CASE job[q].id = i
    BY <1>1, <2>1, <2>2 DEF CopyIsVersion
  <2>3. CASE job[q].id # i
    BY <1>1, <2>1, <2>3 DEF CopyIsVersion, CopiesAreVersions, Present
  <2> QED
    BY <2>2, <2>3
<1>9. MadeUpIsAlone'
  BY <1>2 DEF MadeUpIsAlone
<1>10. agentSecret[i].token \in issued /\ Registers(agentSecret[i].token, i)
  BY <1>1 DEF SecretsAreIssued
<1>11. SuccessIsIssued'
  BY <1>1, <1>2, <1>10 DEF SuccessIsIssued, Registers, Registered
<1>12. AdmittedAsItself'
  BY DEF AdmittedAsItself, Registers
<1> QED
  BY <1>4, <1>5, <1>6, <1>7, <1>8, <1>9, <1>11, <1>12

\* Deleting a Secret strikes its token, which no other Secret holds.
LEMMA DeleteSecretKept ==
  ASSUME RegistryInv, NEW i \in Ids, DeleteSecret(i)
  PROVE  RegistryInv'
<1> USE DEF RegistryInv, RegistryTypeOK, DeleteSecret
<1>1. agentSecret[i].token \in issued /\ Registers(agentSecret[i].token, i)
  BY DEF SecretsAreIssued
<1>2. RegistryTypeOK' /\ struck' \subseteq issued'
  BY <1>1
<1>3. \A j \in Ids : Present(j)' <=> j # i /\ Present(j)
  BY DEF Present
<1>4. HandlersFitJobs'
  BY DEF HandlersFitJobs, FitsJob
<1>5. SecretsAreIssued'
  BY <1>1, <1>3 DEF SecretsAreIssued, Registers
<1>6. IssuedIsHeld'
  BY <1>3 DEF IssuedIsHeld
<1>7. CopiesAreVersions'
  BY <1>3 DEF CopiesAreVersions, CopyIsVersion, HandlersFitJobs, FitsJob
<1>8. MadeUpIsAlone' /\ SuccessIsIssued' /\ AdmittedAsItself'
  BY DEF MadeUpIsAlone, SuccessIsIssued, AdmittedAsItself, Registers, Registered
<1> QED
  BY <1>2, <1>4, <1>5, <1>6, <1>7, <1>8

\* The end of the process leaves the Secrets, and answers nobody.
LEMMA KillKept == ASSUME RegistryInv, Kill PROVE RegistryInv'
<1> USE DEF RegistryInv, RegistryTypeOK, Kill, secretVars
<1>1. pc' \in [Requests -> PCs] /\ \A r \in Requests : pc'[r] = pc[r] \/ pc'[r] = "done"
  BY DEF PCs
<1>2. \A r \in Requests : pc[r] \in {"idle", "done"} => pc'[r] = pc[r]
  BY DEF Active
<1>3. RegistryTypeOK'
  BY <1>1
<1>4. HandlersFitJobs' /\ CopiesAreVersions'
  BY <1>1, <1>2 DEF HandlersFitJobs, FitsJob, CopiesAreVersions, CopyIsVersion, Present
<1>5. SecretsAreIssued' /\ IssuedIsHeld'
  BY <1>2 DEF SecretsAreIssued, IssuedIsHeld, Registers, Present
<1>6. MadeUpIsAlone' /\ SuccessIsIssued' /\ AdmittedAsItself'
  BY <1>1 DEF MadeUpIsAlone, SuccessIsIssued, AdmittedAsItself, Registers, Registered
<1> QED
  BY <1>3, <1>4, <1>5, <1>6

\* A registration creates its Secret, finds it there and goes on to update it,
\* or is answered 500.  One that made up its id does not find it there.
LEMMA CreateAgentKept ==
  ASSUME RegistryInv, NEW r \in Requests, CreateAgent(r)
  PROVE  RegistryInv'
<1> USE DEF CreateAgent
<1>1. CASE StoreNew(r)
  <2>1. PICK code \in {201, 500} : Answer(r, code)
    BY <1>1 DEF StoreNew, Goto, Answer, RegistryInv
  <2> QED
    BY <1>1, <2>1, StoreNewKept
<1>2. CASE Present(job[r].id) /\ UNCHANGED <<agentSecret, revision, issued>> /\ Goto(r, "getAgent")
  <2>1. job[r].id \in Ids /\ job[r].op = "register" /\ reply[r] = 0
    BY DEF RegistryInv, HandlersFitJobs, FitsJob
  <2>2. job[r].named
    <3> SUFFICES ASSUME ~job[r].named PROVE FALSE
      OBVIOUS
    <3>1. agentSecret[job[r].id].token \in issued
          /\ Registers(agentSecret[job[r].id].token, job[r].id)
      BY <1>2, <2>1 DEF RegistryInv, SecretsAreIssued
    <3>2. agentSecret[job[r].id].token = r
      BY <2>1, <3>1 DEF RegistryInv, RegistryTypeOK, MadeUpIsAlone, Registers
    <3> QED
      BY <3>1, <3>2 DEF RegistryInv, IssuedIsHeld
  <2>3. Moves(r, "getAgent", 0, copy[r])
    BY <1>2, <2>1, <2>2 DEF RegistryInv, RegistryTypeOK, Moves, Goto, Active, PCs, Codes, secretVars
  <2> QED
    BY <2>3, MoveIsCareful, QuietKept
<1>3. CASE UNCHANGED <<agentSecret, revision, issued>> /\ Answer(r, 500)
  <2>1. Moves(r, "done", 500, copy[r])
    BY <1>3 DEF RegistryInv, RegistryTypeOK, Moves, Answer, Active, PCs, Codes, secretVars
  <2> QED
    BY <2>1, MoveIsCareful, QuietKept
<1> QED
  BY <1>1, <1>2, <1>3

\* An update goes through or is answered 500.
LEMMA PutAgentsKept ==
  ASSUME RegistryInv, NEW r \in Requests, PutAgent(r)
  PROVE  RegistryInv'
<1>1. CASE VersionMatches(r) /\ Store(job[r].id, copy[r].token)
  <2>1. PICK code \in {Success(r), 500} : Answer(r, code)
    BY <1>1 DEF PutAgent
  <2>2. pc[r] = "putAgent" /\ UNCHANGED <<issued, struck, job, identity, copy>>
    BY DEF PutAgent
  <2> QED
    BY <1>1, <2>1, <2>2, PutAgentKept
<1>2. CASE UNCHANGED <<agentSecret, revision>> /\ Answer(r, 500)
  <2>1. Moves(r, "done", 500, copy[r])
    BY <1>2 DEF PutAgent, RegistryInv, RegistryTypeOK, Moves, Answer, Active, PCs, Codes, secretVars
  <2> QED
    BY <2>1, MoveIsCareful, QuietKept
<1> QED
  BY <1>1, <1>2 DEF PutAgent

-----------------------------------------------------------------------------
\* The theorems

\* The inductive invariant holds initially.
LEMMA InitRegistryInv == RegistryInit => RegistryInv
<1> SUFFICES ASSUME RegistryInit PROVE RegistryInv
  OBVIOUS
<1>1. RegistryTypeOK
  BY InitRegistryTypeOK
<1>2. \A r \in Requests :
        /\ pc[r] = "idle" /\ job[r].op = "none" /\ reply[r] = 0 /\ identity[r] = Nobody
  BY DEF RegistryInit, NoJob
<1>3. \A i \in Ids : ~Present(i)
  BY DEF RegistryInit, Present
<1>4. issued = {} /\ struck = {}
  BY DEF RegistryInit
<1> QED
  BY <1>1, <1>2, <1>3, <1>4, RegistryAssumption
  DEF RegistryInv, HandlersFitJobs, FitsJob, SecretsAreIssued, IssuedIsHeld,
      CopiesAreVersions, CopyIsVersion, MadeUpIsAlone, SuccessIsIssued, AdmittedAsItself

\* Every step keeps it.
LEMMA NextRegistryInv == RegistryInv /\ [RegistryNext]_registryVars => RegistryInv'
<1> SUFFICES ASSUME RegistryInv, [RegistryNext]_registryVars PROVE RegistryInv'
  OBVIOUS
<1>1. ASSUME NEW r \in Requests, Receive(r) PROVE RegistryInv'
  BY <1>1, ReceiveIsCareful, QuietKept
<1>2. ASSUME NEW r \in Requests, ListTokens(r) PROVE RegistryInv'
  BY <1>2, ListTokensIsCareful, QuietKept
<1>3. ASSUME NEW r \in Requests, GetUsers(r) PROVE RegistryInv'
  BY <1>3, GetUsersIsCareful, QuietKept
<1>4. ASSUME NEW r \in Requests, CreateAgent(r) PROVE RegistryInv'
  BY <1>4, CreateAgentKept
<1>5. ASSUME NEW r \in Requests, GetAgent(r) PROVE RegistryInv'
  BY <1>5, GetAgentIsCareful, QuietKept
<1>6. ASSUME NEW r \in Requests, PutAgent(r) PROVE RegistryInv'
  BY <1>6, PutAgentsKept
<1>7. ASSUME NEW r \in Requests, BeatGet(r) PROVE RegistryInv'
  BY <1>7, BeatGetIsCareful, QuietKept
<1>8. ASSUME NEW r \in Requests, FindAgent(r) PROVE RegistryInv'
  BY <1>8, FindAgentIsCareful, QuietKept
<1>9. ASSUME NEW r \in Requests, ListAgents(r) PROVE RegistryInv'
  BY <1>9, ListAgentsIsCareful, QuietKept
<1>10. ASSUME NEW i \in Ids, DeleteSecret(i) PROVE RegistryInv'
  BY <1>10, DeleteSecretKept
<1>11. CASE Kill
  BY <1>11, KillKept
<1>12. CASE UNCHANGED registryVars
  BY <1>12
  DEF registryVars, secretVars, RegistryInv, RegistryTypeOK, HandlersFitJobs, FitsJob,
      SecretsAreIssued, IssuedIsHeld, CopiesAreVersions, CopyIsVersion, MadeUpIsAlone,
      SuccessIsIssued, AdmittedAsItself, Present, Registers, Registered
<1> QED
  BY <1>1, <1>2, <1>3, <1>4, <1>5, <1>6, <1>7, <1>8, <1>9, <1>10, <1>11, <1>12
  DEF RegistryNext, Handle

\* RegistryInv is an invariant of the agent API.
THEOREM RegistryInvariance == RegistrySpec => []RegistryInv
<1>1. RegistryInit => RegistryInv
  BY InitRegistryInv
<1>2. RegistryInv /\ [RegistryNext]_registryVars => RegistryInv'
  BY NextRegistryInv
<1> QED
  BY <1>1, <1>2, PTL DEF RegistrySpec

\* Every state is well typed.
THEOREM RegistryTypeCorrect == RegistrySpec => []RegistryTypeOK
<1>1. RegistryInv => RegistryTypeOK
  BY DEF RegistryInv
<1> QED
  BY <1>1, RegistryInvariance, PTL

\* The token answered to a registration without an id works until its agent is
\* deleted.
THEOREM FreshTokensWork == RegistrySpec => []FreshTokenWorks
<1>1. RegistryInv => FreshTokenWorks
  <2> SUFFICES ASSUME RegistryInv, NEW r \in Requests,
                      job[r].op = "register", ~job[r].named, reply[r] = 201, r \notin struck
               PROVE  Present(job[r].id) /\ agentSecret[job[r].id].token = r
    BY DEF FreshTokenWorks
  <2>1. r \in issued
    BY DEF RegistryInv, SuccessIsIssued
  <2> QED
    BY <2>1 DEF RegistryInv, IssuedIsHeld
<1> QED
  BY <1>1, RegistryInvariance, PTL

\* Whom authentication takes for an agent bears the token of that agent.
THEOREM AgentsAreThemselves == RegistrySpec => []AdmittedAsItself
<1>1. RegistryInv => AdmittedAsItself
  BY DEF RegistryInv
<1> QED
  BY <1>1, RegistryInvariance, PTL

\* The token of a deleted Secret is never stored again.
THEOREM StruckIsOut == RegistrySpec => []StruckStaysOut
<1>1. RegistryInv => StruckStaysOut
  BY DEF RegistryInv, SecretsAreIssued, StruckStaysOut
<1> QED
  BY <1>1, RegistryInvariance, PTL

\* What a registration answered 201 has stored stays until it is deleted.
THEOREM RegisteredIsKept == RegistrySpec => []RegisteredStays
<1>1. RegistryInv => RegisteredStays
  <2> SUFFICES ASSUME RegistryInv, NEW r \in Requests, job[r].op = "register", reply[r] = 201
               PROVE  \E t \in Requests :
                        /\ Registered(r, t) /\ Registers(t, job[r].id)
                        /\ t \in struck \/ (Present(job[r].id) /\ agentSecret[job[r].id].token = t)
    BY DEF RegisteredStays
  <2>1. PICK t \in issued : Registered(r, t) /\ Registers(t, job[r].id)
    BY DEF RegistryInv, SuccessIsIssued
  <2>2. t \in Requests
    BY DEF RegistryInv, RegistryTypeOK
  <2>3. t \in struck \/ (Present(job[t].id) /\ agentSecret[job[t].id].token = t)
    BY DEF RegistryInv, IssuedIsHeld
  <2> QED
    BY <2>1, <2>2, <2>3 DEF Registers
<1> QED
  BY <1>1, RegistryInvariance, PTL

-----------------------------------------------------------------------------
\* The refinement of AgentDirectory

\* Who holds which token.
Holding == [i \in Ids |-> IF Present(i) THEN agentSecret[i].token ELSE NoToken]

\* Creating a Secret enrols the agent.
LEMMA StoreNewIsEnrol ==
  ASSUME RegistryInv, NEW r \in Requests, pc[r] = "createAgent", StoreNew(r)
  PROVE  \E i \in Ids : Directory!Enrol(i, r)
<1> DEFINE i == job[r].id
<1> USE DEF RegistryInv, RegistryTypeOK
<1>1. i \in Ids /\ r \notin issued /\ ~Present(i)
  BY DEF HandlersFitJobs, FitsJob, IssuedIsHeld, StoreNew
<1>3. /\ agentSecret'[i] # Absent /\ agentSecret'[i].token = r
      /\ \A j \in Ids \ {i} : agentSecret'[j] = agentSecret[j]
      /\ issued' = issued \cup {r}
  BY <1>1, StoreEffect DEF StoreNew
<1>4. Holding' = [Holding EXCEPT ![i] = r]
  BY <1>1, <1>3 DEF Holding, Present
<1>5. Directory!Enrol(i, r)
  BY <1>1, <1>3, <1>4 DEF Directory!Enrol, Holding
<1> QED
  BY <1>1, <1>5

\* Deleting one strikes the agent off.
LEMMA DeleteSecretIsStrike ==
  ASSUME RegistryInv, NEW i \in Ids, DeleteSecret(i)
  PROVE  Directory!Strike(i)
<1> USE DEF RegistryInv, RegistryTypeOK, DeleteSecret
<1>1. agentSecret[i].token # NoToken
  BY RegistryAssumption DEF SecretsAreIssued, Tokens
<1>2. Holding' = [Holding EXCEPT ![i] = NoToken]
  BY DEF Holding, Present
<1> QED
  BY <1>1, <1>2 DEF Directory!Strike, Holding

\* An update of a Secret changes nothing in the directory.
LEMMA PutAgentIsNoMove ==
  ASSUME RegistryInv, NEW r \in Requests, PutAgent(r)
  PROVE  Holding' = Holding /\ issued' = issued
<1>1. CASE UNCHANGED <<agentSecret, revision>>
  BY <1>1 DEF PutAgent, Holding, Present
<1>2. CASE VersionMatches(r) /\ Store(job[r].id, copy[r].token)
  <2>1. /\ Present(job[r].id) /\ agentSecret'[job[r].id] # Absent
        /\ agentSecret'[job[r].id].token = agentSecret[job[r].id].token
        /\ \A j \in Ids \ {job[r].id} : agentSecret'[j] = agentSecret[j]
    BY <1>2, PutAgentEffect DEF PutAgent
  <2> QED
    BY <2>1 DEF PutAgent, Holding, Present
<1> QED
  BY <1>1, <1>2 DEF PutAgent

\* Every step of the agent API is one of the directory, or none.
LEMMA DirectoryMoves ==
  RegistryInv /\ [RegistryNext]_registryVars
    => [Directory!DirectoryNext]_Directory!directoryVars
<1> SUFFICES ASSUME RegistryInv, [RegistryNext]_registryVars
             PROVE  Directory!DirectoryNext \/ UNCHANGED <<Holding, issued>>
  BY DEF Directory!directoryVars, Holding
<1>1. CASE UNCHANGED <<agentSecret, issued>>
  BY <1>1 DEF Holding, Present
<1>2. ASSUME NEW r \in Requests, CreateAgent(r), ~UNCHANGED <<agentSecret, issued>>
      PROVE  Directory!DirectoryNext
  <2>1. StoreNew(r) /\ pc[r] = "createAgent"
    BY <1>2 DEF CreateAgent
  <2> QED
    BY <2>1, StoreNewIsEnrol DEF Directory!DirectoryNext
<1>3. ASSUME NEW r \in Requests, PutAgent(r) PROVE UNCHANGED <<Holding, issued>>
  BY <1>3, PutAgentIsNoMove
<1>4. ASSUME NEW i \in Ids, DeleteSecret(i) PROVE Directory!DirectoryNext
  BY <1>4, DeleteSecretIsStrike DEF Directory!DirectoryNext
<1>5. ASSUME NEW r \in Requests,
             Receive(r) \/ ListTokens(r) \/ GetUsers(r) \/ GetAgent(r) \/ BeatGet(r)
               \/ FindAgent(r) \/ ListAgents(r)
      PROVE  UNCHANGED <<agentSecret, issued>>
  BY <1>5
  DEF Receive, ReceiveRegister, ReceiveUnreadable, ReceiveGet, ReceiveList, ReceiveBeat, Arrive,
      ListTokens, GetUsers, GetAgent, BeatGet, FindAgent, ListAgents, secretVars
<1> QED
  BY <1>1, <1>2, <1>3, <1>4, <1>5 DEF RegistryNext, Handle, Kill, registryVars, secretVars

\* The agent API implements the directory of AgentDirectory.
THEOREM DirectoryIsImplemented == RegistrySpec => ImplementsDirectory
<1>1. RegistryInit => Directory!DirectoryInit
  BY DEF RegistryInit, Directory!DirectoryInit, Present
<1>2. RegistryInv /\ [RegistryNext]_registryVars
        => [Directory!DirectoryNext]_Directory!directoryVars
  BY DirectoryMoves
<1> QED
  BY <1>1, <1>2, RegistryInvariance, PTL
  DEF RegistrySpec, ImplementsDirectory, Directory!DirectorySpec

-----------------------------------------------------------------------------
\* When nothing breaks and nobody deletes Secrets

\* A step of one request that stores nothing, with what it has to see to.
CalmStep(r) ==
  /\ UNCHANGED agentSecret
  /\ reply[r] = 0
  /\ \A q \in Requests \ {r} :
       job'[q] = job[q] /\ pc'[q] = pc[q] /\ copy'[q] = copy[q] /\ reply'[q] = reply[q]
  /\ pc'[r] \in {"getAgent", "putAgent"} => Present(job'[r].id)
  /\ pc'[r] \notin {"putAgent", "done"} => copy'[r] = Absent
  /\ pc'[r] = "putAgent" => copy'[r] = agentSecret[job'[r].id]
  /\ job'[r].op \in {"register", "beat"} /\ reply'[r] = 500 =>
       \/ job'[r].op = "beat" /\ copy'[r] = Absent
       \/ /\ job'[r] = job[r] /\ copy'[r] = copy[r] /\ copy[r] # Absent
          /\ \E q \in Requests : Overtook(q, r)

\* Such a step leaves everybody who was overtaken so.
LEMMA CalmStepKept ==
  ASSUME RegistryCalmInv, NEW r \in Requests, CalmStep(r)
  PROVE  RegistryCalmInv'
<1>1. ASSUME NEW q \in Requests, NEW s \in Requests, Overtook(q, s),
             job'[s] = job[s], copy'[s] = copy[s]
      PROVE  Overtook(q, s)'
  BY <1>1 DEF CalmStep, Overtook, Success
<1>2. (\A q \in Requests : pc[q] \in {"getAgent", "putAgent"} => Present(job[q].id))'
  BY DEF CalmStep, RegistryCalmInv, Present
<1>3. (\A q \in Requests : pc[q] \notin {"putAgent", "done"} => copy[q] = Absent)'
  BY DEF CalmStep, RegistryCalmInv
<1>4. ASSUME NEW s \in Requests, pc'[s] = "putAgent"
      PROVE  (copy[s] = agentSecret[job[s].id] \/ \E q \in Requests : Overtook(q, s))'
  <2>1. CASE s = r
    BY <1>4, <2>1 DEF CalmStep
  <2>2. CASE s # r
    BY <1>1, <1>4, <2>2 DEF CalmStep, RegistryCalmInv
  <2> QED
    BY <2>1, <2>2
<1>5. RefusedWasOvertaken'
  BY <1>1 DEF CalmStep, RegistryCalmInv, RefusedWasOvertaken
<1> QED
  BY <1>2, <1>3, <1>4, <1>5 DEF RegistryCalmInv

\* What arrives, is let in, is turned down or only read is calm.
LEMMA CalmReads ==
  ASSUME ~Faulty, RegistryInv, RegistryCalmInv, NEW r \in Requests,
         Receive(r) \/ ListTokens(r) \/ GetUsers(r) \/ BeatGet(r) \/ FindAgent(r) \/ ListAgents(r)
  PROVE  CalmStep(r)
<1> USE DEF RegistryInv, RegistryTypeOK, HandlersFitJobs, FitsJob, secretVars, Goto, Answer
<1>1. CASE Receive(r)
  <2>1. /\ pc[r] = "idle" /\ UNCHANGED <<agentSecret, copy>>
        /\ pc'[r] \in {"done", "listTokens", "beatGet"} /\ reply'[r] \in {0, 401}
        /\ \A q \in Requests \ {r} :
             job'[q] = job[q] /\ pc'[q] = pc[q] /\ reply'[q] = reply[q]
    BY <1>1 DEF Receive, ReceiveRegister, ReceiveUnreadable, ReceiveGet, ReceiveList, ReceiveBeat,
       Arrive
  <2> QED
    BY <2>1 DEF CalmStep, RegistryCalmInv
<1>2. CASE ListTokens(r) \/ GetUsers(r)
  <2>1. /\ pc[r] \in {"listTokens", "getUsers"} /\ UNCHANGED <<agentSecret, copy>>
        /\ pc'[r] \in {"done", "getUsers", "createAgent", "findAgent", "listAgents"}
        /\ reply'[r] \in {0, 400, 401}
        /\ \A q \in Requests \ {r} :
             job'[q] = job[q] /\ pc'[q] = pc[q] /\ reply'[q] = reply[q]
    BY <1>2 DEF ListTokens, GetUsers, Admit, BeginRegister, TurnDown
  <2> QED
    BY <2>1 DEF CalmStep, RegistryCalmInv
<1>3. CASE BeatGet(r)
  BY <1>3 DEF BeatGet, CallFails, CalmStep, RegistryCalmInv
<1>4. CASE FindAgent(r)
  BY <1>4 DEF FindAgent, CalmStep
<1>5. CASE ListAgents(r)
  BY <1>5 DEF ListAgents, CalmStep
<1> QED
  BY <1>1, <1>2, <1>3, <1>4, <1>5

\* A registration that creates its agent disturbs no one who has found his.
LEMMA CalmCreateAgent ==
  ASSUME ~Faulty, RegistryInv, RegistryCalmInv, NEW r \in Requests, CreateAgent(r)
  PROVE  RegistryCalmInv'
<1> DEFINE i == job[r].id
<1> USE DEF RegistryInv, RegistryTypeOK, HandlersFitJobs, FitsJob
<1>1. pc[r] = "createAgent" /\ reply[r] = 0 /\ copy[r] = Absent /\ i \in Ids
  BY DEF CreateAgent, RegistryCalmInv
<1>2. CASE Present(i) /\ UNCHANGED <<agentSecret, revision, issued>> /\ Goto(r, "getAgent")
  <2>1. CalmStep(r)
    BY <1>1, <1>2 DEF CreateAgent, Goto, CalmStep
  <2> QED
    BY <2>1, CalmStepKept
<1>3. CASE StoreNew(r) /\ Answer(r, 201)
  <2>1. /\ ~Present(i) /\ \A j \in Ids \ {i} : agentSecret'[j] = agentSecret[j]
        /\ agentSecret'[i] # Absent
        /\ pc' = [pc EXCEPT ![r] = "done"] /\ reply' = [reply EXCEPT ![r] = 201]
        /\ UNCHANGED <<job, copy>>
    BY <1>1, <1>3, StoreEffect DEF CreateAgent, StoreNew, Answer
  <2>2. ASSUME NEW q \in Requests, NEW s \in Requests, Overtook(q, s)
        PROVE  Overtook(q, s)'
    BY <1>1, <2>1, <2>2 DEF Overtook, Success
  <2>3. (\A q \in Requests : pc[q] \in {"getAgent", "putAgent"} => Present(job[q].id))'
    BY <2>1 DEF RegistryCalmInv, Present
  <2>4. (\A q \in Requests : pc[q] \notin {"putAgent", "done"} => copy[q] = Absent)'
    BY <2>1 DEF RegistryCalmInv
  <2>5. ASSUME NEW s \in Requests, pc'[s] = "putAgent"
        PROVE  (copy[s] = agentSecret[job[s].id] \/ \E q \in Requests : Overtook(q, s))'
    <3>1. pc[s] = "putAgent" /\ job[s].id \in Ids /\ job[s].id # i
      BY <2>1, <2>5 DEF RegistryCalmInv
    <3> QED
      BY <2>1, <2>2, <3>1 DEF RegistryCalmInv
  <2>6. RefusedWasOvertaken'
    BY <2>1, <2>2 DEF RegistryCalmInv, RefusedWasOvertaken
  <2> QED
    BY <2>3, <2>4, <2>5, <2>6 DEF RegistryCalmInv
<1> QED
  BY <1>2, <1>3 DEF CreateAgent

\* update finds the agent, because nobody deletes it.
LEMMA CalmGetAgent ==
  ASSUME ~Faulty, RegistryInv, RegistryCalmInv, NEW r \in Requests, GetAgent(r)
  PROVE  CalmStep(r)
<1> USE DEF RegistryInv, RegistryTypeOK, HandlersFitJobs, FitsJob
<1>1. Present(job[r].id) /\ reply[r] = 0
  BY DEF GetAgent, RegistryCalmInv
<1> QED
  BY <1>1 DEF GetAgent, CallFails, Goto, CalmStep, secretVars

\* An update that goes through overtakes all who have read the same Secret; one
\* that is refused was overtaken.
LEMMA CalmPutAgent ==
  ASSUME ~Faulty, RegistryInv, RegistryCalmInv, NEW r \in Requests, PutAgent(r)
  PROVE  RegistryCalmInv'
<1> DEFINE i == job[r].id
<1> USE DEF RegistryInv, RegistryTypeOK, HandlersFitJobs, FitsJob
<1>1. /\ pc[r] = "putAgent" /\ reply[r] = 0 /\ i \in Ids /\ Present(i)
      /\ copy[r] # Absent /\ job[r].op \in {"register", "beat"}
  BY DEF PutAgent, RegistryCalmInv, CopiesAreVersions, CopyIsVersion
<1>2. CASE /\ ~VersionMatches(r)
           /\ UNCHANGED <<agentSecret, revision>> /\ Answer(r, 500)
  <2>1. \E q \in Requests : Overtook(q, r)
    BY <1>1, <1>2 DEF RegistryCalmInv, VersionMatches
  <2>2. CalmStep(r)
    BY <1>1, <1>2, <2>1 DEF PutAgent, Answer, CalmStep
  <2> QED
    BY <2>2, CalmStepKept
<1>3. CASE VersionMatches(r) /\ Store(i, copy[r].token) /\ Answer(r, Success(r))
  <2>1. /\ copy[r] = agentSecret[i]
        /\ agentSecret'[i] # Absent
        /\ \A j \in Ids \ {i} : agentSecret'[j] = agentSecret[j]
    BY <1>1, <1>3, PutAgentEffect
  <2>2. /\ pc' = [pc EXCEPT ![r] = "done"] /\ reply' = [reply EXCEPT ![r] = Success(r)]
        /\ UNCHANGED <<job, copy>>
    BY <1>3 DEF PutAgent, Answer
  <2>3. ASSUME NEW q \in Requests, NEW s \in Requests, Overtook(q, s)
        PROVE  Overtook(q, s)'
    BY <1>1, <2>2, <2>3 DEF Overtook, Success
  <2>4. ASSUME NEW s \in Requests, job[s].id = i, copy[s] = copy[r]
        PROVE  Overtook(r, s)'
    BY <1>1, <2>2, <2>4 DEF Overtook, Success
  <2>5. (\A q \in Requests : pc[q] \in {"getAgent", "putAgent"} => Present(job[q].id))'
    BY <2>1, <2>2 DEF RegistryCalmInv, Present
  <2>6. (\A q \in Requests : pc[q] \notin {"putAgent", "done"} => copy[q] = Absent)'
    BY <2>2 DEF RegistryCalmInv
  <2>7. ASSUME NEW s \in Requests, pc'[s] = "putAgent"
        PROVE  (copy[s] = agentSecret[job[s].id] \/ \E q \in Requests : Overtook(q, s))'
    <3>1. pc[s] = "putAgent" /\ job[s].id \in Ids
      BY <2>2, <2>7
    <3>2. CASE job[s].id = i
      BY <2>1, <2>2, <2>3, <2>4, <3>1, <3>2 DEF RegistryCalmInv
    <3>3. CASE job[s].id # i
      BY <2>1, <2>2, <2>3, <3>1, <3>3 DEF RegistryCalmInv
    <3> QED
      BY <3>2, <3>3
  <2>8. RefusedWasOvertaken'
    BY <2>2, <2>3 DEF RegistryCalmInv, RefusedWasOvertaken, Success
  <2> QED
    BY <2>5, <2>6, <2>7, <2>8 DEF RegistryCalmInv
<1> QED
  BY <1>2, <1>3 DEF PutAgent, CallFails

\* When nothing breaks and nobody deletes, every step keeps the calm invariant.
LEMMA CalmKept ==
  ASSUME ~Faulty, ~Operators
  PROVE  RegistryInv /\ RegistryCalmInv /\ [RegistryNext]_registryVars => RegistryCalmInv'
<1> SUFFICES ASSUME RegistryInv, RegistryCalmInv, [RegistryNext]_registryVars
             PROVE  RegistryCalmInv'
  OBVIOUS
<1>1. ASSUME NEW r \in Requests, Receive(r) \/ Handle(r) PROVE RegistryCalmInv'
  BY <1>1, CalmReads, CalmGetAgent, CalmStepKept, CalmCreateAgent, CalmPutAgent DEF Handle
<1>2. CASE UNCHANGED registryVars
  BY <1>2 DEF registryVars, secretVars, RegistryCalmInv, RefusedWasOvertaken, Overtook, Success,
              Present
<1> QED
  BY <1>1, <1>2 DEF RegistryNext, DeleteSecret, Kill

\* Initially nobody has read or been answered anything.
LEMMA CalmStarts == RegistryInit => RegistryCalmInv
BY DEF RegistryInit, NoJob, RegistryCalmInv, RefusedWasOvertaken

\* When no Kubernetes call breaks and nobody deletes agents, a Secret that a
\* request has read stays, and has a later version only when the request was
\* overtaken.
THEOREM RegistryCalmInvariance ==
  ASSUME ~Faulty, ~Operators
  PROVE  RegistrySpec => []RegistryCalmInv
<1>1. RegistryInit => RegistryCalmInv
  BY CalmStarts
<1>2. RegistryInv /\ RegistryCalmInv /\ [RegistryNext]_registryVars => RegistryCalmInv'
  BY CalmKept
<1> QED
  BY <1>1, <1>2, RegistryInvariance, PTL DEF RegistrySpec

\* When no Kubernetes call breaks and nobody deletes agents, an update is
\* refused only to a request that another one overtook, from the same Secret:
\* this is what UpdatesLand rests on, for any number of requests.
THEOREM RefusalsAreOvertaken == RegistrySpec => []RefusedWasOvertaken
<1>1. CASE ~Faulty /\ ~Operators
  <2>1. RegistrySpec => []RegistryCalmInv
    BY <1>1, RegistryCalmInvariance
  <2>2. RegistryCalmInv => RefusedWasOvertaken
    BY DEF RegistryCalmInv
  <2> QED
    BY <2>1, <2>2, PTL
<1>2. CASE Faulty \/ Operators
  <2>1. RefusedWasOvertaken
    BY <1>2 DEF RefusedWasOvertaken
  <2> QED
    BY <2>1, PTL
<1> QED
  BY <1>1, <1>2
=============================================================================
