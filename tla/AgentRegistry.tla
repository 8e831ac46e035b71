--------------------------- MODULE AgentRegistry ----------------------------
(***************************************************************************)
(* The agent API of kubecommander: endpoint/middleware.go lets a request   *)
(* in when repository/auth.go knows its bearer token; endpoint/agent.go    *)
(* calls service/agent.go, which calls repository/agent.go, which keeps    *)
(* each agent with its token in the Secret agent-<id>.                     *)
(*                                                                         *)
(* As in CommandStore, one call to the Kubernetes API with the local code  *)
(* after it is one action, a call may break when the environment is        *)
(* Faulty, and an UPDATE is refused when the Secret has changed since it   *)
(* was read.  The API has no way to delete an agent; an operator who wants *)
(* to be rid of one deletes its Secret, and may do so at any time.         *)
(*                                                                         *)
(* Every registration generates a token of 32 random bytes, which never    *)
(* repeats: the request that generated a token stands for it.              *)
(***************************************************************************)
EXTENDS Naturals

CONSTANTS Ids,       \* agent ids
          Requests,  \* requests to the agent API, each served once
          Beats,     \* those that are calls of UpdateLastSeen: no route leads
                     \* to it yet, so the program as it is has none
          Users,     \* the tokens in the Secret "users"
          Operators, \* somebody may delete agent Secrets
          Faulty,    \* Kubernetes calls may break and the process may die
          Absent,    \* there is no such Secret
          NoId,      \* the request names no agent
          NoToken,   \* no usable Authorization header
          Nobody     \* the request is not authenticated

VARIABLES agentSecret, \* agent-<id>
          revision,    \* the resourceVersion given out last
          issued,      \* history: the tokens that were ever stored
          struck,      \* history: the tokens whose Secret was deleted
          job,         \* what each request asks for
          pc,          \* the Kubernetes call each handler makes next
          identity,    \* whom ValidateToken took the sender for
          copy,        \* the Secret each handler has read
          reply        \* the HTTP status each request was answered with

secretVars == <<agentSecret, revision, issued, struck>>
registryVars == <<agentSecret, revision, issued, struck, job, pc, identity,
                  copy, reply>>

-----------------------------------------------------------------------------
\* Data

Tokens == Requests \cup Users

\* Data["metadata"], the names and times of models.Agent, is left out: no
\* handler decides on it.  Whatever is written gets a resourceVersion.
AgentSecret ==
  [rv : Nat,          \* resourceVersion
   token : Requests]  \* Data["token"]

Ops == {"register", "get", "list", "unreadable", "beat"}

Job == [op : Ops \cup {"none"},
        named : BOOLEAN,       \* the body of a registration carries an id
        id : Ids \cup {NoId},  \* the agent that is meant, once it is known
        bearer : Tokens \cup {NoToken}]

NoJob == [op |-> "none", named |-> FALSE, id |-> NoId, bearer |-> NoToken]

PCs == {"idle", "listTokens", "getUsers", "createAgent", "getAgent",
        "putAgent", "findAgent", "listAgents", "beatGet", "done"}

Admin == "admin"

\* HTTP status codes; 0 while the request is not answered.  A call of
\* UpdateLastSeen "answers" 200 for nil and 500 for an error.
Codes == {0, 200, 201, 400, 401, 404, 500}

ASSUME RegistryAssumption ==
  /\ Beats \subseteq Requests
  /\ Requests \cap Users = {}
  /\ {Operators, Faulty} \subseteq BOOLEAN
  /\ Absent \notin AgentSecret
  /\ NoId \notin Ids
  /\ NoToken \notin Tokens
  /\ Ids \cap {Admin, Nobody} = {}

RegistryTypeOK ==
  /\ agentSecret \in [Ids -> AgentSecret \cup {Absent}]
  /\ revision \in Nat
  /\ issued \in SUBSET Requests
  /\ struck \in SUBSET Requests
  /\ job \in [Requests -> Job]
  /\ pc \in [Requests -> PCs]
  /\ identity \in [Requests -> Ids \cup {Admin, Nobody}]
  /\ copy \in [Requests -> AgentSecret \cup {Absent}]
  /\ reply \in [Requests -> Codes]

RegistryInit ==
  /\ agentSecret = [i \in Ids |-> Absent]
  /\ revision = 0
  /\ issued = {}
  /\ struck = {}
  /\ job = [r \in Requests |-> NoJob]
  /\ pc = [r \in Requests |-> "idle"]
  /\ identity = [r \in Requests |-> Nobody]
  /\ copy = [r \in Requests |-> Absent]
  /\ reply = [r \in Requests |-> 0]

-----------------------------------------------------------------------------
\* Steps that several handlers share

Active(r) == pc[r] \notin {"idle", "done"}

Present(i) == agentSecret[i] # Absent

\* A call errs when the API server refuses it, or when it breaks.
CallFails(refused) == refused \/ Faulty

Goto(r, next) ==
  /\ pc' = [pc EXCEPT ![r] = next]
  /\ UNCHANGED reply

Answer(r, code) ==
  /\ pc' = [pc EXCEPT ![r] = "done"]
  /\ reply' = [reply EXCEPT ![r] = code]

-----------------------------------------------------------------------------
\* Requests arrive

\* A sender has a token from the users Secret, or one that a registration
\* answered, be it valid or not.
Known == Users \cup {t \in Requests : reply[t] = 201}

\* AuthMiddleware: a request without a bearer token gets no further.
Arrive(r, op, i) ==
  /\ pc[r] = "idle" /\ r \notin Beats
  /\ \E t \in Known \cup {NoToken} :
       /\ job' = [job EXCEPT ![r] =
            [op |-> op, named |-> i # NoId, id |-> i, bearer |-> t]]
       /\ IF t = NoToken THEN Answer(r, 401) ELSE Goto(r, "listTokens")
  /\ UNCHANGED <<secretVars, identity, copy>>

Registers(r, i) == job[r].op = "register" /\ job[r].id = i

\* An id that uuid.New() made up is unknown to all until it is stored.
Nameable(i) ==
  \A r \in Requests :
    Registers(r, i) /\ ~job[r].named => r \in issued

\* POST /agents/register, with or without an id in the body.
ReceiveRegister(r) ==
  \/ Arrive(r, "register", NoId)
  \/ \E i \in Ids : Nameable(i) /\ Arrive(r, "register", i)

\* A registration whose body does not parse.
ReceiveUnreadable(r) == Arrive(r, "unreadable", NoId)

\* GET /agents/{id} and GET /agents.
ReceiveGet(r) == \E i \in Ids : Arrive(r, "get", i)
ReceiveList(r) == Arrive(r, "list", NoId)

\* A call of UpdateLastSeen.
ReceiveBeat(r) ==
  /\ pc[r] = "idle" /\ r \in Beats
  /\ \E i \in Ids :
       job' = [job EXCEPT ![r] =
         [op |-> "beat", named |-> TRUE, id |-> i, bearer |-> NoToken]]
  /\ Goto(r, "beatGet")
  /\ UNCHANGED <<secretVars, identity, copy>>

-----------------------------------------------------------------------------
\* ValidateToken, and what the handler does before its first own call

\* An id that no registration was given or named before.
Fresh(i) == \A r \in Requests : ~Registers(r, i)

\* service Register: the id, and the token, for which the request stands.
BeginRegister(r) ==
  /\ \E i \in Ids :
       /\ IF job[r].named THEN i = job[r].id ELSE Fresh(i)
       /\ job' = [job EXCEPT ![r].id = i]
  /\ Goto(r, "createAgent")

\* The request is let in, as who.
Admit(r, who) ==
  /\ identity' = [identity EXCEPT ![r] = who]
  /\ \/ job[r].op = "register" /\ BeginRegister(r)
     \/ /\ job[r].op # "register"
        /\ UNCHANGED job
        /\ \/ job[r].op = "get" /\ Goto(r, "findAgent")
           \/ job[r].op = "list" /\ Goto(r, "listAgents")
           \/ job[r].op = "unreadable" /\ Answer(r, 400)

Holders(t) == {i \in Ids : Present(i) /\ agentSecret[i].token = t}

TurnDown(r) == Answer(r, 401) /\ UNCHANGED <<job, identity>>

\* Faulty variant: the loop over the Secrets forgets to compare.
ListTokensUncompared(r) ==
  /\ pc[r] = "listTokens"
  /\ \/ \E i \in Ids : Present(i) /\ Admit(r, i)
     \/ /\ \A i \in Ids : ~Present(i)
        /\ Goto(r, "getUsers") /\ UNCHANGED <<job, identity>>
     \/ Faulty /\ TurnDown(r)
  /\ UNCHANGED <<secretVars, copy>>

\* First phase: LIST of the agent Secrets; the id is that in the name of the
\* one that holds the token.
ListTokens(r) ==
  /\ pc[r] = "listTokens"
  /\ \/ \E i \in Holders(job[r].bearer) : Admit(r, i)
     \/ /\ Holders(job[r].bearer) = {}
        /\ Goto(r, "getUsers") /\ UNCHANGED <<job, identity>>
     \/ Faulty /\ TurnDown(r)
  /\ UNCHANGED <<secretVars, copy>>

\* Second phase: GET of the users Secret.
GetUsers(r) ==
  /\ pc[r] = "getUsers"
  /\ \/ job[r].bearer \in Users /\ Admit(r, Admin)
     \/ CallFails(job[r].bearer \notin Users) /\ TurnDown(r)
  /\ UNCHANGED <<secretVars, copy>>

-----------------------------------------------------------------------------
\* Registration

Store(i, t) ==
  /\ agentSecret' = [agentSecret EXCEPT ![i] = [rv |-> revision + 1, token |-> t]]
  /\ revision' = revision + 1

\* The Secret with the token that this registration generated.
StoreNew(r) ==
  /\ ~Present(job[r].id)
  /\ Store(job[r].id, r)
  /\ issued' = issued \cup {r}

\* repository Create.  When the Secret exists already, it goes on to update.
\* Any other error, that of rand.Read before it included, is a 500.
CreateAgent(r) ==
  /\ pc[r] = "createAgent"
  /\ \/ StoreNew(r) /\ (Answer(r, 201) \/ (Faulty /\ Answer(r, 500)))
     \/ /\ Present(job[r].id)
        /\ UNCHANGED <<agentSecret, revision, issued>>
        /\ Goto(r, "getAgent")
     \/ /\ Faulty
        /\ UNCHANGED <<agentSecret, revision, issued>>
        /\ Answer(r, 500)
  /\ UNCHANGED <<struck, job, identity, copy>>

\* What a registration or an UpdateLastSeen says when it has gone through.
Success(r) == IF job[r].op = "register" THEN 201 ELSE 200

\* Faulty variant: a Secret that has gone is no error.
GetAgentGone(r) ==
  /\ pc[r] = "getAgent"
  /\ \/ /\ Present(job[r].id)
        /\ copy' = [copy EXCEPT ![r] = agentSecret[job[r].id]]
        /\ Goto(r, "putAgent")
     \/ ~Present(job[r].id) /\ UNCHANGED copy /\ Answer(r, Success(r))
     \/ Faulty /\ UNCHANGED copy /\ Answer(r, 500)
  /\ UNCHANGED <<secretVars, job, identity>>

\* repository update, GET.  A Secret that has gone in the meantime is an error.
GetAgent(r) ==
  /\ pc[r] = "getAgent"
  /\ \/ /\ Present(job[r].id)
        /\ copy' = [copy EXCEPT ![r] = agentSecret[job[r].id]]
        /\ Goto(r, "putAgent")
     \/ CallFails(~Present(job[r].id)) /\ UNCHANGED copy /\ Answer(r, 500)
  /\ UNCHANGED <<secretVars, job, identity>>

\* The API server accepts an UPDATE whose resourceVersion is the current one.
VersionMatches(r) ==
  /\ Present(job[r].id)
  /\ agentSecret[job[r].id].rv = copy[r].rv

\* Faulty variants: an UPDATE that creates what it does not find and looks at
\* no version; one that stores the new token with the new metadata; a CREATE in
\* the place of the UPDATE, which is refused because it takes no resourceVersion.
PutAgentUnversioned(r) ==
  /\ pc[r] = "putAgent"
  /\ \/ /\ Store(job[r].id, copy[r].token)
        /\ Answer(r, Success(r)) \/ (Faulty /\ Answer(r, 500))
     \/ Faulty /\ UNCHANGED <<agentSecret, revision>> /\ Answer(r, 500)
  /\ UNCHANGED <<issued, struck, job, identity, copy>>

PutAgentRotating(r) ==
  /\ pc[r] = "putAgent"
  /\ \/ /\ VersionMatches(r)
        /\ Store(job[r].id, r)
        /\ Answer(r, Success(r)) \/ (Faulty /\ Answer(r, 500))
     \/ /\ CallFails(~VersionMatches(r))
        /\ UNCHANGED <<agentSecret, revision>> /\ Answer(r, 500)
  /\ UNCHANGED <<issued, struck, job, identity, copy>>

PutAgentCreating(r) ==
  /\ pc[r] = "putAgent"
  /\ Answer(r, 500)
  /\ UNCHANGED <<secretVars, job, identity, copy>>

\* repository update, UPDATE: the Secret that was read, with other metadata.
PutAgent(r) ==
  /\ pc[r] = "putAgent"
  /\ \/ /\ VersionMatches(r)
        /\ Store(job[r].id, copy[r].token)
        /\ Answer(r, Success(r)) \/ (Faulty /\ Answer(r, 500))
     \/ /\ CallFails(~VersionMatches(r))
        /\ UNCHANGED <<agentSecret, revision>> /\ Answer(r, 500)
  /\ UNCHANGED <<issued, struck, job, identity, copy>>

-----------------------------------------------------------------------------
\* UpdateLastSeen: the metadata are read here, the Secret they are put into is
\* read again by update

BeatGet(r) ==
  /\ pc[r] = "beatGet"
  /\ \/ Present(job[r].id) /\ Goto(r, "getAgent")
     \/ CallFails(~Present(job[r].id)) /\ Answer(r, 500)
  /\ UNCHANGED <<secretVars, job, identity, copy>>

-----------------------------------------------------------------------------
\* GET /agents/{id}; the response is left in copy
FindAgent(r) ==
  /\ pc[r] = "findAgent"
  /\ \/ /\ Present(job[r].id)
        /\ copy' = [copy EXCEPT ![r] = agentSecret[job[r].id]]
        /\ Answer(r, 200)
     \/ ~Present(job[r].id) /\ UNCHANGED copy /\ Answer(r, 404)
     \/ Faulty /\ UNCHANGED copy /\ Answer(r, 500)
  /\ UNCHANGED <<secretVars, job, identity>>

\* GET /agents
ListAgents(r) ==
  /\ pc[r] = "listAgents"
  /\ Answer(r, 200) \/ (Faulty /\ Answer(r, 500))
  /\ UNCHANGED <<secretVars, job, identity, copy>>

-----------------------------------------------------------------------------
\* An operator deletes agent-<i>.
DeleteSecret(i) ==
  /\ Operators /\ Present(i)
  /\ struck' = struck \cup {agentSecret[i].token}
  /\ agentSecret' = [agentSecret EXCEPT ![i] = Absent]
  /\ UNCHANGED <<revision, issued, job, pc, identity, copy, reply>>

\* The commander process ends: the handlers in flight never answer.
Kill ==
  /\ Faulty
  /\ \E r \in Requests : Active(r)
  /\ pc' = [r \in Requests |-> IF Active(r) THEN "done" ELSE pc[r]]
  /\ UNCHANGED <<secretVars, job, identity, copy, reply>>

Receive(r) ==
  \/ ReceiveRegister(r) \/ ReceiveUnreadable(r)
  \/ ReceiveGet(r) \/ ReceiveList(r) \/ ReceiveBeat(r)

Handle(r) ==
  \/ ListTokens(r) \/ GetUsers(r)
  \/ CreateAgent(r) \/ GetAgent(r) \/ PutAgent(r)
  \/ BeatGet(r) \/ FindAgent(r) \/ ListAgents(r)

RegistryNext ==
  \/ \E r \in Requests : Receive(r) \/ Handle(r)
  \/ \E i \in Ids : DeleteSecret(i)
  \/ Kill

RegistrySpec == RegistryInit /\ [][RegistryNext]_registryVars

\* The Go scheduler runs every handler, and every Kubernetes call returns.
RegistryFairSpec ==
  RegistrySpec /\ \A r \in Requests : WF_registryVars(Handle(r))

-----------------------------------------------------------------------------
\* Properties

\* The token answered to a registration without an id, as kubedialer sends it,
\* is the token of that agent until an operator deletes the agent, whoever
\* registers the same id again and however their calls interleave or break
\* (service/agent.go:32-50, repository/agent.go:39-87).
FreshTokenWorks ==
  \A r \in Requests :
    job[r].op = "register" /\ ~job[r].named /\ reply[r] = 201 =>
      r \in struck \/ (Present(job[r].id) /\ agentSecret[job[r].id].token = r)

\* Whom ValidateToken takes for an agent bears the token that was stored when
\* that very agent was created (repository/auth.go:42-49).
AdmittedAsItself ==
  \A r \in Requests :
    identity[r] \in Ids =>
      job[r].bearer \in issued /\ Registers(job[r].bearer, identity[r])

\* The token of a Secret that was deleted is stored by no handler again, not
\* even by one that has read the Secret before (repository/agent.go:75-84).
StruckStaysOut == \A i \in Ids : Present(i) => agentSecret[i].token \notin struck

\* The Secret that a registration answered 201 has created, or has found, read
\* and updated, is its agent's until an operator deletes it: a Secret that came
\* and went between those calls is not taken for one (repository/agent.go:59-86).
Registered(r, t) == t = r \/ (copy[r] # Absent /\ copy[r].token = t)

RegisteredStays ==
  \A r \in Requests :
    job[r].op = "register" /\ reply[r] = 201 =>
      \E t \in Requests :
        /\ Registered(r, t) /\ Registers(t, job[r].id)
        /\ t \in struck \/ (Present(job[r].id) /\ agentSecret[job[r].id].token = t)

\* The registry implements the directory of AgentDirectory: one token per
\* agent, for life, never given twice.
Directory == INSTANCE AgentDirectory
  WITH Tokens <- Requests,
       holder <- [i \in Ids |-> IF Present(i) THEN agentSecret[i].token ELSE NoToken]

ImplementsDirectory == Directory!DirectorySpec

\* When nothing breaks and nobody deletes Secrets, registrations and heartbeats
\* that meet at an agent do not lock each other out: the optimistic updates
\* refuse some, but one of them is answered that it went through
\* (repository/agent.go:75-85).
Updates(r, i) ==
  job[r].op \in {"register", "beat"} /\ job[r].id = i /\ copy[r] # Absent

UpdatesLand ==
  \A i \in Ids :
    (\E r \in Requests : Updates(r, i) /\ pc[r] = "putAgent") ~>
      (\E r \in Requests : Updates(r, i) /\ reply[r] = Success(r))

\* Another update of the same agent, that had read the very same Secret, went
\* through.
Overtook(q, r) ==
  /\ job[q].op \in {"register", "beat"} /\ job[q].id = job[r].id
  /\ copy[q] = copy[r]
  /\ reply[q] = Success(q)

\* When nothing breaks and nobody deletes Secrets, an update is refused for one
\* reason only: it was overtaken.  Only an UpdateLastSeen of an agent that does
\* not exist fails for itself (repository/agent.go:75-84: a conflict is an error).
RefusedWasOvertaken ==
  ~Faulty /\ ~Operators =>
    \A r \in Requests :
      job[r].op \in {"register", "beat"} /\ reply[r] = 500 =>
        \/ job[r].op = "beat" /\ copy[r] = Absent
        \/ copy[r] # Absent /\ \E q \in Requests : Overtook(q, r)

-----------------------------------------------------------------------------
\* The inductive invariant of AgentRegistryProofs

\* Past authentication a handler has an agent id where it needs one; a
\* registration without an id in its body never finds its agent there already.
FitsJob(r) ==
  /\ job[r].op \in {"get", "beat"} => job[r].id \in Ids
  /\ pc[r] = "createAgent" => job[r].op = "register" /\ job[r].id \in Ids
  /\ pc[r] = "beatGet" => job[r].op = "beat"
  /\ pc[r] = "findAgent" => job[r].op = "get"
  /\ pc[r] \in {"getAgent", "putAgent"} =>
       /\ job[r].id \in Ids
       /\ job[r].op = "beat" \/ (job[r].op = "register" /\ job[r].named)
  /\ reply[r] # 0 => pc[r] = "done"
  /\ pc[r] = "idle" => identity[r] = Nobody

HandlersFitJobs == \A r \in Requests : FitsJob(r)

\* A stored token was generated by a registration of this agent.
SecretsAreIssued ==
  \A i \in Ids :
    Present(i) =>
      /\ agentSecret[i].rv <= revision
      /\ agentSecret[i].token \in issued \ struck
      /\ Registers(agentSecret[i].token, i)

\* A token that was ever stored is still that of its agent, or it was struck.
IssuedIsHeld ==
  \A t \in issued :
    /\ pc[t] = "done" /\ job[t].op = "register" /\ job[t].id \in Ids
    /\ t \notin struck =>
         Present(job[t].id) /\ agentSecret[job[t].id].token = t

\* What will be sent back is the current Secret, if its version is.
CopyIsVersion(r) ==
  pc[r] = "putAgent" =>
    /\ copy[r] # Absent
    /\ copy[r].rv <= revision
    /\ Present(job[r].id) /\ agentSecret[job[r].id].rv = copy[r].rv =>
         copy[r] = agentSecret[job[r].id]

CopiesAreVersions == \A r \in Requests : CopyIsVersion(r)

\* An id that was made up belongs to one registration until it is stored.
MadeUpIsAlone ==
  \A r, q \in Requests :
    /\ pc[r] = "createAgent" /\ ~job[r].named
    /\ job[q].op = "register" /\ job[q].id = job[r].id
    => q = r

\* What a registration answered 201 rests on.
SuccessIsIssued ==
  \A r \in Requests :
    job[r].op = "register" /\ reply[r] = 201 =>
      /\ ~job[r].named => r \in issued
      /\ \E t \in issued : Registered(r, t) /\ Registers(t, job[r].id)

RegistryInv ==
  /\ RegistryTypeOK
  /\ struck \subseteq issued
  /\ HandlersFitJobs
  /\ SecretsAreIssued
  /\ IssuedIsHeld
  /\ CopiesAreVersions
  /\ MadeUpIsAlone
  /\ SuccessIsIssued
  /\ AdmittedAsItself

\* What is known besides when nothing breaks and nobody deletes Secrets: an
\* agent that a handler has found stays, and the copy it sends back is current
\* until somebody overtakes it.
RegistryCalmInv ==
  /\ \A r \in Requests : pc[r] \in {"getAgent", "putAgent"} => Present(job[r].id)
  /\ \A r \in Requests :
       /\ pc[r] \notin {"putAgent", "done"} => copy[r] = Absent
       /\ pc[r] = "putAgent" =>
            copy[r] = agentSecret[job[r].id] \/ \E q \in Requests : Overtook(q, r)
  /\ RefusedWasOvertaken
=============================================================================
