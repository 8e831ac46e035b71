--------------------------- MODULE AgentDirectory ---------------------------
(***************************************************************************)
(* What the commander promises about the tokens of its agents: an agent is *)
(* given one token when it is enrolled and keeps it for as long as it is   *)
(* in the directory, nobody is given a token that somebody has or had, and *)
(* a token that was struck off with its agent does not come back.          *)
(***************************************************************************)
CONSTANTS Ids,     \* agent ids
          Tokens,  \* bearer tokens
          NoToken  \* the agent is not in the directory

VARIABLES holder,  \* the token of each agent
          issued   \* the tokens that were ever given to an agent

directoryVars == <<holder, issued>>

DirectoryInit ==
  /\ holder = [i \in Ids |-> NoToken]
  /\ issued = {}

Enrol(i, t) ==
  /\ holder[i] = NoToken
  /\ t \notin issued
  /\ holder' = [holder EXCEPT ![i] = t]
  /\ issued' = issued \cup {t}

Strike(i) ==
  /\ holder[i] # NoToken
  /\ holder' = [holder EXCEPT ![i] = NoToken]
  /\ UNCHANGED issued

DirectoryNext ==
  \E i \in Ids : Strike(i) \/ \E t \in Tokens : Enrol(i, t)

DirectorySpec == DirectoryInit /\ [][DirectoryNext]_directoryVars
=============================================================================
