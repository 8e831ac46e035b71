\* Nothing breaks, and yet a command completes of which nothing was executed.
SPECIFICATION KubedialSpec
CONSTANTS
  Commands = {c1}
  Agents = {a1}
  Files = {f1}
  Requests = {p1, q1}
  Posts = {p1}
  Runs = {d1}
  Applies = {}
  Faulty = FALSE
  Absent = Absent
  NoResult = NoResult
  NoCommand = NoCommand
  NoCall = NoCall
INVARIANTS
  CompletedWasExecutedWhole
\* The processes are started once and the requests served once.
CHECK_DEADLOCK FALSE
