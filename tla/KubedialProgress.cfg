\* Nothing breaks: what a run has listed ends with a verdict and a result.
SPECIFICATION KubedialFairSpec
CONSTANTS
  Commands = {c1}
  Agents = {a1}
  Files = {f1, f2}
  Requests = {p1, q1, q2}
  Posts = {p1}
  Runs = {d1}
  Applies = {m1}
  Faulty = FALSE
  Absent = Absent
  NoResult = NoResult
  NoCommand = NoCommand
  NoCall = NoCall
INVARIANTS
  CalmInv
  ReportsAreFollowedUp
  ExecutedIsReported
PROPERTIES
  SkipsOnlyWhatIsNew
  ListedIsJudged
  ReportsLand
\* The processes are started once and the requests served once.
CHECK_DEADLOCK FALSE
