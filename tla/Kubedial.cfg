\* Two runs, one after the other, and an apply beside them, for one command;
\* everything may fail.
SPECIFICATION KubedialSpec
CONSTANTS
  Commands = {c1}
  Agents = {a1, a2}
  Files = {f1, f2}
  Requests = {p1, q1, q2}
  Posts = {p1}
  Runs = {d1, d2}
  Applies = {m1}
  Faulty = TRUE
  Absent = Absent
  NoResult = NoResult
  NoCommand = NoCommand
  NoCall = NoCall
SYMMETRY DialSymmetry
INVARIANTS
  DialInv
  VerdictWasEarned
  ApplyIsWhole
  PostedInv
  ExecutedAsPosted
PROPERTIES
  AckedIsNotListed
  ImplementsDispatch
\* The processes are started once and the requests served once.
CHECK_DEADLOCK FALSE
