\* Two reporters of one command, one success and one failure.
SPECIFICATION Spec
CONSTANTS
  Commands = {c1}
  Agents = {a1}
  Files = {f1}
  Requests = {r1, r2, r3}
  Faulty = FALSE
  Absent = Absent
  NoResult = NoResult
INVARIANTS
  StatusTellsResult
CHECK_DEADLOCK FALSE
