\* Two requests and a signal at any time; nothing breaks.
SPECIFICATION ServerSpec
CONSTANTS
  Commands = {c1}
  Agents = {a1}
  Files = {f1}
  Requests = {r1, r2}
  Faulty = FALSE
  Absent = Absent
  NoResult = NoResult
INVARIANTS
  GracefulIsAnswered
\* The process ends.
CHECK_DEADLOCK FALSE
