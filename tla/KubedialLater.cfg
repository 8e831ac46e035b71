\* Two runs, one after the other, and a command posted to the id that the first
\* was given; nothing breaks.
SPECIFICATION CronSpec
CONSTANTS
  Commands = {c1}
  Agents = {a1, a2}
  Files = {f1}
  Requests = {p1, q1, q2}
  Posts = {p1}
  Runs = {d1, d2}
  Applies = {}
  Faulty = FALSE
  Absent = Absent
  NoResult = NoResult
  NoCommand = NoCommand
  NoCall = NoCall
PROPERTIES
  LaterRunServes
\* The processes are started once and the requests served once.
CHECK_DEADLOCK FALSE
