\* The commander may hang, die or answer late; the processes end.
SPECIFICATION HungCommanderSpec
CONSTANTS
  Commands = {c1}
  Agents = {a1}
  Files = {f1}
  Requests = {p1, q1, q2}
  Posts = {p1}
  Runs = {d1}
  Applies = {m1}
  Faulty = TRUE
  Absent = Absent
  NoResult = NoResult
  NoCommand = NoCommand
  NoCall = NoCall
PROPERTIES
  ProcessesEnd
\* The processes are started once and the requests served once.
CHECK_DEADLOCK FALSE
