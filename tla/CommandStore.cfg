\* Two commands, one agent, one file; any mix of creations, reports and reads.
SPECIFICATION Spec
CONSTANTS
  Commands = {c1, c2}
  Agents = {a1}
  Files = {f1}
  Requests = {r1, r2, r3, r4}
  Faulty = TRUE
  Absent = Absent
  NoResult = NoResult
SYMMETRY StoreSymmetry
INVARIANTS
  TypeOK
  IInv
  ResultAfterVerdict
  AckedIsRecorded
  CreatedIsComplete
  VerdictAgrees
  ReadNeverAhead
PROPERTIES
  ImplementsLifecycle
\* Every request is served once, so the behaviours end.
CHECK_DEADLOCK FALSE
