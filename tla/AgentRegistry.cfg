\* Three requests of any kind, a heartbeat, and two agents; calls break, the
\* process dies, and an operator deletes Secrets.
SPECIFICATION RegistrySpec
CONSTANTS
  Ids = {i1, i2}
  Requests = {r1, r2, r3, b1}
  Beats = {b1}
  Users = {u1}
  Operators = TRUE
  Faulty = TRUE
  Absent = Absent
  NoId = NoId
  NoToken = NoToken
  Nobody = Nobody
SYMMETRY RegistrySymmetry
INVARIANTS
  RegistryInv
  FreshTokenWorks
  AdmittedAsItself
  StruckStaysOut
  RegisteredStays
PROPERTIES
  ImplementsDirectory
\* Every request is served once, so the behaviours end.
CHECK_DEADLOCK FALSE
