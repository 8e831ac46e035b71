\* Registrations and a heartbeat that meet at one agent; nothing breaks.
SPECIFICATION RegistryFairSpec
CONSTANTS
  Ids = {i1}
  Requests = {r1, r2, r3, b1}
  Beats = {b1}
  Users = {u1}
  Operators = FALSE
  Faulty = FALSE
  Absent = Absent
  NoId = NoId
  NoToken = NoToken
  Nobody = Nobody
INVARIANTS
  RegistryCalmInv
  RefusedWasOvertaken
PROPERTIES
  UpdatesLand
\* Every request is served once, so the behaviours end.
CHECK_DEADLOCK FALSE
