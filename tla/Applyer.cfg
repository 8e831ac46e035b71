\* Two executions and other clients meet at the objects of a few files;
\* everything may fail.
SPECIFICATION ApplyerSpec
CONSTANTS
  n1 = n1
  n2 = n2
  n3 = n3
  ns1 = ns1
  v1 = v1
  v2 = v2
  f1 = f1
  f2 = f2
  f3 = f3
  f4 = f4
  Names = {n1, n2, n3}
  Namespaces = {ns1}
  Values = {v1, v2}
  Files = {f1, f2, f3, f4}
  Content <- Manifests
  Clusterwide = {n2}
  Unmapped = {n3}
  Options <- Orders
  Dialers = {d1, d2}
  Writes = 1
  Faulty = TRUE
  NoNamespace = NoNamespace
  NoCommand = NoCommand
  Malformed = Malformed
SYMMETRY ApplyerSymmetry
INVARIANTS
  ApplyerTypeOK
  ApplyerInv
  SuccessIsInPlace
  UncontestedStays
  PartsAreInOrder
  MalformedTouchesNothing
PROPERTIES
  UpdatesAreInformed
  DryApplyIsDry
  TouchesOnlyItsOwn
\* Every process executes once.
CHECK_DEADLOCK FALSE
