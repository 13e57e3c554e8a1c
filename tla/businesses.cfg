CONSTANTS
  ann = ann
  ben = ben
  trust = trust
  solo = solo
  a1 = a1
  a2 = a2
  q1 = q1
  q2 = q2
  q3 = q3
  NoRow = NoRow
  NoJob = NoJob
  Broker = {ann, ben}
  Business = {trust, solo}
  EntityOf <- Entities
  Edited = {"trusteeName"}
  Earlier = {a1, a2}
  OnFile <- Affiliated
  Request = {q1, q2, q3}
SPECIFICATION Spec
SYMMETRY Calls
INVARIANTS TypeOK
PROPERTIES JoinsAreVouchedFor IncompleteOnlyByOverlap
