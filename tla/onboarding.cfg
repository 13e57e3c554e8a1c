CONSTANTS
  broker = broker
  rita = rita
  m1 = m1
  q1 = q1
  q2 = q2
  q3 = q3
  NoRow = NoRow
  NoJob = NoJob
  ClientUser = {rita}
  Patch <- Patches
  Earlier = {m1}
  Request = {q1, q2, q3}
SPECIFICATION Spec
SYMMETRY Calls
INVARIANTS TypeOK MailFollowsNotification VerificationIsOnRecord
PROPERTIES IncompleteOnlyByOverlap
