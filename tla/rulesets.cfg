CONSTANTS
  referrer = referrer
  equipment = equipment
  v1 = v1
  v2 = v2
  v3 = v3
  w1 = w1
  q1 = q1
  q2 = q2
  q3 = q3
  NoRow = NoRow
  NoJob = NoJob
  NoKey = NoKey
  NoVersion = NoVersion
  NoYears = NoYears
  Malformed = Malformed
  Key = {referrer, equipment}
  Condition <- Conditions
  Group <- Groups
  Draftable <- Drafts
  DocumentType = {"certificate_iv", "police_check", "degree_certificate", "resume"}
  Years = {0, 2}
  Earlier = {v1, v2, v3, w1}
  OnFile <- Versions
  Request = {q1, q2, q3}
SPECIFICATION Spec
SYMMETRY Calls
INVARIANTS TypeOK SuccessorsLeadToCurrent MissingExperienceAsksLeast
PROPERTIES RequestsGetAVersion RegisterSpec
