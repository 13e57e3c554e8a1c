CONSTANTS
  kyc = kyc
  ann = ann
  rita = rita
  q1 = q1
  q2 = q2
  q3 = q3
  q4 = q4
  NoRow = NoRow
  NoJob = NoJob
  NoType = NoType
  NoYears = NoYears
  Subject = "broker_profile"
  Years = {1, 2}
  DocumentType = {"police_check", "mentoring_letter"}
  CheckType = {kyc}
  Broker = {ann}
  ClientUser = {rita}
  Request = {q1, q2, q3, q4}
SPECIFICATION Spec
SYMMETRY Calls
INVARIANTS TypeOK HistoryLeadsToCurrent EvidenceBehindResults RenewalSettles
