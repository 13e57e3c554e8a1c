CONSTANTS
  ann = ann
  ben = ben
  lender = lender
  aggregator = aggregator
  r1 = r1
  r2 = r2
  NoRow = NoRow
  NoJob = NoJob
  q1 = q1
  q2 = q2
  q3 = q3
  q4 = q4
  cat = cat
  Broker = {ann, ben, cat}
  Org = {lender, aggregator}
  Type = {"lender_panel", "aggregator_membership"}
  Registered = {ann, ben}
  Id = {r1, r2}
  Request = {q1, q2, q3}
  BrokerOf <- SameBroker
  OrgOf <- SameOrg
  TypeOf <- SamePanel
SPECIFICATION Spec
SYMMETRY Calls
PROPERTY RevocationEndsVisibility
