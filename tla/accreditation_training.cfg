CONSTANTS
  a1 = a1
  a2 = a2
  home = home
  car = car
  firm = firm
  rita = rita
  sam = sam
  q1 = q1
  q2 = q2
  q3 = q3
  NoRow = NoRow
  NoJob = NoJob
  NoPlatformId = NoPlatformId
  Broker = Broker
  Lender = Lender
  Id = {a1, a2}
  Scope = {home, car}
  Business = {firm}
  ScopeOf <- TwoScopes
  BusinessOf <- SameBusiness
  History <- BothApproved
  User = {sam}
  Senior = {sam}
  Request = {q1, q2}
SPECIFICATION FairSpec
PROPERTIES LapsesOnlyOverdue EveryCallFinishes
