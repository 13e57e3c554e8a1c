CONSTANTS
  bea = bea
  bea0 = bea0
  uma = uma
  una = una
  adm = adm
  uma0 = uma0
  una0 = una0
  adm0 = adm0
  q1 = q1
  q2 = q2
  q3 = q3
  k1 = k1
  NoRow = NoRow
  NoJob = NoJob
  Account = {bea, uma, una, adm}
  Broker = {bea}
  ClientUser = {uma, una}
  PlatformAdmin = {adm}
  Existing = {uma, una, adm}
  Enrolled = {uma}
  First <- FirstOf
  Code = {k1}
  Request = {q1, q2, q3}
SPECIFICATION Spec
PROPERTIES PasswordChangeTakesEffect
