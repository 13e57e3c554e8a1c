CONSTANTS
  bank = bank
  rita = rita
  ava = ava
  sue = sue
  s1 = s1
  s2 = s2
  p1 = p1
  Nobody = Nobody
  Run = {s1, s2, p1}
  ScriptOf <- TwoSeeds
  Organisation = {bank}
  Reviewer = {rita}
  DemoEmail = {ava}
  AmpEmail = {}
  Target <- Targets
  Roster <- Rosters
  Stranger = {sue}
  AppRow <- Meanwhile
SPECIFICATION Spec
INVARIANTS TypeOK NeverHalfPurged DoneMeansSeeded
PROPERTY PurgeIsExact
