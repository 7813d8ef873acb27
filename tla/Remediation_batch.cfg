SPECIFICATION FairSpec
CONSTANTS
  h1 = h1
  alice = alice
  bob = bob
  k1 = k1
  Handler = {h1}
  Reclaimer = Reclaimer
  Operator = {alice, bob}
  Key = {k1}
  NoOne = NoOne
  PlanKey = PlanKey
  BatchSize = 1000
PROPERTY StuckPlansEnd
