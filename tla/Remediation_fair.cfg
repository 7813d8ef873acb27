SPECIFICATION FairSpec
CONSTANTS
  h1 = h1
  h2 = h2
  alice = alice
  bob = bob
  k1 = k1
  k2 = k2
  Handler = {h1, h2}
  Reclaimer = Reclaimer
  Operator = {alice, bob}
  Key = {k1, k2}
  NoOne = NoOne
  PlanKey = PlanKey
  BatchSize = 50
PROPERTY StuckPlansEnd
PROPERTY ResultIsFinal
INVARIANT TypeOK
INVARIANT ToldIsKept
INVARIANT CallsAreClaimed
INVARIANT EffectsAreApproved
INVARIANT ResultsAreTrue
