SPECIFICATION FairSpec
CONSTANTS
  p1 = p1
  p2 = p2
  Processes = {p1, p2}
  Events <- MCEvents
  Instants = {1, 2}
  MaxChunks = 3
INVARIANTS
  TypeOK
  StoredValidAndRedacted
  ConsentRespected
  ConfigIsLastChoice
  DamageIsLocal
PROPERTIES
  MilestonesStay
  OptOutTakesEffect
