SPECIFICATION Spec
CONSTANTS
  p1 = p1
  p2 = p2
  Processes = {p1, p2}
  Events <- SecretEvents
  Instants = {1}
  MaxChunks = 2
INVARIANTS
  SensitiveNeverStored
