SPECIFICATION Spec
CONSTANTS
  Challenges = {"c1", "c2"}
  Domains = {"", "domain"}
  Claims <- MCClaims
  Decimals = {"7", "8"}
  Spacing = 4
  MaxSent = 2
INVARIANTS
  TypeOK
  AcceptedAsSigned
  ShowsTheDemand
  HonestIsAccepted
  StatusAsIssued
