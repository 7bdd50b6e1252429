SPECIFICATION Spec
CONSTANTS
  p1 = p1
  o1 = o1
  o2 = o2
  d1 = d1
  Plans = {p1}
  Outcomes = {o1, o2}
  Decisions = {d1}
  Profiles = {"profile"}
  Anchorings <- MCAnchorings
  Instants = {4, 5, 8}
  Spacing = 4
INVARIANTS
  TypeOK
  CarefulExportAccepted
  TornExportRefused
  AcceptedAsBuilt
