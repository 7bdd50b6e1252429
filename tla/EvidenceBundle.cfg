SPECIFICATION Spec
CONSTANTS
  i = i
  x = x
  b1 = b1
  h1 = h1
  entry = entry
  nan = nan
  d1 = d1
  Bundles = {b1}
  Characters = {i, x}
  Identities <- MCIdentities
  Levels = {"standard", "anchored"}
  ChainHashes = {h1}
  StateRoots = {h1, d1}
  SectionOrder <- MCSectionOrder
  FloatSections = {"driftAnalysis"}
  Entries = {entry}
  NotANumber = nan
  Digests = {d1}
INVARIANTS
  TypeOK
  DriftVisible
  VerdictOfSealedChain
  CandidateStays
PROPERTIES
  FailedFinalizeKeepsSeal
  AnchorNeverRegresses
