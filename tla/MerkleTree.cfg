SPECIFICATION Spec
CONSTANTS
  a = a
  zero = zero
  Contents <- MCContents
  Zero = zero
  MaxLinks = 6
INVARIANTS
  TypeOK
  ProofsVerify
  ProofBindsLink
  IndexLeadsToContent
  RootTellsLinks
