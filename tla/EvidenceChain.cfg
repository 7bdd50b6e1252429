SPECIFICATION Spec
CONSTANTS
  b1 = b1
  b2 = b2
  v1 = v1
  raw = raw
  x = x
  opaque = opaque
  braces = braces
  Builders <- MCBuilders
  Verifiers = {v1}
  LinkTypes = {raw}
  RecordTypes = {raw}
  Contents = {x}
  Opaque = {opaque}
  EmptyObject = braces
  MaxLinks <- MCMaxLinks
  MaxChains = 2
INVARIANTS
  TypeOK
  BuiltChainsVerify
  NoFalseAlarm
  ChainsNest
  RearrangedCopyRejected
PROPERTIES
  BuiltChainsFrozen
  LogSpec
