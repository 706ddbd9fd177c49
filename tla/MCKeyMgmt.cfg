CONSTANTS
  p1 = p1
  p2 = p2
  gEveryone = gEveryone
  gRoot = gRoot
  gUser = gUser
  noEntry = noEntry
  noName = noName
  Names <- MCNames
  Passphrases <- MCPassphrases
  Groups <- MCGroups
  Everyone <- gEveryone
  Root <- gRoot
  KeyVals <- MCKeyVals
  NoEntry <- noEntry
  NoName <- noName
SYMMETRY MCSymmetry
SPECIFICATION Spec
INVARIANTS NoLockout EveryoneOnEveryEntry KeyConsistency
PROPERTIES KeyStability ChangeKeyKeepsGroups
