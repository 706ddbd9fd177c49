CONSTANTS
  c1 = c1
  c2 = c2
  p1 = p1
  p2 = p2
  gEveryone = gEveryone
  gRoot = gRoot
  gUser = gUser
  noEntry = noEntry
  noName = noName
  Clients <- MCClients
  Names <- MCNames
  Passphrases <- MCPassphrases
  Groups <- MCGroups
  Everyone <- gEveryone
  Root <- gRoot
  KeyVals <- MCKeyVals
  NoEntry <- noEntry
  NoName <- noName
  Requests <- MCRequests
  MaxRetries = 2

SPECIFICATION Spec

PROPERTIES CallsReturn
