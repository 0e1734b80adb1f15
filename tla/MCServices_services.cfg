SPECIFICATION MCSpec
CONSTANTS
  alice = alice
  bob = bob
  x = x
  y = y
  d1 = d1
  d2 = d2
  oauth2 = oauth2
  pat = pat
  read = read
  i1 = i1
  i2 = i2
  i3 = i3
  c1 = c1
  c2 = c2
  Callers <- MCCallers
  Settings <- MCSettings
  Directories <- MCDirectories
  Home = d1
  Original = Original
  Garbage = Garbage
  Nowhere = Nowhere
  Nothing = Nothing
  Unsafe = Unsafe
  MaxTroubles = 1
  Methods <- MCMethods
  Capabilities <- MCCapabilities
  Accounts <- MCAccounts
  AnyAccount = AnyAccount
  Items <- MCItems
  Tokens <- MCTokens
  First = First
  BadToken = BadToken
  PageSize = 2
  MaxPages = 2
  MaxItems = 2
SYMMETRY MCSymmetry
INVARIANTS LoadedWasCurrent WinnerKnows ActionIsAuthorized CompleteOrNothing
CHECK_DEADLOCK FALSE
