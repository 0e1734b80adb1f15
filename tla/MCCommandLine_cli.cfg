SPECIFICATION Spec
CONSTANTS
  Nil = Nil
  UnsafeTexts <- MCUnsafeTexts
  IntegerOf <- MCIntegerOf
  LongTexts <- MCLongTexts
  Catalogs <- MCCatalogs
  Invocations <- MCInvocations
  MaxExecutableSize = 3
INVARIANTS PublishedIsDeclared ReplayIsSafe OwnWordsOnly AdvertisedIsAccepted
CHECK_DEADLOCK FALSE
