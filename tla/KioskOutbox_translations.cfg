SPECIFICATION FairSpec
CONSTANTS
  s1 = s1
  f1 = f1
  f2 = f2
  t1 = t1
  t2 = t2
  p1 = p1
  p2 = p2
  Sources <- OneSource
  Flushes <- OneFlush
  Translations <- TwoTranslations
  Staff <- OneStaff
  MaxAttempts = 2
  MaxTranslations = 2
  MaxFaults = 1
  Nobody = Nobody
  Nothing = Nothing
INVARIANTS JobsMatchDeliveries
PROPERTIES ApprovedOnceBeforeClosing TranslationsEnd OutboxDrains
CHECK_DEADLOCK FALSE
