SPECIFICATION Spec
CONSTANTS
  s1 = s1
  f1 = f1
  f2 = f2
  t1 = t1
  t2 = t2
  p1 = p1
  p2 = p2
  Sources <- OneSource
  Flushes <- OneFlush
  Translations <- OneTranslation
  Staff <- OneStaff
  MaxAttempts = 2
  MaxTranslations = 2
  MaxFaults = 0
  Nobody = Nobody
  Nothing = Nothing
INVARIANTS PendingMeansScheduled
CHECK_DEADLOCK FALSE
