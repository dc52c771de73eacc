SPECIFICATION TagSpec
CONSTANTS
  Nothing = Nothing
  t1 = t1  t2 = t2  i1 = i1  i2 = i2
  Tags = {t1, t2}
  ItemOf <- MCItemOf
  Codes = {A, B}
  Drawn = {}
  MaxSamples = 2
  MayStop = FALSE
INVARIANT CountedInOneRule
CHECK_DEADLOCK FALSE
