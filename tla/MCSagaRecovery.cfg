CONSTANTS
  r1 = r1 r2 = r2 i1 = i1 i2 = i2 w1 = w1 w2 = w2
  Runs = {r1, r2}
  CorrelationIds = {i1, i2}
  IdOf <- OneEach
  Sweepers = {w1, w2}
  StaleAfter = 1
  KeepFor = 0
  Settings <- MCSettings
  MaxNow = 3
  MaxCrashes = 1
  None = None
SPECIFICATION RecoveryFairSpec
INVARIANT RecoveredOnce
INVARIANT LostOnlyIfRecovered
PROPERTY EngineHasTheLastWord
 
