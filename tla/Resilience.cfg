\* Callers and threads share one client, one bulkhead and one limiter.
CONSTANTS
  Callers = {c1, c2}
  Threshold = 2
  Recovery = 2
  MaxAttempts = 2
  MaxConcurrent = 2
  Capacity = 3
  Cost = 2
  Refill = 1
  Threads = {t1, t2}
  Limited = {t1}
SPECIFICATION FairSpec
INVARIANTS OpenIffStreak SlotsKept RateKept
PROPERTIES Recovers
