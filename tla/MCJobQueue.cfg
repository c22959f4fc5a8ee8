SPECIFICATION MCSpec
CONSTANTS
  w1 = w1  w2 = w2  j1 = j1  j2 = j2
  Jobs = {j1, j2}
  Workers = {w1, w2}
  NoWorker = NoWorker
  NoJob = NoJob
  MaxAttempts <- MCMaxAttempts
  Accepts <- MCAccepts
  LeaseMs = 3
  HeartbeatMs = 1
  TimeoutMs = 2
  RetryBaseMs = 1
  RetryMaxMs = 2
  Prompt = {w1}
  MaxLag = 1
  MaxClock = 22
  MaxCrashes = 2
  Reliable = {w1}
  GraceMs = 1
INVARIANTS TableChecks LeaseNamesTheAttempt OneMissedBeatIsHarmless SettledInTime
PROPERTIES FencedSettlement NoEarlyTakeover ImplementsLedger
CHECK_DEADLOCK FALSE
