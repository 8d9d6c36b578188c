SPECIFICATION RunnerSpec
CONSTANTS
  Runner = {r1, r2}
  Token = {k1, k2, k3}
  NoToken = NoToken
  TTL = 6
  Gap = 2
  Startup = 1
  Drain = 12
  MaxMisses = 1
  MaxCrashes = 1
  MaxBroken = 1
  Slots = 3
  MaxChunks = 1
  MaxRtFaults = 2
INVARIANTS
  OneConsumer
  RunnerConsistent
PROPERTIES
  LockTakenOver
  RoundKeepsPromise
  RoundSettles
CHECK_DEADLOCK FALSE
