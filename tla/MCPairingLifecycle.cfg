\* Two handshakes, two connections, a clock of six ticks that saturates.
SPECIFICATION LiveSpec
CONSTANTS
  Connections = {k1, k2}
  Handshakes = {h1, h2}
  NoId = NoId
  MaxAttempts = 2
  Window = 3
  Step = 2
  Idle = 2
  Absolute = 3
  ClockMax = 6
  MaxFaults = 2
INVARIANTS
  IInv
  GuessBudget
  CeilingsHold
PROPERTIES
  AttemptsAreNotRefunded
  EverythingExpires
