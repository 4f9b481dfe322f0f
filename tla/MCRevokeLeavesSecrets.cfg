SPECIFICATION UsbSpec
CONSTANTS
  Connections = {k1}
  Usb = k1
  Handshakes = {h1, h2}
  NoId = NoId
  MaxAttempts = 1
  Window = 2
  Step = 1
  Idle = 1
  Absolute = 2
  ClockMax = 3
  MaxFaults = 0
INVARIANTS
  RevokeIsComplete
