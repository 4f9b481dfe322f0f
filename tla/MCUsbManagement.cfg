SPECIFICATION UsbLiveSpec
CONSTANTS
  Connections = {k1}
  Usb = k1
  Handshakes = {h1, h2}
  NoId = NoId
  MaxAttempts = 2
  Window = 3
  Step = 2
  Idle = 2
  Absolute = 3
  ClockMax = 4
  MaxFaults = 1
INVARIANTS
  AccessIsLive
  LoopIsSettled
  SecretsMatchWindow
PROPERTIES
  OwnerReleases
