\* The answer of a device intent is written without the commit lock.
\* Two orders (presses, resets or a lost configuration), from boot and from an idle device
\* whose counters are about to wrap.  Wrap exceeds the interactions of a
\* behaviour, as 2^32 exceeds those a request can outlive.
CONSTANTS
  Wrap = 7
  AppDepth = 3
  ChatDepth = 2
  AudioDepth = 2
  AsrDepth = 2
  MaxOrders = 2
SPECIFICATION Spec
CHECK_DEADLOCK FALSE
PROPERTIES StaleResultsDropped
