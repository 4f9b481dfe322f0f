\* Two updates and a factory reset, from fresh and wrapping identifiers; two
\* pairing windows and two local resets, from fresh and wrapping sequences.
\* UiDepth is the least that holds a SHOW and the CLEAR that takes it back.  Three
\* connections and two handshakes over the link, where counter 3 is the last one.
CONSTANTS
  IdWrap = 4
  NetDepth = 2
  ReadAttempts = 2
  MaxSubmits = 2
  MaxReads = 2
  MaxResets = 1
  SequenceWrap = 16
  UiDepth = 2
  MaxWindows = 2
  MaxLocalResets = 2
  MaxPosts = 2
  MaxFaults = 1
  MaxConnections = 3
  MaxHandshakes = 2
  MaxRequests = 7
  LastCounter = 3
SPECIFICATION FairSpec
CHECK_DEADLOCK FALSE
INVARIANTS CodeIsWhereBelieved AnsweredOnce ChannelsAgree NoNonceReuse
PROPERTIES StatusIsTrue ReservationEnds GivenUpCodeLeaves LatestStateIsShown
