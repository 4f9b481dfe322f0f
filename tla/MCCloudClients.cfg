\* Speech: twice as many chunks as slots, so the pool runs dry and fills again.
\* Recognition: a WAV of one full chunk and one that needs a second, whose
\* header ends inside the first quad.  Answers: two events of up to four units,
\* so that a chunk may hold two of them, or a carry buffer less than one.
CONSTANTS
  SlotCount = 2
  MaxChunks = 4
  HeaderBytes = 2
  WavSizes = {6, 8}
  RawChunk = 6
  BodyLimit = 3
  TimeLimit = 3
  SocketTimeout = 2
  EpochWrap = 5
  MaxRequests = 2
  MaxCancels = 1
  MaxEvents = 2
  MaxFill = 2
  RequestUnits = 2
  ChunkMax = 4
  CarryMax = 7
  BodyMax = 3
  TextMax = 3
SPECIFICATION FairSpec
CHECK_DEADLOCK FALSE
INVARIANTS EverySlotHasOneOwner SpeechIsFaithful NothingOutlivesTheSpeech
  AsrIsFaithful DiagnosticsAreCurrent RequestsStopInTime AnswerIsFaithful
PROPERTIES SpeechEnds
