CONSTANTS
  SectionLen = 2
  BodyLen = 3
  PartSize = 5
  MaxChunks = 1
SPECIFICATION LocalSpec
INVARIANTS
  NoPromiseSetTwice
  BodyIsComplete
  StreamIsEnded
  AnsweredUnlessCutShort
PROPERTIES
  RequestEnds
CHECK_DEADLOCK FALSE
