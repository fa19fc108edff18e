CONSTANTS
  Texts <- MCTexts
  Reading <- MCReading
  Throws = {1, 2}
  Keys <- MCKeys
  Values <- MCValues
  NotUTF8 = {"not UTF-8"}
  LLMin <- MCLLMin
  LLMax = 1
SPECIFICATION JsonSpec
INVARIANTS
  EventsInOrder
  WholeTextIsAccepted
  RoundTrip
CHECK_DEADLOCK FALSE
