SPECIFICATION FairSpec
CONSTANTS
  Serializers <- SerializersToCheck
  Rooms = {1, 2, 20}
  MaxSlices = 2
INVARIANTS
  ReadersFindTheValues
  AnnouncedLength
PROPERTIES
  ErrorStays
  EventuallyAnswered
CHECK_DEADLOCK FALSE
