CONSTANTS
  Chats = {here, there}
  NoChat = NoChat
  MaxStreams = 2
  MaxEvents = 1
  MaxLoads = 2
SYMMETRY Symmetry
SPECIFICATION Spec
INVARIANTS ViewIsOfItsChat LoadingHasEnd
CHECK_DEADLOCK FALSE
