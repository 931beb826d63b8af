SPECIFICATION Spec
CONSTANTS
  LineLengths <- Lengths
  MaxInput = 2
  MaxPieces = 1
  MaxJobEvents = 1
INVARIANTS
  TypeOK
  LinesIntact
  ShownUnlessLost
PROPERTIES
  EveryLineRead
  ListenerEnds
CHECK_DEADLOCK FALSE
