SPECIFICATION ChannelSpec
CONSTANTS
  Chan = {c1}
  MaxSocket = 3
  MaxAttempts = 2
CHECK_DEADLOCK FALSE
INVARIANTS
  NoLeakedSocket
  ReconnectsFromNothing
PROPERTIES
  NoticesAlternate
  LostIsRepairedOrGivenUp
