SPECIFICATION DeliverySpec
CONSTANTS
  Turn = {t1}
  None = None
  MaxChunks = 1
  MaxTimeouts = 2
CHECK_DEADLOCK FALSE
INVARIANTS
  NoticedIsPushed
  LostOnlyUnnoticed
PROPERTIES
  ExpiredIsNoticed
