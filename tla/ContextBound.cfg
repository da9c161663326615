SPECIFICATION Spec
CONSTANTS
  MaxCharacters = 10000
  KeepRecent = 8
  Sizes = {700, 5000, 9500}
  MaxMessages = 3
INVARIANT CompactedFits
CHECK_DEADLOCK FALSE
