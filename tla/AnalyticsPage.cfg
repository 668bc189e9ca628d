SPECIFICATION FairSpec
CONSTANTS
  Texts = {"", "login"}
  Slices = {"all", "tidy", "untidy"}
  MaxPages = 2
  Slow = 1
  MaxMoves = 3
  MaxPosts = 1
INVARIANTS
  ShownIsOfFilters
  ConfirmedIsShown
PROPERTIES
  LoadsEnd
  SearchSettles
CHECK_DEADLOCK FALSE
