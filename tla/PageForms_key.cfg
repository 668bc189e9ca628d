SPECIFICATION FormsSpec
CONSTANTS
  Routes = {"login", "settings", "saved"}
  MaxMoves = 2
  MaxPosts = 1
  OthersKeys = {}
PROPERTY OrdinarySavesKeepTheKey
CHECK_DEADLOCK FALSE
