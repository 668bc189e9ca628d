SPECIFICATION FairFormsSpec
CONSTANTS
  Routes = {"login", "dashboard", "servers", "serverconf", "settings", "saved"}
  MaxMoves = 3
  MaxPosts = 1
  OthersKeys = {}
INVARIANTS
  FormsTypeOK
  ShownIsOfRoute
  OwnWritesShown
PROPERTIES
  LateAnswersSpareEdits
  LoadsEnd
CHECK_DEADLOCK FALSE
