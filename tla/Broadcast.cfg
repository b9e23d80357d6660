SPECIFICATION Spec
CONSTANTS
  b1 = b1
  p1 = p1
  p2 = p2
  Boards <- MCBoards
  Phones <- MCPhones
  Settings <- EverySetting
  NoQuestion = none
INVARIANTS TypeOK PagesCurrent QuestionsMatch NobodyLeftBlank
PROPERTIES PagesGoForward
SYMMETRY Symmetry
CHECK_DEADLOCK FALSE
