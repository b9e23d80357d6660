SPECIFICATION Spec
CONSTANTS
  b1 = b1
  p1 = p1
  p2 = p2
  Boards <- MCBoards
  Phones <- MCPhones
  Settings <- OneThread
  NoQuestion = none
INVARIANTS RegistryThreadSafe
CHECK_DEADLOCK FALSE
