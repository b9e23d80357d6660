SPECIFICATION Spec
CONSTANTS
  b1 = b1
  b2 = b2
  p1 = p1
  p2 = p2
  p3 = p3
  i1 = i1
  i2 = i2
  i3 = i3
  r1 = r1
  NoId = NoId
  NoAnswer = NoAnswer
  Boards <- OneBoard
  Phones <- TwoPhones
  PlayerIds <- TwoIds
  Rooms <- OneRoom
  Answers <- OneAnswer
  Fetches <- TwoPlainQuestions
  NThreads = 2
  PauseOutlastsAnswers = FALSE
INVARIANTS AnswersInOrder QuestionInBounds 
SYMMETRY Symmetry
CHECK_DEADLOCK FALSE
