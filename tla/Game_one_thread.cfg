SPECIFICATION Spec
CONSTANTS
  b1 = b1
  b2 = b2
  p1 = p1
  p2 = p2
  p3 = p3
  i1 = i1
  i2 = i2
  i3 = i3
  r1 = r1
  NoId = NoId
  NoAnswer = NoAnswer
  Boards <- OneBoard
  Phones <- ThreePhones
  PlayerIds <- ThreeIds
  Rooms <- OneRoom
  Answers <- TwoAnswers
  Fetches <- TwoQuestions
  NThreads = 1
  PauseOutlastsAnswers = TRUE
INVARIANTS TypeOK  ScoreMatchesAnswers MainPlayerPresent
PROPERTIES ImplementsQuiz
SYMMETRY ThreeSymmetry
CHECK_DEADLOCK FALSE
