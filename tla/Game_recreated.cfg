SPECIFICATION UntimedSpec
CONSTANTS
  b1 = b1
  b2 = b2
  p1 = p1
  p2 = p2
  p3 = p3
  i1 = i1
  i2 = i2
  i3 = i3
  r1 = r1
  NoId = NoId
  NoAnswer = NoAnswer
  Boards <- TwoBoards
  Phones <- TwoPhones
  PlayerIds <- TwoIds
  Rooms <- OneRoom
  Answers <- OneAnswer
  Fetches <- OneQuestion
  NThreads = 1
  PauseOutlastsAnswers = TRUE
PROPERTIES FlagMeansAllAnswered AnsweredRoundCloses HandlersReturn StartedGameFinishes
CHECK_DEADLOCK FALSE
