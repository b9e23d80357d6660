SPECIFICATION Spec
CONSTANTS
  SiteSends <- MCSiteSends
  Answers <- MCAnswers
  PlayerIds <- MCPlayerIds
  AnswerTexts <- MCAnswerTexts
  NoArray = NoArray
  NoText = NoText
  NoAnswer = NoAnswer
  MaxJoins = 1
  MaxForms = 2
INVARIANTS AllOrNothing OneAnswerPerQuestion RightTextPays ScoreUpToDate
CHECK_DEADLOCK FALSE
