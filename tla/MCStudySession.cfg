SPECIFICATION Spec
CONSTANTS
  c1 = c1
  c2 = c2
  Cards = {c1, c2}
  Earlier <- MCEarlier
  LowHalves = {}
  MaxAnswers = 3
  MaxDay = 2
INVARIANTS TypeOK LateAnswersFold
PROPERTIES OfflineOffersOnlyDue OnlineOffersWrong
CHECK_DEADLOCK FALSE
