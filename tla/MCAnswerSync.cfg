SPECIFICATION Spec
CONSTANTS
  Users = {ana}
  NoUser = NoUser
  Cards = {c1}
  MaxAnswers = 2
  CardOf <- MCSameCard
  PageChains = {p1}
  Workers = {sw}
  Slots = {r1, r2}
  NoSlot = NoSlot
  MaxFaults = 1
  MaxOutages = 1
SYMMETRY SlotSymmetry
INVARIANTS TypeOK AnswerNotLost
PROPERTY ImplementsDelivery
