SPECIFICATION FairSpec
CONSTANTS
  Users = {ana}
  NoUser = NoUser
  Cards = {c1, c2}
  MaxAnswers = 2
  CardOf <- MCOwnCard
  PageChains = {p1}
  Workers = {sw}
  Slots = {r1}
  NoSlot = NoSlot
  MaxFaults = 0
  MaxOutages = 1
PROPERTY FlushCompletes
