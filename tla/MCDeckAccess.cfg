SPECIFICATION Spec
CONSTANTS
  Users = {p, s}
  Admins = {}
  Professors = {p}
  Decks = {d1}
  Classes = {c1}
  Calls = {k1, k2}
  MaxTime = 2
SYMMETRY MCSymmetry
INVARIANTS TypeOK NoOrphans ListedIffStudyable
PROPERTIES OnlyOwnersWrite AccessGainedOnlyBy
CHECK_DEADLOCK FALSE
