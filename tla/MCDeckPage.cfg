SPECIFICATION MCSpec
CONSTANTS
  Cards = {c1, c2}
  Words = {w1}
  Types = {conceito, processo}
  NoType = NoType
  NoCard = NoCard
  NoText = NoText
  ListLimit = 2
  MaxOpen = 2
  MaxMishaps = 1
  Names = {n1, n2}
  Expiries = {NoExpiry, e1}
  NoExpiry = NoExpiry
  Untouched = Untouched
  MaxOpenSettings = 2
  MaxSettingMishaps = 1
  MaxTouched = 1
INVARIANTS PageTypeOK DialogHoldsItsCard ListShowsTable
INVARIANTS WritesOnlyWhatWasMeant BadgeShowsRow
PROPERTY OnlyConfirmedDeleted
SYMMETRY MCSymmetry
CHECK_DEADLOCK FALSE
