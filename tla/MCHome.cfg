SPECIFICATION MCSpec
CONSTANTS
  Decks = {d1, d2}
  Queries = {q1}
  NoQuery = NoQuery
  Matches <- MCMatches
  MaxAsked = 2
  MaxCauses = 1
  MaxMoved = 1
  Users = {ana, bia}
  NoUser = NoUser
  Endpoints = {e1, e2}
  NoEndpoint = NoEndpoint
  MaxChanges = 1
  Subs = {s1, s2}
  Limit = 1
  HoursADay = 3
  TargetHour = 1
  MaxClock = 11
  MaxSending = 3
  NoTick = NoTick
INVARIANTS HomeShowsServer InOnePlace
INVARIANTS ModesAreChosen MarkMeansRow
INVARIANTS RemindedOnceADay FiresEverySteadyDay
PROPERTIES HidesOnlyGeneral SubscribesOnlyStudents
CHECK_DEADLOCK FALSE
