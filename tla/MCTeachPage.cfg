SPECIFICATION Spec
CONSTANTS
  Decks = {d1, d2}
  Mine = {d1}
  Files = {f1}
  NoDeck = NoDeck
  NoFile = NoFile
  MaxOpen = 2
  MaxMishaps = 1
INVARIANTS TypeOK ListIsServers ImportWillBeAsPreviewed SavesIntoOwnDecks
CHECK_DEADLOCK FALSE
