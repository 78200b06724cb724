SPECIFICATION RowSpec
CONSTANTS
  LowHalves <- MCLowHalves
  MaxInterval = 42700
  MaxStreak = 12
INVARIANTS RowTypeOK BootstrapFromOneDay WorseAnswerIsSooner BrowserMirrorsServer
PROPERTY PassNeverShortens
CHECK_DEADLOCK FALSE
