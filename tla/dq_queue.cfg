SPECIFICATION FairSpec
CONSTANTS
  Calls <- InfoWinnerStats
  Setting = "on"
  MaxItems = 3
  MaxOutages = 2
  MaxErrors = 1
  MaxCrashes = 1
INVARIANTS TypeOK NoDuplicates NothingLost 
PROPERTIES Drains
CHECK_DEADLOCK FALSE
