SPECIFICATION FairSpec
CONSTANTS
  b1 = b1
  Devices = {b1}  Registered = {b1}  Malformed <- MCMalformed
  Skews <- MCSkews
  Batch = 1  MaxSamples = 1  MaxAge = 2  SampleAge = 1  SampleSkew = 0
  MaxPause = 1  MaxReadings = 2  MaxLate = 1
  MaxTime = 2  MaxCrashes = 1  Hour = 2  StaleAfter = 1
INVARIANTS BatchesFit MinutesCloseOnce NothingLostSilently
PROPERTIES RowsAreFinal HistoryStands OutboxDrains
