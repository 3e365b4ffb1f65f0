SPECIFICATION FairSpec
CONSTANTS
  Apps = {a1}
  Diagnosers = {d1}
  Stoppers = {s1}
  Monitor = Monitor
  NoRow = NoRow
  Threshold = 2
  CountCap = 2
  MaxFaults = 1
  MaxChurn = 1
PROPERTIES DeadNotForwarded AliveForwarded RowCatchesUp MonitorKeepsTicking
