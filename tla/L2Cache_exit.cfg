SPECIFICATION Spec
CONSTANTS
  a = a
  b = b
  c = c
  Keys <- MCKeys2
  DepSets <- MCNoneOrAll
  WriteConfs = {10}
  One = 10
  TTL = 1
  MaxClock = 0
  Retained <- MCRetained
  CutPower <- MCCutPower
  CrashIn = {}
  Dumpable = {TRUE}
  Absent = Absent
  Missing = Missing
  Torn = Torn
PROPERTIES CleanExitKeepsData
