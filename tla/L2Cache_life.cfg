\* Two keys that depend on nothing or on both of them, a confidence above 1.0, expiry after a
\* tick, crashes.
SPECIFICATION Spec
CONSTANTS
  a = a
  b = b
  c = c
  Keys <- MCKeys2
  DepSets <- MCNoneOrAll
  WriteConfs = {12}
  One = 10
  TTL = 0
  MaxClock = 1
  Retained <- MCRetained
  CutPower <- MCCutPower
  CrashIn = {"up", "stopping", "stopped", "exiting"}
  Dumpable = {TRUE, FALSE}
  Absent = Absent
  Missing = Missing
  Torn = Torn
INVARIANTS TypeOK IndexExact DiskCurrent InvalidatedStaysAMiss
PROPERTIES CascadeMarksDependents
SYMMETRY Swap
