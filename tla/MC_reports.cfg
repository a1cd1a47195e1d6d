CONSTANTS
  Ids = {i1, i2}
  Workloads = {w1}
  NoWorkload = NoWorkload
  NoIncident = NoIncident
  Threads = {h1}
  Faults = {}
SPECIFICATION LiveSpec

INVARIANTS NoIncidentGoesUnseen
PROPERTIES RemindersStop FailuresAreReported RemindersGoOut
