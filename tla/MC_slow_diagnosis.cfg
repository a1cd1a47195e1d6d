CONSTANTS
  Ids = {i1, i2}
  Workloads = {w1}
  NoWorkload = NoWorkload
  NoIncident = NoIncident
  Threads = {h1}
  Faults = {"slow_diagnosis"}
SPECIFICATION Spec

INVARIANTS OneOpenIncident
