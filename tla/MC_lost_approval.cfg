CONSTANTS
  Ids = {i1}
  Workloads = {w1}
  NoWorkload = NoWorkload
  NoIncident = NoIncident
  Threads = {h1}
  Faults = {"crash"}
SPECIFICATION LiveSpec

PROPERTIES ApprovalsAreSettled
