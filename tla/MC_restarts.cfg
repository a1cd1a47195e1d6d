CONSTANTS
  Ids = {i1, i2}
  Workloads = {w1}
  NoWorkload = NoWorkload
  NoIncident = NoIncident
  Threads = {h1}
  Faults = {"crash", "exception", "watch_error"}
SPECIFICATION Spec
SYMMETRY Symmetry
INVARIANTS TypeOK OneOpenIncident OpenStaysActionable WrittenOnceIfApproved
PROPERTIES LateClicksDoNothing ImplementsProtocol
