CONSTANTS
  Ids = {i1}
  Workloads = {w1}
  NoWorkload = NoWorkload
  NoIncident = NoIncident
  Threads = {h1, h2}
  Faults = {"concurrent_clicks"}
SPECIFICATION LiveSpec

INVARIANTS ApprovedByHuman OutcomesAreBacked RacesAreBounded DecisionsAreClosed
PROPERTIES DecisionsAreCarriedOut
