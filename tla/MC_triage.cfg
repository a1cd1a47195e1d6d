CONSTANTS
  Answers <- AllAnswers
  NoProposal = NoProposal
SPECIFICATION LiveSpec
CHECK_DEADLOCK FALSE
INVARIANTS TriageTypeOK ProposedPatchesAreAllowed NoInventedProbes EscalationIsLast
PROPERTIES ImplementsWorker RejectionsAreReported
