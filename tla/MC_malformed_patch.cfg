CONSTANTS
  Answers <- MalformedAnswers
  NoProposal = NoProposal
SPECIFICATION LiveSpec
CHECK_DEADLOCK FALSE
PROPERTIES EveryIncidentHasAnOutcome
