\* A call between two of three runs, each of which may end at any time.
SPECIFICATION FairSpec
CONSTANTS
  MaxRuns = 3
  Capacity = 2
  MaxCandidates = 1
INVARIANTS
  TypeOK
  UnlockedSendsApart
  CandidatesAfterDescription
  AnswerIsForMe
PROPERTIES
  OfferAnswered
  SessionCompletes
CHECK_DEADLOCK FALSE
