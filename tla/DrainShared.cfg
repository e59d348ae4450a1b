SPECIFICATION FairSpec
CONSTANTS
  Packs = {"hot", "cold"}
  HighRisk = {"hot"}
  Reviewers = {1, 2, 3}
  Matches <- SharedMatches
  Scope <- BothReviewers
  Required = {1}
  Verifies = {1, 2}
  FirstReviews <- FirstResults
  BatchSize = 2
  MaxBatches = 2
  MaxTrouble = 1
INVARIANTS WorkIsFound
INVARIANTS VerdictIsTrue
INVARIANTS DeepReviewIsKept
PROPERTIES DrainCompletes
