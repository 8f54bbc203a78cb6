SPECIFICATION FairSpec
CONSTANTS
  Newest = 2
  Version <- Versions
  Published <- Lists
  MaxBoxes = 2
INVARIANTS
  OneUpdateAtATime
  OnlyVerifiedRuns
  RefusedIsNotFetched
PROPERTIES
  UpdateAnswered
  OnlyForward
