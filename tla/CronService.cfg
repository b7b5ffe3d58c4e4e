CONSTANTS
  Jobs = {mail}
  None = None
  MaxLoads = 4
  MaxRuns = 2
  MaxCrashes = 1
SPECIFICATION FairSpec
INVARIANTS EditTakesEffect MarksFollowRuns OneTimeFiresOnce
PROPERTIES DueJobIsClaimed
