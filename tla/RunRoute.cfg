CONSTANTS
  Clients = {poster, viewer, other}
  Poster = poster
  Branches = {left, right}
  Blind = {right}
  CallIds = {call1, call2}
  None = None
  MaxEvents = 2
SPECIFICATION FairSpec
INVARIANTS FeedsAreComplete
PROPERTIES StopSettles StateIsFreed
CHECK_DEADLOCK FALSE
