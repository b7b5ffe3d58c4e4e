CONSTANTS
  Users = {ann, bob}
  Ann = ann
  Bob = bob
  NoUser = NoUser
  ChatIds = {c1, c2}
  Projects = {p1, p2}
  Root = Root
  Gone = Gone
  MaxSessions = 2
  MaxRuns = 2
  MaxCalls = 2
  MaxEdits = 2
SPECIFICATION MCSpec
INVARIANTS OneUserOnScreen 
PROPERTY ListCatchesUp
CHECK_DEADLOCK FALSE
