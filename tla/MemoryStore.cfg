CONSTANTS
  MaxRows = 3
  MaxRequests = 5
  Namespaces = {user}
  Texts = {old, new}
  Clients = {left, right}
  Runs = {first, second}
  Callers = {"tab"}
  MaxMessages = 3
  MaxChat = 7
SPECIFICATION MCSpec
INVARIANTS NothingFallsBetween CounterMatchesText
PROPERTIES ImplementsLifecycle NoEdgeLeftBehind DeletionTakesQuotes DuplicatesKeepTheBest
CHECK_DEADLOCK FALSE
