CONSTANTS
  MaxTurns = 2
  MaxTokens = 3
  MaxCalls = 2
  RunKinds = {"provider", "chain"}
SPECIFICATION Spec
INVARIANTS OneRowPerTurn TextBeforeItsTools ClosedTurnStored
PROPERTIES ImplementsTranscript
