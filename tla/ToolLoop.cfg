CONSTANTS
  Runners = {"openai", "cli", "anthropic", "responses"}
  Tools = {search, delegate}
  Delegates = {delegate}
  NoTool = NoTool
  MaxToolCalls = 3
  CallsPerReply = 2
SPECIFICATION FairSpec
INVARIANTS EveryCallAnswered SuccessIsEarned
PROPERTIES ToolsRunByConsent StopEndsLoop
