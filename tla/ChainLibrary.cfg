CONSTANTS
  Consoles = {left, right}
  Browsing = {left}
  Callers = {client, script}
  Chains = {first, second}
  NoChain = NoChain
  MaxVersion = 2
  MaxLoads = 2
SYMMETRY Symmetry
SPECIFICATION MCSpec
INVARIANTS OneActiveVersion SavesGoHome
CHECK_DEADLOCK FALSE
