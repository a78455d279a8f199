SPECIFICATION ToolsSpec
CONSTANTS
  ToolUses = {c1, c2}
  MaxOwners = 3
INVARIANTS
  KeepsItsTools
CHECK_DEADLOCK FALSE
