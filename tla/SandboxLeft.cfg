SPECIFICATION Spec
CONSTANTS
  Note = {}
  NoNote = NoNote
  MaxHead = 2
  MaxToggles = 3
  MaxFaults = 1
  MaxOvertakes = 0
\* People stop and the queue runs empty.
CHECK_DEADLOCK FALSE
INVARIANT SandboxIsRemoved
