SPECIFICATION Spec
CONSTANTS
  Note = {n1}
  NoNote = NoNote
  MaxHead = 2
  MaxToggles = 2
  MaxFaults = 1
  MaxOvertakes = 0
\* People stop and the queue runs empty.
CHECK_DEADLOCK FALSE
INVARIANT EveryHeadIsReviewed
