SPECIFICATION Spec
CONSTANTS
  Note = {n1, n2}
  NoNote = NoNote
  MaxHead = 3
  MaxToggles = 2
  MaxFaults = 1
  MaxOvertakes = 1
SYMMETRY NoteSymmetry
ACTION_CONSTRAINT FaultOrOvertake
\* People stop and the queue runs empty.
CHECK_DEADLOCK FALSE
INVARIANTS
  MarkersAreHonest
  ReviewedUnlessMasked
