SPECIFICATION Spec
CONSTANTS
  Attempt = {a1, a2}
  NoAttempt = NoAttempt
  Inline = {"inline"}
  MaxTrouble = 1
SYMMETRY AttemptSymmetry
\* The attempts end.
CHECK_DEADLOCK FALSE
INVARIANT NoDuplicateOutput
