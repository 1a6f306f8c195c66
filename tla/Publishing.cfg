SPECIFICATION Spec
CONSTANTS
  Attempt = {a1, a2}
  NoAttempt = NoAttempt
  Inline = {"inline"}
  MaxTrouble = 3
SYMMETRY AttemptSymmetry
\* The attempts end.
CHECK_DEADLOCK FALSE
INVARIANTS
  OncePerSlip
  OneSummary
  PublishedIsShown
PROPERTY CompletedIsFinal
