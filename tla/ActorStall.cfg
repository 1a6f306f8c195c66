SPECIFICATION Spec
CONSTANTS
  push1 = push1        push2 = push2
  mention1 = mention1  mention2 = mention2
  audit = audit        d1 = d1  d2 = d2
  NoOne = NoOne
  NoDiscussion = NoDiscussion
  Event <- Pushes
  EventType <- TypeOfEvent
  Discussion <- DiscussionOf
  ReceivedAt <- SecondsOf
  BatchWindow = 15
  FromWorker = {}
  Controllable <- Pushes
  Drain = {d1, d2}
  Outcomes = {"succeeded"}
  MaxAttempts = 1
  MaxCrashes = 1
  MaxFaults = 0
  MaxStalls = 1
\* The bounded system stops once its events are settled.
CHECK_DEADLOCK FALSE
SYMMETRY DrainSymmetry
ACTION_CONSTRAINTS EffectivePolls StallOrAdmin
INVARIANTS
  QueueIsExact
  AckedWasServed
PROPERTY LedgerSpec
