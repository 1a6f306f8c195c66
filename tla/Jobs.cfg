SPECIFICATION JobsSpec
CONSTANTS
  Scenes = {"auto_review", "mention", "daily_audit"}
  MaxRuns = 2  MaxObservations = 1  Feedback = {f1}
  Targets <- TwoTargets  AuditHour <- DifferentHours
  EvolutionHour = 1  Interval = 2  Days = 3  MaxMishaps = 1  MaxToggles = 1
  Cycles = {"c1", "c2"}  Assets = {"prompt", "tool"}
  Order <- PromptThenTool  MaxTexts = 2  MaxDeaths = 1
  Attempts = {"t1", "t2"}  MemoryKinds = {"direction", "short_term"}
  MaxChanged = 1  MaxLines = 2  MaxMisfortunes = 2
INVARIANTS
   InterruptionIsTold FeedbackLostOnlyByRestart 
  EvolutionsAreSpaced DueIsScheduled
  
  AuditPublishesOnce MemoryIsOfSoundAudits
PROPERTIES
  NothingFoundChangesNothing
CHECK_DEADLOCK FALSE
