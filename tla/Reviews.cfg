SPECIFICATION ReviewsSpec
CONSTANTS
  Starters = {"web", "worker"}  Web = "web"
  Projects = {"p1", "p2"}  Models = {"m1", "m2"}
  MaxFailures = 1  MaxEdits = 2
  Callers = {"prime", "c1", "c2"}  Prime = "prime"
  Users = {"u1", "u2"}  MaxChanges = 3
  Specialists = {"s1", "s2"}  Main = "main"
  MaxTurns = 2  MaxStructured = 2  MaxOutages = 2
  Threads = {"t1", "t2"}  MaxAsks = 2  MaxConfigs = 2
  Sandboxes = {"m", "a", "b"}  Audits = {"a", "b"}  Name <- OneNameForTwo
  Runs = {1}  Nobody = "nobody"  MaxMishaps = 2  MaxCloses = 1
  MaxKeys = 3  Located = {1, 2}  Limit = 1  MaxHeads = 3  MaxCuts = 2
  Tries = {"t1", "t2"}  MaxRounds = 2  MaxCommits = 2  MaxResets = 1  MaxAccidents = 2
INVARIANTS
  SavedConfigIsKept SessionsSurvive HistoryIsCarriedOver
  
   
   
  ChangesOnce SilenceHasAReason
PROPERTIES
  StartersComeUp DeafOnlyByOverlap NameIsLearned  CallsEnd
CHECK_DEADLOCK FALSE
