SPECIFICATION CampaignSpec
CONSTANTS
  a1 = a1
  a2 = a2
  a3 = a3
  b1 = b1
  b2 = b2
  Procs = {a1, a2, a3, b1, b2}
  IdOf <- MCIdOf
  BootOf <- MCBootOf
  WorkerIds = {1, 2}
  Boots = {1, 2, 3, 4, 6, 7, 8}
  Fds = {f1, f2, f3}
  Ctl = ctl
  Controllers = {ctl}
  Same = same
  Other = other
  ReplayResults = {same, other}
  Results <- MCResults
  NoProc = NoProc
  NoFd = NoFd
  MaxAttempt = 3
  MaxLaunches = 3
  MaxThreads = 10
  MaxTries = 4
  Campaign = {"multiprocess", "coordinator_death", "storm_worker", "storm_coordinator",
              "storm_alternate", "race_duplicate", "race_epoch_roll", "race_death",
              "persistence_recovery"}
INVARIANTS
  PassIsEarned
  FailureIsExplained
  NothingSurvives
PROPERTIES
  CampaignEnds
CHECK_DEADLOCK FALSE
