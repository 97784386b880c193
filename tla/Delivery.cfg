SPECIFICATION FairSpec
CONSTANTS
  bad = bad
  ending = ending
  hook = hook
  Events = {bad, ending}
  Endings = {ending}
  Poison = {bad}
  Hooks = {hook}
  Window = 1
  MaxAttempts = 2
  MaxTries = 2
  Retention = 1
  MaxTime = 2
  MaxBacklog = 1
  Failures = {"restart", "throw"}
  MaxFaults = 1
INVARIANTS TypeOK FiredOnce NothingDropped
PROPERTIES EndingIsTold
