SPECIFICATION FairSpec
CONSTANTS
  r1 = r1
  p = p
  cl = cl
  sched = sched
  Runs = {r1}
  Tasks = {p}
  Producers = {}
  Consumers = {}
  Clients = {cl}
  Reconcilers = {sched}
  Reapers = {sched}
  MaxConcurrent = 1
  Failures = {"throw"}
  MaxFaults = 1
PROPERTIES EveryRunEnds PermitComesBack
