SPECIFICATION Spec
CONSTANTS
  r1 = r1
  p = p
  cl = cl
  sched = sched
  Runs = {r1}
  Tasks = {p}
  Producers = {p}
  Consumers = {}
  Clients = {cl}
  Reconcilers = {sched}
  Reapers = {sched}
  MaxConcurrent = 1
  Failures = {"throw", "crash", "shutdown"}
  MaxFaults = 1
INVARIANTS TypeOK EveryoneIsToldOnce PermitHeldWhileGoing NoOrphanWorker PermitConservation EndedRunHasNoUnfinishedTask
PROPERTIES EndIsKept
