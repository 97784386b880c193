SPECIFICATION Spec
CONSTANTS
  r1 = r1
  p = p
  cl = cl
  reconciler = reconciler
  Runs = {r1}
  Tasks = {p}
  Producers = {p}
  Consumers = {}
  Clients = {cl}
  Reconcilers = {reconciler}
  Reapers = {}
  MaxConcurrent = 1
  Failures = {}
  MaxFaults = 0
INVARIANTS DoneRunWasNotCutShort
