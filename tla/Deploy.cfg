SPECIFICATION FairSpec
CONSTANTS
  Flags = {"cert-manager", "kyverno", "monitoring", "kafka-connect"}
  Upgrade = {"monitoring"}
  Parallelism = 2
  Failures = {"error", "unready", "unreadable", "signal", "kill"}
  MaxFaults = 2
  Earlier = {{}, {"kyverno", "postgres", "kafka", "kafka-connect"}}
CHECK_DEADLOCK FALSE
INVARIANTS SuccessIsComplete PendingNeedsASignal WebhookClosedOutsideBypass
PROPERTIES RerunsConverge
