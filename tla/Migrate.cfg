SPECIFICATION Spec
CONSTANTS
  Labs = {"a", "b"}
  Topics = {"orders", "payments"}
  TopicOf <- MCTopicOf
  Taken = {"orders"}
  Standing = {"a", "b"}
  Found = {"a"}
  Commands <- MCCommands
  MaxCommands = 3
  MaxFaults = 1
CHECK_DEADLOCK FALSE
INVARIANTS OthersAreSpared NothingIsLeftBehind StoppedMeansStopped
