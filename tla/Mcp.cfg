SPECIFICATION Spec
CONSTANTS
    Clusters = {A, B}
    Allowed = {A, B}
    None = None
    c1 = c1
    c2 = c2
    c3 = c3
    Calls = {c1, c2, c3}
    InPlay <- MCInPlay
    MaxInFlight = 2
    Burst = 1
    MaxSwitches = 1
    MaxRefills = 1
    MaxFaults = 1
CHECK_DEADLOCK FALSE
INVARIANTS AdmissionIsExact AnswersAreOfThePin
PROPERTIES EveryCallIsAnswered
