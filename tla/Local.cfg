SPECIFICATION Spec
CONSTANTS
    Procs = {"p1", "p2", "p3"}
    Scenes <- MCScenes
    Contexts = {"lab"}
    Accepts <- MCAccepts
    Cosign = {"p1", "p2"}
    Signed = {"d1"}
    Attested = {"d1"}
    Digests = {"d1", "d2"}
    MaxFaults = 1
CHECK_DEADLOCK FALSE
INVARIANTS PortsAreItsOwn MarkedChartIsSigned
PROPERTIES ConfigIsTheUsers DeployedKeyWorks
