SPECIFICATION PlanSpec
CONSTANTS
    Operators = {1, 2, 3}
    V1 = 2
    Window <- MCWindow
    Floor = 20
    Selections = {TRUE}
    OperatorReads = {"ok", "notfound", "forbidden", "error"}
    KafkaReads = {"ok", "error"}
CHECK_DEADLOCK FALSE
 
PROPERTIES NoKafkaIsLost KafkaKeptUnlessAsked NothingGoesBack
