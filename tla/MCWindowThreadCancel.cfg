CONSTANTS
    Ops = {c1}
    Sessions = {{c1}}
    Early = {}
    NoOp = NoOp
    MaxLines = 1
    LineBound = 3
    UserEvents = {"enter", "cancel"}
    Readers = {TRUE}
SPECIFICATION FairSpec
PROPERTY CancelStops
