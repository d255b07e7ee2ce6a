CONSTANTS
    Ops = {e1, c1, c2}
    Sessions = {{e1, c1}, {c1, c2}}
    Early = {e1}
    NoOp = NoOp
    MaxLines = 1
    LineBound = 3
    UserEvents = {"enter", "cancel", "exit"}
    Readers = {TRUE, FALSE}
SPECIFICATION FairSpec
INVARIANTS TypeOK ReplyOrder FramesAlive BacklogBounded NoLostPost
PROPERTY RepliesServed
CHECK_DEADLOCK FALSE
