CONSTANTS
    Workers = {w1}
    Callers = {c1}
    Tasks = {t1}
    NoTask = NoTask
SPECIFICATION FairSpec
PROPERTY StopReturns
