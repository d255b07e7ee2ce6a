CONSTANTS
    Workers = {w1, w2}
    Callers = {c1}
    Tasks = {t1, t2, t3}
    NoTask = NoTask
SPECIFICATION FairSpec
INVARIANTS TypeOK FifoNoLoss IdleMeansDone NoLostWakeup LateAtMostOne
PROPERTIES JoinedIsQuiet TaskCompletes ImplementsQueue
