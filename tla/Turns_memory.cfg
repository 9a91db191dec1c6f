SPECIFICATION Spec
CONSTANTS
    d1 = d1
    d2 = d2
    Devices = {d1, d2}
    Utterances <- MCUtterances
    Earlier <- MCEarlier
    HistoryLimit = 2
    QueueLimit = 1
    MaxInputs = 2
    MaxFaults = 1
    MaxTicks = 1
INVARIANTS HistoryIsThePast MemoryMatchesTold
CHECK_DEADLOCK FALSE
