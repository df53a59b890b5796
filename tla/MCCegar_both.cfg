SPECIFICATION Spec
CONSTANTS
    x = x
    y = y
    w1 = w1
    w2 = w2
    NoWorker = NoWorker
    Vars <- OneVar
    FirstVar = x
    Grid <- Coords
    Root <- Line
    Wrong <- WrongLine
    Requests <- BothBounds
    Strategies <- AnyPoint
    Modes <- InOrder
    Workers <- Threads
    MaxSplits = 2
    MaxDepth = 2
    MinWidth = 2
    MinVolume = 0
INVARIANTS
    Sound
