SPECIFICATION Spec
CONSTANTS
    Cells <- MCCells
    Functions <- MCFunctions
    Numbers <- MCNumbers
    Segments <- MCSegments
    Calls <- MCCalls
    Tasks <- MCTasks
    MayRaise = TRUE
    Radius = 2
    First = 1
    Last = 4
    Near = 2
    MaxTries = 6
INVARIANTS
    TypeOK
    AnswersTrue
    Refined
    RaceIsOver
    PatternsTrue
PROPERTY Ends
