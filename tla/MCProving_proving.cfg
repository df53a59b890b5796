SPECIFICATION Spec
CONSTANTS
    Coords <- MCCoords
    Claims <- MCClaims
    Numbers <- MCNumbers
    Contracts <- MCContracts
    MaxCandidates = 4
    MayRaise = TRUE
INVARIANTS
    TypeOK
    ProvedTrue
    RefutedFalse
    AnswersTheClaim
PROPERTY Ends
