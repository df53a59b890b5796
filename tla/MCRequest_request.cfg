SPECIFICATION Spec
CONSTANTS
    P = 5
    Vars <- XY
    X = "x"
    Consts <- ZeroOneTwo
    Operators <- AllOperators
    Powers <- ZeroOneTwo
    MaxSteps = 5
    Domains <- AllDomains
INVARIANTS
    TypeOK
    SameValue
    Scaled
