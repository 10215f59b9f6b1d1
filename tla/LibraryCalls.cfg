SPECIFICATION Spec
CONSTANTS
    Library <- AllCalls
    MaxPolls = 1
INVARIANTS
    TypeOK
    TrueMeansSeen
    FailsForAReason
    NegativeMeansRefused
