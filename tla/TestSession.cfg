SPECIFICATION Spec
CONSTANTS
    Tests <- MixedTeams
    Teams <- WithFixture
    Types = {vms}
    Ids = {i, ovf}
    Ignored = {ovf}
    Values = {x, y}
    NoTeam = NoTeam
    MaxErrors = 2
SYMMETRY Symmetry
INVARIANTS
    
    
    ReportComplete
    ErrorsOwn
    ErrorsPrinted
CHECK_DEADLOCK FALSE
