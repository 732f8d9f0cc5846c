SPECIFICATION Spec
CONSTANTS
    user = user
    profile = profile
    note = note
    Models <- ThreeModels
    MaxMany = 2
INVARIANTS
    TypeOK
    DependenciesFirst
    OneOccurrenceARound
    ClosedForm
PROPERTY Ends
CHECK_DEADLOCK FALSE
