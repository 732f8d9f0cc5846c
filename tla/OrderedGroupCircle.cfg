SPECIFICATION Spec
CONSTANTS
    user = user
    profile = profile
    note = note
    Models <- ThreeModels
    MaxMany = 2
INVARIANT PanicMeansCircle
CHECK_DEADLOCK FALSE
