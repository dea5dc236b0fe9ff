CONSTANTS
    c1 = c1
    c2 = c2
    Commands <- MCCommands
    Fields <- MCFields
    Type = "type"
    Checked <- MCChecked
    Values = {v, w}
    Bad = Bad
    Absent = Absent
    Keep = Keep
    NoDocument = NoDocument
    MaxEdits = 1
SPECIFICATION Spec
SYMMETRY Symmetric
CHECK_DEADLOCK FALSE
INVARIANTS
    TypeOK
    WritesOnlyWhenAgreed
    OkMeansWrittenOrDemoted
PROPERTIES
    OnlyNamedFieldsChange
    PutIsOneRemoteCall
