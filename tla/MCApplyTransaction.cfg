SPECIFICATION ApplySpec
CONSTANTS
    Contents = {"old", "new", "edit"}
    Missing = Missing
    Directory = Directory
    Changes <- MCChanges
    MaxEdits = 3
INVARIANTS ApplyTypeOK OutcomeTold OriginalKept
PROPERTY EditsRespected
