SPECIFICATION Spec
CONSTANTS
    Contents <- Files
    Boot <- Running
    SchedIds = {1, 2}
    Absent = Absent
    NoHash = NoHash
    MaxEdits = 1
    MaxAsks = 1
INVARIANT
    NoCallbackAfterStop
