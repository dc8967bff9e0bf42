SPECIFICATION FairSpec
CONSTANTS
    Contents <- Files
    Boot <- Running
    SchedIds = {1, 2}
    Absent = Absent
    NoHash = NoHash
    MaxEdits = 1
    MaxAsks = 1
INVARIANTS
    TypeOK
    OnlyHupTouchesLate
    OrderlyExit
    ReadyMeansUp
    LineIsCurrent
    GaugesAgree
PROPERTIES
    FlagSettles
    ShutdownEnds
