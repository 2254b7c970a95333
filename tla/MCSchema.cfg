SPECIFICATION HalfSpec
CONSTANTS
    NoRef = NoRef
    Specific = {"Select", "Insert"}
    Families <- MCFamilies
    MaxMigrations = 2
    MaxTorn = 1
    None = None
    Rejected = Rejected
    Unread = Unread
    Unsafe <- MCUnsafe
    SqlNames <- MCSqlNames
    QualifiedNames <- MCQualifiedNames
    SqlTypeOf <- MCSqlTypeOf
    Sources <- MCSources
CHECK_DEADLOCK FALSE
INVARIANTS CleanUnlessAwkward DirectoryReplays DbFollowsDirectory ReadersSound
