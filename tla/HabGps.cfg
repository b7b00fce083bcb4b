SPECIFICATION FairSpec
CONSTANTS
    Conf = {none, port1, port2}
    Startable = {port1, port2}
    Place = {typo, home}
    GoodPlace = {home}
    MaxMoves = 5
CHECK_DEADLOCK FALSE
INVARIANTS
    TypeOK
    StationaryKept
    FollowsSettings
    UploaderOutlivesThread
PROPERTIES
    SettingsTakeEffect
    ExitEnds
