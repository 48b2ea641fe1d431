\* Two recordings, six ways to visit them, few clicks.
SPECIFICATION Spec
CONSTANTS
    None = None
    ChunkSize = 3
    Far = 5
    BucketCount = 4
    MaxPerType = 2
    MaxTotal = 3
    Recordings <- TheRecordings
    Visits <- SomeVisits
    MaxClicks = 2
INVARIANTS TypeOK DecodersAgree TabsAgree NoHiddenMarker EntitiesAreSnapshots
PROPERTIES MarkersFollowFrame SettingsShown
CHECK_DEADLOCK FALSE
