SPECIFICATION Spec
CONSTANTS
    speed = speed  force = force  none = none  plain = plain  volt = volt
    Channels = {speed, force}
    Unit <- MCUnit
    NoUnit = none
    Labels = {plain, volt}
    DefaultLabel = plain
    MaxAxes = 3
    MaxMeasurements = 2
    DragHeights = {3}
    MaxTime = 1
    WindowLen = 1
    MaxOps = 4
    Layouts <- MCLayouts
INVARIANTS NothingOnARemovedAxis MeasurementTableSound
PROPERTIES FollowsTheRecording LayoutHonoured HandRangeKept
CHECK_DEADLOCK FALSE
