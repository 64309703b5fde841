SPECIFICATION Spec
CONSTANTS
    speed = speed  speed2 = speed2  fft = fft  none = none  noname = noname
    plain = plain  volt = volt
    Names = {speed, speed2, fft}
    Order <- MCOrder
    Kinds <- MCKinds
    CopyOf <- MCCopyOf
    Unit <- MCUnit
    NoUnit = none
    NoName = noname
    Labels = {plain, volt}
    Y1 = plain
    Stores <- MCStores
    MaxAxes = 2
    MaxOps = 5
INVARIANT ScreenAgrees
PROPERTIES DocumentKept FileAxesHonoured UndoRestoresDocument
CHECK_DEADLOCK FALSE
