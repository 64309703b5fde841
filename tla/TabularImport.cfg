SPECIFICATION Spec
CONSTANTS
    NaN = NaN
    Blank = Blank
    Text = Text
    Sessions <- MCSessions
    Requests <- MCRequests
    Lead <- MCLead
    Slips <- MCSlips
    MdfGrain = 4
    MaxWork = 2
    Edits <- MCEdits
    Additions <- MCAdditions
    Delimiters = {",", "tab"}
    HeaderRows = {2}
    MaxColumns = 4
    RateDefault = 4
INVARIANT
    ReadersAgree
PROPERTIES
    ReopenIsFaithful
    SharedKeepsEveryInstant
    SaveTakesWhatWasAsked
    CollapseKeepsTheCurve
    MappingKept
CHECK_DEADLOCK FALSE
