SPECIFICATION WorkbenchSpec
CONSTANTS
    Documents <- MCDocuments
    Ranges <- MCRanges
    Boxes <- MCBoxes
    faint = faint
    bold = bold
    Marks = {faint, bold}
    MaxLevels = 2
    MaxPages = 3
    MaxRequests = 2
    MaxJobs = 3
    MaxFaults = 2
    None = None
INVARIANTS
    WorkbenchTypeOK
    StaysSound
    OneJob
    NoUrlLeaks
PROPERTIES
    ImplementsPageList
    EveryJobShown
CHECK_DEADLOCK FALSE
