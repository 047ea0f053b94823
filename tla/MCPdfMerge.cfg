SPECIFICATION Spec
CONSTANTS
    Documents <- MCDocuments
    Ranges <- MCRanges
    Boxes <- MCBoxes
    faint = faint
    bold = bold
    Marks = {faint, bold}
    MaxLevels = 2
    MaxPages = 3
    MaxRequests = 1
    None = None
PROPERTY MergeKeepsPages
CHECK_DEADLOCK FALSE
