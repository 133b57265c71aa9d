\* rename between directories: the install branch writes past i_size or over a live entry.
CONSTANTS
    Names <- MCNames
    LongNames <- MCNoLongNames
    MaxIno = 4
    MaxSlot = 5
    MaxDepth = 2
    Ops <- MCCreateRename
SPECIFICATION Spec
PROPERTIES EntryNotLost
CHECK_DEADLOCK FALSE
