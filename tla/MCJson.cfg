CONSTANTS
    MaxNodes = 4
    MaxMallocs = 8
    MaxFails = 1
    MaxRoots = 2
    MaxCalls = 5
    Names <- MCNames
    Texts <- MCTexts
    Plain = {"Array", "Object", "True"}
    Numbers <- MCNumbers
    Inputs <- MCInputs
SPECIFICATION Spec
CHECK_DEADLOCK FALSE
INVARIANTS Linked OneOwner BlocksOwned MemorySafe RoundTrip PrintBalanced ParsedAsMeant
