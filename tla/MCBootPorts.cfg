CONSTANTS
    BoardTypes = {"CUR"}
    Counts = {1}
    UserTypes = {"temperature"}
    UserRanges <- MCRanges
SPECIFICATION Spec
INVARIANTS PortsInRange
