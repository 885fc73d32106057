\* Boards with no channel and with two.  A voltage board, the environment board, an
\* analogue one and one of a type the terminal does not know: what the code does with
\* CUR and PSE differs from VOL and ASE in the array, or not at all.
CONSTANTS
    BoardTypes = {"VOL", "env", "ASE", "DIO"}
    Counts = {0, 2}
    UserTypes = {"tvoc"}
    UserRanges <- MCRanges
SPECIFICATION Spec
INVARIANTS TypeOK NeverUnattached GeneratedPointsDistinct EnvironmentUnconfigured PickedTypeKept ConversionProper
