SPECIFICATION Spec
CONSTANTS
    Fields <- MCFields
    StaticTable <- MCStaticTable
    DefaultSize = 70
    Sizes = {0, 40, 70}
    DecoderSize = 70
    MaxList = 130
    MaxFields = 5
    MaxBlocks = 2
INVARIANTS FieldsArrive TablesInSync
CHECK_DEADLOCK FALSE
