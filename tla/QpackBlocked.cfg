SPECIFICATION Spec
CONSTANTS
    Fields <- MCFields
    StaticNames <- MCStaticNames
    StaticFields <- MCStaticFields
    Capacity = 70
    MaxSection = 110
    MaxFields = 2
    MaxSections = 3
INVARIANTS EarlySectionRefused
CHECK_DEADLOCK FALSE
