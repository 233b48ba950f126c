SPECIFICATION Spec
CONSTANTS
    Programs <- MCPrograms
INVARIANTS
    LabelsDefined
    SameBehaviour
    ErrorsReported
PROPERTIES
    KeepsUp
CHECK_DEADLOCK FALSE
