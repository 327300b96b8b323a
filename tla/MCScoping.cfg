SPECIFICATION ParseSpec
CHECK_DEADLOCK FALSE
CONSTANTS
    Programs <- MCPrograms
    Powers <- MCPowers
INVARIANTS
    TypeOK
    ReadsAsWritten
    BoundariesHold
    ByBindingPower
    InnermostScope
    ElseJoinsBlock
PROPERTY
    StagesEnd
