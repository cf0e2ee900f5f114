CONSTANTS
    Exports <- MCExports
    ServerImports <- MCServerImports
    ClientImports <- MCClientImports
    Faults = TRUE
SPECIFICATION Spec
INVARIANTS
    TypeOK
    ModeAsRequired
    ServedAsDeclared
    StubsServed
CHECK_DEADLOCK FALSE
