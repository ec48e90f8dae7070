SPECIFICATION Spec
CONSTANTS
    Paths <- MCPaths
    Slash = 2
    Limit = 2
INVARIANTS TypeOK WalkCollectsFirst MissesExplained
PROPERTY CursorAdvances
