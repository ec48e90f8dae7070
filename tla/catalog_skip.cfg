SPECIFICATION Spec
CONSTANTS
    Paths <- MCPaths
    Slash = 2
    Limit = 2
INVARIANT StableEntriesIndexed
