CONSTANTS
    Conn = {k1}
    EntryFirst = TRUE
    MaxExports = 2
    MaxHostSets = 2

SPECIFICATION Spec



CHECK_DEADLOCK FALSE
INVARIANT ApiKeepsExport
