CONSTANTS
    Conn = {k1, k2}
    EntryFirst = TRUE
    MaxExports = 2
    MaxHostSets = 1

SPECIFICATION Spec

INVARIANT TypeOK
INVARIANT ClientsAgree

PROPERTY HostUpToDate
PROPERTY ExportConfirmed

CHECK_DEADLOCK FALSE
