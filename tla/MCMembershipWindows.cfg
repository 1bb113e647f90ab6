CONSTANTS
    a = a  b = b
    t1 = t1  t2 = t2  NoTenant = NoTenant  Open = Open  NoJob = NoJob
    j1 = j1  j2 = j2
    Symbols = {a, b}
    Jobs = {j1, j2}
    Writers <- mcWriters
    MaxLists = 4
    MaxFaults = 1
SYMMETRY mcSymmetry
SPECIFICATION Spec
INVARIANTS HistoryFaithful EntriesWereMembers
PROPERTY TenantsApart
CHECK_DEADLOCK FALSE
