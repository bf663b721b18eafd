CONSTANTS
    None = None
    Keys = {key, alias}
    Canonical = key
    Readers = {r1, r2}
    Types = {"monthly"}
    Day = 2
    Month = 3
    Span = 2
    MaxTime = 3
    MaxUse = 1
    MaxReads = 2
SPECIFICATION Spec
INVARIANTS TypeOK   
PROPERTIES  DueIsRolledOver
