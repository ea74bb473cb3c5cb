CONSTANTS
    DataSize = 2
    Rows = {1, 2, 3}
    Scans = {s1, s2}
    SlotsPerBuffer = 2
    MaxLoads = 2
SPECIFICATION Spec
INVARIANTS
    StoreGivesBack
    PinsStayValid
SYMMETRY Alike
