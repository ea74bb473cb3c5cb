CONSTANTS
    ByteBits = 4
    Rotate <- Quarter
    Creations <- SomeCreations
    Columns <- SomeColumns
    Dim = 4
    Vectors <- SomeVectors
    MaxRows = 2
SPECIFICATION Spec
INVARIANTS
    ReopensAsWritten
    
    DistancesAgree
