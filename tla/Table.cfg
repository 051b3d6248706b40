SPECIFICATION Spec
CONSTANTS
    a = a
    b = b
    c = c
    d = d
    v = v
    Names <- FourNames
    Values <- TwoValues
    Null = Null
    Self = Self
    NoRequest = NoRequest
    Absent = Absent
    Hash <- Colliding
    MinCapacity = 3
    MaxCapacity = 9
INVARIANTS
    ProbeEnds
PROPERTIES
    ImplementsMap
