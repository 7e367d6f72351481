SPECIFICATION Spec
CONSTANTS
    Byte = {a, b}
    Garbage = Garbage
    InitSize = 3
    Sizes = {3, 6}
    MaxLen = 3
    Width = 65536
SYMMETRY Bytes
INVARIANTS TypeOK
PROPERTIES QueueUntilSpoilt BlamedRightly
CHECK_DEADLOCK FALSE
