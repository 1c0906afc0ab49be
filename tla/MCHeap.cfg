SPECIFICATION Spec
CONSTANTS
    Start = 3
    Units = 10
    Sizes = {1, 2, 3}
    Aligns = {1, 2, 4}
INVARIANTS HeapSound NoFalseOom
