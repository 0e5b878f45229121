CONSTANTS
    Inis <- SomeInis
    Word = 16777216  Heap = 120
SPECIFICATION Spec
CHECK_DEADLOCK FALSE
INVARIANTS SeparatorsFitTheirRoom
