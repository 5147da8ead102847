\* Lists of up to six elements, all integers of five bits, sets.
CONSTANTS
    Absent = Absent
    MaxInt = 15
    MaxLong = 127
    Elements <- TwoNumbers
    MaxLength = 6
SPECIFICATION VSpec
INVARIANTS LremRemovesFromItsEnd IncrbyUndoesDecrby SortAsDocumented
