CONSTANTS
    Words <- MCWords
    MaxSegs = 5
    NumValues <- MCNumValues
    IntWidth = 32
SPECIFICATION Spec
INVARIANT
    ClassifiersExclusive
