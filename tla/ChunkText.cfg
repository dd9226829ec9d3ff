\* The numbers of the code, and texts around every length where a chunk is added.
CONSTANTS
    Lengths <- EdgeLengths
    Size = 1200
    Overlap = 180
    MinLength = 80
SPECIFICATION Spec
INVARIANTS WindowsOverlap EveryCharacterIsStored
