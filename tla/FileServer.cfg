CONSTANTS
    ChunkSize = 2
    Sizes = {0, 2, 3, 4, 5}
    Tags = {1, 2}
    MaxEdits = 1
SPECIFICATION Spec
INVARIANTS CleanResponse CleanNotModified
