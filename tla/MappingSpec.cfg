CONSTANTS
    MaxChunks = 5
SPECIFICATION Spec
INVARIANTS DocumentedForms AcceptedIsWritten
