\* Three attempts, fields in the order of the schema.
SPECIFICATION Spec
CONSTANTS
    MaxAttempts = 3
    InOrder = TRUE
INVARIANT DirectorIsHeard
