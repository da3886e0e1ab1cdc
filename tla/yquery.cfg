\* A generator of 9 bits, queries that name all four rows of the table.
CONSTANTS
    Width = 9
    Multiplier = 109
    Increment = 11
    WordBits = 6
    UpperBits = 5
    LowerBits = 5
    Contexts <- AllPatterns
    keys_per_transaction = 4
    keys_per_table = 4
    Percent = 4
    Cuts <- HalfZipf
SPECIFICATION QuerySpec
INVARIANT QueryIsWorkload
PROPERTY QueryEnds
CHECK_DEADLOCK FALSE
