\* Every string of up to 7 characters without escapes: two attributes,
\* split by ',' or joined by '+', with spaces around them.  The call
\* returns, so a finished state has no successor.
CONSTANTS
    Alphabet <- MCPlainAlphabet
    Separators <- MCPlainSeparators
    MaxLen = 7
    KnownTypes <- MCKnownTypes
    SizedTypes <- MCKnownTypes
    NoFilter = NoFilter
    Unknown = Unknown
SPECIFICATION Spec
INVARIANT RoundTripWellFormed
CHECK_DEADLOCK FALSE
