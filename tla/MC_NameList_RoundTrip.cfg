\* Every string of up to 6 characters with '/' as a second separator and
\* '\' to escape it: "a=a\/a" is the shortest name with a '/' in a value.
CONSTANTS
    Alphabet <- MCSlashAlphabet
    Separators <- MCSlashSeparators
    MaxLen = 6
    KnownTypes <- MCKnownTypes
    SizedTypes <- MCKnownTypes
    NoFilter = NoFilter
    Unknown = Unknown
SPECIFICATION Spec
INVARIANT RoundTrip
CHECK_DEADLOCK FALSE
