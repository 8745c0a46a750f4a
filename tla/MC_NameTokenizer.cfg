\* Every string of up to 7 characters over all six character classes: long
\* enough for "a=a+a=a" and "a=a,a=a".  The call returns, so a finished
\* state has no successor.
CONSTANTS
    Alphabet <- MCAlphabet
    MaxLen = 7
    KnownTypes <- MCKnownTypes
    SizedTypes <- MCKnownTypes
    Separators <- MCSeparators
SPECIFICATION Spec
INVARIANT TypeOK
INVARIANT AcceptsWellFormed
INVARIANT ScanFitsBuffers
PROPERTY Terminates
CHECK_DEADLOCK FALSE
