\* Every string of up to 5 characters over all the character classes.
CONSTANTS
    Alphabet <- MCAlphabet
    MaxLen = 5
    KnownTypes <- MCKnownTypes
    SizedTypes <- MCKnownTypes
    Separators <- MCSeparators
SPECIFICATION Spec
INVARIANT ParseMatchesReference
CHECK_DEADLOCK FALSE
