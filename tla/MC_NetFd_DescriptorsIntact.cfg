CONSTANTS
    t1 = t1
    t2 = t2
    Threads <- MCThreads
    Fds <- MCFds
    NCand = 2
    MaxSocks = 4
SYMMETRY MCSymmetry
SPECIFICATION Spec
INVARIANT DescriptorsIntact
