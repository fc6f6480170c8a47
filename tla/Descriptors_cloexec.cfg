CONSTANTS
    d1 = d1
    d2 = d2
    d3 = d3
    Fds <- MCFds
    KernelFlags <- MCModernKernel
SPECIFICATION Spec

INVARIANTS
    NoCloexecInherited
