\* evutil_open_closeonexec_ on a kernel that rejects O_CLOEXEC with EINVAL.
CONSTANTS
    d1 = d1
    d2 = d2
    d3 = d3
    Fds <- MCFds
    KernelFlags <- MCOldKernel
SPECIFICATION Spec

PROPERTY
    OpenFallsThroughOnEinval
