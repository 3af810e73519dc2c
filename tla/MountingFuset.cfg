SPECIFICATION Spec
CONSTANTS
    Mounts = {1, 2}
    Platforms = {"fuset"}
    Overlapping = {"fuset"}
    Configs <- OneConfig
    Kernels <- MCKernels
INVARIANTS
    ServesOwnDirectory
CHECK_DEADLOCK FALSE
