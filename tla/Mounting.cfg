SPECIFICATION Spec
CONSTANTS
    Mounts = {1, 2}
    Platforms = {"linux", "osxfuse", "macfuse", "absent", "fuset"}
    Overlapping = {"linux", "osxfuse", "macfuse", "absent"}
    Configs <- MCConfigs
    Kernels <- MCKernels
INVARIANTS
    DeviceHasReader
    OkMeansMounted
    ConfigurationArrives
    SessionAgreed
PROPERTIES
    MountEnds
CHECK_DEADLOCK FALSE
