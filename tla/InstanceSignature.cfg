SPECIFICATION Spec
CONSTANTS
    Instances = {i1, i2}
    Devices = {0, 1}
    GroupConfigs <- MCGroupConfigs
    None = None
INVARIANT EqualSignaturesHashAlike
CHECK_DEADLOCK FALSE
