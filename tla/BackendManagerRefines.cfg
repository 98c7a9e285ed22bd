SPECIFICATION FairSpec
CONSTANTS
    t1 = t1
    t2 = t2
    t3 = t3
    m1 = m1
    m2 = m2
    b1 = b1
    b2 = b2
    b3 = b3
    onnx = onnx
    torch = torch
    liba = liba
    libb = libb
    None = None
    Threads = {t1, t2}
    Managers = {m1, m2}
    Backends = {b1, b2}
    Names = {onnx, torch}
    Libs = {liba, libb}
    Requests <- TwoNames
    InitLibs = {liba, libb}
    FiniLibs = {liba}
    ModelInitLibs = {liba}
PROPERTIES
    ImplementsFairRegistry
    CreateTerminates
    DrainTerminates
