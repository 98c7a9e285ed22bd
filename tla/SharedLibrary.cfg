SPECIFICATION FairSpec
CONSTANTS
    t1 = t1
    t2 = t2
    t3 = t3
    liba = liba
    libb = libb
    None = None
    Threads = {t1, t2, t3}
    Libs = {liba, libb}
INVARIANTS
    TypeOK
    MutualExclusion
    CodeSeesOwnDirectory
    DirectoryReset
    ErrorReported
PROPERTIES
    SessionEnds
