CONSTANTS
    CpuCallers = {c1, c2}
    DumpCallers = {}
    c1 = c1
    c2 = c2
    MaxFiles = 2
    Nil = Nil
SPECIFICATION Spec
INVARIANT ProfilerStateAgrees
