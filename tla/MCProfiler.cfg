CONSTANTS
    CpuCallers = {c1}
    DumpCallers = {d1}
    c1 = c1
    d1 = d1
    MaxFiles = 2
    Nil = Nil
SPECIFICATION Spec
INVARIANT ProfilerStateAgrees
