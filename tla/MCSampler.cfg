CONSTANTS
    Width = 3
    Idle = Idle
    Sampling = Sampling
    Panicked = Panicked
SPECIFICATION Spec
INVARIANT TypeOK
INVARIANT NoPanic
INVARIANT SampleIsUniform
