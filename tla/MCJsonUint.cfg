CONSTANTS
    t8 = t8
    t64 = t64
    Types = {t8, t64}
    Uint64 = t64
    Bits <- MCBits
    Inputs <- MCInputs
SPECIFICATION Spec
INVARIANT RoundTrip
INVARIANT NoSilentTruncation
