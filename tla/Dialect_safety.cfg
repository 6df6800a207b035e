SPECIFICATION DialectSpec
CONSTANTS
    Calls = {c1, c2}
    Objects = {o1, o2, o3}
    Setups <- MCSetups
    None = None
SYMMETRY Symmetry
INVARIANTS NeverExhausted LearnedFromItsBackend SuccessIsRemembered
