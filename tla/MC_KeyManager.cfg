\* Every configuration of sources, two key pairs, two TLS credentials.
CONSTANTS
    k1 = k1
    k2 = k2
    a = a
    b = b
    Keys <- MCKeys
    Creds <- MCCreds
    Empty = Empty
    NoFile = NoFile
    Null = Null
    None = None
    BuiltWithP11 = TRUE
SPECIFICATION Spec
SYMMETRY KeySymmetry
INVARIANTS
    TypeOK
    UptaneKeyStable
