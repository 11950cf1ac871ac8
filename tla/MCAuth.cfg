SPECIFICATION Spec
CONSTANTS
    Lifetimes = {1, 3, 5, 10}
    IntMod = 8
    Skew = 1
    MaxLogins = 2
    MaxTime = 5
INVARIANTS
    TypeOK
    TokensOfOneLogin
    ValidWhileUnexpired
