CONSTANTS
    Tokens = {a, b}
    Events = {1, 2}
    Writers = {w1, w2}
    Readers = {r1}
    NoToken = NoToken
    Absent = Absent
    Nobody = Nobody
SPECIFICATION Spec
INVARIANT NoTornQuote
PROPERTY ImplementsAtomicStore
