SPECIFICATION IdentitySpec
CONSTANTS
    r1 = r1  r2 = r2  u1 = u1  s1 = s1  s2 = s2  s3 = s3  a1 = a1  a2 = a2
    Requests = {r1, r2}
    Users = {u1}
    NoUser = NoUser
    Sessions = {s1, s2, s3}
    Addresses = {a1, a2}
INVARIANTS
    IdentityInv
    OneLivePerSignIn
    SignedOutIsOver
    OneDefault
SYMMETRY MCSymmetry
