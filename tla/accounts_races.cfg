SPECIFICATION AccountsSpec
CONSTANTS
    Device = {d1, d2}
    Session = {s1, s2, s3}
    Req = {r1, r2, r3}
    Token = {t1}
    AuthKey = {k1, k2}
    Recovery = Recovery
    Null = Null
SYMMETRY Symmetry
INVARIANTS TypeOK OneUsableToken SessionsInv SignupOnce LateLoginsBounded
PROPERTIES RotateOnce RevocationSilences
