SPECIFICATION Spec
CONSTANTS
    Device = {d1}
    Session = {s1, s2, s3}
    Req = {r1}
    Null = Null
PROPERTY ReuseRevokesChain
