\* Do the two maps of the session table stay in step?
CONSTANTS
    Flows <- OneClient
    V4 = {"c1", "s1", "ip1", "ip2"}
    NatIfaces = {1, 2}
    IndexModulus = 2
SPECIFICATION NatSpec
INVARIANTS NatTypeOK ReturnIndexExact ReturnUnambiguous
PROPERTY ImplementsBinding
