\* Two calls of any kind on two names, one of them there, while a service opens the target.
SPECIFICATION Spec
CONSTANTS
    w1 = w1
    w2 = w2
    w3 = w3
    r1 = r1
    webgl = webgl
    other = other
    p1 = p1
    p2 = p2
    None = None
    Torn = Torn
    Calls = {w1, w2}
    Readers = {r1}
    Ops = {"import", "revise", "replace", "migrate"}
    Names = {webgl, other}
    Payloads = {p1, p2}
    Sets <- TwoSets
    FaultMayHappen = TRUE
SYMMETRY Interchangeable
INVARIANTS
    NamedIsConsistent
    NeverWithoutCopy
    QuietStoreOpens
    OpenedIsStored
CHECK_DEADLOCK FALSE
