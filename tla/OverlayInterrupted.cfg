\* One migration, which ends at any await.
SPECIFICATION Spec
CONSTANTS
    w1 = w1
    w2 = w2
    w3 = w3
    r1 = r1
    webgl = webgl
    other = other
    p1 = p1
    p2 = p2
    None = None
    Torn = Torn
    Calls = {w1}
    Readers = {}
    Ops = {"migrate"}
    Names = {webgl, other}
    Payloads = {p1, p2}
    Sets <- TwoSets
    FaultMayHappen = FALSE
INVARIANTS
    InterruptedRunCostsNoOverlay
CHECK_DEADLOCK FALSE
