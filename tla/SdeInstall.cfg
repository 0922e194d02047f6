\* Two processes, and one when they are over, of either kind, on two builds that are found in any state.
SPECIFICATION Spec
CONSTANTS
    service = service
    command = command
    other = other
    None = None
    Empty = Empty
    Filling = Filling
    Invalid = Invalid
    Mixed = Mixed
    Calls = {service, command, other}
    Late = {other}
    Kinds = {"open", "prepare"}
    Builds = {1, 2}
    FoundFiles = {"none", "invalid", "whole", "misplaced"}
    DiskMayFail = TRUE
INVARIANTS
    PlaceIsNeverPartial
    ServedIsNeverAhead
    QuietStoreIsWhole
PROPERTIES
    NextCallIsServed
CHECK_DEADLOCK FALSE
