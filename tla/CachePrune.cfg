SPECIFICATION Spec
CONSTANTS
    EVE = EVE
    Serenity = Serenity
    old = old
    shared = shared
    Targets = {EVE, Serenity}
    Builds = {1, 2}
    Upstream <- SmallUpstream
    Rules <- OneRuled
    Observers = {service}
    Pruner = prune
    DiskMayFill = TRUE
    None = None
    Torn = Torn
    Payloads = {old, shared}
    Refs <- SmallRefs
    Window = 1
    Requests <- AsWritten
INVARIANTS
    OnlyObservedIsRecorded
PROPERTIES
    NothingForgotten
    KeepsProtected
CHECK_DEADLOCK FALSE
