SPECIFICATION Spec
CONSTANTS
    EVE = EVE
    Serenity = Serenity
    old = old
    shared = shared
    Targets = {EVE, Serenity}
    Builds = {1, 2}
    Upstream <- SmallUpstream
    Rules <- Unruled
    Observers = {service}
    Pruner = prune
    DiskMayFill = FALSE
    None = None
    Torn = Torn
    Payloads = {old, shared}
    Refs <- SmallRefs
    Window = 1
    Requests <- InAnyCase
PROPERTY
    NeverPrunesAgainstNothing
CHECK_DEADLOCK FALSE
