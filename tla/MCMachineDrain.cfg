SPECIFICATION Spec
CONSTANTS
    None = None
    Stamps = {s1, s2}
    Options = {o1, o2}
    Enabled = {o1, o2}
    PreHooked = {}
    PostHooked = {}
INVARIANTS TypeOK DrainedUntilApplied UnCordonHasOptions
