SPECIFICATION Spec
CONSTANTS
    None = None
    Stamps = {s1, s2}
    Options = {o1}
    Enabled = {o1}
    PreHooked = {o1}
    PostHooked = {o1}
INVARIANT DrainWaitsForHook
PROPERTY UpgradeConcludes
