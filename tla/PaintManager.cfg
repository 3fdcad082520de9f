SPECIFICATION Spec
CONSTANTS
    d1 = d1
    d2 = d2
    k1 = k1
    None = None
    Dialogs = {d1, d2}
    Kids = {k1}
    Home <- HomeDef
    First = d1
    Bound = {k1}
    MaxCalls = 2
    NestedLoops = TRUE
INVARIANTS NothingDangles CleanedOnce WorkIsPosted CaptureHasOwner FocusIsFocused
