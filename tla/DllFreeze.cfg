SPECIFICATION Spec
CONSTANTS
    None = None
    Features = {f1, f2}
    MaxSlots = 2
    Togglers = {"ui"}
INVARIANTS
    SwitchShowsFreeze
PROPERTIES
    StopsItsOwn
    StoppedStaysOut
    FreezeHolds
    TogglesEnd
