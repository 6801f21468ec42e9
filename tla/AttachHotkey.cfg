SPECIFICATION Spec
CONSTANTS
    None = None
    Games = {g1}
    Procs = {1}
    Calls = {c1}
    Tasks = {k1, k2}
    Togglers = {"hotkey"}
PROPERTY
    DetachClosesPipe
CHECK_DEADLOCK FALSE
