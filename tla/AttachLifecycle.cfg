SPECIFICATION MCSpec
CONSTANTS
    None = None
    Games = {g1}
    Procs = {1, 2}
    Calls = {c1, c2}
    Tasks = {k1, k2, k3}
    Togglers = {"ui", "hotkey"}
    MaxPressed = 2
INVARIANTS
    PausedWhileBusy
PROPERTIES
    ExitNoticed
    ClicksClosePipe
CHECK_DEADLOCK FALSE
