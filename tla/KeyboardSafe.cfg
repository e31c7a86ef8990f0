SPECIFICATION Spec
CONSTANTS
    Devices = {k1, k2}
    Suspicious = {}
    Scanning = {k1, k2}
    Keys <- AltAndF9
    Modifiers <- OnlyAlt
    Hotkeys <- AltF9
    MaxHotkeys = 1
    MaxDevices = 2
    QueueSize = 2
    Faults = {"refuse"}
SYMMETRY DeviceSymmetry
INVARIANTS
    NoStuckKey
    ModifiersAreHeld
