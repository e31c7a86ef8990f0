SPECIFICATION Spec
CONSTANTS
    Devices = {k1}
    Suspicious = {}
    Scanning = {k1}
    Keys <- F6AndF7
    Modifiers = {}
    Hotkeys <- F7
    MaxHotkeys = 1
    MaxDevices = 1
    QueueSize = 2
    Faults = {}
INVARIANT
    NoStuckKey
