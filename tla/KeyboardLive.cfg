SPECIFICATION FairSpec
CONSTANTS
    Devices = {k1, k2}
    Suspicious = {k2}
    Scanning = {}
    Keys <- OnlyF12
    Modifiers = {}
    Hotkeys <- F12
    MaxHotkeys = 0
    MaxDevices = 1
    QueueSize = 1
    Faults = {"unplug", "overflow", "steal"}
PROPERTIES
    QuietKeyboardIsGrabbed
    StolenIsReported
