CONSTANTS
    MaxAddress = 1073741823
    Row <- MCRow
    Static <- MCStatic
    Presets <- MCPresets
    NoSource = NoSource
    None = None
    Answers <- MCAnswers
    Touched <- MCTouched
    WildRanges <- MCWildRanges
    PresetAddresses <- MCPresetAddresses
    MaxTouches = 2
    MaxWrites = 1
    MaxConnections = 2
SPECIFICATION Spec
INVARIANTS RegisteredIsMapped ReadableIsAddressable UnreadableHasNoValue ForgetsOverwritten
CHECK_DEADLOCK FALSE
