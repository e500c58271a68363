SPECIFICATION Spec
CONSTANTS
    BaudOrder <- MCBaudOrder
    Operations <- MCOperations
    PartsCount = 2
    Attempts = 2
    PresetsCount = 2
    AttrCounts = {1, 2}
    MaxOps = 3
    MaxFaults = 1
INVARIANT TypeMatchesLink
PROPERTIES OkMeansConnected FirmwareWhole LossIsSignalled OperationsEnd
