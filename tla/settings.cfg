CONSTANTS
    MaxDevices = 2
    MaxValues = 3
    MaxStamp = 3
SPECIFICATION Spec
PROPERTIES
    LosesNoMerge
