SPECIFICATION MCSpec
CONSTANTS
    MaxLength = 4
    TLength = 3
    PreBuf = 2
    MinReq = 2
    PopSizes = {2}
    MaxSilence = 1
    Uses <- MCUses
    Block = 3
    Scenes <- MCScenes
PROPERTIES
    FlowControlCorrect
    RenderingCorrect
CHECK_DEADLOCK FALSE
