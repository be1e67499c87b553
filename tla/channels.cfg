SPECIFICATION FairRelaySpec
CONSTANTS
    s1 = s1
    p1 = p1
    b1 = b1
    b2 = b2
    Sessions = {s1}
    Serials = {p1}
    MaxRetained = 1
    ChannelOrder <- VideoAndControl
    Browsers = {b1, b2}
PROPERTIES
    StopsEnd
    DeadServerNoticed
    LostDeviceNoticed
    DepartedReleased
CHECK_DEADLOCK FALSE
