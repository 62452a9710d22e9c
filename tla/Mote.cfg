SPECIFICATION Spec
CONSTANTS
    Packets = {p1, p2, p3}
    Sizes = {60, 124}
    FifoSize = 128
    Modulus = 1024
    IpaqSize = 2
    QueueSize = 255
    CcaModes = {TRUE, FALSE}
    Infos = {0, 1, 2, 3, 4, 5, 6, 7, 8, 9}
    None = None
SYMMETRY Symmetry
CHECK_DEADLOCK FALSE
INVARIANTS TypeOK SendDoneHasPacket NeverStuck OneTransmission FifoBytes
