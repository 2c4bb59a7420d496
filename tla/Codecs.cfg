CONSTANTS
    Host = "little"
    Base = 2
    MaxCapacity = 6
    Data = {3}
    MaxWrite = 2
    GroupBits = 2
    WordBits = 3
    LongBits = 5
    ByteBits = 2
    V4Bytes = 2
    V6Bytes = 6
    PathSize = 3
    Ports = {1, 6}
    ByteValues = {0, 1, 3}
    HostLength = 6
SPECIFICATION CodecsSpec
INVARIANTS BufferInv CodingsExact AddressExact
PROPERTY CrashesOnlyAtEdge
CHECK_DEADLOCK FALSE
