------------------------------- MODULE Endian -------------------------------
\* Byte orders (endian.h).  An integer is its bytes, most significant first.
EXTENDS Sequences, SequencesExt

CONSTANT Host           \* SYLAR_BYTE_ORDER

ASSUME HostAssumption == Host \in {"little", "big"}

\* How the machine holds an integer (and back).
InMemory(v) == IF Host = "little" THEN Reverse(v) ELSE v

byteswap(v) == Reverse(v)
byteswapOnLittleEndian(v) == IF Host = "little" THEN byteswap(v) ELSE v
=============================================================================
