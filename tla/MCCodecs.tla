------------------------------ MODULE MCCodecs ------------------------------
\* Sequential code: a ByteArray, or an address (they share no state).
EXTENDS ByteArray, Address

CodecsInit == Init /\ (addr = NoAddress \/ AddressInit)

CodecsNext ==
    \/ addr = NoAddress /\ Next /\ UNCHANGED addr
    \/ addr # NoAddress /\ AddressNext /\ UNCHANGED vars

CodecsSpec == CodecsInit /\ [][CodecsNext]_<<vars, addr>>
=============================================================================
