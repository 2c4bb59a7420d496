------------------------------ MODULE Address ------------------------------
(***************************************************************************)
(* The arithmetic and the conversions of address.cpp: masks, broadcast and *)
(* network addresses, the text of an IPv6 address, how Lookup takes a host *)
(* apart, the lengths of a UnixAddress, and the order of addresses.        *)
(*                                                                         *)
(* A byte has ByteBits bits, an IPv4 address V4Bytes and an IPv6 address   *)
(* V6Bytes bytes (8, 4 and 16 in the code).  An IPv6 address is kept with  *)
(* the byte that follows it in sockaddr_in6, the first of sin6_scope_id.   *)
(***************************************************************************)
EXTENDS Integers, Endian

CONSTANTS ByteBits, V4Bytes, V6Bytes, PathSize,
          Ports, ByteValues,    \* ports, and the bytes of an IPv6 address, that are tried
          HostLength            \* the longest host that Lookup is given

ASSUME AddressAssumption ==
    /\ {ByteBits, V4Bytes, V6Bytes, PathSize} \subseteq Nat \ {0} /\ V6Bytes % 2 = 0
    /\ V4Bytes <= V6Bytes /\ HostLength \in Nat
    /\ Ports \subseteq Nat /\ ByteValues \subseteq 0 .. 2^ByteBits - 1

VARIABLE addr       \* an address, or the host that Lookup is given

Ones(bits) == 2^bits - 1
V4Bits == V4Bytes * ByteBits
V6Bits == V6Bytes * ByteBits
NoAddress == [kind |-> "none"]

\* & and | with a mask 2^k - 1, and the complement of one.
And(x, mask) == x % (mask + 1)
Or(x, mask) == x - And(x, mask) + mask
Complement(mask, bits) == Ones(bits) - mask

-----------------------------------------------------------------------------
(* IPv4                                                                      *)

\* CreateMask<T>(p): what is left of the prefix.  1 << 32 is undefined for an int: the
\* mask is then empty (the shift is taken modulo 32) or full.  So is a shift by less than
\* zero, for a prefix that is too long: it may come out as any shift.
CreateMask(bits, p) ==
    IF p > bits THEN {Ones(k) : k \in 0 .. bits}
    ELSE IF p = 0 /\ bits = V4Bits THEN {0, Ones(bits)} ELSE {2^(bits - p) - 1}

Broadcast4(x, p) == {Or(x, mask) : mask \in CreateMask(V4Bits, p)}

\* networkAddress masks with what is left of the prefix.
Network4(x, p) == {And(x, mask) : mask \in CreateMask(V4Bits, p)}

Subnet4(p) == {Complement(mask, V4Bits) : mask \in CreateMask(V4Bits, p)}

\* A port in memory, network order.
PortInMemory(v) == InMemory(byteswapOnLittleEndian(v))

\* value &= value - 1 clears the lowest bit that is set.
LowestBit(v) == CHOOSE b \in {2^k : k \in 0 .. V6Bits} : v % b = 0 /\ v % (2 * b) # 0
ClearLowest(v) == IF v = 0 THEN 0 ELSE v - LowestBit(v)

\* The number of bits in a netmask: rounds until none is left.
CountBytes(v) ==
    LET value[k \in 0 .. V6Bits] == IF k = 0 THEN v ELSE ClearLowest(value[k - 1])
    IN CHOOSE k \in 0 .. V6Bits : value[k] = 0 /\ \A j \in 0 .. k - 1 : value[j] # 0

-----------------------------------------------------------------------------
(* IPv6; x[V6Bytes + 1] is not part of the address                           *)

ByteMask(p) == Ones(ByteBits - (p % ByteBits))
ByteOf(p) == p \div ByteBits + 1

Broadcast6(x, p) ==
    [i \in DOMAIN x |-> IF i = ByteOf(p) THEN Or(x[i], ByteMask(p))
                        ELSE IF i > ByteOf(p) /\ i <= V6Bytes THEN Ones(ByteBits) ELSE x[i]]

\* Only for prefixes that an IPv4 address could have.
Network6(x, p) ==
    [i \in DOMAIN x |-> IF i = ByteOf(p) THEN And(x[i], ByteMask(p))
                        ELSE IF i > ByteOf(p) /\ i <= V6Bytes THEN 0 ELSE x[i]]

Subnet6(p) ==
    [i \in 1 .. V6Bytes + 1 |-> IF i = ByteOf(p) THEN Complement(ByteMask(p), ByteBits)
                                ELSE IF i < ByteOf(p) THEN Ones(ByteBits) ELSE 0]

\* The prefix length of a netmask, byte by byte.
PrefixLength6(mask) ==
    LET sum[i \in 0 .. V6Bytes] == IF i = 0 THEN 0 ELSE sum[i - 1] + CountBytes(mask[i])
    IN sum[V6Bytes]

Groups(x) == [k \in 1 .. V6Bytes \div 2 |-> x[2 * k - 1] * 2^ByteBits + x[2 * k]]

\* IPv6Address::print, as tokens: used_zeros becomes true at the first group that follows a
\* zero which was left out.
UsedZeros(g, i) == \E j \in 2 .. i - 1 : g[j - 1] = 0 /\ g[j] # 0

TextOfGroup(g, i) ==
    IF g[i] = 0 /\ ~UsedZeros(g, i) THEN <<>>
    ELSE (IF i > 1 /\ g[i - 1] = 0 /\ ~UsedZeros(g, i) THEN <<":">> ELSE <<>>)
         \o (IF i > 1 THEN <<":">> ELSE <<>>) \o <<ToString(g[i])>>

TextOf(g) ==
    FlattenSeq([i \in DOMAIN g |-> TextOfGroup(g, i)])
    \o IF g[Len(g)] = 0 /\ ~UsedZeros(g, Len(g) + 1) THEN <<":", ":">> ELSE <<>>

-----------------------------------------------------------------------------
(* Lookup, UnixAddress, operator<                                            *)

FirstIndex(s, c, from) ==
    LET at == {i \in from .. Len(s) : s[i] = c} IN
    IF at = {} THEN 0 ELSE CHOOSE i \in at : \A j \in at : i <= j

None == <<"none">>

\* Mutant: the service is looked for behind the first colon, brackets or not.
LookupFirstColon(host) ==
    LET c == FirstIndex(host, ":", 1) IN
    [node |-> IF c = 0 THEN host ELSE SubSeq(host, 1, c - 1),
     service |-> IF c = 0 THEN None ELSE SubSeq(host, c + 1, Len(host))]

\* The node and the service that getaddrinfo is called with.
Lookup(host) ==
    LET close == IF host # <<>> /\ host[1] = "[" THEN FirstIndex(host, "]", 2) ELSE 0
        inside == SubSeq(host, 2, close - 1)
        colon == FirstIndex(host, ":", 1)
        before == SubSeq(host, 1, colon - 1)
        after(i) == SubSeq(host, i + 1, Len(host))
    IN IF close > 2
       THEN [node |-> inside,
             service |-> IF close < Len(host) /\ host[close + 1] = ":" THEN after(close + 1) ELSE None]
       ELSE [node |-> IF colon > 1 THEN before ELSE host,
             service |-> IF colon > 0 THEN after(colon) ELSE None]

\* m_length less the offset of sun_path: with the terminating zero, but for an
\* abstract name, which begins with a zero.
UnixLength(path) == IF path # <<>> /\ path[1] = 0 THEN Len(path) ELSE Len(path) + 1

UnixFits(path) == UnixLength(path) <= PathSize

\* sun_path, all zeros at first
SunPath(path) == [i \in 1 .. PathSize |-> IF i <= UnixLength(path) /\ i <= Len(path) THEN path[i] ELSE 0]

\* getPath(): an abstract name by its length, any other up to the first zero.
GetPath(mem, length) ==
    IF length > 0 /\ mem[1] = 0 THEN SubSeq(mem, 1, length)
    ELSE SubSeq(mem, 1, FirstIndex(mem \o <<0>>, 0, 1) - 1)

\* operator<: memcmp of the common length, then the length
Less(a, b) ==
    \/ \E i \in DOMAIN a \cap DOMAIN b : a[i] < b[i] /\ \A j \in 1 .. i - 1 : a[j] = b[j]
    \/ Len(a) < Len(b) /\ \A i \in DOMAIN a : a[i] = b[i]

-----------------------------------------------------------------------------
(* An application holds an address and replaces it by one derived from it     *)

Bytes6 == [1 .. V6Bytes -> ByteValues]
Hosts == UNION {[1 .. n -> {"[", "]", ":", "x"}] : n \in 0 .. HostLength}
Paths == UNION {[1 .. n -> 0 .. Ones(ByteBits)] : n \in 0 .. PathSize}
PrefixLengths == 0 .. V6Bits + 2 * ByteBits - 1    \* to the end of the scope id's second byte
InMemoryPort(v) == PortInMemory(<<v \div 2^ByteBits, v % 2^ByteBits>>)

AddressInit ==
    \/ \E x \in 0 .. Ones(V4Bits) : addr = [kind |-> "v4", ip |-> x, port |-> InMemoryPort(0)]
    \/ \E x \in Bytes6 : addr = [kind |-> "v6", ip |-> x \o <<0>>, port |-> InMemoryPort(0)]
    \/ \E h \in Hosts : addr = [kind |-> "host", host |-> h]
    \/ \E p \in Paths : UnixFits(p) /\ addr = [kind |-> "unix", mem |-> SunPath(p), len |-> UnixLength(p), path |-> p]

SetPort(v) ==
    /\ addr.kind \in {"v4", "v6"}
    /\ addr' = [addr EXCEPT !.port = InMemoryPort(v)]

\* broadcastAddress, networkAddress and subnetMask of an IPv4 address; only the first two
\* refuse a prefix that is too long.
Derive4(p) ==
    /\ addr.kind = "v4"
    /\ \/ /\ p <= V4Bits
          /\ \E x \in Broadcast4(addr.ip, p) \cup Network4(addr.ip, p) : addr' = [addr EXCEPT !.ip = x]
       \/ \E x \in Subnet4(p) : addr' = [addr EXCEPT !.ip = x, !.port = InMemoryPort(0)]

\* Only networkAddress looks at the prefix.  A longer one than the address makes the others
\* write to the scope id.
Derive6(p) ==
    /\ addr.kind = "v6"
    /\ \/ addr' = [addr EXCEPT !.ip = Broadcast6(addr.ip, p)]
       \/ p <= V4Bits /\ addr' = [addr EXCEPT !.ip = Network6(addr.ip, p)]
       \/ addr' = [addr EXCEPT !.ip = Subnet6(p), !.port = InMemoryPort(0)]

\* setAddrLen, after getsockname has filled sun_path; the application's name is forgotten.
SetAddrLen(v) ==
    /\ addr.kind = "unix"
    /\ addr' = [addr EXCEPT !.len = v, !.path = GetPath(addr.mem, v)]

AddressNext ==
    \/ \E v \in Ports : SetPort(v)
    \/ \E p \in PrefixLengths : Derive4(p) \/ Derive6(p)
    \/ \E v \in 0 .. PathSize : SetAddrLen(v)

AddressSpec == AddressInit /\ [][AddressNext]_addr

-----------------------------------------------------------------------------
(* Properties                                                                *)

\* Bit i of an IPv6 address, from the front.
BitAt(y, i) == (y[(i - 1) \div ByteBits + 1] \div 2^(ByteBits - 1 - ((i - 1) % ByteBits))) % 2

\* broadcastAddress keeps the prefix and sets every bit behind it, at every prefix length
\* but 0 of IPv4 (undefined); at full length the IPv6 version writes behind the address.
BroadcastFillsHost ==
    /\ addr.kind = "v4" => \A p \in 1 .. V4Bits :
          Broadcast4(addr.ip, p) = {(addr.ip \div 2^(V4Bits - p)) * 2^(V4Bits - p) + Ones(V4Bits - p)}
    /\ addr.kind = "v6" => \A p \in 0 .. V6Bits :
          LET x == Broadcast6(addr.ip, p) IN
          /\ \A i \in 1 .. V6Bits : BitAt(x, i) = IF i <= p THEN BitAt(addr.ip, i) ELSE 1
          /\ p < V6Bits => x[V6Bytes + 1] = addr.ip[V6Bytes + 1]

\* networkAddress does not return the network.  Of an IPv4 address the bits behind the prefix
\* are left; of an IPv6 address the whole bytes of the prefix and, in the byte in which the
\* prefix ends, the bits behind it.
NetworkKeepsHostBits ==
    /\ addr.kind = "v4" => \A p \in 1 .. V4Bits : \A n \in Network4(addr.ip, p), m \in 0 .. V4Bits - 1 :
          (n \div 2^m) % 2 = IF m < V4Bits - p THEN (addr.ip \div 2^m) % 2 ELSE 0
    /\ addr.kind = "v6" => \A p \in 0 .. V4Bits : \A i \in 1 .. V6Bits :
          LET whole == (p \div ByteBits) * ByteBits IN
          BitAt(Network6(addr.ip, p), i) =
              IF i <= whole \/ (p < i /\ i <= whole + ByteBits) THEN BitAt(addr.ip, i) ELSE 0

\* The prefix length that GetInterfaceAddresses counts in a netmask is the one that
\* subnetMask makes it from.
MaskCountsPrefix ==
    /\ addr.kind = "v4" => \A p \in 1 .. V4Bits :
          \A mask \in Subnet4(p) : CountBytes(mask) = p
    /\ addr.kind = "v6" => \A p \in 0 .. V6Bits : PrefixLength6(Subnet6(p)) = p

\* Groups m to n of g, with colons between them.
Written(g, m, n) ==
    [k \in 1 .. 2 * (n - m) + 1 |-> IF k % 2 = 1 THEN ToString(g[m + k \div 2]) ELSE ":"]

\* The text of an IPv6 address denotes that address: its groups are written in their order,
\* all of them or all but one run of zeros, for which "::" stands once.
TextDenotesAddress ==
    addr.kind = "v6" =>
        LET g == Groups(addr.ip)  n == Len(g) IN
        \/ TextOf(g) = Written(g, 1, n)
        \/ \E a \in 0 .. n, z \in 1 .. n + 1 :
              /\ a + 1 < z /\ \A i \in a + 1 .. z - 1 : g[i] = 0
              /\ TextOf(g) = Written(g, 1, a) \o <<":", ":">> \o Written(g, z, n)

\* A name, name:service, [address] and [address]:service are taken apart as written.
HostTakenApart ==
    addr.kind = "host" =>
        LET h == addr.host  r == Lookup(h)
            Plain(s) == s # <<>> /\ \A i \in DOMAIN s : s[i] = "x"
            Word(s) == s # <<>> /\ \A i \in DOMAIN s : s[i] # "]"
        IN \A n \in 0 .. Len(h) :
             LET a == SubSeq(h, 1, n)  b == SubSeq(h, n + 2, Len(h))  named == n < Len(h) /\ h[n + 1] = ":"
                 in == SubSeq(a, 2, n - 1)
             IN /\ Plain(h) => r = [node |-> h, service |-> None]
                /\ named /\ Plain(a) => r = [node |-> a, service |-> b]
                /\ n > 2 /\ a[1] = "[" /\ a[n] = "]" /\ Word(in) =>
                      /\ named => r = [node |-> in, service |-> b]
                      /\ n = Len(h) => r = [node |-> in, service |-> None]

\* getPath gives back the path, abstract or not, that a UnixAddress was made from, up to
\* the first zero of one that is not abstract; an empty path becomes an abstract name of
\* no characters.
PathKept ==
    addr.kind = "unix" /\ addr.path # <<>> /\ addr.len = UnixLength(addr.path) =>
        GetPath(addr.mem, addr.len) =
            IF addr.path[1] = 0 THEN addr.path
            ELSE SubSeq(addr.path, 1, FirstIndex(addr.path \o <<0>>, 0, 1) - 1)

\* operator< orders addresses of different lengths totally and agrees with operator==.
OrderIsTotal ==
    addr.kind = "unix" => \A p \in Paths :
        LET a == SubSeq(addr.mem, 1, addr.len) IN
        /\ a # p => (Less(a, p) \/ Less(p, a))
        /\ ~(Less(a, p) /\ Less(p, a)) /\ ~Less(a, a)
        /\ \A q \in Paths : Less(a, p) /\ Less(p, q) => Less(a, q)

\* The operations of address.cpp against their definitions by bits, groups and characters.
AddressExact ==
    /\ BroadcastFillsHost /\ NetworkKeepsHostBits /\ MaskCountsPrefix
    /\ TextDenotesAddress /\ HostTakenApart /\ PathKept /\ OrderIsTotal
=============================================================================
