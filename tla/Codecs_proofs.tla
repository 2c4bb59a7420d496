--------------------------- MODULE Codecs_proofs ---------------------------
(***************************************************************************)
(* ByteArray: the chain of nodes implements a flat buffer, and what is     *)
(* written is what is read, for every size of a node and every width of a  *)
(* byte.  IInv relates the array to the ghost buffer: m_cur is the node of *)
(* the position unless the process is gone, which happens at the end of    *)
(* the buffer alone.  From arithmetic up: what one operation does to a     *)
(* chain, what a loop of them does round by round, each action, what each  *)
(* coding gives back.                                                      *)
(*                                                                         *)
(* Address: the operations of address.cpp against their definitions, for   *)
(* every width of an address.  AddrInv says what an application holds.     *)
(*                                                                         *)
(* LogFormatter: the parser of patterns, for patterns of every length.     *)
(* RoundInv holds before every round of its loop, FormatInv after every    *)
(* pattern.                                                                *)
(***************************************************************************)
EXTENDS ByteArray, Address, LogFormatter, FiniteSetTheorems, SequenceTheorems, WellFoundedInduction, TLAPS

-----------------------------------------------------------------------------
(* Arithmetic, induction, recursion                                          *)

LEMMA LeastNat ==
    ASSUME NEW T \in SUBSET Nat, T # {}
    PROVE  \E x \in T : \A y \in T : x <= y
<1>1. PICK x \in T : \A y \in T : <<y, x>> \notin OpToRel(<, Nat)
  BY WFMin, NatLessThanWellFounded
<1>2. ASSUME NEW y \in T PROVE x <= y
  <2>1. x \in Nat /\ y \in Nat
    OBVIOUS
  <2>2. y < x => <<y, x>> \in OpToRel(<, Nat)
    BY <2>1 DEF OpToRel
  <2>3. ~(y < x)
    BY <1>1, <2>2
  <2>. QED BY <2>1, <2>3
<1>. QED BY <1>2

LEMMA SetInduction ==
    ASSUME NEW S, 0 \in S, \A n \in Nat : n \in S => n + 1 \in S
    PROVE  Nat \subseteq S
<1>. DEFINE T == Nat \ S
<1>. SUFFICES ASSUME T # {} PROVE FALSE
  OBVIOUS
<1>1. PICK x \in T : \A y \in T : x <= y
  BY LeastNat
<1>2. x \in Nat /\ x # 0 /\ x \notin S
  BY <1>1
<1>3. x - 1 \in Nat /\ x - 1 \notin T
  BY <1>1, <1>2
<1>4. x - 1 + 1 \in S /\ x - 1 + 1 = x
  BY <1>2, <1>3
<1>. QED BY <1>2, <1>4

\* g[k] is the result of the first k of n steps.
Iterates(g, D, first, n, step) ==
    /\ g \in [0 .. n -> D] /\ g[0] = first
    /\ \A k \in 1 .. n : g[k] = step[k][g[k - 1]]

LEMMA Iterate ==
    ASSUME NEW D, NEW first \in D, NEW n \in Nat, NEW step \in [1 .. n -> [D -> D]]
    PROVE  \E g : Iterates(g, D, first, n, step)
<1>. DEFINE Runs(g, m) == g[0] = first /\ \A k \in 1 .. m : g[k] = step[k][g[k - 1]]
            S == {m \in Nat : m <= n => \E g \in [0 .. m -> D] : Runs(g, m)}
<1>1. 0 \in S
  <2>. DEFINE g == [k \in 0 .. 0 |-> first]
  <2>1. g \in [0 .. 0 -> D] /\ g[0] = first /\ 1 .. 0 = {}
    OBVIOUS
  <2>2. Runs(g, 0)
    BY <2>1
  <2>. QED BY <2>1, <2>2
<1>2. ASSUME NEW m \in Nat, m \in S PROVE m + 1 \in S
  <2>. SUFFICES ASSUME m + 1 <= n PROVE \E g \in [0 .. m + 1 -> D] : Runs(g, m + 1)
    OBVIOUS
  <2>1. PICK g \in [0 .. m -> D] : Runs(g, m)
    BY <1>2
  <2>. DEFINE h == [k \in 0 .. m + 1 |-> IF k = m + 1 THEN step[m + 1][g[m]] ELSE g[k]]
  <2>2. g[m] \in D /\ step[m + 1] \in [D -> D]
    OBVIOUS
  <2>3. step[m + 1][g[m]] \in D
    BY <2>2
  <2>4. h \in [0 .. m + 1 -> D]
    BY <2>3
  <2>5. h[0] = first
    BY <2>1
  <2>6. ASSUME NEW k \in 1 .. m + 1 PROVE h[k] = step[k][h[k - 1]]
    <3>1. h[k - 1] = g[k - 1]
      OBVIOUS
    <3>2. CASE k = m + 1
      BY <3>1, <3>2
    <3>3. CASE k # m + 1
      <4>1. k \in 1 .. m
        BY <3>3
      <4>. QED BY <2>1, <3>1, <4>1
    <3>. QED BY <3>2, <3>3
  <2>7. Runs(h, m + 1)
    BY <2>5, <2>6
  <2>. QED BY <2>4, <2>7
<1>3. n \in S
  <2>. HIDE DEF S
  <2>. QED BY <1>1, <1>2, SetInduction
<1>4. PICK g \in [0 .. n -> D] : Runs(g, n)
  BY <1>3
<1>. QED BY <1>4 DEF Iterates

LEMMA EveryRound ==
    ASSUME NEW D, NEW n \in Nat, NEW h, h[0] \in D, \A k \in 1 .. n : h[k - 1] \in D => h[k] \in D
    PROVE  \A k \in 0 .. n : h[k] \in D
<1>. DEFINE S == {m \in Nat : m <= n => h[m] \in D}
<1>1. 0 \in S
  OBVIOUS
<1>2. ASSUME NEW m \in Nat, m \in S PROVE m + 1 \in S
  <2>1. ASSUME m + 1 <= n PROVE h[m + 1] \in D
    <3>1. m + 1 \in 1 .. n /\ m + 1 - 1 = m /\ h[m] \in D
      BY <1>2, <2>1
    <3>. QED BY <3>1
  <2>. QED BY <2>1
<1>3. Nat \subseteq S
  <2>. HIDE DEF S
  <2>. QED BY <1>1, <1>2, SetInduction
<1>. QED BY <1>3

LEMMA DivMod ==
    ASSUME NEW a \in Nat, NEW b \in Nat \ {0}
    PROVE  /\ a \div b \in Nat /\ a % b \in Nat /\ a % b < b
           /\ a = (a \div b) * b + (a % b)
  OBVIOUS

LEMMA DivIs ==
    ASSUME NEW q \in Nat, NEW r \in Nat, NEW b \in Nat \ {0}, r < b
    PROVE  (q * b + r) \div b = q /\ (q * b + r) % b = r
  OBVIOUS

LEMMA Times ==
    ASSUME NEW p \in Nat, NEW q \in Nat, NEW b \in Nat \ {0}
    PROVE  /\ p * b \in Nat /\ (p + 1) * b = p * b + b /\ (p + q) * b = p * b + q * b
           /\ p < q => p * b + b <= q * b
           /\ p <= q => p * b <= q * b
           /\ p * b < q * b => p < q
<1>1. p * b \in Nat /\ (p + 1) * b = p * b + b /\ (p + q) * b = p * b + q * b
  OBVIOUS
<1>2. ASSUME p < q PROVE p * b + b <= q * b
  <2>1. PICK d \in Nat : q = p + 1 + d
    <3>1. q - p - 1 \in Nat
      BY <1>2
    <3>. QED BY <3>1
  <2>2. q * b = p * b + b + d * b /\ d * b \in Nat
    BY <2>1
  <2>. QED BY <2>2
<1>3. p <= q => p * b <= q * b
  BY <1>2
<1>4. ASSUME p * b < q * b PROVE p < q
  <2>1. CASE q <= p
    <3>1. PICK d \in Nat : p = q + d
      <4>1. p - q \in Nat
        BY <2>1
      <4>. QED BY <4>1
    <3>2. p * b = q * b + d * b /\ d * b \in Nat
      BY <3>1
    <3>. QED BY <1>4, <3>2
  <2>. QED BY <2>1
<1>. QED BY <1>1, <1>2, <1>3, <1>4

LEMMA Ceiling ==
    ASSUME NEW a \in Nat, NEW b \in Nat \ {0}
    PROVE  /\ CeilDiv(a, b) \in Nat /\ CeilDiv(a, b) * b >= a
           /\ a > 0 => CeilDiv(a, b) > 0 /\ CeilDiv(a, b) * b < a + b
<1>. DEFINE q == CeilDiv(a, b)
            r == (a + b - 1) % b
<1>1. a + b - 1 \in Nat
  OBVIOUS
<1>2. q \in Nat /\ r \in Nat /\ r < b /\ a + b - 1 = q * b + r
  BY <1>1, DivMod DEF CeilDiv
<1>3. q * b \in Nat
  BY <1>2, Times
<1>. HIDE DEF q, r
<1>4. q * b >= a /\ q * b < a + b
  BY <1>2, <1>3
<1>5. a > 0 => q # 0
  BY <1>2, <1>4
<1>. QED BY <1>2, <1>4, <1>5 DEF q

LEMMA Power ==
    ASSUME NEW n \in Nat
    PROVE  2^n \in Nat \ {0}
<1>1. IsFiniteSet(1 .. n) /\ Cardinality(1 .. n) = n
  BY FS_Interval
<1>2. IsFiniteSet(SUBSET (1 .. n)) /\ Cardinality(SUBSET (1 .. n)) = 2^n
  BY <1>1, FS_SUBSET
<1>3. 2^n \in Nat
  BY <1>2, FS_CardinalityType
<1>4. Cardinality(SUBSET (1 .. n)) # 0
  BY <1>2, FS_EmptySet
<1>. QED BY <1>2, <1>3, <1>4

LEMMA PowerZero == 2^0 = 1
<1>1. IsFiniteSet({}) /\ Cardinality({}) = 0
  BY FS_EmptySet
<1>2. Cardinality(SUBSET {}) = 2^0
  BY <1>1, FS_SUBSET
<1>3. SUBSET {} = {{}}
  OBVIOUS
<1>. QED BY <1>2, <1>3, FS_Singleton

\* The subsets of 1 .. n + 1 are those of 1 .. n, without and with n + 1.
LEMMA PowerNext ==
    ASSUME NEW n \in Nat
    PROVE  2^(n + 1) = 2 * 2^n
<1>. DEFINE S == SUBSET (1 .. n)
            T == {X \cup {n + 1} : X \in S}
            f == [X \in S |-> X \cup {n + 1}]
<1>1. IsFiniteSet(1 .. n) /\ Cardinality(1 .. n) = n
  BY FS_Interval
<1>2. IsFiniteSet(S) /\ Cardinality(S) = 2^n
  BY <1>1, FS_SUBSET
<1>3. IsFiniteSet(1 .. n + 1) /\ Cardinality(1 .. n + 1) = n + 1
  <2>1. n + 1 \in Nat /\ n + 1 - 1 + 1 = n + 1
    OBVIOUS
  <2>. QED BY <2>1, FS_Interval
<1>4. Cardinality(SUBSET (1 .. n + 1)) = 2^(n + 1)
  BY <1>3, FS_SUBSET
<1>5. n + 1 \notin 1 .. n /\ 1 .. n + 1 = (1 .. n) \cup {n + 1}
  OBVIOUS
<1>6. SUBSET (1 .. n + 1) = S \cup T
  <2>1. ASSUME NEW X \in SUBSET (1 .. n + 1) PROVE X \in S \cup T
    <3>1. CASE n + 1 \in X
      <4>1. X \ {n + 1} \in S /\ X = (X \ {n + 1}) \cup {n + 1}
        BY <1>5, <3>1
      <4>. QED BY <4>1
    <3>2. CASE n + 1 \notin X
      BY <1>5, <3>2
    <3>. QED BY <3>1, <3>2
  <2>2. ASSUME NEW X \in S \cup T PROVE X \in SUBSET (1 .. n + 1)
    <3>1. CASE X \in S
      BY <1>5, <3>1
    <3>2. CASE X \in T
      <4>1. PICK Y \in S : X = Y \cup {n + 1}
        BY <3>2
      <4>. QED BY <1>5, <4>1
    <3>. QED BY <3>1, <3>2
  <2>. HIDE DEF S, T
  <2>. QED BY <2>1, <2>2
<1>7. S \cap T = {}
  BY <1>5
<1>8. IsFiniteSet(T) /\ Cardinality(T) = Cardinality(S)
  <2>1. f \in [S -> T]
    OBVIOUS
  <2>2. ASSUME NEW X \in S, NEW Y \in S, f[X] = f[Y] PROVE X = Y
    <3>1. X \cup {n + 1} = Y \cup {n + 1} /\ n + 1 \notin X /\ n + 1 \notin Y
      BY <1>5, <2>2
    <3>. QED BY <3>1
  <2>3. \A t \in T : \E X \in S : f[X] = t
    OBVIOUS
  <2>4. f \in Bijection(S, T)
    BY <2>1, <2>2, <2>3 DEF Bijection, Injection, Surjection, IsInjective
  <2>5. ExistsBijection(S, T)
    BY <2>4 DEF ExistsBijection
  <2>. QED BY <1>2, <2>5, FS_Bijection
<1>. HIDE DEF S, T
<1>9. Cardinality(S \cup T) = Cardinality(S) + Cardinality(T) - Cardinality(S \cap T)
  BY <1>2, <1>8, FS_Union
<1>10. Cardinality(S \cap T) = 0
  BY <1>7, FS_EmptySet
<1>11. 2^n \in Nat
  BY Power
<1>12. Cardinality(S \cup T) = 2^n + 2^n
  BY <1>2, <1>8, <1>9, <1>10, <1>11
<1>13. 2^(n + 1) = Cardinality(S \cup T)
  BY <1>4, <1>6
<1>. QED BY <1>11, <1>12, <1>13

\* A property of each round of its own.
LEMMA RoundByRound ==
    ASSUME NEW n \in Nat, NEW D, NEW h, h[0] \in D[0],
           \A k \in 1 .. n : h[k - 1] \in D[k - 1] => h[k] \in D[k]
    PROVE  \A k \in 0 .. n : h[k] \in D[k]
<1>. DEFINE S == {m \in Nat : m <= n => h[m] \in D[m]}
<1>1. 0 \in S
  OBVIOUS
<1>2. ASSUME NEW m \in Nat, m \in S PROVE m + 1 \in S
  <2>1. ASSUME m + 1 <= n PROVE h[m + 1] \in D[m + 1]
    <3>1. m + 1 \in 1 .. n /\ m + 1 - 1 = m /\ h[m] \in D[m]
      BY <1>2, <2>1
    <3>. QED BY <3>1
  <2>. QED BY <2>1
<1>3. Nat \subseteq S
  <2>. HIDE DEF S
  <2>. QED BY <1>1, <1>2, SetInduction
<1>. QED BY <1>3

-----------------------------------------------------------------------------
(* The invariant                                                             *)

ByteVals == 0 .. Radix - 1

BufRec ==
    [mem : Seq(ByteVals), cur : Nat, pos : Nat, size : Nat, endian : {"little", "big"}, dead : BOOLEAN]

FlatRec == [mem : Seq(ByteVals), pos : Nat, size : Nat, stray : BOOLEAN]

\* Whole nodes, at least the root; m_cur is one of them or null; m_position <= m_size.
Bufs ==
    {b \in BufRec : /\ Len(b.mem) % Base = 0 /\ Len(b.mem) >= Base
                    /\ b.cur <= Nodes(b)
                    /\ b.pos <= b.size /\ b.size <= Len(b.mem)}

\* m_cur is the node of the position.
Follows(b) == b.cur = IF b.pos = Len(b.mem) THEN Null ELSE b.pos \div Base + 1

\* A write that starts with b and f equal strays before it can crash.
Agree(b, f) ==
    /\ b.dead => f.stray
    /\ ~f.stray => Follows(b) /\ b.mem = f.mem /\ b.pos = f.pos /\ b.size = f.size

\* m_cur is lost only at the end of the buffer.
EdgeOnly(b) == (~b.dead => Follows(b)) /\ (b.dead => b.pos = Len(b.mem))

\* Reads and seeks can end in a null pointer also at the very end of the buffer.
IInv ==
    /\ ba \in Bufs /\ ref \in FlatRec
    /\ ~ref.stray => EdgeOnly(ba) /\ ba.mem = ref.mem /\ ba.pos = ref.pos /\ ba.size = ref.size

LEMMA Constants ==
    /\ Base \in Nat \ {0} /\ Top \in Nat \ {0} /\ Radix \in Nat \ {0} /\ Radix = 2 * Top
    /\ GroupBits \in Nat \ {0} /\ WordBits \in Nat \ {0} /\ LongBits \in Nat \ {0}
    /\ 2 <= WordBits /\ WordBits < LongBits
    /\ Data \subseteq ByteVals /\ 0 \in ByteVals /\ ByteVals \subseteq Nat
<1>1. Top \in Nat \ {0}
  BY ByteArrayAssumption, Power DEF Top
<1>2. Radix \in Nat \ {0} /\ Radix = 2 * Top
  BY <1>1 DEF Radix
<1>. QED BY <1>1, <1>2, ByteArrayAssumption DEF ByteVals

\* The length of the chain, in nodes.
LEMMA Chain ==
    ASSUME NEW L \in Nat, L % Base = 0, L >= Base
    PROVE  L \div Base \in Nat \ {0} /\ L = (L \div Base) * Base
<1>1. Base \in Nat \ {0}
  BY Constants
<1>2. L \div Base \in Nat /\ L = (L \div Base) * Base
  BY <1>1, DivMod
<1>3. L \div Base # 0
  <2>1. ASSUME L \div Base = 0 PROVE FALSE
    BY <1>1, <1>2, <2>1
  <2>. QED BY <2>1
<1>. QED BY <1>2, <1>3

LEMMA InChain ==
    ASSUME NEW b \in Bufs
    PROVE  /\ b \in BufRec /\ b.mem \in Seq(ByteVals) /\ Len(b.mem) \in Nat
           /\ b.cur \in Nat /\ b.pos \in Nat /\ b.size \in Nat /\ b.dead \in BOOLEAN
           /\ b.endian \in {"little", "big"}
           /\ b.pos <= b.size /\ b.size <= Len(b.mem) /\ b.cur <= Nodes(b)
           /\ Nodes(b) \in Nat \ {0} /\ Len(b.mem) = Nodes(b) * Base
           /\ Len(b.mem) % Base = 0 /\ Len(b.mem) >= Base
           /\ Offset(b) \in Nat /\ Offset(b) < Base
<1>1. /\ b \in BufRec /\ b.mem \in Seq(ByteVals) /\ Len(b.mem) \in Nat
      /\ b.cur \in Nat /\ b.pos \in Nat /\ b.size \in Nat /\ b.dead \in BOOLEAN
      /\ b.endian \in {"little", "big"}
  BY DEF Bufs, BufRec
<1>2. /\ b.pos <= b.size /\ b.size <= Len(b.mem) /\ b.cur <= Nodes(b)
      /\ Len(b.mem) % Base = 0 /\ Len(b.mem) >= Base
  BY DEF Bufs
<1>3. Nodes(b) \in Nat \ {0} /\ Len(b.mem) = Nodes(b) * Base
  BY <1>1, <1>2, Chain DEF Nodes
<1>4. Offset(b) \in Nat /\ Offset(b) < Base
  BY <1>1, Constants, DivMod DEF Offset
<1>. QED BY <1>1, <1>2, <1>3, <1>4

\* What it takes to be a buffer, in terms of whole nodes.
LEMMA MakeBuf ==
    ASSUME NEW b \in BufRec, NEW k \in Nat \ {0}, Len(b.mem) = k * Base,
           b.cur <= k, b.pos <= b.size, b.size <= Len(b.mem)
    PROVE  b \in Bufs /\ Nodes(b) = k
<1>1. Base \in Nat \ {0}
  BY Constants
<1>2. (k * Base + 0) \div Base = k /\ (k * Base + 0) % Base = 0
  BY <1>1, DivIs, 0 < Base, k \in Nat
<1>3. k * Base \in Nat /\ k * Base >= Base
  BY <1>1, Times, 0 < k
<1>4. k * Base + 0 = k * Base
  BY <1>3
<1>5. Nodes(b) = k /\ Len(b.mem) % Base = 0 /\ Len(b.mem) >= Base
  BY <1>2, <1>3, <1>4 DEF Nodes
<1>. QED BY <1>5 DEF Bufs

\* Under Follows the loops start at the byte of the position.
LEMMA AtPosition ==
    ASSUME NEW b \in Bufs, Follows(b), b.pos < Len(b.mem)
    PROVE  b.cur # Null /\ Ahead(b.cur, Offset(b)) = b.pos
<1>1. Base \in Nat \ {0} /\ b.pos \in Nat
  BY Constants, InChain
<1>2. b.cur = b.pos \div Base + 1
  BY <1>1 DEF Follows
<1>3. b.pos \div Base \in Nat /\ b.pos = (b.pos \div Base) * Base + (b.pos % Base)
  BY <1>1, DivMod
<1>4. b.cur - 1 = b.pos \div Base
  BY <1>2, <1>3
<1>. QED BY <1>2, <1>3, <1>4 DEF Ahead, Offset, Null

\* m_cur after a loop from byte p on.
LEMMA NextNode ==
    ASSUME NEW b \in Bufs, b.cur # Null, NEW n \in Nat
    PROVE  /\ Ahead(b.cur, Offset(b)) \in Nat
           /\ NodeAfter(b, n) \in Nat /\ NodeAfter(b, n) <= Nodes(b)
           /\ Ahead(b.cur, Offset(b)) + n <= Len(b.mem) =>
                NodeAfter(b, n) = IF Ahead(b.cur, Offset(b)) + n = Len(b.mem) THEN Null
                                  ELSE (Ahead(b.cur, Offset(b)) + n) \div Base + 1
<1>. DEFINE p == Ahead(b.cur, Offset(b)) + n
            N == Nodes(b)
<1>0. Base \in Nat \ {0} /\ N \in Nat \ {0} /\ Len(b.mem) = N * Base /\ b.cur \in Nat /\ Offset(b) \in Nat
  BY Constants, InChain
<1>1. Ahead(b.cur, Offset(b)) \in Nat
  <2>1. b.cur - 1 \in Nat
    BY <1>0 DEF Null
  <2>2. (b.cur - 1) * Base \in Nat
    BY <1>0, <2>1, Times
  <2>. QED BY <1>0, <2>2 DEF Ahead
<1>2. p \in Nat
  BY <1>1
<1>3. NodeAfter(b, n) = IF p \div Base + 1 > N THEN 0 ELSE p \div Base + 1
  BY DEF NodeAfter, Null
<1>. HIDE DEF p, N
<1>4. p \div Base \in Nat /\ p % Base \in Nat /\ p % Base < Base /\ p = (p \div Base) * Base + (p % Base)
  BY <1>0, <1>2, DivMod
<1>5. NodeAfter(b, n) \in Nat /\ NodeAfter(b, n) <= N
  <2>. DEFINE q == p \div Base
  <2>1. q \in Nat /\ NodeAfter(b, n) = IF q + 1 > N THEN 0 ELSE q + 1
    BY <1>3, <1>4
  <2>. HIDE DEF q
  <2>. QED BY <1>0, <2>1
<1>6. ASSUME p = N * Base PROVE p \div Base = N
  <2>1. (N * Base + 0) \div Base = N
    BY <1>0, DivIs
  <2>2. N * Base + 0 = N * Base
    BY <1>0, <1>2, <1>6
  <2>. QED BY <1>6, <2>1, <2>2
<1>7. ASSUME p < N * Base PROVE p \div Base < N
  <2>1. (p \div Base) * Base \in Nat
    BY <1>0, <1>4, Times
  <2>2. (p \div Base) * Base < N * Base
    <3>1. N * Base \in Nat
      BY <1>0, Times
    <3>. QED BY <1>4, <1>7, <2>1, <3>1
  <2>. QED BY <1>0, <1>4, <2>2, Times
<1>8. ASSUME p <= Len(b.mem)
      PROVE  NodeAfter(b, n) = IF p = Len(b.mem) THEN Null ELSE p \div Base + 1
  <2>1. CASE p = N * Base
    BY <1>0, <1>3, <1>6, <2>1 DEF Null
  <2>2. CASE p < N * Base
    BY <1>0, <1>2, <1>3, <1>4, <1>7, <2>2
  <2>3. N * Base \in Nat
    BY <1>0, Times
  <2>. QED BY <1>0, <1>2, <1>8, <2>1, <2>2, <2>3
<1>. QED BY <1>1, <1>5, <1>8 DEF p, N

-----------------------------------------------------------------------------
(* addCapacity and write                                                     *)

\* k new nodes behind a chain.
Zeros(k) == [i \in 1 .. k * Base |-> 0]

LEMMA MoreNodes ==
    ASSUME NEW mem \in Seq(ByteVals), NEW k \in Nat
    PROVE  mem \o Zeros(k) \in Seq(ByteVals) /\ Len(mem \o Zeros(k)) = Len(mem) + k * Base
<1>1. k * Base \in Nat /\ 0 \in ByteVals
  BY Constants, Times
<1>2. Zeros(k) \in Seq(ByteVals) /\ Len(Zeros(k)) = k * Base
  BY <1>1 DEF Zeros
<1>. HIDE DEF Zeros
<1>. QED BY <1>2

LEMMA StoredBytes ==
    ASSUME NEW mem \in Seq(ByteVals), NEW a \in Nat, NEW data \in Seq(ByteVals)
    PROVE  Stored(mem, a, data) \in Seq(ByteVals) /\ Len(Stored(mem, a, data)) = Len(mem)
<1>1. DOMAIN mem = 1 .. Len(mem) /\ Len(mem) \in Nat /\ DOMAIN data = 1 .. Len(data) /\ Len(data) \in Nat
  OBVIOUS
<1>2. ASSUME NEW i \in 1 .. Len(mem)
      PROVE  (IF i \in a + 1 .. a + Len(data) THEN data[i - a] ELSE mem[i]) \in ByteVals
  <2>1. CASE i \in a + 1 .. a + Len(data)
    <3>1. i - a \in 1 .. Len(data)
      BY <1>1, <2>1
    <3>. QED BY <2>1, <3>1
  <2>2. CASE i \notin a + 1 .. a + Len(data)
    BY <2>2
  <2>. QED BY <2>1, <2>2
<1>3. Stored(mem, a, data) = [i \in 1 .. Len(mem) |-> IF i \in a + 1 .. a + Len(data) THEN data[i - a] ELSE mem[i]]
  BY <1>1 DEF Stored
<1>. HIDE DEF Stored
<1>4. Stored(mem, a, data) \in [1 .. Len(mem) -> ByteVals]
  BY <1>2, <1>3
<1>. QED BY <1>1, <1>4

\* There is room for n bytes behind the size; nothing else changes but m_cur, and that
\* only if the buffer was full.
LEMMA Grows ==
    ASSUME NEW b \in Bufs, NEW n \in Nat \ {0}
    PROVE  LET e == AddCapacity(b, n) IN
           /\ e \in Bufs /\ b.size + n <= Len(e.mem)
           /\ e.pos = b.pos /\ e.size = b.size /\ e.dead = b.dead /\ e.endian = b.endian
           /\ Len(b.mem) - b.size >= n => e = b
           /\ Len(b.mem) - b.size < n =>
                 /\ e.mem = b.mem \o Zeros(CeilDiv(n - (Len(b.mem) - b.size), Base))
                 /\ e.cur = IF b.size = Len(b.mem) THEN Nodes(b) + 1 ELSE b.cur
<1>. DEFINE e == AddCapacity(b, n)
            cap == Len(b.mem) - b.size
            num == CeilDiv(n - cap, Base)
<1>0. /\ b \in BufRec /\ b.mem \in Seq(ByteVals) /\ Len(b.mem) \in Nat /\ b.cur \in Nat
      /\ b.pos \in Nat /\ b.size \in Nat /\ b.pos <= b.size /\ b.size <= Len(b.mem)
      /\ b.cur <= Nodes(b) /\ Nodes(b) \in Nat \ {0} /\ Len(b.mem) = Nodes(b) * Base
  BY InChain
<1>1. CASE cap >= n
  <2>1. e = b
    BY <1>1 DEF AddCapacity
  <2>2. b.size + n <= Len(b.mem)
    BY <1>0, <1>1
  <2>3. ~(cap < n)
    BY <1>0, <1>1
  <2>. HIDE DEF e, cap
  <2>. QED BY <2>1, <2>2, <2>3 DEF e, cap
<1>2. CASE cap < n
  <2>1. cap \in Nat /\ n - cap \in Nat /\ n - cap > 0
    BY <1>0, <1>2
  <2>2. Base \in Nat \ {0}
    BY Constants
  <2>3. num \in Nat /\ num > 0 /\ num * Base >= n - cap /\ num * Base \in Nat
    BY <2>1, <2>2, Ceiling, Times
  <2>. DEFINE mem == b.mem \o Zeros(num)
              cur == IF b.size = Len(b.mem) THEN Nodes(b) + 1 ELSE b.cur
  <2>4. e = [b EXCEPT !.mem = mem, !.cur = cur]
    <3>1. cap = 0 <=> b.size = Len(b.mem)
      BY <1>0
    <3>2. ~(cap >= n) /\ n # 0
      BY <1>2, <2>1
    <3>3. e = [b EXCEPT !.mem = b.mem \o Zeros(num), !.cur = IF cap = 0 THEN Nodes(b) + 1 ELSE b.cur]
      BY <3>2 DEF AddCapacity, Zeros
    <3>. HIDE DEF e, cap, num
    <3>. QED BY <3>1, <3>3
  <2>. HIDE DEF e, num
  <2>5. mem \in Seq(ByteVals) /\ Len(mem) = Len(b.mem) + num * Base
    BY <1>0, <2>3, MoreNodes
  <2>6. cur \in Nat /\ cur <= Nodes(b) + num
    BY <1>0, <2>3
  <2>. HIDE DEF mem, cur
  <2>7. /\ e \in BufRec /\ e.mem = mem /\ e.cur = cur
        /\ e.pos = b.pos /\ e.size = b.size /\ e.dead = b.dead /\ e.endian = b.endian
    BY <1>0, <2>4, <2>5, <2>6 DEF BufRec
  <2>8. Len(e.mem) = (Nodes(b) + num) * Base
    BY <1>0, <2>2, <2>3, <2>5, <2>7, Times
  <2>9. b.size + n <= Len(e.mem)
    BY <1>0, <2>1, <2>3, <2>5, <2>7
  <2>10. e \in Bufs
    <3>1. Nodes(b) + num \in Nat \ {0}
      BY <1>0, <2>3
    <3>2. e.size <= Len(e.mem)
      BY <1>0, <2>3, <2>5, <2>7
    <3>. QED BY <1>0, <2>6, <2>7, <2>8, <3>1, <3>2, MakeBuf
  <2>11. ~(cap >= n)
    BY <1>2, <2>1
  <2>. QED BY <2>7, <2>9, <2>10, <2>11 DEF e, mem, cur, num
<1>3. cap >= n \/ cap < n
  BY <1>0
<1>. QED BY <1>1, <1>2, <1>3

\* If the buffer is not full behind the position, the grown one begins at the position.
LEMMA GrowsInPlace ==
    ASSUME NEW b \in Bufs, NEW n \in Nat \ {0}, Follows(b), ~(b.pos < b.size /\ b.size = Len(b.mem))
    PROVE  LET e == AddCapacity(b, n) IN e.cur # Null /\ Ahead(e.cur, Offset(e)) = b.pos
<1>. DEFINE e == AddCapacity(b, n)
<1>0. /\ b.pos \in Nat /\ b.size \in Nat /\ b.pos <= b.size /\ b.size <= Len(b.mem) /\ Len(b.mem) \in Nat
      /\ Nodes(b) \in Nat \ {0} /\ Len(b.mem) = Nodes(b) * Base /\ Base \in Nat \ {0}
  BY InChain, Constants
<1>1. /\ e.pos = b.pos
      /\ Len(b.mem) - b.size >= n => e = b
      /\ Len(b.mem) - b.size < n => e.cur = IF b.size = Len(b.mem) THEN Nodes(b) + 1 ELSE b.cur
  BY Grows
<1>. HIDE DEF e
<1>2. Offset(e) = Offset(b)
  BY <1>1 DEF Offset
<1>3. CASE b.size = Len(b.mem)
  <2>1. b.pos = Nodes(b) * Base
    BY <1>0, <1>3
  <2>2. e.cur = Nodes(b) + 1
    BY <1>0, <1>1, <1>3
  <2>3. (Nodes(b) * Base + 0) % Base = 0 /\ Nodes(b) * Base + 0 = Nodes(b) * Base
    BY <1>0, <2>1, DivIs, 0 < Base
  <2>4. Offset(e) = 0
    BY <1>2, <2>1, <2>3 DEF Offset
  <2>5. e.cur - 1 = Nodes(b) /\ e.cur # 0
    BY <1>0, <2>2
  <2>. QED BY <1>0, <2>1, <2>4, <2>5 DEF e, Ahead, Null
<1>4. CASE b.size # Len(b.mem)
  <2>1. b.pos < Len(b.mem)
    BY <1>0, <1>4
  <2>2. b.cur # Null /\ Ahead(b.cur, Offset(b)) = b.pos
    BY <2>1, AtPosition
  <2>3. e.cur = b.cur
    BY <1>0, <1>1, <1>4
  <2>. QED BY <1>2, <2>2, <2>3 DEF e
<1>. QED BY <1>3, <1>4

LEMMA Crashed ==
    ASSUME NEW b \in Bufs
    PROVE  /\ Crash(b) \in Bufs /\ Crash(b).dead
           /\ Crash(b).mem = b.mem /\ Crash(b).pos = b.pos /\ Crash(b).size = b.size
           /\ Crash(b).cur = b.cur /\ Crash(b).endian = b.endian
<1>. DEFINE c == Crash(b)
<1>1. b \in BufRec /\ b.cur <= Nodes(b) /\ b.pos <= b.size /\ b.size <= Len(b.mem)
      /\ Nodes(b) \in Nat \ {0} /\ Len(b.mem) = Nodes(b) * Base
  BY InChain
<1>2. /\ c \in BufRec /\ c.dead /\ c.mem = b.mem /\ c.pos = b.pos /\ c.size = b.size
      /\ c.cur = b.cur /\ c.endian = b.endian
  BY <1>1 DEF Crash, BufRec
<1>. HIDE DEF c
<1>3. c \in Bufs
  BY <1>1, <1>2, MakeBuf
<1>. QED BY <1>2, <1>3 DEF c

LEMMA WriteIs ==
    ASSUME NEW b \in Bufs, NEW data \in Seq(ByteVals), data # <<>>, ~b.dead
    PROVE  LET n == Len(data)
               e == AddCapacity(b, n)
               w == Write(b, data)
           IN /\ w \in Bufs
              /\ Room(e, e.cur, Offset(e), n) =>
                   /\ w.mem = Stored(e.mem, Ahead(e.cur, Offset(e)), data)
                   /\ w.cur = NodeAfter(e, n)
                   /\ w.pos = b.pos + n
                   /\ w.size = IF b.pos + n > b.size THEN b.pos + n ELSE b.size
                   /\ w.dead = FALSE /\ w.endian = e.endian
<1>. DEFINE n == Len(data)
            e == AddCapacity(b, n)
            w == Write(b, data)
            a == Ahead(e.cur, Offset(e))
<1>1. n \in Nat \ {0}
  OBVIOUS
<1>2. /\ e \in Bufs /\ b.size + n <= Len(e.mem)
      /\ e.pos = b.pos /\ e.size = b.size /\ e.dead = b.dead /\ e.endian = b.endian
  BY <1>1, Grows
<1>3. Offset(b) = Offset(e)
  BY <1>2 DEF Offset
<1>4. w = IF ~Room(e, e.cur, Offset(e), n) THEN Crash(e)
          ELSE [e EXCEPT !.mem = Stored(e.mem, a, data), !.cur = NodeAfter(e, n), !.pos = e.pos + n,
                         !.size = IF b.pos + n > e.size THEN b.pos + n ELSE e.size]
  <2>. HIDE DEF e
  <2>. QED BY <1>1, <1>3 DEF Write, e
<1>. HIDE DEF e, n, w
<1>5. CASE ~Room(e, e.cur, Offset(e), n)
  <2>1. w \in Bufs
    BY <1>2, <1>4, <1>5, Crashed
  <2>. QED BY <1>5, <2>1 DEF e, n, w
<1>6. CASE Room(e, e.cur, Offset(e), n)
  <2>1. e.cur # Null
    BY <1>6 DEF Room
  <2>2. a \in Nat /\ NodeAfter(e, n) \in Nat /\ NodeAfter(e, n) <= Nodes(e)
    BY <1>1, <1>2, <2>1, NextNode
  <2>3. /\ e \in BufRec /\ e.mem \in Seq(ByteVals) /\ Len(e.mem) \in Nat
        /\ e.pos \in Nat /\ e.size \in Nat /\ e.pos <= e.size /\ e.size <= Len(e.mem)
        /\ Nodes(e) \in Nat \ {0} /\ Len(e.mem) = Nodes(e) * Base
    BY <1>2, InChain
  <2>. DEFINE mem == Stored(e.mem, a, data)
              cur == NodeAfter(e, n)
              pos == b.pos + n
              size == IF b.pos + n > b.size THEN b.pos + n ELSE b.size
  <2>4. mem \in Seq(ByteVals) /\ Len(mem) = Len(e.mem)
    BY <2>2, <2>3, StoredBytes
  <2>5. cur \in Nat /\ cur <= Nodes(e)
    BY <2>2
  <2>6. pos \in Nat /\ size \in Nat /\ pos <= size /\ size <= Len(e.mem)
    BY <1>1, <1>2, <2>3
  <2>7. w = [e EXCEPT !.mem = mem, !.cur = cur, !.pos = pos, !.size = size]
    BY <1>2, <1>4, <1>6
  <2>. HIDE DEF mem, cur, pos, size, a
  <2>8. /\ w \in BufRec /\ w.mem = mem /\ w.cur = cur /\ w.pos = pos /\ w.size = size
        /\ w.dead = e.dead /\ w.endian = e.endian
    BY <2>3, <2>4, <2>5, <2>6, <2>7 DEF BufRec
  <2>9. w \in Bufs
    BY <2>3, <2>4, <2>5, <2>6, <2>8, MakeBuf
  <2>10. w.dead = FALSE
    BY <1>2, <2>3, <2>8 DEF BufRec
  <2>. QED BY <2>8, <2>9, <2>10 DEF mem, cur, pos, size, a, e, n, w
<1>. QED BY <1>5, <1>6

LEMMA WriteTyped ==
    ASSUME NEW b \in Bufs, NEW data \in Seq(ByteVals)
    PROVE  Write(b, data) \in Bufs
<1>1. CASE data = <<>> \/ b.dead
  BY <1>1 DEF Write
<1>2. CASE data # <<>> /\ ~b.dead
  BY <1>2, WriteIs
<1>. QED BY <1>1, <1>2

LEMMA FlatGrows ==
    ASSUME NEW f \in FlatRec, NEW n \in Nat
    PROVE  LET g == FlatGrow(f, n) IN
           /\ g \in FlatRec /\ g.pos = f.pos /\ g.size = f.size /\ g.stray = f.stray
           /\ n <= Len(f.mem) - f.size => g.mem = f.mem
           /\ n > Len(f.mem) - f.size =>
                g.mem = f.mem \o Zeros(CeilDiv(n - (Len(f.mem) - f.size), Base))
<1>. DEFINE more == n - (Len(f.mem) - f.size)
            k == CeilDiv(more, Base)
            g == FlatGrow(f, n)
<1>1. f.mem \in Seq(ByteVals) /\ Len(f.mem) \in Nat /\ f.pos \in Nat /\ f.size \in Nat
  BY DEF FlatRec
<1>2. CASE more <= 0
  <2>1. g = f
    BY <1>2 DEF FlatGrow
  <2>2. ~(n > Len(f.mem) - f.size)
    BY <1>1, <1>2
  <2>. QED BY <2>1, <2>2
<1>3. CASE more > 0
  <2>1. more \in Nat /\ ~(more <= 0) /\ ~(n <= Len(f.mem) - f.size)
    BY <1>1, <1>3
  <2>2. k \in Nat
    BY <2>1, Constants, Ceiling
  <2>. DEFINE mem == f.mem \o Zeros(k)
  <2>3. g = [f EXCEPT !.mem = mem]
    BY <2>1 DEF FlatGrow, Zeros
  <2>4. mem \in Seq(ByteVals)
    BY <1>1, <2>2, MoreNodes
  <2>. HIDE DEF mem, g
  <2>5. g \in FlatRec /\ g.pos = f.pos /\ g.size = f.size /\ g.stray = f.stray /\ g.mem = mem
    BY <2>3, <2>4 DEF FlatRec
  <2>. QED BY <2>1, <2>5 DEF mem, g
<1>4. more <= 0 \/ more > 0
  BY <1>1
<1>. QED BY <1>2, <1>3, <1>4

LEMMA FlatWriteIs ==
    ASSUME NEW f \in FlatRec, NEW data \in Seq(ByteVals)
    PROVE  LET w == FlatWrite(f, data) IN
           /\ w \in FlatRec
           /\ f.stray => w = f
           /\ ~f.stray /\ data # <<>> /\ FullBehind(f) => w.stray
           /\ ~f.stray /\ data # <<>> /\ ~FullBehind(f) =>
                /\ w.mem = Stored(FlatGrow(f, Len(data)).mem, f.pos, data)
                /\ w.pos = f.pos + Len(data)
                /\ w.size = IF f.pos + Len(data) > f.size THEN f.pos + Len(data) ELSE f.size
                /\ w.stray = FALSE
<1>. DEFINE n == Len(data)
            g == FlatGrow(f, n)
            w == FlatWrite(f, data)
<1>1. n \in Nat /\ f.pos \in Nat /\ f.size \in Nat /\ f.stray \in BOOLEAN
  BY DEF FlatRec
<1>2. g \in FlatRec /\ g.pos = f.pos /\ g.size = f.size /\ g.stray = f.stray
  BY <1>1, FlatGrows
<1>3. CASE f.stray \/ data = <<>>
  BY <1>3 DEF FlatWrite
<1>4. CASE ~f.stray /\ data # <<>> /\ FullBehind(f)
  <2>1. w = Stray
    BY <1>4 DEF FlatWrite
  <2>2. Stray \in FlatRec /\ Stray.stray = TRUE
    BY DEF Stray, FlatRec
  <2>. QED BY <1>4, <2>1, <2>2
<1>5. CASE ~f.stray /\ data # <<>> /\ ~FullBehind(f)
  <2>. DEFINE mem == Stored(g.mem, f.pos, data)
              pos == f.pos + n
              size == IF f.pos + n > f.size THEN f.pos + n ELSE f.size
  <2>. HIDE DEF g
  <2>1. w = [g EXCEPT !.mem = mem, !.pos = pos, !.size = size]
    BY <1>2, <1>5 DEF FlatWrite, g
  <2>2. mem \in Seq(ByteVals)
    <3>1. g.mem \in Seq(ByteVals)
      BY <1>2 DEF FlatRec
    <3>. QED BY <1>1, <3>1, StoredBytes
  <2>3. pos \in Nat /\ size \in Nat
    BY <1>1
  <2>. HIDE DEF mem, pos, size, w
  <2>4. w \in FlatRec /\ w.mem = mem /\ w.pos = pos /\ w.size = size /\ w.stray = g.stray
    BY <1>2, <2>1, <2>2, <2>3 DEF FlatRec
  <2>5. w.stray = FALSE
    BY <1>1, <1>2, <1>5, <2>4
  <2>. QED BY <1>5, <2>4, <2>5 DEF mem, pos, size, w, g
<1>. QED BY <1>3, <1>4, <1>5

LEMMA SameGrowth ==
    ASSUME NEW b \in Bufs, NEW f \in FlatRec, NEW n \in Nat \ {0}, b.mem = f.mem, b.size = f.size
    PROVE  AddCapacity(b, n).mem = FlatGrow(f, n).mem
<1>. DEFINE e == AddCapacity(b, n)
<1>0. b.size \in Nat /\ Len(b.mem) \in Nat
  BY InChain
<1>1. CASE Len(b.mem) - b.size >= n
  <2>1. e = b
    BY <1>1, Grows
  <2>2. n <= Len(f.mem) - f.size
    BY <1>0, <1>1
  <2>3. FlatGrow(f, n).mem = f.mem
    BY <2>2, FlatGrows
  <2>. QED BY <2>1, <2>3
<1>2. CASE Len(b.mem) - b.size < n
  <2>1. e.mem = b.mem \o Zeros(CeilDiv(n - (Len(b.mem) - b.size), Base))
    BY <1>2, Grows
  <2>2. n > Len(f.mem) - f.size
    BY <1>0, <1>2
  <2>3. FlatGrow(f, n).mem = f.mem \o Zeros(CeilDiv(n - (Len(f.mem) - f.size), Base))
    BY <2>2, FlatGrows
  <2>. QED BY <2>1, <2>3
<1>3. Len(b.mem) - b.size >= n \/ Len(b.mem) - b.size < n
  BY <1>0
<1>. QED BY <1>1, <1>2, <1>3

\* Not full behind the position.
Open(b) == ~(b.pos < b.size /\ b.size = Len(b.mem))

\* Unless the buffer is full behind the position, a write stores its bytes from there on,
\* leaves what is before them, and m_cur goes with the position.
LEMMA WriteInPlace ==
    ASSUME NEW b \in Bufs, ~b.dead, Follows(b), Open(b), NEW data \in Seq(ByteVals), data # <<>>
    PROVE  LET n == Len(data)
               w == Write(b, data)
           IN /\ w \in Bufs /\ ~w.dead /\ Follows(w) /\ w.endian = b.endian
              /\ w.mem = Stored(AddCapacity(b, n).mem, b.pos, data) /\ w.pos = b.pos + n
              /\ w.size = IF b.pos + n > b.size THEN b.pos + n ELSE b.size
<1>. DEFINE n == Len(data)
            e == AddCapacity(b, n)
            w == Write(b, data)
<1>0. n \in Nat \ {0}
  OBVIOUS
<1>3. e.cur # Null /\ Ahead(e.cur, Offset(e)) = b.pos
  BY <1>0, GrowsInPlace DEF Open
<1>4. /\ e \in Bufs /\ b.size + n <= Len(e.mem) /\ e.pos = b.pos /\ e.size = b.size
      /\ e.endian = b.endian
  BY <1>0, Grows
<1>5. b.pos \in Nat /\ b.size \in Nat /\ b.pos <= b.size /\ Len(b.mem) \in Nat
  BY InChain
<1>6. Len(e.mem) \in Nat /\ e.mem \in Seq(ByteVals)
  BY <1>4, InChain
<1>. HIDE DEF e, n
<1>7. b.pos + n <= Len(e.mem)
  BY <1>0, <1>4, <1>5, <1>6
<1>8. Room(e, e.cur, Offset(e), n)
  BY <1>3, <1>7 DEF Room
<1>9. /\ w \in Bufs /\ w.mem = Stored(e.mem, b.pos, data) /\ w.cur = NodeAfter(e, n)
      /\ w.pos = b.pos + n
      /\ w.size = IF b.pos + n > b.size THEN b.pos + n ELSE b.size
      /\ w.dead = FALSE /\ w.endian = e.endian
  BY <1>3, <1>8, WriteIs DEF e, n
<1>10. Len(w.mem) = Len(e.mem)
  BY <1>5, <1>6, <1>9, StoredBytes
<1>11. w.cur = IF b.pos + n = Len(e.mem) THEN Null ELSE (b.pos + n) \div Base + 1
  <2>. DEFINE q == Ahead(e.cur, Offset(e)) + n
  <2>1. q = b.pos + n /\ q <= Len(e.mem)
    BY <1>3, <1>7
  <2>2. NodeAfter(e, n) = IF q = Len(e.mem) THEN Null ELSE q \div Base + 1
    BY <1>0, <1>3, <1>4, <2>1, NextNode
  <2>. HIDE DEF q
  <2>. QED BY <1>9, <2>1, <2>2
<1>12. Follows(w)
  BY <1>9, <1>10, <1>11 DEF Follows
<1>. QED BY <1>4, <1>9, <1>12 DEF e, n

\* A write into equal buffers leaves them equal, with m_cur behind the bytes written, or
\* the flat one has been given up.
LEMMA WriteAgrees ==
    ASSUME NEW b \in Bufs, NEW f \in FlatRec, NEW data \in Seq(ByteVals), Agree(b, f)
    PROVE  Agree(Write(b, data), FlatWrite(f, data))
<1>. DEFINE n == Len(data)
            e == AddCapacity(b, n)
            w == Write(b, data)
            x == FlatWrite(f, data)
<1>1. CASE data = <<>>
  <2>1. w = b /\ x = f
    BY <1>1 DEF Write, FlatWrite
  <2>. QED BY <2>1
<1>2. CASE data # <<>> /\ f.stray
  BY <1>2, FlatWriteIs DEF Agree
<1>3. CASE data # <<>> /\ ~f.stray /\ FullBehind(f)
  BY <1>3, FlatWriteIs DEF Agree
<1>4. CASE data # <<>> /\ ~f.stray /\ ~FullBehind(f)
  <2>0. n \in Nat \ {0}
    BY <1>4
  <2>1. Follows(b) /\ b.mem = f.mem /\ b.pos = f.pos /\ b.size = f.size /\ ~b.dead
    BY <1>4 DEF Agree
  <2>2. Open(b)
    BY <1>4, <2>1 DEF FullBehind, Open
  <2>. HIDE DEF e, n
  <2>3. /\ w.mem = Stored(e.mem, b.pos, data) /\ w.pos = b.pos + n
        /\ w.size = IF b.pos + n > b.size THEN b.pos + n ELSE b.size
        /\ ~w.dead /\ Follows(w)
    BY <1>4, <2>1, <2>2, WriteInPlace DEF e, n
  <2>4. e.mem = FlatGrow(f, n).mem
    BY <2>0, <2>1, SameGrowth DEF e
  <2>5. /\ x.mem = Stored(e.mem, b.pos, data) /\ x.pos = b.pos + n
        /\ x.size = IF b.pos + n > b.size THEN b.pos + n ELSE b.size
        /\ x.stray = FALSE
    BY <1>4, <2>1, <2>4, FlatWriteIs DEF n
  <2>6. w.mem = x.mem /\ w.pos = x.pos /\ w.size = x.size
    BY <2>3, <2>5
  <2>. HIDE DEF w, x
  <2>7. Agree(w, x)
    BY <2>3, <2>6 DEF Agree
  <2>. QED BY <2>7 DEF w, x
<1>. QED BY <1>1, <1>2, <1>3, <1>4

-----------------------------------------------------------------------------
(* Several writes                                                            *)

LEMMA PieceIs ==
    ASSUME NEW s \in Seq(ByteVals)
    PROVE  Pieces(s) \in Seq(Seq(ByteVals))
<1>. DEFINE n == CeilDiv(Len(s), Base)
<1>1. n \in Nat /\ Base \in Nat \ {0}
  <2>1. Len(s) \in Nat /\ Base \in Nat \ {0}
    BY Constants
  <2>. QED BY <2>1, Ceiling
<1>2. ASSUME NEW k \in 1 .. n
      PROVE  SubSeq(s, (k - 1) * Base + 1, Smaller(k * Base, Len(s))) \in Seq(ByteVals)
  <2>. DEFINE lo == (k - 1) * Base + 1
              hi == Smaller(k * Base, Len(s))
  <2>1. k \in Nat /\ k - 1 \in Nat
    OBVIOUS
  <2>2. k * Base \in Nat /\ (k - 1) * Base \in Nat
    BY <1>1, <2>1, Times
  <2>3. lo \in Nat \ {0} /\ hi \in Nat /\ hi <= Len(s)
    BY <2>2 DEF Smaller
  <2>. HIDE DEF lo, hi
  <2>4. \A i \in lo .. hi : s[i] \in ByteVals
    BY <2>3
  <2>5. SubSeq(s, lo, hi) \in Seq(ByteVals)
    BY <2>3, <2>4
  <2>. QED BY <2>5 DEF lo, hi
<1>3. Pieces(s) = [k \in 1 .. n |-> SubSeq(s, (k - 1) * Base + 1, Smaller(k * Base, Len(s)))]
  BY DEF Pieces
<1>. HIDE DEF n
<1>4. Pieces(s) \in [1 .. n -> Seq(ByteVals)]
  BY <1>2, <1>3
<1>. QED BY <1>1, <1>4

LEMMA WriteAllIs ==
    ASSUME NEW b \in Bufs, NEW p \in Seq(Seq(ByteVals))
    PROVE  \E g \in [0 .. Len(p) -> Bufs] :
              /\ g[0] = b /\ g[Len(p)] = WriteAll(b, p)
              /\ \A k \in 1 .. Len(p) : g[k] = Write(g[k - 1], p[k])
<1>. DEFINE n == Len(p)
            step == [k \in 1 .. n |-> [d \in Bufs |-> Write(d, p[k])]]
            Goes(g) == g = [k \in 0 .. n |-> IF k = 0 THEN b ELSE Write(g[k - 1], p[k])]
<1>1. n \in Nat
  OBVIOUS
<1>2. step \in [1 .. n -> [Bufs -> Bufs]]
  <2>1. ASSUME NEW k \in 1 .. n, NEW d \in Bufs PROVE Write(d, p[k]) \in Bufs
    <3>1. p[k] \in Seq(ByteVals)
      OBVIOUS
    <3>. QED BY <3>1, WriteTyped
  <2>. QED BY <2>1
<1>3. PICK g : Iterates(g, Bufs, b, n, step)
  <2>. HIDE DEF step, n
  <2>. QED BY <1>1, <1>2, Iterate
<1>. HIDE DEF step
<1>10. DOMAIN g = 0 .. n /\ g = [k \in 0 .. n |-> g[k]]
  BY <1>3 DEF Iterates
<1>4. ASSUME NEW k \in 0 .. n PROVE g[k] = IF k = 0 THEN b ELSE Write(g[k - 1], p[k])
  <2>1. CASE k = 0
    BY <1>3, <2>1 DEF Iterates
  <2>2. CASE k # 0
    <3>1. k \in 1 .. n /\ k - 1 \in 0 .. n
      BY <1>1, <2>2
    <3>3. g[k - 1] \in Bufs
      BY <1>3, <3>1 DEF Iterates
    <3>2. g[k] = step[k][g[k - 1]]
      BY <1>3, <3>1 DEF Iterates
    <3>. QED BY <2>2, <3>1, <3>2, <3>3 DEF step
  <2>. QED BY <2>1, <2>2
<1>5. Goes(g)
  BY <1>4, <1>10
<1>. DEFINE h == CHOOSE x : Goes(x)
<1>6. Goes(h)
  BY <1>5
<1>7. WriteAll(b, p) = h[n]
  BY DEF WriteAll
<1>. HIDE DEF h
<1>8. h[0] = b /\ \A k \in 1 .. n : h[k] = Write(h[k - 1], p[k])
  BY <1>1, <1>6
<1>9. h \in [0 .. n -> Bufs]
  <2>1. ASSUME NEW k \in 1 .. n, h[k - 1] \in Bufs PROVE h[k] \in Bufs
    <3>1. h[k] = Write(h[k - 1], p[k]) /\ p[k] \in Seq(ByteVals)
      BY <1>8
    <3>. QED BY <2>1, <3>1, WriteTyped
  <2>4. \A m \in 0 .. n : h[m] \in Bufs
    BY <1>1, <1>8, <2>1, EveryRound
  <2>5. h = [k \in 0 .. n |-> h[k]]
    BY <1>6
  <2>. QED BY <2>4, <2>5
<1>. QED BY <1>7, <1>8, <1>9

LEMMA FlatWriteAllIs ==
    ASSUME NEW f \in FlatRec, NEW p \in Seq(Seq(ByteVals))
    PROVE  \E g \in [0 .. Len(p) -> FlatRec] :
              /\ g[0] = f /\ g[Len(p)] = FlatWriteAll(f, p)
              /\ \A k \in 1 .. Len(p) : g[k] = FlatWrite(g[k - 1], p[k])
<1>. DEFINE n == Len(p)
            step == [k \in 1 .. n |-> [d \in FlatRec |-> FlatWrite(d, p[k])]]
            Goes(g) == g = [k \in 0 .. n |-> IF k = 0 THEN f ELSE FlatWrite(g[k - 1], p[k])]
<1>1. n \in Nat
  OBVIOUS
<1>2. step \in [1 .. n -> [FlatRec -> FlatRec]]
  <2>1. ASSUME NEW k \in 1 .. n, NEW d \in FlatRec PROVE FlatWrite(d, p[k]) \in FlatRec
    <3>1. p[k] \in Seq(ByteVals)
      OBVIOUS
    <3>. QED BY <3>1, FlatWriteIs
  <2>. QED BY <2>1
<1>3. PICK g : Iterates(g, FlatRec, f, n, step)
  <2>. HIDE DEF step, n
  <2>. QED BY <1>1, <1>2, Iterate
<1>. HIDE DEF step
<1>10. DOMAIN g = 0 .. n /\ g = [k \in 0 .. n |-> g[k]]
  BY <1>3 DEF Iterates
<1>4. ASSUME NEW k \in 0 .. n PROVE g[k] = IF k = 0 THEN f ELSE FlatWrite(g[k - 1], p[k])
  <2>1. CASE k = 0
    BY <1>3, <2>1 DEF Iterates
  <2>2. CASE k # 0
    <3>1. k \in 1 .. n /\ k - 1 \in 0 .. n
      BY <1>1, <2>2
    <3>3. g[k - 1] \in FlatRec
      BY <1>3, <3>1 DEF Iterates
    <3>2. g[k] = step[k][g[k - 1]]
      BY <1>3, <3>1 DEF Iterates
    <3>. QED BY <2>2, <3>1, <3>2, <3>3 DEF step
  <2>. QED BY <2>1, <2>2
<1>5. Goes(g)
  BY <1>4, <1>10
<1>. DEFINE h == CHOOSE x : Goes(x)
<1>6. Goes(h)
  BY <1>5
<1>7. FlatWriteAll(f, p) = h[n]
  BY DEF FlatWriteAll
<1>. HIDE DEF h
<1>8. h[0] = f /\ \A k \in 1 .. n : h[k] = FlatWrite(h[k - 1], p[k])
  BY <1>1, <1>6
<1>9. h \in [0 .. n -> FlatRec]
  <2>1. ASSUME NEW k \in 1 .. n, h[k - 1] \in FlatRec PROVE h[k] \in FlatRec
    <3>1. h[k] = FlatWrite(h[k - 1], p[k]) /\ p[k] \in Seq(ByteVals)
      BY <1>8
    <3>. QED BY <2>1, <3>1, FlatWriteIs
  <2>4. \A m \in 0 .. n : h[m] \in FlatRec
    BY <1>1, <1>8, <2>1, EveryRound
  <2>5. h = [k \in 0 .. n |-> h[k]]
    BY <1>6
  <2>. QED BY <2>4, <2>5
<1>. QED BY <1>7, <1>8, <1>9

LEMMA WritesAgree ==
    ASSUME NEW b \in Bufs, NEW f \in FlatRec, NEW p \in Seq(Seq(ByteVals)), Agree(b, f)
    PROVE  /\ WriteAll(b, p) \in Bufs /\ FlatWriteAll(f, p) \in FlatRec
           /\ Agree(WriteAll(b, p), FlatWriteAll(f, p))
<1>1. PICK g \in [0 .. Len(p) -> Bufs] :
              /\ g[0] = b /\ g[Len(p)] = WriteAll(b, p)
              /\ \A k \in 1 .. Len(p) : g[k] = Write(g[k - 1], p[k])
  BY WriteAllIs
<1>2. PICK h \in [0 .. Len(p) -> FlatRec] :
              /\ h[0] = f /\ h[Len(p)] = FlatWriteAll(f, p)
              /\ \A k \in 1 .. Len(p) : h[k] = FlatWrite(h[k - 1], p[k])
  BY FlatWriteAllIs
<1>. DEFINE n == Len(p)
            S == {m \in Nat : m <= n => Agree(g[m], h[m])}
<1>3. n \in Nat
  OBVIOUS
<1>4. 0 \in S
  BY <1>1, <1>2
<1>5. ASSUME NEW m \in Nat, m \in S PROVE m + 1 \in S
  <2>1. ASSUME m + 1 <= n PROVE Agree(g[m + 1], h[m + 1])
    <3>0. m + 1 \in 1 .. n /\ m + 1 - 1 = m /\ m \in 0 .. n /\ Agree(g[m], h[m])
      BY <1>3, <1>5, <2>1
    <3>1. m + 1 \in 1 .. n /\ m + 1 - 1 = m /\ Agree(g[m], h[m]) /\ g[m] \in Bufs /\ h[m] \in FlatRec
      BY <3>0
    <3>2. p[m + 1] \in Seq(ByteVals)
      BY <3>1
    <3>3. g[m + 1] = Write(g[m], p[m + 1]) /\ h[m + 1] = FlatWrite(h[m], p[m + 1])
      BY <1>1, <1>2, <3>1
    <3>. QED BY <3>1, <3>2, <3>3, WriteAgrees
  <2>. QED BY <2>1
<1>6. n \in S
  <2>. HIDE DEF S
  <2>. QED BY <1>3, <1>4, <1>5, SetInduction
<1>7. g[n] \in Bufs /\ h[n] \in FlatRec
  BY <1>3
<1>. QED BY <1>1, <1>2, <1>3, <1>6, <1>7

-----------------------------------------------------------------------------
(* Reads                                                                     *)

\* What a sequence of reads makes of b.
Later(b, c) ==
    /\ c \in Bufs /\ c.mem = b.mem /\ c.size = b.size
    /\ EdgeOnly(b) => EdgeOnly(c)

Nothing == {Thrown, Undefined}

LEMMA ReadIs ==
    ASSUME NEW b \in Bufs, NEW n \in Nat
    PROVE  LET r == Read(b, n) IN
           /\ Later(b, r.b) /\ r = [got |-> r.got, b |-> r.b]
           /\ r.got \in Nothing \/ (r.got \in Seq(ByteVals) /\ Len(r.got) = n)
<1>. DEFINE r == Read(b, n)
            a == Ahead(b.cur, Offset(b))
<1>0. /\ b \in BufRec /\ b.mem \in Seq(ByteVals) /\ Len(b.mem) \in Nat /\ b.dead \in BOOLEAN
      /\ b.pos \in Nat /\ b.size \in Nat /\ b.pos <= b.size /\ b.size <= Len(b.mem)
      /\ Nodes(b) \in Nat \ {0} /\ Len(b.mem) = Nodes(b) * Base
  BY InChain
<1>1. CASE n > ReadSize(b)
  BY <1>1 DEF Read, Later, Nothing
<1>2. CASE ~(n > ReadSize(b)) /\ (b.dead \/ ~Room(b, b.cur, Offset(b), n))
  <2>1. r = [got |-> Undefined, b |-> Crash(b)]
    BY <1>2 DEF Read
  <2>2. /\ Crash(b) \in Bufs /\ Crash(b).dead /\ Crash(b).mem = b.mem /\ Crash(b).pos = b.pos
        /\ Crash(b).size = b.size
    BY Crashed
  <2>3. b.pos + n <= Len(b.mem)
    BY <1>0, <1>2 DEF ReadSize
  <2>4. ASSUME EdgeOnly(b) PROVE b.pos = Len(b.mem)
    <3>1. CASE b.dead
      BY <2>4, <3>1 DEF EdgeOnly
    <3>2. CASE ~b.dead /\ b.pos < Len(b.mem)
      BY <1>2, <2>3, <2>4, <3>2, AtPosition DEF EdgeOnly, Room
    <3>. QED BY <1>0, <3>1, <3>2
  <2>5. EdgeOnly(b) => EdgeOnly(Crash(b))
    BY <2>2, <2>4 DEF EdgeOnly
  <2>. QED BY <2>1, <2>2, <2>5 DEF Later, Nothing
<1>3. CASE ~(n > ReadSize(b)) /\ ~b.dead /\ Room(b, b.cur, Offset(b), n)
  <2>. DEFINE c == [b EXCEPT !.pos = b.pos + n, !.cur = NodeAfter(b, n)]
              got == [i \in 1 .. n |-> b.mem[a + i]]
  <2>1. r = [got |-> got, b |-> c]
    BY <1>3 DEF Read, Bytes
  <2>2. b.cur # Null /\ a + n <= Len(b.mem)
    BY <1>3 DEF Room
  <2>3. /\ a \in Nat /\ NodeAfter(b, n) \in Nat /\ NodeAfter(b, n) <= Nodes(b)
        /\ NodeAfter(b, n) = IF a + n = Len(b.mem) THEN Null ELSE (a + n) \div Base + 1
    BY <2>2, NextNode
  <2>4. got \in Seq(ByteVals) /\ Len(got) = n
    <3>1. ASSUME NEW i \in 1 .. n PROVE b.mem[a + i] \in ByteVals
      <4>1. a + i \in 1 .. Len(b.mem)
        BY <1>0, <2>2, <2>3
      <4>. QED BY <1>0, <4>1
    <3>2. got \in [1 .. n -> ByteVals]
      BY <3>1
    <3>. QED BY <3>2
  <2>5. /\ c \in BufRec /\ c.mem = b.mem /\ c.size = b.size /\ c.dead = b.dead
        /\ c.pos = b.pos + n /\ c.cur = NodeAfter(b, n)
    <3>1. b.pos + n \in Nat
      BY <1>0
    <3>. HIDE DEF a
    <3>. QED BY <1>0, <2>3, <3>1 DEF BufRec
  <2>. HIDE DEF c, got
  <2>6. c.pos <= c.size
    BY <1>0, <1>3, <2>5 DEF ReadSize
  <2>7. c \in Bufs
    BY <1>0, <2>3, <2>5, <2>6, MakeBuf
  <2>8. ASSUME EdgeOnly(b) PROVE EdgeOnly(c)
    <3>1. Follows(b) /\ b.pos < Len(b.mem)
      <4>1. Follows(b)
        BY <1>3, <2>8 DEF EdgeOnly
      <4>2. b.pos # Len(b.mem)
        BY <2>2, <4>1 DEF Follows
      <4>. QED BY <1>0, <4>1, <4>2
    <3>2. a = b.pos
      BY <3>1, AtPosition
    <3>3. Follows(c)
      BY <2>3, <2>5, <3>2 DEF Follows
    <3>. QED BY <1>3, <2>5, <3>3 DEF EdgeOnly
  <2>. QED BY <2>1, <2>4, <2>5, <2>7, <2>8 DEF Later
<1>. QED BY <1>0, <1>1, <1>2, <1>3

LEMMA LaterTrans ==
    ASSUME NEW b, NEW c, NEW d, Later(b, c), Later(c, d)
    PROVE  Later(b, d)
  BY DEF Later

LEMMA Reversed ==
    ASSUME NEW S, NEW v \in Seq(S)
    PROVE  InMemory(v) \in Seq(S) /\ byteswap(v) \in Seq(S)
<1>1. ASSUME NEW i \in 1 .. Len(v) PROVE v[(Len(v) - i) + 1] \in S
  OBVIOUS
<1>2. Reverse(v) \in [1 .. Len(v) -> S]
  BY <1>1 DEF Reverse
<1>3. Reverse(v) \in Seq(S)
  BY <1>2
<1>. QED BY <1>3 DEF InMemory, byteswap

LEMMA ReadFixedIs ==
    ASSUME NEW b \in Bufs, NEW w \in Nat
    PROVE  LET r == ReadFixed(b, w) IN
           Later(b, r.b) /\ (r.got \in Nothing \/ r.got \in Seq(ByteVals))
<1>. DEFINE r == Read(b, w)
            v == InMemory(r.got)
            got == IF b.endian = Host THEN v ELSE byteswap(v)
<1>1. /\ Later(b, r.b) /\ r = [got |-> r.got, b |-> r.b]
      /\ r.got \in Nothing \/ r.got \in Seq(ByteVals)
  BY ReadIs
<1>2. CASE r.got \in Nothing
  BY <1>1, <1>2 DEF ReadFixed, Nothing
<1>3. CASE r.got \notin Nothing
  <2>1. got \in Seq(ByteVals)
    <3>1. v \in Seq(ByteVals)
      BY <1>1, <1>3, Reversed
    <3>. QED BY <3>1, Reversed
  <2>2. ReadFixed(b, w) = [r EXCEPT !.got = got]
    BY <1>3 DEF ReadFixed, Nothing
  <2>. HIDE DEF r, got
  <2>3. ReadFixed(b, w).b = r.b /\ ReadFixed(b, w).got = got
    BY <1>1, <2>2
  <2>. QED BY <1>1, <2>1, <2>3
<1>. QED BY <1>2, <1>3

\* The value of the first k bytes, for every k.
FromRounds(v, h) ==
    /\ h[0] = 0 /\ \A k \in 1 .. Len(v) : h[k] = h[k - 1] * Radix + v[k]
    /\ \A k \in 0 .. Len(v) : h[k] \in Nat
    /\ FromBytes(v) = h[Len(v)]

LEMMA FromBytesRounds ==
    ASSUME NEW v \in Seq(ByteVals)
    PROVE  \E h : FromRounds(v, h)
<1>. DEFINE n == Len(v)
            step == [k \in 1 .. n |-> [d \in Nat |-> d * Radix + v[k]]]
            Goes(g) == g = [k \in 0 .. n |-> IF k = 0 THEN 0 ELSE g[k - 1] * Radix + v[k]]
<1>0. n \in Nat /\ Radix \in Nat \ {0}
  BY Constants
<1>1. ASSUME NEW k \in 1 .. n, NEW d \in Nat PROVE d * Radix + v[k] \in Nat
  <2>1. v[k] \in Nat
    <3>1. v[k] \in ByteVals
      OBVIOUS
    <3>. QED BY <3>1, Constants
  <2>2. d * Radix \in Nat
    BY <1>0, Times
  <2>. QED BY <2>1, <2>2
<1>2. step \in [1 .. n -> [Nat -> Nat]]
  BY <1>1
<1>3. PICK g : Iterates(g, Nat, 0, n, step)
  <2>. HIDE DEF step, n
  <2>. QED BY <1>0, <1>2, Iterate
<1>. HIDE DEF step
<1>4. DOMAIN g = 0 .. n /\ g = [k \in 0 .. n |-> g[k]]
  BY <1>3 DEF Iterates
<1>5. ASSUME NEW k \in 0 .. n PROVE g[k] = IF k = 0 THEN 0 ELSE g[k - 1] * Radix + v[k]
  <2>1. CASE k = 0
    BY <1>3, <2>1 DEF Iterates
  <2>2. CASE k # 0
    <3>1. k \in 1 .. n /\ k - 1 \in 0 .. n
      BY <1>0, <2>2
    <3>2. g[k - 1] \in Nat /\ g[k] = step[k][g[k - 1]]
      BY <1>3, <3>1 DEF Iterates
    <3>3. step[k][g[k - 1]] = g[k - 1] * Radix + v[k]
      BY <3>1, <3>2 DEF step
    <3>. QED BY <2>2, <3>2, <3>3
  <2>. QED BY <2>1, <2>2
<1>6. Goes(g)
  BY <1>4, <1>5
<1>. DEFINE h == CHOOSE x : Goes(x)
<1>7. Goes(h)
  BY <1>6
<1>8. FromBytes(v) = h[n]
  BY DEF FromBytes
<1>. HIDE DEF h
<1>9. h[0] = 0 /\ \A k \in 1 .. n : h[k] = h[k - 1] * Radix + v[k]
  BY <1>0, <1>7
<1>10. \A k \in 1 .. n : h[k - 1] \in Nat => h[k] \in Nat
  BY <1>1, <1>9
<1>11. \A k \in 0 .. n : h[k] \in Nat
  <2>1. h[0] \in Nat
    BY <1>9
  <2>. HIDE DEF n
  <2>. QED BY <1>0, <1>10, <2>1, EveryRound
<1>12. FromRounds(v, h)
  BY <1>8, <1>9, <1>11 DEF FromRounds
<1>. QED BY <1>12

LEMMA FromBytesIs ==
    ASSUME NEW v \in Seq(ByteVals)
    PROVE  FromBytes(v) \in Nat
<1>1. PICK h : FromRounds(v, h)
  BY FromBytesRounds
<1>2. Len(v) \in 0 .. Len(v)
  OBVIOUS
<1>. QED BY <1>1, <1>2 DEF FromRounds

\* What readUint has after some rounds, beginning with b.
GroupsOf(b) ==
    {a \in [got : Seq(Int), b : Bufs, done : BOOLEAN] :
        /\ Later(b, a.b)
        /\ Len(a.got) > 0
        /\ a.got \in Nothing \/ a.got[1] \in Nat}

LEMMA GroupIs ==
    ASSUME NEW b \in Bufs, NEW a \in GroupsOf(b), NEW i \in Nat, NEW bits \in Nat
    PROVE  ReadGroup(a, i, bits) \in GroupsOf(b)
<1>. DEFINE r == Read(a.b, 1)
            t == r.got[1]
<1>1. a.b \in Bufs /\ a.got \in Seq(Int) /\ Len(a.got) > 0 /\ Later(b, a.b)
  BY DEF GroupsOf
<1>2. Later(a.b, r.b) /\ (r.got \in Nothing \/ (r.got \in Seq(ByteVals) /\ Len(r.got) = 1))
  BY <1>1, ReadIs
<1>3. Later(b, r.b)
  BY <1>1, <1>2, LaterTrans
<1>4. r.b \in Bufs
  BY <1>2 DEF Later
<1>5. CASE a.done
  BY <1>5 DEF ReadGroup
<1>6. CASE ~a.done /\ r.got \in Nothing
  <2>1. ReadGroup(a, i, bits) = [got |-> r.got, b |-> r.b, done |-> TRUE]
    BY <1>6 DEF ReadGroup, Nothing
  <2>2. r.got \in Seq(Int) /\ Len(r.got) > 0
    <3>1. -1 \in Int /\ -2 \in Int
      OBVIOUS
    <3>2. Thrown \in Seq(Int) /\ Len(Thrown) = 2
      BY <3>1 DEF Thrown
    <3>3. Undefined \in Seq(Int) /\ Len(Undefined) = 2
      BY <3>1 DEF Undefined
    <3>4. CASE r.got = Thrown
      <4>1. r.got \in Seq(Int) /\ Len(r.got) = 2
        BY <3>2, <3>4, Zenon
      <4>. HIDE DEF r
      <4>. QED BY <4>1
    <3>5. CASE r.got = Undefined
      <4>1. r.got \in Seq(Int) /\ Len(r.got) = 2
        BY <3>3, <3>5, Zenon
      <4>. HIDE DEF r
      <4>. QED BY <4>1
    <3>. QED BY <1>6, <3>4, <3>5 DEF Nothing
  <2>. HIDE DEF r
  <2>. QED BY <1>3, <1>4, <1>6, <2>1, <2>2 DEF GroupsOf
<1>7. CASE ~a.done /\ r.got \notin Nothing
  <2>. DEFINE u == (a.got[1] + (t % Top) * 2^i) % 2^bits
  <2>1. ReadGroup(a, i, bits) = [got |-> <<u>>, b |-> r.b, done |-> t < Top]
    BY <1>7 DEF ReadGroup, Nothing
  <2>2. t \in Nat
    <3>1. t \in ByteVals
      BY <1>2, <1>7
    <3>. QED BY <3>1, Constants
  <2>3. 2^i \in Nat \ {0} /\ 2^bits \in Nat \ {0} /\ Top \in Nat \ {0}
    BY Power, Constants
  <2>4. t % Top \in Nat
    BY <2>2, <2>3, DivMod
  <2>5. (t % Top) * 2^i \in Nat
    BY <2>3, <2>4, Times
  <2>6. a.got[1] \in Int
    BY <1>1
  <2>7. u \in Nat
    <3>. DEFINE x == a.got[1] + (t % Top) * 2^i
    <3>1. x \in Int
      BY <2>5, <2>6
    <3>. HIDE DEF x
    <3>2. x % 2^bits \in Nat
      BY <2>3, <3>1
    <3>. QED BY <3>2 DEF x
  <2>8. (t < Top) \in BOOLEAN
    BY <2>2, <2>3
  <2>. HIDE DEF u, r, t
  <2>9. <<u>> \in Seq(Int) /\ Len(<<u>>) > 0 /\ <<u>>[1] \in Nat
    BY <2>7
  <2>. QED BY <1>3, <1>4, <2>1, <2>8, <2>9 DEF GroupsOf
<1>. QED BY <1>5, <1>6, <1>7

\* The rounds of readUint.
GroupRounds(b, bits, h) ==
    LET n == CeilDiv(bits, GroupBits) IN
    /\ h[0] = [got |-> <<0>>, b |-> b, done |-> FALSE]
    /\ \A k \in 1 .. n : h[k] = ReadGroup(h[k - 1], (k - 1) * GroupBits, bits)
    /\ \A k \in 0 .. n : h[k] \in GroupsOf(b)
    /\ ReadGroups(b, bits) = h[n]

LEMMA ReadGroupsRounds ==
    ASSUME NEW b \in Bufs, NEW bits \in Nat
    PROVE  \E h : GroupRounds(b, bits, h)
<1>. DEFINE n == CeilDiv(bits, GroupBits)
            first == [got |-> <<0>>, b |-> b, done |-> FALSE]
            D == GroupsOf(b)
            step == [k \in 1 .. n |-> [d \in D |-> ReadGroup(d, (k - 1) * GroupBits, bits)]]
            Goes(g) == g = [k \in 0 .. n |-> IF k = 0 THEN first
                                             ELSE ReadGroup(g[k - 1], (k - 1) * GroupBits, bits)]
<1>0. n \in Nat
  BY Constants, Ceiling
<1>. HIDE DEF n
<1>1. first \in D
  <2>1. Later(b, b)
    BY DEF Later
  <2>. QED BY <2>1 DEF GroupsOf
<1>. HIDE DEF D, first
<1>2. ASSUME NEW k \in 1 .. n, NEW d \in D PROVE ReadGroup(d, (k - 1) * GroupBits, bits) \in D
  <2>1. k - 1 \in Nat /\ GroupBits \in Nat \ {0}
    BY <1>0, Constants
  <2>2. (k - 1) * GroupBits \in Nat
    BY <2>1, Times
  <2>. QED BY <2>2, GroupIs DEF D
<1>3. step \in [1 .. n -> [D -> D]]
  BY <1>2
<1>4. PICK g : Iterates(g, D, first, n, step)
  <2>. HIDE DEF step
  <2>. QED BY <1>0, <1>1, <1>3, Iterate
<1>. HIDE DEF step
<1>5. DOMAIN g = 0 .. n /\ g = [k \in 0 .. n |-> g[k]]
  BY <1>4 DEF Iterates
<1>6. ASSUME NEW k \in 0 .. n
      PROVE  g[k] = IF k = 0 THEN first ELSE ReadGroup(g[k - 1], (k - 1) * GroupBits, bits)
  <2>1. CASE k = 0
    BY <1>4, <2>1 DEF Iterates
  <2>2. CASE k # 0
    <3>1. k \in 1 .. n /\ k - 1 \in 0 .. n
      BY <1>0, <2>2
    <3>2. g[k - 1] \in D /\ g[k] = step[k][g[k - 1]]
      BY <1>4, <3>1 DEF Iterates
    <3>3. step[k][g[k - 1]] = ReadGroup(g[k - 1], (k - 1) * GroupBits, bits)
      BY <3>1, <3>2 DEF step
    <3>. QED BY <2>2, <3>2, <3>3
  <2>. QED BY <2>1, <2>2
<1>7. Goes(g)
  BY <1>5, <1>6
<1>. DEFINE h == CHOOSE x : Goes(x)
<1>8. Goes(h)
  BY <1>7
<1>9. ReadGroups(b, bits) = h[n]
  BY DEF ReadGroups, n, first
<1>. HIDE DEF h
<1>10. h[0] = first /\ \A k \in 1 .. n : h[k] = ReadGroup(h[k - 1], (k - 1) * GroupBits, bits)
  BY <1>0, <1>8
<1>11. \A k \in 1 .. n : h[k - 1] \in D => h[k] \in D
  BY <1>2, <1>10
<1>12. \A k \in 0 .. n : h[k] \in D
  BY <1>0, <1>1, <1>10, <1>11, EveryRound
<1>13. GroupRounds(b, bits, h)
  BY <1>9, <1>10, <1>12 DEF GroupRounds, D, n, first
<1>. QED BY <1>13

LEMMA ReadGroupsIs ==
    ASSUME NEW b \in Bufs, NEW bits \in Nat
    PROVE  ReadGroups(b, bits) \in GroupsOf(b)
<1>1. PICK h : GroupRounds(b, bits, h)
  BY ReadGroupsRounds
<1>2. CeilDiv(bits, GroupBits) \in 0 .. CeilDiv(bits, GroupBits)
  BY Constants, Ceiling
<1>. QED BY <1>1, <1>2 DEF GroupRounds

\* What an int32_t can be.
IntRange == -(2^(WordBits - 1)) .. 2^(WordBits - 1) - 1

LEMMA Halves ==
    2^(WordBits - 1) \in Nat \ {0} /\ 2^WordBits = 2 * 2^(WordBits - 1)
<1>. DEFINE j == WordBits - 1
<1>1. j \in Nat /\ j + 1 = WordBits
  BY Constants
<1>. HIDE DEF j
<1>2. 2^(j + 1) = 2 * 2^j /\ 2^j \in Nat \ {0}
  BY <1>1, Power, PowerNext
<1>. QED BY <1>1, <1>2 DEF j

LEMMA Int32Is ==
    ASSUME NEW x \in Int
    PROVE  Int32(x) \in IntRange /\ Int32(x) \in Int
<1>. DEFINE k == 2^(WordBits - 1)
            m == 2^WordBits
            w == x % m
<1>1. k \in Nat \ {0} /\ m = 2 * k
  BY Halves
<1>2. Int32(x) = IF w >= k THEN w - m ELSE w
  BY DEF Int32
<1>. HIDE DEF k, m
<1>3. w \in 0 .. m - 1
  BY <1>1
<1>. HIDE DEF w
<1>4. Int32(x) \in -k .. k - 1 /\ Int32(x) \in Int
  BY <1>1, <1>2, <1>3
<1>. QED BY <1>4 DEF k, IntRange

LEMMA ReadUintIs ==
    ASSUME NEW b \in Bufs, NEW bits \in Nat
    PROVE  /\ Later(b, ReadUint(b, bits).b)
           /\ ReadUint(b, bits).got \in Nothing \/ ReadUint(b, bits).got[1] \in Int
<1>. DEFINE r == ReadGroups(b, bits)
<1>1. /\ r \in [got : Seq(Int), b : Bufs, done : BOOLEAN] /\ Later(b, r.b)
      /\ r.got \in Nothing \/ r.got[1] \in Nat
  BY ReadGroupsIs DEF GroupsOf
<1>2. ReadUint(b, bits) = IF r.got \in Nothing THEN r ELSE [r EXCEPT !.got = <<Int32(@[1])>>]
  BY DEF ReadUint, Nothing
<1>. HIDE DEF r
<1>3. CASE r.got \in Nothing
  BY <1>1, <1>2, <1>3
<1>4. CASE r.got \notin Nothing
  <2>1. Int32(r.got[1]) \in Int
    BY <1>1, <1>4, Int32Is
  <2>2. /\ ReadUint(b, bits).got = <<Int32(r.got[1])>> /\ ReadUint(b, bits).b = r.b
    BY <1>1, <1>2, <1>4
  <2>. QED BY <1>1, <2>1, <2>2
<1>. QED BY <1>3, <1>4

LEMMA ReadStringIs ==
    ASSUME NEW b \in Bufs, NEW w \in Nat
    PROVE  Later(b, ReadString(b, w).b)
<1>. DEFINE r == IF w = 0 THEN ReadUint(b, LongBits) ELSE ReadFixed(b, w)
            len == IF w = 0 THEN r.got[1] % 2^LongBits ELSE FromBytes(r.got)
<1>1. Later(b, r.b)
  <2>1. CASE w = 0
    BY <2>1, ReadUintIs, Constants
  <2>2. CASE w # 0
    BY <2>2, ReadFixedIs
  <2>. QED BY <2>1, <2>2
<1>2. CASE r.got \in Nothing
  <2>1. ReadString(b, w) = [got |-> r.got, b |-> r.b]
    BY <1>2 DEF ReadString, Nothing
  <2>. HIDE DEF r
  <2>. QED BY <1>1, <2>1
<1>3. CASE r.got \notin Nothing
  <2>1. len \in Nat
    <3>1. CASE w = 0
      <4>1. r.got[1] \in Int
        BY <1>3, <3>1, ReadUintIs, Constants
      <4>. DEFINE m == 2^LongBits
                  g == r.got[1]
      <4>2. m \in Nat \ {0} /\ g \in Int
        BY <4>1, Power, Constants
      <4>. HIDE DEF m, g
      <4>3. g % m \in Nat
        BY <4>2
      <4>. QED BY <3>1, <4>3 DEF m, g
    <3>2. CASE w # 0
      BY <1>3, <3>2, ReadFixedIs, FromBytesIs
    <3>. QED BY <3>1, <3>2
  <2>2. ReadString(b, w) = Read(r.b, len)
    BY <1>3 DEF ReadString, Nothing
  <2>. HIDE DEF r, len
  <2>3. r.b \in Bufs
    BY <1>1 DEF Later
  <2>4. Later(r.b, Read(r.b, len).b)
    BY <2>1, <2>3, ReadIs
  <2>. QED BY <1>1, <2>2, <2>4, LaterTrans
<1>. QED BY <1>2, <1>3

-----------------------------------------------------------------------------
(* The bytes of integers                                                     *)

LEMMA TopIsMore ==
    Top \in Nat /\ Top >= 2
<1>1. GroupBits \in Nat \ {0} /\ Top \in Nat \ {0}
  BY Constants
<1>2. IsFiniteSet(1 .. GroupBits) /\ Cardinality(1 .. GroupBits) = GroupBits
  BY <1>1, FS_Interval
<1>3. IsFiniteSet(SUBSET (1 .. GroupBits)) /\ Cardinality(SUBSET (1 .. GroupBits)) = Top
  BY <1>2, FS_SUBSET DEF Top
<1>4. IsFiniteSet({1 .. GroupBits}) /\ Cardinality({1 .. GroupBits}) = 1
  BY FS_Singleton
<1>5. ASSUME Top = 1 PROVE FALSE
  <2>1. {1 .. GroupBits} \subseteq SUBSET (1 .. GroupBits)
    OBVIOUS
  <2>2. {1 .. GroupBits} = SUBSET (1 .. GroupBits)
    BY <1>3, <1>4, <1>5, <2>1, FS_Subset
  <2>3. {} \in SUBSET (1 .. GroupBits) /\ {} # 1 .. GroupBits
    BY <1>1
  <2>. QED BY <2>2, <2>3
<1>. QED BY <1>1, <1>5

LEMMA Shrinks ==
    ASSUME NEW u \in Nat, u >= Top
    PROVE  u \div Top \in Nat /\ u \div Top < u
<1>. DEFINE q == u \div Top
<1>1. Top \in Nat \ {0} /\ Top >= 2
  BY TopIsMore
<1>2. q \in Nat /\ u % Top \in Nat /\ u = q * Top + (u % Top)
  BY <1>1, DivMod
<1>. HIDE DEF q
<1>3. PICK d \in Nat : Top = 2 + d
  <2>1. Top - 2 \in Nat /\ Top = 2 + (Top - 2)
    BY <1>1
  <2>. QED BY <2>1
<1>4. q * Top = q * 2 + q * d /\ q * d \in Nat
  BY <1>2, <1>3
<1>5. u >= q + q
  BY <1>2, <1>4
<1>6. q < u
  BY <1>1, <1>2, <1>5
<1>. QED BY <1>2, <1>6 DEF q

\* A group with the highest bit set.
Group(u) == <<(u % Top) + Top>>

LEMMA GroupTyped ==
    ASSUME NEW u \in Nat
    PROVE  Group(u) \in Seq(ByteVals)
<1>1. Top \in Nat \ {0} /\ Radix = 2 * Top
  BY Constants
<1>2. u % Top \in Nat /\ u % Top < Top
  BY <1>1, DivMod
<1>3. (u % Top) + Top \in ByteVals
  BY <1>1, <1>2 DEF ByteVals
<1>. QED BY <1>3 DEF Group

\* g is the variable-length form of the integers up to m.
Codes(g, m) ==
    /\ g \in [0 .. m -> Seq(ByteVals)]
    /\ \A u \in 0 .. m : g[u] = IF u < Top THEN <<>> ELSE Group(u) \o g[u \div Top]

LEMMA CodesExist ==
    ASSUME NEW m \in Nat
    PROVE  \E g : Codes(g, m)
<1>. DEFINE S == {k \in Nat : \E g : Codes(g, k)}
            Z == [u \in 0 .. 0 |-> <<>>]
<1>0. Top \in Nat /\ Top >= 2
  BY TopIsMore
<1>1. 0 \in S
  <2>1. Z \in [0 .. 0 -> Seq(ByteVals)] /\ \A u \in 0 .. 0 : u < Top /\ Z[u] = <<>>
    BY <1>0
  <2>. HIDE DEF Z
  <2>2. Codes(Z, 0)
    BY <2>1 DEF Codes
  <2>. QED BY <2>2
<1>2. ASSUME NEW k \in Nat, k \in S PROVE k + 1 \in S
  <2>1. PICK g : Codes(g, k)
    BY <1>2
  <2>. DEFINE new == IF k + 1 < Top THEN <<>> ELSE Group(k + 1) \o g[(k + 1) \div Top]
              h == [u \in 0 .. k + 1 |-> IF u = k + 1 THEN new ELSE g[u]]
  <2>2. g \in [0 .. k -> Seq(ByteVals)]
    BY <2>1 DEF Codes
  <2>3. k + 1 >= Top => (k + 1) \div Top \in 0 .. k
    <3>1. k + 1 \in Nat
      OBVIOUS
    <3>2. k + 1 >= Top => (k + 1) \div Top \in Nat /\ (k + 1) \div Top < k + 1
      BY <3>1, Shrinks
    <3>. QED BY <3>2
  <2>4. new \in Seq(ByteVals)
    <3>1. CASE k + 1 < Top
      BY <3>1
    <3>2. CASE ~(k + 1 < Top)
      <4>1. g[(k + 1) \div Top] \in Seq(ByteVals)
        BY <1>0, <2>2, <2>3, <3>2
      <4>2. Group(k + 1) \in Seq(ByteVals)
        BY GroupTyped
      <4>. QED BY <3>2, <4>1, <4>2
    <3>. QED BY <3>1, <3>2
  <2>5. h[k + 1] = new /\ \A u \in 0 .. k : h[u] = g[u]
    <3>. HIDE DEF new
    <3>. QED OBVIOUS
  <2>6. h \in [0 .. k + 1 -> Seq(ByteVals)]
    <3>. HIDE DEF new
    <3>. QED BY <2>2, <2>4
  <2>. HIDE DEF h
  <2>7. ASSUME NEW u \in 0 .. k + 1
        PROVE  h[u] = IF u < Top THEN <<>> ELSE Group(u) \o h[u \div Top]
    <3>1. u >= Top => u \div Top \in 0 .. k
      <4>1. u \in Nat
        OBVIOUS
      <4>2. u >= Top => u \div Top \in Nat /\ u \div Top < u
        BY <4>1, Shrinks
      <4>. QED BY <4>2
    <3>2. u >= Top => h[u \div Top] = g[u \div Top]
      BY <2>5, <3>1
    <3>3. CASE u = k + 1
      BY <1>0, <2>5, <3>2, <3>3
    <3>4. CASE u # k + 1
      <4>1. u \in 0 .. k
        BY <3>4
      <4>2. g[u] = IF u < Top THEN <<>> ELSE Group(u) \o g[u \div Top]
        BY <2>1, <4>1 DEF Codes
      <4>. QED BY <1>0, <2>5, <3>2, <4>1, <4>2
    <3>. QED BY <3>3, <3>4
  <2>8. Codes(h, k + 1)
    BY <2>6, <2>7 DEF Codes
  <2>. QED BY <2>8
<1>3. m \in S
  <2>. HIDE DEF S
  <2>. QED BY <1>1, <1>2, SetInduction
<1>. QED BY <1>3

LEMMA CodesUnique ==
    ASSUME NEW m \in Nat, NEW k \in Nat, NEW g, NEW h, Codes(g, m), Codes(h, k),
           NEW x \in Nat, x <= m, x <= k
    PROVE  g[x] = h[x]
<1>. DEFINE S == {j \in Nat : \A u \in 0 .. j : u <= m /\ u <= k => g[u] = h[u]}
<1>0. Top \in Nat /\ Top >= 2
  BY TopIsMore
<1>1. ASSUME NEW u \in Nat, u <= m, u <= k, \A v \in Nat : v < u => g[v] = h[v] PROVE g[u] = h[u]
  <2>1. /\ g[u] = IF u < Top THEN <<>> ELSE Group(u) \o g[u \div Top]
        /\ h[u] = IF u < Top THEN <<>> ELSE Group(u) \o h[u \div Top]
    <3>1. u \in 0 .. m /\ u \in 0 .. k
      BY <1>1
    <3>. QED BY <3>1 DEF Codes
  <2>2. CASE u < Top
    BY <2>1, <2>2
  <2>3. CASE u >= Top
    <3>1. u \div Top \in Nat /\ u \div Top < u
      BY <2>3, Shrinks
    <3>2. g[u \div Top] = h[u \div Top]
      BY <1>1, <3>1
    <3>. QED BY <2>1, <3>2
  <2>. QED BY <1>0, <2>2, <2>3
<1>2. 0 \in S
  <2>1. g[0] = h[0]
    BY <1>1
  <2>. QED BY <2>1
<1>3. ASSUME NEW j \in Nat, j \in S PROVE j + 1 \in S
  <2>1. ASSUME NEW u \in 0 .. j + 1, u <= m, u <= k PROVE g[u] = h[u]
    <3>1. \A v \in Nat : v < u => g[v] = h[v]
      <4>1. ASSUME NEW v \in Nat, v < u PROVE g[v] = h[v]
        <5>1. v \in 0 .. j /\ v <= m /\ v <= k
          BY <2>1, <4>1
        <5>. QED BY <1>3, <5>1
      <4>. QED BY <4>1
    <3>2. u \in Nat
      OBVIOUS
    <3>. QED BY <1>1, <2>1, <3>1, <3>2
  <2>. QED BY <2>1
<1>4. x \in S
  <2>. HIDE DEF S
  <2>. QED BY <1>2, <1>3, SetInduction
<1>. QED BY <1>4

\* The equation that Varint stands for has a solution.
LEMMA VarintEquation ==
    \A u \in Nat : Varint[u] = IF u < Top THEN <<>> ELSE Group(u) \o Varint[u \div Top]
<1>. DEFINE Goes(g) == g = [u \in Nat |-> IF u < Top THEN <<>> ELSE <<(u % Top) + Top>> \o g[u \div Top]]
            code(m) == CHOOSE g : Codes(g, m)
            V == [u \in Nat |-> code(u)[u]]
<1>0. Top \in Nat /\ Top >= 2
  BY TopIsMore
<1>1. ASSUME NEW m \in Nat PROVE Codes(code(m), m)
  BY CodesExist
<1>. HIDE DEF code
<1>2. ASSUME NEW u \in Nat PROVE V[u] = IF u < Top THEN <<>> ELSE <<(u % Top) + Top>> \o V[u \div Top]
  <2>1. V[u] = code(u)[u] /\ Codes(code(u), u)
    BY <1>1
  <2>2. code(u)[u] = IF u < Top THEN <<>> ELSE Group(u) \o code(u)[u \div Top]
    BY <2>1 DEF Codes
  <2>3. CASE u < Top
    BY <2>1, <2>2, <2>3
  <2>4. CASE u >= Top
    <3>1. u \div Top \in Nat /\ u \div Top < u
      BY <2>4, Shrinks
    <3>2. V[u \div Top] = code(u \div Top)[u \div Top]
      BY <3>1
    <3>3. Codes(code(u \div Top), u \div Top)
      BY <1>1, <3>1
    <3>4. u \div Top <= u /\ u \div Top <= u \div Top
      BY <3>1
    <3>5. code(u)[u \div Top] = code(u \div Top)[u \div Top]
      BY <2>1, <3>1, <3>3, <3>4, CodesUnique
    <3>7. ~(u < Top)
      BY <1>0, <2>4
    <3>. HIDE DEF V
    <3>6. V[u] = Group(u) \o V[u \div Top]
      BY <2>1, <2>2, <3>2, <3>5, <3>7
    <3>. QED BY <1>0, <2>4, <3>6 DEF Group
  <2>. QED BY <1>0, <2>3, <2>4
<1>3. V = [u \in Nat |-> V[u]]
  OBVIOUS
<1>. HIDE DEF V
<1>4. Goes(V)
  BY <1>2, <1>3
<1>5. Goes(Varint)
  BY <1>4 DEF Varint
<1>. QED BY <1>5 DEF Group

LEMMA VarintIs ==
    ASSUME NEW x \in Nat
    PROVE  Varint[x] \in Seq(ByteVals)
<1>. DEFINE S == {j \in Nat : \A u \in 0 .. j : Varint[u] \in Seq(ByteVals)}
<1>0. Top \in Nat /\ Top >= 2
  BY TopIsMore
<1>6. \A u \in Nat : Varint[u] = IF u < Top THEN <<>> ELSE Group(u) \o Varint[u \div Top]
  BY VarintEquation
<1>7. ASSUME NEW u \in Nat, \A v \in Nat : v < u => Varint[v] \in Seq(ByteVals)
      PROVE  Varint[u] \in Seq(ByteVals)
  <2>1. CASE u < Top
    <3>1. Varint[u] = <<>> /\ <<>> \in Seq(ByteVals)
      BY <1>6, <2>1
    <3>. QED BY <3>1
  <2>2. CASE u >= Top
    <3>1. u \div Top \in Nat /\ u \div Top < u
      BY <2>2, Shrinks
    <3>2. Varint[u \div Top] \in Seq(ByteVals) /\ Group(u) \in Seq(ByteVals)
      BY <1>7, <3>1, GroupTyped
    <3>3. ~(u < Top)
      BY <1>0, <2>2
    <3>4. Varint[u] = Group(u) \o Varint[u \div Top]
      BY <1>6, <3>3
    <3>. QED BY <3>2, <3>4
  <2>. QED BY <1>0, <2>1, <2>2
<1>8. 0 \in S
  <2>1. Varint[0] \in Seq(ByteVals)
    BY <1>7
  <2>. QED BY <2>1
<1>9. ASSUME NEW j \in Nat, j \in S PROVE j + 1 \in S
  <2>1. ASSUME NEW u \in 0 .. j + 1 PROVE Varint[u] \in Seq(ByteVals)
    <3>1. \A v \in Nat : v < u => v \in 0 .. j
      OBVIOUS
    <3>2. \A v \in Nat : v < u => Varint[v] \in Seq(ByteVals)
      BY <1>9, <3>1
    <3>3. u \in Nat
      OBVIOUS
    <3>. QED BY <1>7, <3>2, <3>3
  <2>. QED BY <2>1
<1>10. x \in S
  <2>. HIDE DEF S
  <2>. QED BY <1>8, <1>9, SetInduction
<1>. QED BY <1>10

LEMMA FixedIs ==
    ASSUME NEW b, NEW v \in Seq(ByteVals)
    PROVE  Fixed(b, v) \in Seq(ByteVals)
  BY Reversed DEF Fixed

LEMMA ToBytesIs ==
    ASSUME NEW n \in Nat, NEW w \in Nat
    PROVE  ToBytes(n, w) \in Seq(ByteVals)
<1>1. ASSUME NEW i \in 1 .. w
      PROVE  (n \div 2^((w - i) * (GroupBits + 1))) % Radix \in ByteVals
  <2>. DEFINE x == (w - i) * (GroupBits + 1)
              q == n \div 2^x
  <2>1. w - i \in Nat /\ GroupBits + 1 \in Nat \ {0}
    BY Constants
  <2>2. x \in Nat
    BY <2>1, Times
  <2>. HIDE DEF x
  <2>3. 2^x \in Nat \ {0}
    BY <2>2, Power
  <2>4. q \in Nat
    BY <2>3, DivMod
  <2>. HIDE DEF q
  <2>5. q % Radix \in Nat /\ q % Radix < Radix /\ Radix \in Nat
    BY <2>4, Constants, DivMod
  <2>6. q % Radix \in ByteVals
    BY <2>5 DEF ByteVals
  <2>. QED BY <2>6 DEF q, x
<1>2. ToBytes(n, w) \in [1 .. w -> ByteVals]
  BY <1>1 DEF ToBytes
<1>. QED BY <1>2

LEMMA StringIs ==
    ASSUME NEW s \in Strings
    PROVE  s \in Seq(ByteVals) /\ Len(s) \in Nat
<1>1. PICK n \in 0 .. MaxWrite : s \in [1 .. n -> Data]
  BY DEF Strings
<1>2. n \in Nat
  BY ByteArrayAssumption
<1>3. s \in [1 .. n -> ByteVals]
  BY <1>1, Constants
<1>. QED BY <1>2, <1>3

-----------------------------------------------------------------------------
(* setPosition, and the buffers given to the kernel                          *)

LEMMA SetPositionIs ==
    ASSUME NEW b \in Bufs, NEW v \in Nat
    PROVE  LET c == SetPosition(b, v) IN
           /\ c \in Bufs
           /\ v > Len(b.mem) => c = b
           /\ v <= Len(b.mem) => /\ c.mem = b.mem /\ c.pos = v
                                 /\ c.size = IF v > b.size THEN v ELSE b.size
                                 /\ ~b.dead => EdgeOnly(c)
<1>. DEFINE c == SetPosition(b, v)
            size == IF v > b.size THEN v ELSE b.size
<1>0. /\ b \in BufRec /\ b.mem \in Seq(ByteVals) /\ Len(b.mem) \in Nat /\ b.dead \in BOOLEAN
      /\ b.pos \in Nat /\ b.size \in Nat /\ b.pos <= b.size /\ b.size <= Len(b.mem)
      /\ Nodes(b) \in Nat \ {0} /\ Len(b.mem) = Nodes(b) * Base /\ Base \in Nat \ {0}
  BY InChain, Constants
<1>1. CASE v > Len(b.mem)
  <2>1. c = b /\ ~(v <= Len(b.mem))
    BY <1>0, <1>1 DEF SetPosition
  <2>. QED BY <2>1
<1>2. size \in Nat /\ v <= size /\ (v <= Len(b.mem) => size <= Len(b.mem))
  BY <1>0
<1>3. CASE v = Len(b.mem)
  <2>. DEFINE d == [b EXCEPT !.pos = v, !.size = size, !.cur = Null]
  <2>1. c = Crash(d)
    BY <1>0, <1>3 DEF SetPosition
  <2>. HIDE DEF size, c
  <2>2. d \in BufRec /\ d.mem = b.mem /\ d.pos = v /\ d.size = size /\ d.cur = 0
    BY <1>0, <1>2 DEF BufRec, Null
  <2>. HIDE DEF d
  <2>3. d \in Bufs
    <3>1. Len(d.mem) = Nodes(b) * Base /\ d.cur <= Nodes(b) /\ d.pos <= d.size /\ d.size <= Len(d.mem)
      BY <1>0, <1>2, <1>3, <2>2
    <3>. QED BY <1>0, <2>2, <3>1, MakeBuf
  <2>4. c \in Bufs /\ c.dead /\ c.mem = b.mem /\ c.pos = v /\ c.size = size
    BY <2>1, <2>2, <2>3, Crashed
  <2>5. EdgeOnly(c) /\ ~(v > Len(b.mem))
    BY <1>0, <1>3, <2>4 DEF EdgeOnly
  <2>. QED BY <2>4, <2>5 DEF size, c
<1>4. CASE v < Len(b.mem)
  <2>. DEFINE q == v \div Base
  <2>1. c = [b EXCEPT !.pos = v, !.size = size, !.cur = q + 1]
    BY <1>0, <1>4 DEF SetPosition
  <2>2. q \in Nat /\ v % Base \in Nat /\ v = q * Base + (v % Base)
    BY <1>0, DivMod
  <2>. HIDE DEF size, c, q
  <2>3. q < Nodes(b)
    <3>1. q * Base \in Nat /\ Nodes(b) * Base \in Nat
      BY <1>0, <2>2, Times
    <3>2. q * Base < Nodes(b) * Base
      BY <1>0, <1>4, <2>2, <3>1
    <3>. QED BY <1>0, <2>2, <3>2, Times
  <2>4. c \in BufRec /\ c.mem = b.mem /\ c.pos = v /\ c.size = size /\ c.cur = q + 1 /\ c.dead = b.dead
    <3>1. q + 1 \in Nat
      BY <2>2
    <3>. QED BY <1>0, <1>2, <2>1, <3>1 DEF BufRec
  <2>5. c.cur <= Nodes(b)
    BY <1>0, <2>2, <2>3, <2>4
  <2>6. c \in Bufs
    BY <1>0, <1>2, <1>4, <2>4, <2>5, MakeBuf
  <2>7. v # Len(b.mem) /\ ~(v > Len(b.mem))
    BY <1>0, <1>4
  <2>8. Follows(c)
    BY <2>4, <2>7 DEF Follows, q
  <2>9. ~b.dead => EdgeOnly(c)
    BY <2>4, <2>8 DEF EdgeOnly
  <2>. QED BY <2>4, <2>6, <2>7, <2>9 DEF size, c
<1>. QED BY <1>0, <1>1, <1>3, <1>4

\* Consecutive places, from a + 1 on.
From(a, n) == [i \in 1 .. n |-> a + i]

LEMMA FromConcat ==
    ASSUME NEW a \in Nat, NEW m \in Nat, NEW n \in Nat
    PROVE  From(a, m) \o From(a + m, n) = From(a, m + n)
<1>. DEFINE s == From(a, m)
            t == From(a + m, n)
            u == From(a, m + n)
<1>1. /\ s \in Seq(Nat) /\ Len(s) = m /\ \A i \in 1 .. m : s[i] = a + i
      /\ t \in Seq(Nat) /\ Len(t) = n /\ \A i \in 1 .. n : t[i] = a + m + i
      /\ u \in Seq(Nat) /\ Len(u) = m + n /\ \A i \in 1 .. m + n : u[i] = a + i
  BY DEF From
<1>. HIDE DEF s, t, u
<1>5. s \in Seq(Nat) /\ Len(s) = m /\ t \in Seq(Nat) /\ Len(t) = n
  BY <1>1
<1>2. /\ s \o t \in Seq(Nat) /\ Len(s \o t) = m + n
      /\ \A i \in 1 .. m + n : (s \o t)[i] = IF i <= m THEN s[i] ELSE t[i - m]
  BY <1>5, ConcatProperties
<1>3. ASSUME NEW i \in 1 .. m + n PROVE (s \o t)[i] = u[i]
  <2>1. CASE i <= m
    <3>1. i \in 1 .. m /\ (s \o t)[i] = s[i]
      BY <1>2, <2>1
    <3>. QED BY <1>1, <3>1
  <2>2. CASE i > m
    <3>1. i - m \in 1 .. n /\ (s \o t)[i] = t[i - m]
      BY <1>2, <2>2
    <3>2. t[i - m] = a + m + (i - m) /\ u[i] = a + i
      BY <1>1, <3>1
    <3>. QED BY <3>1, <3>2
  <2>3. i <= m \/ i > m
    OBVIOUS
  <2>. QED BY <2>1, <2>2, <2>3
<1>4. s \o t = u
  BY <1>1, <1>2, <1>3, SeqEqual
<1>. QED BY <1>4 DEF s, t, u

\* The iovecs of len bytes, laid end to end, are the len bytes behind where they start.
LEMMA PlacesAre ==
    ASSUME NEW c \in Nat \ {0}, NEW o \in Nat, o < Base, NEW len \in Nat \ {0}
    PROVE  Places(Iovecs(c, o, len)) = From(Ahead(c, o), len)
<1>. DEFINE K == CeilDiv(o + len, Base)
            a == Ahead(c, o)
            Total(k) == Smaller(len, k * Base - o)
            seg(k) == IF k = 1 THEN From(a, Smaller(len, Base - o))
                      ELSE From(Ahead(c + k - 1, 0), Smaller(Base, o + len - (k - 1) * Base))
            segs == [k \in 1 .. K |-> seg(k)]
            G == [k \in 1 .. K |-> From(a, Total(k))]
            Goes(g) == g = [k \in 1 .. K |-> IF k = 1 THEN segs[k] ELSE g[k - 1] \o segs[k]]
<1>0. Base \in Nat \ {0} /\ c - 1 \in Nat /\ (c - 1) * Base \in Nat
  <2>1. Base \in Nat \ {0} /\ c - 1 \in Nat
    BY Constants
  <2>. QED BY <2>1, Times
<1>1. a \in Nat /\ a = (c - 1) * Base + o
  BY <1>0 DEF Ahead
<1>2. K \in Nat /\ K > 0 /\ K * Base >= o + len /\ K * Base < o + len + Base /\ K * Base \in Nat
  <2>1. o + len \in Nat /\ o + len > 0
    OBVIOUS
  <2>2. K \in Nat
    BY <1>0, <2>1, Ceiling
  <2>. QED BY <1>0, <2>1, <2>2, Ceiling, Times
<1>3. Places(Iovecs(c, o, len)) = FlattenSeq(segs)
  <2>. DEFINE iovs == Iovecs(c, o, len)
  <2>1. DOMAIN iovs = 1 .. K
    BY DEF Iovecs
  <2>2. ASSUME NEW k \in 1 .. K PROVE [i \in 1 .. iovs[k].len |-> iovs[k].at + i] = seg(k)
    <3>1. CASE k = 1
      BY <3>1 DEF Iovecs, From
    <3>2. CASE k # 1
      BY <3>2 DEF Iovecs, From
    <3>. QED BY <3>1, <3>2
  <2>. HIDE DEF iovs, K, seg
  <2>3. [k \in DOMAIN iovs |-> [i \in 1 .. iovs[k].len |-> iovs[k].at + i]] = segs
    BY <2>1, <2>2
  <2>. HIDE DEF segs
  <2>. QED BY <2>3 DEF Places, iovs
<1>. HIDE DEF K, a
<1>4. G[1] = segs[1]
  <2>1. 1 \in 1 .. K /\ 1 * Base = Base
    BY <1>0, <1>2
  <2>. QED BY <2>1
<1>5. ASSUME NEW k \in 1 .. K, k # 1 PROVE G[k] = G[k - 1] \o segs[k]
  <2>. DEFINE j == k - 1
              m == j * Base - o
              l == Smaller(Base, o + len - j * Base)
  <2>1. j \in Nat /\ j > 0 /\ j \in 1 .. K /\ j + 1 <= K
    BY <1>2, <1>5
  <2>2. j * Base \in Nat /\ (j + 1) * Base = j * Base + Base /\ j * Base >= Base
    <3>1. j * Base \in Nat /\ (j + 1) * Base = j * Base + Base
      BY <1>0, <2>1, Times
    <3>2. 0 * Base + Base <= j * Base /\ 0 * Base = 0
      BY <1>0, <2>1, Times
    <3>. QED BY <1>0, <3>1, <3>2
  <2>3. (j + 1) * Base <= K * Base
    BY <1>0, <1>2, <2>1, Times
  <2>4. j * Base < o + len
    BY <1>0, <1>2, <2>2, <2>3
  <2>5. m \in Nat /\ m < len
    BY <1>0, <2>2, <2>4
  <2>6. l \in Nat
    BY <1>0, <2>2, <2>4 DEF Smaller
  <2>7. Total(j) = m
    BY <2>5 DEF Smaller
  <2>8. Total(k) = m + l
    <3>1. k = j + 1
      BY <1>2
    <3>2. PICK x \in Nat : x = j * Base
      BY <2>2
    <3>3. x >= Base /\ x < o + len /\ k * Base = x + Base /\ m = x - o /\ l = Smaller(Base, o + len - x)
      BY <2>2, <2>4, <3>1, <3>2
    <3>. HIDE DEF m, l
    <3>4. Smaller(len, x + Base - o) = m + l
      BY <1>0, <3>3 DEF Smaller
    <3>5. Total(k) = Smaller(len, x + Base - o)
      <4>1. k * Base - o = x + Base - o
        BY <1>0, <3>3
      <4>. QED BY <4>1
    <3>. QED BY <3>4, <3>5
  <2>9. Ahead(c + k - 1, 0) = a + m
    <3>1. c + k - 1 - 1 = (c - 1) + j
      BY <1>2
    <3>2. ((c - 1) + j) * Base = (c - 1) * Base + j * Base
      BY <1>0, <2>1, Times
    <3>3. Ahead(c + k - 1, 0) = (c - 1) * Base + j * Base + 0
      BY <3>1, <3>2 DEF Ahead
    <3>. QED BY <1>0, <1>1, <2>2, <3>3
  <2>10. segs[k] = From(a + m, l)
    BY <1>5, <2>9
  <2>11. G[k] = From(a, m + l) /\ G[k - 1] = From(a, m)
    BY <2>1, <2>7, <2>8
  <2>. HIDE DEF m, l, G, segs
  <2>12. From(a, m) \o From(a + m, l) = From(a, m + l)
    BY <1>1, <2>5, <2>6, FromConcat
  <2>. QED BY <2>10, <2>11, <2>12
<1>. HIDE DEF seg, segs, Total
<1>6. Goes(G)
  <2>1. G = [k \in 1 .. K |-> G[k]]
    OBVIOUS
  <2>. HIDE DEF G
  <2>. QED BY <1>4, <1>5, <2>1
<1>. DEFINE h == CHOOSE g : Goes(g)
<1>7. Goes(h)
  BY <1>6
<1>8. FlattenSeq(segs) = h[K]
  <2>1. Len(segs) = K
    BY <1>2 DEF segs
  <2>2. Len(segs) # 0
    BY <1>2, <2>1
  <2>. QED BY <2>1, <2>2 DEF FlattenSeq
<1>. HIDE DEF h
<1>9. h[1] = segs[1] /\ \A k \in 1 .. K : k # 1 => h[k] = h[k - 1] \o segs[k]
  <2>1. \A k \in 1 .. K : h[k] = IF k = 1 THEN segs[k] ELSE h[k - 1] \o segs[k]
    BY <1>7
  <2>2. 1 \in 1 .. K
    BY <1>2
  <2>. QED BY <2>1, <2>2
<1>10. h[K] = G[K]
  <2>. DEFINE S == {m \in Nat : m + 1 <= K => h[m + 1] = G[m + 1]}
  <2>. HIDE DEF G
  <2>1. 0 \in S
    BY <1>4, <1>9
  <2>2. ASSUME NEW m \in Nat, m \in S PROVE m + 1 \in S
    <3>1. ASSUME m + 1 + 1 <= K PROVE h[m + 1 + 1] = G[m + 1 + 1]
      <4>. DEFINE k == m + 1 + 1
      <4>1. k \in 1 .. K /\ k # 1 /\ k - 1 = m + 1 /\ h[m + 1] = G[m + 1]
        BY <1>2, <2>2, <3>1
      <4>. HIDE DEF k
      <4>2. h[k] = G[k]
        BY <1>5, <1>9, <4>1
      <4>. QED BY <4>2 DEF k
    <3>. QED BY <3>1
  <2>3. K - 1 \in S
    <3>1. K - 1 \in Nat
      BY <1>2
    <3>. HIDE DEF S
    <3>. QED BY <2>1, <2>2, <3>1, SetInduction
  <2>4. K - 1 + 1 = K
    BY <1>2
  <2>. QED BY <1>2, <2>3, <2>4
<1>11. G[K] = From(a, len)
  <2>1. Total(K) = len
    BY <1>0, <1>2 DEF Total, Smaller
  <2>2. K \in 1 .. K
    BY <1>2
  <2>. QED BY <2>1, <2>2
<1>. QED BY <1>3, <1>8, <1>10, <1>11 DEF a

\* The kernel fills the iovecs as write() would store the bytes.
LEMMA FilledIs ==
    ASSUME NEW mem \in Seq(ByteVals), NEW a \in Nat, NEW data \in Seq(ByteVals)
    PROVE  [i \in DOMAIN mem |-> IF \E k \in DOMAIN data : From(a, Len(data))[k] = i
                                 THEN data[CHOOSE k \in DOMAIN data : From(a, Len(data))[k] = i]
                                 ELSE mem[i]] = Stored(mem, a, data)
<1>. DEFINE n == Len(data)
<1>1. n \in Nat /\ DOMAIN data = 1 .. n /\ Len(mem) \in Nat /\ DOMAIN mem = 1 .. Len(mem)
  OBVIOUS
<1>2. \A k \in 1 .. n : From(a, n)[k] = a + k
  BY DEF From
<1>3. ASSUME NEW i \in DOMAIN mem
      PROVE  (IF \E k \in DOMAIN data : From(a, n)[k] = i
              THEN data[CHOOSE k \in DOMAIN data : From(a, n)[k] = i] ELSE mem[i])
             = IF i \in a + 1 .. a + n THEN data[i - a] ELSE mem[i]
  <2>0. i \in Nat
    BY <1>1
  <2>1. CASE i \in a + 1 .. a + n
    <3>1. i - a \in DOMAIN data /\ From(a, n)[i - a] = i
      <4>1. i - a \in 1 .. n
        BY <1>1, <2>0, <2>1
      <4>2. From(a, n)[i - a] = a + (i - a)
        BY <1>2, <4>1
      <4>. QED BY <1>1, <2>0, <4>1, <4>2
    <3>2. \A k \in DOMAIN data : From(a, n)[k] = i => k = i - a
      BY <1>1, <1>2, <2>0
    <3>3. (CHOOSE k \in DOMAIN data : From(a, n)[k] = i) = i - a
      BY <3>1, <3>2
    <3>. QED BY <2>1, <3>1, <3>3
  <2>2. CASE i \notin a + 1 .. a + n
    <3>1. ~ \E k \in DOMAIN data : From(a, n)[k] = i
      BY <1>1, <1>2, <2>0, <2>2
    <3>. QED BY <2>2, <3>1
  <2>. QED BY <2>1, <2>2
<1>. QED BY <1>3 DEF Stored

LEMMA ReceiveIs ==
    ASSUME NEW b \in Bufs, ~b.dead, NEW data \in Seq(ByteVals), data # <<>>
    PROVE  LET n == Len(data)
               e == AddCapacity(b, n)
               c == Receive(b, data)
           IN /\ c \in Bufs
              /\ Room(e, e.cur, Offset(e), n) =>
                   /\ c.mem = Stored(e.mem, Ahead(e.cur, Offset(e)), data)
                   /\ c.pos = b.pos + n
                   /\ c.size = IF b.pos + n > b.size THEN b.pos + n ELSE b.size
                   /\ EdgeOnly(c)
<1>. DEFINE n == Len(data)
            e == AddCapacity(b, n)
            c == Receive(b, data)
            a == Ahead(e.cur, Offset(e))
            g == GetWriteBuffers(b, n)
<1>1. n \in Nat \ {0}
  OBVIOUS
<1>2. e \in Bufs /\ b.size + n <= Len(e.mem) /\ e.pos = b.pos /\ e.size = b.size /\ e.dead = b.dead
  BY <1>1, Grows
<1>3. /\ b.pos \in Nat /\ b.size \in Nat /\ b.pos <= b.size
      /\ e \in BufRec /\ e.mem \in Seq(ByteVals) /\ Len(e.mem) \in Nat
      /\ Nodes(e) \in Nat \ {0} /\ Len(e.mem) = Nodes(e) * Base
      /\ e.cur \in Nat /\ e.cur <= Nodes(e) /\ e.pos <= e.size /\ e.size <= Len(e.mem)
      /\ Offset(e) \in Nat /\ Offset(e) < Base
  BY <1>2, InChain
<1>4. CASE ~Room(e, e.cur, Offset(e), n)
  <2>1. g = [got |-> Undefined, b |-> Crash(e)]
    <3>. HIDE DEF e, n
    <3>. QED BY <1>1, <1>4 DEF GetWriteBuffers, e
  <2>2. Crash(e) \in Bufs /\ Crash(e).dead
    BY <1>2, Crashed
  <2>3. c = g.b
    BY <2>1, <2>2 DEF Receive
  <2>. HIDE DEF e, n, g, c
  <2>4. c \in Bufs
    BY <2>1, <2>2, <2>3
  <2>. QED BY <1>4, <2>4 DEF e, n, c
<1>5. CASE Room(e, e.cur, Offset(e), n)
  <2>. DEFINE mem == Stored(e.mem, a, data)
              d == [e EXCEPT !.mem = mem]
  <2>1. e.cur # Null /\ e.cur \in Nat \ {0} /\ a \in Nat
    <3>1. e.cur # Null
      BY <1>5 DEF Room
    <3>. QED BY <1>1, <1>2, <1>3, <3>1, NextNode DEF Null
  <2>2. g = [got |-> From(a, n), b |-> e]
    <3>1. Places(Iovecs(e.cur, Offset(e), n)) = From(a, n)
      BY <1>1, <1>3, <2>1, PlacesAre
    <3>. HIDE DEF e, n
    <3>. QED BY <1>1, <1>5, <3>1 DEF GetWriteBuffers, e
  <2>3. [e EXCEPT !.mem = [i \in DOMAIN e.mem |-> IF \E k \in DOMAIN data : From(a, n)[k] = i
                                 THEN data[CHOOSE k \in DOMAIN data : From(a, n)[k] = i]
                                 ELSE e.mem[i]]] = d
    <3>. HIDE DEF e, a
    <3>. QED BY <1>3, <2>1, FilledIs
  <2>4. c = SetPosition(d, b.pos + n)
    <3>1. g.b = e /\ g.got = From(a, n)
      BY <2>2
    <3>. HIDE DEF e, a, d, g, n
    <3>. QED BY <1>2, <2>3, <3>1 DEF Receive, g, n
  <2>5. mem \in Seq(ByteVals) /\ Len(mem) = Len(e.mem)
    BY <1>3, <2>1, StoredBytes
  <2>. HIDE DEF e, a, mem, c, n, g
  <2>6. d \in BufRec /\ d.mem = mem /\ d.cur = e.cur /\ d.pos = e.pos /\ d.size = e.size /\ d.dead = e.dead
    BY <1>3, <2>5 DEF BufRec
  <2>. HIDE DEF d
  <2>7. d \in Bufs
    BY <1>3, <2>5, <2>6, MakeBuf
  <2>8. b.pos + n \in Nat /\ b.pos + n <= Len(d.mem)
    BY <1>1, <1>2, <1>3, <2>5, <2>6
  <2>9. /\ c \in Bufs /\ c.mem = mem /\ c.pos = b.pos + n
        /\ c.size = IF b.pos + n > b.size THEN b.pos + n ELSE b.size
        /\ EdgeOnly(c)
    <3>. DEFINE v == b.pos + n
    <3>1. v \in Nat /\ v <= Len(d.mem) /\ c = SetPosition(d, v) /\ ~d.dead /\ d.size = b.size
      BY <1>2, <2>4, <2>6, <2>8
    <3>. HIDE DEF v
    <3>2. /\ c \in Bufs /\ c.mem = d.mem /\ c.pos = v
          /\ c.size = (IF v > d.size THEN v ELSE d.size) /\ EdgeOnly(c)
      BY <2>7, <3>1, SetPositionIs
    <3>. QED BY <2>6, <3>1, <3>2 DEF v
  <2>. QED BY <2>9 DEF mem, e, a, c, n
<1>. QED BY <1>4, <1>5

-----------------------------------------------------------------------------
(* The actions                                                               *)

LEMMA Start ==
    ASSUME IInv, ~ba.dead
    PROVE  Agree(ba, ref)
  BY DEF IInv, Agree, EdgeOnly

LEMMA Ends ==
    ASSUME NEW b \in Bufs, NEW f \in FlatRec, Agree(b, f), ba' = b, ref' = f
    PROVE  IInv'
<1>1. ~f.stray => EdgeOnly(b)
  BY DEF Agree, EdgeOnly
<1>. QED BY <1>1 DEF IInv, Agree

LEMMA NextWrites ==
    ASSUME IInv, NEW p \in Seq(Seq(ByteVals)), Writes(WriteAll(ba, p), p)
    PROVE  IInv'
<1>1. ba \in Bufs /\ ref \in FlatRec /\ Agree(ba, ref)
  BY Start DEF IInv, Writes
<1>2. ba' = WriteAll(ba, p) /\ ref' = FlatWriteAll(ref, p)
  BY DEF Writes
<1>3. /\ WriteAll(ba, p) \in Bufs /\ FlatWriteAll(ref, p) \in FlatRec
      /\ Agree(WriteAll(ba, p), FlatWriteAll(ref, p))
  BY <1>1, WritesAgree
<1>. QED BY <1>2, <1>3, Ends

LEMMA OnePiece ==
    ASSUME NEW b \in Bufs, NEW s \in Seq(ByteVals)
    PROVE  <<s>> \in Seq(Seq(ByteVals)) /\ WriteAll(b, <<s>>) = Write(b, s)
<1>1. <<s>> \in Seq(Seq(ByteVals)) /\ Len(<<s>>) = 1 /\ <<s>>[1] = s
  OBVIOUS
<1>2. PICK g \in [0 .. 1 -> Bufs] :
         g[0] = b /\ g[1] = WriteAll(b, <<s>>) /\ \A k \in 1 .. 1 : g[k] = Write(g[k - 1], <<s>>[k])
  BY <1>1, WriteAllIs
<1>3. g[1] = Write(g[1 - 1], <<s>>[1]) /\ 1 - 1 = 0
  BY <1>2
<1>. QED BY <1>1, <1>2, <1>3

LEMMA TwoPieces ==
    ASSUME NEW b \in Bufs, NEW s \in Seq(ByteVals), NEW t \in Seq(ByteVals)
    PROVE  <<s, t>> \in Seq(Seq(ByteVals)) /\ WriteAll(b, <<s, t>>) = Write(Write(b, s), t)
<1>. DEFINE p == <<s, t>>
<1>1. p \in Seq(Seq(ByteVals)) /\ Len(p) = 2 /\ p[1] = s /\ p[2] = t
  OBVIOUS
<1>. HIDE DEF p
<1>2. PICK g \in [0 .. Len(p) -> Bufs] :
         /\ g[0] = b /\ g[Len(p)] = WriteAll(b, p)
         /\ \A k \in 1 .. Len(p) : g[k] = Write(g[k - 1], p[k])
  BY <1>1, WriteAllIs
<1>3. g[1] = Write(g[1 - 1], p[1]) /\ g[2] = Write(g[2 - 1], p[2]) /\ 1 - 1 = 0 /\ 2 - 1 = 1
  BY <1>1, <1>2
<1>4. WriteAll(b, p) = Write(Write(b, s), t)
  BY <1>1, <1>2, <1>3
<1>. QED BY <1>1, <1>4 DEF p

LEMMA NextOne ==
    ASSUME IInv, NEW s \in Seq(ByteVals), Writes(Write(ba, s), <<s>>)
    PROVE  IInv'
<1>1. ba \in Bufs
  BY DEF IInv
<1>. QED BY <1>1, OnePiece, NextWrites

LEMMA NextWriteString ==
    ASSUME IInv, NEW w \in Nat, NEW s \in Strings, DoWriteString(w, s)
    PROVE  IInv'
<1>. DEFINE h == IF w = 0 THEN Varint[Len(s)] ELSE Fixed(ba, ToBytes(Len(s), w))
<1>1. ba \in Bufs /\ s \in Seq(ByteVals) /\ Len(s) \in Nat
  BY StringIs DEF IInv
<1>2. h \in Seq(ByteVals)
  <2>1. CASE w = 0
    BY <1>1, <2>1, VarintIs
  <2>2. CASE w # 0
    <3>1. ToBytes(Len(s), w) \in Seq(ByteVals)
      BY <1>1, ToBytesIs
    <3>. QED BY <2>2, <3>1, FixedIs
  <2>. QED BY <2>1, <2>2
<1>3. WriteString(ba, w, s) = Write(Write(ba, h), s)
  <2>1. CASE w = 0
    BY <2>1 DEF WriteString, WriteUint
  <2>2. CASE w # 0
    BY <2>2 DEF WriteString, WriteFixed
  <2>. QED BY <2>1, <2>2
<1>4. Writes(WriteString(ba, w, s), <<h, s>>)
  BY DEF DoWriteString
<1>. HIDE DEF h
<1>. QED BY <1>1, <1>2, <1>3, <1>4, TwoPieces, NextWrites

LEMMA NextReads ==
    ASSUME IInv, NEW c, Later(ba, c), Reads(c)
    PROVE  IInv'
<1>1. c \in Bufs /\ c.mem = ba.mem /\ c.size = ba.size /\ (EdgeOnly(ba) => EdgeOnly(c))
  BY DEF Later
<1>2. ba' = c /\ ref \in FlatRec /\ ref' = IF ref.stray THEN ref ELSE [ref EXCEPT !.pos = c.pos]
  BY DEF Reads, IInv
<1>3. CASE ref.stray
  BY <1>1, <1>2, <1>3 DEF IInv
<1>4. CASE ~ref.stray
  <2>1. EdgeOnly(ba) /\ ba.mem = ref.mem /\ ba.size = ref.size
    BY <1>4 DEF IInv
  <2>2. c.pos \in Nat
    BY <1>1, InChain
  <2>3. /\ ref' \in FlatRec /\ ref'.pos = c.pos /\ ref'.mem = ref.mem /\ ref'.size = ref.size
    BY <1>2, <1>4, <2>2 DEF FlatRec
  <2>. QED BY <1>1, <1>2, <2>1, <2>3 DEF IInv
<1>. QED BY <1>3, <1>4

LEMMA NextSetPosition ==
    ASSUME IInv, NEW v \in Nat, DoSetPosition(v)
    PROVE  IInv'
<1>. DEFINE c == SetPosition(ba, v)
            size == IF v > ref.size THEN v ELSE ref.size
<1>1. ba \in Bufs /\ ref \in FlatRec /\ ~ba.dead /\ ba' = c
  BY DEF IInv, DoSetPosition
<1>2. ref' = IF ref.stray \/ v > Len(ref.mem) THEN ref ELSE [ref EXCEPT !.pos = v, !.size = size]
  BY DEF DoSetPosition
<1>3. /\ c \in Bufs
      /\ v > Len(ba.mem) => c = ba
      /\ v <= Len(ba.mem) => /\ c.mem = ba.mem /\ c.pos = v
                             /\ c.size = IF v > ba.size THEN v ELSE ba.size
                             /\ EdgeOnly(c)
  BY <1>1, SetPositionIs
<1>. HIDE DEF c
<1>4. CASE ref.stray
  BY <1>1, <1>2, <1>3, <1>4 DEF IInv
<1>5. CASE ~ref.stray
  <2>1. EdgeOnly(ba) /\ ba.mem = ref.mem /\ ba.pos = ref.pos /\ ba.size = ref.size
    BY <1>5 DEF IInv
  <2>2. CASE v > Len(ba.mem)
    BY <1>1, <1>2, <1>3, <2>1, <2>2 DEF IInv
  <2>3. CASE v <= Len(ba.mem)
    <3>1. ref.size \in Nat /\ Len(ba.mem) \in Nat
      BY <1>1, InChain DEF FlatRec
    <3>2. size \in Nat /\ ~(v > Len(ref.mem))
      BY <2>1, <2>3, <3>1
    <3>. HIDE DEF size
    <3>3. ref' \in FlatRec /\ ref'.pos = v /\ ref'.size = size /\ ref'.mem = ref.mem
      BY <1>1, <1>2, <1>5, <3>2 DEF FlatRec
    <3>4. c.size = size
      BY <1>3, <2>1, <2>3 DEF size
    <3>. QED BY <1>1, <1>3, <2>1, <2>3, <3>3, <3>4 DEF IInv
  <2>4. v > Len(ba.mem) \/ v <= Len(ba.mem)
    BY <1>1, InChain
  <2>. QED BY <2>2, <2>3, <2>4
<1>. QED BY <1>4, <1>5

LEMMA NextClear ==
    ASSUME IInv, DoClear
    PROVE  IInv'
<1>. DEFINE c == Clear(ba)
            mem == SubSeq(ba.mem, 1, Base)
<1>1. /\ ba \in BufRec /\ ba.mem \in Seq(ByteVals) /\ Len(ba.mem) \in Nat /\ Len(ba.mem) >= Base
      /\ Base \in Nat \ {0} /\ ba.dead \in BOOLEAN
  BY InChain, Constants DEF IInv
<1>2. mem \in Seq(ByteVals) /\ Len(mem) = Base
  <2>1. \A i \in 1 .. Base : ba.mem[i] \in ByteVals
    BY <1>1
  <2>. QED BY <1>1, <2>1
<1>3. ba' = c /\ ~ba.dead /\ ref' = [mem |-> mem, pos |-> 0, size |-> 0, stray |-> FALSE]
  BY DEF DoClear
<1>. HIDE DEF mem
<1>4. c \in BufRec /\ c.mem = mem /\ c.cur = 1 /\ c.pos = 0 /\ c.size = 0 /\ c.dead = ba.dead
  BY <1>1, <1>2 DEF BufRec, Clear, mem
<1>. HIDE DEF c
<1>5. c \in Bufs
  <2>1. Len(c.mem) = 1 * Base /\ c.cur <= 1 /\ c.pos <= c.size /\ c.size <= Len(c.mem)
    BY <1>1, <1>2, <1>4
  <2>. QED BY <1>4, <2>1, MakeBuf
<1>6. 0 \div Base = 0
  <2>1. (0 * Base + 0) \div Base = 0 /\ 0 * Base + 0 = 0
    BY <1>1, DivIs
  <2>. QED BY <2>1
<1>7. Follows(c)
  BY <1>1, <1>2, <1>4, <1>6 DEF Follows
<1>8. EdgeOnly(c)
  BY <1>3, <1>4, <1>7 DEF EdgeOnly
<1>9. ref' \in FlatRec /\ ref'.mem = mem /\ ref'.pos = 0 /\ ref'.size = 0
  BY <1>2, <1>3 DEF FlatRec
<1>. QED BY <1>3, <1>4, <1>5, <1>8, <1>9 DEF IInv

LEMMA NextReceive ==
    ASSUME IInv, NEW s \in Strings, DoReceive(s)
    PROVE  IInv'
<1>. DEFINE n == Len(s)
            e == AddCapacity(ba, n)
            c == Receive(ba, s)
            x == FlatWrite(ref, s)
<1>1. /\ ba \in Bufs /\ ref \in FlatRec /\ ~ba.dead /\ s \in Seq(ByteVals) /\ s # <<>>
      /\ ba' = c /\ ref' = x /\ n \in Nat \ {0}
  BY StringIs DEF IInv, DoReceive
<1>2. x \in FlatRec /\ c \in Bufs
  BY <1>1, FlatWriteIs, ReceiveIs
<1>3. CASE ref.stray \/ FullBehind(ref)
  <2>1. x.stray
    BY <1>1, <1>3, FlatWriteIs
  <2>. QED BY <1>1, <1>2, <2>1 DEF IInv
<1>4. CASE ~ref.stray /\ ~FullBehind(ref)
  <2>1. Follows(ba) /\ ba.mem = ref.mem /\ ba.pos = ref.pos /\ ba.size = ref.size
    BY <1>1, <1>4, Start DEF Agree
  <2>2. ~(ba.pos < ba.size /\ ba.size = Len(ba.mem))
    BY <1>4, <2>1 DEF FullBehind
  <2>3. e.cur # Null /\ Ahead(e.cur, Offset(e)) = ba.pos
    BY <1>1, <2>1, <2>2, GrowsInPlace
  <2>4. e \in Bufs /\ ba.size + n <= Len(e.mem)
    BY <1>1, Grows
  <2>5. /\ ba.pos \in Nat /\ ba.size \in Nat /\ ba.pos <= ba.size /\ Len(ba.mem) \in Nat
        /\ Len(e.mem) \in Nat
    BY <1>1, <2>4, InChain
  <2>6. Room(e, e.cur, Offset(e), n)
    BY <1>1, <2>3, <2>4, <2>5 DEF Room
  <2>7. /\ c.mem = Stored(e.mem, ba.pos, s) /\ c.pos = ba.pos + n
        /\ c.size = IF ba.pos + n > ba.size THEN ba.pos + n ELSE ba.size
        /\ EdgeOnly(c)
    BY <1>1, <2>3, <2>6, ReceiveIs
  <2>8. e.mem = FlatGrow(ref, n).mem
    BY <1>1, <2>1, SameGrowth
  <2>9. /\ x.mem = Stored(e.mem, ba.pos, s) /\ x.pos = ba.pos + n
        /\ x.size = IF ba.pos + n > ba.size THEN ba.pos + n ELSE ba.size
    BY <1>1, <1>4, <2>1, <2>8, FlatWriteIs
  <2>. HIDE DEF c, x
  <2>. QED BY <1>1, <1>2, <2>7, <2>9 DEF IInv
<1>. QED BY <1>3, <1>4

LEMMA NextSetEndian ==
    ASSUME IInv, NEW little \in BOOLEAN, DoSetEndian(little)
    PROVE  IInv'
<1>. DEFINE c == SetEndian(ba, little)
<1>1. /\ ba \in Bufs /\ ba \in BufRec /\ ba' = c /\ ref' = ref
      /\ ba.cur <= Nodes(ba) /\ ba.pos <= ba.size /\ ba.size <= Len(ba.mem)
      /\ Nodes(ba) \in Nat \ {0} /\ Len(ba.mem) = Nodes(ba) * Base
  BY InChain DEF IInv, DoSetEndian
<1>2. /\ c \in BufRec /\ c.mem = ba.mem /\ c.pos = ba.pos /\ c.size = ba.size /\ c.cur = ba.cur
      /\ c.dead = ba.dead
  BY <1>1 DEF BufRec, SetEndian
<1>. HIDE DEF c
<1>3. c \in Bufs
  BY <1>1, <1>2, MakeBuf
<1>4. EdgeOnly(ba) => EdgeOnly(c)
  BY <1>2 DEF EdgeOnly, Follows
<1>. QED BY <1>1, <1>2, <1>3, <1>4 DEF IInv

-----------------------------------------------------------------------------
(* What can be read, and where                                               *)

LEMMA ReadExact ==
    ASSUME NEW b \in Bufs, ~b.dead, Follows(b), b.pos < Len(b.mem), NEW n \in Nat, n <= ReadSize(b)
    PROVE  LET r == Read(b, n) IN
           /\ r.got = [i \in 1 .. n |-> b.mem[b.pos + i]] /\ r.got \in Seq(ByteVals)
           /\ r.b \in Bufs /\ ~r.b.dead /\ Follows(r.b) /\ r.b.pos = b.pos + n
           /\ r.b.mem = b.mem /\ r.b.size = b.size /\ r.b.endian = b.endian
<1>. DEFINE r == Read(b, n)
            c == [b EXCEPT !.pos = b.pos + n, !.cur = NodeAfter(b, n)]
            got == [i \in 1 .. n |-> b.mem[b.pos + i]]
<1>0. /\ b \in BufRec /\ b.mem \in Seq(ByteVals) /\ Len(b.mem) \in Nat /\ b.dead \in BOOLEAN
      /\ b.pos \in Nat /\ b.size \in Nat /\ b.pos <= b.size /\ b.size <= Len(b.mem)
      /\ Nodes(b) \in Nat \ {0} /\ Len(b.mem) = Nodes(b) * Base
  BY InChain
<1>1. b.cur # Null /\ Ahead(b.cur, Offset(b)) = b.pos
  BY AtPosition
<1>2. b.pos + n <= b.size /\ b.pos + n <= Len(b.mem) /\ ~(n > ReadSize(b))
  BY <1>0 DEF ReadSize
<1>3. Room(b, b.cur, Offset(b), n)
  BY <1>1, <1>2 DEF Room
<1>4. r = [got |-> got, b |-> c]
  BY <1>1, <1>2, <1>3 DEF Read, Bytes
<1>5. Later(b, r.b) /\ (r.got \in Nothing \/ r.got \in Seq(ByteVals))
  BY ReadIs
<1>6. c \in Bufs /\ (EdgeOnly(b) => EdgeOnly(c))
  BY <1>4, <1>5 DEF Later
<1>7. c.mem = b.mem /\ c.pos = b.pos + n /\ c.size = b.size /\ c.endian = b.endian /\ c.dead = b.dead
  BY <1>0 DEF BufRec
<1>8. got \in Seq(ByteVals)
  <2>1. ASSUME NEW i \in 1 .. n PROVE b.mem[b.pos + i] \in ByteVals
    <3>1. b.pos + i \in 1 .. Len(b.mem)
      BY <1>0, <1>2
    <3>. QED BY <1>0, <3>1
  <2>2. got \in [1 .. n -> ByteVals]
    BY <2>1
  <2>. QED BY <2>2
<1>. HIDE DEF c, got, r
<1>9. Follows(c)
  BY <1>6, <1>7 DEF EdgeOnly
<1>. QED BY <1>4, <1>6, <1>7, <1>8, <1>9 DEF got, r

LEMMA FromNone == \A a : From(a, 0) = <<>>
  BY DEF From

LEMMA ReadBuffersAre ==
    ASSUME NEW b \in Bufs, NEW len \in Nat, NEW p \in Nat, p <= b.pos
    PROVE  /\ GetReadBuffersAt(b, len, p) = From(p, Smaller(len, ReadSize(b)))
           /\ Follows(b) => GetReadBuffers(b, len) = From(b.pos, Smaller(len, ReadSize(b)))
<1>. DEFINE n == Smaller(len, ReadSize(b))
            c == p \div Base + 1
            o == p % Base
<1>0. /\ Len(b.mem) \in Nat /\ b.pos \in Nat /\ b.size \in Nat /\ b.pos <= b.size /\ b.size <= Len(b.mem)
      /\ Base \in Nat \ {0} /\ b.cur \in Nat /\ Offset(b) \in Nat /\ Offset(b) < Base
  BY InChain, Constants
<1>1. n \in Nat /\ n <= b.size - b.pos
  BY <1>0 DEF Smaller, ReadSize
<1>. HIDE DEF n
<1>2. CASE n = 0
  BY <1>2, FromNone DEF GetReadBuffersAt, GetReadBuffers, n
<1>3. CASE n # 0
  <2>1. c \in Nat \ {0} /\ o \in Nat /\ o < Base /\ Ahead(c, o) = p
    <3>1. p \div Base \in Nat /\ p % Base \in Nat /\ p % Base < Base /\ p = (p \div Base) * Base + (p % Base)
      BY <1>0, DivMod
    <3>2. c - 1 = p \div Base
      BY <3>1
    <3>. QED BY <3>1, <3>2 DEF Ahead
  <2>2. p + n <= Len(b.mem)
    BY <1>0, <1>1
  <2>. HIDE DEF c, o
  <2>3. Room(b, c, o, n)
    BY <2>1, <2>2 DEF Room, Null
  <2>4. Places(Iovecs(c, o, n)) = From(p, n)
    BY <1>1, <1>3, <2>1, PlacesAre
  <2>5. GetReadBuffersAt(b, len, p) = From(p, n)
    BY <1>3, <2>3, <2>4 DEF GetReadBuffersAt, n, c, o
  <2>6. ASSUME Follows(b) PROVE GetReadBuffers(b, len) = From(b.pos, n)
    <3>1. b.pos < Len(b.mem)
      BY <1>0, <1>1, <1>3
    <3>2. b.cur # Null /\ Ahead(b.cur, Offset(b)) = b.pos
      BY <2>6, <3>1, AtPosition
    <3>3. Room(b, b.cur, Offset(b), n)
      BY <1>0, <1>1, <3>2 DEF Room
    <3>4. Places(Iovecs(b.cur, Offset(b), n)) = From(b.pos, n)
      BY <1>0, <1>1, <1>3, <3>2, PlacesAre DEF Null
    <3>. QED BY <1>3, <3>3, <3>4 DEF GetReadBuffers, n
  <2>. QED BY <2>5, <2>6 DEF n
<1>. QED BY <1>2, <1>3

LEMMA WriteBuffersAre ==
    ASSUME NEW b \in Bufs, ~b.dead, Follows(b), Open(b), NEW len \in Nat
    PROVE  GetWriteBuffers(b, len).got = From(b.pos, len)
<1>. DEFINE e == AddCapacity(b, len)
<1>1. CASE len = 0
  <2>1. GetWriteBuffers(b, len) = [got |-> <<>>, b |-> b]
    BY <1>1 DEF GetWriteBuffers
  <2>. QED BY <1>1, <2>1, FromNone
<1>2. CASE len # 0
  <2>1. e.cur # Null /\ Ahead(e.cur, Offset(e)) = b.pos
    BY <1>2, GrowsInPlace DEF Open
  <2>2. e \in Bufs /\ b.size + len <= Len(e.mem)
    BY <1>2, Grows
  <2>3. /\ b.pos \in Nat /\ b.size \in Nat /\ b.pos <= b.size /\ Len(e.mem) \in Nat
        /\ e.cur \in Nat /\ Offset(e) \in Nat /\ Offset(e) < Base
    BY <2>2, InChain
  <2>. HIDE DEF e
  <2>4. Room(e, e.cur, Offset(e), len)
    BY <2>1, <2>2, <2>3 DEF Room
  <2>5. Places(Iovecs(e.cur, Offset(e), len)) = From(b.pos, len)
    BY <1>2, <2>1, <2>3, PlacesAre DEF Null
  <2>6. GetWriteBuffers(b, len) = [got |-> Places(Iovecs(e.cur, Offset(e), len)), b |-> e]
    BY <1>2, <2>4 DEF GetWriteBuffers, e
  <2>. QED BY <2>5, <2>6
<1>. QED BY <1>1, <1>2

\* The bytes that can be read are those from the position up to the size.
LEMMA Readable ==
    ASSUME NEW b \in Bufs
    PROVE  /\ [i \in 1 .. ReadSize(b) |-> b.mem[b.pos + i]] = SubSeq(b.mem, b.pos + 1, b.size)
           /\ ReadSize(b) = 0 => SubSeq(b.mem, b.pos + 1, b.size) = <<>>
<1>. DEFINE n == ReadSize(b)
            t == SubSeq(b.mem, b.pos + 1, b.size)
            u == [i \in 1 .. n |-> b.mem[b.pos + i]]
<1>0. /\ b.mem \in Seq(ByteVals) /\ Len(b.mem) \in Nat
      /\ b.pos \in Nat /\ b.size \in Nat /\ b.pos <= b.size /\ b.size <= Len(b.mem)
  BY InChain
<1>1. n \in Nat /\ n = b.size - b.pos
  BY <1>0 DEF ReadSize
<1>2. \A i \in b.pos + 1 .. b.size : b.mem[i] \in ByteVals
  BY <1>0
<1>3. t \in Seq(ByteVals) /\ Len(t) = n
  BY <1>0, <1>1, <1>2
<1>4. ASSUME NEW i \in 1 .. n PROVE t[i] = b.mem[b.pos + i]
  <2>1. t[i] = b.mem[b.pos + 1 + i - 1]
    BY <1>0, <1>1
  <2>2. b.pos + 1 + i - 1 = b.pos + i
    BY <1>0, <1>1
  <2>. QED BY <2>1, <2>2
<1>5. u \in Seq(ByteVals) /\ Len(u) = n
  <2>1. ASSUME NEW i \in 1 .. n PROVE b.mem[b.pos + i] \in ByteVals
    <3>1. b.pos + i \in b.pos + 1 .. b.size
      BY <1>0, <1>1
    <3>. QED BY <1>2, <3>1
  <2>2. u \in [1 .. n -> ByteVals]
    BY <2>1
  <2>. QED BY <1>1, <2>2
<1>. HIDE DEF t, n
<1>6. u = t
  BY <1>3, <1>4, <1>5, SeqEqual
<1>7. n = 0 => t = <<>>
  BY <1>3
<1>. QED BY <1>6, <1>7 DEF t, n

LEMMA AsStringIs ==
    ASSUME NEW b \in Bufs, Follows(b)
    PROVE  AsString(b) = SubSeq(b.mem, b.pos + 1, b.size)
<1>0. /\ Len(b.mem) \in Nat /\ b.pos \in Nat /\ b.size \in Nat /\ b.pos <= b.size /\ b.size <= Len(b.mem)
  BY InChain
<1>. DEFINE n == ReadSize(b)
<1>1. n \in Nat /\ n = b.size - b.pos
  BY <1>0 DEF ReadSize
<1>2. CASE n = 0
  BY <1>2, Readable DEF AsString
<1>3. CASE n # 0
  <2>1. b.pos < Len(b.mem)
    BY <1>0, <1>1, <1>3
  <2>2. b.cur # Null /\ Ahead(b.cur, b.pos % Base) = b.pos
    BY <2>1, AtPosition DEF Offset
  <2>3. Room(b, b.cur, b.pos % Base, n) /\ ~(n > b.size - b.pos)
    BY <1>0, <1>1, <2>2 DEF Room
  <2>4. AsString(b) = [i \in 1 .. n |-> b.mem[b.pos + i]]
    BY <1>3, <2>2, <2>3 DEF AsString, ReadAt, Bytes
  <2>. QED BY <2>4, Readable
<1>. QED BY <1>2, <1>3

LEMMA BuffersImplied ==
    ASSUME IInv
    PROVE  BuffersExact
<1>. SUFFICES ASSUME Sound PROVE BuffersExact
  BY DEF BuffersExact
<1>1. ba \in Bufs /\ ~ba.dead /\ Follows(ba) /\ ba.mem = ref.mem /\ ba.pos \in Nat
  BY InChain DEF IInv, Sound, EdgeOnly
<1>2. ASSUME NEW len \in 0 .. MaxCapacity
      PROVE  /\ GetReadBuffers(ba, len) = From(ba.pos, Smaller(len, ReadSize(ba)))
             /\ \A p \in 0 .. ba.pos : GetReadBuffersAt(ba, len, p) = From(p, Smaller(len, ReadSize(ba)))
             /\ ~FullBehind(ba) => GetWriteBuffers(ba, len).got = From(ba.pos, len)
  <2>1. len \in Nat
    BY ByteArrayAssumption
  <2>2. GetReadBuffers(ba, len) = From(ba.pos, Smaller(len, ReadSize(ba)))
    BY <1>1, <2>1, ReadBuffersAre
  <2>3. \A p \in 0 .. ba.pos : GetReadBuffersAt(ba, len, p) = From(p, Smaller(len, ReadSize(ba)))
    BY <1>1, <2>1, ReadBuffersAre
  <2>4. ~FullBehind(ba) => GetWriteBuffers(ba, len).got = From(ba.pos, len)
    BY <1>1, <2>1, WriteBuffersAre DEF FullBehind, Open
  <2>. QED BY <2>2, <2>3, <2>4
<1>3. AsString(ba) = SubSeq(ref.mem, ba.pos + 1, ba.size)
  BY <1>1, AsStringIs
<1>. QED BY <1>2, <1>3 DEF BuffersExact, From

-----------------------------------------------------------------------------
(* writeToFile                                                               *)

FileRec == [out : Seq(ByteVals), pos : Int, size : Int, dead : BOOLEAN]

\* What writeToFile begins with.
FileStart(b) ==
    [out |-> <<>>, pos |-> b.pos, size |-> ReadSize(b), dead |-> b.cur = Null /\ ReadSize(b) > 0]

\* The length of a chunk, as writeToFile reckons it.
Chunk(d) == Smaller(d.size, Base) - (d.pos % Base)

\* One chunk: what is read is inside the node.
LEMMA DumpChunk ==
    ASSUME NEW b \in Bufs, NEW c \in Nat, NEW d \in FileRec, d.size > 0, c # Null, c <= Nodes(b)
    PROVE  /\ Dump(b, c, d) \in FileRec
           /\ Dump(b, c, d).out =
                d.out \o Bytes(b, c, d.pos % Base, IF Chunk(d) < 0 THEN 0 ELSE Chunk(d))
           /\ Dump(b, c, d).pos = d.pos + Chunk(d)
           /\ Dump(b, c, d).size = d.size - Chunk(d)
           /\ Dump(b, c, d).dead = d.dead
<1>0. /\ b.mem \in Seq(ByteVals) /\ Nodes(b) \in Nat /\ Len(b.mem) = Nodes(b) * Base
      /\ Len(b.mem) \in Nat /\ Base \in Nat \ {0}
  BY InChain, Constants
<1>1. d.out \in Seq(ByteVals) /\ d.pos \in Int /\ d.size \in Int /\ d.dead \in BOOLEAN
  BY DEF FileRec
<1>. DEFINE o == d.pos % Base
            len == Chunk(d)
            m == IF len < 0 THEN 0 ELSE len
            s == Bytes(b, c, o, m)
            e == [d EXCEPT !.out = @ \o s, !.pos = @ + len, !.size = @ - len]
<1>2. o \in Nat /\ o < Base
  BY <1>0, <1>1
<1>. HIDE DEF o
<1>3. len \in Int /\ m \in Nat /\ o + m <= Base
  <2>1. len = Smaller(d.size, Base) - o
    BY DEF Chunk, o
  <2>. QED BY <1>0, <1>1, <1>2, <2>1 DEF Smaller
<1>. HIDE DEF len
<1>4. c - 1 \in Nat /\ (c - 1) * Base \in Nat /\ (c - 1) * Base + Base <= Nodes(b) * Base
  <2>1. c - 1 \in Nat /\ c - 1 < Nodes(b)
    BY <1>0 DEF Null
  <2>. QED BY <1>0, <2>1, Times
<1>5. s \in Seq(ByteVals)
  <2>. HIDE DEF m
  <2>1. ASSUME NEW i \in 1 .. m PROVE b.mem[Ahead(c, o) + i] \in ByteVals
    <3>. DEFINE a == (c - 1) * Base
    <3>1. /\ a \in Nat /\ a + Base <= Len(b.mem) /\ Ahead(c, o) = a + o
          /\ Len(b.mem) \in Nat /\ Base \in Nat
      BY <1>0, <1>4 DEF Ahead
    <3>2. i \in Nat /\ 1 <= i /\ i <= m
      BY <1>3
    <3>. HIDE DEF a
    <3>3. Ahead(c, o) + i \in 1 .. Len(b.mem)
      BY <1>2, <1>3, <3>1, <3>2
    <3>. QED BY <1>0, <3>3
  <2>. QED BY <1>3, <2>1 DEF Bytes
<1>6. ~(d.size <= 0) /\ ~(c > Nodes(b) \/ c = Null)
  BY <1>0, <1>1
<1>7. Dump(b, c, d) = e
  BY <1>6 DEF Dump, Chunk, o, len
<1>. HIDE DEF s
<1>8. d.out \o s \in Seq(ByteVals) /\ d.pos + len \in Int /\ d.size - len \in Int
  BY <1>1, <1>3, <1>5
<1>9. e \in FileRec
  BY <1>1, <1>8 DEF FileRec
<1>10. e.out = d.out \o s /\ e.pos = d.pos + len /\ e.size = d.size - len /\ e.dead = d.dead
  BY DEF FileRec
<1>. QED BY <1>7, <1>9, <1>10 DEF s, o, len

LEMMA DumpDone ==
    ASSUME NEW b, NEW c, NEW d \in FileRec, d.size <= 0
    PROVE  Dump(b, c, d) = d
  BY DEF Dump

\* Off the chain.
LEMMA DumpLost ==
    ASSUME NEW b, NEW c, NEW d \in FileRec, d.size > 0, c = Null \/ c > Nodes(b)
    PROVE  /\ Dump(b, c, d) \in FileRec
           /\ Dump(b, c, d).pos = d.pos /\ Dump(b, c, d).size = d.size /\ Dump(b, c, d).dead
<1>1. d.size \in Int
  BY DEF FileRec
<1>2. Dump(b, c, d) = [d EXCEPT !.dead = TRUE]
  BY <1>1 DEF Dump
<1>3. [d EXCEPT !.dead = TRUE] \in FileRec
  BY DEF FileRec
<1>. QED BY <1>2, <1>3 DEF FileRec

LEMMA DumpTyped ==
    ASSUME NEW b \in Bufs, NEW c \in Nat, NEW d \in FileRec
    PROVE  Dump(b, c, d) \in FileRec
<1>0. Base \in Nat \ {0} /\ Nodes(b) \in Nat /\ d.pos \in Int /\ d.size \in Int
  BY InChain, Constants DEF FileRec
<1>1. CASE d.size <= 0
  BY <1>1, DumpDone
<1>2. CASE d.size > 0 /\ (c = Null \/ c > Nodes(b))
  BY <1>2, DumpLost
<1>3. CASE d.size > 0 /\ c # Null /\ c <= Nodes(b)
  BY <1>3, DumpChunk
<1>. QED BY <1>0, <1>1, <1>2, <1>3

\* The rounds of writeToFile.
Dumps(b, g) ==
    /\ \A k \in 0 .. Nodes(b) + 2 : g[k] \in FileRec
    /\ g[0] = FileStart(b)
    /\ \A k \in 1 .. Nodes(b) + 2 : g[k] = Dump(b, b.cur + k - 1, g[k - 1])
    /\ WriteToFile(b) = IF g[Nodes(b) + 2].dead THEN Undefined ELSE g[Nodes(b) + 2].out

LEMMA WriteToFileIs ==
    ASSUME NEW b \in Bufs
    PROVE  \E g : Dumps(b, g)
<1>. DEFINE n == Nodes(b) + 2
            first == FileStart(b)
            step == [k \in 1 .. n |-> [d \in FileRec |-> Dump(b, b.cur + k - 1, d)]]
            Goes(g) == g = [k \in 0 .. n |-> IF k = 0 THEN first ELSE Dump(b, b.cur + k - 1, g[k - 1])]
<1>0. n \in Nat /\ b.cur \in Nat /\ b.pos \in Nat /\ b.size \in Nat
  BY InChain
<1>. HIDE DEF n
<1>1. first \in FileRec
  <2>1. <<>> \in Seq(ByteVals) /\ b.pos \in Int /\ ReadSize(b) \in Int
    BY <1>0 DEF ReadSize
  <2>2. (b.cur = Null /\ ReadSize(b) > 0) \in BOOLEAN
    BY <1>0, <2>1
  <2>. QED BY <2>1, <2>2 DEF FileRec, FileStart
<1>. HIDE DEF first
<1>2. ASSUME NEW k \in 1 .. n, NEW d \in FileRec PROVE Dump(b, b.cur + k - 1, d) \in FileRec
  <2>1. b.cur + k - 1 \in Nat
    BY <1>0
  <2>. QED BY <2>1, DumpTyped
<1>3. step \in [1 .. n -> [FileRec -> FileRec]]
  BY <1>2
<1>4. PICK g : Iterates(g, FileRec, first, n, step)
  <2>. HIDE DEF step
  <2>. QED BY <1>0, <1>1, <1>3, Iterate
<1>. HIDE DEF step
<1>5. DOMAIN g = 0 .. n /\ g = [k \in 0 .. n |-> g[k]]
  BY <1>4 DEF Iterates
<1>6. ASSUME NEW k \in 0 .. n
      PROVE  g[k] = IF k = 0 THEN first ELSE Dump(b, b.cur + k - 1, g[k - 1])
  <2>1. CASE k = 0
    BY <1>4, <2>1 DEF Iterates
  <2>2. CASE k # 0
    <3>1. k \in 1 .. n /\ k - 1 \in 0 .. n
      BY <1>0, <2>2
    <3>2. g[k - 1] \in FileRec /\ g[k] = step[k][g[k - 1]]
      BY <1>4, <3>1 DEF Iterates
    <3>3. step[k][g[k - 1]] = Dump(b, b.cur + k - 1, g[k - 1])
      BY <3>1, <3>2 DEF step
    <3>. QED BY <2>2, <3>2, <3>3
  <2>. QED BY <2>1, <2>2
<1>7. Goes(g)
  BY <1>5, <1>6
<1>. DEFINE h == CHOOSE x : Goes(x)
<1>8. Goes(h)
  BY <1>7
<1>9. WriteToFile(b) = IF h[n].dead THEN Undefined ELSE h[n].out
  BY DEF WriteToFile, n, first, FileStart
<1>. HIDE DEF h
<1>10. h[0] = first /\ \A k \in 1 .. n : h[k] = Dump(b, b.cur + k - 1, h[k - 1])
  BY <1>0, <1>8
<1>11. \A k \in 1 .. n : h[k - 1] \in FileRec => h[k] \in FileRec
  BY <1>2, <1>10
<1>12. \A k \in 0 .. n : h[k] \in FileRec
  BY <1>0, <1>1, <1>10, <1>11, EveryRound
<1>13. Dumps(b, h)
  BY <1>9, <1>10, <1>12 DEF Dumps, n, first
<1>. QED BY <1>13

\* Nothing to write.
LEMMA FileEmpty ==
    ASSUME NEW b \in Bufs, ReadSize(b) = 0
    PROVE  WriteToFile(b) = <<>>
<1>. DEFINE N == Nodes(b) + 2
            D == {FileStart(b)}
<1>1. PICK g : Dumps(b, g)
  BY WriteToFileIs
<1>2. N \in Nat
  BY InChain
<1>3. g[0] \in D /\ FileStart(b) \in FileRec
  <2>1. 0 \in 0 .. Nodes(b) + 2
    BY <1>2
  <2>. QED BY <1>1, <2>1 DEF Dumps
<1>4. FileStart(b).size = 0 /\ FileStart(b).out = <<>> /\ ~FileStart(b).dead
  <2>1. ~(ReadSize(b) > 0)
    OBVIOUS
  <2>. QED BY <2>1 DEF FileStart
<1>5. ASSUME NEW k \in 1 .. N, g[k - 1] \in D PROVE g[k] \in D
  <2>1. g[k] = Dump(b, b.cur + k - 1, FileStart(b))
    BY <1>1, <1>5 DEF Dumps
  <2>. QED BY <1>3, <1>4, <2>1, DumpDone
<1>. HIDE DEF D, N
<1>6. \A k \in 0 .. N : g[k] \in D
  BY <1>2, <1>3, <1>5, EveryRound
<1>7. g[N] = FileStart(b)
  BY <1>2, <1>6 DEF D
<1>. QED BY <1>1, <1>4, <1>7 DEF Dumps, N

\* Less than a node to write, and not from the beginning of a node: the chunks grow and
\* shrink in turn until there is no further node.
LEMMA FileLost ==
    ASSUME NEW b \in Bufs, Follows(b), 0 < ReadSize(b), ReadSize(b) < Base, Offset(b) # 0
    PROVE  WriteToFile(b) = Undefined
<1>. DEFINE N == Nodes(b) + 2
            n == ReadSize(b)
            o == Offset(b)
            p == b.pos
            Turn(d) == (d.pos = p /\ d.size = n) \/ (d.pos = p - o + n /\ d.size = o)
            D == [k \in 0 .. N |-> {d \in FileRec : Turn(d) /\ (b.cur + k > Nodes(b) + 1 => d.dead)}]
<1>0. /\ Nodes(b) \in Nat \ {0} /\ b.cur \in Nat /\ b.cur <= Nodes(b) /\ p \in Nat /\ Base \in Nat \ {0}
      /\ b.size \in Nat /\ Len(b.mem) \in Nat /\ b.size <= Len(b.mem)
      /\ o \in Nat /\ o < Base /\ o > 0
  <2>1. o \in Nat /\ o < Base
    BY InChain
  <2>2. o > 0
    BY <2>1
  <2>. QED BY <2>1, <2>2, InChain, Constants
<1>1. n \in Nat /\ n = b.size - p /\ n > 0 /\ n < Base
  BY <1>0 DEF ReadSize
<1>2. PICK g : Dumps(b, g)
  BY WriteToFileIs
<1>3. b.cur # Null /\ Ahead(b.cur, o) = p
  <2>1. b.pos < Len(b.mem)
    BY <1>0, <1>1
  <2>. QED BY <2>1, AtPosition
<1>4. PICK q \in Nat : p = q * Base + o
  <2>1. b.cur - 1 \in Nat /\ p = (b.cur - 1) * Base + o
    BY <1>0, <1>3 DEF Ahead, Null
  <2>. QED BY <2>1
<1>5. p % Base = o /\ (p - o + n) % Base = n /\ p - o + n \in Nat
  <2>. HIDE DEF n, o, p
  <2>1. (q * Base + o) % Base = o /\ (q * Base + n) % Base = n /\ q * Base \in Nat
    <3>1. o \in Nat /\ o < Base /\ n \in Nat /\ n < Base /\ Base \in Nat \ {0}
      BY <1>0, <1>1
    <3>. QED BY <3>1, DivIs, Times
  <2>2. p - o + n = q * Base + n
    BY <1>0, <1>1, <1>4, <2>1
  <2>. QED BY <1>1, <1>4, <2>1, <2>2
<1>6. g[0] \in D[0]
  <2>1. 0 \in 0 .. N /\ g[0] \in FileRec /\ g[0] = FileStart(b)
    BY <1>0, <1>2 DEF Dumps
  <2>2. g[0].pos = p /\ g[0].size = n
    BY <2>1 DEF FileStart
  <2>3. ~(b.cur + 0 > Nodes(b) + 1)
    BY <1>0
  <2>. QED BY <2>1, <2>2, <2>3
<1>. HIDE DEF n, o, p
<1>7. ASSUME NEW k \in 1 .. N, g[k - 1] \in D[k - 1] PROVE g[k] \in D[k]
  <2>. DEFINE d == g[k - 1]
              c == b.cur + k - 1
  <2>0. k - 1 \in 0 .. N /\ k \in 0 .. N /\ c \in Nat /\ c # Null /\ k \in Nat
    BY <1>0, <1>3 DEF Null
  <2>1. d \in FileRec /\ Turn(d)
    BY <1>7, <2>0
  <2>2. g[k] = Dump(b, c, d)
    BY <1>2 DEF Dumps
  <2>3. d.size > 0
    BY <1>0, <1>1, <2>1
  <2>. HIDE DEF d, c
  <2>4. CASE c > Nodes(b)
    <3>1. g[k] \in FileRec /\ g[k].pos = d.pos /\ g[k].size = d.size /\ g[k].dead
      BY <2>1, <2>2, <2>3, <2>4, DumpLost
    <3>2. Turn(g[k])
      BY <2>1, <3>1
    <3>. QED BY <2>0, <3>1, <3>2
  <2>5. CASE c <= Nodes(b)
    <3>1. /\ g[k] \in FileRec /\ g[k].pos = d.pos + Chunk(d) /\ g[k].size = d.size - Chunk(d)
          /\ d.pos \in Int
      <4>1. d \in FileRec /\ d.size > 0 /\ c \in Nat /\ c # Null /\ c <= Nodes(b)
        BY <2>0, <2>1, <2>3, <2>5
      <4>2. /\ Dump(b, c, d) \in FileRec /\ Dump(b, c, d).pos = d.pos + Chunk(d)
            /\ Dump(b, c, d).size = d.size - Chunk(d)
        BY <4>1, DumpChunk
      <4>3. d.pos \in Int
        BY <4>1 DEF FileRec
      <4>. QED BY <2>2, <4>2, <4>3
    <3>2. ASSUME d.pos = p, d.size = n PROVE Turn(g[k])
      <4>1. Chunk(d) = n - o
        BY <1>0, <1>1, <1>5, <3>2 DEF Chunk, Smaller
      <4>2. g[k].pos = p - o + n /\ g[k].size = o
        BY <1>0, <1>1, <3>1, <3>2, <4>1
      <4>. QED BY <4>2
    <3>3. ASSUME d.pos = p - o + n, d.size = o PROVE Turn(g[k])
      <4>1. Chunk(d) = o - n
        BY <1>0, <1>1, <1>5, <3>3 DEF Chunk, Smaller
      <4>2. g[k].pos = p /\ g[k].size = n
        BY <1>0, <1>1, <3>1, <3>3, <4>1
      <4>. QED BY <4>2
    <3>4. Turn(g[k])
      BY <2>1, <3>2, <3>3
    <3>5. ~(b.cur + k > Nodes(b) + 1)
      BY <1>0, <2>0, <2>5 DEF c
    <3>. QED BY <2>0, <3>1, <3>4, <3>5
  <2>. QED BY <1>0, <2>0, <2>4, <2>5
<1>8. g[N] \in D[N]
  <2>. HIDE DEF D, N
  <2>1. N \in Nat
    BY <1>0 DEF N
  <2>2. \A k \in 0 .. N : g[k] \in D[k]
    BY <1>6, <1>7, <2>1, RoundByRound
  <2>. QED BY <2>1, <2>2
<1>9. N \in 0 .. N /\ b.cur + N > Nodes(b) + 1
  BY <1>0
<1>10. g[N].dead
  BY <1>8, <1>9
<1>. QED BY <1>2, <1>10 DEF Dumps

\* n bytes of mem behind byte a.
Cut(mem, a, n) == [i \in 1 .. n |-> mem[a + i]]

LEMMA CutConcat ==
    ASSUME NEW mem \in Seq(ByteVals), NEW a \in Nat, NEW m \in Nat, NEW n \in Nat, a + m + n <= Len(mem)
    PROVE  Cut(mem, a, m) \o Cut(mem, a + m, n) = Cut(mem, a, m + n)
<1>. DEFINE s == Cut(mem, a, m)
            t == Cut(mem, a + m, n)
            u == Cut(mem, a, m + n)
<1>0. Len(mem) \in Nat /\ \A i \in 1 .. Len(mem) : mem[i] \in ByteVals
  OBVIOUS
<1>1. /\ s \in Seq(ByteVals) /\ Len(s) = m /\ \A i \in 1 .. m : s[i] = mem[a + i]
      /\ t \in Seq(ByteVals) /\ Len(t) = n /\ \A i \in 1 .. n : t[i] = mem[a + m + i]
      /\ u \in Seq(ByteVals) /\ Len(u) = m + n /\ \A i \in 1 .. m + n : u[i] = mem[a + i]
  <2>1. ASSUME NEW i \in 1 .. m PROVE mem[a + i] \in ByteVals
    BY <1>0, a + i \in 1 .. Len(mem)
  <2>2. ASSUME NEW i \in 1 .. n PROVE mem[a + m + i] \in ByteVals
    BY <1>0, a + m + i \in 1 .. Len(mem)
  <2>3. ASSUME NEW i \in 1 .. m + n PROVE mem[a + i] \in ByteVals
    BY <1>0, a + i \in 1 .. Len(mem)
  <2>4. s \in Seq(ByteVals) /\ Len(s) = m
    BY <2>1 DEF Cut
  <2>5. t \in Seq(ByteVals) /\ Len(t) = n
    BY <2>2 DEF Cut
  <2>6. u \in Seq(ByteVals) /\ Len(u) = m + n
    BY <2>3 DEF Cut
  <2>. QED BY <2>4, <2>5, <2>6 DEF Cut
<1>. HIDE DEF s, t, u
<1>2. s \in Seq(ByteVals) /\ Len(s) = m /\ t \in Seq(ByteVals) /\ Len(t) = n
  BY <1>1
<1>3. /\ s \o t \in Seq(ByteVals) /\ Len(s \o t) = m + n
      /\ \A i \in 1 .. m + n : (s \o t)[i] = IF i <= m THEN s[i] ELSE t[i - m]
  BY <1>2, ConcatProperties
<1>4. ASSUME NEW i \in 1 .. m + n PROVE (s \o t)[i] = u[i]
  <2>1. CASE i <= m
    <3>1. i \in 1 .. m /\ (s \o t)[i] = s[i]
      BY <1>3, <2>1
    <3>. QED BY <1>1, <3>1
  <2>2. CASE i > m
    <3>1. i - m \in 1 .. n /\ (s \o t)[i] = t[i - m]
      BY <1>3, <2>2
    <3>2. a + m + (i - m) = a + i
      OBVIOUS
    <3>3. t[i - m] = mem[a + m + (i - m)] /\ u[i] = mem[a + i]
      BY <1>1, <3>1
    <3>. QED BY <3>1, <3>2, <3>3
  <2>3. i <= m \/ i > m
    OBVIOUS
  <2>. QED BY <2>1, <2>2, <2>3
<1>5. s \o t = u
  BY <1>1, <1>3, <1>4, SeqEqual
<1>. QED BY <1>5 DEF s, t, u

\* How many of n bytes are out after k rounds that begin at offset o.
Emitted(n, o, k) == IF k = 0 THEN 0 ELSE Smaller(n, k * Base - o)

LEMMA EmittedIs ==
    ASSUME NEW n \in Nat, NEW o \in Nat, o < Base, NEW k \in Nat
    PROVE  Emitted(n, o, k) \in Nat /\ Emitted(n, o, k) <= n
<1>1. Base \in Nat \ {0}
  BY Constants
<1>2. CASE k = 0
  BY <1>2 DEF Emitted
<1>3. CASE k # 0
  <2>. DEFINE J == k * Base
  <2>1. J \in Nat /\ J >= Base
    <3>1. 1 <= k /\ 1 * Base = Base
      BY <1>1, <1>3
    <3>. QED BY <1>1, <3>1, Times, 1 \in Nat
  <2>2. Emitted(n, o, k) = Smaller(n, J - o)
    BY <1>3 DEF Emitted
  <2>. HIDE DEF J
  <2>. QED BY <1>1, <2>1, <2>2 DEF Smaller
<1>. QED BY <1>2, <1>3

\* A round that begins at the end of the bytes written, with more to write.
LEMMA NextChunk ==
    ASSUME NEW n \in Nat, NEW o \in Nat, NEW q \in Nat, NEW M \in Nat, NEW j \in Nat, o < Base,
           o = 0 \/ n >= Base, q * Base + o + n <= M * Base, Emitted(n, o, j) < n
    PROVE  LET x == IF j = 0 THEN o ELSE 0  e == Emitted(n, o, j) IN
           /\ (q + j) * Base + x = q * Base + o + e
           /\ q + j < M
           /\ Smaller(n - e, Base) - x = Emitted(n, o, j + 1) - e
           /\ e <= Emitted(n, o, j + 1)
<1>. DEFINE x == IF j = 0 THEN o ELSE 0
            e == Emitted(n, o, j)
            f == Emitted(n, o, j + 1)
            J == j * Base
            Q == q * Base
<1>0. Base \in Nat \ {0} /\ e \in Nat
  BY Constants, EmittedIs
<1>1. J \in Nat /\ (j + 1) * Base = J + Base /\ Q \in Nat /\ (q + j) * Base = Q + J /\ M * Base \in Nat
  BY <1>0, Times
<1>2. f = Smaller(n, J + Base - o)
  <2>1. j + 1 # 0
    OBVIOUS
  <2>2. f = Smaller(n, (j + 1) * Base - o)
    BY <2>1 DEF Emitted
  <2>3. (j + 1) * Base - o = J + Base - o
    <3>. DEFINE X == (j + 1) * Base
    <3>1. X = J + Base /\ J \in Nat /\ Base \in Nat
      BY <1>0, <1>1
    <3>. HIDE DEF X, J
    <3>2. X - o = J + Base - o
      BY <3>1
    <3>. QED BY <3>2 DEF X
  <2>. QED BY <2>2, <2>3, Zenon
<1>3. /\ Q + J + x = Q + o + e
      /\ Smaller(n - e, Base) - x = f - e
      /\ e <= f
  <2>1. CASE j = 0
    <3>1. J = 0 /\ e = 0 /\ x = o
      BY <1>0, <2>1 DEF Emitted
    <3>. HIDE DEF J, e, x, f, Q
    <3>. QED BY <1>0, <1>1, <1>2, <3>1 DEF Smaller
  <2>2. CASE j # 0
    <3>1. J >= Base
      <4>1. 1 <= j /\ 1 * Base = Base
        BY <1>0, <2>2
      <4>. QED BY <1>0, <4>1, Times, 1 \in Nat
    <3>2. e = Smaller(n, J - o) /\ x = 0
      BY <2>2 DEF Emitted
    <3>3. e < n
      OBVIOUS
    <3>. HIDE DEF J, e, x, f, Q
    <3>. QED BY <1>0, <1>1, <1>2, <3>1, <3>2, <3>3 DEF Smaller
  <2>. QED BY <2>1, <2>2
<1>4. q + j < M
  <2>1. x \in Nat /\ e < n
    OBVIOUS
  <2>2. Q + J < M * Base
    <3>. HIDE DEF J, e, x, f
    <3>1. Q + o + n <= M * Base
      OBVIOUS
    <3>. HIDE DEF Q
    <3>. QED BY <1>0, <1>1, <1>3, <2>1, <3>1
  <2>3. (q + j) * Base < M * Base
    BY <1>1, <2>2
  <2>. QED BY <1>0, <2>3, Times, q + j \in Nat
<1>. QED BY <1>1, <1>3, <1>4

\* Nothing is left: nothing more comes out.
LEMMA EmittedStays ==
    ASSUME NEW n \in Nat \ {0}, NEW o \in Nat, o < Base, NEW j \in Nat, Emitted(n, o, j) = n
    PROVE  Emitted(n, o, j + 1) = n
<1>. DEFINE J == j * Base
<1>0. Base \in Nat \ {0}
  BY Constants
<1>1. J \in Nat /\ (j + 1) * Base = J + Base
  BY <1>0, Times
<1>2. j # 0
  BY DEF Emitted
<1>3. Smaller(n, J - o) = n
  BY <1>2 DEF Emitted
<1>4. Emitted(n, o, j + 1) = Smaller(n, J + Base - o)
  <2>1. j + 1 # 0
    OBVIOUS
  <2>2. Emitted(n, o, j + 1) = Smaller(n, (j + 1) * Base - o)
    BY <2>1 DEF Emitted
  <2>3. (j + 1) * Base - o = J + Base - o
    <3>. DEFINE X == (j + 1) * Base
    <3>1. X = J + Base /\ J \in Nat /\ Base \in Nat
      BY <1>0, <1>1
    <3>. HIDE DEF X, J
    <3>2. X - o = J + Base - o
      BY <3>1
    <3>. QED BY <3>2 DEF X
  <2>. QED BY <2>2, <2>3, Zenon
<1>. HIDE DEF J
<1>. QED BY <1>0, <1>1, <1>3, <1>4 DEF Smaller

\* Anything else is written as it is, a node's rest, whole nodes, and what is left.
LEMMA FileWhole ==
    ASSUME NEW b \in Bufs, Follows(b), 0 < ReadSize(b), ReadSize(b) >= Base \/ Offset(b) = 0
    PROVE  WriteToFile(b) = Cut(b.mem, b.pos, ReadSize(b))
<1>. DEFINE M == Nodes(b)
            N == M + 2
            n == ReadSize(b)
            o == Offset(b)
            p == b.pos
            q == b.cur - 1
            E(k) == Emitted(n, o, k)
            Out(d, e) == d.out = Cut(b.mem, p, e) /\ d.pos = p + e /\ d.size = n - e /\ ~d.dead
            D == [k \in 0 .. N |-> {d \in FileRec : Out(d, E(k))}]
<1>0. /\ M \in Nat \ {0} /\ b.cur \in Nat /\ b.cur <= M /\ p \in Nat /\ Base \in Nat \ {0}
      /\ b.size \in Nat /\ Len(b.mem) \in Nat /\ b.size <= Len(b.mem) /\ b.mem \in Seq(ByteVals)
      /\ Len(b.mem) = M * Base /\ o \in Nat /\ o < Base
  BY InChain, Constants
<1>1. n \in Nat /\ n = b.size - p /\ n > 0 /\ p + n <= Len(b.mem)
  BY <1>0 DEF ReadSize
<1>2. PICK g : Dumps(b, g)
  BY WriteToFileIs
<1>3. b.cur # Null /\ q \in Nat /\ p = q * Base + o /\ q * Base \in Nat
  <2>1. b.pos < Len(b.mem)
    BY <1>0, <1>1
  <2>2. b.cur # Null /\ Ahead(b.cur, o) = p
    BY <2>1, AtPosition
  <2>3. q \in Nat
    BY <1>0, <2>2 DEF Null
  <2>. QED BY <1>0, <2>2, <2>3, Times DEF Ahead
<1>4. ASSUME NEW k \in Nat PROVE E(k) \in Nat /\ E(k) <= n
  BY <1>0, <1>1, <1>4, EmittedIs
<1>5. q * Base + o + n <= M * Base /\ (o = 0 \/ n >= Base)
  BY <1>0, <1>1, <1>3
<1>. HIDE DEF n, o, p, q, M
<1>6. g[0] \in D[0]
  <2>1. 0 \in 0 .. N /\ g[0] \in FileRec /\ g[0] = FileStart(b)
    BY <1>0, <1>2 DEF Dumps, M
  <2>2. g[0].pos = p /\ g[0].size = n /\ g[0].out = <<>> /\ ~g[0].dead
    <3>1. FileStart(b).pos = p /\ FileStart(b).size = n /\ FileStart(b).out = <<>>
      BY DEF FileStart, n, p
    <3>2. ~FileStart(b).dead
      BY <1>3 DEF FileStart
    <3>. QED BY <2>1, <3>1, <3>2
  <2>3. E(0) = 0 /\ Cut(b.mem, p, 0) = <<>>
    BY DEF Emitted, Cut
  <2>4. Out(g[0], 0)
    BY <1>0, <1>1, <2>2, <2>3
  <2>. QED BY <2>1, <2>3, <2>4
<1>7. ASSUME NEW k \in 1 .. N, g[k - 1] \in D[k - 1] PROVE g[k] \in D[k]
  <2>. DEFINE d == g[k - 1]
              j == k - 1
              c == b.cur + k - 1
              e == E(j)
              f == E(k)
  <2>0. /\ j \in 0 .. N /\ k \in 0 .. N /\ j \in Nat /\ k = j + 1 /\ k \in Nat
        /\ c \in Nat /\ c = q + j + 1 /\ c # Null
    <3>1. /\ k \in Nat /\ 1 <= k /\ k <= N /\ N \in Nat
      BY <1>0
    <3>2. b.cur \in Nat /\ b.cur > 0 /\ q = b.cur - 1
      BY <1>0, <1>3 DEF q, Null
    <3>. HIDE DEF N
    <3>3. j \in 0 .. N /\ k \in 0 .. N /\ j \in Nat /\ k = j + 1 /\ k \in Nat
      BY <3>1
    <3>4. c \in Nat /\ c = q + j + 1 /\ c # 0
      BY <3>1, <3>2
    <3>. QED BY <3>3, <3>4 DEF Null
  <2>1. d \in FileRec /\ Out(d, e)
    BY <1>7, <2>0
  <2>2. g[k] = Dump(b, c, d)
    BY <1>2 DEF Dumps, M
  <2>3. e \in Nat /\ e <= n /\ f \in Nat /\ f <= n
    BY <1>4, <2>0
  <2>4. f = Emitted(n, o, j + 1) /\ e = Emitted(n, o, j)
    BY <2>0
  <2>. HIDE DEF d, c, j, e, f
  <2>5. CASE e = n
    <3>1. g[k] = d
      BY <1>1, <2>1, <2>2, <2>5, DumpDone
    <3>2. f = n
      BY <1>0, <1>1, <2>0, <2>3, <2>4, <2>5, EmittedStays
    <3>. QED BY <2>0, <2>1, <2>5, <3>1, <3>2 DEF f
  <2>6. CASE e < n
    <3>. DEFINE x == IF j = 0 THEN o ELSE 0
    <3>1. /\ (q + j) * Base + x = q * Base + o + e /\ q + j < M
          /\ Smaller(n - e, Base) - x = f - e /\ e <= f
      <4>1. /\ n \in Nat /\ o \in Nat /\ q \in Nat /\ M \in Nat /\ j \in Nat /\ o < Base
            /\ o = 0 \/ n >= Base
            /\ q * Base + o + n <= M * Base /\ Emitted(n, o, j) < n
        BY <1>0, <1>1, <1>3, <1>5, <2>0, <2>4, <2>6
      <4>. QED BY <2>4, <4>1, NextChunk
    <3>2. x \in Nat /\ x < Base
      BY <1>0
    <3>. HIDE DEF x
    <3>3. d.pos = (q + j) * Base + x /\ d.size = n - e
      BY <1>3, <2>1, <3>1
    <3>4. d.pos % Base = x
      <4>1. q + j \in Nat /\ Base \in Nat \ {0}
        BY <1>0, <1>3, <2>0
      <4>2. ((q + j) * Base + x) % Base = x
        BY <3>2, <4>1, DivIs
      <4>. QED BY <3>3, <4>2
    <3>5. Chunk(d) = f - e /\ ~(Chunk(d) < 0)
      BY <2>3, <3>1, <3>3, <3>4 DEF Chunk
    <3>6. d \in FileRec /\ d.size > 0 /\ c <= M
      BY <1>0, <1>1, <1>3, <2>0, <2>1, <2>3, <2>6, <3>1
    <3>7. /\ Dump(b, c, d) \in FileRec
          /\ Dump(b, c, d).out =
                d.out \o Bytes(b, c, d.pos % Base, IF Chunk(d) < 0 THEN 0 ELSE Chunk(d))
          /\ Dump(b, c, d).pos = d.pos + Chunk(d)
          /\ Dump(b, c, d).size = d.size - Chunk(d)
          /\ Dump(b, c, d).dead = d.dead
      BY <2>0, <3>6, DumpChunk DEF M
    <3>8. Bytes(b, c, x, f - e) = Cut(b.mem, p + e, f - e)
      <4>1. Ahead(c, x) = p + e
        BY <1>0, <1>3, <2>0, <3>1 DEF Ahead
      <4>. QED BY <4>1 DEF Bytes, Cut
    <3>9. Cut(b.mem, p, e) \o Cut(b.mem, p + e, f - e) = Cut(b.mem, p, f)
      <4>1. f - e \in Nat /\ e + (f - e) = f /\ p + e + (f - e) <= Len(b.mem)
        BY <1>0, <1>1, <2>3, <3>1
      <4>2. Cut(b.mem, p, e) \o Cut(b.mem, p + e, f - e) = Cut(b.mem, p, e + (f - e))
        <5>1. b.mem \in Seq(ByteVals) /\ p \in Nat /\ e \in Nat
          BY <1>0, <2>3
        <5>2. PICK l \in Nat : l = f - e
          BY <4>1
        <5>3. p + e + l <= Len(b.mem)
          BY <4>1, <5>2
        <5>4. Cut(b.mem, p, e) \o Cut(b.mem, p + e, l) = Cut(b.mem, p, e + l)
          BY <5>1, <5>3, CutConcat
        <5>. QED BY <5>2, <5>4
      <4>. QED BY <4>1, <4>2
    <3>10. g[k].out = Cut(b.mem, p, f)
      <4>1. (IF Chunk(d) < 0 THEN 0 ELSE Chunk(d)) = f - e
        BY <3>5
      <4>2. g[k].out = Cut(b.mem, p, e) \o Bytes(b, c, x, f - e)
        BY <2>1, <2>2, <3>4, <3>7, <4>1
      <4>. QED BY <3>8, <3>9, <4>2
    <3>11. g[k].pos = p + f /\ g[k].size = n - f
      <4>1. g[k].pos = (p + e) + (f - e) /\ g[k].size = (n - e) - (f - e)
        BY <2>1, <2>2, <3>5, <3>7
      <4>2. p \in Nat /\ n \in Nat /\ e \in Nat /\ f \in Nat
        BY <1>0, <1>1, <2>3
      <4>3. (p + e) + (f - e) = p + f /\ (n - e) - (f - e) = n - f
        BY <4>2
      <4>. QED BY <4>1, <4>3
    <3>12. g[k] \in FileRec /\ ~g[k].dead
      BY <2>1, <2>2, <3>7
    <3>. QED BY <2>0, <3>10, <3>11, <3>12 DEF f
  <2>. QED BY <1>1, <2>3, <2>5, <2>6
<1>8. g[N] \in D[N]
  <2>. HIDE DEF D, N
  <2>1. N \in Nat
    BY <1>0 DEF N
  <2>2. \A k \in 0 .. N : g[k] \in D[k]
    BY <1>6, <1>7, <2>1, RoundByRound
  <2>. QED BY <2>1, <2>2
<1>9. N \in 0 .. N /\ N \in Nat
  BY <1>0
<1>10. E(N) = n
  <2>1. N * Base = M * Base + Base + Base /\ M * Base \in Nat
    BY <1>0, Times
  <2>2. n <= N * Base - o
    BY <1>0, <1>1, <1>3, <2>1
  <2>3. E(N) = Smaller(n, N * Base - o)
    BY <1>0 DEF Emitted
  <2>. QED BY <1>0, <1>1, <2>1, <2>2, <2>3 DEF Smaller
<1>11. ~g[N].dead /\ g[N].out = Cut(b.mem, p, n)
  BY <1>8, <1>9, <1>10
<1>. QED BY <1>2, <1>11 DEF Dumps, M, n, p

LEMMA FileImplied ==
    ASSUME IInv
    PROVE  FileComplete
<1>. SUFFICES ASSUME Sound PROVE FileComplete
  BY DEF FileComplete
<1>1. /\ ba \in Bufs /\ Follows(ba) /\ ba.mem = ref.mem /\ ReadSize(ba) \in Nat
      /\ Base \in Nat \ {0}
  BY InChain, Constants DEF IInv, Sound, EdgeOnly, ReadSize
<1>2. CASE ReadSize(ba) = 0
  <2>1. WriteToFile(ba) = <<>> /\ SubSeq(ba.mem, ba.pos + 1, ba.size) = <<>>
    BY <1>1, <1>2, FileEmpty, Readable
  <2>2. ~(0 < ReadSize(ba))
    BY <1>2
  <2>. QED BY <1>1, <2>1, <2>2 DEF FileComplete
<1>3. CASE 0 < ReadSize(ba) /\ ReadSize(ba) < Base /\ Offset(ba) # 0
  BY <1>1, <1>3, FileLost DEF FileComplete
<1>4. CASE 0 < ReadSize(ba) /\ (ReadSize(ba) >= Base \/ Offset(ba) = 0)
  <2>1. WriteToFile(ba) = Cut(ba.mem, ba.pos, ReadSize(ba))
    BY <1>1, <1>4, FileWhole
  <2>2. Cut(ba.mem, ba.pos, ReadSize(ba)) = SubSeq(ref.mem, ba.pos + 1, ba.size)
    BY <1>1, Readable DEF Cut
  <2>3. ~(0 < ReadSize(ba) /\ ReadSize(ba) < Base /\ Offset(ba) # 0)
    BY <1>1, <1>4
  <2>. QED BY <2>1, <2>2, <2>3 DEF FileComplete
<1>. QED BY <1>1, <1>2, <1>3, <1>4

-----------------------------------------------------------------------------
(* Powers of two, and division by them                                       *)

LEMMA PowerSum ==
    ASSUME NEW m \in Nat, NEW n \in Nat
    PROVE  2^(m + n) = 2^m * 2^n
<1>. DEFINE S == {k \in Nat : 2^(m + k) = 2^m * 2^k}
<1>1. 0 \in S
  <2>1. 2^m \in Nat /\ m + 0 = m
    BY Power
  <2>2. 2^m * 1 = 2^m
    BY <2>1
  <2>. QED BY <2>1, <2>2, PowerZero
<1>2. ASSUME NEW k \in Nat, k \in S PROVE k + 1 \in S
  <2>. DEFINE a == 2^m
              c == 2^k
  <2>1. 2^(m + k + 1) = 2 * 2^(m + k)
    BY PowerNext, m + k \in Nat
  <2>2. 2^(k + 1) = 2 * c
    BY PowerNext
  <2>3. 2^(m + k) = a * c
    BY <1>2
  <2>4. a \in Nat /\ c \in Nat
    BY Power
  <2>5. m + (k + 1) = m + k + 1
    OBVIOUS
  <2>. HIDE DEF a, c
  <2>6. 2 * (a * c) = a * (2 * c)
    BY <2>4
  <2>7. 2^(m + (k + 1)) = a * 2^(k + 1)
    BY <2>1, <2>2, <2>3, <2>5, <2>6
  <2>. QED BY <2>7 DEF a
<1>3. n \in S
  <2>. HIDE DEF S
  <2>. QED BY <1>1, <1>2, SetInduction
<1>. QED BY <1>3

LEMMA PowerGrows ==
    ASSUME NEW m \in Nat, NEW n \in Nat, m <= n
    PROVE  2^m <= 2^n
<1>1. PICK d \in Nat : n = m + d
  <2>1. n - m \in Nat /\ n = m + (n - m)
    OBVIOUS
  <2>. QED BY <2>1
<1>2. 2^n = 2^m * 2^d
  BY <1>1, PowerSum
<1>. DEFINE a == 2^m
            c == 2^d
<1>3. a \in Nat /\ c \in Nat \ {0}
  BY Power
<1>. HIDE DEF a, c
<1>4. PICK e \in Nat : c = e + 1
  <2>1. c - 1 \in Nat /\ c = (c - 1) + 1
    BY <1>3
  <2>. QED BY <2>1
<1>5. a * c = a * e + a /\ a * e \in Nat
  BY <1>3, <1>4
<1>6. a <= a * c
  BY <1>3, <1>5
<1>. QED BY <1>2, <1>6 DEF a, c

\* Dividing twice, and what the two remainders are.
DividesTwice(n, a, c) ==
    /\ a * c \in Nat \ {0}
    /\ (n \div a) \div c = n \div (a * c)
    /\ n % (a * c) = ((n \div a) % c) * a + (n % a)

LEMMA DivTwice ==
    ASSUME NEW n \in Nat, NEW a \in Nat \ {0}, NEW c \in Nat \ {0}
    PROVE  DividesTwice(n, a, c)
<1>. DEFINE q == n \div a
            r == n % a
            s == q \div c
            t == q % c
<1>1. q \in Nat /\ r \in Nat /\ r < a /\ n = q * a + r
  BY DivMod
<1>. HIDE DEF q, r
<1>2. s \in Nat /\ t \in Nat /\ t < c /\ q = s * c + t
  BY <1>1, DivMod
<1>. HIDE DEF s, t
<1>3. a * c \in Nat /\ a * c # 0
  <2>1. PICK d \in Nat, e \in Nat : a = d + 1 /\ c = e + 1
    <3>1. a - 1 \in Nat /\ a = (a - 1) + 1 /\ c - 1 \in Nat /\ c = (c - 1) + 1
      OBVIOUS
    <3>. QED BY <3>1
  <2>2. a * c = d * e + d + e + 1 /\ d * e \in Nat
    BY <2>1
  <2>. QED BY <2>2
<1>4. t * a + r \in Nat /\ t * a + r < a * c
  <2>1. t * a \in Nat /\ t * a + a <= c * a
    BY <1>2, Times
  <2>2. c * a = a * c
    OBVIOUS
  <2>. QED BY <1>1, <1>3, <2>1, <2>2
<1>5. n = s * (a * c) + (t * a + r)
  <2>1. q * a = s * c * a + t * a
    BY <1>2
  <2>2. s * c * a = s * (a * c)
    BY <1>2
  <2>3. s * (a * c) \in Nat /\ t * a \in Nat
    BY <1>2, <1>3
  <2>. QED BY <1>1, <2>1, <2>2, <2>3
<1>. DEFINE p == a * c
            x == t * a + r
<1>6. p \in Nat \ {0} /\ x \in Nat /\ x < p /\ n = s * p + x
  BY <1>3, <1>4, <1>5
<1>. HIDE DEF p, x
<1>7. n \div p = s /\ n % p = x
  BY <1>2, <1>6, DivIs
<1>. QED BY <1>3, <1>7 DEF DividesTwice, p, x, s, t, q, r

-----------------------------------------------------------------------------
(* Fixed integers and strings are read as they were written                  *)

\* The first k bytes of an integer say what is left of it without the others.
LEMMA BytesBack ==
    ASSUME NEW n \in Nat, NEW w \in Nat, n < 2^(w * (GroupBits + 1))
    PROVE  FromBytes(ToBytes(n, w)) = n
<1>. DEFINE B == GroupBits + 1
            v == ToBytes(n, w)
            Left(k) == n \div 2^((w - k) * B)
            D == [k \in 0 .. w |-> {Left(k)}]
<1>0. /\ B \in Nat \ {0} /\ v \in Seq(ByteVals) /\ Len(v) = w /\ Radix \in Nat \ {0}
      /\ \A k \in 1 .. w : v[k] = Left(k) % Radix
  <2>1. v \in Seq(ByteVals)
    BY ToBytesIs
  <2>2. v = [i \in 1 .. w |-> Left(i) % Radix]
    BY DEF ToBytes
  <2>. HIDE DEF v, Left
  <2>3. Len(v) = w /\ \A k \in 1 .. w : v[k] = Left(k) % Radix
    BY <2>1, <2>2
  <2>4. B \in Nat \ {0} /\ Radix \in Nat \ {0}
    BY Constants
  <2>. QED BY <2>1, <2>3, <2>4
<1>1. 2^B = Radix
  BY Constants, PowerNext DEF Radix, Top
<1>2. PICK h : FromRounds(v, h)
  BY <1>0, FromBytesRounds
<1>3. ASSUME NEW k \in 0 .. w PROVE (w - k) * B \in Nat /\ 2^((w - k) * B) \in Nat \ {0} /\ Left(k) \in Nat
  <2>1. w - k \in Nat
    OBVIOUS
  <2>2. (w - k) * B \in Nat
    BY <1>0, <2>1, Times
  <2>. DEFINE e == (w - k) * B
  <2>. HIDE DEF e
  <2>3. 2^e \in Nat \ {0}
    BY <2>2, Power DEF e
  <2>4. n \div 2^e \in Nat
    BY <2>3, DivMod
  <2>. QED BY <2>2, <2>3, <2>4 DEF e
<1>4. ASSUME NEW k \in 1 .. w PROVE Left(k - 1) = Left(k) \div Radix
  <2>. DEFINE e == (w - k) * B
              a == 2^e
  <2>1. w - k \in Nat /\ w - (k - 1) = (w - k) + 1 /\ k \in 0 .. w
    OBVIOUS
  <2>2. e \in Nat /\ (w - (k - 1)) * B = e + B
    <3>. DEFINE p == w - k
                next == w - (k - 1)
    <3>1. p \in Nat /\ next = p + 1
      BY <2>1
    <3>2. B \in Nat \ {0}
      BY <1>0
    <3>. HIDE DEF p, next, B
    <3>3. p * B \in Nat /\ (p + 1) * B = p * B + B
      BY <3>1, <3>2, Times
    <3>4. next * B = p * B + B
      BY <3>1, <3>3, Zenon
    <3>. QED BY <3>3, <3>4, Zenon DEF p, next
  <2>3. a \in Nat \ {0}
    BY <1>3, <2>1
  <2>. HIDE DEF e
  <2>4. 2^(e + B) = a * Radix
    BY <1>0, <1>1, <2>2, PowerSum
  <2>. HIDE DEF a
  <2>5. (n \div a) \div Radix = n \div (a * Radix)
    <3>1. Radix \in Nat \ {0}
      BY <1>0
    <3>2. DividesTwice(n, a, Radix)
      BY <2>3, <3>1, DivTwice
    <3>. QED BY <3>2 DEF DividesTwice
  <2>. QED BY <2>2, <2>4, <2>5 DEF a, e
<1>5. Left(0) = 0
  <2>. DEFINE a == 2^(w * B)
  <2>1. w - 0 = w /\ 0 \in 0 .. w
    OBVIOUS
  <2>2. a \in Nat \ {0} /\ n < a
    BY <1>3, <2>1
  <2>. HIDE DEF a
  <2>3. n = 0 * a + n
    BY <2>2
  <2>4. n \div a = 0
    BY <2>2, <2>3, DivIs
  <2>. QED BY <2>1, <2>4 DEF a
<1>6. Left(w) = n
  <2>1. (w - w) * B = 0 /\ w \in 0 .. w
    BY <1>0
  <2>2. n \div 1 = n
    <3>1. n = n * 1 + 0
      OBVIOUS
    <3>. QED BY <3>1, DivIs
  <2>. QED BY <2>1, <2>2, PowerZero
<1>. HIDE DEF Left, v
<1>7. h[0] \in D[0]
  <2>1. 0 \in 0 .. w
    OBVIOUS
  <2>. QED BY <1>2, <1>5, <2>1 DEF FromRounds
<1>8. ASSUME NEW k \in 1 .. w, h[k - 1] \in D[k - 1] PROVE h[k] \in D[k]
  <2>1. k \in 0 .. w /\ k - 1 \in 0 .. w
    OBVIOUS
  <2>2. h[k - 1] = Left(k - 1)
    BY <1>8, <2>1
  <2>3. h[k] = h[k - 1] * Radix + v[k] /\ v[k] = Left(k) % Radix
    BY <1>0, <1>2 DEF FromRounds
  <2>4. Left(k) = (Left(k) \div Radix) * Radix + (Left(k) % Radix)
    BY <1>0, <1>3, <2>1, DivMod
  <2>5. h[k] = Left(k)
    BY <1>4, <2>2, <2>3, <2>4
  <2>. QED BY <2>1, <2>5
<1>9. h[w] \in D[w]
  <2>. HIDE DEF D
  <2>. QED BY <1>7, <1>8, RoundByRound
<1>10. h[w] = n
  BY <1>6, <1>9
<1>. QED BY <1>0, <1>2, <1>10 DEF FromRounds, v

LEMMA TwiceReversed ==
    ASSUME NEW S, NEW v \in Seq(S)
    PROVE  Reverse(v) \in Seq(S) /\ Len(Reverse(v)) = Len(v) /\ Reverse(Reverse(v)) = v
<1>1. Reverse(v) \in Seq(S)
  BY Reversed DEF byteswap
<1>2. Len(Reverse(v)) = Len(v) /\ \A i \in 1 .. Len(v) : Reverse(v)[i] = v[(Len(v) - i) + 1]
  BY DEF Reverse
<1>. DEFINE t == Reverse(v)
            u == Reverse(t)
<1>3. Len(t) = Len(v) /\ t \in Seq(S)
  BY <1>1, <1>2
<1>. HIDE DEF t
<1>4. u \in Seq(S) /\ Len(u) = Len(t) /\ \A i \in 1 .. Len(t) : u[i] = t[(Len(t) - i) + 1]
  <2>1. u \in Seq(S)
    BY <1>3, Reversed DEF byteswap
  <2>. QED BY <1>3, <2>1 DEF Reverse
<1>5. ASSUME NEW i \in 1 .. Len(v) PROVE u[i] = v[i]
  <2>1. (Len(v) - i) + 1 \in 1 .. Len(v) /\ (Len(v) - ((Len(v) - i) + 1)) + 1 = i
    OBVIOUS
  <2>2. u[i] = t[(Len(v) - i) + 1]
    BY <1>3, <1>4
  <2>3. t[(Len(v) - i) + 1] = v[(Len(v) - ((Len(v) - i) + 1)) + 1]
    BY <1>2, <2>1 DEF t
  <2>. QED BY <2>1, <2>2, <2>3
<1>6. u = v
  <2>. HIDE DEF u
  <2>. QED BY <1>3, <1>4, <1>5, SeqEqual
<1>. QED BY <1>1, <1>2, <1>6 DEF u, t

\* Whatever the order of the array and of the machine, what is stored is read.
LEMMA FixedBack ==
    ASSUME NEW b, NEW c, c.endian = b.endian, NEW v \in Seq(ByteVals)
    PROVE  /\ (IF c.endian = Host THEN InMemory(Fixed(b, v)) ELSE byteswap(InMemory(Fixed(b, v)))) = v
           /\ Len(Fixed(b, v)) = Len(v)
<1>. DEFINE x == IF b.endian # Host THEN byteswap(v) ELSE v
<1>1. x \in Seq(ByteVals) /\ Len(x) = Len(v) /\ (b.endian # Host => byteswap(x) = v)
  BY TwiceReversed DEF byteswap
<1>2. Fixed(b, v) = InMemory(x)
  BY DEF Fixed
<1>. HIDE DEF x
<1>3. InMemory(InMemory(x)) = x /\ Len(InMemory(x)) = Len(x)
  BY <1>1, TwiceReversed DEF InMemory
<1>4. c.endian = Host => x = v
  BY DEF x
<1>. QED BY <1>1, <1>2, <1>3, <1>4

Good(b) == b \in Bufs /\ ~b.dead /\ Follows(b)

\* New nodes come behind the old ones.
LEMMA GrowsBehind ==
    ASSUME NEW b \in Bufs, NEW n \in Nat \ {0}, NEW i \in 1 .. Len(b.mem)
    PROVE  AddCapacity(b, n).mem[i] = b.mem[i]
<1>. DEFINE e == AddCapacity(b, n)
            z == Zeros(CeilDiv(n - (Len(b.mem) - b.size), Base))
<1>0. b.mem \in Seq(ByteVals) /\ Len(b.mem) \in Nat /\ b.size \in Nat /\ b.size <= Len(b.mem)
  BY InChain
<1>1. CASE Len(b.mem) - b.size >= n
  BY <1>1, Grows
<1>2. CASE Len(b.mem) - b.size < n
  <2>1. e.mem = b.mem \o z
    BY <1>2, Grows
  <2>2. CeilDiv(n - (Len(b.mem) - b.size), Base) \in Nat
    <3>1. n - (Len(b.mem) - b.size) \in Nat /\ Base \in Nat \ {0}
      BY <1>0, <1>2, Constants
    <3>. QED BY <3>1, Ceiling
  <2>3. z \in Seq(ByteVals)
    <3>. DEFINE k == CeilDiv(n - (Len(b.mem) - b.size), Base)
    <3>. HIDE DEF k
    <3>1. k * Base \in Nat
      BY <2>2, Constants, Times DEF k
    <3>2. Zeros(k) \in Seq(ByteVals)
      BY <3>1, Constants DEF Zeros
    <3>. QED BY <3>2 DEF k
  <2>. HIDE DEF z, e
  <2>4. (b.mem \o z)[i] = b.mem[i]
    BY <1>0, <2>3, ConcatProperties
  <2>. QED BY <2>1, <2>4 DEF e
<1>. QED BY <1>0, <1>1, <1>2

\* What a write leaves: its bytes from the position on, and what was before them.
LEMMA Wrote ==
    ASSUME NEW b \in Bufs, Good(b), Open(b), NEW data \in Seq(ByteVals), data # <<>>
    PROVE  LET n == Len(data)
               w == Write(b, data)
           IN /\ Good(w) /\ w.endian = b.endian /\ w.pos = b.pos + n
              /\ b.pos + n <= w.size /\ w.size <= Len(w.mem)
              /\ Cut(w.mem, b.pos, n) = data
              /\ \A i \in 1 .. b.pos : w.mem[i] = b.mem[i]
<1>. DEFINE n == Len(data)
            w == Write(b, data)
            e == AddCapacity(b, n)
<1>0. /\ n \in Nat \ {0} /\ b.pos \in Nat /\ b.size \in Nat /\ b.pos <= b.size
      /\ b.size <= Len(b.mem) /\ Len(b.mem) \in Nat /\ ~b.dead /\ Follows(b)
  BY InChain DEF Good
<1>1. /\ w \in Bufs /\ ~w.dead /\ Follows(w) /\ w.endian = b.endian
      /\ w.mem = Stored(e.mem, b.pos, data) /\ w.pos = b.pos + n
      /\ w.size = IF b.pos + n > b.size THEN b.pos + n ELSE b.size
  BY <1>0, WriteInPlace
<1>. HIDE DEF w
<1>2. e \in Bufs /\ b.size + n <= Len(e.mem) /\ \A i \in 1 .. Len(b.mem) : e.mem[i] = b.mem[i]
  BY <1>0, Grows, GrowsBehind
<1>. HIDE DEF e
<1>3. e.mem \in Seq(ByteVals) /\ Len(e.mem) \in Nat
  BY <1>2, InChain
<1>4. DOMAIN e.mem = 1 .. Len(e.mem)
  BY <1>3
<1>9. Len(data) = n
  OBVIOUS
<1>. HIDE DEF n
<1>5. ASSUME NEW i \in 1 .. n PROVE w.mem[b.pos + i] = data[i]
  <2>1. b.pos + i \in DOMAIN e.mem /\ b.pos + i \in b.pos + 1 .. b.pos + n
    BY <1>0, <1>2, <1>3, <1>4
  <2>. DEFINE j == b.pos + i
  <2>2. j \in DOMAIN e.mem /\ j \in b.pos + 1 .. b.pos + Len(data) /\ j - b.pos = i
    <3>1. j \in DOMAIN e.mem
      BY <2>1
    <3>2. j \in b.pos + 1 .. b.pos + Len(data)
      BY <1>9, <2>1
    <3>3. j - b.pos = i
      BY <1>0
    <3>. QED BY <3>1, <3>2, <3>3
  <2>3. Stored(e.mem, b.pos, data) =
            [k \in DOMAIN e.mem |-> IF k \in b.pos + 1 .. b.pos + Len(data) THEN data[k - b.pos] ELSE e.mem[k]]
    BY DEF Stored
  <2>. HIDE DEF j
  <2>4. w.mem[j] = data[j - b.pos]
    BY <1>1, <2>2, <2>3
  <2>. QED BY <2>2, <2>4 DEF j
<1>6. ASSUME NEW i \in 1 .. b.pos PROVE w.mem[i] = b.mem[i]
  <2>1. i \in 1 .. Len(b.mem)
    BY <1>0
  <2>2. i \in DOMAIN e.mem /\ ~(i \in b.pos + 1 .. b.pos + n)
    BY <1>0, <1>2, <1>3, <1>4
  <2>3. w.mem[i] = e.mem[i]
    BY <1>1, <2>2 DEF Stored, n
  <2>. QED BY <1>2, <2>1, <2>3
<1>7. Cut(w.mem, b.pos, n) = data
  <2>1. data = [i \in 1 .. n |-> data[i]]
    BY DEF n
  <2>2. Cut(w.mem, b.pos, n) = [i \in 1 .. n |-> data[i]]
    BY <1>5 DEF Cut
  <2>. QED BY <2>1, <2>2
<1>8. b.pos + n <= w.size /\ w.size <= Len(w.mem)
  <2>1. w.size <= Len(w.mem)
    BY <1>1, InChain
  <2>2. b.pos + n <= w.size
    BY <1>0, <1>1
  <2>. QED BY <2>1, <2>2
<1>. QED BY <1>1, <1>6, <1>7, <1>8 DEF n, w, Good

\* Going back inside the buffer.
LEMMA SeekBack ==
    ASSUME NEW w \in Bufs, ~w.dead, NEW v \in Nat, v < Len(w.mem), v <= w.size
    PROVE  LET c == SetPosition(w, v) IN
           Good(c) /\ c.pos = v /\ c.mem = w.mem /\ c.size = w.size /\ c.endian = w.endian
<1>. DEFINE c == SetPosition(w, v)
<1>0. w \in BufRec /\ Len(w.mem) \in Nat /\ w.size \in Nat
  BY InChain
<1>1. c = [w EXCEPT !.pos = v, !.size = w.size, !.cur = v \div Base + 1]
  <2>1. ~(v > w.size) /\ ~(v > Len(w.mem)) /\ v # Len(w.mem)
    BY <1>0
  <2>. QED BY <2>1 DEF SetPosition
<1>2. c.endian = w.endian /\ c.dead = w.dead
  BY <1>0, <1>1 DEF BufRec
<1>3. c \in Bufs /\ c.mem = w.mem /\ c.pos = v /\ c.size = w.size /\ EdgeOnly(c)
  <2>1. v <= Len(w.mem) /\ ~(v > w.size)
    BY <1>0
  <2>. HIDE DEF c
  <2>. QED BY <2>1, SetPositionIs DEF c
<1>. HIDE DEF c
<1>. QED BY <1>2, <1>3 DEF Good, EdgeOnly, c

LEMMA SomeBytes ==
    ASSUME NEW s \in Seq(ByteVals)
    PROVE  s \notin Nothing
<1>1. ASSUME s \in Nothing PROVE FALSE
  <2>1. Len(s) = 2 /\ s[1] \notin ByteVals
    <3>1. Len(<<-1, -1>>) = 2 /\ Len(<<-2, -2>>) = 2 /\ <<-1, -1>>[1] = -1 /\ <<-2, -2>>[1] = -2
      OBVIOUS
    <3>2. -1 \notin ByteVals /\ -2 \notin ByteVals
      BY Constants
    <3>. QED BY <1>1, <3>1, <3>2 DEF Nothing, Thrown, Undefined
  <2>2. 1 \in 1 .. Len(s)
    BY <2>1
  <2>. QED BY <2>1, <2>2
<1>. QED BY <1>1

\* An integer that lies behind the position in the order of the array.
LEMMA ReadFixedExact ==
    ASSUME NEW c \in Bufs, Good(c), NEW b, c.endian = b.endian, NEW v \in Seq(ByteVals),
           c.pos < Len(c.mem), Len(v) <= ReadSize(c), Cut(c.mem, c.pos, Len(v)) = Fixed(b, v)
    PROVE  LET r == ReadFixed(c, Len(v)) IN
           /\ r.got = v /\ Good(r.b) /\ r.b.pos = c.pos + Len(v)
           /\ r.b.mem = c.mem /\ r.b.size = c.size
<1>. DEFINE w == Len(v)
            r == Read(c, w)
            f == Fixed(b, v)
<1>0. w \in Nat /\ ~c.dead /\ Follows(c)
  BY DEF Good
<1>1. /\ r.got = f /\ r.got \in Seq(ByteVals)
      /\ Good(r.b) /\ r.b.pos = c.pos + w /\ r.b.mem = c.mem /\ r.b.size = c.size
  <2>. HIDE DEF w
  <2>1. /\ r.got = [i \in 1 .. w |-> c.mem[c.pos + i]] /\ r.got \in Seq(ByteVals)
        /\ r.b \in Bufs /\ ~r.b.dead /\ Follows(r.b) /\ r.b.pos = c.pos + w
        /\ r.b.mem = c.mem /\ r.b.size = c.size
    BY <1>0, ReadExact DEF w
  <2>2. r.got = f
    BY <2>1 DEF Cut, w
  <2>. QED BY <2>1, <2>2 DEF Good
<1>2. r = [got |-> r.got, b |-> r.b]
  BY <1>0, ReadIs
<1>3. r.got \notin {Thrown, Undefined}
  BY <1>1, SomeBytes DEF Nothing
<1>. DEFINE x == IF c.endian = Host THEN InMemory(r.got) ELSE byteswap(InMemory(r.got))
<1>4. ReadFixed(c, w) = [r EXCEPT !.got = x]
  BY <1>3 DEF ReadFixed
<1>5. x = v
  BY <1>1, FixedBack
<1>. HIDE DEF x, r
<1>6. ReadFixed(c, w).got = x /\ ReadFixed(c, w).b = r.b
  BY <1>2, <1>4
<1>. QED BY <1>1, <1>5, <1>6

LEMMA FixedReadsBack ==
    ASSUME NEW b \in Bufs, Good(b), Open(b), NEW v \in Seq(ByteVals), v # <<>>
    PROVE  ReadFixed(SetPosition(WriteFixed(b, v), b.pos), Len(v)).got = v
<1>. DEFINE f == Fixed(b, v)
            w == Write(b, f)
            c == SetPosition(w, b.pos)
<1>0. b.pos \in Nat /\ Len(v) \in Nat \ {0}
  BY InChain
<1>1. f \in Seq(ByteVals) /\ Len(f) = Len(v)
  BY FixedIs, FixedBack
<1>2. f # <<>>
  BY <1>0, <1>1
<1>. HIDE DEF f
<1>3. /\ Good(w) /\ w.endian = b.endian
      /\ b.pos + Len(v) <= w.size /\ w.size <= Len(w.mem)
      /\ Cut(w.mem, b.pos, Len(v)) = f
  BY <1>1, <1>2, Wrote
<1>. HIDE DEF w
<1>4. w \in Bufs /\ ~w.dead /\ w.size \in Nat /\ Len(w.mem) \in Nat
  BY <1>3, InChain DEF Good
<1>5. b.pos < Len(w.mem) /\ b.pos <= w.size
  BY <1>0, <1>3, <1>4
<1>6. Good(c) /\ c.pos = b.pos /\ c.mem = w.mem /\ c.size = w.size /\ c.endian = b.endian
  BY <1>0, <1>3, <1>4, <1>5, SeekBack
<1>. HIDE DEF c
<1>7. c \in Bufs /\ Len(v) <= ReadSize(c)
  BY <1>0, <1>3, <1>4, <1>6 DEF Good, ReadSize
<1>8. c.pos < Len(c.mem) /\ Cut(c.mem, c.pos, Len(v)) = Fixed(b, v)
  BY <1>3, <1>5, <1>6 DEF f
<1>9. ReadFixed(c, Len(v)).got = v
  BY <1>6, <1>7, <1>8, ReadFixedExact
<1>. QED BY <1>9 DEF c, w, f, WriteFixed

\* A string behind its length: two writes, then both are read.
LEMMA StringReadsBack ==
    ASSUME NEW b \in Bufs, Good(b), Open(b), NEW w \in Nat \ {0}, NEW s \in Seq(ByteVals),
           Len(s) < 2^(w * (GroupBits + 1)), Open(WriteFixed(b, ToBytes(Len(s), w))),
           ~(s = <<>> /\ WriteString(b, w, s).pos = Len(WriteString(b, w, s).mem))
    PROVE  ReadString(SetPosition(WriteString(b, w, s), b.pos), w).got = s
<1>. DEFINE n == Len(s)
            v == ToBytes(n, w)
            f == Fixed(b, v)
            d == Write(b, f)
            x == Write(d, s)
            c == SetPosition(x, b.pos)
            p == b.pos
<1>0. n \in Nat /\ p \in Nat
  BY InChain
<1>1. v \in Seq(ByteVals) /\ Len(v) = w /\ FromBytes(v) = n
  <2>1. v \in Seq(ByteVals)
    BY <1>0, ToBytesIs
  <2>2. Len(v) = w
    BY <2>1 DEF ToBytes
  <2>3. FromBytes(v) = n
    BY <1>0, BytesBack
  <2>. QED BY <2>1, <2>2, <2>3
<1>2. x = WriteString(b, w, s) /\ d = WriteFixed(b, v)
  BY DEF WriteString, WriteFixed
<1>. HIDE DEF v
<1>3. f \in Seq(ByteVals) /\ Len(f) = w
  BY <1>1, FixedIs, FixedBack
<1>4. f # <<>>
  BY <1>3
<1>. HIDE DEF f
<1>5. /\ Good(d) /\ d.endian = b.endian /\ d.pos = p + w
      /\ p + w <= d.size /\ d.size <= Len(d.mem)
      /\ Cut(d.mem, p, w) = f /\ Open(d)
  <2>1. Open(d)
    BY <1>2 DEF v
  <2>2. /\ Good(d) /\ d.endian = b.endian /\ d.pos = p + w
        /\ p + w <= d.size /\ d.size <= Len(d.mem)
        /\ Cut(d.mem, p, w) = f
    BY <1>3, <1>4, Wrote
  <2>. QED BY <2>1, <2>2
<1>6. d \in Bufs
  BY <1>5 DEF Good
<1>. HIDE DEF d
<1>7. /\ Good(x) /\ x.endian = b.endian /\ p + w + n <= x.size /\ x.size <= Len(x.mem)
      /\ Cut(x.mem, p, w) = f /\ Cut(x.mem, p + w, n) = s
      /\ p + w < Len(x.mem)
  <2>1. CASE s = <<>>
    <3>1. x = d /\ n = 0
      BY <2>1 DEF Write
    <3>2. Cut(x.mem, p + w, n) = s
      BY <2>1, <3>1 DEF Cut
    <3>3. d.size \in Nat /\ Len(d.mem) \in Nat
      BY <1>6, InChain
    <3>4. d.pos # Len(d.mem)
      BY <1>2, <2>1, <3>1
    <3>. HIDE DEF x
    <3>5. p + w < Len(d.mem)
      BY <1>0, <1>5, <3>3, <3>4
    <3>6. p + w + n <= x.size
      BY <1>0, <1>5, <3>1, <3>3
    <3>. QED BY <1>5, <3>1, <3>2, <3>5, <3>6
  <2>2. CASE s # <<>>
    <3>1. /\ Good(x) /\ x.endian = d.endian /\ d.pos + n <= x.size /\ x.size <= Len(x.mem)
          /\ Cut(x.mem, d.pos, n) = s
          /\ \A i \in 1 .. d.pos : x.mem[i] = d.mem[i]
      BY <1>5, <1>6, <2>2, Wrote
    <3>2. x.size \in Nat /\ Len(x.mem) \in Nat /\ n # 0
      BY <2>2, <3>1, InChain DEF Good
    <3>. HIDE DEF x
    <3>3. Cut(x.mem, p, w) = Cut(d.mem, p, w)
      <4>1. ASSUME NEW i \in 1 .. w PROVE x.mem[p + i] = d.mem[p + i]
        <5>1. p + i \in 1 .. d.pos
          BY <1>0, <1>5
        <5>. QED BY <3>1, <5>1
      <4>. QED BY <4>1 DEF Cut
    <3>4. p + w < Len(x.mem)
      BY <1>0, <1>5, <3>1, <3>2
    <3>. QED BY <1>5, <3>1, <3>3, <3>4
  <2>. QED BY <2>1, <2>2
<1>8. x \in Bufs /\ ~x.dead /\ x.size \in Nat /\ Len(x.mem) \in Nat
  BY <1>7, InChain DEF Good
<1>. HIDE DEF x
<1>9. p < Len(x.mem) /\ p <= x.size
  BY <1>0, <1>7, <1>8
<1>10. Good(c) /\ c.pos = p /\ c.mem = x.mem /\ c.size = x.size /\ c.endian = b.endian
  BY <1>0, <1>7, <1>8, <1>9, SeekBack
<1>. HIDE DEF c
<1>11. c \in Bufs /\ Len(v) <= ReadSize(c) /\ c.pos < Len(c.mem) /\ Cut(c.mem, c.pos, Len(v)) = Fixed(b, v)
  <2>1. c \in Bufs
    BY <1>10 DEF Good
  <2>2. Len(v) <= ReadSize(c)
    BY <1>0, <1>1, <1>7, <1>8, <1>10 DEF ReadSize
  <2>3. c.pos < Len(c.mem)
    BY <1>9, <1>10
  <2>4. Cut(c.mem, c.pos, Len(v)) = Fixed(b, v)
    BY <1>1, <1>7, <1>10 DEF f
  <2>. QED BY <2>1, <2>2, <2>3, <2>4
<1>. DEFINE r == ReadFixed(c, w)
<1>12. /\ r.got = v /\ Good(r.b) /\ r.b.pos = p + w
       /\ r.b.mem = x.mem /\ r.b.size = x.size
  BY <1>1, <1>10, <1>11, ReadFixedExact
<1>. HIDE DEF r
<1>13. r.b \in Bufs /\ ~r.b.dead /\ Follows(r.b) /\ r.b.pos < Len(r.b.mem) /\ n <= ReadSize(r.b)
  <2>1. n <= ReadSize(r.b)
    BY <1>0, <1>7, <1>8, <1>12 DEF ReadSize
  <2>. QED BY <1>7, <1>12, <2>1 DEF Good
<1>14. Read(r.b, n).got = Cut(r.b.mem, r.b.pos, n)
  BY <1>0, <1>13, ReadExact DEF Cut
<1>15. Read(r.b, n).got = s
  BY <1>7, <1>12, <1>14
<1>16. r.got \notin {Thrown, Undefined}
  BY <1>1, <1>12, SomeBytes DEF Nothing
<1>17. ReadString(c, w) = Read(r.b, FromBytes(r.got))
  <2>1. w # 0
    OBVIOUS
  <2>. QED BY <1>16, <2>1 DEF ReadString, r
<1>18. ReadString(c, w).got = s
  BY <1>1, <1>12, <1>15, <1>17
<1>. QED BY <1>2, <1>18 DEF c

LEMMA ReadsBackImplied ==
    ASSUME IInv
    PROVE  ReadsBack
<1>. SUFFICES ASSUME Sound, ~FullBehind(ref) PROVE ReadsBack
  BY DEF ReadsBack
<1>1. ba \in Bufs /\ Good(ba) /\ Open(ba) /\ ba.pos \in Nat
  BY InChain DEF IInv, Sound, EdgeOnly, Good, Open, FullBehind
<1>2. ASSUME NEW v \in {<<d, 0, 1, d>> : d \in Data} \cup {<<d, 0>> : d \in Data}
      PROVE  /\ ReadFixed(SetPosition(WriteFixed(ba, v), ba.pos), Len(v)).got = v
             /\ ReadReal(SetPosition(WriteReal(ba, v), ba.pos), Len(v)).got = v
  <2>1. 0 \in ByteVals /\ 1 \in ByteVals /\ Data \subseteq ByteVals
    BY Constants DEF ByteVals
  <2>2. v \in Seq(ByteVals) /\ Len(v) \in {2, 4}
    <3>1. CASE v \in {<<d, 0, 1, d>> : d \in Data}
      <4>1. PICK d \in Data : v = <<d, 0, 1, d>>
        BY <3>1
      <4>. QED BY <2>1, <4>1
    <3>2. CASE v \in {<<d, 0>> : d \in Data}
      <4>1. PICK d \in Data : v = <<d, 0>>
        BY <3>2
      <4>. QED BY <2>1, <4>1
    <3>. QED BY <3>1, <3>2
  <2>3. v # <<>> /\ Len(v) # 8
    <3>1. Len(<<>>) = 0 /\ 0 \notin {2, 4} /\ 8 \notin {2, 4}
      OBVIOUS
    <3>. QED BY <2>2, <3>1, Zenon
  <2>4. ReadFixed(SetPosition(WriteFixed(ba, v), ba.pos), Len(v)).got = v
    BY <1>1, <2>2, <2>3, FixedReadsBack
  <2>. QED BY <2>3, <2>4 DEF ReadReal, WriteReal
<1>3. ASSUME NEW w \in {2, 4}, NEW s \in Strings
      PROVE  LET b == WriteString(ba, w, s) IN
             \/ ReadString(SetPosition(b, ba.pos), w).got = s
             \/ b.dead
             \/ FullBehind(WriteFixed(ba, ToBytes(Len(s), w)))
             \/ s = <<>> /\ b.pos = Len(b.mem)
             \/ Len(s) >= 2^(w * (GroupBits + 1))
  <2>1. s \in Seq(ByteVals) /\ Len(s) \in Nat /\ w \in Nat \ {0}
    BY StringIs
  <2>2. 2^(w * (GroupBits + 1)) \in Nat
    <3>1. GroupBits + 1 \in Nat \ {0}
      BY Constants
    <3>2. w * (GroupBits + 1) \in Nat
      BY <2>1, <3>1, Times
    <3>. QED BY <3>2, Power
  <2>. SUFFICES ASSUME Len(s) < 2^(w * (GroupBits + 1)),
                       ~FullBehind(WriteFixed(ba, ToBytes(Len(s), w))),
                       ~(s = <<>> /\ WriteString(ba, w, s).pos = Len(WriteString(ba, w, s).mem))
                PROVE  ReadString(SetPosition(WriteString(ba, w, s), ba.pos), w).got = s
    BY <2>1, <2>2
  <2>3. Open(WriteFixed(ba, ToBytes(Len(s), w)))
    BY DEF Open, FullBehind
  <2>. QED BY <1>1, <2>1, <2>3, StringReadsBack
<1>. QED BY <1>2, <1>3 DEF ReadsBack

-----------------------------------------------------------------------------
(* Integers of variable length are read as they were written, once the last  *)
(* group is there                                                            *)

\* The weight of group k.
Weight(k) == 2^(k * GroupBits)

LEMMA WeightIs ==
    ASSUME NEW k \in Nat
    PROVE  Weight(k) \in Nat \ {0} /\ Weight(k + 1) = Weight(k) * Top /\ Weight(0) = 1
<1>0. GroupBits \in Nat \ {0}
  BY Constants
<1>1. k * GroupBits \in Nat /\ (k + 1) * GroupBits = k * GroupBits + GroupBits
  BY <1>0, Times
<1>2. 2^(k * GroupBits + GroupBits) = 2^(k * GroupBits) * 2^GroupBits
  BY <1>0, <1>1, PowerSum
<1>3. 2^(k * GroupBits) \in Nat \ {0}
  BY <1>1, Power
<1>4. 0 * GroupBits = 0
  BY <1>0
<1>. QED BY <1>1, <1>2, <1>3, <1>4, PowerZero DEF Weight, Top

\* What is stored of u, and what is not.
VarintShape(u) ==
    LET L == Len(Varint[u]) IN
    /\ L \in Nat
    /\ \A i \in 1 .. L : Varint[u][i] = ((u \div Weight(i - 1)) % Top) + Top
    /\ u \div Weight(L) < Top
    /\ L > 0 => Weight(L) <= u

LEMMA ShapeOfOne ==
    ASSUME NEW u \in Nat, u < Top
    PROVE  VarintShape(u)
<1>1. Varint[u] = <<>>
  BY VarintEquation
<1>2. Len(Varint[u]) = 0
  BY <1>1
<1>3. u \div 1 = u
  <2>1. u = u * 1 + 0
    OBVIOUS
  <2>. QED BY <2>1, DivIs
<1>4. Weight(0) = 1
  BY WeightIs
<1>. QED BY <1>2, <1>3, <1>4 DEF VarintShape

LEMMA ShapeOfMore ==
    ASSUME NEW u \in Nat, u >= Top, VarintShape(u \div Top)
    PROVE  VarintShape(u)
<1>. DEFINE q == u \div Top
            l == Len(Varint[q])
            L == Len(Varint[u])
<1>0. Top \in Nat \ {0} /\ q \in Nat /\ u % Top \in Nat /\ u = q * Top + (u % Top)
  BY Constants, DivMod
<1>. HIDE DEF q
<1>1. Varint[u] = Group(u) \o Varint[q]
  <2>1. ~(u < Top)
    BY <1>0
  <2>. QED BY <2>1, VarintEquation DEF q
<1>2. /\ Group(u) \in Seq(ByteVals) /\ Len(Group(u)) = 1 /\ Group(u)[1] = (u % Top) + Top
      /\ Varint[q] \in Seq(ByteVals) /\ l \in Nat
  <2>1. Group(u) \in Seq(ByteVals) /\ Varint[q] \in Seq(ByteVals)
    BY <1>0, GroupTyped, VarintIs
  <2>2. Len(Group(u)) = 1 /\ Group(u)[1] = (u % Top) + Top
    BY DEF Group
  <2>. QED BY <2>1, <2>2
<1>3. L = l + 1 /\ \A i \in 1 .. l + 1 : Varint[u][i] = IF i <= 1 THEN Group(u)[i] ELSE Varint[q][i - 1]
  <2>1. L = 1 + l /\ \A i \in 1 .. 1 + l : Varint[u][i] = IF i <= 1 THEN Group(u)[i] ELSE Varint[q][i - 1]
    <3>. DEFINE s == Group(u)
                t == Varint[q]
    <3>1. s \in Seq(ByteVals) /\ t \in Seq(ByteVals) /\ Len(s) = 1 /\ Len(t) = l
      BY <1>2
    <3>. HIDE DEF s, t
    <3>2. /\ Len(s \o t) = Len(s) + Len(t)
          /\ \A i \in 1 .. Len(s) + Len(t) : (s \o t)[i] = IF i <= Len(s) THEN s[i] ELSE t[i - Len(s)]
      BY <3>1, ConcatProperties
    <3>3. Len(s \o t) = 1 + l /\ \A i \in 1 .. 1 + l : (s \o t)[i] = IF i <= 1 THEN s[i] ELSE t[i - 1]
      BY <3>1, <3>2, Zenon
    <3>. QED BY <1>1, <3>3 DEF s, t
  <2>. QED BY <1>2, <2>1
<1>4. /\ \A i \in 1 .. l : Varint[q][i] = ((q \div Weight(i - 1)) % Top) + Top
      /\ q \div Weight(l) < Top
      /\ l > 0 => Weight(l) <= q
  BY DEF VarintShape, q
<1>. HIDE DEF l, L
<1>5. ASSUME NEW k \in Nat PROVE q \div Weight(k) = u \div Weight(k + 1)
  <2>. DEFINE a == Weight(k)
  <2>1. a \in Nat \ {0} /\ Weight(k + 1) = a * Top
    BY WeightIs
  <2>. HIDE DEF a
  <2>2. DividesTwice(u, Top, a)
    BY <1>0, <2>1, DivTwice
  <2>3. (u \div Top) \div a = u \div (Top * a)
    BY <2>2 DEF DividesTwice
  <2>4. Top * a = a * Top
    BY <1>0, <2>1
  <2>. QED BY <2>1, <2>3, <2>4 DEF a, q
<1>6. ASSUME NEW i \in 1 .. L PROVE Varint[u][i] = ((u \div Weight(i - 1)) % Top) + Top
  <2>1. i \in 1 .. l + 1
    BY <1>3
  <2>2. CASE i = 1
    <3>1. u \div 1 = u
      <4>1. u = u * 1 + 0
        OBVIOUS
      <4>. QED BY <4>1, DivIs
    <3>2. Weight(i - 1) = 1
      BY <2>2, WeightIs
    <3>. QED BY <1>2, <1>3, <2>1, <2>2, <3>1, <3>2
  <2>3. CASE i # 1
    <3>1. i - 1 \in 1 .. l /\ ~(i <= 1) /\ i - 1 - 1 \in Nat /\ (i - 1 - 1) + 1 = i - 1
      BY <1>2, <2>1, <2>3
    <3>2. Varint[u][i] = Varint[q][i - 1]
      BY <1>3, <2>1, <3>1
    <3>3. Varint[q][i - 1] = ((q \div Weight(i - 1 - 1)) % Top) + Top
      BY <1>4, <3>1
    <3>4. q \div Weight(i - 1 - 1) = u \div Weight((i - 1 - 1) + 1)
      BY <1>5, <3>1
    <3>. QED BY <3>1, <3>2, <3>3, <3>4
  <2>. QED BY <2>2, <2>3
<1>7. u \div Weight(L) < Top
  BY <1>2, <1>3, <1>4, <1>5
<1>8. Weight(L) <= u
  <2>1. Weight(l + 1) = Weight(l) * Top /\ Weight(l) \in Nat \ {0} /\ Weight(0) = 1
    BY <1>2, WeightIs
  <2>2. CASE l = 0
    <3>1. Weight(l + 1) = Top
      BY <1>0, <2>1, <2>2
    <3>. QED BY <1>3, <3>1
  <2>3. CASE l # 0
    <3>. DEFINE a == Weight(l)
    <3>1. a \in Nat /\ a <= q /\ Weight(L) = a * Top
      BY <1>2, <1>3, <1>4, <2>1, <2>3
    <3>. HIDE DEF a
    <3>2. a * Top <= q * Top /\ a * Top \in Nat /\ q * Top \in Nat
      BY <1>0, <3>1, Times
    <3>. DEFINE x == a * Top
                y == q * Top
    <3>3. x <= y /\ x \in Nat /\ y \in Nat /\ u = y + (u % Top) /\ Weight(L) = x
      BY <1>0, <3>1, <3>2
    <3>. HIDE DEF x, y
    <3>. QED BY <1>0, <3>3
  <2>. QED BY <2>2, <2>3
<1>9. L \in Nat
  BY <1>2, <1>3
<1>. QED BY <1>6, <1>7, <1>8, <1>9 DEF VarintShape, L

LEMMA VarintShapes ==
    ASSUME NEW x \in Nat
    PROVE  VarintShape(x)
<1>. DEFINE S == {j \in Nat : \A u \in 0 .. j : VarintShape(u)}
<1>0. Top \in Nat /\ Top >= 2
  BY TopIsMore
<1>1. ASSUME NEW u \in Nat, \A v \in Nat : v < u => VarintShape(v) PROVE VarintShape(u)
  <2>1. CASE u < Top
    BY <2>1, ShapeOfOne
  <2>2. CASE u >= Top
    <3>1. u \div Top \in Nat /\ u \div Top < u
      BY <2>2, Shrinks
    <3>2. VarintShape(u \div Top)
      BY <1>1, <3>1
    <3>. QED BY <2>2, <3>2, ShapeOfMore
  <2>. QED BY <1>0, <2>1, <2>2
<1>2. 0 \in S
  <2>1. VarintShape(0)
    BY <1>1
  <2>. QED BY <2>1
<1>3. ASSUME NEW j \in Nat, j \in S PROVE j + 1 \in S
  <2>1. ASSUME NEW u \in 0 .. j + 1 PROVE VarintShape(u)
    <3>1. \A v \in Nat : v < u => v \in 0 .. j
      OBVIOUS
    <3>2. \A v \in Nat : v < u => VarintShape(v)
      BY <1>3, <3>1
    <3>3. u \in Nat
      OBVIOUS
    <3>. QED BY <1>1, <3>2, <3>3
  <2>. QED BY <2>1
<1>4. x \in S
  <2>. HIDE DEF S
  <2>. QED BY <1>2, <1>3, SetInduction
<1>. QED BY <1>4

LEMMA ModSmall ==
    ASSUME NEW v \in Nat, NEW u \in Nat, v <= u, NEW bits \in Nat \ {0}, u < 2^bits
    PROVE  v % 2^bits = v
<1>. DEFINE b == 2^bits
<1>1. b \in Nat \ {0} /\ v < b
  <2>1. b \in Nat \ {0}
    BY Power
  <2>. HIDE DEF b
  <2>2. u < b
    BY DEF b
  <2>. QED BY <2>1, <2>2
<1>. HIDE DEF b
<1>2. v = 0 * b + v
  BY <1>1
<1>3. v % b = v
  BY <1>1, <1>2, DivIs
<1>. QED BY <1>3 DEF b

\* A round that has a byte to read.
GroupRead(g, a, c, i, bits) ==
    LET t == c.mem[c.pos + 1] IN
    /\ t \in ByteVals
    /\ g.got = <<(a.got[1] + (t % Top) * 2^i) % 2^bits>> /\ g.done = (t < Top)
    /\ Good(g.b) /\ g.b.pos = c.pos + 1 /\ g.b.mem = c.mem /\ g.b.size = c.size

LEMMA GroupExact ==
    ASSUME NEW a, ~a.done, NEW c \in Bufs, a.b = c, Good(c), c.pos < c.size, NEW i \in Nat, NEW bits \in Nat
    PROVE  GroupRead(ReadGroup(a, i, bits), a, c, i, bits)
<1>. DEFINE r == Read(c, 1)
            t == c.mem[c.pos + 1]
<1>0. /\ c.pos \in Nat /\ c.size \in Nat /\ Len(c.mem) \in Nat /\ c.size <= Len(c.mem)
      /\ ~c.dead /\ Follows(c)
  BY InChain DEF Good
<1>1. c.pos < Len(c.mem) /\ 1 <= ReadSize(c)
  BY <1>0 DEF ReadSize
<1>2. /\ r.got = [j \in 1 .. 1 |-> c.mem[c.pos + j]] /\ r.got \in Seq(ByteVals)
      /\ Good(r.b) /\ r.b.pos = c.pos + 1 /\ r.b.mem = c.mem /\ r.b.size = c.size
  BY <1>0, <1>1, ReadExact DEF Good
<1>. HIDE DEF r
<1>3. r.got[1] = t
  <2>1. 1 \in 1 .. 1
    OBVIOUS
  <2>. QED BY <1>2, <2>1
<1>4. t \in ByteVals
  <2>1. 1 \in 1 .. Len(r.got)
    <3>1. DOMAIN r.got = 1 .. 1
      BY <1>2
    <3>2. Len(r.got) = 1
      BY <1>2, <3>1
    <3>. QED BY <3>2
  <2>. QED BY <1>2, <1>3, <2>1
<1>5. r.got \notin {Thrown, Undefined}
  BY <1>2, SomeBytes DEF Nothing
<1>6. ReadGroup(a, i, bits) = [got |-> <<(a.got[1] + (t % Top) * 2^i) % 2^bits>>, b |-> r.b, done |-> t < Top]
  BY <1>3, <1>5 DEF ReadGroup, r
<1>. QED BY <1>2, <1>4, <1>6 DEF GroupRead

\* The bytes of u's variable-length form, with the last group, from the position on.
Holds(c, u) ==
    LET L == Len(Varint[u]) IN
    /\ c.pos + L + 1 <= c.size
    /\ \A i \in 1 .. L : c.mem[c.pos + i] = Varint[u][i]
    /\ c.mem[c.pos + L + 1] = u \div Weight(L)

LEMMA EnoughRounds ==
    ASSUME NEW u \in Nat, NEW bits \in Nat \ {0}, u < 2^bits
    PROVE  Len(Varint[u]) < CeilDiv(bits, GroupBits)
<1>. DEFINE L == Len(Varint[u])
            n == CeilDiv(bits, GroupBits)
<1>0. n \in Nat /\ n > 0 /\ n * GroupBits >= bits /\ GroupBits \in Nat \ {0}
  BY Constants, Ceiling
<1>1. L \in Nat /\ (L > 0 => Weight(L) <= u)
  BY VarintShapes DEF VarintShape
<1>. HIDE DEF n, L
<1>. SUFFICES ASSUME n <= L PROVE FALSE
  BY <1>0, <1>1 DEF n, L
<1>2. n * GroupBits <= L * GroupBits /\ n * GroupBits \in Nat /\ L * GroupBits \in Nat
  BY <1>0, <1>1, Times
<1>. DEFINE x == n * GroupBits
            y == L * GroupBits
<1>3. x <= y /\ x \in Nat /\ y \in Nat /\ x >= bits
  BY <1>0, <1>2
<1>. HIDE DEF x
<1>4. y \in Nat /\ bits <= y
  <2>. HIDE DEF y
  <2>. QED BY <1>3
<1>5. 2^bits <= 2^y /\ 2^bits \in Nat /\ 2^y \in Nat
  <2>. HIDE DEF y
  <2>. QED BY <1>4, PowerGrows, Power
<1>6. Weight(L) = 2^y
  BY DEF Weight
<1>7. Weight(L) <= u
  BY <1>0, <1>1
<1>. HIDE DEF y
<1>. QED BY <1>5, <1>6, <1>7

LEMMA UintDecodes ==
    ASSUME NEW c \in Bufs, Good(c), NEW bits \in Nat \ {0}, NEW u \in Nat, u < 2^bits, Holds(c, u)
    PROVE  ReadGroups(c, bits).got = <<u>>
<1>. DEFINE L == Len(Varint[u])
            n == CeilDiv(bits, GroupBits)
            p == c.pos
            Part(a, k) == /\ a.got = <<u % Weight(k)>> /\ ~a.done /\ Good(a.b)
                          /\ a.b.pos = p + k /\ a.b.mem = c.mem /\ a.b.size = c.size
            Whole(a) == a.got = <<u>> /\ a.done
            D == [k \in 0 .. n |-> {a \in GroupsOf(c) : IF k <= L THEN Part(a, k) ELSE Whole(a)}]
<1>0. /\ n \in Nat /\ L \in Nat /\ L < n /\ p \in Nat /\ c.size \in Nat /\ Top \in Nat \ {0}
      /\ GroupBits \in Nat \ {0} /\ c.size <= Len(c.mem) /\ Len(c.mem) \in Nat
  <2>1. n \in Nat /\ GroupBits \in Nat \ {0} /\ Top \in Nat \ {0}
    BY Constants, Ceiling
  <2>2. L \in Nat
    BY VarintShapes DEF VarintShape
  <2>3. L < n
    BY EnoughRounds
  <2>. QED BY <2>1, <2>2, <2>3, InChain
<1>1. /\ p + L + 1 <= c.size
      /\ \A i \in 1 .. L : c.mem[p + i] = ((u \div Weight(i - 1)) % Top) + Top
      /\ c.mem[p + L + 1] = u \div Weight(L) /\ u \div Weight(L) < Top
  <2>1. /\ \A i \in 1 .. L : Varint[u][i] = ((u \div Weight(i - 1)) % Top) + Top
        /\ u \div Weight(L) < Top
    BY VarintShapes DEF VarintShape
  <2>. QED BY <2>1 DEF Holds
<1>2. PICK h : GroupRounds(c, bits, h)
  BY ReadGroupsRounds
<1>. HIDE DEF n, L, p
<1>3. /\ h[0] = [got |-> <<0>>, b |-> c, done |-> FALSE]
      /\ \A k \in 1 .. n : h[k] = ReadGroup(h[k - 1], (k - 1) * GroupBits, bits)
      /\ \A k \in 0 .. n : h[k] \in GroupsOf(c)
      /\ ReadGroups(c, bits) = h[n]
  BY <1>2 DEF GroupRounds, n
<1>4. h[0] \in D[0]
  <2>1. 0 \in 0 .. n /\ 0 <= L
    BY <1>0
  <2>2. u % Weight(0) = 0
    <3>1. Weight(0) = 1 /\ u = u * 1 + 0
      BY WeightIs
    <3>2. u % 1 = 0
      BY <3>1, DivIs
    <3>. QED BY <3>1, <3>2
  <2>3. Part(h[0], 0)
    BY <1>0, <1>3, <2>2 DEF p
  <2>. QED BY <1>3, <2>1, <2>3
<1>5. ASSUME NEW k \in 1 .. n, h[k - 1] \in D[k - 1] PROVE h[k] \in D[k]
  <2>. DEFINE a == h[k - 1]
              j == k - 1
              W == Weight(j)
              x == u % W
              y == u \div W
              d == a.b
              t == d.mem[d.pos + 1]
              g == ReadGroup(a, j * GroupBits, bits)
  <2>0. k \in Nat /\ k <= n /\ j \in Nat /\ k = j + 1 /\ k \in 0 .. n /\ j \in 0 .. n /\ j * GroupBits \in Nat
    <3>1. k \in Nat /\ j \in Nat /\ k = j + 1 /\ k \in 0 .. n /\ j \in 0 .. n /\ k <= n
      BY <1>0
    <3>. QED BY <1>0, <3>1, Times
  <2>1. h[k] = g /\ g \in GroupsOf(c)
    BY <1>3, <2>0
  <2>2. IF j <= L THEN Part(a, j) ELSE Whole(a)
    BY <1>5, <2>0
  <2>. HIDE DEF a, j, g
  <2>3. CASE j > L
    <3>1. Whole(a) /\ ~(k <= L)
      BY <1>0, <2>0, <2>2, <2>3
    <3>2. g = a
      BY <3>1 DEF ReadGroup, g
    <3>. QED BY <2>0, <2>1, <3>1, <3>2
  <2>4. CASE j <= L
    <3>1. Part(a, j)
      BY <2>2, <2>4
    <3>2. d \in Bufs /\ d.pos = p + j /\ d.size = c.size /\ d.mem = c.mem
      BY <3>1 DEF Good
    <3>3. d.pos < d.size
      BY <1>0, <1>1, <2>0, <2>4, <3>2
    <3>4. /\ t \in ByteVals
          /\ g.got = <<(a.got[1] + (t % Top) * 2^(j * GroupBits)) % 2^bits>> /\ g.done = (t < Top)
          /\ Good(g.b) /\ g.b.pos = d.pos + 1 /\ g.b.mem = d.mem /\ g.b.size = d.size
      <4>. DEFINE e == j * GroupBits
      <4>1. /\ e \in Nat /\ g = ReadGroup(a, e, bits) /\ ~a.done
            /\ Good(d) /\ a.b = d /\ t = d.mem[d.pos + 1]
        BY <2>0, <3>1 DEF g
      <4>. HIDE DEF d, t
      <4>2. GroupRead(g, a, d, e, bits)
        <5>. HIDE DEF e
        <5>. QED BY <3>2, <3>3, <4>1, GroupExact
      <4>. QED BY <4>1, <4>2 DEF GroupRead
    <3>. HIDE DEF d, t
    <3>5. W \in Nat \ {0} /\ 2^(j * GroupBits) = W /\ Weight(k) = W * Top
      BY <2>0, WeightIs DEF Weight
    <3>. HIDE DEF W
    <3>6. x \in Nat /\ y \in Nat /\ u = y * W + x
      BY <3>5, DivMod
    <3>7. a.got[1] = x
      BY <3>1 DEF W
    <3>. HIDE DEF x, y
    <3>8. t = IF j < L THEN (y % Top) + Top ELSE y
      <4>1. t = c.mem[p + k] /\ p + k = p + j + 1
        <5>1. d.pos + 1 = p + k /\ p + k = p + j + 1
          BY <1>0, <2>0, <3>2
        <5>. QED BY <3>2, <5>1 DEF t
      <4>2. CASE j < L
        <5>1. k \in 1 .. L /\ k - 1 = j
          BY <1>0, <2>0, <4>2
        <5>2. c.mem[p + k] = ((u \div Weight(k - 1)) % Top) + Top
          BY <1>1, <5>1
        <5>. QED BY <4>1, <4>2, <5>1, <5>2 DEF y, W
      <4>3. CASE j = L
        <5>1. c.mem[p + L + 1] = u \div Weight(L)
          BY <1>1
        <5>2. ~(j < L)
          BY <1>0, <4>3
        <5>. QED BY <4>1, <4>3, <5>1, <5>2 DEF y, W
      <4>. QED BY <1>0, <2>0, <2>4, <4>2, <4>3
    <3>9. CASE j < L
      <4>. DEFINE z == y % Top
      <4>1. z \in Nat /\ z < Top /\ t = z + Top
        BY <1>0, <3>6, <3>8, <3>9, DivMod
      <4>2. t % Top = z /\ ~(t < Top)
        <5>1. (1 * Top + z) % Top = z
          BY <1>0, <4>1, DivIs
        <5>2. t = 1 * Top + z
          BY <1>0, <4>1
        <5>. HIDE DEF z
        <5>. QED BY <1>0, <4>1, <5>1, <5>2
      <4>3. u % (W * Top) = z * W + x
        <5>1. DividesTwice(u, W, Top)
          BY <1>0, <3>5, DivTwice
        <5>. QED BY <5>1 DEF DividesTwice, x, y
      <4>4. z * W \in Nat /\ x + z * W = z * W + x
        <5>. HIDE DEF z
        <5>1. z * W \in Nat
          BY <3>5, <4>1, Times
        <5>. QED BY <3>6, <5>1
      <4>. DEFINE v == x + z * W
      <4>5. v \in Nat /\ v = u % Weight(k)
        BY <3>5, <3>6, <4>3, <4>4
      <4>6. v <= u
        <5>. HIDE DEF v
        <5>1. Weight(k) \in Nat \ {0}
          BY <2>0, WeightIs
        <5>2. u % Weight(k) <= u
          <6>1. /\ u \div Weight(k) \in Nat /\ u % Weight(k) \in Nat
                /\ u = (u \div Weight(k)) * Weight(k) + (u % Weight(k))
            BY <5>1, DivMod
          <6>2. (u \div Weight(k)) * Weight(k) \in Nat
            BY <5>1, <6>1, Times
          <6>. QED BY <6>1, <6>2
        <5>. QED BY <4>5, <5>2
      <4>7. v % 2^bits = v
        <5>. HIDE DEF v
        <5>. QED BY <4>5, <4>6, ModSmall
      <4>8. g.got = <<u % Weight(k)>> /\ ~g.done
        <5>. DEFINE w == a.got[1] + (t % Top) * 2^(j * GroupBits)
        <5>1. w = v
          BY <3>5, <3>7, <4>2
        <5>2. g.got = <<w % 2^bits>>
          BY <3>4
        <5>3. ~g.done
          BY <3>4, <4>2
        <5>. HIDE DEF w, v
        <5>. QED BY <4>5, <4>7, <5>1, <5>2, <5>3, Zenon
      <4>9. k <= L /\ d.pos + 1 = p + k
        BY <1>0, <2>0, <3>2, <3>9
      <4>10. Part(g, k)
        BY <3>2, <3>4, <4>8, <4>9
      <4>. QED BY <2>0, <2>1, <4>9, <4>10
    <3>10. CASE j = L
      <4>1. t = y /\ y < Top
        BY <1>0, <1>1, <3>8, <3>10 DEF y, W
      <4>2. t % Top = y /\ t < Top
        <5>1. y = 0 * Top + y
          BY <1>0, <3>6
        <5>2. y % Top = y
          BY <1>0, <3>6, <4>1, <5>1, DivIs
        <5>. QED BY <4>1, <5>2
      <4>3. x + y * W = u
        <5>1. y * W \in Nat
          BY <3>5, <3>6, Times
        <5>. QED BY <3>6, <5>1
      <4>4. u % 2^bits = u
        BY ModSmall
      <4>5. g.got = <<u>> /\ g.done
        <5>. DEFINE w == a.got[1] + (t % Top) * 2^(j * GroupBits)
        <5>1. w = u
          BY <3>5, <3>7, <4>2, <4>3
        <5>2. g.got = <<w % 2^bits>>
          BY <3>4
        <5>3. g.done
          BY <3>4, <4>2
        <5>. HIDE DEF w
        <5>. QED BY <4>4, <5>1, <5>2, <5>3, Zenon
      <4>6. ~(k <= L)
        BY <1>0, <2>0, <3>10
      <4>. QED BY <2>0, <2>1, <4>5, <4>6
    <3>11. j < L \/ j = L
      BY <1>0, <2>0, <2>4
    <3>. HIDE DEF D, Part, Whole
    <3>. QED BY <3>9, <3>10, <3>11
  <2>5. j > L \/ j <= L
    BY <1>0, <2>0
  <2>. HIDE DEF D, Part, Whole
  <2>. QED BY <2>3, <2>4, <2>5
<1>6. h[n] \in D[n]
  <2>. HIDE DEF D
  <2>1. \A k \in 0 .. n : h[k] \in D[k]
    BY <1>0, <1>4, <1>5, RoundByRound
  <2>. QED BY <1>0, <2>1
<1>7. n \in 0 .. n /\ ~(n <= L)
  BY <1>0
<1>8. h[n].got = <<u>>
  BY <1>6, <1>7
<1>. QED BY <1>3, <1>8


LEMMA UintReadsBack ==
    ASSUME NEW b \in Bufs, Good(b), Open(b), NEW bits \in Nat \ {0}, NEW u \in Nat, u < 2^bits,
           Open(WriteUint(b, u))
    PROVE  LET c == SetPosition(Write(WriteUint(b, u), <<u \div Weight(Len(Varint[u]))>>), b.pos) IN
           c \in Bufs /\ ReadGroups(c, bits).got = <<u>>
<1>. DEFINE s == Varint[u]
            L == Len(s)
            p == b.pos
            d == WriteUint(b, u)
            last == u \div Weight(L)
            x == Write(d, <<last>>)
            c == SetPosition(x, p)
<1>0. s \in Seq(ByteVals) /\ L \in Nat /\ p \in Nat /\ L = Len(s)
  <2>1. s \in Seq(ByteVals)
    BY VarintIs
  <2>2. p \in Nat
    BY InChain
  <2>. QED BY <2>1, <2>2
<1>1. last \in ByteVals /\ <<last>> \in Seq(ByteVals) /\ <<last>> # <<>> /\ Len(<<last>>) = 1
  <2>1. last < Top
    BY VarintShapes DEF VarintShape
  <2>2. last \in Nat
    <3>1. Weight(L) \in Nat \ {0}
      BY <1>0, WeightIs
    <3>. QED BY <3>1, DivMod
  <2>. HIDE DEF last
  <2>3. last \in ByteVals
    BY <2>1, <2>2, Constants DEF ByteVals
  <2>. QED BY <2>3
<1>2. d = Write(b, s)
  BY DEF WriteUint
<1>3. Open(d)
  OBVIOUS
<1>. HIDE DEF s, d, last
<1>4. /\ Good(d) /\ d.pos = p + L
      /\ \A i \in 1 .. L : d.mem[p + i] = s[i]
  <2>1. CASE s = <<>>
    <3>1. d = b /\ L = 0
      BY <1>2, <2>1 DEF Write
    <3>. QED BY <1>0, <3>1
  <2>2. CASE s # <<>>
    <3>1. Good(d) /\ d.pos = p + L /\ Cut(d.mem, p, L) = s
      BY <1>0, <1>2, <2>2, Wrote
    <3>. QED BY <3>1 DEF Cut
  <2>. QED BY <2>1, <2>2
<1>5. d \in Bufs
  BY <1>4 DEF Good
<1>6. /\ Good(x) /\ p + L + 1 <= x.size /\ x.size <= Len(x.mem)
      /\ x.mem[p + L + 1] = last
      /\ \A i \in 1 .. L : x.mem[p + i] = s[i]
  <2>1. /\ Good(x) /\ d.pos + 1 <= x.size /\ x.size <= Len(x.mem)
        /\ Cut(x.mem, d.pos, 1) = <<last>>
        /\ \A i \in 1 .. d.pos : x.mem[i] = d.mem[i]
    BY <1>1, <1>3, <1>4, <1>5, Wrote
  <2>. HIDE DEF x
  <2>2. x.mem[d.pos + 1] = last
    <3>1. 1 \in 1 .. 1
      OBVIOUS
    <3>2. Cut(x.mem, d.pos, 1)[1] = last
      BY <2>1
    <3>. QED BY <3>1, <3>2 DEF Cut
  <2>3. ASSUME NEW i \in 1 .. L PROVE x.mem[p + i] = s[i]
    <3>1. p + i \in 1 .. d.pos
      BY <1>0, <1>4
    <3>. QED BY <1>4, <2>1, <3>1
  <2>4. d.pos + 1 = p + L + 1
    BY <1>0, <1>4
  <2>. QED BY <2>1, <2>2, <2>3, <2>4
<1>7. x \in Bufs /\ ~x.dead /\ x.size \in Nat /\ Len(x.mem) \in Nat
  BY <1>6, InChain DEF Good
<1>. HIDE DEF x
<1>8. p < Len(x.mem) /\ p <= x.size
  BY <1>0, <1>6, <1>7
<1>9. Good(c) /\ c.pos = p /\ c.mem = x.mem /\ c.size = x.size
  BY <1>0, <1>7, <1>8, SeekBack
<1>. HIDE DEF c
<1>10. c \in Bufs /\ Holds(c, u)
  <2>1. c \in Bufs
    BY <1>9 DEF Good
  <2>. QED BY <1>6, <1>9, <2>1 DEF Holds, s, last
<1>11. ReadGroups(c, bits).got = <<u>>
  BY <1>9, <1>10, UintDecodes
<1>. QED BY <1>10, <1>11 DEF c, x, d, last, s

-----------------------------------------------------------------------------
(* Zigzag                                                                    *)

LEMMA ModIs ==
    ASSUME NEW q \in Int, NEW r \in Nat, NEW b \in Nat \ {0}, r < b
    PROVE  (q * b + r) % b = r
  OBVIOUS

\* What is an int32_t stays so, and a multiple of 2^32 is lost.
LEMMA Int32Keeps ==
    ASSUME NEW x \in IntRange, NEW c \in Int
    PROVE  Int32(c * 2^WordBits + x) = x /\ Int32(x) = x
<1>. DEFINE k == 2^(WordBits - 1)
            m == 2^WordBits
<1>1. k \in Nat \ {0} /\ m = 2 * k /\ x \in -k .. k - 1
  BY Halves DEF IntRange
<1>2. \A y \in Int : Int32(y) = IF y % m >= k THEN (y % m) - m ELSE y % m
  BY DEF Int32
<1>. HIDE DEF k, m
<1>3. ASSUME NEW d \in Int PROVE Int32(d * m + x) = x
  <2>. DEFINE y == d * m + x
  <2>1. y \in Int
    BY <1>1
  <2>2. CASE x >= 0
    <3>1. x \in Nat /\ x < m /\ m \in Nat \ {0} /\ ~(x >= k)
      BY <1>1, <2>2
    <3>2. y % m = x
      BY <3>1, ModIs
    <3>. HIDE DEF y
    <3>3. Int32(y) = x
      BY <1>2, <2>1, <3>1, <3>2
    <3>. QED BY <3>3 DEF y
  <2>3. CASE x < 0
    <3>. DEFINE z == x + m
                e == d - 1
    <3>1. /\ z \in Nat /\ z < m /\ m \in Nat \ {0} /\ z >= k /\ z - m = x /\ e \in Int
      BY <1>1, <2>3
    <3>2. y = e * m + z
      BY <1>1
    <3>. HIDE DEF y, z, e
    <3>3. y % m = z
      BY <3>1, <3>2, ModIs
    <3>4. Int32(y) = x
      BY <1>2, <2>1, <3>1, <3>3
    <3>. QED BY <3>4 DEF y
  <2>. QED BY <1>1, <2>2, <2>3
<1>4. Int32(c * m + x) = x /\ Int32(0 * m + x) = x
  BY <1>3
<1>5. 0 * m + x = x
  BY <1>1
<1>. QED BY <1>4, <1>5 DEF m

LEMMA Int32Exact ==
    ASSUME NEW u \in Nat
    PROVE  Int32(u) = u <=> u < 2^(WordBits - 1)
<1>. DEFINE k == 2^(WordBits - 1)
<1>1. k \in Nat \ {0} /\ Int32(u) \in -k .. k - 1
  BY Halves, Int32Is DEF IntRange
<1>2. u \in -k .. k - 1 => Int32(u) = u
  BY Int32Keeps DEF IntRange
<1>. HIDE DEF k
<1>3. Int32(u) = u <=> u < k
  BY <1>1, <1>2
<1>. QED BY <1>3 DEF k

\* The zigzag form of an integer, before it is cut to a width.
Zig(v) == IF v < 0 THEN (-v) * 2 - 1 ELSE v * 2

LEMMA ZigBack ==
    ASSUME NEW v \in Int
    PROVE  Zig(v) \in Nat /\ DecodeZigzag(Zig(v)) = v
<1>. DEFINE e == Zig(v)
<1>1. CASE v < 0
  <2>. DEFINE q == -v - 1
  <2>1. q \in Nat /\ e = q * 2 + 1 /\ -q - 1 = v
    BY <1>1 DEF Zig
  <2>. HIDE DEF q, e
  <2>2. e % 2 = 1 /\ e \div 2 = q /\ e \in Nat
    BY <2>1, DivIs
  <2>3. DecodeZigzag(e) = v
    BY <2>1, <2>2 DEF DecodeZigzag
  <2>. QED BY <2>2, <2>3 DEF e
<1>2. CASE ~(v < 0)
  <2>1. v \in Nat /\ e = v * 2 + 0
    BY <1>2 DEF Zig
  <2>. HIDE DEF e
  <2>2. e % 2 = 0 /\ e \div 2 = v /\ e \in Nat
    BY <2>1, DivIs
  <2>3. DecodeZigzag(e) = v
    BY <2>1, <2>2 DEF DecodeZigzag
  <2>. QED BY <2>2, <2>3 DEF e
<1>. QED BY <1>1, <1>2

\* A 32-bit integer, as an unsigned one and back.
LEMMA Zigzag ==
    ASSUME NEW v \in IntRange
    PROVE  LET u == EncodeZigzag(v, WordBits) IN
           /\ u \in Nat /\ u < 2^WordBits /\ u % 2^WordBits = u
           /\ Int32(DecodeZigzag(Int32(u) % 2^WordBits)) = v
<1>. DEFINE k == 2^(WordBits - 1)
            m == 2^WordBits
            e == Zig(v)
<1>1. k \in Nat \ {0} /\ m = 2 * k /\ v \in -k .. k - 1
  BY Halves DEF IntRange
<1>2. /\ \A x \in -k .. k - 1, c \in Int : Int32(c * m + x) = x /\ Int32(x) = x
      /\ EncodeZigzag(v, WordBits) = e % m
  BY Int32Keeps DEF IntRange, EncodeZigzag, Zig
<1>. HIDE DEF k, m
<1>3. e \in Nat /\ e < m /\ v \in Int
  BY <1>1 DEF Zig
<1>4. DecodeZigzag(e) = v
  BY <1>3, ZigBack
<1>. HIDE DEF e
<1>5. e % m = e
  <2>1. e = 0 * m + e /\ m \in Nat \ {0} /\ 0 \in Int
    BY <1>1, <1>3
  <2>2. (0 * m + e) % m = e
    BY <1>3, <2>1, ModIs
  <2>. QED BY <2>1, <2>2
<1>6. Int32(e) % m = e
  <2>1. CASE e < k
    <3>1. Int32(e) = e
      BY <1>1, <1>2, <1>3, <2>1
    <3>. QED BY <1>5, <3>1
  <2>2. CASE ~(e < k)
    <3>. DEFINE x == e - m
    <3>1. x \in -k .. k - 1 /\ e = 1 * m + x /\ m \in Nat \ {0} /\ x = (-1) * m + e /\ -1 \in Int
      BY <1>1, <1>3, <2>2
    <3>2. Int32(e) = x
      <4>. HIDE DEF x
      <4>1. Int32(1 * m + x) = x
        BY <1>2, <3>1
      <4>. QED BY <3>1, <4>1
    <3>. HIDE DEF x
    <3>3. ((-1) * m + e) % m = e
      BY <1>3, <3>1, ModIs
    <3>. QED BY <3>1, <3>2, <3>3
  <2>. QED BY <2>1, <2>2
<1>7. Int32(v) = v
  BY <1>1, <1>2
<1>. QED BY <1>2, <1>3, <1>4, <1>5, <1>6, <1>7 DEF m

\* writeInt64 cuts the zigzag form to 32 bits; readInt64 extends the sign of what it read.
LEMMA ZigzagLong ==
    ASSUME NEW v \in -(2^(LongBits - 1)) .. 2^(LongBits - 1) - 1
    PROVE  LET u == EncodeZigzag(v, LongBits) % 2^WordBits IN
           /\ u \in Nat /\ u < 2^WordBits
           /\ Int32(DecodeZigzag(Int32(u) % 2^LongBits)) = v <=>
                 v \in -(2^(WordBits - 2)) .. 2^(WordBits - 2) - 1
<1>. DEFINE q == 2^(WordBits - 2)
            k == 2^(WordBits - 1)
            m == 2^WordBits
            h == 2^(LongBits - 1)
            M == 2^LongBits
            j == 2^(LongBits - 1 - WordBits)
            e == Zig(v)
            u == EncodeZigzag(v, LongBits) % m
            back == Int32(DecodeZigzag(Int32(u) % M))
<1>1. /\ q \in Nat \ {0} /\ k = 2 * q /\ m = 2 * k /\ j \in Nat \ {0} /\ h = j * m /\ M = 2 * h
      /\ k \in Nat \ {0} /\ m \in Nat \ {0} /\ h \in Nat \ {0} /\ M \in Nat \ {0}
  <2>. DEFINE a == WordBits - 2
              d == LongBits - 1 - WordBits
  <2>1. /\ a \in Nat /\ d \in Nat /\ WordBits - 1 = a + 1 /\ WordBits = a + 1 + 1 /\ a + 1 \in Nat
        /\ LongBits - 1 = d + WordBits /\ LongBits = d + WordBits + 1 /\ d + WordBits \in Nat /\ WordBits \in Nat
    BY Constants
  <2>. HIDE DEF a, d
  <2>2. 2^(a + 1) = 2 * 2^a /\ 2^(a + 1 + 1) = 2 * 2^(a + 1) /\ 2^a \in Nat \ {0}
        /\ 2^(a + 1) \in Nat \ {0} /\ 2^(a + 1 + 1) \in Nat \ {0}
    BY <2>1, PowerNext, Power
  <2>3. 2^(d + WordBits) = 2^d * 2^WordBits /\ 2^(d + WordBits + 1) = 2 * 2^(d + WordBits) /\ 2^d \in Nat \ {0}
        /\ 2^(d + WordBits) \in Nat \ {0} /\ 2^(d + WordBits + 1) \in Nat \ {0}
    <3>. DEFINE n == d + WordBits
    <3>1. 2^n = 2^d * 2^WordBits
      BY <2>1, PowerSum
    <3>2. n \in Nat /\ n + 1 \in Nat
      BY <2>1
    <3>. HIDE DEF n
    <3>3. 2^(n + 1) = 2 * 2^n
      BY <3>2, PowerNext
    <3>4. 2^d \in Nat \ {0} /\ 2^n \in Nat \ {0} /\ 2^(n + 1) \in Nat \ {0}
      BY <2>1, <3>2, Power
    <3>. QED BY <3>1, <3>3, <3>4 DEF n
  <2>4. q = 2^a /\ k = 2^(a + 1) /\ m = 2^(a + 1 + 1)
    BY <2>1 DEF a
  <2>5. j = 2^d /\ h = 2^(d + WordBits) /\ M = 2^(d + WordBits + 1)
    BY <2>1 DEF d
  <2>. HIDE DEF q, k, h, M, j
  <2>6. h = j * m /\ M = 2 * h
    BY <2>3, <2>5
  <2>. HIDE DEF m
  <2>. QED BY <2>2, <2>3, <2>4, <2>5, <2>6
<1>2. /\ \A x \in -k .. k - 1, c \in Int : Int32(c * m + x) = x /\ Int32(x) = x
      /\ \A x \in Int : Int32(x) \in -k .. k - 1
      /\ EncodeZigzag(v, LongBits) = e % M /\ v \in -h .. h - 1
  BY Int32Keeps, Int32Is DEF IntRange, EncodeZigzag, Zig
<1>. HIDE DEF q, k, m, h, M, j
<1>3. e \in Nat /\ e < M /\ v \in Int
  BY <1>1, <1>2 DEF Zig
<1>4. e % M = e
  <2>. HIDE DEF e
  <2>1. e = 0 * M + e /\ 0 \in Int
    BY <1>1, <1>3
  <2>2. (0 * M + e) % M = e
    BY <1>1, <1>3, <2>1, ModIs
  <2>. QED BY <2>1, <2>2
<1>5. u = e % m
  BY <1>2, <1>4
<1>6. u \in Nat /\ u < m
  BY <1>1, <1>3, <1>5, DivMod
<1>7. ASSUME e < m PROVE u = e
  <2>. HIDE DEF e
  <2>1. e = 0 * m + e /\ 0 \in Int
    BY <1>1, <1>3
  <2>2. (0 * m + e) % m = e
    BY <1>1, <1>3, <1>7, <2>1, ModIs
  <2>. QED BY <1>5, <2>1, <2>2
<1>8. m <= h
  BY <1>1, Times
<1>. HIDE DEF u
<1>9. ASSUME v \in -q .. q - 1 PROVE back = v
  <2>1. e < k /\ e < m /\ e < M /\ v \in -k .. k - 1
    BY <1>1, <1>8, <1>9 DEF Zig
  <2>2. DecodeZigzag(e) = v
    BY <1>3, ZigBack
  <2>. HIDE DEF e
  <2>3. Int32(u) = e
    <3>1. e \in -k .. k - 1 /\ 0 \in Int
      BY <1>1, <1>3, <2>1
    <3>. QED BY <1>2, <1>7, <2>1, <3>1
  <2>. QED BY <1>2, <1>4, <2>1, <2>2, <2>3
<1>10. ASSUME v \in -k .. k - 1, v \notin -q .. q - 1 PROVE back # v
  <2>1. e >= k /\ e < m
    BY <1>1, <1>10 DEF Zig
  <2>. DEFINE U == e - m + M
  <2>2. Int32(u) = e - m
    <3>. DEFINE x == e - m
    <3>1. x \in -k .. k - 1 /\ e = 1 * m + x
      <4>. HIDE DEF e
      <4>. QED BY <1>1, <1>3, <2>1
    <3>. HIDE DEF x, e
    <3>2. Int32(1 * m + x) = x
      BY <1>2, <3>1
    <3>. QED BY <1>7, <2>1, <3>1, <3>2 DEF x
  <2>3. Int32(u) % M = U
    <3>. HIDE DEF e
    <3>1. U \in Nat /\ U < M /\ e - m = (-1) * M + U /\ -1 \in Int
      BY <1>1, <1>3, <1>8, <2>1
    <3>. HIDE DEF U
    <3>2. ((-1) * M + U) % M = U
      BY <1>1, <3>1, ModIs
    <3>. QED BY <2>2, <3>1, <3>2
  <2>4. CASE v < 0
    <3>. DEFINE d == h - v - 1 - k
                x == v + k
    <3>1. d \in Nat /\ U = d * 2 + 1 /\ -d - 1 = -h + x /\ x \in -k .. k - 1 /\ x # v
      BY <1>1, <1>8, <1>10, <2>4 DEF Zig
    <3>. HIDE DEF U, d, x
    <3>2. U % 2 = 1 /\ U \div 2 = d
      BY <3>1, DivIs
    <3>3. DecodeZigzag(U) = -h + x
      BY <3>1, <3>2 DEF DecodeZigzag
    <3>4. -h + x = (-j) * m + x /\ -j \in Int
      BY <1>1, <3>1
    <3>5. Int32((-j) * m + x) = x
      BY <1>2, <3>1, <3>4
    <3>. QED BY <2>3, <3>1, <3>3, <3>4, <3>5
  <2>5. CASE ~(v < 0)
    <3>. DEFINE d == h + v - k
                x == v - k
    <3>1. d \in Nat /\ U = d * 2 + 0 /\ d = h + x /\ x \in -k .. k - 1 /\ x # v
      BY <1>1, <1>8, <1>10, <2>5 DEF Zig
    <3>. HIDE DEF U, d, x
    <3>2. U % 2 = 0 /\ U \div 2 = d
      BY <3>1, DivIs
    <3>3. DecodeZigzag(U) = h + x
      BY <3>1, <3>2 DEF DecodeZigzag
    <3>4. h + x = j * m + x /\ j \in Int
      BY <1>1, <3>1
    <3>5. Int32(j * m + x) = x
      BY <1>2, <3>1, <3>4
    <3>. QED BY <2>3, <3>1, <3>3, <3>4, <3>5
  <2>. QED BY <2>4, <2>5
<1>11. ASSUME v \notin -k .. k - 1 PROVE back # v
  <2>. DEFINE U == Int32(u) % M
  <2>1. U \in Nat
    <3>. DEFINE i == Int32(u)
    <3>1. i \in Int
      BY <1>1, <1>2, <1>6
    <3>. HIDE DEF i
    <3>2. i % M \in Nat
      BY <1>1, <3>1
    <3>. QED BY <3>2 DEF i
  <2>2. back = Int32(DecodeZigzag(U))
    OBVIOUS
  <2>. HIDE DEF U
  <2>3. U \div 2 \in Nat
    BY <2>1
  <2>4. DecodeZigzag(U) \in Int
    BY <2>3 DEF DecodeZigzag
  <2>. QED BY <1>2, <1>11, <2>2, <2>4
<1>12. v \in -q .. q - 1 => v \in -k .. k - 1
  BY <1>1, <1>3
<1>. HIDE DEF back
<1>13. back = v <=> v \in -q .. q - 1
  BY <1>9, <1>10, <1>11, <1>12
<1>. QED BY <1>6, <1>13 DEF u, back, m, M, q

\* What is made of an unsigned integer that was read.
LEMMA AfterGroups ==
    ASSUME NEW c \in Bufs, NEW bits \in Nat, NEW u \in Nat, ReadGroups(c, bits).got = <<u>>
    PROVE  /\ ReadUint(c, bits).got = <<Int32(u)>>
           /\ ReadInt(c, bits).got = <<Int32(DecodeZigzag(Int32(u) % 2^bits))>>
<1>. DEFINE r == ReadGroups(c, bits)
            s == ReadUint(c, bits)
<1>0. ASSUME NEW x PROVE <<x>> \notin {Thrown, Undefined}
  <2>. DEFINE t == <<x>>
  <2>1. Len(t) = 1 /\ Len(Thrown) = 2 /\ Len(Undefined) = 2 /\ 1 # 2
    BY DEF Thrown, Undefined
  <2>. HIDE DEF t
  <2>2. t \notin {Thrown, Undefined}
    BY <2>1, Zenon
  <2>. QED BY <2>2 DEF t
<1>1. r \in [got : Seq(Int), b : Bufs, done : BOOLEAN]
  BY ReadGroupsIs DEF GroupsOf
<1>2. s = [r EXCEPT !.got = <<Int32(@[1])>>]
  <2>1. r.got \notin {Thrown, Undefined}
    BY <1>0
  <2>. QED BY <2>1 DEF ReadUint
<1>3. r.got = <<u>>
  OBVIOUS
<1>. HIDE DEF r
<1>4. s.got = <<Int32(u)>> /\ s = [got |-> <<Int32(u)>>, b |-> r.b, done |-> r.done]
  BY <1>1, <1>2, <1>3
<1>5. ReadInt(c, bits) = [s EXCEPT !.got = <<Int32(DecodeZigzag(@[1] % 2^bits))>>]
  <2>1. s.got \notin {Thrown, Undefined}
    BY <1>0, <1>4
  <2>. QED BY <2>1 DEF ReadInt
<1>. HIDE DEF s
<1>6. ReadInt(c, bits).got = <<Int32(DecodeZigzag(Int32(u) % 2^bits))>>
  BY <1>4, <1>5
<1>. QED BY <1>4, <1>6 DEF s

LEMMA VarintImplied ==
    ASSUME IInv
    PROVE  VarintLacksLastGroup
<1>. SUFFICES ASSUME Sound, ~FullBehind(ref) PROVE VarintLacksLastGroup
  BY DEF VarintLacksLastGroup
<1>1. ba \in Bufs /\ Good(ba) /\ Open(ba) /\ WordBits \in Nat \ {0} /\ LongBits \in Nat \ {0}
  BY Constants, InChain DEF IInv, Sound, EdgeOnly, Good, Open, FullBehind
<1>. DEFINE Back(b, u) == SetPosition(Write(b, <<u \div 2^(Len(Varint[u]) * GroupBits)>>), ba.pos)
<1>2. ASSUME NEW bits \in Nat \ {0}, NEW u \in Nat, u < 2^bits, ~FullBehind(WriteUint(ba, u))
      PROVE  /\ ReadUint(Back(WriteUint(ba, u), u), bits).got = <<Int32(u)>>
             /\ ReadInt(Back(WriteUint(ba, u), u), bits).got = <<Int32(DecodeZigzag(Int32(u) % 2^bits))>>
  <2>1. Open(WriteUint(ba, u))
    BY <1>2 DEF Open, FullBehind
  <2>. DEFINE c == SetPosition(Write(WriteUint(ba, u), <<u \div Weight(Len(Varint[u]))>>), ba.pos)
  <2>2. c \in Bufs /\ ReadGroups(c, bits).got = <<u>>
    BY <1>1, <1>2, <2>1, UintReadsBack
  <2>3. c = Back(WriteUint(ba, u), u)
    BY DEF Weight
  <2>. HIDE DEF c, Back
  <2>4. /\ ReadUint(c, bits).got = <<Int32(u)>>
        /\ ReadInt(c, bits).got = <<Int32(DecodeZigzag(Int32(u) % 2^bits))>>
    BY <2>2, AfterGroups
  <2>. QED BY <2>3, <2>4
<1>3. ASSUME NEW bits \in {WordBits, LongBits}, NEW u \in 0 .. 2^bits - 1
      PROVE  LET b == WriteUint(ba, u) IN
             FullBehind(b) \/ (ReadUint(Back(b, u), bits).got = <<u>> <=> u < 2^(WordBits - 1))
  <2>. DEFINE m == 2^bits
  <2>1. m \in Nat /\ bits \in Nat \ {0} /\ u \in 0 .. m - 1
    BY <1>1, Power
  <2>. HIDE DEF m
  <2>2. u \in Nat /\ u < m
    BY <2>1
  <2>. SUFFICES ASSUME ~FullBehind(WriteUint(ba, u))
                PROVE  ReadUint(Back(WriteUint(ba, u), u), bits).got = <<u>> <=> u < 2^(WordBits - 1)
    OBVIOUS
  <2>3. ReadUint(Back(WriteUint(ba, u), u), bits).got = <<Int32(u)>>
    BY <1>2, <2>1, <2>2 DEF m
  <2>4. Int32(u) = u <=> u < 2^(WordBits - 1)
    BY <2>2, Int32Exact
  <2>. HIDE DEF Back
  <2>5. <<Int32(u)>> = <<u>> <=> Int32(u) = u
    OBVIOUS
  <2>. QED BY <2>3, <2>4, <2>5
<1>4. ASSUME NEW v \in -(2^(WordBits - 1)) .. 2^(WordBits - 1) - 1
      PROVE  LET b == WriteInt(ba, v, WordBits)
                 u == EncodeZigzag(v, WordBits)
             IN FullBehind(b) \/ ReadInt(Back(b, u), WordBits).got = <<v>>
  <2>. DEFINE u == EncodeZigzag(v, WordBits)
              b == WriteInt(ba, v, WordBits)
  <2>1. /\ u \in Nat /\ u < 2^WordBits /\ u % 2^WordBits = u
        /\ Int32(DecodeZigzag(Int32(u) % 2^WordBits)) = v
    BY Zigzag DEF IntRange
  <2>2. b = WriteUint(ba, u)
    BY <2>1 DEF WriteInt
  <2>. HIDE DEF u, b
  <2>. SUFFICES ASSUME ~FullBehind(b) PROVE ReadInt(Back(b, u), WordBits).got = <<v>>
    BY DEF u, b
  <2>3. ReadInt(Back(b, u), WordBits).got = <<Int32(DecodeZigzag(Int32(u) % 2^WordBits))>>
    BY <1>1, <1>2, <2>1, <2>2
  <2>. QED BY <2>1, <2>3
<1>5. ASSUME NEW v \in -(2^(LongBits - 1)) .. 2^(LongBits - 1) - 1
      PROVE  LET b == WriteInt(ba, v, LongBits)
                 u == EncodeZigzag(v, LongBits) % 2^WordBits
             IN FullBehind(b) \/ (ReadInt(Back(b, u), LongBits).got = <<v>> <=>
                                    v \in -(2^(WordBits - 2)) .. 2^(WordBits - 2) - 1)
  <2>. DEFINE u == EncodeZigzag(v, LongBits) % 2^WordBits
              b == WriteInt(ba, v, LongBits)
              back == Int32(DecodeZigzag(Int32(u) % 2^LongBits))
              In == v \in -(2^(WordBits - 2)) .. 2^(WordBits - 2) - 1
  <2>1. /\ u \in Nat /\ u < 2^WordBits /\ (back = v <=> In)
    BY ZigzagLong
  <2>2. b = WriteUint(ba, u)
    BY DEF WriteInt
  <2>. HIDE DEF u, b, In, back
  <2>. SUFFICES ASSUME ~FullBehind(b) PROVE ReadInt(Back(b, u), LongBits).got = <<v>> <=> In
    BY DEF u, b, In
  <2>3. u < 2^LongBits
    <3>1. 2^WordBits <= 2^LongBits /\ 2^WordBits \in Nat /\ 2^LongBits \in Nat
      BY <1>1, Constants, PowerGrows, Power
    <3>. DEFINE m == 2^WordBits
                M == 2^LongBits
    <3>2. u < m /\ m <= M /\ m \in Nat /\ M \in Nat
      BY <2>1, <3>1
    <3>. HIDE DEF m, M
    <3>3. u < M
      BY <2>1, <3>2
    <3>. QED BY <3>3 DEF M
  <2>4. ReadInt(Back(b, u), LongBits).got = <<back>>
    BY <1>1, <1>2, <2>1, <2>2, <2>3 DEF back
  <2>. HIDE DEF Back
  <2>5. <<back>> = <<v>> <=> back = v
    OBVIOUS
  <2>. QED BY <2>1, <2>4, <2>5
<1>. HIDE DEF Back
<1>. QED BY <1>3, <1>4, <1>5 DEF VarintLacksLastGroup, Back

-----------------------------------------------------------------------------
(* The theorems                                                              *)

LEMMA Initially ==
    ASSUME Init
    PROVE  IInv
<1>1. Base \in Nat \ {0} /\ 0 \in ByteVals
  BY Constants
<1>2. Fresh \in Seq(ByteVals) /\ Len(Fresh) = Base
  BY <1>1 DEF Fresh
<1>. HIDE DEF Fresh
<1>3. /\ ba \in BufRec /\ ba.mem = Fresh /\ ba.cur = 1 /\ ba.pos = 0 /\ ba.size = 0 /\ ba.dead = FALSE
      /\ ref \in FlatRec /\ ref.mem = Fresh /\ ref.pos = 0 /\ ref.size = 0
  BY <1>2 DEF Init, BufRec, FlatRec
<1>4. ba \in Bufs
  <2>1. Len(ba.mem) = 1 * Base /\ ba.cur <= 1 /\ ba.pos <= ba.size /\ ba.size <= Len(ba.mem)
    BY <1>1, <1>2, <1>3
  <2>. QED BY <1>3, <2>1, MakeBuf
<1>5. 0 \div Base = 0
  <2>1. (0 * Base + 0) \div Base = 0 /\ 0 * Base + 0 = 0
    BY <1>1, DivIs
  <2>. QED BY <2>1
<1>6. EdgeOnly(ba)
  BY <1>1, <1>2, <1>3, <1>5 DEF EdgeOnly, Follows
<1>. QED BY <1>3, <1>4, <1>6 DEF IInv

LEMMA Preserved ==
    ASSUME IInv, [Next]_vars
    PROVE  IInv'
<1>0. ba \in Bufs /\ ref \in FlatRec
  BY DEF IInv
<1>1. ASSUME NEW s \in Strings, DoWrite(s) PROVE IInv'
  BY <1>1, NextOne, StringIs DEF DoWrite
<1>2. ASSUME NEW s \in Strings, DoReadFromFile(s) PROVE IInv'
  <2>1. Pieces(s) \in Seq(Seq(ByteVals))
    BY PieceIs, StringIs
  <2>2. Writes(WriteAll(ba, Pieces(s)), Pieces(s))
    BY <1>2 DEF DoReadFromFile, ReadFromFile
  <2>. QED BY <2>1, <2>2, NextWrites
<1>3. ASSUME NEW s \in Strings, DoReceive(s) PROVE IInv'
  BY <1>3, NextReceive
<1>4. ASSUME NEW s \in Strings, NEW w \in {0, 2}, DoWriteString(w, s) PROVE IInv'
  BY <1>4, NextWriteString
<1>5. ASSUME NEW d \in Data, DoWriteFixed(<<d, 0>>) PROVE IInv'
  <2>1. d \in ByteVals /\ 0 \in ByteVals
    BY Constants
  <2>2. <<d, 0>> \in Seq(ByteVals)
    BY <2>1
  <2>3. Fixed(ba, <<d, 0>>) \in Seq(ByteVals)
    BY <2>2, FixedIs
  <2>4. Writes(Write(ba, Fixed(ba, <<d, 0>>)), <<Fixed(ba, <<d, 0>>)>>)
    BY <1>5 DEF DoWriteFixed, WriteFixed
  <2>. QED BY <2>3, <2>4, NextOne
<1>6. ASSUME NEW d \in Data, DoWriteUint(Top + d) PROVE IInv'
  <2>1. Top + d \in Nat
    BY Constants
  <2>2. Varint[Top + d] \in Seq(ByteVals)
    BY <2>1, VarintIs
  <2>3. Writes(Write(ba, Varint[Top + d]), <<Varint[Top + d]>>)
    BY <1>6 DEF DoWriteUint, WriteUint
  <2>. QED BY <2>2, <2>3, NextOne
<1>7. ASSUME NEW n \in 0 .. MaxWrite, DoRead(n) PROVE IInv'
  <2>1. n \in Nat
    BY ByteArrayAssumption
  <2>2. Later(ba, Read(ba, n).b)
    BY <1>0, <2>1, ReadIs
  <2>. QED BY <1>7, <2>2, NextReads DEF DoRead
<1>8. ASSUME DoReadUint(WordBits) PROVE IInv'
  <2>1. Later(ba, ReadUint(ba, WordBits).b)
    BY <1>0, ReadUintIs, Constants
  <2>. QED BY <1>8, <2>1, NextReads DEF DoReadUint
<1>9. ASSUME NEW w \in {0, 2}, DoReadString(w) PROVE IInv'
  <2>1. Later(ba, ReadString(ba, w).b)
    BY <1>0, ReadStringIs
  <2>. QED BY <1>9, <2>1, NextReads DEF DoReadString
<1>10. ASSUME NEW v \in 0 .. MaxCapacity, DoSetPosition(v) PROVE IInv'
  BY <1>10, NextSetPosition, ByteArrayAssumption
<1>11. ASSUME DoClear PROVE IInv'
  BY <1>11, NextClear
<1>12. ASSUME NEW little \in BOOLEAN, DoSetEndian(little) PROVE IInv'
  BY <1>12, NextSetEndian
<1>13. CASE UNCHANGED vars
  BY <1>13 DEF vars, IInv, Bufs, EdgeOnly, Follows, Nodes
<1>. QED BY <1>1, <1>2, <1>3, <1>4, <1>5, <1>6, <1>7, <1>8, <1>9, <1>10, <1>11, <1>12, <1>13 DEF Next

LEMMA Implied ==
    ASSUME IInv
    PROVE  BufferInv
<1>1. /\ ba.mem \in Seq(ByteVals) /\ Len(ba.mem) % Base = 0 /\ ba.cur \in Nat /\ ba.cur <= Nodes(ba)
      /\ Nodes(ba) \in Nat /\ ba.endian \in {"little", "big"} /\ ba.pos \in Nat
      /\ ba.pos <= ba.size /\ ba.size <= Len(ba.mem)
  BY InChain DEF IInv
<1>2. TypeOK
  BY <1>1 DEF TypeOK, ByteVals
<1>3. CursorFollows /\ ContentKept
  BY DEF IInv, Sound, CursorFollows, ContentKept, EdgeOnly, Follows
<1>. QED BY <1>2, <1>3 DEF BufferInv

\* For every size of node, every width of a byte and every sequence of writes, reads, seeks,
\* growth and clear: m_cur is the node of the position, and the chain holds what a flat
\* buffer would.
THEOREM BufferKept == Spec => []BufferInv
<1>1. Init => IInv
  BY Initially
<1>2. IInv /\ [Next]_vars => IInv'
  BY Preserved
<1>3. IInv => BufferInv
  BY Implied
<1>. QED BY <1>1, <1>2, <1>3, PTL DEF Spec

\* No operation follows a null pointer except at the end of the buffer, or after a write
\* into a full buffer from an earlier position.
THEOREM CrashesAtTheEnd == Spec => CrashesOnlyAtEdge
<1>1. Init => IInv
  BY Initially
<1>2. IInv /\ [Next]_vars => IInv'
  BY Preserved
<1>3. IInv' => [ba'.dead => ref'.stray \/ ba'.pos = Len(ba'.mem)]_vars
  BY DEF IInv, EdgeOnly
<1>. QED BY <1>1, <1>2, <1>3, PTL DEF Spec, CrashesOnlyAtEdge

LEMMA CodingsImplied ==
    ASSUME IInv
    PROVE  CodingsExact
BY ReadsBackImplied, VarintImplied, BuffersImplied, FileImplied DEF CodingsExact

\* Whatever the buffer holds and wherever its position is, a fixed integer, a float or a
\* string is read as it was written.  Once the group that the loop of writeUint32 leaves out
\* is there, readInt32 gives back every int32_t, readUint32 and readUint64 what is below
\* 2^31 alone and readInt64 what is between -2^30 and 2^30 - 1 alone.  Iovecs and toString
\* name exactly the bytes, and writeToFile writes them, except where it runs off the chain.
THEOREM CodingsAreExact == Spec => []CodingsExact
<1>1. Init => IInv
  BY Initially
<1>2. IInv /\ [Next]_vars => IInv'
  BY Preserved
<1>3. IInv => CodingsExact
  BY CodingsImplied
<1>. QED BY <1>1, <1>2, <1>3, PTL DEF Spec

-----------------------------------------------------------------------------
(* Addresses                                                                 *)

\* operator< on sequences of bytes.
LEMMA LessIrreflexive ==
    ASSUME NEW a \in Seq(Nat)
    PROVE  ~Less(a, a)
<1>1. \A i \in DOMAIN a : ~(a[i] < a[i])
  OBVIOUS
<1>2. ~(Len(a) < Len(a))
  OBVIOUS
<1>. QED BY <1>1, <1>2 DEF Less

LEMMA LessTotal ==
    ASSUME NEW a \in Seq(Nat), NEW b \in Seq(Nat), a # b
    PROVE  Less(a, b) \/ Less(b, a)
<1>. DEFINE T == {i \in DOMAIN a \cap DOMAIN b : a[i] # b[i]}
<1>1. DOMAIN a = 1 .. Len(a) /\ DOMAIN b = 1 .. Len(b) /\ Len(a) \in Nat /\ Len(b) \in Nat
  OBVIOUS
<1>2. CASE T # {}
  <2>1. T \in SUBSET Nat
    BY <1>1
  <2>. HIDE DEF T
  <2>2. PICK i \in T : \A j \in T : i <= j
    BY <1>2, <2>1, LeastNat
  <2>3. i \in DOMAIN a \cap DOMAIN b /\ a[i] # b[i] /\ a[i] \in Nat /\ b[i] \in Nat
    BY <1>1, <2>2 DEF T
  <2>4. ASSUME NEW j \in 1 .. i - 1 PROVE a[j] = b[j]
    <3>1. j \in DOMAIN a \cap DOMAIN b
      BY <1>1, <2>3
    <3>2. j \notin T
      BY <1>1, <2>2, <2>3
    <3>. QED BY <3>1, <3>2 DEF T
  <2>5. a[i] < b[i] \/ b[i] < a[i]
    BY <2>3
  <2>. QED BY <2>3, <2>4, <2>5 DEF Less
<1>3. CASE T = {}
  <2>1. \A i \in DOMAIN a \cap DOMAIN b : a[i] = b[i]
    BY <1>3
  <2>2. CASE Len(a) = Len(b)
    <3>1. \A i \in 1 .. Len(a) : a[i] = b[i]
      BY <1>1, <2>1, <2>2
    <3>2. a = b
      BY <1>1, <2>2, <3>1, SeqEqual
    <3>. QED BY <3>2
  <2>3. CASE Len(a) < Len(b)
    <3>1. \A i \in DOMAIN a : a[i] = b[i]
      BY <1>1, <2>1, <2>3
    <3>. QED BY <2>3, <3>1 DEF Less
  <2>4. CASE Len(b) < Len(a)
    <3>1. \A i \in DOMAIN b : b[i] = a[i]
      BY <1>1, <2>1, <2>4
    <3>. QED BY <2>4, <3>1 DEF Less
  <2>5. Len(a) = Len(b) \/ Len(a) < Len(b) \/ Len(b) < Len(a)
    <3>. DEFINE m == Len(a)
                n == Len(b)
    <3>1. m \in Nat /\ n \in Nat
      OBVIOUS
    <3>. HIDE DEF m, n
    <3>2. m = n \/ m < n \/ n < m
      BY <3>1
    <3>. QED BY <3>2 DEF m, n
  <2>. QED BY <2>2, <2>3, <2>4, <2>5
<1>. QED BY <1>2, <1>3

\* a and b agree up to i; then a ends or has the smaller byte.
Parts(a, b, i) ==
    /\ i \in Nat /\ i < Len(b) /\ i <= Len(a)
    /\ \A j \in 1 .. i : a[j] = b[j]
    /\ i < Len(a) => a[i + 1] < b[i + 1]

LEMMA LessParts ==
    ASSUME NEW a \in Seq(Nat), NEW b \in Seq(Nat)
    PROVE  Less(a, b) <=> \E i \in Nat : Parts(a, b, i)
<1>0. DOMAIN a = 1 .. Len(a) /\ DOMAIN b = 1 .. Len(b) /\ Len(a) \in Nat /\ Len(b) \in Nat
  OBVIOUS
<1>1. ASSUME Less(a, b) PROVE \E i \in Nat : Parts(a, b, i)
  <2>1. ASSUME NEW i \in DOMAIN a \cap DOMAIN b, a[i] < b[i], \A j \in 1 .. i - 1 : a[j] = b[j]
        PROVE  Parts(a, b, i - 1)
    <3>1. i - 1 \in Nat /\ i - 1 < Len(b) /\ i - 1 <= Len(a) /\ (i - 1) + 1 = i
      BY <1>0
    <3>. QED BY <2>1, <3>1 DEF Parts
  <2>2. ASSUME Len(a) < Len(b), \A i \in DOMAIN a : a[i] = b[i]
        PROVE  Parts(a, b, Len(a))
    <3>1. Len(a) <= Len(a) /\ ~(Len(a) < Len(a))
      BY <1>0
    <3>. QED BY <1>0, <2>2, <3>1 DEF Parts
  <2>3. \A i : Parts(a, b, i) => i \in Nat
    BY DEF Parts
  <2>. QED BY <1>1, <2>1, <2>2, <2>3 DEF Less
<1>2. ASSUME NEW i \in Nat, Parts(a, b, i) PROVE Less(a, b)
  <2>1. CASE i < Len(a)
    <3>1. i + 1 \in DOMAIN a \cap DOMAIN b /\ (i + 1) - 1 = i
      BY <1>0, <1>2, <2>1 DEF Parts
    <3>2. a[i + 1] < b[i + 1] /\ \A j \in 1 .. (i + 1) - 1 : a[j] = b[j]
      BY <1>2, <2>1, <3>1 DEF Parts
    <3>. QED BY <3>1, <3>2 DEF Less
  <2>2. CASE i = Len(a)
    BY <1>0, <1>2, <2>2 DEF Parts, Less
  <2>3. i < Len(a) \/ i = Len(a)
    <3>. DEFINE m == Len(a)
    <3>1. i <= m /\ m \in Nat
      BY <1>2 DEF Parts
    <3>. HIDE DEF m
    <3>2. i < m \/ i = m
      BY <3>1
    <3>. QED BY <3>2 DEF m
  <2>. QED BY <2>1, <2>2, <2>3
<1>. QED BY <1>1, <1>2

LEMMA LessTransitive ==
    ASSUME NEW a \in Seq(Nat), NEW b \in Seq(Nat), NEW c \in Seq(Nat), Less(a, b), Less(b, c)
    PROVE  Less(a, c)
<1>0. /\ DOMAIN a = 1 .. Len(a) /\ DOMAIN b = 1 .. Len(b) /\ DOMAIN c = 1 .. Len(c)
      /\ Len(a) \in Nat /\ Len(b) \in Nat /\ Len(c) \in Nat
  OBVIOUS
<1>1. PICK i \in Nat : Parts(a, b, i)
  BY LessParts
<1>2. PICK j \in Nat : Parts(b, c, j)
  BY LessParts
<1>3. CASE i < j
  <2>1. i < Len(c) /\ i <= Len(a)
    BY <1>0, <1>1, <1>2, <1>3 DEF Parts
  <2>2. \A k \in 1 .. i : a[k] = c[k]
    <3>1. ASSUME NEW k \in 1 .. i PROVE a[k] = c[k]
      <4>1. k \in 1 .. j
        BY <1>3
      <4>. QED BY <1>1, <1>2, <4>1 DEF Parts
    <3>. QED BY <3>1
  <2>3. i < Len(a) => a[i + 1] < c[i + 1]
    <3>1. i + 1 \in 1 .. j
      BY <1>3
    <3>2. b[i + 1] = c[i + 1]
      BY <1>2, <3>1 DEF Parts
    <3>. QED BY <1>1, <3>2 DEF Parts
  <2>4. Parts(a, c, i)
    BY <2>1, <2>2, <2>3 DEF Parts
  <2>. QED BY <2>4, LessParts
<1>4. CASE j < i
  <2>1. j < Len(c) /\ j <= Len(a)
    BY <1>0, <1>1, <1>2, <1>4 DEF Parts
  <2>2. \A k \in 1 .. j : a[k] = c[k]
    <3>1. ASSUME NEW k \in 1 .. j PROVE a[k] = c[k]
      <4>1. k \in 1 .. i
        BY <1>4
      <4>. QED BY <1>1, <1>2, <4>1 DEF Parts
    <3>. QED BY <3>1
  <2>3. a[j + 1] < c[j + 1]
    <3>1. j + 1 \in 1 .. i
      BY <1>4
    <3>2. a[j + 1] = b[j + 1]
      BY <1>1, <3>1 DEF Parts
    <3>3. j < Len(b)
      BY <1>0, <1>1, <1>4 DEF Parts
    <3>. QED BY <1>2, <3>2, <3>3 DEF Parts
  <2>4. Parts(a, c, j)
    BY <2>1, <2>2, <2>3 DEF Parts
  <2>. QED BY <2>4, LessParts
<1>5. CASE i = j
  <2>1. i < Len(c) /\ i <= Len(a) /\ i < Len(b)
    BY <1>0, <1>1, <1>2, <1>5 DEF Parts
  <2>2. \A k \in 1 .. i : a[k] = c[k]
    BY <1>1, <1>2, <1>5 DEF Parts
  <2>3. ASSUME i < Len(a) PROVE a[i + 1] < c[i + 1]
    <3>1. a[i + 1] < b[i + 1] /\ b[i + 1] < c[i + 1]
      BY <1>1, <1>2, <1>5, <2>1, <2>3 DEF Parts
    <3>2. a[i + 1] \in Nat /\ b[i + 1] \in Nat /\ c[i + 1] \in Nat
      BY <1>0, <2>1, <2>3
    <3>. QED BY <3>1, <3>2
  <2>4. Parts(a, c, i)
    BY <2>1, <2>2, <2>3 DEF Parts
  <2>. QED BY <2>4, LessParts
<1>. QED BY <1>3, <1>4, <1>5

\* The least index, or 0.
LEMMA First ==
    ASSUME NEW S, NEW s \in Seq(S), NEW c, NEW from \in Nat \ {0}
    PROVE  LET i == FirstIndex(s, c, from) IN
           /\ i \in Nat
           /\ i = 0 => \A k \in from .. Len(s) : s[k] # c
           /\ i # 0 => i \in from .. Len(s) /\ s[i] = c /\ \A k \in from .. i - 1 : s[k] # c
<1>. DEFINE at == {k \in from .. Len(s) : s[k] = c}
            i == FirstIndex(s, c, from)
<1>1. CASE at = {}
  BY <1>1 DEF FirstIndex
<1>2. CASE at # {}
  <2>1. at \in SUBSET Nat
    OBVIOUS
  <2>2. \E k \in at : \A j \in at : k <= j
    <3>. HIDE DEF at
    <3>. QED BY <1>2, <2>1, LeastNat
  <2>3. i \in at /\ \A j \in at : i <= j
    <3>1. i = CHOOSE k \in at : \A j \in at : k <= j
      BY <1>2 DEF FirstIndex
    <3>. HIDE DEF at, i
    <3>. QED BY <2>2, <3>1
  <2>. HIDE DEF i
  <2>4. i \in from .. Len(s) /\ s[i] = c /\ i \in Nat /\ i # 0
    BY <2>3
  <2>5. ASSUME NEW k \in from .. i - 1 PROVE s[k] # c
    <3>1. k \in from .. Len(s) /\ ~(i <= k)
      BY <2>4
    <3>. QED BY <2>3, <3>1
  <2>. QED BY <2>4, <2>5 DEF i
<1>. QED BY <1>1, <1>2

LEMMA FirstIs ==
    ASSUME NEW S, NEW s \in Seq(S), NEW c, NEW from \in Nat \ {0},
           NEW i \in from .. Len(s), s[i] = c, \A k \in from .. i - 1 : s[k] # c
    PROVE  FirstIndex(s, c, from) = i
<1>. DEFINE f == FirstIndex(s, c, from)
<1>1. /\ f \in Nat
      /\ f = 0 => \A k \in from .. Len(s) : s[k] # c
      /\ f # 0 => f \in from .. Len(s) /\ s[f] = c /\ \A k \in from .. f - 1 : s[k] # c
  BY First
<1>. HIDE DEF f
<1>2. f # 0
  BY <1>1
<1>3. ~(i < f)
  <2>1. i < f => i \in from .. f - 1
    BY <1>1
  <2>. QED BY <1>1, <1>2, <2>1
<1>4. ~(f < i)
  <2>1. f < i => f \in from .. i - 1
    BY <1>1, <1>2
  <2>. QED BY <1>1, <1>2, <2>1
<1>5. f = i
  BY <1>1, <1>3, <1>4
<1>. QED BY <1>5 DEF f

-----------------------------------------------------------------------------
(* IPv4                                                                      *)

LEMMA Sizes ==
    /\ ByteBits \in Nat \ {0} /\ V4Bytes \in Nat \ {0} /\ V6Bytes \in Nat \ {0} /\ PathSize \in Nat \ {0}
    /\ V4Bits \in Nat \ {0} /\ V6Bits \in Nat \ {0} /\ V4Bits <= V6Bits
<1>1. /\ ByteBits \in Nat \ {0} /\ V4Bytes \in Nat \ {0} /\ V6Bytes \in Nat \ {0} /\ PathSize \in Nat \ {0}
      /\ V4Bytes <= V6Bytes
  BY AddressAssumption
<1>2. V4Bytes * ByteBits \in Nat /\ V6Bytes * ByteBits \in Nat /\ V4Bytes * ByteBits <= V6Bytes * ByteBits
  BY <1>1, Times
<1>3. 0 * ByteBits = 0 /\ 0 * ByteBits + ByteBits <= V4Bytes * ByteBits
  BY <1>1, Times
<1>4. V4Bytes * ByteBits # 0 /\ V6Bytes * ByteBits # 0
  BY <1>1, <1>2, <1>3
<1>. QED BY <1>1, <1>2, <1>4 DEF V4Bits, V6Bits

\* The lowest j of B bits: cleared of the others, set, and the others alone.
LowBits(x, j, B) ==
    /\ And(x, 2^j - 1) = x % 2^j
    /\ Or(x, 2^j - 1) = (x \div 2^j) * 2^j + Ones(j)
    /\ Complement(2^j - 1, B) = 2^B - 2^j
    /\ {And(x, 2^j - 1), Or(x, 2^j - 1), Complement(2^j - 1, B)} \subseteq 0 .. Ones(B)

LEMMA LowBitsAre ==
    ASSUME NEW B \in Nat, NEW j \in 0 .. B, NEW x \in 0 .. Ones(B)
    PROVE  LowBits(x, j, B)
<1>. DEFINE a == 2^j
            b == 2^B
            c == 2^(B - j)
            q == x \div a
            r == x % a
<1>1. a \in Nat \ {0} /\ b \in Nat \ {0} /\ c \in Nat \ {0} /\ b = c * a
  <2>1. B - j \in Nat /\ j \in Nat /\ (B - j) + j = B
    OBVIOUS
  <2>. DEFINE k == B - j
  <2>. HIDE DEF k
  <2>2. k \in Nat /\ k + j = B
    BY <2>1 DEF k
  <2>3. 2^(k + j) = 2^k * 2^j
    BY <2>1, <2>2, PowerSum
  <2>4. 2^j \in Nat \ {0} /\ 2^B \in Nat \ {0} /\ 2^k \in Nat \ {0}
    BY <2>1, <2>2, Power
  <2>. QED BY <2>2, <2>3, <2>4 DEF k
<1>2. x \in 0 .. b - 1
  BY DEF Ones
<1>. HIDE DEF a, b, c
<1>3. q \in Nat /\ r \in Nat /\ r < a /\ x = q * a + r /\ x \in Nat /\ x < b
  BY <1>1, <1>2, DivMod
<1>. HIDE DEF q, r
<1>4. q * a \in Nat /\ q * a + a <= b
  <2>1. q * a \in Nat /\ (q * a < c * a => q < c) /\ (q < c => q * a + a <= c * a)
    BY <1>1, <1>3, Times
  <2>2. q * a < c * a
    BY <1>1, <1>3, <2>1
  <2>. QED BY <1>1, <2>1, <2>2
<1>5. (a - 1) + 1 = a /\ x - r + (a - 1) = q * a + (a - 1) /\ (b - 1) - (a - 1) = b - a
  BY <1>1, <1>3, <1>4
<1>6. And(x, a - 1) = r
  BY <1>5 DEF And, r
<1>7. Or(x, a - 1) = q * a + (a - 1)
  BY <1>5, <1>6 DEF Or
<1>8. Complement(a - 1, B) = b - a
  BY <1>5 DEF Complement, Ones, b
<1>9. r \in 0 .. b - 1 /\ q * a + (a - 1) \in 0 .. b - 1 /\ b - a \in 0 .. b - 1
  BY <1>1, <1>3, <1>4
<1>10. Ones(B) = b - 1 /\ Ones(j) = a - 1
  BY DEF Ones, a, b
<1>. QED BY <1>6, <1>7, <1>8, <1>9, <1>10 DEF LowBits, a, b, q, r

LEMMA Masks4 ==
    ASSUME NEW p \in Nat, NEW mask \in CreateMask(V4Bits, p)
    PROVE  \E j \in 0 .. V4Bits : mask = 2^j - 1
<1>0. V4Bits \in Nat /\ 0 \in 0 .. V4Bits /\ V4Bits \in 0 .. V4Bits
  BY Sizes
<1>1. CASE p > V4Bits
  BY <1>1 DEF CreateMask, Ones
<1>2. CASE ~(p > V4Bits) /\ p = 0
  <2>1. mask = 0 \/ mask = 2^V4Bits - 1
    BY <1>2 DEF CreateMask, Ones
  <2>2. 0 = 2^0 - 1
    BY PowerZero
  <2>. QED BY <1>0, <2>1, <2>2
<1>3. CASE ~(p > V4Bits) /\ p # 0
  <2>1. mask = 2^(V4Bits - p) - 1
    BY <1>3 DEF CreateMask
  <2>2. V4Bits - p \in 0 .. V4Bits
    BY <1>0, <1>3
  <2>. QED BY <2>1, <2>2
<1>. QED BY <1>1, <1>2, <1>3

\* What the operations on an IPv4 address return is one.
LEMMA DerivedIs4 ==
    ASSUME NEW p \in Nat, NEW x \in 0 .. Ones(V4Bits)
    PROVE  Broadcast4(x, p) \cup Network4(x, p) \cup Subnet4(p) \subseteq 0 .. Ones(V4Bits)
<1>1. ASSUME NEW mask \in CreateMask(V4Bits, p)
      PROVE  {And(x, mask), Or(x, mask), Complement(mask, V4Bits)} \subseteq 0 .. Ones(V4Bits)
  <2>1. PICK j \in 0 .. V4Bits : mask = 2^j - 1
    BY Masks4
  <2>2. LowBits(x, j, V4Bits)
    BY Sizes, LowBitsAre
  <2>. QED BY <2>1, <2>2 DEF LowBits
<1>. QED BY <1>1 DEF Broadcast4, Network4, Subnet4

\* At a prefix that is not empty there is one mask.
LEMMA Exact4 ==
    ASSUME NEW p \in 1 .. V4Bits, NEW x \in 0 .. Ones(V4Bits)
    PROVE  LET j == V4Bits - p IN
           /\ j \in 0 .. V4Bits /\ LowBits(x, j, V4Bits)
           /\ Broadcast4(x, p) = {Or(x, 2^j - 1)}
           /\ Network4(x, p) = {And(x, 2^j - 1)}
           /\ Subnet4(p) = {Complement(2^j - 1, V4Bits)}
<1>. DEFINE j == V4Bits - p
<1>1. j \in 0 .. V4Bits /\ p # 0 /\ ~(p > V4Bits) /\ V4Bits \in Nat
  BY Sizes
<1>2. CreateMask(V4Bits, p) = {2^j - 1}
  BY <1>1 DEF CreateMask
<1>. HIDE DEF j
<1>3. LowBits(x, j, V4Bits)
  BY <1>1, LowBitsAre
<1>. QED BY <1>1, <1>2, <1>3 DEF Broadcast4, Network4, Subnet4, j

-----------------------------------------------------------------------------
(* IPv6                                                                      *)

LEMMA BytePlace ==
    ASSUME NEW p \in 0 .. V6Bits
    PROVE  /\ p \div ByteBits \in Nat /\ p % ByteBits \in 0 .. ByteBits - 1
           /\ p = (p \div ByteBits) * ByteBits + (p % ByteBits)
           /\ ByteOf(p) = p \div ByteBits + 1 /\ ByteOf(p) \in 1 .. V6Bytes + 1
           /\ p < V6Bits => ByteOf(p) <= V6Bytes
<1>. DEFINE q == p \div ByteBits
            r == p % ByteBits
            b == ByteBits
            n == V6Bytes
<1>1. b \in Nat \ {0} /\ n \in Nat \ {0} /\ p \in Nat /\ p <= n * b /\ n * b \in Nat
  BY Sizes DEF V6Bits
<1>2. q \in Nat /\ r \in Nat /\ r < b /\ p = q * b + r
  BY <1>1, DivMod
<1>3. V6Bits = n * b /\ ByteOf(p) = q + 1
  BY DEF V6Bits, ByteOf
<1>. HIDE DEF q, r, b, n
<1>4. q <= n
  <2>1. ASSUME n < q PROVE FALSE
    <3>1. n * b + b <= q * b /\ q * b \in Nat
      BY <1>1, <1>2, <2>1, Times
    <3>. QED BY <1>1, <1>2, <3>1
  <2>. QED BY <1>1, <1>2, <2>1
<1>5. ASSUME p < n * b PROVE q < n
  <2>1. q * b \in Nat /\ (q * b < n * b => q < n)
    BY <1>1, <1>2, Times
  <2>. QED BY <1>1, <1>2, <1>5, <2>1
<1>6. q + 1 \in 1 .. n + 1 /\ (p < n * b => q + 1 <= n)
  BY <1>1, <1>2, <1>4, <1>5
<1>7. r \in 0 .. b - 1
  BY <1>1, <1>2
<1>8. /\ q \in Nat /\ r \in 0 .. b - 1 /\ p = q * b + r
      /\ ByteOf(p) = q + 1 /\ ByteOf(p) \in 1 .. n + 1 /\ (p < V6Bits => ByteOf(p) <= n)
  BY <1>2, <1>3, <1>6, <1>7
<1>. QED BY <1>8 DEF q, r, b, n

Bytes6All == [1 .. V6Bytes + 1 -> 0 .. Ones(ByteBits)]

LEMMA OnesIs ==
    ASSUME NEW B \in Nat
    PROVE  Ones(B) \in Nat /\ 0 \in 0 .. Ones(B) /\ Ones(B) \in 0 .. Ones(B) /\ Ones(B) + 1 = 2^B
<1>. DEFINE b == 2^B
<1>1. b \in Nat \ {0}
  BY Power
<1>. HIDE DEF b
<1>2. b - 1 \in Nat /\ 0 \in 0 .. b - 1 /\ b - 1 \in 0 .. b - 1 /\ (b - 1) + 1 = b
  BY <1>1
<1>. QED BY <1>2 DEF Ones, b

\* The mask of a byte.
LEMMA ByteMaskIs ==
    ASSUME NEW p \in Nat
    PROVE  /\ ByteBits - (p % ByteBits) \in 0 .. ByteBits
           /\ ByteMask(p) = 2^(ByteBits - (p % ByteBits)) - 1
<1>. DEFINE s == p % ByteBits
<1>0. ByteBits \in Nat \ {0}
  BY Sizes
<1>1. s \in Nat /\ s < ByteBits
  BY <1>0, DivMod
<1>. HIDE DEF s
<1>2. ByteBits - s \in 0 .. ByteBits
  BY <1>0, <1>1
<1>. QED BY <1>2 DEF ByteMask, Ones, s

LEMMA DerivedIs6 ==
    ASSUME NEW p \in Nat, NEW x \in Bytes6All
    PROVE  Broadcast6(x, p) \in Bytes6All /\ Network6(x, p) \in Bytes6All /\ Subnet6(p) \in Bytes6All
<1>. DEFINE j == ByteBits - (p % ByteBits)
            R == 0 .. Ones(ByteBits)
<1>1. j \in 0 .. ByteBits /\ ByteMask(p) = 2^j - 1 /\ ByteBits \in Nat
  BY ByteMaskIs, Sizes
<1>. HIDE DEF j
<1>2. ASSUME NEW v \in R
      PROVE  {And(v, ByteMask(p)), Or(v, ByteMask(p)), Complement(ByteMask(p), ByteBits)} \subseteq R
  <2>1. LowBits(v, j, ByteBits)
    BY <1>1, LowBitsAre
  <2>. QED BY <1>1, <2>1 DEF LowBits
<1>3. 0 \in R /\ Ones(ByteBits) \in R
  BY <1>1, OnesIs
<1>. HIDE DEF R
<1>4. DOMAIN x = 1 .. V6Bytes + 1 /\ \A i \in 1 .. V6Bytes + 1 : x[i] \in R
  BY DEF Bytes6All, R
<1>5. \A i \in 1 .. V6Bytes + 1 : {And(x[i], ByteMask(p)), Or(x[i], ByteMask(p))} \subseteq R
  BY <1>2, <1>4
<1>6. Complement(ByteMask(p), ByteBits) \in R
  BY <1>2, <1>3
<1>7. Broadcast6(x, p) \in [1 .. V6Bytes + 1 -> R]
  BY <1>3, <1>4, <1>5 DEF Broadcast6
<1>8. Network6(x, p) \in [1 .. V6Bytes + 1 -> R]
  BY <1>3, <1>4, <1>5 DEF Network6
<1>9. Subnet6(p) \in [1 .. V6Bytes + 1 -> R]
  BY <1>3, <1>6 DEF Subnet6
<1>. QED BY <1>7, <1>8, <1>9 DEF Bytes6All, R

\* Bit m of q * 2^t + (2^t - 1): all ones below t.
LEMMA OddAgain ==
    ASSUME NEW k \in Nat \ {0}, NEW q \in Nat
    PROVE  (q * 2^k + (2^k - 1)) % 2 = 1
<1>. DEFINE c == 2^(k - 1)
<1>1. c \in Nat \ {0} /\ 2^k = 2 * c
  <2>. DEFINE l == k - 1
  <2>1. l \in Nat /\ l + 1 = k
    OBVIOUS
  <2>. HIDE DEF l
  <2>2. 2^(l + 1) = 2 * 2^l /\ 2^l \in Nat \ {0}
    BY <2>1, Power, PowerNext
  <2>. QED BY <2>1, <2>2 DEF l
<1>. HIDE DEF c
<1>. DEFINE d == q * c + (c - 1)
<1>2. q * (2 * c) = 2 * (q * c) /\ q * c \in Nat
  BY <1>1
<1>3. d \in Nat /\ q * (2 * c) + (2 * c - 1) = d * 2 + 1
  BY <1>1, <1>2
<1>. HIDE DEF d
<1>4. (d * 2 + 1) % 2 = 1
  BY <1>3, DivIs
<1>. QED BY <1>1, <1>3, <1>4

LEMMA BitBelow ==
    ASSUME NEW t \in Nat, NEW m \in Nat, m < t, NEW q \in Nat
    PROVE  ((q * 2^t + (2^t - 1)) \div 2^m) % 2 = 1
<1>. DEFINE k == t - m
            a == 2^m
            c == 2^k
            e == q * c + (c - 1)
<1>1. k \in Nat \ {0} /\ k + m = t
  OBVIOUS
<1>. HIDE DEF k
<1>2. a \in Nat \ {0} /\ c \in Nat \ {0} /\ 2^t = c * a
  BY <1>1, Power, PowerSum
<1>3. e % 2 = 1
  BY <1>1, OddAgain
<1>. HIDE DEF a, c
<1>4. e \in Nat /\ q * c \in Nat
  BY <1>2
<1>5. q * (c * a) + (c * a - 1) = e * a + (a - 1)
  <2>1. (q * c + (c - 1)) * a = (q * c) * a + (c * a - a)
    BY <1>2, <1>4
  <2>2. (q * c) * a = q * (c * a) /\ q * (c * a) \in Nat /\ c * a \in Nat
    BY <1>2, <1>4
  <2>. QED BY <1>2, <2>1, <2>2
<1>. HIDE DEF e
<1>6. (e * a + (a - 1)) \div a = e
  <2>1. a - 1 \in Nat /\ a - 1 < a
    BY <1>2
  <2>. QED BY <1>2, <1>4, <2>1, DivIs
<1>. QED BY <1>2, <1>3, <1>5, <1>6 DEF a

\* Bit m from t on is not touched.
LEMMA BitAbove ==
    ASSUME NEW t \in Nat, NEW m \in Nat, t <= m, NEW x \in Nat
    PROVE  ((x \div 2^t) * 2^t + (2^t - 1)) \div 2^m = x \div 2^m
<1>. DEFINE k == m - t
            a == 2^t
            c == 2^k
            q == x \div a
            y == q * a + (a - 1)
<1>1. k \in Nat /\ t + k = m
  OBVIOUS
<1>. HIDE DEF k
<1>2. a \in Nat \ {0} /\ c \in Nat \ {0} /\ 2^m = a * c
  BY <1>1, Power, PowerSum
<1>. HIDE DEF a, c
<1>3. q \in Nat
  BY <1>2, DivMod
<1>. HIDE DEF q
<1>4. y \in Nat /\ y \div a = q
  <2>1. a - 1 \in Nat /\ a - 1 < a /\ q * a \in Nat
    BY <1>2, <1>3, Times
  <2>. QED BY <1>2, <1>3, <2>1, DivIs
<1>. HIDE DEF y
<1>5. DividesTwice(y, a, c) /\ DividesTwice(x, a, c)
  BY <1>2, <1>4, DivTwice
<1>6. y \div (a * c) = x \div (a * c)
  BY <1>4, <1>5 DEF DividesTwice, q
<1>. QED BY <1>2, <1>6 DEF y, q, a

\* Bit m of x % 2^t: that of x below t, none from t on.
LEMMA BitAnd ==
    ASSUME NEW t \in Nat, NEW m \in Nat, NEW x \in Nat
    PROVE  ((x % 2^t) \div 2^m) % 2 = IF m < t THEN (x \div 2^m) % 2 ELSE 0
<1>. DEFINE a == 2^m
            b == 2^t
            q == x \div b
            r == x % b
<1>1. a \in Nat \ {0} /\ b \in Nat \ {0}
  BY Power
<1>. HIDE DEF a, b
<1>2. q \in Nat /\ r \in Nat /\ r < b /\ x = q * b + r
  BY <1>1, DivMod
<1>. HIDE DEF q, r
<1>3. CASE m < t
  <2>. DEFINE k == t - m - 1
              c == 2^k
              e == r \div a
              f == r % a
              g == q * c
  <2>1. k \in Nat /\ k + 1 \in Nat /\ (k + 1) + m = t
    BY <1>3
  <2>. HIDE DEF k
  <2>2. c \in Nat \ {0} /\ 2^(k + 1) = 2 * c
    BY <2>1, Power, PowerNext
  <2>3. b = 2^(k + 1) * a
    BY <2>1, PowerSum DEF a, b
  <2>4. e \in Nat /\ f \in Nat /\ f < a /\ r = e * a + f
    BY <1>1, <1>2, DivMod
  <2>. HIDE DEF c, e, f
  <2>5. g \in Nat /\ b = (2 * c) * a /\ q * b = (2 * g) * a
    <3>1. q * ((2 * c) * a) = (2 * (q * c)) * a /\ q * c \in Nat
      BY <1>1, <1>2, <2>2
    <3>. QED BY <2>2, <2>3, <3>1
  <2>. HIDE DEF g
  <2>. DEFINE n == 2 * g + e
  <2>6. n \in Nat /\ 2 * g \in Nat
    BY <2>4, <2>5
  <2>7. x = n * a + f
    <3>1. (2 * g + e) * a = (2 * g) * a + e * a /\ (2 * g) * a \in Nat /\ e * a \in Nat
      BY <1>1, <2>4, <2>6, Times
    <3>. QED BY <1>2, <2>4, <2>5, <3>1
  <2>8. x \div a = n
    <3>. HIDE DEF n
    <3>. QED BY <1>1, <2>4, <2>6, <2>7, DivIs
  <2>9. n % 2 = e % 2
    <3>. DEFINE u == e \div 2
                w == e % 2
    <3>1. u \in Nat /\ w \in Nat /\ w < 2 /\ e = u * 2 + w
      BY <2>4, DivMod
    <3>. HIDE DEF u, w
    <3>2. g + u \in Nat /\ n = (g + u) * 2 + w
      BY <2>5, <3>1
    <3>. HIDE DEF n
    <3>3. ((g + u) * 2 + w) % 2 = w
      BY <3>1, <3>2, DivIs
    <3>. QED BY <3>2, <3>3 DEF w
  <2>. QED BY <1>3, <2>8, <2>9 DEF a, b, e, r
<1>4. CASE ~(m < t)
  <2>. DEFINE k == m - t
              c == 2^k
  <2>1. k \in Nat /\ k + t = m
    BY <1>4
  <2>. HIDE DEF k
  <2>2. c \in Nat \ {0}
    BY <2>1, Power
  <2>3. a = c * b
    BY <2>1, PowerSum DEF a, b
  <2>. HIDE DEF c
  <2>4. b <= a
    <3>1. 1 <= c /\ 1 \in Nat
      BY <2>2
    <3>2. 1 * b <= c * b
      BY <1>1, <2>2, <3>1, Times
    <3>. QED BY <1>1, <2>3, <3>2
  <2>5. r = 0 * a + r /\ r < a /\ 0 \in Nat
    BY <1>1, <1>2, <2>4
  <2>6. (0 * a + r) \div a = 0
    BY <1>1, <1>2, <2>5, DivIs
  <2>7. r \div a = 0 /\ 0 % 2 = 0
    BY <2>5, <2>6
  <2>. QED BY <1>4, <2>7 DEF a, b, r
<1>. QED BY <1>3, <1>4

LEMMA BroadcastBit ==
    ASSUME NEW p \in 0 .. V6Bits, NEW y \in Bytes6All, NEW i \in 1 .. V6Bits
    PROVE  BitAt(Broadcast6(y, p), i) = IF i <= p THEN BitAt(y, i) ELSE 1
<1>. DEFINE x == Broadcast6(y, p)
            b == ByteBits
            P == p \div b
            s == p % b
            K == (i - 1) \div b
            r == (i - 1) % b
            m == b - 1 - r
            t == b - s
<1>1. /\ b \in Nat \ {0} /\ P \in Nat /\ s \in 0 .. b - 1 /\ p = P * b + s
      /\ ByteOf(p) = P + 1
  BY Sizes, BytePlace
<1>2. /\ K \in Nat /\ r \in 0 .. b - 1 /\ i - 1 = K * b + r /\ K + 1 <= V6Bytes
  <2>. DEFINE h == i - 1
  <2>1. h \in 0 .. V6Bits /\ h < V6Bits
    BY Sizes
  <2>. HIDE DEF h
  <2>2. /\ h \div b \in Nat /\ h % b \in 0 .. b - 1 /\ h = (h \div b) * b + (h % b)
        /\ ByteOf(h) = h \div b + 1 /\ ByteOf(h) <= V6Bytes
    BY <2>1, BytePlace
  <2>3. h \div b + 1 <= V6Bytes
    BY <2>2
  <2>. QED BY <2>2, <2>3 DEF h
<1>3. V6Bytes \in Nat /\ p \in Nat /\ i \in Nat /\ i = (i - 1) + 1
  BY Sizes
<1>4. /\ DOMAIN y = 1 .. V6Bytes + 1 /\ \A k \in 1 .. V6Bytes + 1 : y[k] \in 0 .. Ones(b)
  BY DEF Bytes6All
<1>5. BitAt(x, i) = (x[K + 1] \div 2^m) % 2 /\ BitAt(y, i) = (y[K + 1] \div 2^m) % 2
  BY DEF BitAt
<1>6. \A k \in 1 .. V6Bytes + 1 :
          x[k] = IF k = P + 1 THEN Or(y[k], ByteMask(p))
                 ELSE IF k > P + 1 /\ k <= V6Bytes THEN Ones(b) ELSE y[k]
  BY <1>1, <1>4 DEF Broadcast6
<1>7. t \in 0 .. b /\ ByteMask(p) = 2^t - 1
  BY ByteMaskIs
<1>. SUFFICES BitAt(x, i) = IF i <= p THEN BitAt(y, i) ELSE 1
  OBVIOUS
<1>. HIDE DEF b, P, s, K, r, x
<1>8. m \in Nat /\ m < b /\ K + 1 \in 1 .. V6Bytes + 1 /\ (r < s <=> t <= m) /\ t \in Nat
  BY <1>1, <1>2, <1>3, <1>7
<1>9. P * b \in Nat /\ K * b \in Nat /\ (K < P => K * b + b <= P * b) /\ (P < K => P * b + b <= K * b)
  BY <1>1, <1>2, Times
<1>. HIDE DEF m, t
<1>10. CASE K < P
  <2>1. i <= p
    BY <1>1, <1>2, <1>3, <1>9, <1>10
  <2>2. K + 1 # P + 1 /\ ~(K + 1 > P + 1)
    BY <1>1, <1>2, <1>10
  <2>3. x[K + 1] = y[K + 1]
    BY <1>6, <1>8, <2>2
  <2>. QED BY <1>5, <2>1, <2>3
<1>11. CASE P < K
  <2>1. ~(i <= p)
    BY <1>1, <1>2, <1>3, <1>9, <1>11
  <2>2. K + 1 # P + 1 /\ K + 1 > P + 1
    BY <1>1, <1>2, <1>11
  <2>3. x[K + 1] = 2^b - 1
    BY <1>2, <1>6, <1>8, <2>2 DEF Ones
  <2>4. ((0 * 2^b + (2^b - 1)) \div 2^m) % 2 = 1
    BY <1>1, <1>8, BitBelow
  <2>5. 0 * 2^b + (2^b - 1) = 2^b - 1
    <3>. DEFINE a == 2^b
    <3>1. a \in Nat
      BY <1>1, Power
    <3>. HIDE DEF a
    <3>2. 0 * a + (a - 1) = a - 1
      BY <3>1
    <3>. QED BY <3>2 DEF a
  <2>6. ((2^b - 1) \div 2^m) % 2 = 1
    BY <2>4, <2>5
  <2>. QED BY <1>5, <2>1, <2>3, <2>6
<1>12. CASE K = P
  <2>. DEFINE v == y[P + 1]
              q == v \div 2^t
  <2>1. v \in 0 .. Ones(b) /\ v \in Nat
    <3>1. v \in 0 .. Ones(b)
      BY <1>4, <1>8, <1>12
    <3>. QED BY <1>1, <3>1, OnesIs
  <2>2. x[K + 1] = Or(v, 2^t - 1)
    <3>1. x[K + 1] = Or(y[K + 1], ByteMask(p))
      BY <1>6, <1>8, <1>12
    <3>. QED BY <1>7, <1>12, <3>1
  <2>. HIDE DEF v
  <2>3. Or(v, 2^t - 1) = q * 2^t + (2^t - 1)
    <3>1. LowBits(v, t, b)
      BY <1>1, <1>7, <2>1, LowBitsAre
    <3>. QED BY <3>1 DEF LowBits, Ones
  <2>4. i <= p <=> t <= m
    <3>1. i <= p <=> r < s
      BY <1>1, <1>2, <1>3, <1>9, <1>12
    <3>. QED BY <1>8, <3>1
  <2>5. BitAt(x, i) = ((q * 2^t + (2^t - 1)) \div 2^m) % 2 /\ BitAt(y, i) = (v \div 2^m) % 2
    BY <1>5, <1>12, <2>2, <2>3 DEF v
  <2>6. CASE t <= m
    <3>1. (q * 2^t + (2^t - 1)) \div 2^m = v \div 2^m
      BY <1>8, <2>1, <2>6, BitAbove
    <3>. QED BY <2>4, <2>5, <2>6, <3>1
  <2>7. CASE ~(t <= m)
    <3>1. q \in Nat /\ m < t
      <4>1. m < t
        BY <1>8, <2>7
      <4>2. 2^t \in Nat \ {0}
        BY <1>8, Power
      <4>3. q \in Nat
        BY <2>1, <4>2, DivMod
      <4>. QED BY <4>1, <4>3
    <3>. HIDE DEF q
    <3>2. ((q * 2^t + (2^t - 1)) \div 2^m) % 2 = 1
      BY <1>8, <3>1, BitBelow
    <3>. QED BY <2>4, <2>5, <2>7, <3>2
  <2>. QED BY <2>6, <2>7
<1>13. K < P \/ P < K \/ K = P
  BY <1>1, <1>2
<1>. QED BY <1>10, <1>11, <1>12, <1>13

\* networkAddress, bit by bit.
LEMMA NetworkBit ==
    ASSUME NEW p \in 0 .. V6Bits, NEW y \in Bytes6All, NEW i \in 1 .. V6Bits
    PROVE  BitAt(Network6(y, p), i) =
              IF i <= (p \div ByteBits) * ByteBits \/ (p < i /\ i <= (p \div ByteBits) * ByteBits + ByteBits)
              THEN BitAt(y, i) ELSE 0
<1>. DEFINE x == Network6(y, p)
            b == ByteBits
            P == p \div b
            s == p % b
            K == (i - 1) \div b
            r == (i - 1) % b
            m == b - 1 - r
            t == b - s
<1>1. /\ b \in Nat \ {0} /\ P \in Nat /\ s \in 0 .. b - 1 /\ p = P * b + s
      /\ ByteOf(p) = P + 1
  BY Sizes, BytePlace
<1>2. /\ K \in Nat /\ r \in 0 .. b - 1 /\ i - 1 = K * b + r /\ K + 1 <= V6Bytes
  <2>. DEFINE h == i - 1
  <2>1. h \in 0 .. V6Bits /\ h < V6Bits
    BY Sizes
  <2>. HIDE DEF h
  <2>2. /\ h \div b \in Nat /\ h % b \in 0 .. b - 1 /\ h = (h \div b) * b + (h % b)
        /\ ByteOf(h) = h \div b + 1 /\ ByteOf(h) <= V6Bytes
    BY <2>1, BytePlace
  <2>3. h \div b + 1 <= V6Bytes
    BY <2>2
  <2>. QED BY <2>2, <2>3 DEF h
<1>3. V6Bytes \in Nat /\ p \in Nat /\ i \in Nat /\ i = (i - 1) + 1
  BY Sizes
<1>4. /\ DOMAIN y = 1 .. V6Bytes + 1 /\ \A k \in 1 .. V6Bytes + 1 : y[k] \in 0 .. Ones(b)
  BY DEF Bytes6All
<1>5. BitAt(x, i) = (x[K + 1] \div 2^m) % 2 /\ BitAt(y, i) = (y[K + 1] \div 2^m) % 2
  BY DEF BitAt
<1>6. \A k \in 1 .. V6Bytes + 1 :
          x[k] = IF k = P + 1 THEN And(y[k], ByteMask(p))
                 ELSE IF k > P + 1 /\ k <= V6Bytes THEN 0 ELSE y[k]
  BY <1>1, <1>4 DEF Network6
<1>7. t \in 0 .. b /\ ByteMask(p) = 2^t - 1
  BY ByteMaskIs
<1>. SUFFICES BitAt(x, i) = IF i <= P * b \/ (p < i /\ i <= P * b + b) THEN BitAt(y, i) ELSE 0
  OBVIOUS
<1>. HIDE DEF b, P, s, K, r, x
<1>8. m \in Nat /\ m < b /\ K + 1 \in 1 .. V6Bytes + 1 /\ (r < s <=> t <= m) /\ t \in Nat
  BY <1>1, <1>2, <1>3, <1>7
<1>9. P * b \in Nat /\ K * b \in Nat /\ (K < P => K * b + b <= P * b) /\ (P < K => P * b + b <= K * b)
  BY <1>1, <1>2, Times
<1>. HIDE DEF m, t
<1>10. CASE K < P
  <2>1. i <= P * b
    BY <1>1, <1>2, <1>3, <1>9, <1>10
  <2>2. K + 1 # P + 1 /\ ~(K + 1 > P + 1)
    BY <1>1, <1>2, <1>10
  <2>3. x[K + 1] = y[K + 1]
    BY <1>6, <1>8, <2>2
  <2>. QED BY <1>5, <2>1, <2>3
<1>11. CASE P < K
  <2>1. ~(i <= P * b) /\ ~(i <= P * b + b)
    BY <1>1, <1>2, <1>3, <1>9, <1>11
  <2>2. K + 1 # P + 1 /\ K + 1 > P + 1
    BY <1>1, <1>2, <1>11
  <2>3. x[K + 1] = 0
    BY <1>2, <1>6, <1>8, <2>2
  <2>4. (0 \div 2^m) % 2 = 0
    <3>. DEFINE a == 2^m
    <3>1. a \in Nat \ {0}
      BY <1>8, Power
    <3>. HIDE DEF a
    <3>2. 0 = 0 * a + 0 /\ 0 \in Nat /\ 0 < a
      BY <3>1
    <3>3. (0 * a + 0) \div a = 0
      BY <3>1, <3>2, DivIs
    <3>4. 0 \div a = 0 /\ 0 % 2 = 0
      BY <3>2, <3>3
    <3>. QED BY <3>4 DEF a
  <2>. QED BY <1>5, <2>1, <2>3, <2>4
<1>12. CASE K = P
  <2>. DEFINE v == y[P + 1]
  <2>1. v \in 0 .. Ones(b) /\ v \in Nat
    <3>1. v \in 0 .. Ones(b)
      BY <1>4, <1>8, <1>12
    <3>. QED BY <1>1, <3>1, OnesIs
  <2>2. x[K + 1] = And(v, 2^t - 1)
    <3>1. x[K + 1] = And(y[K + 1], ByteMask(p))
      BY <1>6, <1>8, <1>12
    <3>. QED BY <1>7, <1>12, <3>1
  <2>. HIDE DEF v
  <2>3. And(v, 2^t - 1) = v % 2^t
    <3>1. LowBits(v, t, b)
      BY <1>1, <1>7, <2>1, LowBitsAre
    <3>. QED BY <3>1 DEF LowBits
  <2>4. ~(i <= P * b) /\ i <= P * b + b /\ (p < i <=> m < t)
    <3>1. ~(i <= P * b) /\ i <= P * b + b /\ (p < i <=> ~(r < s))
      BY <1>1, <1>2, <1>3, <1>9, <1>12
    <3>. QED BY <1>8, <3>1
  <2>5. BitAt(x, i) = ((v % 2^t) \div 2^m) % 2 /\ BitAt(y, i) = (v \div 2^m) % 2
    BY <1>5, <1>12, <2>2, <2>3 DEF v
  <2>6. ((v % 2^t) \div 2^m) % 2 = IF m < t THEN (v \div 2^m) % 2 ELSE 0
    BY <1>8, <2>1, BitAnd
  <2>. QED BY <2>4, <2>5, <2>6
<1>13. K < P \/ P < K \/ K = P
  BY <1>1, <1>2
<1>. QED BY <1>10, <1>11, <1>12, <1>13

\* The byte behind the address.
LEMMA BroadcastEnd ==
    ASSUME NEW p \in 0 .. V6Bits, p < V6Bits, NEW y \in Bytes6All
    PROVE  Broadcast6(y, p)[V6Bytes + 1] = y[V6Bytes + 1]
<1>1. V6Bytes \in Nat /\ ByteOf(p) \in Nat /\ ByteOf(p) <= V6Bytes
  BY Sizes, BytePlace
<1>2. V6Bytes + 1 \in DOMAIN y /\ V6Bytes + 1 # ByteOf(p) /\ ~(V6Bytes + 1 <= V6Bytes)
  BY <1>1 DEF Bytes6All
<1>. QED BY <1>2 DEF Broadcast6

-----------------------------------------------------------------------------
(* Prefix lengths                                                            *)

\* Powers of two that divide v and do not divide it twice are the same.
LEMMA LowestUnique ==
    ASSUME NEW v \in Nat, NEW j \in Nat, NEW k \in Nat, j < k,
           v % (2 * 2^j) # 0
    PROVE  v % 2^k # 0
<1>. DEFINE d == k - j - 1
            a == 2 * 2^j
            c == 2^d
<1>1. d \in Nat /\ (j + 1) + d = k /\ j + 1 \in Nat
  OBVIOUS
<1>. HIDE DEF d
<1>2. 2^k = a * c /\ a \in Nat \ {0} /\ c \in Nat \ {0}
  <2>1. 2^((j + 1) + d) = 2^(j + 1) * 2^d /\ 2^(j + 1) = 2 * 2^j
    BY <1>1, PowerSum, PowerNext
  <2>2. 2^(j + 1) \in Nat \ {0} /\ 2^d \in Nat \ {0}
    BY <1>1, Power
  <2>. QED BY <1>1, <2>1, <2>2
<1>3. v % a # 0
  OBVIOUS
<1>. HIDE DEF a, c
<1>4. DividesTwice(v, a, c)
  BY <1>2, DivTwice
<1>. DEFINE x == v % a
            y == (v \div a) % c
<1>5. x \in Nat /\ y \in Nat /\ x # 0 /\ v % (a * c) = y * a + x
  <2>1. v \div a \in Nat /\ x \in Nat
    BY <1>2, DivMod
  <2>2. y \in Nat
    BY <1>2, <2>1, DivMod
  <2>. QED BY <1>3, <1>4, <2>1, <2>2 DEF DividesTwice
<1>. HIDE DEF x, y
<1>6. y * a \in Nat
  BY <1>2, <1>5, Times
<1>7. v % (a * c) # 0
  BY <1>5, <1>6
<1>. QED BY <1>2, <1>7

\* A netmask, the highest B - j of B bits: its lowest bit is bit j.
LEMMA LowestOfMask ==
    ASSUME NEW B \in 0 .. V6Bits, NEW j \in Nat, j < B
    PROVE  /\ LowestBit(2^B - 2^j) = 2^j
           /\ 2^B - 2^j \in Nat /\ 2^B - 2^j # 0
<1>. DEFINE d == B - j
            a == 2^j
            c == 2^d
            e == 2^(d - 1)
            v == 2^B - 2^j
<1>0. B \in Nat /\ V6Bits \in Nat
  BY Sizes
<1>1. d \in Nat \ {0} /\ j + d = B
  BY <1>0
<1>. HIDE DEF d
<1>2. a \in Nat \ {0} /\ c \in Nat \ {0} /\ 2^B = a * c
  BY <1>0, <1>1, Power, PowerSum
<1>3. e \in Nat \ {0} /\ c = 2 * e
  <2>. DEFINE l == d - 1
  <2>1. l \in Nat /\ l + 1 = d
    BY <1>1
  <2>. HIDE DEF l
  <2>2. 2^(l + 1) = 2 * 2^l /\ 2^l \in Nat \ {0}
    BY <2>1, Power, PowerNext
  <2>. QED BY <2>1, <2>2 DEF l
<1>4. v = a * c - a
  BY <1>2
<1>. HIDE DEF a, c, e, v
<1>5. c - 1 \in Nat /\ v = (c - 1) * a + 0
  BY <1>2, <1>3, <1>4
<1>6. v \in Nat /\ v # 0 /\ v % a = 0
  <2>1. v % a = 0
    BY <1>2, <1>5, DivIs
  <2>2. (c - 1) * a \in Nat
    BY <1>2, <1>5, Times
  <2>3. 0 < c - 1
    BY <1>3
  <2>4. 0 * a + a <= (c - 1) * a /\ 0 * a = 0
    BY <1>2, <1>5, <2>3, Times
  <2>. QED BY <1>2, <1>5, <2>1, <2>2, <2>4
<1>7. v % (2 * a) # 0
  <2>. DEFINE b == 2 * a
              f == e - 1
  <2>1. b \in Nat \ {0} /\ a < b /\ f \in Nat
    BY <1>2, <1>3
  <2>2. v = f * b + a
    <3>1. a * (2 * e) = 2 * (e * a) /\ e * a \in Nat
      BY <1>2, <1>3
    <3>2. (e - 1) * (2 * a) = 2 * (e * a) - 2 * a
      BY <1>2, <1>3
    <3>. QED BY <1>2, <1>3, <1>4, <3>1, <3>2
  <2>. HIDE DEF b, f
  <2>3. (f * b + a) % b = a
    BY <1>2, <2>1, DivIs
  <2>4. v % b # 0
    BY <1>2, <2>2, <2>3
  <2>. QED BY <2>4 DEF b
<1>. DEFINE Q(b) == v % b = 0 /\ v % (2 * b) # 0
            T == {2^k : k \in 0 .. V6Bits}
<1>8. a \in T /\ Q(a)
  <2>1. j \in 0 .. V6Bits
    BY <1>0
  <2>2. a \in T
    BY <2>1 DEF a
  <2>. QED BY <1>6, <1>7, <2>2
<1>9. ASSUME NEW b \in T, Q(b) PROVE b = a
  <2>1. PICK k \in 0 .. V6Bits : b = 2^k
    BY <1>9
  <2>2. k \in Nat
    BY <1>0
  <2>3. ~(j < k)
    BY <1>6, <1>7, <1>9, <2>1, <2>2, LowestUnique DEF a
  <2>4. ~(k < j)
    BY <1>6, <1>9, <2>1, <2>2, LowestUnique DEF a
  <2>5. k = j
    BY <2>2, <2>3, <2>4
  <2>. QED BY <2>1, <2>5 DEF a
<1>10. LowestBit(v) = CHOOSE b \in T : Q(b)
  BY DEF LowestBit
<1>. HIDE DEF Q, T
<1>11. LowestBit(v) = a
  BY <1>8, <1>9, <1>10
<1>. QED BY <1>6, <1>11 DEF v, a

\* Clearing its lowest bit makes a netmask one bit shorter.
LEMMA ClearOfMask ==
    ASSUME NEW B \in 0 .. V6Bits, NEW j \in Nat, j < B
    PROVE  ClearLowest(2^B - 2^j) = 2^B - 2^(j + 1)
<1>. DEFINE a == 2^j
            b == 2^B
<1>0. B \in Nat
  BY Sizes
<1>1. a \in Nat /\ b \in Nat /\ 2^(j + 1) = 2 * a
  BY <1>0, Power, PowerNext
<1>2. LowestBit(b - a) = a /\ b - a # 0
  BY LowestOfMask
<1>. HIDE DEF a, b
<1>3. (b - a) - a = b - 2 * a
  BY <1>1
<1>4. ClearLowest(b - a) = b - 2 * a
  BY <1>2, <1>3 DEF ClearLowest
<1>. QED BY <1>1, <1>4 DEF a, b

\* CountBytes counts the bits of a netmask of p of B bits.
LEMMA CountMask ==
    ASSUME NEW B \in 0 .. V6Bits, NEW p \in 0 .. B
    PROVE  CountBytes(2^B - 2^(B - p)) = p
<1>. DEFINE N == V6Bits
            v == 2^B - 2^(B - p)
            e(k) == (B - p) + k
            M == [k \in 0 .. N |-> IF k <= p THEN 2^B - 2^e(k) ELSE 0]
            Goes(g) == g = [k \in 0 .. N |-> IF k = 0 THEN v ELSE ClearLowest(g[k - 1])]
            Stops(g, k) == g[k] = 0 /\ \A j \in 0 .. k - 1 : g[j] # 0
            h == CHOOSE x : Goes(x)
<1>0. N \in Nat /\ B \in Nat /\ B <= N /\ p \in Nat /\ p <= B
  BY Sizes
<1>1. \A k \in Nat : e(k) \in Nat /\ (k < p => e(k) < B) /\ e(k + 1) = e(k) + 1 /\ e(0) = B - p /\ e(p) = B
  BY <1>0
<1>2. CountBytes(v) = CHOOSE k \in 0 .. N : Stops(h, k)
  BY DEF CountBytes
<1>. HIDE DEF e, N
<1>3. \A k \in 0 .. N : k < p => ClearLowest(2^B - 2^e(k)) = 2^B - 2^e(k + 1) /\ 2^B - 2^e(k) # 0
  <2>. SUFFICES ASSUME NEW k \in 0 .. N, k < p
                PROVE  ClearLowest(2^B - 2^e(k)) = 2^B - 2^e(k + 1) /\ 2^B - 2^e(k) # 0
    OBVIOUS
  <2>. DEFINE j == e(k)
  <2>1. j \in Nat /\ j < B /\ e(k + 1) = j + 1
    BY <1>0, <1>1
  <2>. HIDE DEF j
  <2>2. ClearLowest(2^B - 2^j) = 2^B - 2^(j + 1) /\ 2^B - 2^j # 0
    BY <2>1, ClearOfMask, LowestOfMask
  <2>. QED BY <2>1, <2>2 DEF j
<1>4. 2^B - 2^e(p) = 0
  <2>1. 2^B \in Nat /\ e(p) = B
    BY <1>0, <1>1, Power
  <2>. QED BY <2>1
<1>5. ClearLowest(0) = 0
  BY DEF ClearLowest
<1>6. /\ M[0] = v /\ M[p] = 0 /\ \A k \in 0 .. N : k < p => M[k] # 0
      /\ DOMAIN M = 0 .. N
  <2>1. 0 \in 0 .. N /\ 0 <= p /\ p \in 0 .. N /\ p <= p /\ e(0) = B - p
    BY <1>0, <1>1
  <2>2. \A k \in 0 .. N : k < p => k <= p
    BY <1>0
  <2>. QED BY <1>3, <1>4, <2>1, <2>2
<1>7. ASSUME NEW k \in 1 .. N PROVE M[k] = ClearLowest(M[k - 1])
  <2>. DEFINE i == k - 1
  <2>1. i \in 0 .. N /\ i \in Nat /\ i + 1 = k /\ k \in 0 .. N /\ k \in Nat
    BY <1>0
  <2>. HIDE DEF i
  <2>2. CASE i < p
    <3>1. i <= p /\ k <= p
      BY <1>0, <2>1, <2>2
    <3>2. M[i] = 2^B - 2^e(i) /\ M[k] = 2^B - 2^e(k)
      BY <2>1, <3>1
    <3>3. ClearLowest(2^B - 2^e(i)) = 2^B - 2^e(k)
      BY <1>3, <2>1, <2>2
    <3>. QED BY <3>2, <3>3 DEF i
  <2>3. CASE ~(i < p)
    <3>1. ~(k <= p) /\ (i = p \/ ~(i <= p))
      BY <1>0, <2>1, <2>3
    <3>2. M[i] = 0 /\ M[k] = 0
      BY <1>4, <2>1, <3>1
    <3>. QED BY <1>5, <3>2 DEF i
  <2>. QED BY <2>2, <2>3
<1>. HIDE DEF M, v
<1>8. Goes(M)
  <2>1. M = [k \in 0 .. N |-> M[k]]
    BY <1>6 DEF M
  <2>2. \A k \in 0 .. N : M[k] = IF k = 0 THEN v ELSE ClearLowest(M[k - 1])
    BY <1>0, <1>6, <1>7
  <2>. QED BY <2>1, <2>2
<1>9. Goes(h)
  BY <1>8
<1>. HIDE DEF h
<1>10. h[0] = M[0] /\ \A k \in 1 .. N : h[k] = ClearLowest(h[k - 1])
  BY <1>0, <1>6, <1>9
<1>11. \A k \in 0 .. N : h[k] = M[k]
  <2>. DEFINE D == [k \in 0 .. N |-> {M[k]}]
  <2>1. h[0] \in D[0]
    BY <1>0, <1>10
  <2>2. ASSUME NEW k \in 1 .. N, h[k - 1] \in D[k - 1] PROVE h[k] \in D[k]
    <3>1. k - 1 \in 0 .. N /\ k \in 0 .. N
      BY <1>0
    <3>. QED BY <1>7, <1>10, <2>2, <3>1
  <2>3. \A k \in 0 .. N : D[k] = {M[k]}
    OBVIOUS
  <2>. HIDE DEF D
  <2>4. \A k \in 0 .. N : h[k] \in D[k]
    BY <1>0, <2>1, <2>2, RoundByRound
  <2>. QED BY <2>3, <2>4
<1>12. p \in 0 .. N /\ Stops(h, p)
  <2>1. p \in 0 .. N /\ \A j \in 0 .. p - 1 : j \in 0 .. N /\ j < p
    BY <1>0
  <2>. QED BY <1>6, <1>11, <2>1
<1>13. ASSUME NEW k \in 0 .. N, Stops(h, k) PROVE k = p
  <2>1. ~(k < p)
    BY <1>6, <1>11, <1>13
  <2>2. p < k => p \in 0 .. k - 1
    BY <1>0
  <2>3. ~(p < k)
    BY <1>12, <1>13, <2>2
  <2>. QED BY <1>0, <2>1, <2>3
<1>. HIDE DEF Stops
<1>14. CountBytes(v) = p
  BY <1>2, <1>12, <1>13
<1>. QED BY <1>14 DEF v

\* The bits of each byte of an IPv6 netmask.
LEMMA CountsOfBytes ==
    ASSUME NEW p \in 0 .. V6Bits, NEW i \in 1 .. V6Bytes + 1
    PROVE  LET P == p \div ByteBits IN
           CountBytes(Subnet6(p)[i]) = IF i <= P THEN ByteBits ELSE IF i = P + 1 THEN p % ByteBits ELSE 0
<1>. DEFINE b == ByteBits
            P == p \div b
            s == p % b
            j == b - s
<1>1. /\ b \in Nat \ {0} /\ P \in Nat /\ s \in 0 .. b - 1 /\ ByteOf(p) = P + 1
      /\ V6Bytes \in Nat \ {0} /\ b <= V6Bits /\ V6Bits \in Nat
  <2>1. V6Bytes \in Nat \ {0} /\ b \in Nat \ {0} /\ V6Bits \in Nat
    BY Sizes
  <2>2. 0 < V6Bytes => 0 * b + b <= V6Bytes * b
    BY <2>1, Times
  <2>3. b <= V6Bits
    BY <2>1, <2>2 DEF V6Bits
  <2>4. P \in Nat /\ s \in 0 .. b - 1 /\ ByteOf(p) = P + 1
    BY BytePlace
  <2>. HIDE DEF b, P, s
  <2>. QED BY <2>1, <2>3, <2>4
<1>2. ByteMask(p) = 2^j - 1
  BY ByteMaskIs
<1>3. Subnet6(p)[i] = IF i = P + 1 THEN Complement(ByteMask(p), b)
                      ELSE IF i < P + 1 THEN Ones(b) ELSE 0
  BY <1>1 DEF Subnet6
<1>. SUFFICES CountBytes(Subnet6(p)[i]) = IF i <= P THEN b ELSE IF i = P + 1 THEN s ELSE 0
  OBVIOUS
<1>. HIDE DEF b, P, s
<1>4. b \in 0 .. V6Bits /\ s \in 0 .. b /\ b \in 0 .. b /\ 0 \in 0 .. b /\ b - b = 0 /\ b - 0 = b /\ j \in 0 .. b
  BY <1>1
<1>. HIDE DEF j
<1>5. CASE i = P + 1
  <2>1. 0 \in 0 .. Ones(b)
    BY <1>1, OnesIs
  <2>2. LowBits(0, j, b)
    BY <1>1, <1>4, <2>1, LowBitsAre
  <2>3. Complement(ByteMask(p), b) = 2^b - 2^j
    BY <1>2, <2>2 DEF LowBits
  <2>4. CountBytes(2^b - 2^(b - s)) = s
    BY <1>4, CountMask
  <2>5. ~(i <= P)
    BY <1>1, <1>5
  <2>. QED BY <1>3, <1>5, <2>3, <2>4, <2>5 DEF j
<1>6. CASE i <= P
  <2>1. CountBytes(2^b - 2^(b - b)) = b
    BY <1>4, CountMask
  <2>2. i # P + 1 /\ i < P + 1
    BY <1>1, <1>6
  <2>3. Ones(b) = 2^b - 2^(b - b)
    BY <1>4, PowerZero DEF Ones
  <2>. QED BY <1>3, <1>6, <2>1, <2>2, <2>3
<1>7. CASE ~(i <= P) /\ i # P + 1
  <2>1. CountBytes(2^b - 2^(b - 0)) = 0
    BY <1>4, CountMask
  <2>2. ~(i < P + 1)
    BY <1>1, <1>7
  <2>3. 2^b - 2^(b - 0) = 0
    <3>1. 2^b \in Nat
      BY <1>1, Power
    <3>. QED BY <1>4, <3>1
  <2>. QED BY <1>3, <1>7, <2>1, <2>2, <2>3
<1>. QED BY <1>5, <1>6, <1>7

LEMMA PrefixCounted ==
    ASSUME NEW p \in 0 .. V6Bits
    PROVE  PrefixLength6(Subnet6(p)) = p
<1>. DEFINE b == ByteBits
            n == V6Bytes
            P == p \div b
            s == p % b
            c(i) == CountBytes(Subnet6(p)[i])
            M == [i \in 0 .. n |-> IF i <= P THEN i * b ELSE p]
            Goes(g) == g = [i \in 0 .. n |-> IF i = 0 THEN 0 ELSE g[i - 1] + c(i)]
            h == CHOOSE x : Goes(x)
<1>1. /\ b \in Nat \ {0} /\ P \in Nat /\ s \in 0 .. b - 1 /\ p = P * b + s
      /\ n \in Nat \ {0} /\ p \in Nat /\ p <= n * b /\ P + 1 \in 1 .. n + 1
  <2>1. b \in Nat \ {0} /\ n \in Nat \ {0} /\ V6Bits \in Nat /\ V6Bits = n * b
    BY Sizes DEF V6Bits
  <2>2. P \in Nat /\ s \in 0 .. b - 1 /\ p = P * b + s /\ P + 1 \in 1 .. n + 1
    BY BytePlace
  <2>. HIDE DEF b, P, s, n
  <2>. QED BY <2>1, <2>2
<1>2. \A i \in 1 .. n + 1 : c(i) = IF i <= P THEN b ELSE IF i = P + 1 THEN s ELSE 0
  BY CountsOfBytes
<1>3. PrefixLength6(Subnet6(p)) = h[n]
  BY DEF PrefixLength6
<1>. HIDE DEF b, n, P, s, c
<1>4. P <= n
  BY <1>1
<1>5. DOMAIN M = 0 .. n /\ M[0] = 0 /\ M[n] = p
  <2>1. 0 \in 0 .. n /\ 0 <= P /\ n \in 0 .. n /\ 0 * b = 0
    BY <1>1
  <2>2. CASE n <= P
    <3>1. n = P
      BY <1>1, <1>4, <2>2
    <3>2. n * b \in Nat
      BY <1>1, Times
    <3>3. n * b = p
      BY <1>1, <3>1, <3>2
    <3>. QED BY <2>1, <2>2, <3>3
  <2>3. CASE ~(n <= P)
    BY <2>1, <2>3
  <2>. QED BY <2>2, <2>3
<1>6. ASSUME NEW i \in 1 .. n PROVE M[i] = M[i - 1] + c(i)
  <2>. DEFINE k == i - 1
  <2>1. k \in 0 .. n /\ k \in Nat /\ i = k + 1 /\ i \in 0 .. n /\ i \in 1 .. n + 1 /\ i \in Nat
    BY <1>1
  <2>. HIDE DEF k
  <2>2. CASE i <= P
    <3>1. k <= P
      BY <1>1, <2>1, <2>2
    <3>2. (k + 1) * b = k * b + b
      BY <1>1, <2>1, Times
    <3>3. M[i] = i * b /\ M[k] = k * b /\ c(i) = b
      BY <1>2, <2>1, <2>2, <3>1
    <3>4. M[i] = M[k] + c(i)
      BY <2>1, <3>2, <3>3
    <3>. QED BY <3>4 DEF k
  <2>3. CASE i = P + 1
    <3>1. ~(i <= P) /\ k = P /\ k <= P
      BY <1>1, <2>1, <2>3
    <3>2. M[i] = p /\ M[k] = P * b /\ c(i) = s
      BY <1>2, <2>1, <2>3, <3>1
    <3>3. M[i] = M[k] + c(i)
      BY <1>1, <3>2
    <3>. QED BY <3>3 DEF k
  <2>4. CASE ~(i <= P) /\ i # P + 1
    <3>1. ~(k <= P)
      BY <1>1, <2>1, <2>4
    <3>2. M[i] = p /\ M[k] = p /\ c(i) = 0
      BY <1>2, <2>1, <2>4, <3>1
    <3>3. M[i] = M[k] + c(i)
      BY <1>1, <3>2
    <3>. QED BY <3>3 DEF k
  <2>. QED BY <2>2, <2>3, <2>4
<1>7. M = [i \in 0 .. n |-> M[i]]
  OBVIOUS
<1>. HIDE DEF M
<1>8. Goes(M)
  <2>1. \A i \in 0 .. n : M[i] = IF i = 0 THEN 0 ELSE M[i - 1] + c(i)
    BY <1>1, <1>5, <1>6
  <2>. QED BY <1>7, <2>1
<1>9. Goes(h)
  BY <1>8
<1>. HIDE DEF h
<1>10. h[0] = M[0] /\ \A i \in 1 .. n : h[i] = h[i - 1] + c(i)
  BY <1>1, <1>5, <1>9
<1>11. \A i \in 0 .. n : h[i] = M[i]
  <2>. DEFINE D == [i \in 0 .. n |-> {M[i]}]
  <2>1. h[0] \in D[0]
    BY <1>1, <1>10
  <2>2. ASSUME NEW i \in 1 .. n, h[i - 1] \in D[i - 1] PROVE h[i] \in D[i]
    <3>1. i - 1 \in 0 .. n /\ i \in 0 .. n
      BY <1>1
    <3>. QED BY <1>6, <1>10, <2>2, <3>1
  <2>3. \A i \in 0 .. n : D[i] = {M[i]}
    OBVIOUS
  <2>. HIDE DEF D
  <2>4. \A i \in 0 .. n : h[i] \in D[i]
    BY <1>1, <2>1, <2>2, RoundByRound
  <2>. QED BY <2>3, <2>4
<1>. QED BY <1>1, <1>3, <1>5, <1>11

-----------------------------------------------------------------------------
(* Lookup                                                                    *)

\* A part of a sequence.
LEMMA PartOf ==
    ASSUME NEW S, NEW s \in Seq(S), NEW m \in Nat \ {0}, NEW n \in Nat, n <= Len(s)
    PROVE  /\ SubSeq(s, m, n) \in Seq(S)
           /\ m <= n => Len(SubSeq(s, m, n)) = n - m + 1
           /\ n < m => Len(SubSeq(s, m, n)) = 0
           /\ \A i \in 1 .. n - m + 1 : SubSeq(s, m, n)[i] = s[m + i - 1]
<1>1. \A i \in m .. n : s[i] \in S
  OBVIOUS
<1>2. m \in Int /\ n \in Int
  OBVIOUS
<1>3. /\ SubSeq(s, m, n) \in Seq(S)
      /\ Len(SubSeq(s, m, n)) = IF m <= n THEN n - m + 1 ELSE 0
      /\ \A i \in 1 .. n - m + 1 : SubSeq(s, m, n)[i] = s[m + i - 1]
  BY <1>1, <1>2, SubSeqProperties
<1>. QED BY <1>3

Closing(h) == IF h # <<>> /\ h[1] = "[" THEN FirstIndex(h, "]", 2) ELSE 0

\* No bracket in front: the node ends at the first colon, or with the text.
LEMMA LookupOpen ==
    ASSUME NEW S, NEW h \in Seq(S), h # <<>>, h[1] # "["
    PROVE  LET colon == FirstIndex(h, ":", 1) IN
           /\ colon = 0 => Lookup(h) = [node |-> h, service |-> None]
           /\ colon > 1 => Lookup(h) = [node |-> SubSeq(h, 1, colon - 1),
                                        service |-> SubSeq(h, colon + 1, Len(h))]
<1>. DEFINE colon == FirstIndex(h, ":", 1)
<1>1. Closing(h) = 0 /\ ~(0 > 2)
  BY DEF Closing
<1>2. Lookup(h) = [node |-> IF colon > 1 THEN SubSeq(h, 1, colon - 1) ELSE h,
                   service |-> IF colon > 0 THEN SubSeq(h, colon + 1, Len(h)) ELSE None]
  BY <1>1 DEF Lookup, Closing
<1>3. colon \in Nat
  BY First
<1>. HIDE DEF colon
<1>4. (colon = 0 => ~(colon > 1) /\ ~(colon > 0)) /\ (colon > 1 => colon > 0)
  BY <1>3
<1>5. /\ colon = 0 => Lookup(h) = [node |-> h, service |-> None]
      /\ colon > 1 => Lookup(h) = [node |-> SubSeq(h, 1, colon - 1),
                                   service |-> SubSeq(h, colon + 1, Len(h))]
  BY <1>2, <1>4
<1>. QED BY <1>5 DEF colon

LEMMA LookupClosed ==
    ASSUME NEW S, NEW h \in Seq(S), h # <<>>, h[1] = "[",
           NEW n \in 3 .. Len(h), h[n] = "]", \A i \in 2 .. n - 1 : h[i] # "]"
    PROVE  /\ n = Len(h) => Lookup(h) = [node |-> SubSeq(h, 2, n - 1), service |-> None]
           /\ n < Len(h) /\ h[n + 1] = ":" =>
                 Lookup(h) = [node |-> SubSeq(h, 2, n - 1), service |-> SubSeq(h, n + 2, Len(h))]
<1>1. n \in 2 .. Len(h) /\ n > 2 /\ Len(h) \in Nat /\ n + 1 + 1 = n + 2
  OBVIOUS
<1>2. FirstIndex(h, "]", 2) = n
  BY <1>1, FirstIs
<1>3. Closing(h) = n
  BY <1>2 DEF Closing
<1>4. Lookup(h) = [node |-> SubSeq(h, 2, n - 1),
                   service |-> IF n < Len(h) /\ h[n + 1] = ":" THEN SubSeq(h, n + 1 + 1, Len(h)) ELSE None]
  BY <1>1, <1>3 DEF Lookup, Closing
<1>5. n = Len(h) => ~(n < Len(h))
  BY <1>1
<1>. QED BY <1>1, <1>4, <1>5

LEMMA TakenApart ==
    ASSUME NEW S, addr.kind = "host" => addr.host \in Seq(S)
    PROVE  HostTakenApart
<1>. SUFFICES ASSUME addr.kind = "host" PROVE HostTakenApart
  BY DEF HostTakenApart
<1>. DEFINE h == addr.host
            L == Len(h)
            r == Lookup(h)
            Plain(s) == s # <<>> /\ \A i \in DOMAIN s : s[i] = "x"
            Word(s) == s # <<>> /\ \A i \in DOMAIN s : s[i] # "]"
            A(n) == SubSeq(h, 1, n)
            B(n) == SubSeq(h, n + 2, Len(h))
            In(n) == SubSeq(A(n), 2, n - 1)
            Named(n) == n < Len(h) /\ h[n + 1] = ":"
<1>0. h \in Seq(S) /\ L \in Nat /\ DOMAIN h = 1 .. L
  OBVIOUS
<1>. SUFFICES ASSUME NEW n \in 0 .. L
              PROVE  /\ Plain(h) => r = [node |-> h, service |-> None]
                     /\ Named(n) /\ Plain(A(n)) => r = [node |-> A(n), service |-> B(n)]
                     /\ n > 2 /\ A(n)[1] = "[" /\ A(n)[n] = "]" /\ Word(In(n)) =>
                           /\ Named(n) => r = [node |-> In(n), service |-> B(n)]
                           /\ n = Len(h) => r = [node |-> In(n), service |-> None]
  BY DEF HostTakenApart
<1>. HIDE DEF h
<1>1. n \in Nat /\ n <= L
  BY <1>0
<1>2. /\ A(n) \in Seq(S) /\ (0 < n => Len(A(n)) = n) /\ (n = 0 => Len(A(n)) = 0)
      /\ \A i \in 1 .. n : A(n)[i] = h[i]
  <2>1. /\ A(n) \in Seq(S) /\ (1 <= n => Len(A(n)) = n - 1 + 1) /\ (n < 1 => Len(A(n)) = 0)
        /\ \A i \in 1 .. n - 1 + 1 : A(n)[i] = h[1 + i - 1]
    BY <1>0, <1>1, PartOf
  <2>. HIDE DEF A
  <2>2. \A i \in 1 .. n : A(n)[i] = h[i]
    <3>1. \A i \in 1 .. n : i \in 1 .. n - 1 + 1 /\ 1 + i - 1 = i
      BY <1>1
    <3>. QED BY <2>1, <3>1
  <2>. QED BY <1>1, <2>1, <2>2
<1>3. ASSUME Plain(h) PROVE r = [node |-> h, service |-> None]
  <2>1. h # <<>> /\ \A i \in 1 .. L : h[i] = "x"
    BY <1>0, <1>3
  <2>2. 1 \in 1 .. L
    BY <1>0, <2>1
  <2>3. h[1] # "["
    BY <2>1, <2>2
  <2>. DEFINE c == FirstIndex(h, ":", 1)
  <2>4. c # 0 => c \in 1 .. L /\ h[c] = ":"
    BY <1>0, First
  <2>5. c = 0
    BY <2>1, <2>4
  <2>. QED BY <1>0, <2>1, <2>3, <2>5, LookupOpen
<1>4. ASSUME Named(n), Plain(A(n)) PROVE r = [node |-> A(n), service |-> B(n)]
  <2>1. n # 0
    BY <1>2, <1>4
  <2>2. DOMAIN A(n) = 1 .. n
    BY <1>1, <1>2, <2>1
  <2>3. \A i \in 1 .. n : h[i] = "x"
    BY <1>2, <1>4, <2>2
  <2>4. 1 \in 1 .. n /\ n + 1 \in 1 .. L /\ n + 1 > 1 /\ n + 1 - 1 = n /\ n + 1 + 1 = n + 2 /\ L # 0
    BY <1>0, <1>1, <1>4, <2>1
  <2>5. h # <<>> /\ h[1] # "[" /\ h[n + 1] = ":"
    BY <1>4, <2>3, <2>4
  <2>6. \A i \in 1 .. n + 1 - 1 : h[i] # ":"
    BY <2>3, <2>4
  <2>7. FirstIndex(h, ":", 1) = n + 1
    BY <1>0, <2>4, <2>5, <2>6, FirstIs
  <2>8. r = [node |-> SubSeq(h, 1, n + 1 - 1), service |-> SubSeq(h, n + 1 + 1, Len(h))]
    <3>. DEFINE c == FirstIndex(h, ":", 1)
    <3>1. c > 1 => Lookup(h) = [node |-> SubSeq(h, 1, c - 1), service |-> SubSeq(h, c + 1, Len(h))]
      BY <1>0, <2>5, LookupOpen
    <3>2. c = n + 1
      BY <2>7
    <3>. HIDE DEF c
    <3>. QED BY <2>4, <3>1, <3>2
  <2>. QED BY <2>4, <2>8
<1>5. ASSUME n > 2, A(n)[1] = "[", A(n)[n] = "]", Word(In(n))
      PROVE  /\ Named(n) => r = [node |-> In(n), service |-> B(n)]
             /\ n = Len(h) => r = [node |-> In(n), service |-> None]
  <2>1. n \in 3 .. L /\ 1 \in 1 .. n /\ n \in 1 .. n /\ n - 1 \in Nat /\ n - 1 <= n /\ 2 <= n - 1 /\ L # 0
    BY <1>0, <1>1, <1>5
  <2>2. h # <<>> /\ h[1] = "[" /\ h[n] = "]" /\ Len(A(n)) = n
    BY <1>1, <1>2, <1>5, <2>1
  <2>3. /\ In(n) \in Seq(S) /\ Len(In(n)) = n - 2
        /\ \A i \in 1 .. n - 2 : In(n)[i] = h[i + 1]
    <3>1. /\ In(n) \in Seq(S) /\ Len(In(n)) = n - 1 - 2 + 1
          /\ \A i \in 1 .. n - 1 - 2 + 1 : In(n)[i] = A(n)[2 + i - 1]
      <4>. HIDE DEF A
      <4>. QED BY <1>2, <2>1, <2>2, PartOf
    <3>. HIDE DEF In, A
    <3>2. n - 1 - 2 + 1 = n - 2 /\ \A i \in 1 .. n - 2 : 2 + i - 1 = i + 1 /\ i + 1 \in 1 .. n
      BY <1>1
    <3>. QED BY <1>2, <3>1, <3>2
  <2>4. /\ SubSeq(h, 2, n - 1) \in Seq(S) /\ Len(SubSeq(h, 2, n - 1)) = n - 2
        /\ \A i \in 1 .. n - 2 : SubSeq(h, 2, n - 1)[i] = h[i + 1]
    <3>. DEFINE T == SubSeq(h, 2, n - 1)
    <3>0. n - 1 <= L
      BY <1>0, <1>1
    <3>1. /\ T \in Seq(S) /\ Len(T) = n - 1 - 2 + 1
          /\ \A i \in 1 .. n - 1 - 2 + 1 : T[i] = h[2 + i - 1]
      BY <1>0, <2>1, <3>0, PartOf
    <3>. HIDE DEF T
    <3>2. n - 1 - 2 + 1 = n - 2 /\ \A i \in 1 .. n - 2 : 2 + i - 1 = i + 1
      BY <1>1
    <3>3. T \in Seq(S) /\ Len(T) = n - 2 /\ \A i \in 1 .. n - 2 : T[i] = h[i + 1]
      BY <3>1, <3>2
    <3>. QED BY <3>3 DEF T
  <2>. HIDE DEF In
  <2>5. In(n) = SubSeq(h, 2, n - 1)
    <3>. DEFINE T == SubSeq(h, 2, n - 1)
    <3>. HIDE DEF T
    <3>1. T \in Seq(S) /\ Len(T) = Len(In(n)) /\ \A i \in 1 .. Len(In(n)) : In(n)[i] = T[i]
      BY <2>3, <2>4 DEF T
    <3>2. In(n) = T
      BY <2>3, <3>1, SeqEqual
    <3>. QED BY <3>2 DEF T
  <2>6. ASSUME NEW i \in 2 .. n - 1 PROVE h[i] # "]"
    <3>1. i - 1 \in 1 .. n - 2 /\ (i - 1) + 1 = i /\ DOMAIN In(n) = 1 .. n - 2
      BY <1>1, <2>3
    <3>2. In(n)[i - 1] = h[i] /\ In(n)[i - 1] # "]"
      BY <1>5, <2>3, <3>1
    <3>. QED BY <3>2
  <2>7. /\ n = Len(h) => r = [node |-> SubSeq(h, 2, n - 1), service |-> None]
        /\ n < Len(h) /\ h[n + 1] = ":" =>
              r = [node |-> SubSeq(h, 2, n - 1), service |-> SubSeq(h, n + 2, Len(h))]
    BY <1>0, <2>1, <2>2, <2>6, LookupClosed
  <2>. QED BY <2>5, <2>7
<1>. HIDE DEF Plain, Word, A, B, In, Named, r
<1>. QED BY <1>3, <1>4, <1>5

-----------------------------------------------------------------------------
(* UnixAddress                                                               *)

PathBytes == 0 .. Ones(ByteBits)

LEMMA PathBytesAre ==
    PathBytes \subseteq Nat /\ 0 \in PathBytes
  BY Sizes, OnesIs DEF PathBytes

\* The first zero of a text that one follows.
FirstZero(s) == FirstIndex(s \o <<0>>, 0, 1)

LEMMA WithZero ==
    ASSUME NEW s \in Seq(PathBytes)
    PROVE  /\ s \o <<0>> \in Seq(PathBytes) /\ Len(s \o <<0>>) = Len(s) + 1
           /\ \A i \in 1 .. Len(s) : (s \o <<0>>)[i] = s[i]
           /\ (s \o <<0>>)[Len(s) + 1] = 0
<1>1. <<0>> \in Seq(PathBytes) /\ Len(<<0>>) = 1 /\ <<0>>[1] = 0 /\ Len(s) \in Nat
  BY PathBytesAre
<1>. DEFINE L == Len(s)
            t == s \o <<0>>
<1>2. /\ t \in Seq(PathBytes) /\ Len(t) = L + 1
      /\ \A i \in 1 .. L + 1 : t[i] = IF i <= L THEN s[i] ELSE <<0>>[i - L]
  BY <1>1, ConcatProperties
<1>. HIDE DEF t
<1>3. \A i \in 1 .. L : i \in 1 .. L + 1 /\ i <= L
  BY <1>1
<1>4. L + 1 \in 1 .. L + 1 /\ ~(L + 1 <= L) /\ L + 1 - L = 1
  BY <1>1
<1>5. (\A i \in 1 .. L : t[i] = s[i]) /\ t[L + 1] = 0
  BY <1>1, <1>2, <1>3, <1>4
<1>. QED BY <1>2, <1>5 DEF t

LEMMA FirstZeroIs ==
    ASSUME NEW s \in Seq(PathBytes)
    PROVE  LET f == FirstZero(s) IN
           /\ f \in 1 .. Len(s) + 1
           /\ \A i \in 1 .. f - 1 : s[i] # 0
           /\ f <= Len(s) => s[f] = 0
<1>. DEFINE t == s \o <<0>>
            f == FirstZero(s)
            L == Len(s)
<1>1. t \in Seq(PathBytes) /\ Len(t) = L + 1 /\ (\A i \in 1 .. L : t[i] = s[i]) /\ t[L + 1] = 0 /\ L \in Nat
  BY WithZero
<1>2. /\ f \in Nat
      /\ f = 0 => \A k \in 1 .. Len(t) : t[k] # 0
      /\ f # 0 => f \in 1 .. Len(t) /\ t[f] = 0 /\ \A k \in 1 .. f - 1 : t[k] # 0
  <2>1. t \in Seq(PathBytes) /\ 1 \in Nat \ {0}
    BY <1>1
  <2>. QED BY <2>1, First DEF FirstZero
<1>. HIDE DEF t, f, L
<1>3. f # 0
  BY <1>1, <1>2
<1>4. f \in 1 .. L + 1
  BY <1>1, <1>2, <1>3
<1>5. \A i \in 1 .. f - 1 : i \in 1 .. L
  BY <1>1, <1>4
<1>6. \A i \in 1 .. f - 1 : s[i] # 0
  BY <1>1, <1>2, <1>3, <1>5
<1>7. f <= L => s[f] = 0
  <2>1. f <= L => f \in 1 .. L
    BY <1>1, <1>4
  <2>. QED BY <1>1, <1>2, <1>3, <2>1
<1>. QED BY <1>4, <1>6, <1>7 DEF f, L

LEMMA FirstZeroAt ==
    ASSUME NEW s \in Seq(PathBytes), NEW f \in 1 .. Len(s) + 1,
           \A i \in 1 .. f - 1 : s[i] # 0, f <= Len(s) => s[f] = 0
    PROVE  FirstZero(s) = f
<1>. DEFINE g == FirstZero(s)
            L == Len(s)
<1>1. g \in 1 .. L + 1 /\ (\A i \in 1 .. g - 1 : s[i] # 0) /\ (g <= L => s[g] = 0) /\ L \in Nat
  BY FirstZeroIs
<1>. HIDE DEF g
<1>2. ~(g < f)
  <2>1. g < f => g \in 1 .. f - 1 /\ g <= L
    BY <1>1
  <2>. QED BY <1>1, <2>1
<1>3. ~(f < g)
  <2>1. f < g => f \in 1 .. g - 1 /\ f <= L
    BY <1>1
  <2>. QED BY <1>1, <2>1
<1>4. g = f
  BY <1>1, <1>2, <1>3
<1>. QED BY <1>4 DEF g

\* What getPath returns is a part of sun_path.
LEMMA GetPathIs ==
    ASSUME NEW mem \in [1 .. PathSize -> PathBytes], NEW n \in 0 .. PathSize
    PROVE  /\ mem \in Seq(PathBytes) /\ Len(mem) = PathSize
           /\ GetPath(mem, n) \in Seq(PathBytes)
           /\ ~(n > 0 /\ mem[1] = 0) => GetPath(mem, n) = SubSeq(mem, 1, FirstZero(mem) - 1)
           /\ n > 0 /\ mem[1] = 0 => GetPath(mem, n) = SubSeq(mem, 1, n)
<1>1. PathSize \in Nat
  BY Sizes
<1>2. mem \in Seq(PathBytes) /\ Len(mem) = PathSize
  BY <1>1
<1>3. /\ ~(n > 0 /\ mem[1] = 0) => GetPath(mem, n) = SubSeq(mem, 1, FirstZero(mem) - 1)
      /\ n > 0 /\ mem[1] = 0 => GetPath(mem, n) = SubSeq(mem, 1, n)
  BY DEF GetPath, FirstZero
<1>. DEFINE f == FirstZero(mem)
<1>4. f \in 1 .. PathSize + 1
  BY <1>2, FirstZeroIs
<1>. HIDE DEF f
<1>5. f - 1 \in Nat /\ f - 1 <= Len(mem) /\ n \in Nat /\ n <= Len(mem) /\ 1 \in Nat \ {0}
  BY <1>1, <1>2, <1>4
<1>6. SubSeq(mem, 1, f - 1) \in Seq(PathBytes) /\ SubSeq(mem, 1, n) \in Seq(PathBytes)
  BY <1>2, <1>5, PartOf
<1>. QED BY <1>2, <1>3, <1>6 DEF f

\* Parts of two sequences that agree on them.
LEMMA SameFront ==
    ASSUME NEW S, NEW s \in Seq(S), NEW t \in Seq(S), NEW n \in Nat, n <= Len(s), n <= Len(t),
           \A i \in 1 .. n : s[i] = t[i]
    PROVE  SubSeq(s, 1, n) = SubSeq(t, 1, n)
<1>. DEFINE a == SubSeq(s, 1, n)
            b == SubSeq(t, 1, n)
<1>1. 1 \in Nat \ {0}
  OBVIOUS
<1>2. /\ a \in Seq(S) /\ (1 <= n => Len(a) = n - 1 + 1) /\ (n < 1 => Len(a) = 0)
      /\ \A i \in 1 .. n - 1 + 1 : a[i] = s[1 + i - 1]
  BY <1>1, PartOf
<1>3. /\ b \in Seq(S) /\ (1 <= n => Len(b) = n - 1 + 1) /\ (n < 1 => Len(b) = 0)
      /\ \A i \in 1 .. n - 1 + 1 : b[i] = t[1 + i - 1]
  BY <1>1, PartOf
<1>. HIDE DEF a, b
<1>4. Len(a) = n /\ Len(b) = n
  BY <1>2, <1>3
<1>5. ASSUME NEW i \in 1 .. n PROVE a[i] = b[i]
  <2>1. i \in 1 .. n - 1 + 1 /\ 1 + i - 1 = i
    OBVIOUS
  <2>. QED BY <1>2, <1>3, <2>1
<1>6. a = b
  BY <1>2, <1>3, <1>4, <1>5, SeqEqual
<1>. QED BY <1>6 DEF a, b

\* A path that was written to sun_path is read back from it, up to its first zero.
LEMMA PathReadBack ==
    ASSUME NEW path \in Seq(PathBytes), path # <<>>, UnixFits(path)
    PROVE  LET mem == SunPath(path)  n == UnixLength(path) IN
           /\ mem \in [1 .. PathSize -> PathBytes] /\ n \in 0 .. PathSize
           /\ path[1] = 0 => GetPath(mem, n) = path
           /\ path[1] # 0 => GetPath(mem, n) = SubSeq(path, 1, FirstZero(path) - 1)
<1>. DEFINE mem == SunPath(path)
            n == UnixLength(path)
            L == Len(path)
<1>1. L \in Nat \ {0} /\ (\A i \in 1 .. L : path[i] \in PathBytes) /\ PathSize \in Nat
  BY Sizes
<1>2. n <= PathSize /\ (path[1] = 0 => n = L) /\ (path[1] # 0 => n = L + 1)
  BY DEF UnixFits, UnixLength
<1>3. mem = [i \in 1 .. PathSize |-> IF i <= n /\ i <= L THEN path[i] ELSE 0]
  BY DEF SunPath
<1>. SUFFICES /\ mem \in [1 .. PathSize -> PathBytes] /\ n \in 0 .. PathSize
              /\ path[1] = 0 => GetPath(mem, n) = path
              /\ path[1] # 0 => GetPath(mem, n) = SubSeq(path, 1, FirstZero(path) - 1)
  OBVIOUS
<1>. HIDE DEF mem, n
<1>4. n \in Nat /\ n \in 0 .. PathSize /\ L <= n /\ 0 < n /\ 1 \in 1 .. L /\ L <= PathSize
  BY <1>1, <1>2
<1>5. mem \in [1 .. PathSize -> PathBytes]
  <2>1. ASSUME NEW i \in 1 .. PathSize, i <= L PROVE path[i] \in PathBytes
    BY <1>1, <2>1
  <2>. QED BY <1>3, <2>1, PathBytesAre
<1>6. \A i \in 1 .. L : mem[i] = path[i]
  <2>1. \A i \in 1 .. L : i \in 1 .. PathSize /\ i <= n /\ i <= L
    BY <1>1, <1>4
  <2>. QED BY <1>3, <2>1
<1>7. \A i \in L + 1 .. PathSize : mem[i] = 0
  <2>1. \A i \in L + 1 .. PathSize : i \in 1 .. PathSize /\ ~(i <= L)
    BY <1>1
  <2>. QED BY <1>3, <2>1
<1>8. /\ mem \in Seq(PathBytes) /\ Len(mem) = PathSize
      /\ ~(n > 0 /\ mem[1] = 0) => GetPath(mem, n) = SubSeq(mem, 1, FirstZero(mem) - 1)
      /\ n > 0 /\ mem[1] = 0 => GetPath(mem, n) = SubSeq(mem, 1, n)
  BY <1>4, <1>5, GetPathIs
<1>9. mem[1] = path[1]
  BY <1>4, <1>6
<1>10. ASSUME path[1] = 0 PROVE GetPath(mem, n) = path
  <2>1. n = L /\ n > 0
    BY <1>2, <1>4, <1>10
  <2>2. GetPath(mem, n) = SubSeq(mem, 1, L)
    BY <1>8, <1>9, <1>10, <2>1
  <2>3. SubSeq(mem, 1, L) = SubSeq(path, 1, L)
    BY <1>1, <1>4, <1>6, <1>8, SameFront
  <2>4. SubSeq(path, 1, L) = path
    BY SubSeqFull
  <2>. QED BY <2>2, <2>3, <2>4
<1>11. ASSUME path[1] # 0 PROVE GetPath(mem, n) = SubSeq(path, 1, FirstZero(path) - 1)
  <2>. DEFINE f == FirstZero(path)
  <2>1. f \in 1 .. L + 1 /\ (\A i \in 1 .. f - 1 : path[i] # 0) /\ (f <= L => path[f] = 0)
    BY FirstZeroIs
  <2>. HIDE DEF f
  <2>2. L + 1 <= PathSize /\ f <= PathSize /\ f \in 1 .. PathSize + 1 /\ f - 1 \in Nat /\ f - 1 <= L
    BY <1>1, <1>2, <1>11, <2>1
  <2>3. \A i \in 1 .. f - 1 : i \in 1 .. L
    BY <1>1, <2>1
  <2>4. \A i \in 1 .. f - 1 : mem[i] # 0 /\ mem[i] = path[i]
    BY <1>6, <2>1, <2>3
  <2>5. mem[f] = 0
    <3>1. CASE f <= L
      <4>1. f \in 1 .. L
        BY <1>1, <2>1, <3>1
      <4>. QED BY <1>6, <2>1, <3>1, <4>1
    <3>2. CASE ~(f <= L)
      <4>1. f \in L + 1 .. PathSize
        BY <1>1, <2>1, <2>2, <3>2
      <4>. QED BY <1>7, <4>1
    <3>. QED BY <3>1, <3>2
  <2>6. FirstZero(mem) = f
    BY <1>8, <2>2, <2>4, <2>5, FirstZeroAt
  <2>7. GetPath(mem, n) = SubSeq(mem, 1, f - 1)
    BY <1>8, <1>9, <1>11, <2>6
  <2>8. f - 1 <= PathSize
    BY <1>1, <1>4, <2>2
  <2>9. SubSeq(mem, 1, f - 1) = SubSeq(path, 1, f - 1)
    BY <1>8, <2>2, <2>4, <2>8, SameFront
  <2>. QED BY <2>7, <2>9 DEF f
<1>. QED BY <1>4, <1>5, <1>10, <1>11

\* What getPath returned, unless it is abstract, has no zero.
LEMMA PathHasNoZero ==
    ASSUME NEW mem \in [1 .. PathSize -> PathBytes], NEW n \in 0 .. PathSize,
           GetPath(mem, n) # <<>>, GetPath(mem, n)[1] # 0
    PROVE  LET path == GetPath(mem, n) IN SubSeq(path, 1, FirstZero(path) - 1) = path
<1>. DEFINE path == GetPath(mem, n)
            f == FirstZero(mem)
<1>1. /\ mem \in Seq(PathBytes) /\ Len(mem) = PathSize /\ path \in Seq(PathBytes)
      /\ ~(n > 0 /\ mem[1] = 0) => path = SubSeq(mem, 1, f - 1)
      /\ n > 0 /\ mem[1] = 0 => path = SubSeq(mem, 1, n)
  BY GetPathIs
<1>2. f \in 1 .. PathSize + 1 /\ (\A i \in 1 .. f - 1 : mem[i] # 0) /\ PathSize \in Nat
  BY <1>1, FirstZeroIs, Sizes
<1>3. path # <<>> /\ path[1] # 0
  OBVIOUS
<1>. SUFFICES SubSeq(path, 1, FirstZero(path) - 1) = path
  OBVIOUS
<1>. HIDE DEF path, f
<1>4. ~(n > 0 /\ mem[1] = 0)
  <2>1. ASSUME n > 0, mem[1] = 0 PROVE FALSE
    <3>1. n \in Nat /\ n <= Len(mem) /\ 1 \in Nat \ {0} /\ 1 \in 1 .. n - 1 + 1 /\ 1 + 1 - 1 = 1
      BY <1>1, <1>2, <2>1
    <3>2. \A i \in 1 .. n - 1 + 1 : SubSeq(mem, 1, n)[i] = mem[1 + i - 1]
      BY <1>1, <3>1, PartOf
    <3>3. SubSeq(mem, 1, n)[1] = mem[1]
      BY <3>1, <3>2
    <3>. QED BY <1>1, <1>3, <2>1, <3>3
  <2>. QED BY <2>1
<1>5. path = SubSeq(mem, 1, f - 1)
  BY <1>1, <1>4
<1>6. f - 1 \in Nat /\ f - 1 <= Len(mem) /\ 1 \in Nat \ {0}
  BY <1>1, <1>2
<1>. DEFINE m == f - 1
<1>. HIDE DEF m
<1>7. /\ m \in Nat /\ (1 <= m => Len(path) = m - 1 + 1) /\ (m < 1 => Len(path) = 0)
      /\ \A i \in 1 .. m - 1 + 1 : path[i] = mem[1 + i - 1]
  <2>1. m \in Nat /\ m <= Len(mem) /\ 1 \in Nat \ {0} /\ path = SubSeq(mem, 1, m)
    BY <1>5, <1>6 DEF m
  <2>2. /\ 1 <= m => Len(SubSeq(mem, 1, m)) = m - 1 + 1
        /\ m < 1 => Len(SubSeq(mem, 1, m)) = 0
        /\ \A i \in 1 .. m - 1 + 1 : SubSeq(mem, 1, m)[i] = mem[1 + i - 1]
    BY <1>1, <2>1, PartOf
  <2>. QED BY <2>1, <2>2
<1>8. Len(path) = m
  BY <1>7
<1>9. ASSUME NEW i \in 1 .. m PROVE path[i] # 0
  <2>1. i \in 1 .. m - 1 + 1 /\ 1 + i - 1 = i
    BY <1>7
  <2>2. path[i] = mem[i]
    BY <1>7, <2>1
  <2>. QED BY <1>2, <2>2 DEF m
<1>10. m + 1 \in 1 .. Len(path) + 1 /\ (m + 1) - 1 = m /\ ~(m + 1 <= Len(path))
  BY <1>7, <1>8
<1>11. \A i \in 1 .. (m + 1) - 1 : path[i] # 0
  BY <1>9, <1>10
<1>12. FirstZero(path) = m + 1
  BY <1>1, <1>10, <1>11, FirstZeroAt
<1>13. SubSeq(path, 1, Len(path)) = path
  BY <1>1, SubSeqFull
<1>. QED BY <1>8, <1>10, <1>12, <1>13

-----------------------------------------------------------------------------
(* The text of an IPv6 address                                               *)

Tokens(g) == {":"} \cup {ToString(g[i]) : i \in DOMAIN g}

LEMMA WrittenIs ==
    ASSUME NEW n \in Nat, NEW g, DOMAIN g = 1 .. n, NEW l \in Nat \ {0}, NEW m \in Nat, m <= n, l <= m + 1
    PROVE  /\ Written(g, l, m) \in Seq(Tokens(g))
           /\ l = m + 1 => Written(g, l, m) = <<>>
           /\ l <= m => Len(Written(g, l, m)) = 2 * (m - l) + 1
           /\ l = m => Written(g, l, m) = <<ToString(g[l])>>
<1>. DEFINE K == 2 * (m - l) + 1
            w == Written(g, l, m)
<1>1. w = [k \in 1 .. K |-> IF k % 2 = 1 THEN ToString(g[l + k \div 2]) ELSE ":"]
  BY DEF Written
<1>2. K \in Int /\ (l = m + 1 => K = -1) /\ (l <= m => K \in Nat) /\ (l = m => K = 1)
  OBVIOUS
<1>3. ASSUME NEW k \in 1 .. K PROVE w[k] \in Tokens(g)
  <2>1. k \div 2 \in Nat /\ l + k \div 2 \in 1 .. n
    OBVIOUS
  <2>2. ToString(g[l + k \div 2]) \in Tokens(g) /\ ":" \in Tokens(g)
    BY <2>1 DEF Tokens
  <2>. HIDE DEF w
  <2>. QED BY <1>1, <2>2
<1>. HIDE DEF w, K
<1>4. CASE l = m + 1
  <2>1. 1 .. K = {}
    BY <1>2, <1>4
  <2>2. w = <<>>
    BY <1>1, <2>1
  <2>3. ~(l <= m) /\ l # m
    BY <1>4
  <2>4. w \in Seq(Tokens(g))
    BY <2>2
  <2>. QED BY <2>2, <2>3, <2>4 DEF w
<1>5. CASE l <= m
  <2>1. w \in Seq(Tokens(g)) /\ Len(w) = K
    BY <1>1, <1>2, <1>3, <1>5
  <2>2. ASSUME l = m PROVE w = <<ToString(g[l])>>
    <3>1. K = 1 /\ 1 % 2 = 1 /\ l + 1 \div 2 = l
      BY <1>2, <2>2
    <3>2. w[1] = ToString(g[l]) /\ Len(w) = 1
      BY <1>1, <2>1, <3>1
    <3>. QED BY <2>1, <3>2
  <2>3. l # m + 1
    BY <1>5
  <2>. QED BY <2>1, <2>2, <2>3 DEF w, K
<1>6. l = m + 1 \/ l <= m
  OBVIOUS
<1>. QED BY <1>4, <1>5, <1>6

LEMMA WrittenNext ==
    ASSUME NEW n \in Nat, NEW g, DOMAIN g = 1 .. n, NEW l \in Nat \ {0}, NEW m \in Nat, m < n, l <= m
    PROVE  Written(g, l, m) \o <<":", ToString(g[m + 1])>> = Written(g, l, m + 1)
<1>. DEFINE K == 2 * (m - l) + 1
            t == <<":", ToString(g[m + 1])>>
            v == Written(g, l, m)
            w == Written(g, l, m + 1)
            S == Tokens(g)
<1>1. K \in Nat /\ 2 * (m + 1 - l) + 1 = K + 2 /\ K % 2 = 1 /\ (K + 1) % 2 = 0 /\ (K + 2) % 2 = 1
      /\ l + (K + 2) \div 2 = m + 1
  OBVIOUS
<1>2. v \in Seq(S) /\ Len(v) = K /\ w \in Seq(S) /\ Len(w) = K + 2
  <2>1. m <= n /\ l <= m + 1 /\ m + 1 \in Nat /\ m + 1 <= n /\ l <= m + 1 + 1
    OBVIOUS
  <2>2. v \in Seq(S) /\ Len(v) = K
    BY <2>1, WrittenIs
  <2>3. w \in Seq(S) /\ Len(w) = 2 * (m + 1 - l) + 1
    BY <2>1, WrittenIs
  <2>. HIDE DEF v, w, S, K
  <2>. QED BY <1>1, <2>2, <2>3
<1>3. /\ \A k \in 1 .. K : v[k] = IF k % 2 = 1 THEN ToString(g[l + k \div 2]) ELSE ":"
      /\ \A k \in 1 .. K + 2 : w[k] = IF k % 2 = 1 THEN ToString(g[l + k \div 2]) ELSE ":"
  BY <1>1 DEF Written
<1>4. t \in Seq(S) /\ Len(t) = 2 /\ t[1] = ":" /\ t[2] = ToString(g[m + 1])
  <2>1. m + 1 \in DOMAIN g
    OBVIOUS
  <2>. QED BY <2>1 DEF Tokens
<1>. HIDE DEF K, t, v, w, S
<1>5. /\ v \o t \in Seq(S) /\ Len(v \o t) = K + 2
      /\ \A k \in 1 .. K + 2 : (v \o t)[k] = IF k <= K THEN v[k] ELSE t[k - K]
  <2>1. /\ v \o t \in Seq(S) /\ Len(v \o t) = Len(v) + Len(t)
        /\ \A k \in 1 .. Len(v) + Len(t) : (v \o t)[k] = IF k <= Len(v) THEN v[k] ELSE t[k - Len(v)]
    BY <1>2, <1>4, ConcatProperties
  <2>. QED BY <1>2, <1>4, <2>1, Zenon
<1>6. ASSUME NEW k \in 1 .. K + 2 PROVE (v \o t)[k] = w[k]
  <2>1. CASE k <= K
    <3>1. k \in 1 .. K
      BY <1>1, <2>1
    <3>. QED BY <1>3, <1>5, <2>1, <3>1
  <2>2. CASE k = K + 1
    <3>1. ~(k <= K) /\ k - K = 1 /\ k % 2 = 0
      BY <1>1, <2>2
    <3>. QED BY <1>3, <1>4, <1>5, <3>1
  <2>3. CASE k = K + 2
    <3>1. ~(k <= K) /\ k - K = 2 /\ k % 2 = 1 /\ l + k \div 2 = m + 1
      BY <1>1, <2>3
    <3>. QED BY <1>3, <1>4, <1>5, <3>1
  <2>4. k <= K \/ k = K + 1 \/ k = K + 2
    BY <1>1
  <2>. QED BY <2>1, <2>2, <2>3, <2>4
<1>7. v \o t = w
  BY <1>2, <1>5, <1>6, SeqEqual
<1>. QED BY <1>7 DEF v, t, w

\* Groups a + 1 .. z - 1 are the zeros that are left out; the groups before them are not zero.
Shape(g, n, a, z) ==
    /\ a \in 0 .. n /\ z \in 1 .. n + 1
    /\ \A i \in 1 .. a : g[i] # 0
    /\ \A i \in a + 1 .. z - 1 : g[i] = 0
    /\ (a < n => a + 1 < z) /\ (a = n => z = n + 1)
    /\ z <= n => g[z] # 0
    /\ \A i \in 1 .. n + 1 : UsedZeros(g, i) <=> z < i

LEMMA ShapeOf ==
    ASSUME NEW n \in Nat \ {0}, NEW g
    PROVE  \E a, z : Shape(g, n, a, z)
<1>. DEFINE Z == {i \in 1 .. n : g[i] = 0} \cup {n + 1}
            E == {i \in 2 .. n : g[i - 1] = 0 /\ g[i] # 0} \cup {n + 1}
<1>1. Z \in SUBSET Nat /\ Z # {} /\ E \in SUBSET Nat /\ E # {}
  OBVIOUS
<1>2. PICK b \in Z : \A y \in Z : b <= y
  <2>. HIDE DEF Z
  <2>. QED BY <1>1, LeastNat
<1>3. PICK z \in E : \A y \in E : z <= y
  <2>. HIDE DEF E
  <2>. QED BY <1>1, LeastNat
<1>. DEFINE a == b - 1
<1>4. /\ b \in 1 .. n + 1 /\ (b <= n => g[b] = 0)
      /\ z \in 2 .. n + 1 /\ (z <= n => g[z - 1] = 0 /\ g[z] # 0)
  BY <1>2, <1>3
<1>5. \A i \in 1 .. n : i < b => g[i] # 0
  BY <1>2, <1>4
<1>6. \A i \in 2 .. n : i < z => ~(g[i - 1] = 0 /\ g[i] # 0)
  BY <1>3, <1>4
<1>7. ASSUME NEW i \in 1 .. n + 1 PROVE UsedZeros(g, i) <=> z < i
  <2>1. ASSUME UsedZeros(g, i) PROVE z < i
    <3>1. PICK j \in 2 .. i - 1 : g[j - 1] = 0 /\ g[j] # 0
      BY <2>1 DEF UsedZeros
    <3>2. j \in 2 .. n /\ ~(j < z)
      BY <1>6, <3>1
    <3>. QED BY <1>4, <3>2
  <2>2. ASSUME z < i PROVE UsedZeros(g, i)
    <3>1. z \in 2 .. i - 1 /\ z <= n
      BY <1>4, <2>2
    <3>. QED BY <1>4, <3>1 DEF UsedZeros
  <2>. QED BY <2>1, <2>2
<1>. HIDE DEF Z, E
<1>8. a \in 0 .. n /\ z \in 1 .. n + 1 /\ a \in Nat /\ z \in Nat /\ b = a + 1
  BY <1>4
<1>9. \A i \in 1 .. a : g[i] # 0
  <2>1. \A i \in 1 .. a : i \in 1 .. n /\ i < b
    BY <1>4
  <2>. QED BY <1>5, <2>1
<1>10. a < n => a + 1 < z
  <2>1. ASSUME a < n PROVE a + 1 < z
    <3>1. CASE z = n + 1
      BY <1>8, <2>1, <3>1
    <3>2. CASE z <= n
      <4>1. g[z - 1] = 0 /\ z - 1 \in 1 .. n
        BY <1>4, <3>2
      <4>2. ~(z - 1 < b)
        BY <1>5, <4>1
      <4>. QED BY <1>8, <4>1, <4>2
    <3>. QED BY <1>4, <3>1, <3>2
  <2>. QED BY <2>1
<1>11. a = n => z = n + 1
  <2>1. ASSUME a = n, z <= n PROVE FALSE
    <3>1. g[z - 1] = 0 /\ z - 1 \in 1 .. n /\ z - 1 < b
      BY <1>4, <1>8, <2>1
    <3>. QED BY <1>5, <3>1
  <2>. QED BY <1>4, <2>1
<1>12. \A i \in a + 1 .. z - 1 : g[i] = 0
  <2>. DEFINE T == {i \in a + 1 .. z - 1 : g[i] # 0}
  <2>. SUFFICES ASSUME T # {} PROVE FALSE
    OBVIOUS
  <2>1. T \in SUBSET Nat
    BY <1>8
  <2>2. PICK k \in T : \A y \in T : k <= y
    <3>. HIDE DEF T
    <3>. QED BY <2>1, LeastNat
  <2>3. k \in a + 1 .. z - 1 /\ g[k] # 0 /\ k \in Nat
    BY <1>8, <2>2
  <2>4. CASE k = a + 1
    <3>1. b <= n /\ k = b
      BY <1>4, <1>8, <2>3, <2>4
    <3>. QED BY <1>4, <2>3, <3>1
  <2>5. CASE k # a + 1
    <3>1. k - 1 \in a + 1 .. z - 1 /\ ~(k <= k - 1) /\ k \in 2 .. n /\ k < z
      BY <1>8, <2>3, <2>5
    <3>2. g[k - 1] = 0
      BY <2>2, <3>1
    <3>. QED BY <1>6, <2>3, <3>1, <3>2
  <2>. QED BY <2>4, <2>5
<1>13. z <= n => g[z] # 0
  BY <1>4
<1>14. Shape(g, n, a, z)
  <2>. HIDE DEF a
  <2>. QED BY <1>7, <1>8, <1>9, <1>10, <1>11, <1>12, <1>13 DEF Shape
<1>. QED BY <1>14

LEMMA Joined ==
    ASSUME NEW x, NEW y
    PROVE  /\ <<>> \o <<>> \o <<y>> = <<y>>
           /\ <<>> \o <<x>> \o <<y>> = <<x, y>>
           /\ <<x>> \o <<x>> \o <<y>> = <<x, x, y>>
           /\ <<x, x>> \o <<y>> = <<x, x, y>>
<1>. DEFINE S == {x, y}
<1>1. x \in S /\ y \in S
  OBVIOUS
<1>. HIDE DEF S
<1>2. <<x>> \in Seq(S) /\ <<y>> \in Seq(S) /\ <<>> \in Seq(S) /\ <<x, y>> \in Seq(S) /\ <<x, x>> \in Seq(S)
      /\ <<x, x, y>> \in Seq(S)
  BY <1>1
<1>3. <<>> \o <<>> = <<>> /\ <<>> \o <<x>> = <<x>> /\ <<>> \o <<y>> = <<y>>
  BY <1>2, ConcatEmptySeq
<1>4. <<x>> \o <<y>> = <<x, y>> /\ <<x>> \o <<x>> = <<x, x>>
  <2>1. ASSUME NEW v \in S PROVE <<x>> \o <<v>> = <<x, v>>
    <3>. DEFINE s == <<x>>
                t == <<v>>
                w == <<x, v>>
    <3>1. s \in Seq(S) /\ t \in Seq(S) /\ Len(s) = 1 /\ Len(t) = 1 /\ s[1] = x /\ t[1] = v
          /\ w \in Seq(S) /\ Len(w) = 2 /\ w[1] = x /\ w[2] = v
      BY <1>1
    <3>. HIDE DEF s, t, w
    <3>2. /\ s \o t \in Seq(S) /\ Len(s \o t) = 1 + 1
          /\ \A i \in 1 .. 1 + 1 : (s \o t)[i] = IF i <= 1 THEN s[i] ELSE t[i - 1]
      <4>1. /\ s \o t \in Seq(S) /\ Len(s \o t) = Len(s) + Len(t)
            /\ \A i \in 1 .. Len(s) + Len(t) : (s \o t)[i] = IF i <= Len(s) THEN s[i] ELSE t[i - Len(s)]
        BY <3>1, ConcatProperties
      <4>. QED BY <3>1, <4>1, Zenon
    <3>3. (s \o t)[1] = x /\ (s \o t)[2] = v
      BY <3>1, <3>2
    <3>4. s \o t = w
      BY <3>1, <3>2, <3>3, SeqEqual
    <3>. QED BY <3>4 DEF s, t, w
  <2>. QED BY <1>1, <2>1
<1>5. <<x, x>> \o <<y>> = <<x, x, y>>
  <2>. DEFINE s == <<x, x>>
              t == <<y>>
              w == <<x, x, y>>
  <2>1. s \in Seq(S) /\ t \in Seq(S) /\ Len(s) = 2 /\ Len(t) = 1 /\ s[1] = x /\ s[2] = x /\ t[1] = y
        /\ w \in Seq(S) /\ Len(w) = 3 /\ w[1] = x /\ w[2] = x /\ w[3] = y
    BY <1>1
  <2>. HIDE DEF s, t, w
  <2>2. /\ s \o t \in Seq(S) /\ Len(s \o t) = 2 + 1
        /\ \A i \in 1 .. 2 + 1 : (s \o t)[i] = IF i <= 2 THEN s[i] ELSE t[i - 2]
    <3>1. /\ s \o t \in Seq(S) /\ Len(s \o t) = Len(s) + Len(t)
          /\ \A i \in 1 .. Len(s) + Len(t) : (s \o t)[i] = IF i <= Len(s) THEN s[i] ELSE t[i - Len(s)]
      BY <2>1, ConcatProperties
    <3>. QED BY <2>1, <3>1, Zenon
  <2>3. (s \o t)[1] = x /\ (s \o t)[2] = x /\ (s \o t)[3] = y
    BY <2>1, <2>2
  <2>4. s \o t = w
    BY <2>1, <2>2, <2>3, SeqEqual
  <2>. QED BY <2>4 DEF s, t, w
<1>6. <<>> \o <<>> \o <<y>> = <<y>>
  BY <1>3, Zenon
<1>7. <<>> \o <<x>> \o <<y>> = <<x, y>>
  BY <1>3, <1>4, Zenon
<1>8. <<x>> \o <<x>> \o <<y>> = <<x, x, y>>
  BY <1>4, <1>5, Zenon
<1>. QED BY <1>5, <1>6, <1>7, <1>8

\* What print writes for a group, by its place.
LEMMA GroupText ==
    ASSUME NEW n \in Nat \ {0}, NEW g, NEW a, NEW z, Shape(g, n, a, z), NEW i \in 1 .. n
    PROVE  /\ i <= a /\ i = 1 => TextOfGroup(g, i) = <<ToString(g[i])>>
           /\ i <= a /\ i > 1 => TextOfGroup(g, i) = <<":", ToString(g[i])>>
           /\ a < i /\ i < z => TextOfGroup(g, i) = <<>>
           /\ a < i /\ i = z => TextOfGroup(g, i) = <<":", ":", ToString(g[i])>>
           /\ z < i => TextOfGroup(g, i) = <<":", ToString(g[i])>>
<1>0. a \in Nat /\ z \in Nat /\ a \in 0 .. n /\ z \in 1 .. n + 1
  BY DEF Shape
<1>1. UsedZeros(g, i) <=> z < i
  BY DEF Shape
<1>. DEFINE t == ToString(g[i])
<1>2. <<>> \o <<>> \o <<t>> = <<t>>
  BY Joined
<1>3. <<>> \o <<":">> \o <<t>> = <<":", t>>
  BY Joined
<1>4. <<":">> \o <<":">> \o <<t>> = <<":", ":", t>>
  BY Joined
<1>5. ASSUME i <= a
      PROVE  /\ i = 1 => TextOfGroup(g, i) = <<ToString(g[i])>>
             /\ i > 1 => TextOfGroup(g, i) = <<":", ToString(g[i])>>
  <2>1. ~(z < i) /\ i \in 1 .. a /\ (i > 1 => i - 1 \in 1 .. a)
    BY <1>0, <1>5 DEF Shape
  <2>2. g[i] # 0 /\ (i > 1 => g[i - 1] # 0)
    BY <2>1 DEF Shape
  <2>3. CASE i = 1
    BY <1>2, <2>2, <2>3 DEF TextOfGroup
  <2>4. CASE i > 1
    <3>1. i > 1 /\ g[i - 1] # 0 /\ g[i] # 0
      BY <2>2, <2>4
    <3>2. TextOfGroup(g, i) = <<>> \o <<":">> \o <<t>>
      BY <3>1, Zenon DEF TextOfGroup
    <3>3. i # 1
      BY <2>4
    <3>. QED BY <1>3, <2>4, <3>2, <3>3, Zenon
  <2>. QED BY <2>3, <2>4
<1>6. ASSUME a < i, i < z PROVE TextOfGroup(g, i) = <<>>
  <2>1. i \in a + 1 .. z - 1 /\ ~(z < i)
    BY <1>0, <1>6
  <2>2. g[i] = 0
    BY <2>1 DEF Shape
  <2>. QED BY <1>1, <2>1, <2>2 DEF TextOfGroup
<1>7. ASSUME a < i, i = z PROVE TextOfGroup(g, i) = <<":", ":", ToString(g[i])>>
  <2>1. a < n /\ z <= n /\ ~(z < i)
    BY <1>0, <1>7
  <2>2. a + 1 < z /\ g[i] # 0
    BY <1>7, <2>1 DEF Shape
  <2>3. i - 1 \in a + 1 .. z - 1 /\ i > 1
    BY <1>0, <1>7, <2>2
  <2>4. g[i - 1] = 0
    BY <2>3 DEF Shape
  <2>. QED BY <1>1, <1>4, <2>1, <2>2, <2>3, <2>4 DEF TextOfGroup
<1>8. ASSUME z < i PROVE TextOfGroup(g, i) = <<":", ToString(g[i])>>
  <2>1. UsedZeros(g, i) /\ i > 1
    BY <1>0, <1>1, <1>8
  <2>. QED BY <1>3, <2>1 DEF TextOfGroup
<1>. QED BY <1>5, <1>6, <1>7, <1>8

\* What print has written after group i.
TextTo(g, a, z, i) ==
    IF i <= a THEN Written(g, 1, i)
    ELSE IF i < z THEN Written(g, 1, a)
    ELSE Written(g, 1, a) \o <<":", ":">> \o Written(g, z, i)

LEMMA TextGrows ==
    ASSUME NEW n \in Nat \ {0}, NEW g, DOMAIN g = 1 .. n, NEW a, NEW z, Shape(g, n, a, z), NEW i \in 1 .. n
    PROVE  /\ i = 1 => TextTo(g, a, z, i) = TextOfGroup(g, i)
           /\ i # 1 => TextTo(g, a, z, i) = TextTo(g, a, z, i - 1) \o TextOfGroup(g, i)
<1>. DEFINE S == Tokens(g)
            t == ToString(g[i])
            A == Written(g, 1, a)
            cc == <<":", ":">>
            j == i - 1
<1>0. /\ n \in Nat /\ a \in Nat /\ a <= n /\ z \in Nat \ {0} /\ z <= n + 1
      /\ (a < n => a + 1 < z) /\ (a = n => z = n + 1)
  BY DEF Shape
<1>1. j \in Nat /\ i \in Nat /\ i = j + 1 /\ j < n /\ i <= n /\ j <= n /\ (i # 1 => j # 0) /\ (a < i => a + 1 < z)
  BY <1>0
<1>. HIDE DEF j
<1>2. A \in Seq(S) /\ (a = 0 => A = <<>>)
  <2>. DEFINE l == 1
  <2>1. l \in Nat \ {0} /\ l <= a + 1 /\ (a = 0 => l = a + 1)
    BY <1>0
  <2>. HIDE DEF l
  <2>2. Written(g, l, a) \in Seq(Tokens(g)) /\ (l = a + 1 => Written(g, l, a) = <<>>)
    BY <1>0, <2>1, WrittenIs
  <2>3. A = Written(g, l, a)
    BY Zenon DEF l
  <2>. HIDE DEF A, S
  <2>. QED BY <2>1, <2>2, <2>3, Zenon DEF S
<1>3. cc \in Seq(S) /\ <<":", t>> \in Seq(S) /\ <<t>> \in Seq(S) /\ A \o cc \in Seq(S)
  <2>1. t \in S /\ ":" \in S
    BY DEF Tokens
  <2>. HIDE DEF A, t, S
  <2>2. cc \in Seq(S) /\ <<":", t>> \in Seq(S) /\ <<t>> \in Seq(S)
    BY <2>1
  <2>. HIDE DEF cc
  <2>. QED BY <1>2, <2>2, ConcatProperties
<1>. SUFFICES /\ i = 1 => TextTo(g, a, z, i) = TextOfGroup(g, i)
              /\ i # 1 => TextTo(g, a, z, i) = TextTo(g, a, z, j) \o TextOfGroup(g, i)
  BY DEF j
<1>4. CASE i <= a
  <2>1. TextTo(g, a, z, i) = Written(g, 1, i)
    BY <1>4 DEF TextTo
  <2>2. CASE i = 1
    <3>1. TextOfGroup(g, i) = <<t>>
      BY <1>4, <2>2, GroupText
    <3>2. Written(g, i, i) = <<t>>
      <4>1. i \in Nat \ {0} /\ i <= i + 1 /\ i = i
        BY <1>1
      <4>. QED BY <1>0, <1>1, <4>1, WrittenIs
    <3>. QED BY <2>1, <2>2, <3>1, <3>2
  <2>3. CASE i # 1
    <3>1. i > 1 /\ j <= a /\ 1 <= j /\ 1 \in Nat \ {0}
      BY <1>0, <1>1, <1>4, <2>3
    <3>2. TextOfGroup(g, i) = <<":", t>>
      BY <1>4, <3>1, GroupText
    <3>3. TextTo(g, a, z, j) = Written(g, 1, j)
      BY <3>1 DEF TextTo
    <3>4. Written(g, 1, j) \o <<":", ToString(g[j + 1])>> = Written(g, 1, j + 1)
      BY <1>0, <1>1, <3>1, WrittenNext
    <3>5. Written(g, 1, j) \o <<":", t>> = Written(g, 1, i)
      BY <1>1, <3>4
    <3>. QED BY <2>1, <2>3, <3>2, <3>3, <3>5, Zenon
  <2>. QED BY <2>2, <2>3
<1>5. CASE a < i /\ i < z
  <2>1. ~(i <= a)
    BY <1>0, <1>1, <1>5
  <2>2. TextTo(g, a, z, i) = A /\ TextOfGroup(g, i) = <<>>
    <3>1. TextTo(g, a, z, i) = A
      BY <1>5, <2>1 DEF TextTo
    <3>. QED BY <1>5, <3>1, GroupText
  <2>3. CASE i = 1
    <3>1. a = 0
      BY <1>0, <1>5, <2>3
    <3>2. TextTo(g, a, z, i) = TextOfGroup(g, i)
      BY <1>2, <2>2, <3>1
    <3>. QED BY <2>3, <3>2
  <2>4. CASE i # 1
    <3>1. j = a \/ (~(j <= a) /\ j < z)
      BY <1>0, <1>1, <1>5
    <3>2. TextTo(g, a, z, j) = A
      <4>1. CASE j = a
        <5>1. j <= a
          BY <1>0, <4>1
        <5>. QED BY <4>1, <5>1 DEF TextTo
      <4>2. CASE ~(j <= a) /\ j < z
        BY <4>2 DEF TextTo
      <4>. QED BY <3>1, <4>1, <4>2
    <3>. HIDE DEF A
    <3>3. A \o <<>> = A
      BY <1>2, ConcatEmptySeq
    <3>. QED BY <2>2, <2>4, <3>2, <3>3, Zenon
  <2>. QED BY <2>3, <2>4
<1>6. CASE a < i /\ i = z
  <2>1. ~(i <= a) /\ ~(i < z) /\ ~(j <= a) /\ j < z /\ i # 1 /\ a < i
    BY <1>0, <1>1, <1>6
  <2>2. TextTo(g, a, z, i) = A \o cc \o Written(g, z, i) /\ TextTo(g, a, z, j) = A
    BY <2>1 DEF TextTo
  <2>3. TextOfGroup(g, i) = <<":", ":", t>>
    BY <1>6, GroupText
  <2>4. Written(g, z, i) = <<t>>
    <3>1. i \in Nat \ {0} /\ i <= i + 1 /\ i = i
      BY <1>1
    <3>2. Written(g, i, i) = <<t>>
      BY <1>0, <1>1, <3>1, WrittenIs
    <3>. QED BY <1>6, <3>2
  <2>5. cc \o <<t>> = <<":", ":", t>>
    BY Joined
  <2>. HIDE DEF A, cc, t, S
  <2>6. (A \o cc) \o <<t>> = A \o (cc \o <<t>>)
    BY <1>2, <1>3, ConcatAssociative
  <2>. QED BY <2>1, <2>2, <2>3, <2>4, <2>5, <2>6, Zenon
<1>7. CASE a < i /\ z < i
  <2>1. ~(i <= a) /\ ~(i < z) /\ ~(j <= a) /\ ~(j < z) /\ i # 1 /\ z <= j /\ z <= j + 1
    BY <1>0, <1>1, <1>7
  <2>. DEFINE B == Written(g, z, j)
  <2>2. TextTo(g, a, z, i) = A \o cc \o Written(g, z, i) /\ TextTo(g, a, z, j) = A \o cc \o B
    BY <2>1 DEF TextTo
  <2>3. TextOfGroup(g, i) = <<":", t>>
    BY <1>7, GroupText
  <2>4. B \in Seq(S)
    BY <1>0, <1>1, <2>1, WrittenIs
  <2>5. B \o <<":", t>> = Written(g, z, i)
    <3>1. Written(g, z, j) \o <<":", ToString(g[j + 1])>> = Written(g, z, j + 1)
      BY <1>0, <1>1, <2>1, WrittenNext
    <3>. QED BY <1>1, <3>1
  <2>. DEFINE T == <<":", t>>
              D == A \o cc
  <2>6. T \in Seq(S) /\ D \in Seq(S)
    BY <1>3
  <2>7. (D \o B) \o T = D \o (B \o T)
    <3>. HIDE DEF D, B, T, S
    <3>. QED BY <2>4, <2>6, ConcatAssociative
  <2>. HIDE DEF A, cc, t, S, B
  <2>. QED BY <2>1, <2>2, <2>3, <2>5, <2>7, Zenon
<1>8. i <= a \/ (a < i /\ i < z) \/ (a < i /\ i = z) \/ (a < i /\ z < i)
  BY <1>0, <1>1
<1>. QED BY <1>4, <1>5, <1>6, <1>7, <1>8

LEMMA TextIs ==
    ASSUME NEW n \in Nat \ {0}, NEW g, DOMAIN g = 1 .. n, Len(g) = n
    PROVE  \/ TextOf(g) = Written(g, 1, n)
           \/ \E a \in 0 .. n, z \in 1 .. n + 1 :
                 /\ a + 1 < z /\ \A i \in a + 1 .. z - 1 : g[i] = 0
                 /\ TextOf(g) = Written(g, 1, a) \o <<":", ":">> \o Written(g, z, n)
<1>1. PICK a, z : Shape(g, n, a, z)
  BY ShapeOf
<1>. DEFINE S == Tokens(g)
            G == [i \in DOMAIN g |-> TextOfGroup(g, i)]
            W == [i \in 1 .. n |-> TextTo(g, a, z, i)]
            Goes(f) == f = [i \in 1 .. n |-> IF i = 1 THEN G[i] ELSE f[i - 1] \o G[i]]
            h == CHOOSE f : Goes(f)
            end == IF g[n] = 0 /\ ~UsedZeros(g, n + 1) THEN <<":", ":">> ELSE <<>>
<1>2. G = [i \in 1 .. n |-> TextOfGroup(g, i)] /\ Len(G) = n /\ Len(G) # 0
  OBVIOUS
<1>3. TextOf(g) = FlattenSeq(G) \o end
  BY DEF TextOf
<1>4. FlattenSeq(G) = h[n]
  <2>. HIDE DEF G
  <2>. QED BY <1>2 DEF FlattenSeq
<1>. HIDE DEF G, end
<1>5. \A i \in 1 .. n : W[i] = IF i = 1 THEN G[i] ELSE W[i - 1] \o G[i]
  <2>. SUFFICES ASSUME NEW i \in 1 .. n PROVE W[i] = IF i = 1 THEN G[i] ELSE W[i - 1] \o G[i]
    OBVIOUS
  <2>1. /\ i = 1 => TextTo(g, a, z, i) = TextOfGroup(g, i)
        /\ i # 1 => TextTo(g, a, z, i) = TextTo(g, a, z, i - 1) \o TextOfGroup(g, i)
    BY <1>1, TextGrows
  <2>2. W[i] = TextTo(g, a, z, i) /\ G[i] = TextOfGroup(g, i)
    BY <1>2
  <2>3. i # 1 => W[i - 1] = TextTo(g, a, z, i - 1)
    OBVIOUS
  <2>. HIDE DEF W
  <2>. QED BY <2>1, <2>2, <2>3, Zenon
<1>6. W = [i \in 1 .. n |-> W[i]] /\ W[n] = TextTo(g, a, z, n)
  OBVIOUS
<1>. HIDE DEF W
<1>7. Goes(W)
  BY <1>5, <1>6, Zenon
<1>8. Goes(h)
  BY <1>7
<1>. HIDE DEF h
<1>9. h[1] = G[1] /\ \A i \in 1 .. n : i # 1 => h[i] = h[i - 1] \o G[i]
  <2>1. \A i \in 1 .. n : h[i] = IF i = 1 THEN G[i] ELSE h[i - 1] \o G[i]
    BY <1>8, Zenon
  <2>2. 1 \in 1 .. n
    OBVIOUS
  <2>. QED BY <2>1, <2>2, Zenon
<1>10. h[n] = W[n]
  <2>. DEFINE T == {m \in Nat : m + 1 <= n => h[m + 1] = W[m + 1]}
  <2>1. 0 \in T
    <3>1. 1 \in 1 .. n
      OBVIOUS
    <3>2. h[1] = W[1]
      BY <1>5, <1>9, <3>1
    <3>. QED BY <3>2
  <2>2. ASSUME NEW m \in Nat, m \in T PROVE m + 1 \in T
    <3>1. ASSUME m + 1 + 1 <= n PROVE h[m + 1 + 1] = W[m + 1 + 1]
      <4>. DEFINE i == m + 1 + 1
      <4>1. i \in 1 .. n /\ i # 1 /\ i - 1 = m + 1 /\ m + 1 <= n
        BY <3>1
      <4>2. h[i - 1] = W[i - 1]
        BY <2>2, <4>1
      <4>. HIDE DEF i
      <4>3. h[i] = W[i]
        BY <1>5, <1>9, <4>1, <4>2, Zenon
      <4>. QED BY <4>3 DEF i
    <3>. QED BY <3>1
  <2>3. Nat \subseteq T
    <3>. HIDE DEF T
    <3>. QED BY <2>1, <2>2, SetInduction
  <2>4. n - 1 \in Nat /\ n - 1 + 1 = n /\ n - 1 + 1 <= n
    OBVIOUS
  <2>5. n - 1 \in T
    BY <2>3, <2>4
  <2>6. h[n - 1 + 1] = W[n - 1 + 1]
    BY <2>4, <2>5
  <2>. QED BY <2>4, <2>6
<1>11. TextOf(g) = TextTo(g, a, z, n) \o end
  BY <1>3, <1>4, <1>6, <1>10, Zenon
<1>12. /\ a \in 0 .. n /\ z \in 1 .. n + 1 /\ (a < n => a + 1 < z) /\ (a = n => z = n + 1)
       /\ UsedZeros(g, n + 1) <=> z < n + 1
  <2>1. n + 1 \in 1 .. n + 1
    OBVIOUS
  <2>. QED BY <1>1, <2>1 DEF Shape
<1>. DEFINE A == Written(g, 1, a)
            B == Written(g, z, n)
            cc == <<":", ":">>
<1>13. A \in Seq(S) /\ B \in Seq(S) /\ (z = n + 1 => B = <<>>)
  <2>1. a \in Nat /\ a <= n /\ 1 \in Nat \ {0} /\ 1 <= a + 1 /\ z \in Nat \ {0} /\ z <= n + 1 /\ n \in Nat /\ n <= n
    BY <1>12
  <2>2. A \in Seq(S)
    BY <2>1, WrittenIs
  <2>3. B \in Seq(S) /\ (z = n + 1 => B = <<>>)
    BY <2>1, WrittenIs
  <2>. QED BY <2>2, <2>3
<1>14. cc \in Seq(S) /\ <<>> \in Seq(S)
  <2>1. ":" \in S
    BY DEF Tokens
  <2>. HIDE DEF S
  <2>. QED BY <2>1
<1>. HIDE DEF S
<1>15. A \o cc \in Seq(S)
  <2>. HIDE DEF A, cc
  <2>. QED BY <1>13, <1>14, ConcatProperties
<1>16. CASE a = n
  <2>1. n \in 1 .. a /\ n <= a
    BY <1>12, <1>16
  <2>2. g[n] # 0
    BY <1>1, <2>1 DEF Shape
  <2>3. end = <<>>
    BY <2>2 DEF end
  <2>4. TextTo(g, a, z, n) = A
    BY <1>16, <2>1 DEF TextTo
  <2>5. A \o <<>> = A
    <3>. HIDE DEF A
    <3>. QED BY <1>13, ConcatEmptySeq
  <2>. QED BY <1>11, <1>16, <2>3, <2>4, <2>5
<1>17. CASE a < n /\ z <= n
  <2>1. ~(n <= a) /\ ~(n < z) /\ z < n + 1
    BY <1>12, <1>17
  <2>2. end = <<>>
    BY <1>12, <2>1 DEF end
  <2>3. TextTo(g, a, z, n) = A \o cc \o B
    BY <2>1 DEF TextTo
  <2>4. (A \o cc \o B) \o <<>> = A \o cc \o B
    <3>. DEFINE D == A \o cc
    <3>1. D \in Seq(S)
      BY <1>15
    <3>. HIDE DEF D, B
    <3>2. D \o B \in Seq(S)
      BY <1>13, <3>1, ConcatProperties
    <3>3. (D \o B) \o <<>> = D \o B
      BY <3>2, ConcatEmptySeq
    <3>. QED BY <3>3 DEF D
  <2>5. TextOf(g) = A \o cc \o B
    BY <1>11, <2>2, <2>3, <2>4, Zenon
  <2>6. a + 1 < z /\ \A i \in a + 1 .. z - 1 : g[i] = 0
    BY <1>1, <1>12, <1>17 DEF Shape
  <2>. QED BY <1>12, <2>5, <2>6
<1>18. CASE a < n /\ z = n + 1
  <2>1. ~(n <= a) /\ n < z /\ ~(z < n + 1) /\ n \in a + 1 .. z - 1
    BY <1>12, <1>18
  <2>2. a + 1 < z /\ \A i \in a + 1 .. z - 1 : g[i] = 0
    BY <1>1, <1>12, <1>18 DEF Shape
  <2>3. end = cc
    BY <1>12, <2>1, <2>2 DEF end
  <2>4. TextTo(g, a, z, n) = A
    BY <2>1 DEF TextTo
  <2>5. (A \o cc) \o <<>> = A \o cc
    <3>. DEFINE D == A \o cc
    <3>1. D \in Seq(S)
      BY <1>15
    <3>. HIDE DEF D
    <3>2. D \o <<>> = D
      BY <3>1, ConcatEmptySeq
    <3>. QED BY <3>2 DEF D
  <2>6. B = <<>>
    BY <1>13, <1>18
  <2>7. TextOf(g) = A \o cc \o B
    BY <1>11, <2>3, <2>4, <2>5, <2>6, Zenon
  <2>. QED BY <1>12, <2>2, <2>7
<1>19. a = n \/ (a < n /\ z <= n) \/ (a < n /\ z = n + 1)
  BY <1>12
<1>. QED BY <1>16, <1>17, <1>18, <1>19

-----------------------------------------------------------------------------
(* The addresses of an application                                           *)

PortValues == {InMemoryPort(v) : v \in Ports \cup {0}}
V4Recs == [kind : {"v4"}, ip : 0 .. Ones(V4Bits), port : PortValues]
V6Recs == [kind : {"v6"}, ip : Bytes6All, port : PortValues]
HostRecs == [kind : {"host"}, host : Hosts]
UnixRecs == [kind : {"unix"}, mem : [1 .. PathSize -> PathBytes], len : 0 .. PathSize,
             path : Seq(PathBytes)]

\* The path is the one sun_path was made from, or what getPath returned since.
PathOf(u) ==
    \/ u.path = <<>>
    \/ u.mem = SunPath(u.path) /\ UnixFits(u.path) /\ u.len = UnixLength(u.path)
    \/ u.path = GetPath(u.mem, u.len)

AddrInv ==
    \/ addr \in V4Recs \/ addr \in V6Recs \/ addr \in HostRecs
    \/ addr \in UnixRecs /\ PathOf(addr)

LEMMA PathsAre ==
    Paths \subseteq Seq(PathBytes)
<1>1. ASSUME NEW n \in Nat, NEW p \in [1 .. n -> PathBytes] PROVE p \in Seq(PathBytes)
  OBVIOUS
<1>2. \A n \in 0 .. PathSize : n \in Nat
  BY Sizes
<1>. QED BY <1>1, <1>2 DEF Paths, PathBytes

HostChars == {"[", "]", ":", "x"}

LEMMA HostsAre ==
    Hosts \subseteq Seq(HostChars)
<1>1. ASSUME NEW n \in Nat, NEW h \in [1 .. n -> HostChars] PROVE h \in Seq(HostChars)
  OBVIOUS
<1>2. \A n \in 0 .. HostLength : n \in Nat
  BY AddressAssumption
<1>3. Hosts = UNION {[1 .. n -> HostChars] : n \in 0 .. HostLength}
  BY DEF Hosts, HostChars
<1>. QED BY <1>1, <1>2, <1>3

LEMMA AddressInitially ==
    AddressInit => AddrInv
<1>. SUFFICES ASSUME AddressInit PROVE AddrInv
  OBVIOUS
<1>0. InMemoryPort(0) \in PortValues
  BY DEF PortValues
<1>1. CASE \E x \in 0 .. Ones(V4Bits) : addr = [kind |-> "v4", ip |-> x, port |-> InMemoryPort(0)]
  <2>1. addr \in V4Recs
    BY <1>0, <1>1 DEF V4Recs
  <2>. QED BY <2>1 DEF AddrInv
<1>2. CASE \E x \in Bytes6 : addr = [kind |-> "v6", ip |-> x \o <<0>>, port |-> InMemoryPort(0)]
  <2>1. PICK x \in Bytes6 : addr = [kind |-> "v6", ip |-> x \o <<0>>, port |-> InMemoryPort(0)]
    BY <1>2
  <2>. DEFINE R == 0 .. Ones(ByteBits)
              y == x \o <<0>>
  <2>2. 0 \in R /\ ByteValues \subseteq R /\ V6Bytes \in Nat
    BY Sizes, OnesIs, AddressAssumption DEF Ones
  <2>. HIDE DEF R
  <2>3. x \in Seq(R) /\ Len(x) = V6Bytes /\ <<0>> \in Seq(R) /\ Len(<<0>>) = 1
    BY <2>2 DEF Bytes6
  <2>4. y \in Seq(R) /\ Len(y) = V6Bytes + 1
    BY <2>3, ConcatProperties
  <2>5. y \in [1 .. V6Bytes + 1 -> R]
    <3>. HIDE DEF y
    <3>. QED BY <2>4
  <2>6. addr \in V6Recs
    <3>. HIDE DEF y
    <3>1. addr = [kind |-> "v6", ip |-> y, port |-> InMemoryPort(0)]
      BY <2>1 DEF y
    <3>. QED BY <1>0, <2>5, <3>1 DEF V6Recs, Bytes6All, R
  <2>. QED BY <2>6 DEF AddrInv
<1>3. CASE \E h \in Hosts : addr = [kind |-> "host", host |-> h]
  <2>1. addr \in HostRecs
    BY <1>3 DEF HostRecs
  <2>. QED BY <2>1 DEF AddrInv
<1>4. CASE \E p \in Paths : UnixFits(p) /\ addr = [kind |-> "unix", mem |-> SunPath(p), len |-> UnixLength(p), path |-> p]
  <2>1. PICK p \in Paths : UnixFits(p) /\ addr = [kind |-> "unix", mem |-> SunPath(p), len |-> UnixLength(p), path |-> p]
    BY <1>4
  <2>2. p \in Seq(PathBytes) /\ PathSize \in Nat
    BY PathsAre, Sizes
  <2>3. UnixLength(p) \in 0 .. PathSize
    BY <2>1, <2>2 DEF UnixFits, UnixLength
  <2>4. SunPath(p) \in [1 .. PathSize -> PathBytes]
    <3>1. \A i \in 1 .. PathSize : i <= Len(p) => p[i] \in PathBytes
      BY <2>2
    <3>. QED BY <3>1, PathBytesAre DEF SunPath
  <2>5. addr \in UnixRecs
    BY <2>1, <2>2, <2>3, <2>4 DEF UnixRecs
  <2>6. PathOf(addr)
    BY <2>1 DEF PathOf
  <2>. QED BY <2>5, <2>6 DEF AddrInv
<1>. QED BY <1>1, <1>2, <1>3, <1>4 DEF AddressInit

LEMMA AddressPreserved ==
    AddrInv /\ [AddressNext]_addr => AddrInv'
<1>. SUFFICES ASSUME AddrInv, [AddressNext]_addr PROVE AddrInv'
  OBVIOUS
<1>0. /\ addr.kind = "v4" => addr \in V4Recs
      /\ addr.kind = "v6" => addr \in V6Recs
      /\ addr.kind = "unix" => addr \in UnixRecs
  BY DEF AddrInv, V4Recs, V6Recs, HostRecs, UnixRecs
<1>1. CASE UNCHANGED addr
  BY <1>1 DEF AddrInv, PathOf
<1>2. ASSUME NEW v \in Ports, SetPort(v) PROVE AddrInv'
  <2>1. InMemoryPort(v) \in PortValues
    BY DEF PortValues
  <2>2. addr' \in V4Recs \/ addr' \in V6Recs
    BY <1>0, <1>2, <2>1 DEF SetPort, V4Recs, V6Recs
  <2>. QED BY <2>2 DEF AddrInv
<1>3. ASSUME NEW p \in PrefixLengths, Derive4(p) PROVE AddrInv'
  <2>1. p \in Nat /\ addr \in V4Recs /\ addr.ip \in 0 .. Ones(V4Bits)
    <3>1. p \in Nat
      BY Sizes DEF PrefixLengths
    <3>2. addr \in V4Recs
      BY <1>0, <1>3 DEF Derive4
    <3>. QED BY <3>1, <3>2 DEF V4Recs
  <2>2. Broadcast4(addr.ip, p) \cup Network4(addr.ip, p) \cup Subnet4(p) \subseteq 0 .. Ones(V4Bits)
    BY <2>1, DerivedIs4
  <2>3. PICK x \in 0 .. Ones(V4Bits) : addr' = [addr EXCEPT !.ip = x]
                                       \/ addr' = [addr EXCEPT !.ip = x, !.port = InMemoryPort(0)]
    BY <1>3, <2>2 DEF Derive4
  <2>4. InMemoryPort(0) \in PortValues
    BY DEF PortValues
  <2>5. addr' \in V4Recs
    BY <2>1, <2>3, <2>4 DEF V4Recs
  <2>. QED BY <2>5 DEF AddrInv
<1>4. ASSUME NEW p \in PrefixLengths, Derive6(p) PROVE AddrInv'
  <2>1. p \in Nat /\ addr \in V6Recs /\ addr.ip \in Bytes6All
    <3>1. p \in Nat
      BY Sizes DEF PrefixLengths
    <3>2. addr \in V6Recs
      BY <1>0, <1>4 DEF Derive6
    <3>. QED BY <3>1, <3>2 DEF V6Recs
  <2>2. Broadcast6(addr.ip, p) \in Bytes6All /\ Network6(addr.ip, p) \in Bytes6All /\ Subnet6(p) \in Bytes6All
    BY <2>1, DerivedIs6
  <2>3. PICK x \in Bytes6All : addr' = [addr EXCEPT !.ip = x]
                               \/ addr' = [addr EXCEPT !.ip = x, !.port = InMemoryPort(0)]
    BY <1>4, <2>2 DEF Derive6
  <2>4. InMemoryPort(0) \in PortValues
    BY DEF PortValues
  <2>5. addr' \in V6Recs
    BY <2>1, <2>3, <2>4 DEF V6Recs
  <2>. QED BY <2>5 DEF AddrInv
<1>5. ASSUME NEW v \in 0 .. PathSize, SetAddrLen(v) PROVE AddrInv'
  <2>1. addr \in UnixRecs /\ addr.mem \in [1 .. PathSize -> PathBytes]
    BY <1>0, <1>5 DEF SetAddrLen, UnixRecs
  <2>2. GetPath(addr.mem, v) \in Seq(PathBytes)
    BY <2>1, GetPathIs
  <2>3. addr' = [addr EXCEPT !.len = v, !.path = GetPath(addr.mem, v)]
    BY <1>5 DEF SetAddrLen
  <2>4. addr' \in UnixRecs /\ addr'.mem = addr.mem /\ addr'.len = v /\ addr'.path = GetPath(addr.mem, v)
    BY <2>1, <2>2, <2>3 DEF UnixRecs
  <2>5. PathOf(addr')
    BY <2>4 DEF PathOf
  <2>. QED BY <2>4, <2>5 DEF AddrInv
<1>. QED BY <1>1, <1>2, <1>3, <1>4, <1>5 DEF AddressNext

-----------------------------------------------------------------------------
(* What the invariant gives                                                  *)

LEMMA Kinds ==
    ASSUME AddrInv
    PROVE  /\ addr.kind = "v4" => addr.ip \in 0 .. Ones(V4Bits)
           /\ addr.kind = "v6" => addr.ip \in Bytes6All
           /\ addr.kind = "host" => addr.host \in Seq(HostChars)
           /\ addr.kind = "unix" => addr \in UnixRecs /\ PathOf(addr)
  BY HostsAre DEF AddrInv, V4Recs, V6Recs, HostRecs, UnixRecs

LEMMA BroadcastFills ==
    AddrInv => BroadcastFillsHost
<1>. SUFFICES ASSUME AddrInv PROVE BroadcastFillsHost
  OBVIOUS
<1>1. ASSUME addr.kind = "v4", NEW p \in 1 .. V4Bits
      PROVE  Broadcast4(addr.ip, p) = {(addr.ip \div 2^(V4Bits - p)) * 2^(V4Bits - p) + Ones(V4Bits - p)}
  <2>. DEFINE j == V4Bits - p
  <2>1. addr.ip \in 0 .. Ones(V4Bits)
    BY <1>1, Kinds
  <2>2. LowBits(addr.ip, j, V4Bits) /\ Broadcast4(addr.ip, p) = {Or(addr.ip, 2^j - 1)}
    BY <2>1, Exact4
  <2>. HIDE DEF j
  <2>3. Or(addr.ip, 2^j - 1) = (addr.ip \div 2^j) * 2^j + Ones(j)
    BY <2>2 DEF LowBits
  <2>. QED BY <2>2, <2>3 DEF j
<1>2. ASSUME addr.kind = "v6", NEW p \in 0 .. V6Bits
      PROVE  /\ \A i \in 1 .. V6Bits : BitAt(Broadcast6(addr.ip, p), i) = IF i <= p THEN BitAt(addr.ip, i) ELSE 1
             /\ p < V6Bits => Broadcast6(addr.ip, p)[V6Bytes + 1] = addr.ip[V6Bytes + 1]
  <2>1. addr.ip \in Bytes6All
    BY <1>2, Kinds
  <2>. QED BY <2>1, BroadcastBit, BroadcastEnd
<1>. QED BY <1>1, <1>2 DEF BroadcastFillsHost

LEMMA NetworkKeeps ==
    AddrInv => NetworkKeepsHostBits
<1>. SUFFICES ASSUME AddrInv PROVE NetworkKeepsHostBits
  OBVIOUS
<1>1. ASSUME addr.kind = "v4", NEW p \in 1 .. V4Bits, NEW n \in Network4(addr.ip, p), NEW m \in 0 .. V4Bits - 1
      PROVE  (n \div 2^m) % 2 = IF m < V4Bits - p THEN (addr.ip \div 2^m) % 2 ELSE 0
  <2>. DEFINE j == V4Bits - p
  <2>1. addr.ip \in 0 .. Ones(V4Bits)
    BY <1>1, Kinds
  <2>2. j \in 0 .. V4Bits /\ LowBits(addr.ip, j, V4Bits) /\ Network4(addr.ip, p) = {And(addr.ip, 2^j - 1)}
    BY <2>1, Exact4
  <2>3. j \in Nat /\ m \in Nat /\ addr.ip \in Nat
    <3>1. V4Bits \in Nat
      BY Sizes
    <3>2. Ones(V4Bits) \in Nat
      BY <3>1, OnesIs
    <3>. HIDE DEF j
    <3>. QED BY <2>1, <2>2, <3>1, <3>2
  <2>. HIDE DEF j
  <2>4. n = addr.ip % 2^j
    BY <2>2 DEF LowBits
  <2>5. ((addr.ip % 2^j) \div 2^m) % 2 = IF m < j THEN (addr.ip \div 2^m) % 2 ELSE 0
    BY <2>3, BitAnd
  <2>. QED BY <2>4, <2>5 DEF j
<1>2. ASSUME addr.kind = "v6", NEW p \in 0 .. V4Bits, NEW i \in 1 .. V6Bits
      PROVE  BitAt(Network6(addr.ip, p), i) =
                IF i <= (p \div ByteBits) * ByteBits \/ (p < i /\ i <= (p \div ByteBits) * ByteBits + ByteBits)
                THEN BitAt(addr.ip, i) ELSE 0
  <2>1. addr.ip \in Bytes6All /\ p \in 0 .. V6Bits
    BY <1>2, Kinds, Sizes
  <2>. QED BY <2>1, NetworkBit
<1>. QED BY <1>1, <1>2 DEF NetworkKeepsHostBits

LEMMA MaskCounts ==
    AddrInv => MaskCountsPrefix
<1>1. ASSUME NEW p \in 1 .. V4Bits, NEW mask \in Subnet4(p) PROVE CountBytes(mask) = p
  <2>. DEFINE j == V4Bits - p
  <2>1. 0 \in 0 .. Ones(V4Bits) /\ V4Bits \in 0 .. V6Bits /\ p \in 0 .. V4Bits
    BY Sizes, OnesIs
  <2>2. LowBits(0, j, V4Bits) /\ mask = Complement(2^j - 1, V4Bits)
    BY <2>1, Exact4
  <2>3. mask = 2^V4Bits - 2^(V4Bits - p)
    BY <2>2 DEF LowBits
  <2>. QED BY <2>1, <2>3, CountMask
<1>. QED BY <1>1, PrefixCounted DEF MaskCountsPrefix

LEMMA PathComesBack ==
    AddrInv => PathKept
<1>. SUFFICES ASSUME AddrInv, addr.kind = "unix", addr.path # <<>>, addr.len = UnixLength(addr.path)
              PROVE  /\ addr.path[1] = 0 => GetPath(addr.mem, addr.len) = addr.path
                     /\ addr.path[1] # 0 => GetPath(addr.mem, addr.len) = SubSeq(addr.path, 1, FirstZero(addr.path) - 1)
  BY DEF PathKept, FirstZero
<1>. DEFINE u == addr.path
            m == addr.mem
            n == addr.len
<1>1. /\ u \in Seq(PathBytes) /\ m \in [1 .. PathSize -> PathBytes] /\ n \in 0 .. PathSize
      /\ (m = SunPath(u) /\ UnixFits(u)) \/ u = GetPath(m, n)
  BY Kinds DEF UnixRecs, PathOf
<1>. SUFFICES /\ u[1] = 0 => GetPath(m, n) = u
              /\ u[1] # 0 => GetPath(m, n) = SubSeq(u, 1, FirstZero(u) - 1)
  OBVIOUS
<1>2. u # <<>> /\ n = UnixLength(u)
  OBVIOUS
<1>. HIDE DEF u, m, n
<1>3. CASE m = SunPath(u) /\ UnixFits(u)
  BY <1>1, <1>2, <1>3, PathReadBack
<1>4. CASE u = GetPath(m, n)
  <2>1. u[1] # 0 => SubSeq(u, 1, FirstZero(u) - 1) = u
    BY <1>1, <1>2, <1>4, PathHasNoZero
  <2>. QED BY <1>4, <2>1
<1>. QED BY <1>1, <1>3, <1>4

LEMMA PathNumbers ==
    ASSUME NEW s \in Seq(PathBytes)
    PROVE  s \in Seq(Nat)
<1>1. Len(s) \in Nat /\ s = [i \in 1 .. Len(s) |-> s[i]] /\ \A i \in 1 .. Len(s) : s[i] \in PathBytes
  OBVIOUS
<1>2. s \in [1 .. Len(s) -> Nat]
  BY <1>1, PathBytesAre
<1>. QED BY <1>1, <1>2

LEMMA OrderTotal ==
    AddrInv => OrderIsTotal
<1>. SUFFICES ASSUME AddrInv, addr.kind = "unix" PROVE OrderIsTotal
  BY DEF OrderIsTotal
<1>. DEFINE a == SubSeq(addr.mem, 1, addr.len)
<1>1. a \in Seq(Nat)
  <2>1. addr.mem \in [1 .. PathSize -> PathBytes] /\ addr.len \in 0 .. PathSize /\ PathSize \in Nat
    BY Kinds, Sizes DEF UnixRecs
  <2>2. addr.mem \in Seq(Nat) /\ Len(addr.mem) = PathSize
    BY <2>1, GetPathIs, PathNumbers
  <2>3. addr.len \in Nat /\ addr.len <= Len(addr.mem) /\ 1 \in Nat \ {0}
    BY <2>1, <2>2
  <2>. QED BY <2>2, <2>3, PartOf
<1>2. \A p \in Paths : p \in Seq(Nat)
  BY PathsAre, PathNumbers
<1>. HIDE DEF a
<1>3. ASSUME NEW p \in Paths
      PROVE  /\ a # p => (Less(a, p) \/ Less(p, a))
             /\ ~(Less(a, p) /\ Less(p, a)) /\ ~Less(a, a)
             /\ \A q \in Paths : Less(a, p) /\ Less(p, q) => Less(a, q)
  <2>1. a # p => (Less(a, p) \/ Less(p, a))
    BY <1>1, <1>2, LessTotal
  <2>2. ~Less(a, a)
    BY <1>1, LessIrreflexive
  <2>3. Less(a, p) /\ Less(p, a) => Less(a, a)
    BY <1>1, <1>2, LessTransitive
  <2>4. \A q \in Paths : Less(a, p) /\ Less(p, q) => Less(a, q)
    BY <1>1, <1>2, LessTransitive
  <2>. QED BY <2>1, <2>2, <2>3, <2>4
<1>. QED BY <1>3 DEF OrderIsTotal, a

LEMMA TextDenotes ==
    AddrInv => TextDenotesAddress
<1>. DEFINE g == Groups(addr.ip)
            n == V6Bytes \div 2
<1>1. n \in Nat \ {0}
  <2>1. V6Bytes \in Nat \ {0} /\ V6Bytes % 2 = 0
    BY AddressAssumption
  <2>. QED BY <2>1
<1>. HIDE DEF n
<1>2. g = [k \in 1 .. n |-> addr.ip[2 * k - 1] * 2^ByteBits + addr.ip[2 * k]]
  BY DEF Groups, n
<1>. HIDE DEF g
<1>3. DOMAIN g = 1 .. n /\ Len(g) = n
  BY <1>1, <1>2
<1>4. \/ TextOf(g) = Written(g, 1, n)
      \/ \E a \in 0 .. n, z \in 1 .. n + 1 :
            /\ a + 1 < z /\ \A i \in a + 1 .. z - 1 : g[i] = 0
            /\ TextOf(g) = Written(g, 1, a) \o <<":", ":">> \o Written(g, z, n)
  BY <1>1, <1>3, TextIs
<1>5. \/ TextOf(g) = Written(g, 1, Len(g))
      \/ \E a \in 0 .. Len(g), z \in 1 .. Len(g) + 1 :
            /\ a + 1 < z /\ \A i \in a + 1 .. z - 1 : g[i] = 0
            /\ TextOf(g) = Written(g, 1, a) \o <<":", ":">> \o Written(g, z, Len(g))
  BY <1>3, <1>4, Zenon
<1>. QED BY <1>5, Zenon DEF TextDenotesAddress, g

\* Whatever an application derives, addresses stay exact: broadcastAddress fills the host
\* part bit by bit, networkAddress keeps the bits that NetworkKeepsHostBits names (which are
\* not the network's), the prefix length counted in a netmask is its own, the text of an
\* IPv6 address denotes it, Lookup takes a host apart as it is written, getPath gives back
\* the path of a UnixAddress, and operator< is a total order (address.cpp).
THEOREM AddressesAreExact == AddressSpec => []AddressExact
<1>1. AddressInit => AddrInv
  BY AddressInitially
<1>2. AddrInv /\ [AddressNext]_addr => AddrInv'
  BY AddressPreserved
<1>3. AddrInv => AddressExact
  <2>1. AddrInv => HostTakenApart
    BY Kinds, TakenApart
  <2>. QED BY <2>1, BroadcastFills, NetworkKeeps, MaskCounts, TextDenotes, PathComesBack, OrderTotal
           DEF AddressExact
<1>. QED BY <1>1, <1>2, <1>3, PTL DEF AddressSpec

-----------------------------------------------------------------------------
(* Patterns of the log                                                       *)

\* FlattenSeq, round by round.
LEMMA FlattenRounds ==
    ASSUME NEW S, NEW ss \in Seq(Seq(S)), Len(ss) # 0
    PROVE  \E h : /\ FlattenSeq(ss) = h[Len(ss)] /\ h[1] = ss[1]
                  /\ \A i \in 2 .. Len(ss) : h[i] = h[i - 1] \o ss[i]
                  /\ \A i \in 1 .. Len(ss) : h[i] \in Seq(S)
<1>. DEFINE n == Len(ss)
            D == Seq(S)
            step == [k \in 1 .. n - 1 |-> [d \in D |-> d \o ss[k + 1]]]
            Goes(f) == f = [i \in 1 .. n |-> IF i = 1 THEN ss[i] ELSE f[i - 1] \o ss[i]]
            h == CHOOSE f : Goes(f)
<1>1. n \in Nat \ {0} /\ n - 1 \in Nat /\ \A i \in 1 .. n : ss[i] \in D
  OBVIOUS
<1>2. FlattenSeq(ss) = h[n]
  BY DEF FlattenSeq
<1>3. \A d \in D, e \in D : d \o e \in D
  BY ConcatProperties
<1>. HIDE DEF n, D, h
<1>4. \A k \in 1 .. n - 1 : k + 1 \in 1 .. n
  BY <1>1
<1>5. step \in [1 .. n - 1 -> [D -> D]]
  BY <1>1, <1>3, <1>4
<1>6. ss[1] \in D
  BY <1>1
<1>7. PICK g : Iterates(g, D, ss[1], n - 1, step)
  <2>. HIDE DEF step
  <2>. QED BY <1>1, <1>5, <1>6, Iterate
<1>. DEFINE w == [i \in 1 .. n |-> g[i - 1]]
<1>8. \A i \in 1 .. n : w[i] = IF i = 1 THEN ss[i] ELSE w[i - 1] \o ss[i]
  <2>. SUFFICES ASSUME NEW i \in 1 .. n PROVE w[i] = IF i = 1 THEN ss[i] ELSE w[i - 1] \o ss[i]
    OBVIOUS
  <2>1. CASE i = 1
    <3>1. i - 1 = 0
      BY <2>1
    <3>2. w[i] = g[0]
      BY <3>1
    <3>. QED BY <1>7, <2>1, <3>2 DEF Iterates
  <2>2. CASE i # 1
    <3>. DEFINE k == i - 1
    <3>1. k \in 1 .. n - 1 /\ k \in 1 .. n /\ k - 1 \in 0 .. n - 1 /\ k + 1 = i
      BY <1>1, <2>2
    <3>. HIDE DEF k
    <3>2. g[k - 1] \in D /\ g[k] = step[k][g[k - 1]]
      BY <1>7, <3>1 DEF Iterates
    <3>3. g[k] = g[k - 1] \o ss[i]
      BY <3>1, <3>2
    <3>4. w[i] = g[k] /\ w[k] = g[k - 1]
      BY <3>1 DEF k
    <3>. QED BY <2>2, <3>3, <3>4 DEF k
  <2>. QED BY <2>1, <2>2
<1>9. w = [i \in 1 .. n |-> w[i]]
  OBVIOUS
<1>. HIDE DEF w
<1>10. Goes(w)
  BY <1>8, <1>9, Zenon
<1>11. Goes(h)
  BY <1>10 DEF h
<1>12. \A i \in 1 .. n : h[i] = IF i = 1 THEN ss[i] ELSE h[i - 1] \o ss[i]
  BY <1>11, Zenon
<1>13. h[1] = ss[1] /\ \A i \in 2 .. n : h[i] = h[i - 1] \o ss[i]
  <2>1. 1 \in 1 .. n /\ \A i \in 2 .. n : i \in 1 .. n /\ i # 1
    BY <1>1
  <2>. QED BY <1>12, <2>1, Zenon
<1>14. \A i \in 1 .. n : h[i] \in D
  <2>. DEFINE T == {m \in Nat : m + 1 <= n => h[m + 1] \in D}
  <2>1. 0 \in T
    BY <1>6, <1>13
  <2>2. ASSUME NEW m \in Nat, m \in T PROVE m + 1 \in T
    <3>1. ASSUME m + 1 + 1 <= n PROVE h[m + 1 + 1] \in D
      <4>. DEFINE i == m + 1 + 1
      <4>1. i \in 2 .. n /\ i \in 1 .. n /\ i - 1 = m + 1 /\ m + 1 <= n
        BY <1>1, <3>1
      <4>2. h[i - 1] \in D
        BY <2>2, <4>1
      <4>. HIDE DEF i
      <4>3. h[i] = h[i - 1] \o ss[i] /\ ss[i] \in D
        BY <1>1, <1>13, <4>1
      <4>4. h[i] \in D
        BY <1>3, <4>2, <4>3
      <4>. QED BY <4>4 DEF i
    <3>. QED BY <3>1
  <2>3. Nat \subseteq T
    <3>. HIDE DEF T
    <3>. QED BY <2>1, <2>2, SetInduction
  <2>4. ASSUME NEW i \in 1 .. n PROVE h[i] \in D
    <3>1. i - 1 \in Nat /\ i - 1 + 1 = i /\ i - 1 + 1 <= n
      BY <1>1
    <3>2. i - 1 \in T
      BY <2>3, <3>1
    <3>. QED BY <3>1, <3>2
  <2>. QED BY <2>4
<1>. QED BY <1>2, <1>13, <1>14 DEF n, D

\* One sequence more at the end of those that are joined.
LEMMA FlattenAppend ==
    ASSUME NEW S, NEW ss \in Seq(Seq(S)), NEW t \in Seq(S)
    PROVE  /\ FlattenSeq(<<>>) = <<>> /\ FlattenSeq(ss) \in Seq(S)
           /\ ss \o <<t>> \in Seq(Seq(S))
           /\ FlattenSeq(ss \o <<t>>) = FlattenSeq(ss) \o t
<1>. DEFINE D == Seq(S)
            n == Len(ss)
            u == ss \o <<t>>
<1>1. n \in Nat /\ <<t>> \in Seq(D) /\ Len(<<t>>) = 1 /\ <<t>>[1] = t
  OBVIOUS
<1>2. /\ u \in Seq(D) /\ Len(u) = n + 1
      /\ \A i \in 1 .. n + 1 : u[i] = IF i <= n THEN ss[i] ELSE <<t>>[i - n]
  BY <1>1, ConcatProperties
<1>. HIDE DEF u
<1>3. (\A i \in 1 .. n : u[i] = ss[i]) /\ u[n + 1] = t
  <2>1. \A i \in 1 .. n : i \in 1 .. n + 1 /\ i <= n
    BY <1>1
  <2>2. n + 1 \in 1 .. n + 1 /\ ~(n + 1 <= n) /\ n + 1 - n = 1
    BY <1>1
  <2>3. \A i \in 1 .. n : u[i] = ss[i]
    BY <1>2, <2>1
  <2>5. u[n + 1] = t
    <3>. DEFINE m == n + 1
                v == <<t>>
    <3>1. m \in 1 .. m /\ ~(m <= n) /\ m - n = 1 /\ v[1] = t
      BY <1>1, <2>2
    <3>2. \A i \in 1 .. m : u[i] = IF i <= n THEN ss[i] ELSE v[i - n]
      BY <1>2
    <3>. HIDE DEF m, v
    <3>3. u[m] = t
      BY <3>1, <3>2
    <3>. QED BY <3>3 DEF m
  <2>. QED BY <2>3, <2>5
<1>4. FlattenSeq(<<>>) = <<>>
  BY DEF FlattenSeq
<1>5. PICK h : /\ FlattenSeq(u) = h[n + 1] /\ h[1] = u[1]
               /\ \A i \in 2 .. n + 1 : h[i] = h[i - 1] \o u[i]
  <2>1. Len(u) # 0 /\ u \in Seq(Seq(S))
    BY <1>1, <1>2 DEF D
  <2>2. \E h : /\ FlattenSeq(u) = h[Len(u)] /\ h[1] = u[1]
               /\ \A i \in 2 .. Len(u) : h[i] = h[i - 1] \o u[i]
               /\ \A i \in 1 .. Len(u) : h[i] \in Seq(S)
    BY <2>1, FlattenRounds
  <2>. QED BY <1>2, <2>2, Zenon
<1>6. CASE n = 0
  <2>1. ss = <<>> /\ FlattenSeq(ss) = <<>> /\ <<>> \in Seq(S)
    BY <1>4, <1>6
  <2>2. FlattenSeq(u) = t
    BY <1>3, <1>5, <1>6
  <2>3. <<>> \o t = t
    BY ConcatEmptySeq
  <2>. QED BY <1>2, <1>4, <2>1, <2>2, <2>3 DEF u, D
<1>7. CASE n # 0
  <2>1. PICK g : /\ FlattenSeq(ss) = g[n] /\ g[1] = ss[1]
                 /\ \A i \in 2 .. n : g[i] = g[i - 1] \o ss[i]
                 /\ \A i \in 1 .. n : g[i] \in Seq(S)
    BY <1>7, FlattenRounds
  <2>. DEFINE T == {m \in Nat : m + 1 <= n => h[m + 1] = g[m + 1]}
  <2>2. 0 \in T
    <3>1. 1 \in 1 .. n
      BY <1>1, <1>7
    <3>2. h[1] = g[1]
      BY <1>3, <1>5, <2>1, <3>1
    <3>. QED BY <3>2
  <2>3. ASSUME NEW m \in Nat, m \in T PROVE m + 1 \in T
    <3>1. ASSUME m + 1 + 1 <= n PROVE h[m + 1 + 1] = g[m + 1 + 1]
      <4>. DEFINE i == m + 1 + 1
      <4>1. i \in 2 .. n /\ i \in 1 .. n /\ i \in 2 .. n + 1 /\ i - 1 = m + 1 /\ m + 1 <= n
        BY <1>1, <3>1
      <4>2. h[i - 1] = g[i - 1]
        BY <2>3, <4>1
      <4>. HIDE DEF i
      <4>3. h[i] = h[i - 1] \o u[i] /\ g[i] = g[i - 1] \o ss[i] /\ u[i] = ss[i]
        BY <1>3, <1>5, <2>1, <4>1, Zenon
      <4>4. h[i] = g[i]
        BY <4>2, <4>3, Zenon
      <4>. QED BY <4>4 DEF i
    <3>. QED BY <3>1
  <2>4. Nat \subseteq T
    <3>. HIDE DEF T
    <3>. QED BY <2>2, <2>3, SetInduction
  <2>5. h[n] = g[n]
    <3>1. n - 1 \in Nat /\ n - 1 + 1 = n /\ n - 1 + 1 <= n
      BY <1>1, <1>7
    <3>2. n - 1 \in T
      BY <2>4, <3>1
    <3>. QED BY <3>1, <3>2
  <2>6. n + 1 \in 2 .. n + 1 /\ n + 1 - 1 = n /\ n \in 1 .. n
    BY <1>1, <1>7
  <2>7. h[n + 1] = h[n] \o t
    <3>. DEFINE m == n + 1
    <3>1. m \in 2 .. m /\ m - 1 = n /\ u[m] = t
      BY <1>3, <2>6
    <3>2. \A i \in 2 .. m : h[i] = h[i - 1] \o u[i]
      BY <1>5
    <3>. HIDE DEF m, n
    <3>3. h[m] = h[m - 1] \o u[m]
      BY <3>1, <3>2
    <3>4. h[m] = h[n] \o t
      BY <3>1, <3>3
    <3>. QED BY <3>4 DEF m
  <2>8. FlattenSeq(u) = FlattenSeq(ss) \o t
    BY <1>5, <2>1, <2>5, <2>7, Zenon
  <2>. QED BY <1>2, <1>4, <2>1, <2>6, <2>8 DEF u, D
<1>. QED BY <1>6, <1>7

\* What is joined in two parts.
LEMMA FlattenConcat ==
    ASSUME NEW S, NEW ss \in Seq(Seq(S)), NEW tt \in Seq(Seq(S))
    PROVE  FlattenSeq(ss \o tt) = FlattenSeq(ss) \o FlattenSeq(tt)
<1>. DEFINE D == Seq(S)
            T == {m \in Nat : \A vv \in Seq(D) : Len(vv) = m => FlattenSeq(ss \o vv) = FlattenSeq(ss) \o FlattenSeq(vv)}
<1>1. FlattenSeq(ss) \in D /\ FlattenSeq(<<>>) = <<>>
  <2>1. <<>> \in Seq(S)
    OBVIOUS
  <2>. QED BY <2>1, FlattenAppend
<1>2. 0 \in T
  <2>1. ASSUME NEW vv \in Seq(D), Len(vv) = 0
        PROVE  FlattenSeq(ss \o vv) = FlattenSeq(ss) \o FlattenSeq(vv)
    <3>1. vv = <<>>
      BY <2>1
    <3>2. ss \o <<>> = ss /\ FlattenSeq(ss) \o <<>> = FlattenSeq(ss)
      BY <1>1, ConcatEmptySeq
    <3>. QED BY <1>1, <3>1, <3>2, Zenon
  <2>. QED BY <2>1
<1>3. ASSUME NEW m \in Nat, m \in T PROVE m + 1 \in T
  <2>1. ASSUME NEW vv \in Seq(D), Len(vv) = m + 1
        PROVE  FlattenSeq(ss \o vv) = FlattenSeq(ss) \o FlattenSeq(vv)
    <3>. DEFINE w == SubSeq(vv, 1, m)
                t == vv[m + 1]
    <3>1. 1 \in 1 .. Len(vv) /\ m + 1 \in 1 .. Len(vv) /\ m + 1 - 1 = m /\ t \in D
      BY <2>1
    <3>2. vv = w \o <<t>>
      <4>1. SubSeq(vv, 1, m + 1) = SubSeq(vv, 1, m + 1 - 1) \o <<vv[m + 1]>>
        BY <3>1, SubSeqRecursiveSecond
      <4>2. SubSeq(vv, 1, Len(vv)) = vv
        BY SubSeqFull
      <4>. QED BY <2>1, <3>1, <4>1, <4>2
    <3>3. w \in Seq(D) /\ Len(w) = m
      <4>1. m <= Len(vv) /\ 1 \in Nat \ {0}
        BY <2>1
      <4>2. w \in Seq(D) /\ (1 <= m => Len(w) = m - 1 + 1) /\ (m < 1 => Len(w) = 0)
        BY <4>1, PartOf
      <4>. HIDE DEF w
      <4>. QED BY <4>2
    <3>. HIDE DEF w, t
    <3>4. <<t>> \in Seq(D)
      BY <3>1
    <3>. DEFINE x == <<t>>
    <3>5. x \in Seq(D)
      BY <3>4
    <3>6. ss \o (w \o x) = (ss \o w) \o x /\ ss \o w \in Seq(D)
      <4>1. ss \in Seq(D)
        OBVIOUS
      <4>. HIDE DEF x, D
      <4>2. (ss \o w) \o x = ss \o (w \o x)
        BY <3>3, <3>5, <4>1, ConcatAssociative
      <4>3. ss \o w \in Seq(D)
        BY <3>3, <4>1, ConcatProperties
      <4>. QED BY <4>2, <4>3
    <3>7. FlattenSeq(ss \o w) = FlattenSeq(ss) \o FlattenSeq(w)
      BY <1>3, <3>3
    <3>8. FlattenSeq((ss \o w) \o <<t>>) = FlattenSeq(ss \o w) \o t
      BY <3>1, <3>6, FlattenAppend
    <3>9. FlattenSeq(w \o <<t>>) = FlattenSeq(w) \o t /\ FlattenSeq(w) \in D
      BY <3>1, <3>3, FlattenAppend
    <3>10. (FlattenSeq(ss) \o FlattenSeq(w)) \o t = FlattenSeq(ss) \o (FlattenSeq(w) \o t)
      <4>. DEFINE f == FlattenSeq(ss)
                  g == FlattenSeq(w)
      <4>1. f \in Seq(S) /\ g \in Seq(S) /\ t \in Seq(S)
        BY <1>1, <3>1, <3>9
      <4>. HIDE DEF f, g
      <4>2. (f \o g) \o t = f \o (g \o t)
        BY <4>1, ConcatAssociative
      <4>. QED BY <4>2 DEF f, g
    <3>. QED BY <3>2, <3>6, <3>7, <3>8, <3>9, <3>10, Zenon
  <2>2. m + 1 \in Nat
    OBVIOUS
  <2>. QED BY <2>1, <2>2
<1>4. Nat \subseteq T
  <2>. HIDE DEF T
  <2>. QED BY <1>2, <1>3, SetInduction
<1>5. Len(tt) \in T
  BY <1>4
<1>. QED BY <1>5

ItemRecs == [kind : {0, 1, 2}, str : Seq(Chars), fmt : Seq(Chars)]

\* What items spell.
Spelled(v) == FlattenSeq([i \in DOMAIN v |-> Spell(v[i])])

LEMMA OneElement ==
    ASSUME NEW S, NEW x \in S
    PROVE  <<x>> \in Seq(S) /\ Len(<<x>>) = 1 /\ <<x>>[1] = x
  OBVIOUS

LEMMA SpellIs ==
    ASSUME NEW x \in ItemRecs
    PROVE  Spell(x) \in Seq(Chars)
<1>1. x.str \in Seq(Chars) /\ x.fmt \in Seq(Chars) /\ x.kind \in {0, 1, 2}
  BY DEF ItemRecs
<1>2. "%" \in Chars /\ "{" \in Chars /\ "}" \in Chars
  BY DEF Chars
<1>3. <<"%">> \in Seq(Chars) /\ <<"{">> \in Seq(Chars) /\ <<"}">> \in Seq(Chars) /\ <<>> \in Seq(Chars)
  <2>1. \A d \in Chars : <<d>> \in Seq(Chars)
    BY OneElement
  <2>2. <<>> \in Seq(Chars)
    OBVIOUS
  <2>. QED BY <1>2, <2>1, <2>2, Zenon
<1>. DEFINE S == Seq(Chars)
            a == <<"%">>
            b == <<"{">>
            c == <<"}">>
<1>4. \A d \in S, e \in S : d \o e \in S
  BY ConcatProperties
<1>5. CASE x.kind = 0
  BY <1>1, <1>5 DEF Spell
<1>6. CASE x.kind = 1
  <2>. DEFINE f == IF x.fmt = <<>> THEN <<>> ELSE b \o x.fmt \o c
  <2>1. Spell(x) = a \o x.str \o f
    BY <1>6 DEF Spell
  <2>2. a \in S /\ b \in S /\ c \in S /\ <<>> \in S /\ x.str \in S /\ x.fmt \in S
    BY <1>1, <1>3
  <2>. HIDE DEF a, b, c, S
  <2>3. f \in S
    BY <1>4, <2>2
  <2>. HIDE DEF f
  <2>4. Spell(x) \in S
    BY <1>4, <2>1, <2>2, <2>3
  <2>. QED BY <2>4 DEF S
<1>7. CASE x.kind = 2
  <2>1. x.kind # 0 /\ x.kind # 1
    BY <1>7
  <2>2. Spell(x) = <<>>
    BY <2>1, Zenon DEF Spell
  <2>. QED BY <1>3, <2>2
<1>. QED BY <1>1, <1>5, <1>6, <1>7

\* A vector of items spells what its parts spell.
LEMMA SpelledParts ==
    ASSUME NEW v \in Seq(ItemRecs), NEW w \in Seq(ItemRecs)
    PROVE  /\ v \o w \in Seq(ItemRecs) /\ Spelled(v) \in Seq(Chars)
           /\ Spelled(v \o w) = Spelled(v) \o Spelled(w)
<1>. DEFINE P(u) == [i \in DOMAIN u |-> Spell(u[i])]
            S == Seq(Chars)
<1>1. ASSUME NEW u \in Seq(ItemRecs) PROVE P(u) \in Seq(S) /\ Len(P(u)) = Len(u) /\ \A i \in 1 .. Len(u) : P(u)[i] = Spell(u[i])
  <2>1. DOMAIN u = 1 .. Len(u) /\ Len(u) \in Nat /\ \A i \in 1 .. Len(u) : u[i] \in ItemRecs
    OBVIOUS
  <2>2. \A i \in 1 .. Len(u) : Spell(u[i]) \in S
    BY <2>1, SpellIs
  <2>. HIDE DEF S
  <2>. QED BY <2>1, <2>2
<1>. DEFINE m == Len(v)
            n == Len(w)
            x == v \o w
<1>2. /\ x \in Seq(ItemRecs) /\ Len(x) = m + n /\ m \in Nat /\ n \in Nat
      /\ \A i \in 1 .. m + n : x[i] = IF i <= m THEN v[i] ELSE w[i - m]
  BY ConcatProperties
<1>. DEFINE p == P(v)
            q == P(w)
            r == P(x)
<1>3. p \in Seq(S) /\ q \in Seq(S) /\ r \in Seq(S) /\ Len(p) = m /\ Len(q) = n /\ Len(r) = m + n
  <2>1. p \in Seq(S) /\ q \in Seq(S) /\ Len(p) = m /\ Len(q) = n
    BY <1>1
  <2>2. r \in Seq(S) /\ Len(r) = Len(x)
    BY <1>1, <1>2
  <2>. QED BY <1>2, <2>1, <2>2
<1>4. /\ \A i \in 1 .. m : p[i] = Spell(v[i])
      /\ \A i \in 1 .. n : q[i] = Spell(w[i])
      /\ \A i \in 1 .. m + n : r[i] = Spell(x[i])
  <2>1. \A i \in 1 .. Len(x) : r[i] = Spell(x[i])
    BY <1>1, <1>2
  <2>2. (\A i \in 1 .. m : p[i] = Spell(v[i])) /\ (\A i \in 1 .. n : q[i] = Spell(w[i]))
    BY <1>1
  <2>. QED BY <1>2, <2>1, <2>2
<1>5. Spelled(v) = FlattenSeq(p) /\ Spelled(w) = FlattenSeq(q) /\ Spelled(x) = FlattenSeq(r)
  BY DEF Spelled
<1>. HIDE DEF p, q, r, x, P, S, m, n
<1>6. r = p \o q
  <2>1. /\ p \o q \in Seq(S) /\ Len(p \o q) = m + n
        /\ \A i \in 1 .. m + n : (p \o q)[i] = IF i <= m THEN p[i] ELSE q[i - m]
    <3>1. /\ p \o q \in Seq(S) /\ Len(p \o q) = Len(p) + Len(q)
          /\ \A i \in 1 .. Len(p) + Len(q) : (p \o q)[i] = IF i <= Len(p) THEN p[i] ELSE q[i - Len(p)]
      BY <1>3, ConcatProperties
    <3>. QED BY <1>3, <3>1, Zenon
  <2>2. ASSUME NEW i \in 1 .. m + n PROVE r[i] = (p \o q)[i]
    <3>1. CASE i <= m
      <4>1. i \in 1 .. m
        BY <1>2, <3>1
      <4>. QED BY <1>2, <1>4, <2>1, <3>1, <4>1
    <3>2. CASE ~(i <= m)
      <4>1. i - m \in 1 .. n
        BY <1>2, <3>2
      <4>. QED BY <1>2, <1>4, <2>1, <3>2, <4>1
    <3>. QED BY <3>1, <3>2
  <2>. QED BY <1>3, <2>1, <2>2, SeqEqual
<1>7. p \in Seq(Seq(Chars)) /\ q \in Seq(Seq(Chars)) /\ <<>> \in Seq(Chars)
  BY <1>3 DEF S
<1>8. FlattenSeq(p) \in Seq(Chars)
  BY <1>7, FlattenAppend
<1>9. FlattenSeq(r) = FlattenSeq(p) \o FlattenSeq(q)
  BY <1>6, <1>7, FlattenConcat
<1>. QED BY <1>2, <1>5, <1>8, <1>9 DEF x

-----------------------------------------------------------------------------
(* Places in a pattern, and what a directive reads there                     *)

\* The find of init(): the first place with one of cs, and none before it.
LEMMA FirstOfIs ==
    ASSUME NEW p \in Seq(Chars), NEW i \in 1 .. Len(p) + 1, NEW cs
    PROVE  /\ FirstOf(p, i, cs) \in i .. Len(p) + 1
           /\ FirstOf(p, i, cs) <= Len(p) => p[FirstOf(p, i, cs)] \in cs
           /\ \A j \in i .. Len(p) : j < FirstOf(p, i, cs) => p[j] \notin cs
<1>. DEFINE n == Len(p)
            T == {j \in i .. n : p[j] \in cs} \union {n + 1}
            f == FirstOf(p, i, cs)
<1>1. n \in Nat /\ i \in Nat /\ i <= n + 1
  OBVIOUS
<1>. HIDE DEF n
<1>2. T \in SUBSET Nat /\ T # {}
  BY <1>1
<1>3. f = CHOOSE x \in T : \A y \in T : x <= y
  BY DEF FirstOf, Min, n
<1>4. \E x \in T : \A y \in T : x <= y
  BY <1>2, LeastNat
<1>. HIDE DEF f
<1>5. f \in T /\ \A y \in T : f <= y
  <2>. HIDE DEF T
  <2>. QED BY <1>3, <1>4
<1>6. f \in i .. n + 1 /\ (f <= n => p[f] \in cs)
  BY <1>1, <1>5
<1>7. ASSUME NEW j \in i .. n, j < f, p[j] \in cs PROVE FALSE
  <2>1. j \in T /\ f \in Nat /\ j \in Nat
    BY <1>1, <1>6, <1>7
  <2>2. f <= j
    BY <1>5, <2>1
  <2>. QED BY <1>7, <2>1, <2>2
<1>. QED BY <1>6, <1>7 DEF f, n

\* The characters of p from a on and before b.
Piece(p, a, b) == SubSeq(p, a, b - 1)

\* Neighbouring pieces of a pattern make the piece from the one's start to the other's end.
LEMMA PiecesJoin ==
    ASSUME NEW S, NEW p \in Seq(S), NEW a \in 1 .. Len(p) + 1, NEW b \in a .. Len(p) + 1, NEW c \in b .. Len(p) + 1
    PROVE  /\ Piece(p, a, b) \in Seq(S) /\ Piece(p, b, c) \in Seq(S) /\ Piece(p, a, c) \in Seq(S)
           /\ Piece(p, a, b) \o Piece(p, b, c) = Piece(p, a, c)
<1>. DEFINE n == Len(p)
            k == b - 1
            m == c - 1
<1>1. /\ n \in Nat /\ a \in Nat \ {0} /\ b \in Nat \ {0} /\ c \in Nat \ {0} /\ k \in Nat /\ m \in Nat /\ b = k + 1 /\ c = m + 1
      /\ a \in 1 .. n + 1 /\ k \in a - 1 .. n /\ m \in k .. n /\ k <= n /\ m <= n
  OBVIOUS
<1>. HIDE DEF k, m
<1>2. SubSeq(p, a, k) \in Seq(S) /\ SubSeq(p, b, m) \in Seq(S) /\ SubSeq(p, a, m) \in Seq(S)
  BY <1>1, PartOf
<1>3. SubSeq(p, a, k) \o SubSeq(p, k + 1, m) = SubSeq(p, a, m)
  BY <1>1, ConcatAdjacentSubSeq
<1>. QED BY <1>1, <1>2, <1>3, Zenon DEF Piece, k, m

LEMMA PieceEnds ==
    ASSUME NEW S, NEW p \in Seq(S)
    PROVE  /\ Piece(p, 1, Len(p) + 1) = p
           /\ \A a \in 1 .. Len(p) + 1 : Piece(p, a, a) = <<>>
           /\ \A a \in 1 .. Len(p) : Piece(p, a, a + 1) = <<p[a]>>
<1>. DEFINE n == Len(p)
<1>1. n \in Nat /\ n + 1 - 1 = n
  OBVIOUS
<1>2. Piece(p, 1, n + 1) = p
  <2>1. SubSeq(p, 1, n) = p
    BY SubSeqFull
  <2>2. Piece(p, 1, n + 1) = SubSeq(p, 1, n + 1 - 1)
    BY DEF Piece
  <2>. HIDE DEF n
  <2>. QED BY <1>1, <2>1, <2>2 DEF n
<1>3. ASSUME NEW a \in 1 .. n + 1 PROVE Piece(p, a, a) = <<>>
  <2>. DEFINE k == a - 1
  <2>1. a \in Int /\ k \in Int /\ k < a
    OBVIOUS
  <2>. HIDE DEF k
  <2>2. SubSeq(p, a, k) = <<>>
    BY <2>1, SubSeqEmpty
  <2>. QED BY <2>2 DEF Piece, k
<1>4. ASSUME NEW a \in 1 .. n PROVE Piece(p, a, a + 1) = <<p[a]>>
  <2>1. a + 1 - 1 = a /\ a \in a .. n /\ a \in 1 .. n /\ a \in 1 .. n + 1 /\ a \in Nat
    BY <1>1
  <2>2. SubSeq(p, a, a) = SubSeq(p, a, a - 1) \o <<p[a]>>
    BY <2>1, SubSeqRecursiveSecond
  <2>3. SubSeq(p, a, a - 1) = <<>>
    BY <1>3, <2>1 DEF Piece
  <2>4. <<>> \o <<p[a]>> = <<p[a]>>
    <3>. DEFINE v == <<p[a]>>
    <3>1. p[a] \in S
      BY <2>1
    <3>2. v \in Seq(S)
      BY <3>1
    <3>. HIDE DEF v
    <3>3. <<>> \o v = v
      BY <3>2, ConcatEmptySeq
    <3>. QED BY <3>3 DEF v
  <2>5. SubSeq(p, a, a) = <<p[a]>>
    BY <2>2, <2>3, <2>4, Zenon
  <2>6. Piece(p, a, a + 1) = SubSeq(p, a, a + 1 - 1)
    BY DEF Piece
  <2>. QED BY <2>1, <2>5, <2>6
<1>. QED BY <1>2, <1>3, <1>4

LEMMA PieceIsOne ==
    ASSUME NEW S, NEW p \in Seq(S), NEW a \in 1 .. Len(p) + 1, NEW b \in a .. Len(p) + 1, NEW x
    PROVE  /\ Piece(p, a, b) = <<>> <=> a = b
           /\ Piece(p, a, b) = <<x>> <=> b = a + 1 /\ p[a] = x
<1>. DEFINE k == b - 1
            w == Piece(p, a, b)
            v == <<x>>
<1>1. a \in Nat \ {0} /\ b \in Nat /\ k \in Nat /\ k <= Len(p) /\ b = k + 1 /\ a <= b /\ Len(p) \in Nat
  OBVIOUS
<1>2. Len(v) = 1 /\ v[1] = x /\ Len(<<>>) = 0 /\ v # <<>>
  OBVIOUS
<1>. HIDE DEF k, v
<1>3. /\ a <= k => Len(SubSeq(p, a, k)) = k - a + 1
      /\ k < a => Len(SubSeq(p, a, k)) = 0
      /\ \A i \in 1 .. k - a + 1 : SubSeq(p, a, k)[i] = p[a + i - 1]
  BY <1>1, PartOf
<1>4. w = SubSeq(p, a, k)
  BY DEF Piece, k
<1>. HIDE DEF w
<1>5. Len(w) = b - a /\ (a <= k => w[1] = p[a])
  <2>1. Len(w) = b - a
    BY <1>1, <1>3, <1>4
  <2>2. ASSUME a <= k PROVE w[1] = p[a]
    <3>1. 1 \in 1 .. k - a + 1 /\ a + 1 - 1 = a
      BY <1>1, <2>2
    <3>2. SubSeq(p, a, k)[1] = p[a + 1 - 1]
      BY <1>3, <3>1
    <3>. QED BY <1>4, <3>1, <3>2
  <2>. QED BY <2>1, <2>2
<1>6. w = <<>> => a = b
  BY <1>1, <1>2, <1>5
<1>7. a = b => w = <<>>
  BY PieceEnds DEF w
<1>8. w = v => b = a + 1 /\ p[a] = x
  <2>. SUFFICES ASSUME w = v PROVE b = a + 1 /\ p[a] = x
    OBVIOUS
  <2>1. b - a = 1
    BY <1>2, <1>5
  <2>2. b = a + 1 /\ a <= k
    BY <1>1, <2>1
  <2>. QED BY <1>2, <1>5, <2>2
<1>9. ASSUME b = a + 1, p[a] = x PROVE w = v
  <2>1. a \in 1 .. Len(p)
    BY <1>1, <1>9
  <2>2. Piece(p, a, a + 1) = <<p[a]>>
    BY <2>1, PieceEnds
  <2>. QED BY <1>9, <2>2, Zenon DEF w, v
<1>. QED BY <1>6, <1>7, <1>8, <1>9 DEF w, v

\* The characters by name: the provers read few strings at a time.
Pct == "%"
LBrace == "{"
RBrace == "}"
Em == "m"
Enders == {"%", "_"}
Stops == Chars \ {"m", "x", "{", "}"}

LEMMA CharFacts ==
    /\ Pct \in Chars /\ LBrace \in Chars /\ RBrace \in Chars /\ Em \in Chars
    /\ Pct \in Stops /\ Em \notin Stops /\ Em # Pct
    /\ \A c \in Chars : c # LBrace /\ c # RBrace => (c \in Stops <=> c \in Enders)
<1>1. Pct \in Chars /\ LBrace \in Chars /\ RBrace \in Chars /\ Em \in Chars
  BY Zenon DEF Chars, Pct, LBrace, RBrace, Em
<1>2. Pct \in Stops
  BY Zenon DEF Stops, Chars, Pct
<1>3. Em \notin Stops
  BY Zenon DEF Stops, Em
<1>4. ASSUME NEW c \in Chars, c # LBrace, c # RBrace PROVE c \in Stops <=> c \in Enders
  <2>1. c = "%" \/ c = "m" \/ c = "x" \/ c = "_"
    BY <1>4, Zenon DEF Chars, LBrace, RBrace
  <2>2. CASE c = "%"
    BY <2>2, Zenon DEF Stops, Enders, Chars
  <2>3. CASE c = "_"
    BY <2>3, Zenon DEF Stops, Enders, Chars
  <2>4. CASE c = "m"
    BY <2>4, Zenon DEF Stops, Enders, Chars
  <2>5. CASE c = "x"
    BY <2>5, Zenon DEF Stops, Enders, Chars
  <2>. QED BY <2>1, <2>2, <2>3, <2>4, <2>5, Zenon
<1>5. Em # Pct
  BY <1>2, <1>3, Zenon
<1>. QED BY <1>1, <1>2, <1>3, <1>4, <1>5, Zenon

Braceless(p) == \A i \in DOMAIN p : p[i] # LBrace /\ p[i] # RBrace

\* The percent sign at i is one that init() accepts.
Twice(p, i) == i < Len(p) /\ p[i + 1] = Pct
GoodAt(p, i) == Twice(p, i) \/ (i < Len(p) /\ p[i + 1] = Em /\ (i + 2 <= Len(p) => p[i + 2] \in Enders))

LEMMA ItemIs ==
    ASSUME NEW str \in Seq(Chars), NEW fmt \in Seq(Chars)
    PROVE  /\ Item(str, fmt) \in ItemRecs /\ Item(str, fmt).kind = 1
           /\ Item(str, fmt).str = str /\ Item(str, fmt).fmt = fmt
           /\ Literal(str) \in ItemRecs /\ Literal(str).kind = 0 /\ Literal(str).str = str
           /\ PatternError \in ItemRecs /\ PatternError.kind = 2
<1>. DEFINE S == Seq(Chars)
            e == <<>>
<1>1. e \in S /\ str \in S /\ fmt \in S
  OBVIOUS
<1>. HIDE DEF S, e
<1>2. /\ [kind |-> 1, str |-> str, fmt |-> fmt] \in [kind : {0, 1, 2}, str : S, fmt : S]
      /\ [kind |-> 0, str |-> str, fmt |-> e] \in [kind : {0, 1, 2}, str : S, fmt : S]
      /\ [kind |-> 2, str |-> e, fmt |-> e] \in [kind : {0, 1, 2}, str : S, fmt : S]
  BY <1>1
<1>. QED BY <1>2 DEF Item, Literal, PatternError, ItemRecs, S, e

\* An item without a format spells the piece it was read from.
LEMMA DirectivePlain ==
    ASSUME NEW p \in Seq(Chars), NEW i \in 1 .. Len(p), p[i] = Pct, NEW stop \in i + 1 .. Len(p) + 1
    PROVE  LET x == Item(Piece(p, i + 1, stop), <<>>) IN
           x \in ItemRecs /\ x.kind = 1 /\ Spell(x) = Piece(p, i, stop)
<1>. DEFINE j == i + 1
            str == Piece(p, j, stop)
            x == Item(str, <<>>)
            c == Pct
            e == <<>>
<1>1. i \in 1 .. Len(p) + 1 /\ j \in i .. Len(p) + 1 /\ j \in 1 .. Len(p) + 1 /\ stop \in j .. Len(p) + 1
  OBVIOUS
<1>2. Piece(p, i, j) = <<c>>
  BY PieceEnds
<1>. HIDE DEF j
<1>3. str \in Seq(Chars) /\ Piece(p, i, j) \in Seq(Chars) /\ Piece(p, i, j) \o str = Piece(p, i, stop)
  BY <1>1, PiecesJoin
<1>4. e \in Seq(Chars)
  OBVIOUS
<1>. HIDE DEF str, e
<1>5. Item(str, e) \in ItemRecs /\ Item(str, e).kind = 1 /\ Item(str, e).str = str /\ Item(str, e).fmt = e
  BY <1>3, <1>4, ItemIs
<1>. DEFINE y == Item(str, e)
<1>. HIDE DEF y
<1>6. y.kind # 0
  BY <1>5 DEF y
<1>7. Spell(y) = (<<Pct>> \o str) \o <<>>
  <2>1. Spell(y) = <<Pct>> \o y.str \o (IF y.fmt = <<>> THEN <<>> ELSE <<LBrace>> \o y.fmt \o <<RBrace>>)
    BY <1>5, <1>6, Zenon DEF Spell, y, Pct, LBrace, RBrace
  <2>2. y.str = str /\ y.fmt = <<>>
    BY <1>5 DEF y, e
  <2>. QED BY <2>1, <2>2, Zenon
<1>8. Piece(p, i, stop) \in Seq(Chars)
  BY <1>1, PiecesJoin
<1>9. Piece(p, i, stop) \o <<>> = Piece(p, i, stop)
  BY <1>8, ConcatEmptySeq
<1>10. Spell(y) = Piece(p, i, stop)
  BY <1>2, <1>3, <1>7, <1>9, Zenon
<1>. QED BY <1>5, <1>10, Zenon DEF y, e, str, j

\* So does one with a format, unless the format is empty: its braces are lost.
LEMMA DirectiveFormat ==
    ASSUME NEW p \in Seq(Chars), NEW i \in 1 .. Len(p), p[i] = Pct,
           NEW brace \in i + 1 .. Len(p), p[brace] = LBrace, NEW close \in brace + 1 .. Len(p), p[close] = RBrace
    PROVE  LET x == Item(Piece(p, i + 1, brace), Piece(p, brace + 1, close)) IN
           x \in ItemRecs /\ x.kind = 1 /\ (~Has(p, LBrace, RBrace) => Spell(x) = Piece(p, i, close + 1))
<1>. DEFINE n == Len(p)
            j == i + 1
            k == brace + 1
            m == close + 1
<1>0. /\ n \in Nat /\ i \in Nat /\ brace \in Nat /\ close \in Nat /\ 1 <= i /\ i + 1 <= brace /\ brace + 1 <= close /\ close <= n
  OBVIOUS
<1>1. /\ i \in 1 .. n + 1 /\ j \in 1 .. n + 1 /\ brace \in 1 .. n + 1 /\ k \in 1 .. n + 1 /\ close \in 1 .. n + 1
      /\ j \in i .. n + 1 /\ brace \in j .. n + 1 /\ brace \in i .. n + 1 /\ k \in brace .. n + 1
      /\ k \in i .. n + 1 /\ close \in k .. n + 1 /\ close \in i .. n + 1 /\ m \in close .. n + 1
      /\ close \in brace .. n + 1 /\ m \in brace .. n + 1
  <2>. HIDE DEF n
  <2>. QED BY <1>0
<1>. DEFINE str == Piece(p, j, brace)
            fmt == Piece(p, k, close)
            a == <<Pct>>
            b == <<LBrace>>
            c == <<RBrace>>
<1>2. Piece(p, i, j) = a /\ Piece(p, brace, k) = b /\ Piece(p, close, m) = c
  <2>1. i \in 1 .. Len(p) /\ brace \in 1 .. Len(p) /\ close \in 1 .. Len(p)
    BY <1>0
  <2>2. \A z \in 1 .. Len(p) : Piece(p, z, z + 1) = <<p[z]>>
    BY PieceEnds
  <2>3. Piece(p, i, i + 1) = <<p[i]>> /\ Piece(p, brace, brace + 1) = <<p[brace]>> /\ Piece(p, close, close + 1) = <<p[close]>>
    BY <2>1, <2>2, Zenon
  <2>. QED BY <2>3, Zenon
<1>3. ASSUME ~Has(p, LBrace, RBrace) PROVE k # close
  <2>1. brace \in 1 .. Len(p) - 1
    BY <1>0
  <2>2. ~(p[brace] = LBrace /\ p[brace + 1] = RBrace)
    BY <1>3, <2>1 DEF Has
  <2>. QED BY <2>2
<1>. HIDE DEF j, k, m
<1>4. /\ str \in Seq(Chars) /\ fmt \in Seq(Chars) /\ Piece(p, i, j) \in Seq(Chars) /\ Piece(p, brace, k) \in Seq(Chars) /\ Piece(p, close, m) \in Seq(Chars)
  BY <1>1, PiecesJoin
<1>5. Piece(p, i, j) \o str = Piece(p, i, brace)
  BY <1>1, PiecesJoin
<1>6. Piece(p, brace, k) \o fmt = Piece(p, brace, close)
  BY <1>1, PiecesJoin
<1>7. Piece(p, brace, close) \o Piece(p, close, m) = Piece(p, brace, m)
  BY <1>1, PiecesJoin
<1>8. Piece(p, i, brace) \o Piece(p, brace, m) = Piece(p, i, m)
  BY <1>1, PiecesJoin
<1>9. fmt = <<>> => k = close
  <2>1. Piece(p, k, close) = <<>> <=> k = close
    BY <1>1, PieceIsOne
  <2>. QED BY <2>1, Zenon
<1>. HIDE DEF str, fmt
<1>. DEFINE y == Item(str, fmt)
<1>10. y \in ItemRecs /\ y.kind = 1 /\ y.str = str /\ y.fmt = fmt
  <2>1. str \in Seq(Chars) /\ fmt \in Seq(Chars)
    BY <1>4
  <2>. HIDE DEF a, b, c, y
  <2>2. /\ Item(str, fmt) \in ItemRecs /\ Item(str, fmt).kind = 1
        /\ Item(str, fmt).str = str /\ Item(str, fmt).fmt = fmt
    BY <2>1, ItemIs
  <2>. QED BY <2>2, Zenon DEF y
<1>. HIDE DEF y
<1>11. y.kind # 0
  <2>1. y.kind = 1
    BY <1>10, Zenon
  <2>. QED BY <2>1
<1>12. ASSUME ~Has(p, LBrace, RBrace) PROVE Spell(y) = Piece(p, i, m)
  <2>1. fmt # <<>>
    BY <1>3, <1>9, <1>12
  <2>2. Spell(y) = <<Pct>> \o y.str \o (IF y.fmt = <<>> THEN <<>> ELSE <<LBrace>> \o y.fmt \o <<RBrace>>)
    BY <1>10, <1>11, Zenon DEF Spell, Pct, LBrace, RBrace
  <2>3. Spell(y) = (a \o str) \o ((b \o fmt) \o c)
    BY <1>10, <2>1, <2>2, Zenon
  <2>. HIDE DEF a, b, c
  <2>. QED BY <1>2, <1>5, <1>6, <1>7, <1>8, <2>3, Zenon
<1>. QED BY <1>10, <1>12, Zenon DEF y, str, fmt, j, k, m

\* A directive that is accepted moves on, spells what it was read from and, in a pattern
\* without braces, is known exactly when the percent sign says what it may.
LEMMA DirectiveIs ==
    ASSUME NEW p \in Seq(Chars), NEW i \in 1 .. Len(p), p[i] = Pct, NEW d, d = Directive(p, i)
    PROVE  /\ d.ok \in BOOLEAN
           /\ d.ok => d.next \in i + 1 .. Len(p) + 1 /\ d.item \in ItemRecs /\ d.item.kind = 1
           /\ d.ok /\ ~Has(p, LBrace, RBrace) => Spell(d.item) = Piece(p, i, d.next)
           /\ Braceless(p) /\ ~Twice(p, i) =>
                /\ d.ok /\ (Known(d.item) <=> GoodAt(p, i))
                /\ \A j \in i + 1 .. Len(p) : j < d.next => p[j] # Pct
<1>. DEFINE n == Len(p)
            a == i + 1
            stop == FirstOf(p, a, Stops)
            brace == FirstOf(p, a, {LBrace})
            b == brace + 1
            close == FirstOf(p, b, {RBrace})
            plain == brace > stop \/ brace > n
<1>1. n \in Nat /\ i \in Nat /\ 1 <= i /\ i <= n /\ a \in 1 .. n + 1
  OBVIOUS
<1>2. /\ plain => d = [ok |-> TRUE, item |-> Item(Piece(p, a, stop), <<>>), next |-> stop]
      /\ ~plain => d = [ok |-> close <= n, next |-> close + 1, item |-> Item(Piece(p, a, brace), Piece(p, b, close))]
  BY Zenon DEF Directive, Piece, Stops, LBrace, RBrace
<1>. HIDE DEF a, b, stop, brace, close
<1>3. /\ stop \in a .. n + 1
      /\ stop <= n => p[stop] \in Stops
      /\ \A j \in a .. n : j < stop => p[j] \notin Stops
  BY <1>1, FirstOfIs DEF stop
<1>4. /\ brace \in a .. n + 1
      /\ brace <= n => p[brace] \in {LBrace}
  BY <1>1, FirstOfIs DEF brace
<1>5. CASE plain
  <2>. DEFINE x == Item(Piece(p, a, stop), <<>>)
  <2>1. d.ok = TRUE /\ d.item = x /\ d.next = stop
    BY <1>2, <1>5
  <2>2. x \in ItemRecs /\ x.kind = 1 /\ Spell(x) = Piece(p, i, stop)
    <3>1. stop \in i + 1 .. Len(p) + 1
      BY <1>3 DEF a
    <3>. QED BY <3>1, DirectivePlain DEF a
  <2>3. ASSUME Braceless(p), ~Twice(p, i) PROVE Known(x) <=> GoodAt(p, i)
    <3>1. Piece(p, a, stop) \in Seq(Chars) /\ <<>> \in Seq(Chars)
      <4>1. a \in 1 .. Len(p) + 1 /\ stop \in a .. Len(p) + 1 /\ Len(p) + 1 \in stop .. Len(p) + 1
        BY <1>1, <1>3
      <4>2. Piece(p, a, stop) \in Seq(Chars)
        BY <4>1, PiecesJoin
      <4>. QED BY <4>2
    <3>2. x.str = Piece(p, a, stop)
      <4>. DEFINE e == <<>>
                  c == Piece(p, a, stop)
      <4>1. e \in Seq(Chars) /\ c \in Seq(Chars)
        BY <3>1
      <4>. HIDE DEF c, e
      <4>2. Item(c, e).str = c
        BY <4>1, ItemIs
      <4>. QED BY <4>2 DEF c, e
    <3>3. Known(x) <=> Piece(p, a, stop) = <<Em>>
      <4>1. Known(x) <=> x.kind # 1 \/ x.str = <<Em>>
        BY Zenon DEF Known, Em
      <4>. HIDE DEF x
      <4>. QED BY <2>2, <3>2, <4>1, Zenon
    <3>4. Piece(p, a, stop) = <<Em>> <=> stop = a + 1 /\ p[a] = Em
      BY <1>1, <1>3, PieceIsOne
    <3>5. GoodAt(p, i) <=> a <= n /\ p[a] = Em /\ (a + 1 <= n => p[a + 1] \in Enders)
      <4>1. (i < n <=> a <= n) /\ i + 2 = a + 1
        BY <1>1 DEF a
      <4>2. GoodAt(p, i) <=> (i < n /\ p[a] = Em /\ (i + 2 <= n => p[i + 2] \in Enders))
        BY <2>3, Zenon DEF GoodAt, a
      <4>. HIDE DEF n
      <4>. QED BY <4>1, <4>2
    <3>6. ASSUME stop = a + 1, p[a] = Em PROVE a <= n /\ (a + 1 <= n => p[a + 1] \in Enders)
      <4>1. a <= n
        BY <1>1, <1>3, <3>6
      <4>2. ASSUME a + 1 <= n PROVE p[a + 1] \in Enders
        <5>1. stop \in 1 .. n /\ stop <= n
          BY <1>1, <1>3, <3>6, <4>2
        <5>2. p[stop] \in Chars /\ p[stop] # LBrace /\ p[stop] # RBrace
          BY <2>3, <5>1 DEF Braceless
        <5>3. p[stop] \in Enders
          BY <1>3, <5>1, <5>2, CharFacts
        <5>. QED BY <3>6, <5>3
      <4>. QED BY <4>1, <4>2
    <3>7. ASSUME a <= n, p[a] = Em, a + 1 <= n => p[a + 1] \in Enders PROVE stop = a + 1
      <4>1. stop # a
        BY <1>3, <3>7, CharFacts
      <4>2. a + 1 <= stop
        BY <1>1, <1>3, <4>1
      <4>3. CASE a + 1 <= n
        <5>. DEFINE c == a + 1
        <5>1. c \in 1 .. n /\ c \in a .. n /\ p[c] \in Enders
          BY <1>1, <3>7, <4>3
        <5>. HIDE DEF c
        <5>2. p[c] \in Chars /\ p[c] # LBrace /\ p[c] # RBrace
          BY <2>3, <5>1 DEF Braceless
        <5>3. p[c] \in Stops
          BY <5>1, <5>2, CharFacts
        <5>4. ~(c < stop)
          BY <1>3, <5>1, <5>3
        <5>. QED BY <1>1, <1>3, <4>2, <5>4 DEF c
      <4>4. CASE ~(a + 1 <= n)
        BY <1>1, <1>3, <4>2, <4>4
      <4>. QED BY <4>3, <4>4
    <3>. QED BY <3>3, <3>4, <3>5, <3>6, <3>7
  <2>4. \A j \in a .. n : j < stop => p[j] # Pct
    BY <1>3, CharFacts
  <2>. HIDE DEF x
  <2>5. stop \in i + 1 .. Len(p) + 1
    BY <1>3 DEF a
  <2>6. \A j \in i + 1 .. Len(p) : j < stop => p[j] # Pct
    BY <2>4 DEF a
  <2>. QED BY <2>1, <2>2, <2>3, <2>5, <2>6, Zenon
<1>6. CASE ~plain
  <2>. DEFINE x == Item(Piece(p, a, brace), Piece(p, b, close))
              m == close + 1
  <2>1. brace \in 1 .. n /\ brace <= n /\ p[brace] = LBrace /\ brace \in i + 1 .. n /\ b \in 1 .. n + 1
    BY <1>1, <1>4, <1>6 DEF a, b
  <2>2. ~Braceless(p)
    BY <2>1 DEF Braceless
  <2>3. /\ close \in b .. n + 1
        /\ close <= n => p[close] \in {RBrace}
    BY <2>1, FirstOfIs DEF close
  <2>4. (d.ok <=> close <= n) /\ d.ok \in BOOLEAN /\ d.item = x /\ d.next = m
    <3>. DEFINE o == close <= n
    <3>1. d = [ok |-> o, next |-> m, item |-> x]
      BY <1>2, <1>6, Zenon
    <3>2. o \in BOOLEAN
      BY <1>1, <2>3
    <3>. HIDE DEF o, m, x, n, plain
    <3>3. d.item = x /\ d.next = m
      BY <3>1
    <3>4. d.ok = o
      BY <3>1
    <3>5. o <=> close <= n
      BY DEF o
    <3>. QED BY <3>2, <3>3, <3>4, <3>5, Zenon
  <2>5. ASSUME close <= n PROVE /\ m \in i + 1 .. Len(p) + 1 /\ x \in ItemRecs /\ x.kind = 1
                                /\ ~Has(p, LBrace, RBrace) => Spell(x) = Piece(p, i, m)
    <3>1. close \in brace + 1 .. Len(p) /\ p[close] = RBrace /\ brace \in i + 1 .. Len(p)
      BY <1>1, <2>1, <2>3, <2>5 DEF b
    <3>2. m \in i + 1 .. Len(p) + 1
      BY <1>1, <3>1
    <3>3. x \in ItemRecs /\ x.kind = 1 /\ (~Has(p, LBrace, RBrace) => Spell(x) = Piece(p, i, m))
      BY <2>1, <3>1, DirectiveFormat DEF a, b
    <3>. QED BY <3>2, <3>3
  <2>. HIDE DEF x, m
  <2>. QED BY <2>2, <2>4, <2>5, Zenon
<1>. QED BY <1>5, <1>6

AllKnown(v) == \A i \in DOMAIN v : Known(v[i])
NoMark(v) == \A i \in DOMAIN v : v[i].kind # 2

-----------------------------------------------------------------------------
(* Items, literals and the mark of an error                                  *)

\* The items of two vectors, one after the other.
LEMMA MarksOfParts ==
    ASSUME NEW v \in Seq(ItemRecs), NEW w \in Seq(ItemRecs)
    PROVE  /\ AllKnown(v \o w) <=> AllKnown(v) /\ AllKnown(w)
           /\ NoMark(v \o w) <=> NoMark(v) /\ NoMark(w)
<1>. DEFINE x == v \o w
            m == Len(v)
            n == Len(w)
<1>1. /\ x \in Seq(ItemRecs) /\ Len(x) = m + n /\ m \in Nat /\ n \in Nat
      /\ \A i \in 1 .. m + n : x[i] = IF i <= m THEN v[i] ELSE w[i - m]
  BY ConcatProperties
<1>2. DOMAIN x = 1 .. m + n /\ DOMAIN v = 1 .. m /\ DOMAIN w = 1 .. n
  BY <1>1
<1>. HIDE DEF x, m, n
<1>3. ASSUME NEW i \in DOMAIN v PROVE i \in DOMAIN x /\ x[i] = v[i]
  <2>1. i \in 1 .. m + n /\ i <= m
    BY <1>1, <1>2
  <2>. QED BY <1>1, <1>2, <2>1
<1>4. ASSUME NEW i \in DOMAIN w PROVE m + i \in DOMAIN x /\ x[m + i] = w[i]
  <2>. DEFINE j == m + i
  <2>1. i \in 1 .. n /\ j = m + i
    BY <1>2
  <2>. HIDE DEF j
  <2>2. j \in 1 .. m + n /\ ~(j <= m) /\ j - m = i
    BY <1>1, <2>1
  <2>3. x[j] = w[i] /\ j \in DOMAIN x
    BY <1>1, <1>2, <2>2
  <2>. QED BY <2>3 DEF j
<1>5. ASSUME NEW j \in DOMAIN x PROVE (\E i \in DOMAIN v : x[j] = v[i]) \/ (\E i \in DOMAIN w : x[j] = w[i])
  <2>1. CASE j <= m
    <3>1. j \in DOMAIN v
      BY <1>1, <1>2, <2>1
    <3>. QED BY <1>3, <3>1
  <2>2. CASE ~(j <= m)
    <3>1. j - m \in DOMAIN w /\ j \in 1 .. m + n
      BY <1>1, <1>2, <2>2
    <3>2. x[j] = w[j - m]
      BY <1>1, <2>2, <3>1
    <3>. QED BY <3>1, <3>2
  <2>. QED BY <2>1, <2>2
<1>6. AllKnown(x) <=> AllKnown(v) /\ AllKnown(w)
  <2>1. AllKnown(x) => AllKnown(v) /\ AllKnown(w)
    BY <1>3, <1>4, Zenon DEF AllKnown
  <2>2. AllKnown(v) /\ AllKnown(w) => AllKnown(x)
    BY <1>5, Zenon DEF AllKnown
  <2>. QED BY <2>1, <2>2
<1>7. NoMark(x) <=> NoMark(v) /\ NoMark(w)
  <2>1. NoMark(x) => NoMark(v) /\ NoMark(w)
    BY <1>3, <1>4, Zenon DEF NoMark
  <2>2. NoMark(v) /\ NoMark(w) => NoMark(x)
    BY <1>5, Zenon DEF NoMark
  <2>. QED BY <2>1, <2>2
<1>. QED BY <1>6, <1>7 DEF x

LEMMA NoItems ==
    <<>> \in Seq(ItemRecs) /\ Spelled(<<>>) = <<>> /\ AllKnown(<<>>) /\ NoMark(<<>>)
<1>1. <<>> \in Seq(ItemRecs) /\ DOMAIN <<>> = {}
  OBVIOUS
<1>2. AllKnown(<<>>) /\ NoMark(<<>>)
  BY <1>1 DEF AllKnown, NoMark
<1>3. Spelled(<<>>) = <<>>
  <2>1. [i \in DOMAIN <<>> |-> Spell(<<>>[i])] = <<>>
    BY <1>1
  <2>2. FlattenSeq(<<>>) = <<>>
    BY DEF FlattenSeq
  <2>. QED BY <2>1, <2>2 DEF Spelled
<1>. QED BY <1>1, <1>2, <1>3

LEMMA OneItem ==
    ASSUME NEW x \in ItemRecs
    PROVE  /\ <<x>> \in Seq(ItemRecs) /\ Spelled(<<x>>) = Spell(x)
           /\ AllKnown(<<x>>) <=> Known(x)
           /\ NoMark(<<x>>) <=> x.kind # 2
<1>. DEFINE v == <<x>>
            t == Spell(x)
            ss == [i \in DOMAIN v |-> Spell(v[i])]
<1>1. v \in Seq(ItemRecs) /\ Len(v) = 1 /\ v[1] = x /\ DOMAIN v = 1 .. 1
  OBVIOUS
<1>. HIDE DEF v
<1>2. \A i \in DOMAIN v : v[i] = x
  BY <1>1
<1>3. 1 \in DOMAIN v
  BY <1>1
<1>4. AllKnown(v) <=> Known(x)
  BY <1>2, <1>3, Zenon DEF AllKnown
<1>5. NoMark(v) <=> x.kind # 2
  BY <1>2, <1>3, Zenon DEF NoMark
<1>6. t \in Seq(Chars)
  BY SpellIs
<1>. HIDE DEF t
<1>7. ss = <<t>>
  <2>1. ss = [i \in 1 .. 1 |-> t]
    BY <1>1, <1>2 DEF t
  <2>2. <<t>> = [i \in 1 .. 1 |-> t]
    OBVIOUS
  <2>. QED BY <2>1, <2>2, Zenon
<1>8. FlattenSeq(<<t>>) = t
  <2>. DEFINE u == <<t>>
              e == <<>>
              D == Seq(Chars)
  <2>1. u \in Seq(D) /\ e \in Seq(D) /\ Len(e) = 0
    BY <1>6
  <2>. HIDE DEF u, e
  <2>2. e \o u = u
    BY <2>1, ConcatEmptySeq DEF e
  <2>3. FlattenSeq(e) = e /\ FlattenSeq(e \o u) = FlattenSeq(e) \o t
    BY <1>6, <2>1, FlattenAppend DEF u, e
  <2>4. e \o t = t
    BY <1>6, ConcatEmptySeq DEF e
  <2>. QED BY <2>2, <2>3, <2>4, Zenon DEF u
<1>9. Spelled(v) = t
  BY <1>7, <1>8, Zenon DEF Spelled
<1>. QED BY <1>1, <1>4, <1>5, <1>9 DEF v, t

\* The text that waits in nstr is a literal, or nothing.
LEMMA FlushIs ==
    ASSUME NEW nstr \in Seq(Chars)
    PROVE  /\ Flush(nstr) \in Seq(ItemRecs) /\ Spelled(Flush(nstr)) = nstr
           /\ AllKnown(Flush(nstr)) /\ NoMark(Flush(nstr))
<1>1. CASE nstr = <<>>
  BY <1>1, NoItems, Zenon DEF Flush
<1>2. CASE nstr # <<>>
  <2>. DEFINE x == Literal(nstr)
  <2>1. Flush(nstr) = <<x>>
    BY <1>2, Zenon DEF Flush
  <2>2. x \in ItemRecs /\ x.kind = 0 /\ x.str = nstr
    BY ItemIs
  <2>. HIDE DEF x
  <2>3. Known(x) /\ x.kind # 2 /\ x.kind = 0
    <3>1. x.kind # 1 /\ x.kind # 2
      BY <2>2
    <3>. QED BY <2>2, <3>1, Zenon DEF Known
  <2>4. Spell(x) = nstr
    BY <2>2, Zenon DEF Spell
  <2>. QED BY <2>1, <2>2, <2>3, <2>4, OneItem, Zenon
<1>. QED BY <1>1, <1>2

-----------------------------------------------------------------------------
(* The loop of init()                                                        *)

\* What holds before every round of the loop over p.
Says(p, j) == p[j] = Pct => GoodAt(p, j)
SaysTo(p, i) == \A j \in 1 .. Len(p) : j < i => Says(p, j)
RoundInv(p, s) ==
    /\ NoMark(s.vec) /\ ~Has(p, LBrace, RBrace) => Spelled(s.vec) \o s.nstr = Piece(p, 1, s.i)
    /\ Braceless(p) => NoMark(s.vec) /\ (AllKnown(s.vec) <=> SaysTo(p, s.i))
RoundRecs(p) == [i : 1 .. Len(p) + 1, nstr : Seq(Chars), vec : Seq(ItemRecs)]
Rounds(p) == {s \in RoundRecs(p) : RoundInv(p, s)}

StateOf(i, nstr, vec) == [i |-> i, nstr |-> nstr, vec |-> vec]

LEMMA StateIs ==
    ASSUME NEW p, NEW x \in 1 .. Len(p) + 1, NEW y \in Seq(Chars), NEW z \in Seq(ItemRecs)
    PROVE  /\ StateOf(x, y, z) \in RoundRecs(p)
           /\ StateOf(x, y, z).i = x /\ StateOf(x, y, z).nstr = y /\ StateOf(x, y, z).vec = z
<1>. DEFINE A == 1 .. Len(p) + 1
            B == Seq(Chars)
            C == Seq(ItemRecs)
<1>1. x \in A /\ y \in B /\ z \in C
  OBVIOUS
<1>. HIDE DEF A, B, C
<1>2. StateOf(x, y, z) \in [i : A, nstr : B, vec : C]
  BY <1>1 DEF StateOf
<1>3. StateOf(x, y, z).i = x /\ StateOf(x, y, z).nstr = y /\ StateOf(x, y, z).vec = z
  BY DEF StateOf
<1>. QED BY <1>2, <1>3, Zenon DEF RoundRecs, A, B, C

\* From i on to k, where only the sign at i has something to say.
LEMMA SaysFurther ==
    ASSUME NEW p \in Seq(Chars), NEW i \in 1 .. Len(p), NEW k \in i + 1 .. Len(p) + 1,
           \A j \in i + 1 .. Len(p) : j < k => Says(p, j)
    PROVE  SaysTo(p, k) <=> SaysTo(p, i) /\ Says(p, i)
<1>1. SaysTo(p, k) => SaysTo(p, i) /\ Says(p, i)
  <2>1. i < k /\ \A j \in 1 .. Len(p) : j < i => j < k
    OBVIOUS
  <2>. QED BY <2>1 DEF SaysTo
<1>2. ASSUME SaysTo(p, i), Says(p, i), NEW j \in 1 .. Len(p), j < k PROVE Says(p, j)
  <2>1. j < i \/ j = i \/ j \in i + 1 .. Len(p)
    OBVIOUS
  <2>. QED BY <1>2, <2>1 DEF SaysTo
<1>. QED BY <1>1, <1>2 DEF SaysTo

\* A round that takes a character for text.
LEMMA RoundOfText ==
    ASSUME NEW p \in Seq(Chars), NEW s \in Rounds(p), s.i <= Len(p), p[s.i] # Pct \/ Twice(p, s.i),
           NEW r, r = StateOf(s.i + 1, Append(s.nstr, p[s.i]), s.vec)
    PROVE  r \in Rounds(p) /\ r.i = s.i + 1
<1>. DEFINE i == s.i
            k == i + 1
            t == s.nstr
            v == s.vec
            q == Append(t, p[i])
<1>1. i \in 1 .. Len(p) + 1 /\ t \in Seq(Chars) /\ v \in Seq(ItemRecs) /\ RoundInv(p, s)
  BY DEF Rounds, RoundRecs
<1>2. i \in 1 .. Len(p) /\ k \in i + 1 .. Len(p) + 1 /\ k \in 1 .. Len(p) + 1 /\ k \in i .. Len(p) + 1 /\ 1 \in 1 .. Len(p) + 1
  BY <1>1
<1>3. p[i] \in Chars
  BY <1>2
<1>4. q \in Seq(Chars) /\ q = t \o <<p[i]>>
  BY <1>1, <1>3, AppendProperties, AppendIsConcat
<1>5. Piece(p, i, k) = <<p[i]>>
  BY <1>2, PieceEnds
<1>. HIDE DEF q, k
<1>6. r = StateOf(k, q, v)
  BY DEF q, k
<1>. HIDE DEF i, t, v
<1>7. r.i = k /\ r.nstr = q /\ r.vec = v /\ r \in RoundRecs(p)
  <2>1. k \in 1 .. Len(p) + 1 /\ q \in Seq(Chars) /\ v \in Seq(ItemRecs)
    BY <1>1, <1>2, <1>4
  <2>2. /\ StateOf(k, q, v) \in RoundRecs(p)
        /\ StateOf(k, q, v).i = k /\ StateOf(k, q, v).nstr = q /\ StateOf(k, q, v).vec = v
    BY <2>1, StateIs
  <2>. QED BY <1>6, <2>2, Zenon
<1>9. ASSUME NoMark(v), ~Has(p, LBrace, RBrace) PROVE Spelled(v) \o q = Piece(p, 1, k)
  <2>1. Spelled(v) \o t = Piece(p, 1, i)
    BY <1>1, <1>9, Zenon DEF RoundInv, v, t, i
  <2>2. Piece(p, 1, i) \o Piece(p, i, k) = Piece(p, 1, k) /\ Piece(p, i, k) \in Seq(Chars)
    BY <1>1, <1>2, PiecesJoin
  <2>3. Spelled(v) \in Seq(Chars)
    BY <1>1, SpelledParts
  <2>. DEFINE z == Piece(p, i, k)
              y == Spelled(v)
  <2>4. z \in Seq(Chars) /\ y \in Seq(Chars) /\ t \in Seq(Chars) /\ q = t \o z
    BY <1>1, <1>4, <1>5, <2>2, <2>3
  <2>. HIDE DEF z, y
  <2>5. (y \o t) \o z = y \o (t \o z)
    BY <2>4, ConcatAssociative
  <2>. QED BY <2>1, <2>2, <2>4, <2>5, Zenon DEF z, y
<1>10. SaysTo(p, k) <=> SaysTo(p, i)
  <2>1. \A j \in i + 1 .. Len(p) : j < k => Says(p, j)
    BY <1>2 DEF k
  <2>2. SaysTo(p, k) <=> SaysTo(p, i) /\ Says(p, i)
    BY <1>2, <2>1, SaysFurther
  <2>3. Says(p, i)
    BY DEF Says, GoodAt, i
  <2>. QED BY <2>2, <2>3
<1>11. Braceless(p) => NoMark(v) /\ (AllKnown(v) <=> SaysTo(p, i))
  BY <1>1, Zenon DEF RoundInv, v, i
<1>12. RoundInv(p, r)
  BY <1>7, <1>9, <1>10, <1>11, Zenon DEF RoundInv
<1>13. r \in Rounds(p)
  BY <1>7, <1>12 DEF Rounds
<1>. QED BY <1>7, <1>13 DEF k, i

\* A round that takes an item and what waits in front of it.
LEMMA RoundOfItem ==
    ASSUME NEW p \in Seq(Chars), NEW s \in Rounds(p), s.i <= Len(p), p[s.i] = Pct, ~Twice(p, s.i),
           NEW d, d = Directive(p, s.i), d.ok,
           NEW r, r = StateOf(d.next, <<>>, s.vec \o Flush(s.nstr) \o <<d.item>>)
    PROVE  r \in Rounds(p) /\ r.i > s.i
<1>. DEFINE i == s.i
            k == d.next
            t == s.nstr
            v == s.vec
            f == Flush(t)
            x == d.item
            o == <<x>>
            u == v \o f
            w == u \o o
            e == <<>>
<1>1. i \in 1 .. Len(p) + 1 /\ t \in Seq(Chars) /\ v \in Seq(ItemRecs) /\ RoundInv(p, s)
  BY DEF Rounds, RoundRecs
<1>2. i \in 1 .. Len(p)
  BY <1>1
<1>3. /\ k \in i + 1 .. Len(p) + 1 /\ x \in ItemRecs /\ x.kind = 1
      /\ ~Has(p, LBrace, RBrace) => Spell(x) = Piece(p, i, k)
      /\ Braceless(p) => /\ Known(x) <=> GoodAt(p, i)
                         /\ \A j \in i + 1 .. Len(p) : j < k => p[j] # Pct
  BY <1>2, DirectiveIs
<1>4. r = StateOf(k, e, w)
  OBVIOUS
<1>6. e \in Seq(Chars)
  OBVIOUS
<1>. HIDE DEF i, k, t, v, x, e
<1>7. f \in Seq(ItemRecs) /\ Spelled(f) = t /\ AllKnown(f) /\ NoMark(f)
  BY <1>1, FlushIs
<1>8. o \in Seq(ItemRecs) /\ Spelled(o) = Spell(x) /\ (AllKnown(o) <=> Known(x)) /\ NoMark(o)
  <2>1. x.kind # 2
    BY <1>3
  <2>. QED BY <1>3, <2>1, OneItem
<1>. HIDE DEF f, o
<1>9. u \in Seq(ItemRecs) /\ Spelled(u) = Spelled(v) \o t /\ (AllKnown(u) <=> AllKnown(v)) /\ (NoMark(u) <=> NoMark(v))
  <2>1. u \in Seq(ItemRecs) /\ Spelled(u) = Spelled(v) \o Spelled(f)
    BY <1>1, <1>7, SpelledParts
  <2>2. (AllKnown(u) <=> AllKnown(v) /\ AllKnown(f)) /\ (NoMark(u) <=> NoMark(v) /\ NoMark(f))
    BY <1>1, <1>7, MarksOfParts
  <2>. HIDE DEF u
  <2>. QED BY <1>7, <2>1, <2>2, Zenon
<1>. HIDE DEF u
<1>10. w \in Seq(ItemRecs) /\ Spelled(w) = Spelled(u) \o Spell(x) /\ (AllKnown(w) <=> AllKnown(u) /\ Known(x)) /\ (NoMark(w) <=> NoMark(u))
  <2>1. w \in Seq(ItemRecs) /\ Spelled(w) = Spelled(u) \o Spelled(o)
    BY <1>8, <1>9, SpelledParts
  <2>2. (AllKnown(w) <=> AllKnown(u) /\ AllKnown(o)) /\ (NoMark(w) <=> NoMark(u) /\ NoMark(o))
    BY <1>8, <1>9, MarksOfParts
  <2>. HIDE DEF w
  <2>. QED BY <1>8, <2>1, <2>2, Zenon
<1>. HIDE DEF w
<1>11. k \in 1 .. Len(p) + 1 /\ k \in i .. Len(p) + 1 /\ 1 \in 1 .. Len(p) + 1 /\ k > i
  BY <1>2, <1>3
<1>12. r \in RoundRecs(p) /\ r.i = k /\ r.nstr = e /\ r.vec = w
  BY <1>4, <1>6, <1>10, <1>11, StateIs
<1>13. ASSUME NoMark(w), ~Has(p, LBrace, RBrace) PROVE Spelled(w) \o e = Piece(p, 1, k)
  <2>1. Spelled(v) \o t = Piece(p, 1, i)
    BY <1>1, <1>9, <1>10, <1>13, Zenon DEF RoundInv, v, t, i
  <2>2. Piece(p, 1, i) \o Piece(p, i, k) = Piece(p, 1, k)
    BY <1>1, <1>11, PiecesJoin
  <2>3. Spelled(w) = Piece(p, 1, k)
    BY <1>3, <1>9, <1>10, <1>13, <2>1, <2>2, Zenon
  <2>4. Spelled(w) \in Seq(Chars)
    BY <1>10, SpelledParts
  <2>5. Spelled(w) \o <<>> = Spelled(w)
    BY <2>4, ConcatEmptySeq
  <2>. QED BY <2>3, <2>5, Zenon DEF e
<1>14. ASSUME Braceless(p) PROVE NoMark(w) /\ (AllKnown(w) <=> SaysTo(p, k))
  <2>1. \A j \in i + 1 .. Len(p) : j < k => Says(p, j)
    BY <1>3, <1>14 DEF Says
  <2>2. SaysTo(p, k) <=> SaysTo(p, i) /\ Says(p, i)
    BY <1>2, <1>3, <2>1, SaysFurther
  <2>3. Says(p, i) <=> GoodAt(p, i)
    BY DEF Says, i
  <2>4. NoMark(v) /\ (AllKnown(v) <=> SaysTo(p, i))
    BY <1>1, <1>14, Zenon DEF RoundInv, v, i
  <2>. QED BY <1>3, <1>9, <1>10, <1>14, <2>2, <2>3, <2>4, Zenon
<1>15. RoundInv(p, r)
  BY <1>12, <1>13, <1>14, Zenon DEF RoundInv
<1>16. r \in Rounds(p)
  BY <1>12, <1>15 DEF Rounds
<1>. QED BY <1>11, <1>12, <1>16 DEF i

\* A round that meets a format that is not closed.
LEMMA RoundOfMark ==
    ASSUME NEW p \in Seq(Chars), NEW s \in Rounds(p), s.i <= Len(p), p[s.i] = Pct, ~Twice(p, s.i),
           NEW d, d = Directive(p, s.i), ~d.ok,
           NEW r, r = StateOf(s.i + 1, s.nstr, Append(s.vec, PatternError))
    PROVE  r \in Rounds(p) /\ r.i = s.i + 1
<1>. DEFINE i == s.i
            k == i + 1
            t == s.nstr
            v == s.vec
            o == <<PatternError>>
            w == Append(v, PatternError)
<1>1. i \in 1 .. Len(p) + 1 /\ t \in Seq(Chars) /\ v \in Seq(ItemRecs) /\ RoundInv(p, s)
  BY DEF Rounds, RoundRecs
<1>2. i \in 1 .. Len(p) /\ k \in 1 .. Len(p) + 1
  BY <1>1
<1>3. ~Braceless(p)
  BY <1>2, DirectiveIs
<1>4. r = StateOf(k, t, w)
  OBVIOUS
<1>6. PatternError \in ItemRecs /\ PatternError.kind = 2
  <2>1. <<>> \in Seq(Chars)
    OBVIOUS
  <2>. QED BY <2>1, ItemIs
<1>. HIDE DEF i, k, t, v
<1>7. w = v \o o /\ o \in Seq(ItemRecs) /\ ~NoMark(o)
  <2>1. w = v \o o
    BY <1>1, <1>6, AppendIsConcat
  <2>. QED BY <1>6, <2>1, OneItem
<1>. HIDE DEF o, w
<1>8. w \in Seq(ItemRecs) /\ ~NoMark(w)
  <2>1. v \o o \in Seq(ItemRecs)
    BY <1>1, <1>7, SpelledParts
  <2>2. NoMark(v \o o) <=> NoMark(v) /\ NoMark(o)
    BY <1>1, <1>7, MarksOfParts
  <2>. QED BY <1>7, <2>1, <2>2, Zenon
<1>9. r \in RoundRecs(p) /\ r.i = k /\ r.nstr = t /\ r.vec = w
  BY <1>1, <1>2, <1>4, <1>8, StateIs
<1>10. RoundInv(p, r)
  BY <1>3, <1>8, <1>9, Zenon DEF RoundInv
<1>11. r \in Rounds(p)
  BY <1>9, <1>10 DEF Rounds
<1>. QED BY <1>9, <1>11 DEF k, i

\* Every round keeps RoundInv and, before the end, moves on.
LEMMA RoundIs ==
    ASSUME NEW p \in Seq(Chars), NEW s \in Rounds(p)
    PROVE  Round(p, s) \in Rounds(p) /\ (s.i > Len(p) \/ Round(p, s).i > s.i)
<1>. DEFINE d == Directive(p, s.i)
            r == Round(p, s)
<1>1. s.i \in 1 .. Len(p) + 1
  BY DEF Rounds, RoundRecs
<1>2. CASE s.i > Len(p)
  <2>1. r = s
    BY <1>2, Zenon DEF Round
  <2>. QED BY <1>2, <2>1
<1>3. CASE ~(s.i > Len(p)) /\ (p[s.i] # Pct \/ Twice(p, s.i))
  <2>1. r = StateOf(s.i + 1, Append(s.nstr, p[s.i]), s.vec)
    BY <1>3, Zenon DEF Round, Twice, Pct, StateOf
  <2>2. s.i <= Len(p)
    BY <1>1, <1>3
  <2>. HIDE DEF r, d
  <2>3. r \in Rounds(p) /\ r.i = s.i + 1
    BY <1>3, <2>1, <2>2, RoundOfText
  <2>. QED BY <1>1, <2>3 DEF r
<1>4. CASE ~(s.i > Len(p)) /\ p[s.i] = Pct /\ ~Twice(p, s.i)
  <2>1. s.i <= Len(p)
    BY <1>1, <1>4
  <2>2. r = IF d.ok THEN StateOf(d.next, <<>>, s.vec \o Flush(s.nstr) \o <<d.item>>)
            ELSE StateOf(s.i + 1, s.nstr, Append(s.vec, PatternError))
    BY <1>4, Zenon DEF Round, Twice, Pct, StateOf
  <2>3. d = Directive(p, s.i)
    OBVIOUS
  <2>. HIDE DEF r, d
  <2>4. CASE d.ok
    <3>1. r = StateOf(d.next, <<>>, s.vec \o Flush(s.nstr) \o <<d.item>>)
      BY <2>2, <2>4, Zenon
    <3>2. r \in Rounds(p) /\ r.i > s.i
      BY <1>4, <2>1, <2>3, <2>4, <3>1, RoundOfItem
    <3>. QED BY <3>2 DEF r
  <2>5. CASE ~d.ok
    <3>1. r = StateOf(s.i + 1, s.nstr, Append(s.vec, PatternError))
      BY <2>2, <2>5, Zenon
    <3>2. r \in Rounds(p) /\ r.i = s.i + 1
      BY <1>4, <2>1, <2>3, <2>5, <3>1, RoundOfMark
    <3>. QED BY <1>1, <3>2 DEF r
  <2>. QED BY <2>4, <2>5
<1>. QED BY <1>2, <1>3, <1>4, Zenon

\* So the last round is at the end of the pattern.
LEMMA ParseIs ==
    ASSUME NEW p \in Seq(Chars)
    PROVE  \E s \in Rounds(p) : s.i = Len(p) + 1 /\ Parse(p) = s.vec \o Flush(s.nstr)
<1>. DEFINE n == Len(p)
            D == Rounds(p)
            first == StateOf(1, <<>>, <<>>)
            Goes(f) == f = [k \in 0 .. n |-> IF k = 0 THEN first ELSE Round(p, f[k - 1])]
            h == CHOOSE f : Goes(f)
            step == [k \in 1 .. n |-> [d \in D |-> Round(p, d)]]
<1>1. n \in Nat
  OBVIOUS
<1>2. Parse(p) = h[n].vec \o Flush(h[n].nstr)
  BY Zenon DEF Parse, StateOf
<1>3. first \in D /\ first.i = 1
  <2>. DEFINE e == <<>>
              f == <<>>
  <2>1. e \in Seq(Chars) /\ f \in Seq(ItemRecs) /\ 1 \in 1 .. n + 1
    BY <1>1
  <2>. DEFINE s == StateOf(1, e, f)
  <2>. HIDE DEF e, f, s
  <2>2. s \in RoundRecs(p) /\ s.i = 1 /\ s.nstr = e /\ s.vec = f
    BY <2>1, StateIs DEF s
  <2>3. Spelled(s.vec) = <<>> /\ AllKnown(s.vec) /\ NoMark(s.vec)
    BY <2>2, NoItems DEF f
  <2>4. Piece(p, 1, 1) = <<>>
    BY <2>1, PieceEnds
  <2>5. <<>> \o e = <<>>
    BY <2>1, ConcatEmptySeq DEF e
  <2>6. SaysTo(p, 1)
    BY DEF SaysTo
  <2>7. RoundInv(p, s)
    BY <2>2, <2>3, <2>4, <2>5, <2>6, Zenon DEF RoundInv
  <2>8. s \in Rounds(p)
    BY <2>2, <2>7 DEF Rounds
  <2>. QED BY <2>2, <2>8, Zenon DEF s, e, f
<1>4. \A d \in D : Round(p, d) \in D
  BY RoundIs
<1>. HIDE DEF n, D, first, h
<1>5. step \in [1 .. n -> [D -> D]]
  BY <1>4
<1>6. PICK g : Iterates(g, D, first, n, step)
  <2>. HIDE DEF step
  <2>. QED BY <1>1, <1>3, <1>5, Iterate
<1>7. g \in [0 .. n -> D]
  BY <1>6 DEF Iterates
<1>8. \A k \in 0 .. n : g[k] = IF k = 0 THEN first ELSE Round(p, g[k - 1])
  <2>. SUFFICES ASSUME NEW k \in 0 .. n PROVE g[k] = IF k = 0 THEN first ELSE Round(p, g[k - 1])
    OBVIOUS
  <2>1. CASE k = 0
    BY <1>6, <2>1 DEF Iterates
  <2>2. CASE k # 0
    <3>1. k \in 1 .. n /\ k - 1 \in 0 .. n
      BY <1>1, <2>2
    <3>2. g[k] = step[k][g[k - 1]]
      <4>. HIDE DEF step
      <4>. QED BY <1>6, <3>1 DEF Iterates
    <3>3. g[k - 1] \in D
      BY <1>7, <3>1
    <3>. QED BY <2>2, <3>1, <3>2, <3>3
  <2>. QED BY <2>1, <2>2
<1>9. g = [k \in 0 .. n |-> g[k]]
  BY <1>7
<1>10. Goes(g)
  BY <1>8, <1>9, Zenon
<1>11. Goes(h)
  BY <1>10 DEF h
<1>12. \A k \in 0 .. n : h[k] = IF k = 0 THEN first ELSE Round(p, h[k - 1])
  BY <1>11, Zenon
<1>. DEFINE E == [k \in 0 .. n |-> {s \in D : s.i > k}]
<1>13. h[0] \in E[0]
  <2>1. 0 \in 0 .. n /\ 1 > 0
    BY <1>1
  <2>2. h[0] = first
    BY <1>12, <2>1, Zenon
  <2>. QED BY <1>3, <2>1, <2>2
<1>14. ASSUME NEW k \in 1 .. n, h[k - 1] \in E[k - 1] PROVE h[k] \in E[k]
  <2>. DEFINE m == k - 1
              s == h[m]
              r == h[k]
  <2>1. m \in 0 .. n /\ k \in 0 .. n /\ k # 0 /\ m \in Nat /\ k = m + 1 /\ k <= n
    BY <1>1
  <2>2. r = Round(p, s)
    BY <1>12, <2>1, Zenon
  <2>. HIDE DEF m
  <2>3. s \in D /\ s.i > m
    BY <1>14, <2>1 DEF m
  <2>. HIDE DEF s, r
  <2>4. r \in D /\ (s.i > n \/ r.i > s.i)
    BY <2>2, <2>3, RoundIs DEF D, n
  <2>5. s.i > n => r = s
    BY <2>2, Zenon DEF Round, n
  <2>6. s.i \in Nat /\ r.i \in Nat
    BY <2>3, <2>4 DEF D, Rounds, RoundRecs
  <2>7. r.i > k
    <3>1. CASE s.i > n
      <4>1. s.i > k /\ r = s
        BY <1>1, <2>1, <2>5, <2>6, <3>1
      <4>. QED BY <4>1
    <3>2. CASE r.i > s.i
      BY <2>1, <2>3, <2>6, <3>2
    <3>. QED BY <2>4, <3>1, <3>2
  <2>8. r \in E[k]
    BY <2>1, <2>4, <2>7
  <2>. QED BY <2>8 DEF r
<1>. HIDE DEF E
<1>15. \A k \in 0 .. n : h[k] \in E[k]
  BY <1>1, <1>13, <1>14, RoundByRound
<1>16. h[n] \in D /\ h[n].i > n
  BY <1>1, <1>15 DEF E
<1>17. h[n].i \in 1 .. n + 1
  BY <1>16 DEF D, n, Rounds, RoundRecs
<1>18. h[n].i = n + 1
  BY <1>1, <1>16, <1>17
<1>. QED BY <1>2, <1>16, <1>18, Zenon DEF D, n

\* What one call of init() gives.
LEMMA ItemsIs ==
    ASSUME NEW p \in Seq(Chars)
    PROVE  /\ Items(p) \in Seq(ItemRecs)
           /\ NoMark(Items(p)) /\ ~Has(p, LBrace, RBrace) => Spelled(Items(p)) = p
           /\ Braceless(p) => NoMark(Items(p)) /\ (AllKnown(Items(p)) <=> \A j \in 1 .. Len(p) : Says(p, j))
<1>1. PICK s \in Rounds(p) : s.i = Len(p) + 1 /\ Parse(p) = s.vec \o Flush(s.nstr)
  BY ParseIs
<1>. DEFINE v == s.vec
            t == s.nstr
            f == Flush(t)
            w == Items(p)
<1>2. v \in Seq(ItemRecs) /\ t \in Seq(Chars) /\ RoundInv(p, s)
  BY DEF Rounds, RoundRecs
<1>. HIDE DEF t
<1>3. f \in Seq(ItemRecs) /\ Spelled(f) = t /\ AllKnown(f) /\ NoMark(f)
  BY <1>2, FlushIs
<1>. HIDE DEF v, f
<1>4. w = v \o f
  BY <1>1, Zenon DEF Items, v, f, t
<1>. HIDE DEF w
<1>5. v \o f \in Seq(ItemRecs) /\ Spelled(v \o f) = Spelled(v) \o Spelled(f)
  BY <1>2, <1>3, SpelledParts
<1>6. (AllKnown(v \o f) <=> AllKnown(v) /\ AllKnown(f)) /\ (NoMark(v \o f) <=> NoMark(v) /\ NoMark(f))
  BY <1>2, <1>3, MarksOfParts
<1>7. Piece(p, 1, Len(p) + 1) = p
  BY PieceEnds
<1>8. /\ NoMark(v) /\ ~Has(p, LBrace, RBrace) => Spelled(v) \o t = Piece(p, 1, Len(p) + 1)
      /\ Braceless(p) => NoMark(v) /\ (AllKnown(v) <=> SaysTo(p, Len(p) + 1))
  BY <1>1, <1>2, Zenon DEF RoundInv, v, t
<1>9. SaysTo(p, Len(p) + 1) <=> \A j \in 1 .. Len(p) : Says(p, j)
  <2>1. \A j \in 1 .. Len(p) : j < Len(p) + 1
    OBVIOUS
  <2>. QED BY <2>1, Zenon DEF SaysTo
<1>10. w \in Seq(ItemRecs)
  BY <1>4, <1>5, Zenon
<1>11. NoMark(w) /\ ~Has(p, LBrace, RBrace) => Spelled(w) = p
  BY <1>3, <1>4, <1>5, <1>6, <1>7, <1>8, Zenon
<1>12. Braceless(p) => NoMark(w) /\ (AllKnown(w) <=> \A j \in 1 .. Len(p) : Says(p, j))
  BY <1>3, <1>4, <1>6, <1>8, <1>9, Zenon
<1>. QED BY <1>10, <1>11, <1>12, Zenon DEF w

\* After every call: error says whether an item is unknown or a mark, and without a mark
\* the items spell the patterns.
SpellsOut == \A k \in DOMAIN patterns : ~Has(patterns[k], LBrace, RBrace)
FormatInv ==
    /\ items \in Seq(ItemRecs) /\ patterns \in Seq(Seq(Chars))
    /\ error \in BOOLEAN /\ (error <=> ~(AllKnown(items) /\ NoMark(items)))
    /\ NoMark(items) /\ SpellsOut => Spelled(items) = FlattenSeq(patterns)
    /\ Len(patterns) = 0 => items = <<>>
    /\ Len(patterns) = 1 => items = Items(patterns[1])

LEMMA PatternsAreChars ==
    ASSUME NEW n \in Nat, NEW p \in Patterns(n)
    PROVE  p \in Seq(Chars)
  BY DEF Patterns

-----------------------------------------------------------------------------
(* The formatter                                                             *)

\* The first state, a call of init(), and what FormatInv says.
LEMMA FormatInitInv ==
    ASSUME FormatInit
    PROVE  FormatInv
<1>1. items = <<>> /\ error = FALSE /\ patterns = <<>>
  BY DEF FormatInit
<1>2. patterns \in Seq(Seq(Chars)) /\ Len(patterns) = 0
  BY <1>1
<1>3. items \in Seq(ItemRecs) /\ AllKnown(items) /\ NoMark(items) /\ Spelled(items) = <<>>
  BY <1>1, NoItems, Zenon
<1>4. FlattenSeq(patterns) = <<>>
  BY <1>1 DEF FlattenSeq
<1>5. Len(patterns) # 1
  BY <1>2
<1>6. error \in BOOLEAN /\ ~error
  BY <1>1, Zenon
<1>. QED BY <1>1, <1>2, <1>3, <1>4, <1>5, <1>6, Zenon DEF FormatInv

LEMMA FormatStepInv ==
    ASSUME FormatInv, NEW p \in Seq(Chars), Format(p)
    PROVE  FormatInv'
<1>. DEFINE w == Items(p)
            v == items
            pp == patterns
            D == Seq(Chars)
            o == <<p>>
<1>1. w \in Seq(ItemRecs) /\ (NoMark(w) /\ ~Has(p, LBrace, RBrace) => Spelled(w) = p)
  BY ItemsIs
<1>2. items' = v \o w /\ patterns' = Append(pp, p) /\ v \in Seq(ItemRecs) /\ pp \in Seq(D)
  BY Zenon DEF Format, FormatInv
<1>. HIDE DEF w
<1>3. /\ items' \in Seq(ItemRecs) /\ Spelled(items') = Spelled(v) \o Spelled(w)
      /\ AllKnown(items') <=> AllKnown(v) /\ AllKnown(w)
      /\ NoMark(items') <=> NoMark(v) /\ NoMark(w)
  <2>1. v \o w \in Seq(ItemRecs) /\ Spelled(v \o w) = Spelled(v) \o Spelled(w)
    BY <1>1, <1>2, SpelledParts
  <2>2. (AllKnown(v \o w) <=> AllKnown(v) /\ AllKnown(w)) /\ (NoMark(v \o w) <=> NoMark(v) /\ NoMark(w))
    BY <1>1, <1>2, MarksOfParts
  <2>. QED BY <1>2, <2>1, <2>2, Zenon
<1>4. /\ patterns' = pp \o o /\ patterns' \in Seq(D) /\ Len(patterns') = Len(pp) + 1
      /\ (\A i \in 1 .. Len(pp) : patterns'[i] = pp[i]) /\ patterns'[Len(pp) + 1] = p
  <2>1. p \in D
    OBVIOUS
  <2>. HIDE DEF D
  <2>2. Append(pp, p) = pp \o <<p>>
    BY <1>2, <2>1, AppendIsConcat
  <2>3. /\ Append(pp, p) \in Seq(D) /\ Len(Append(pp, p)) = Len(pp) + 1
        /\ (\A i \in 1 .. Len(pp) : Append(pp, p)[i] = pp[i]) /\ Append(pp, p)[Len(pp) + 1] = p
    BY <1>2, <2>1, AppendProperties
  <2>. QED BY <1>2, <2>2, <2>3, Zenon
<1>5. Len(pp) \in Nat /\ DOMAIN pp = 1 .. Len(pp) /\ DOMAIN patterns' = 1 .. Len(pp) + 1
  <2>. HIDE DEF D
  <2>. QED BY <1>2, <1>4
<1>6. SpellsOut' => SpellsOut /\ ~Has(p, LBrace, RBrace)
  <2>1. \A k \in 1 .. Len(pp) : k \in 1 .. Len(pp) + 1
    BY <1>5
  <2>2. Len(pp) + 1 \in 1 .. Len(pp) + 1
    BY <1>5
  <2>. DEFINE m == Len(pp) + 1
              qq == patterns'
  <2>3. SpellsOut' => \A k \in 1 .. m : ~Has(qq[k], LBrace, RBrace)
    BY <1>5, Zenon DEF SpellsOut
  <2>4. SpellsOut <=> \A k \in 1 .. Len(pp) : ~Has(pp[k], LBrace, RBrace)
    BY <1>5, Zenon DEF SpellsOut
  <2>5. qq[m] = p /\ m \in 1 .. m /\ (\A k \in 1 .. Len(pp) : k \in 1 .. m /\ qq[k] = pp[k])
    BY <1>4, <2>1, <2>2, Zenon
  <2>. HIDE DEF m, qq
  <2>. QED BY <2>3, <2>4, <2>5, Zenon
<1>7. FlattenSeq(patterns') = FlattenSeq(pp) \o p
  <2>1. FlattenSeq(pp \o <<p>>) = FlattenSeq(pp) \o p
    BY <1>2, FlattenAppend
  <2>. QED BY <1>4, <2>1, Zenon
<1>8. NoMark(items') /\ SpellsOut' => Spelled(items') = FlattenSeq(patterns')
  <2>1. NoMark(v) /\ SpellsOut => Spelled(v) = FlattenSeq(pp)
    BY Zenon DEF FormatInv
  <2>. QED BY <1>1, <1>3, <1>6, <1>7, <2>1, Zenon
<1>9. error' \in BOOLEAN /\ (error' <=> ~(AllKnown(items') /\ NoMark(items')))
  <2>1. error' = (error \/ \E i \in DOMAIN items' : ~Known(items'[i]) \/ items'[i].kind = 2)
    BY Zenon DEF Format
  <2>2. (\E i \in DOMAIN items' : ~Known(items'[i]) \/ items'[i].kind = 2) <=> ~(AllKnown(items') /\ NoMark(items'))
    BY Zenon DEF AllKnown, NoMark
  <2>3. error \in BOOLEAN /\ (error <=> ~(AllKnown(v) /\ NoMark(v)))
    BY Zenon DEF FormatInv
  <2>. QED BY <1>3, <2>1, <2>2, <2>3, Zenon
<1>10. Len(patterns') # 0
  BY <1>4, <1>5
<1>11. ASSUME Len(patterns') = 1 PROVE items' = Items(patterns'[1])
  <2>1. Len(pp) = 0 /\ Len(pp) + 1 = 1
    BY <1>4, <1>5, <1>11
  <2>2. patterns'[1] = p
    BY <1>4, <2>1, Zenon
  <2>3. v = <<>>
    BY <2>1, Zenon DEF FormatInv
  <2>4. <<>> \o w = w
    BY <1>1, ConcatEmptySeq
  <2>. QED BY <1>2, <2>2, <2>3, <2>4, Zenon DEF w
<1>. QED BY <1>3, <1>4, <1>8, <1>9, <1>10, <1>11, Zenon DEF FormatInv

LEMMA FormatExactFrom ==
    ASSUME FormatInv
    PROVE  FormatterExact
<1>1. PatternsSpelled
  <2>1. SpellsOut <=> \A k \in DOMAIN patterns : ~Has(patterns[k], "{", "}")
    BY Zenon DEF SpellsOut, LBrace, RBrace
  <2>. QED BY <2>1, Zenon DEF PatternsSpelled, FormatInv, Spelled
<1>2. AcceptedExactly
  <2>. DEFINE p == patterns[1]
  <2>1. ASSUME Len(patterns) = 1, \A i \in DOMAIN p : p[i] \notin {"{", "}"}
        PROVE  ~error <=> \A i \in DOMAIN p : p[i] = Pct => GoodAt(p, i)
    <3>1. patterns \in Seq(Seq(Chars))
      BY Zenon DEF FormatInv
    <3>2. p \in Seq(Chars)
      <4>. DEFINE D == Seq(Chars)
      <4>1. patterns \in Seq(D)
        BY <3>1
      <4>2. Len(patterns) = 1
        BY <2>1, Zenon
      <4>. HIDE DEF D
      <4>3. patterns[1] \in D
        BY <4>1, <4>2
      <4>. QED BY <4>3 DEF D
    <3>3. DOMAIN p = 1 .. Len(p)
      <4>. HIDE DEF p
      <4>. QED BY <3>2
    <3>4. Braceless(p)
      <4>. HIDE DEF p
      <4>. QED BY <2>1, Zenon DEF Braceless, LBrace, RBrace
    <3>. HIDE DEF p
    <3>5. NoMark(Items(p)) /\ (AllKnown(Items(p)) <=> \A j \in 1 .. Len(p) : Says(p, j))
      BY <3>2, <3>4, ItemsIs
    <3>6. ~error <=> AllKnown(Items(p)) /\ NoMark(Items(p))
      BY <2>1, Zenon DEF FormatInv, p
    <3>. QED BY <3>3, <3>5, <3>6, Zenon DEF Says
  <2>2. ASSUME NEW i PROVE (p[i] = Pct => GoodAt(p, i)) <=> (p[i] = "%" => (i < Len(p) /\ (p[i + 1] = "%" \/
                     (p[i + 1] = "m" /\ (i + 2 <= Len(p) => p[i + 2] \in {"%", "_"})))))
    <3>. HIDE DEF p
    <3>. QED BY Zenon DEF GoodAt, Twice, Pct, Em, Enders
  <2>. QED BY <2>1, <2>2, Zenon DEF AcceptedExactly
<1>. QED BY <1>1, <1>2 DEF FormatterExact

\* Whatever the patterns and however long, a formatter that found no error spells out what
\* it was given; and of the patterns without braces it accepts exactly those that
\* AcceptedExactly describes (LogFormatter::init, reset).
THEOREM PatternsTakenExactly == FormatSpec => []FormatterExact
<1>1. FormatInit => FormatInv
  BY FormatInitInv
<1>2. ASSUME FormatInv, [FormatNext]_formatVars PROVE FormatInv'
  <2>1. CASE FormatNext
    <3>1. PICK p \in Patterns(MaxPattern) : Format(p)
      BY <2>1, Zenon DEF FormatNext
    <3>2. p \in Seq(Chars)
      BY FormatterAssumption, PatternsAreChars
    <3>. QED BY <1>2, <3>1, <3>2, FormatStepInv
  <2>2. CASE UNCHANGED formatVars
    <3>1. items' = items /\ error' = error /\ patterns' = patterns
      BY <2>2, Zenon DEF formatVars
    <3>. QED BY <1>2, <3>1, Zenon DEF FormatInv, SpellsOut
  <2>. QED BY <1>2, <2>1, <2>2
<1>3. FormatInv => FormatterExact
  BY FormatExactFrom
<1>. QED BY <1>1, <1>2, <1>3, PTL DEF FormatSpec

=============================================================================
