--------------------------- MODULE FileSystemProofs ---------------------------
(* Proofs about FileSystem and SectorMap for every size of the disk and of *)
(* the tables, every number of processes and every set of names.           *)
EXTENDS FileSystem, FiniteSetTheorems, TLAPS

\* Every search ends at the first that fits, when one does.
LEMMA FirstOfSome ==
    ASSUME NEW S \in SUBSET Nat, S # {}
    PROVE  First(S) \in S /\ \A y \in S : First(S) <= y
  <1> DEFINE Up(x) == 0..x
             Segments == {Up(x) : x \in S}
             R == StrictSubsetOrdering(Nat)
  <1>1. Segments \subseteq FiniteSubsetsOf(Nat) /\ Segments # {}
    <2>1. ASSUME NEW x \in S PROVE Up(x) \subseteq Nat /\ IsFiniteSet(Up(x))
      BY FS_Interval
    <2> QED BY <2>1 DEF FiniteSubsetsOf
  <1>2. PICK T \in Segments : \A U \in Segments : ~(<<U, T>> \in R)
    BY <1>1, FS_StrictSubsetOrderingWellFounded, WFMin, Zenon
  <1>3. PICK x \in S : T = Up(x)
    OBVIOUS
  <1>4. ASSUME NEW y \in S PROVE x <= y
    <2>1. Up(y) \in Segments
      OBVIOUS
    <2>2. ~(Up(y) \subseteq Up(x) /\ Up(y) # Up(x))
      <3>1. ~(<<Up(y), Up(x)>> \in R)
        BY <1>2, <1>3, <2>1
      <3>2. Up(y) \in SUBSET Nat /\ Up(x) \in SUBSET Nat
        OBVIOUS
      <3> QED BY <3>1, <3>2 DEF StrictSubsetOrdering
    <2>3. CASE y < x
      <3>1. Up(y) \subseteq Up(x) /\ x \in Up(x) /\ x \notin Up(y)
        BY <2>3
      <3> QED BY <3>1, <2>2
    <2> QED BY <2>3
  <1> QED
    BY <1>4 DEF First

\* What \div and % make of a natural.
LEMMA Quotient ==
    ASSUME NEW a \in Nat, NEW b \in Nat \ {0}
    PROVE  /\ a \div b \in Nat /\ a % b \in 0..b - 1
           /\ a = (a \div b) * b + (a % b)
  OBVIOUS

\* A multiple and the next one.
LEMMA NextMultiple ==
    ASSUME NEW d \in Int, NEW e \in Int, NEW n \in Nat, d < e
    PROVE  d * n + n <= e * n
  <1>1. (e - d - 1) * n >= 0
    OBVIOUS
  <1>2. (e - d - 1) * n = e * n - d * n - n
    OBVIOUS
  <1> QED
    BY <1>1, <1>2

-----------------------------------------------------------------------------
(* The map of the sectors.                                                 *)

F == FS_DEFAULT_FILE_SECTORS
MapSize == Position(num_smap_sectors, 0, 0)

\* The positions of the e-th place that a file can have.
RunOf(e) == (e * F + 1) .. (e * F + F)

\* The sector map has room for NumExtent runs of F sectors, and not for one more.
LEMMA MapSizes ==
    /\ F \in Nat \ {0} /\ MapSize \in Nat \ {0} /\ Bit = 0..MapSize - 1
    /\ NumExtent \in Nat
    /\ NumExtent * F + F <= MapSize - 1 /\ MapSize - 1 < NumExtent * F + F + F
  <1>1. F \in Nat \ {0} /\ NumExtent \in Nat
    BY SectorMapAssumption, FileSystemAssumption DEF F
  <1>2. /\ num_smap_sectors \in Nat \ {0} /\ BYTE \in Nat \ {0}
        /\ HD_SECTOR_SIZE \in Nat \ {0}
    BY SectorMapAssumption
  <1>3. num_smap_sectors * HD_SECTOR_SIZE \in Nat \ {0}
    BY <1>2
  <1>4. (num_smap_sectors * HD_SECTOR_SIZE) * BYTE \in Nat \ {0}
    BY <1>2, <1>3
  <1>5. MapSize = (num_smap_sectors * HD_SECTOR_SIZE) * BYTE
    BY <1>2, <1>3, <1>4 DEF MapSize, Position
  <1>6. MapSize \in Nat \ {0}
    BY <1>4, <1>5
  <1> DEFINE q == (MapSize - 1) \div F
             r == (MapSize - 1) % F
  <1>7. q \in Nat /\ r \in 0..F - 1 /\ MapSize - 1 = q * F + r
    <2> DEFINE m == MapSize - 1
    <2>1. m \in Nat
      BY <1>6
    <2> HIDE DEF m
    <2>2. m \div F \in Nat /\ m % F \in 0..F - 1 /\ m = (m \div F) * F + (m % F)
      BY <1>1, <2>1, Quotient
    <2> QED BY <2>2 DEF m
  <1>8. NumExtent = q - 1
    BY DEF NumExtent, MapSize, F
  <1>9. NumExtent * F + F = q * F
    BY <1>1, <1>7, <1>8
  <1> HIDE DEF q, r
  <1>10. q * F \in Nat
    BY <1>1, <1>7
  <1> QED BY <1>1, <1>6, <1>7, <1>9, <1>10 DEF Bit, MapSize

\* A place is known by where it starts.
LEMMA MultiplesDiffer ==
    \A d, e \in 1..NumExtent : d * F = e * F => d = e
  <1> SUFFICES ASSUME NEW d \in 1..NumExtent, NEW e \in 1..NumExtent, d # e
               PROVE  d * F # e * F
    OBVIOUS
  <1>1. d \in Nat /\ e \in Nat /\ d * F \in Nat /\ e * F \in Nat /\ F \in Nat \ {0}
    BY MapSizes
  <1>2. d < e \/ e < d
    BY <1>1
  <1> QED BY <1>1, <1>2, NextMultiple

\* Places do not share positions with each other or with the root, and all of
\* them are in the map.
LEMMA RunsApart ==
    /\ \A d, e \in Nat : d # e => RunOf(d) \cap RunOf(e) = {}
    /\ \A e \in 1..NumExtent : RunOf(e) \cap RootBits = {} /\ RunOf(e) \subseteq Bit
    /\ RootBits \subseteq Bit
  <1>1. ASSUME NEW d \in Nat, NEW e \in Nat, d < e PROVE RunOf(d) \cap RunOf(e) = {}
    <2>1. d * F + F <= e * F /\ d * F \in Nat /\ e * F \in Nat
      BY <1>1, MapSizes, NextMultiple
    <2> QED BY <2>1, MapSizes DEF RunOf
  <1>2. ASSUME NEW e \in 1..NumExtent
        PROVE  RunOf(e) \cap RootBits = {} /\ RunOf(e) \subseteq Bit
    <2>1. 0 * F + F <= e * F /\ e * F \in Nat /\ 0 * F = 0
      BY MapSizes, NextMultiple
    <2>2. e * F <= NumExtent * F /\ NumExtent * F \in Nat
      <3>1. e = NumExtent \/ e < NumExtent
        BY MapSizes
      <3> QED BY <3>1, <2>1, MapSizes, NextMultiple
    <2> QED BY <2>1, <2>2, MapSizes DEF RunOf, RootBits, F
  <1>3. RootBits \subseteq Bit
    <2>1. NumExtent * F \in Nat
      BY MapSizes
    <2> QED BY <2>1, MapSizes DEF RootBits, F
  <1>4. ASSUME NEW d \in Nat, NEW e \in Nat, d # e PROVE RunOf(d) \cap RunOf(e) = {}
    <2>1. d < e \/ e < d
      BY <1>4
    <2> QED BY <2>1, <1>1
  <1> QED BY <1>2, <1>3, <1>4

\* The map with the root and some of the places.
MapOf(U) == RootBits \cup UNION {RunOf(e) : e \in U}

\* A bit of a place is 1 when the place is taken.
LEMMA InMapOf ==
    ASSUME NEW U \in SUBSET (1..NumExtent), NEW e \in 1..NumExtent, NEW x \in RunOf(e)
    PROVE  x \in MapOf(U) <=> e \in U
  <1>1. x \notin RootBits
    BY RunsApart
  <1>2. ASSUME NEW d \in U, x \in RunOf(d) PROVE d = e
    BY <1>2, RunsApart
  <1> QED BY <1>1, <1>2 DEF MapOf

\* Where an allocation begins: at a place that is free, unless all are taken
\* (fd.cpp:560-609).
LEMMA FreePlace ==
    ASSUME NEW U \in SUBSET (1..NumExtent)
    PROVE  /\ MapIsFull(MapOf(U)) => U = 1..NumExtent
           /\ ~MapIsFull(MapOf(U)) =>
                 \E e \in (1..NumExtent) \ U :
                    /\ StartOf(MapOf(U)) = e * F
                    /\ Wanted(MapOf(U)) = RunOf(e)
  <1> DEFINE map == MapOf(U)
             p == FreeFrom(map)
  <1>1. CASE Bit \subseteq map
    <2>1. ASSUME NEW e \in 1..NumExtent PROVE e \in U
      <3>1. e * F + 1 \in RunOf(e)
        <4>1. e * F \in Nat
          BY MapSizes
        <4> QED BY <4>1, MapSizes DEF RunOf
      <3> QED BY <1>1, <3>1, RunsApart, InMapOf
    <2> QED BY <1>1, <2>1 DEF MapIsFull
  <1>2. CASE ~(Bit \subseteq map)
    <2>1. Bit \ map \in SUBSET Nat /\ Bit \ map # {}
      BY <1>2, MapSizes
    <2>2. p \in Bit \ map /\ \A y \in Bit \ map : p <= y
      BY <2>1, FirstOfSome DEF FreeFrom
    <2> DEFINE q == (p - 1) \div F
               r == (p - 1) % F
    <2> HIDE DEF map, p
    <2>3. p \in Nat /\ p > F
      BY <2>2, MapSizes DEF map, MapOf, RootBits, F
    <2>4. q \in Nat /\ r \in 0..F - 1 /\ p - 1 = q * F + r
      <3> DEFINE m == p - 1
      <3>1. m \in Nat
        BY <2>3, MapSizes
      <3> HIDE DEF m
      <3>2. m \div F \in Nat /\ m % F \in 0..F - 1 /\ m = (m \div F) * F + (m % F)
        BY <3>1, MapSizes, Quotient
      <3> QED BY <3>2 DEF m
    <2> HIDE DEF q, r
    <2>5. q * F \in Nat /\ p \in RunOf(q)
      BY <2>3, <2>4, MapSizes DEF RunOf
    <2>6. q >= 1
      <3>1. q = 0 => q * F = 0
        BY MapSizes
      <3> QED BY <2>3, <2>4, <3>1, MapSizes
    <2>7. CASE q <= NumExtent
      <3>1. q \in (1..NumExtent) \ U
        BY <2>2, <2>4, <2>5, <2>6, <2>7, InMapOf, MapSizes DEF map
      <3>2. q * F + 1 \in RunOf(q)
        BY <2>5, MapSizes DEF RunOf
      <3>3. q * F + 1 \in Bit \ map
        BY <3>1, <3>2, RunsApart, InMapOf DEF map
      <3>4. p = q * F + 1
        BY <2>2, <2>3, <2>4, <2>5, <3>3
      <3>5. Wanted(map) = RunOf(q) /\ StartOf(map) = q * F
        BY <2>5, <3>4, MapSizes DEF Wanted, StartOf, RunOf, F, p
      <3>6. ~MapIsFull(map)
        BY <1>2, <3>1, <3>5, RunsApart DEF MapIsFull
      <3> QED BY <3>1, <3>5, <3>6 DEF map
    <2>8. CASE q > NumExtent
      <3>1. NumExtent * F + F <= q * F /\ NumExtent * F \in Nat
        BY <2>4, <2>8, MapSizes, NextMultiple
      <3>2. p + F - 1 \in Wanted(map) /\ p + F - 1 \notin Bit
        BY <2>3, <2>4, <2>5, <3>1, MapSizes DEF Wanted, F, p
      <3>3. MapIsFull(map)
        BY <3>2 DEF MapIsFull
      <3>4. ASSUME NEW e \in 1..NumExtent PROVE e \in U
        <4>1. e * F \in Nat /\ e * F + F <= q * F
          BY <2>4, <2>8, MapSizes, NextMultiple
        <4>2. e * F + 1 \in RunOf(e) /\ e * F + 1 < p
          BY <4>1, <2>3, <2>4, <2>5, MapSizes DEF RunOf
        <4>3. e * F + 1 \in Bit /\ e * F + 1 \in Nat
          BY <4>1, <4>2, RunsApart
        <4>4. e * F + 1 \in map
          BY <2>2, <2>3, <4>2, <4>3
        <4> QED BY <4>2, <4>4, InMapOf DEF map
      <3> QED BY <3>3, <3>4 DEF map
    <2> QED BY <2>4, <2>7, <2>8, MapSizes
  <1> QED BY <1>1, <1>2

\* The n-th byte after the first is just that, wherever a sector of the map ends
\* (fd.cpp:351-366).
LEMMA BytesInARow ==
    ASSUME NEW start \in Nat, NEW n \in Nat
    PROVE  NthByte(start, n) = (ByteIdx(start) + n) * BYTE
  <1> DEFINE B == ByteIdx(start)
             H == HD_SECTOR_SIZE
             Bq == B \div H
             Br == B % H
             i == Br + n
             iq == i \div H
             ir == i % H
  <1>1. H \in Nat \ {0} /\ BYTE \in Nat \ {0}
    BY SectorMapAssumption
  <1>2. B \in Nat
    <2> DEFINE b == start + 1
    <2>1. b \in Nat
      OBVIOUS
    <2> HIDE DEF b
    <2>2. b \div BYTE \in Nat
      BY <1>1, <2>1, Quotient
    <2> QED BY <2>2 DEF ByteIdx, BitIdx, b
  <1> HIDE DEF B, H
  <1>3. Bq \in Nat /\ Br \in 0..H - 1 /\ B = Bq * H + Br
    BY <1>1, <1>2, Quotient
  <1> HIDE DEF Bq, Br
  <1>4. i \in Nat
    BY <1>1, <1>3
  <1> HIDE DEF i
  <1>5. iq \in Nat /\ ir \in 0..H - 1 /\ i = iq * H + ir
    BY <1>1, <1>4, Quotient
  <1> HIDE DEF iq, ir
  <1>6. NthByte(start, n) = ((Bq + iq) * H + ir) * BYTE + 0
    BY DEF NthByte, Position, B, H, Bq, Br, i, iq, ir
  <1>7. (Bq + iq) * H + ir = B + n
    <2>1. (Bq + iq) * H = Bq * H + iq * H /\ Bq * H \in Nat /\ iq * H \in Nat
      BY <1>1, <1>3, <1>5
    <2>2. iq * H + ir = Br + n
      BY <1>5 DEF i
    <2> QED BY <1>1, <1>2, <1>3, <1>5, <2>1, <2>2
  <1>8. (B + n) * BYTE \in Nat
    BY <1>1, <1>2
  <1> QED BY <1>6, <1>7, <1>8 DEF B

\* What unlink gives back is what a file has: part of a byte, whole bytes, and
\* the bits that are left (fd.cpp:326-378).
LEMMA GivenIsRun ==
    ASSUME NEW start \in Nat
    PROVE  Given(start) = (start + 1) .. (start + F)
  <1> DEFINE b == start + 1
             B == ByteIdx(start)
             r == b % BYTE
             g == InFirst(start)
             N == ByteCnt(start)
             l == BitsLeft(start)
  <1>1. BYTE \in Nat \ {0} /\ F \in Nat /\ F >= BYTE
    BY SectorMapAssumption DEF F
  <1>2. b \in Nat
    OBVIOUS
  <1>3. B = b \div BYTE /\ g = BYTE - r
    BY DEF ByteIdx, BitIdx, InFirst
  <1>4. B \in Nat /\ r \in 0..BYTE - 1 /\ b = B * BYTE + r
    <2> HIDE DEF b
    <2> QED BY <1>1, <1>2, <1>3, Quotient
  <1>5. N \in Nat /\ l \in 0..BYTE - 1 /\ F - g = N * BYTE + l
    <2> DEFINE m == F - g
    <2>1. m \in Nat
      BY <1>1, <1>3, <1>4
    <2>2. N = m \div BYTE /\ l = m - BYTE * N
      BY DEF ByteCnt, BitsLeft, F
    <2> HIDE DEF m, N, l
    <2>3. N \in Nat /\ m % BYTE \in 0..BYTE - 1 /\ m = N * BYTE + (m % BYTE)
      BY <1>1, <2>1, <2>2, Quotient
    <2>4. BYTE * N = N * BYTE /\ N * BYTE \in Nat
      BY <1>1, <2>3
    <2>5. l = m % BYTE
      BY <1>1, <2>1, <2>2, <2>3, <2>4
    <2> QED BY <2>3, <2>5 DEF m
  <1> HIDE DEF b, B, r, g, N, l
  <1>6. B * BYTE \in Nat /\ (B + 1) * BYTE = B * BYTE + BYTE /\ b + g = (B + 1) * BYTE
    BY <1>1, <1>3, <1>4
  <1>7. (B + N + 1) * BYTE = (B + 1) * BYTE + N * BYTE /\ N * BYTE \in Nat
    BY <1>1, <1>4, <1>5
  <1>8. (B + N + 1) * BYTE + l = b + F
    BY <1>1, <1>3, <1>4, <1>5, <1>6, <1>7, <1>2
  <1>9. \A n \in 1..N : /\ (B + n) * BYTE \in Nat
                        /\ (B + 1) * BYTE <= (B + n) * BYTE
                        /\ (B + n) * BYTE + BYTE <= (B + N + 1) * BYTE
    <2> TAKE n \in 1..N
    <2>1. (B + n) * BYTE \in Nat /\ n \in Nat
      BY <1>1, <1>4, <1>5
    <2>2. B + 1 = B + n \/ (B + 1) * BYTE + BYTE <= (B + n) * BYTE
      <3>1. B + 1 = B + n \/ B + 1 < B + n
        BY <1>4, <1>5
      <3> QED BY <3>1, <1>1, <1>4, <1>5, NextMultiple
    <2>3. (B + n) * BYTE + BYTE <= (B + N + 1) * BYTE
      BY <1>1, <1>4, <1>5, NextMultiple
    <2> QED BY <2>1, <2>2, <2>3, <1>1, <1>6
  <1>10. Given(start) =
            b .. (b + g - 1)
              \cup {(B + n) * BYTE + bit : n \in 1..N, bit \in 0 .. (BYTE - 1)}
              \cup {(B + N + 1) * BYTE + bit : bit \in 0 .. (l - 1)}
    <2>1. \A n \in 1..N : NthByte(start, n) = (B + n) * BYTE
      BY <1>5, BytesInARow DEF B
    <2>2. NthByte(start, N + 1) = (B + N + 1) * BYTE
      <3>1. N + 1 \in Nat /\ B + (N + 1) = B + N + 1
        BY <1>4, <1>5
      <3> QED BY <3>1, BytesInARow DEF B
    <2>3. Given(start) =
            b .. (b + g - 1)
              \cup {NthByte(start, n) + bit : n \in 1..N, bit \in 0 .. (BYTE - 1)}
              \cup {NthByte(start, N + 1) + bit : bit \in 0 .. (l - 1)}
      BY DEF Given, BitIdx, b, g, N, l
    <2>4. {NthByte(start, n) + bit : n \in 1..N, bit \in 0 .. (BYTE - 1)}
            = {(B + n) * BYTE + bit : n \in 1..N, bit \in 0 .. (BYTE - 1)}
      BY <2>1
    <2> QED BY <2>2, <2>3, <2>4
  <1>11. ASSUME NEW x \in b .. (b + F - 1)
         PROVE  x \in Given(start)
    <2>1. x \in Nat /\ b <= x /\ x < b + F
      BY <1>1, <1>2
    <2>2. CASE x < b + g
      <3>1. x \in b .. (b + g - 1)
        BY <2>1, <2>2, <1>1, <1>2, <1>3, <1>4
      <3> QED BY <3>1, <1>10
    <2>3. CASE x >= (B + N + 1) * BYTE
      <3> DEFINE bit == x - (B + N + 1) * BYTE
      <3>1. bit \in 0 .. (l - 1) /\ x = (B + N + 1) * BYTE + bit
        BY <2>1, <2>3, <1>1, <1>2, <1>4, <1>5, <1>6, <1>7, <1>8
      <3> HIDE DEF bit
      <3> QED BY <3>1, <1>10
    <2>4. CASE x >= b + g /\ x < (B + N + 1) * BYTE
      <3> DEFINE xq == x \div BYTE
                 bit == x % BYTE
      <3>1. xq \in Nat /\ bit \in 0..BYTE - 1 /\ x = xq * BYTE + bit
        BY <2>1, <1>1, Quotient
      <3> HIDE DEF xq, bit
      <3>2. xq >= B + 1
        <4>1. CASE xq < B + 1
          <5>1. xq * BYTE + BYTE <= (B + 1) * BYTE /\ xq * BYTE \in Nat
            BY <4>1, <3>1, <1>1, <1>4, NextMultiple
          <5> QED BY <5>1, <3>1, <2>1, <2>4, <1>1, <1>6
        <4> QED BY <4>1, <3>1, <1>4
      <3>3. xq < B + N + 1
        <4>1. CASE B + N + 1 < xq
          <5>1. (B + N + 1) * BYTE + BYTE <= xq * BYTE /\ xq * BYTE \in Nat
            BY <4>1, <3>1, <1>1, <1>4, <1>5, NextMultiple
          <5> QED BY <5>1, <3>1, <2>1, <2>4, <1>1, <1>6, <1>7
        <4>2. CASE B + N + 1 = xq
          <5>1. xq * BYTE \in Nat
            BY <3>1, <1>1
          <5> QED BY <5>1, <4>2, <3>1, <2>1, <2>4, <1>1
        <4> QED BY <4>1, <4>2, <3>1, <1>4, <1>5
      <3>4. PICK n \in 1..N : xq = B + n
        <4>1. xq - B \in 1..N /\ xq = B + (xq - B)
          BY <3>1, <3>2, <3>3, <1>4, <1>5
        <4> QED BY <4>1
      <3>5. x = (B + n) * BYTE + bit /\ bit \in 0 .. (BYTE - 1)
        BY <3>1, <3>4
      <3> QED BY <3>5, <1>10
    <2>5. b + g \in Nat /\ (B + N + 1) * BYTE \in Nat
      BY <1>1, <1>4, <1>5, <1>6, <1>7
    <2> QED BY <2>1, <2>2, <2>3, <2>4, <2>5
  <1>12. ASSUME NEW x \in Given(start)
         PROVE  x \in b .. (b + F - 1)
    <2>1. CASE x \in b .. (b + g - 1)
      BY <2>1, <1>1, <1>2, <1>3, <1>4
    <2>2. CASE x \in {(B + n) * BYTE + bit : n \in 1..N, bit \in 0 .. (BYTE - 1)}
      <3>1. PICK n \in 1..N, bit \in 0 .. (BYTE - 1) : x = (B + n) * BYTE + bit
        BY <2>2
      <3> QED BY <3>1, <1>9, <1>8, <1>6, <1>7, <1>5, <1>4, <1>1, <1>2, <1>3
    <2>3. CASE x \in {(B + N + 1) * BYTE + bit : bit \in 0 .. (l - 1)}
      <3>1. PICK bit \in 0 .. (l - 1) : x = (B + N + 1) * BYTE + bit
        BY <2>3
      <3> QED BY <3>1, <1>8, <1>6, <1>7, <1>5, <1>4, <1>1, <1>2, <1>3
    <2> QED BY <1>10, <2>1, <2>2, <2>3
  <1>13. b .. (b + F - 1) = (start + 1) .. (start + F)
    <2>1. b + F - 1 = start + F
      BY <1>1 DEF b
    <2> QED BY <2>1 DEF b
  <1> QED BY <1>11, <1>12, <1>13

-----------------------------------------------------------------------------
(* The inductive invariant.                                                *)

\* A descriptor that a process has is there, and is of that process alone.
Descriptors ==
    /\ \A p \in Proc, x \in Fd :
          fd_table[p][x] # None => f_desc[fd_table[p][x]] # None
    /\ \A p, q \in Proc, x, y \in Fd :
          fd_table[p][x] = fd_table[q][y] /\ fd_table[p][x] # None
              => p = q /\ x = y

InUse(s) == inode_table[s].ref_count > 0

\* A slot in use is of another inode than each other slot in use.
Distinct ==
    \A s, t \in Slot :
        InUse(s) /\ InUse(t) /\ inode_table[s].index = inode_table[t].index => s = t

\* A slot in use is of an allocated inode, and has a count for every user, unless
\* an entry of an earlier start may have been found.
Counted ==
    leftover # "reached" =>
        \A s \in Slot : /\ inode_table[s].ref_count >= Sharers(s)
                        /\ InUse(s) => inode_table[s].index \in imap

\* The assertions that only such an entry can break.
Asserted ==
    leftover # "reached" => panicked \notin {"no reference", "inode is not allocated"}

\* The inodes of mkfs stay, those behind them are files when they are allocated.
Modes ==
    \A i \in Inode :
        IF i \in FormattedMap
        THEN i \in imap /\ disk_inode[i].mode \in {"directory", "char"}
        ELSE i \in imap => disk_inode[i].mode = "regular"

\* The places that files have.
Taken == {e \in 1..NumExtent :
             \E i \in RegularFile : disk_inode[i].start_sector = e * F}

\* Every file has a place, no two have one, and the map is full when it has to.
Sectors ==
    /\ smap = MapOf(Taken)
    /\ \A i \in RegularFile : \E e \in 1..NumExtent : disk_inode[i].start_sector = e * F
    /\ \A i, j \in RegularFile :
          disk_inode[i].start_sector = disk_inode[j].start_sector => i = j
    /\ panicked = "no free sectors" => Taken = 1..NumExtent

\* What EntriesAreFiles says of the directory, and that it has not left the sector
\* that mkfs writes as long as what lies behind is not reached.
Entries ==
    /\ panicked = "no" =>
          \A j, k \in Own : dir[j].inode # FS_INODE_INVALID =>
              /\ dir[j].inode \in imap
              /\ dir[k].inode = dir[j].inode => k = j
    /\ leftover = "behind" => dir_size <= FS_DIRENTRY_PER_SECTOR

IInv ==
    /\ TypeOK /\ Descriptors /\ Distinct /\ Counted /\ Asserted
    /\ Modes /\ Sectors /\ Entries

-----------------------------------------------------------------------------
(* Facts of the tables.                                                    *)

\* The numbers of inodes, entries and slots.
LEMMA Sizes ==
    /\ NumDevice \in Nat /\ NumExtent \in Nat /\ MaxEntry \in Nat \ {0}
    /\ Inode = 1..MaxEntry /\ FS_INODE_ROOT \in Inode
    /\ 0 \in Slot /\ Slot \subseteq Nat /\ Desc \subseteq Nat /\ Fd \subseteq Nat
    /\ \A p : FreeFd(p) \subseteq Fd
    /\ Unformatted \notin Inode /\ Unformatted # FS_INODE_INVALID
    /\ FormattedMap = 1 .. (1 + NumDevice) /\ FormattedMap \subseteq Inode
    /\ FS_DIRENTRY_PER_SECTOR \in Nat /\ 1 + NumDevice <= FS_DIRENTRY_PER_SECTOR
    /\ FS_INODE_PER_SECTOR \in Nat /\ 1 + NumDevice <= FS_INODE_PER_SECTOR
  <1>1. NumDevice \in Nat
    BY FileSystemAssumption DEF NumDevice
  <1>2. NumExtent \in Nat /\ FS_NUM_INODE \in Nat \ {0} /\ FS_NUM_FILES \in Nat
        /\ NUM_PROCS \in 1..FS_NUM_FILES /\ FS_NUM_FD \in Nat
        /\ Unformatted \notin Inode /\ Unformatted # 0
    BY FileSystemAssumption, SectorMapAssumption DEF Unformatted
  <1>3. MaxEntry \in Nat \ {0} /\ Inode = 1..MaxEntry /\ FS_INODE_ROOT \in Inode
    BY <1>1, <1>2 DEF MaxEntry, Inode, FS_INODE_ROOT
  <1>4. 0 \in Slot /\ Slot \subseteq Nat /\ Desc \subseteq Nat /\ Fd \subseteq Nat
    BY <1>2 DEF Slot, Desc, Fd
  <1>5. \A p : FreeFd(p) \subseteq Fd
    BY <1>2 DEF FreeFd, Fd
  <1>6. FormattedMap = 1 .. (1 + NumDevice) /\ FormattedMap \subseteq Inode
    BY <1>1, <1>2, <1>3 DEF FormattedMap, MaxEntry
  <1>7. /\ FS_DIRENTRY_PER_SECTOR \in Nat /\ 1 + NumDevice <= FS_DIRENTRY_PER_SECTOR
        /\ FS_INODE_PER_SECTOR \in Nat /\ 1 + NumDevice <= FS_INODE_PER_SECTOR
    BY FileSystemAssumption
  <1> QED BY <1>1, <1>2, <1>3, <1>4, <1>5, <1>6, <1>7 DEF FS_INODE_INVALID

\* The users of an inode can be counted.
LEMMA SharersCount ==
    ASSUME NEW s \in Slot
    PROVE  /\ IsFiniteSet(UsersOf(s)) /\ Sharers(s) \in Nat
           /\ s = 0 => Sharers(s) > 0
           /\ UsersOf(s) # {} => Sharers(s) > 0
  <1>1. IsFiniteSet(Desc)
    BY FileSystemAssumption, FS_Interval DEF Desc
  <1>2. IsFiniteSet(UsersOf(s))
    BY <1>1, FS_Subset DEF UsersOf
  <1>3. Cardinality(UsersOf(s)) \in Nat
    BY <1>2, FS_CardinalityType
  <1>4. UsersOf(s) # {} => Cardinality(UsersOf(s)) # 0
    BY <1>2, FS_EmptySet
  <1> QED BY <1>2, <1>3, <1>4 DEF Sharers

\* A path that is found is in an entry.
LEMMA FoundInEntry ==
    ASSUME TypeOK, NEW path \in Path, fs_search_file(path) # FS_INODE_INVALID
    PROVE  \/ path = RootPath /\ fs_search_file(path) = Unformatted
           \/ /\ path # RootPath /\ fs_search_file(path) \in Inode
              /\ \E k \in Scanned : k \in 0..MaxEntry /\ dir[k].inode = fs_search_file(path)
  <1> DEFINE hits == {k \in Scanned : dir[k].name = path}
  <1>1. hits \in SUBSET Nat /\ hits \subseteq 0..MaxEntry /\ hits \subseteq Scanned
    BY Sizes DEF Scanned
  <1>2. CASE path = RootPath
    BY <1>2 DEF fs_search_file
  <1>3. CASE path # RootPath /\ hits # {}
    <2>1. First(hits) \in 0..MaxEntry /\ First(hits) \in Scanned
      <3> HIDE DEF hits
      <3> QED BY <1>1, <1>3, FirstOfSome
    <2>2. fs_search_file(path) = dir[First(hits)].inode
      BY <1>3 DEF fs_search_file
    <2> HIDE DEF hits
    <2>3. dir[First(hits)].inode \in Inode \cup {FS_INODE_INVALID}
      BY <2>1 DEF TypeOK
    <2> QED BY <1>3, <2>1, <2>2, <2>3
  <1>4. CASE path # RootPath /\ hits = {}
    BY <1>4 DEF fs_search_file
  <1> QED BY <1>2, <1>3, <1>4

\* The entries that are compared are of this start, as long as the directory has
\* not reached those of an earlier one (core.cpp:128-144).
LEMMA ScannedAreOwn ==
    ASSUME TypeOK, Entries, leftover # "reached"
    PROVE  Scanned \subseteq Own
  <1>1. CASE leftover = "none"
    BY <1>1 DEF Scanned, Own
  <1>2. CASE leftover = "behind"
    <2> DEFINE b == FS_DIRENTRY_PER_SECTOR
               a == dir_size + b - 1
    <2>1. dir_size \in Nat /\ dir_size <= b /\ b \in Nat \ {0}
      <3>1. dir_size \in 0..MaxEntry
        BY DEF TypeOK
      <3> QED BY <1>2, <3>1, Sizes DEF Entries
    <2>2. a \in Nat /\ a < b + b
      BY <2>1
    <2> HIDE DEF a, b
    <2>3. a \div b \in Nat /\ a % b \in 0..b - 1 /\ a = (a \div b) * b + (a % b)
      BY <2>1, <2>2, Quotient
    <2> DEFINE q == a \div b
    <2> HIDE DEF q
    <2>4. q * b <= b
      <3>1. q <= 1
        <4>1. CASE 1 < q
          <5>1. q \in Nat /\ 1 \in Int /\ b \in Nat
            BY <2>1, <2>3 DEF q
          <5>2. 1 * b + b <= q * b
            BY <4>1, <5>1, NextMultiple
          <5>3. 1 * b = b /\ q * b \in Nat
            BY <5>1
          <5>4. a = q * b + (a % b) /\ a % b \in Nat
            BY <2>1, <2>3 DEF q
          <5> QED BY <2>1, <2>2, <5>2, <5>3, <5>4
        <4> QED BY <4>1, <2>3 DEF q
      <3>2. q = 0 \/ q = 1
        BY <2>3, <3>1 DEF q
      <3> QED BY <2>1, <3>2
    <2>5. q * b \in Nat
      BY <2>1, <2>3 DEF q
    <2>6. Scanned = {k \in 0..MaxEntry : k <= dir_size /\ k < q * b}
      BY DEF Scanned, q, a, b
    <2>7. \A k \in 0..MaxEntry : k < q * b => k < b
      BY <2>1, <2>4, <2>5, Sizes
    <2>8. Own = {k \in 0..MaxEntry : k < b \/ k < dir_size}
      BY <1>2 DEF Own, b
    <2> QED BY <2>6, <2>7, <2>8
  <1> QED BY <1>1, <1>2 DEF TypeOK

\* A path that is found is then that of an allocated inode, or "/".
LEMMA FoundIsAllocated ==
    ASSUME TypeOK, Entries, panicked = "no", leftover # "reached", NEW path \in Path,
           fs_search_file(path) # FS_INODE_INVALID, path # RootPath
    PROVE  fs_search_file(path) \in imap
  <1>1. PICK k \in Scanned : dir[k].inode = fs_search_file(path)
    BY FoundInEntry
  <1>2. k \in Own
    BY ScannedAreOwn
  <1> QED BY <1>1, <1>2 DEF Entries

\* The slot that fs_get_inode returns is one that holds the inode, when there
\* is one, and otherwise one that is free (core.cpp:55-96).
LEMMA GottenSlot ==
    ASSUME NEW i, ~TableIsFull(i)
    PROVE  /\ SlotOf(i) \in Slot
           /\ \/ SlotOf(i) \in Cached(i)
              \/ Cached(i) = {} /\ SlotOf(i) \in FreeSlot
  <1>1. Cached(i) \in SUBSET Nat /\ FreeSlot \in SUBSET Nat
    BY Sizes DEF Cached, FreeSlot
  <1>2. CASE Cached(i) # {}
    <2>1. SlotOf(i) \in Cached(i)
      BY <1>1, <1>2, FirstOfSome DEF SlotOf
    <2> QED BY <2>1 DEF Cached
  <1>3. CASE Cached(i) = {}
    <2>1. FreeSlot # {}
      BY <1>3 DEF TableIsFull
    <2>2. SlotOf(i) = First(FreeSlot)
      BY <1>3 DEF SlotOf
    <2>3. SlotOf(i) \in FreeSlot
      BY <1>1, <2>1, <2>2, FirstOfSome
    <2> QED BY <1>3, <2>3 DEF FreeSlot
  <1> QED BY <1>2, <1>3

\* The slot of an inode becomes or stays that of no other one (core.cpp:62-88,
\* fd.cpp:611-630).
LEMMA GottenKeepsDistinct ==
    ASSUME TypeOK, Distinct, NEW i \in Inode, ~TableIsFull(i), NEW n \in Nat,
           inode_table' = [inode_table EXCEPT ![SlotOf(i)] = [index |-> i, ref_count |-> n]]
    PROVE  /\ Distinct'
           /\ inode_table' \in [Slot -> [index : Inode \cup {FS_INODE_INVALID},
                                         ref_count : Nat]]
  <1>1. PICK t \in Slot : t = SlotOf(i)
    BY GottenSlot
  <1>2. inode_table \in [Slot -> [index : Inode \cup {FS_INODE_INVALID}, ref_count : Nat]]
    BY DEF TypeOK
  <1>3. /\ inode_table'[t] = [index |-> i, ref_count |-> n]
        /\ \A s \in Slot : s # t => inode_table'[s] = inode_table[s]
        /\ inode_table' \in [Slot -> [index : Inode \cup {FS_INODE_INVALID}, ref_count : Nat]]
    BY <1>1, <1>2
  <1>4. \A s \in Slot : s # t /\ InUse(s) => inode_table[s].index # i
    <2> SUFFICES ASSUME NEW s \in Slot, s # t, InUse(s), inode_table[s].index = i
                 PROVE  FALSE
      OBVIOUS
    <2>1. s \in Cached(i)
      BY DEF Cached, InUse
    <2>2. t \in Cached(i)
      BY <1>1, <2>1, GottenSlot
    <2> QED BY <2>2 DEF Distinct, InUse, Cached
  <1>5. \A s, u \in Slot :
           InUse(s)' /\ InUse(u)' /\ inode_table'[s].index = inode_table'[u].index => s = u
    BY <1>1, <1>3, <1>4 DEF Distinct, InUse
  <1> QED BY <1>3, <1>5 DEF Distinct

\* What fs_get_inode makes of the table, for any inode.
LEMMA GottenIs ==
    ASSUME TypeOK, NEW i, ~TableIsFull(i)
    PROVE  \E n \in Nat :
              Gotten(i) = [inode_table EXCEPT ![SlotOf(i)] = [index |-> i, ref_count |-> n]]
  <1>1. PICK t \in Slot : t = SlotOf(i)
    BY GottenSlot
  <1>2. inode_table[t].ref_count + 1 \in Nat
    <2>1. inode_table \in [Slot -> [index : Inode \cup {FS_INODE_INVALID}, ref_count : Nat]]
      BY DEF TypeOK
    <2>2. inode_table[t].ref_count \in Nat
      BY <2>1
    <2> QED BY <2>2
  <1> QED BY <1>1, <1>2 DEF Gotten

\* A new file gets the only reference, set to 1 (fd.cpp:611-630).
LEMMA FirstReferenceIs ==
    ASSUME TypeOK, NEW i, ~TableIsFull(i)
    PROVE  [Gotten(i) EXCEPT ![SlotOf(i)].ref_count = 1]
              = [inode_table EXCEPT ![SlotOf(i)] = [index |-> i, ref_count |-> 1]]
  <1>1. PICK s \in Slot : s = SlotOf(i)
    BY GottenSlot
  <1>2. PICK n \in Nat :
           Gotten(i) = [inode_table EXCEPT ![s] = [index |-> i, ref_count |-> n]]
    BY <1>1, GottenIs
  <1>3. DOMAIN inode_table = Slot
    BY DEF TypeOK
  <1> DEFINE r == [index |-> i, ref_count |-> n]
             table == [inode_table EXCEPT ![s] = r]
  <1>4. table[s] = r /\ DOMAIN table = Slot /\ \A x \in Slot : x # s => table[x] = inode_table[x]
    BY <1>1, <1>3
  <1>5. [r EXCEPT !.ref_count = 1] = [index |-> i, ref_count |-> 1]
    OBVIOUS
  <1> HIDE DEF r, table
  <1>6. [table EXCEPT ![s].ref_count = 1] = [table EXCEPT ![s] = [r EXCEPT !.ref_count = 1]]
    BY <1>1, <1>4
  <1>7. [table EXCEPT ![s] = [index |-> i, ref_count |-> 1]]
           = [inode_table EXCEPT ![s] = [index |-> i, ref_count |-> 1]]
    BY <1>1, <1>3, <1>4
  <1> QED BY <1>1, <1>2, <1>5, <1>6, <1>7 DEF r, table

\* It is the one that fs_get_inode counts when no slot had the inode.
LEMMA FirstReference ==
    ASSUME TypeOK, Counted, leftover # "reached", NEW i \in Inode \ imap, ~TableIsFull(i)
    PROVE  [Gotten(i) EXCEPT ![SlotOf(i)].ref_count = 1] = Gotten(i)
  <1> DEFINE s == SlotOf(i)
  <1>1. s \in Slot /\ s \in FreeSlot
    <2>1. Cached(i) = {}
      BY DEF Counted, InUse, Cached
    <2> QED BY <2>1, GottenSlot
  <1>2. inode_table[s].ref_count = 0
    BY <1>1 DEF FreeSlot
  <1>3. Gotten(i) = [inode_table EXCEPT ![s] = [index |-> i, ref_count |-> 1]]
    BY <1>2 DEF Gotten
  <1> QED BY <1>3, FirstReferenceIs

\* What fs_get_inode does to the counts, with or without a descriptor that is
\* free and comes to stand for the slot.
LEMMA GottenKeepsCounted ==
    ASSUME TypeOK, Counted, leftover' # "reached" => leftover # "reached",
           NEW i \in Inode, ~TableIsFull(i),
           leftover' # "reached" => inode_table' = Gotten(i) /\ i \in imap',
           imap \subseteq imap',
           \/ f_desc' = f_desc
           \/ \E d \in FreeDesc : f_desc' = [f_desc EXCEPT ![d] = SlotOf(i)]
    PROVE  Counted'
  <1> SUFFICES ASSUME leftover' # "reached"
               PROVE  \A s \in Slot : /\ inode_table'[s].ref_count >= Sharers(s)'
                                      /\ InUse(s)' => inode_table'[s].index \in imap'
    BY DEF Counted
  <1>1. PICK t \in Slot : t = SlotOf(i)
    BY GottenSlot
  <1>2. /\ inode_table \in [Slot -> [index : Inode \cup {FS_INODE_INVALID}, ref_count : Nat]]
        /\ f_desc \in [Desc -> Slot \cup {None}]
    BY DEF TypeOK
  <1>3. /\ inode_table'[t] = [index |-> i, ref_count |-> inode_table[t].ref_count + 1]
        /\ \A s \in Slot : s # t => inode_table'[s] = inode_table[s]
    BY <1>1, <1>2 DEF Gotten
  <1>4. /\ \A s \in Slot : s # t => UsersOf(s)' = UsersOf(s)
        /\ UsersOf(t)' = UsersOf(t) \/ \E d : UsersOf(t)' = UsersOf(t) \cup {d}
    <2>1. CASE f_desc' = f_desc
      BY <2>1 DEF UsersOf
    <2>2. ASSUME NEW d \in FreeDesc, f_desc' = [f_desc EXCEPT ![d] = t]
          PROVE  /\ \A s \in Slot : s # t => UsersOf(s)' = UsersOf(s)
                 /\ UsersOf(t)' = UsersOf(t) \cup {d}
      <3>1. d \in Desc /\ f_desc[d] = None /\ None \notin Slot
        BY Sizes DEF FreeDesc, None
      <3> QED BY <1>1, <1>2, <2>2, <3>1 DEF UsersOf
    <2> QED BY <1>1, <2>1, <2>2
  <1>5. ASSUME NEW s \in Slot PROVE inode_table'[s].ref_count >= Sharers(s)'
    <2>1. inode_table[s].ref_count >= Sharers(s) /\ inode_table[s].ref_count \in Nat
      BY <1>2 DEF Counted
    <2>2. CASE s # t
      BY <1>3, <1>4, <2>1, <2>2 DEF Sharers
    <2>3. CASE s = t
      <3>1. IsFiniteSet(UsersOf(s)) /\ Sharers(s) \in Nat /\ Cardinality(UsersOf(s)) \in Nat
        BY SharersCount, FS_CardinalityType
      <3>2. \A d : Cardinality(UsersOf(s) \cup {d}) <= Cardinality(UsersOf(s)) + 1
                    /\ Cardinality(UsersOf(s) \cup {d}) \in Nat
        <4> TAKE d
        <4>1. /\ IsFiniteSet(UsersOf(s) \cup {d})
              /\ Cardinality(UsersOf(s) \cup {d}) =
                    IF d \in UsersOf(s) THEN Cardinality(UsersOf(s))
                                       ELSE Cardinality(UsersOf(s)) + 1
          BY <3>1, FS_AddElement, Zenon
        <4> QED BY <3>1, <4>1
      <3>3. Cardinality(UsersOf(s)') <= Cardinality(UsersOf(s)) + 1
             /\ Cardinality(UsersOf(s)') \in Nat
        <4>1. UsersOf(s)' = UsersOf(s) \/ \E d : UsersOf(s)' = UsersOf(s) \cup {d}
          BY <1>4, <2>3
        <4>2. CASE UsersOf(s)' = UsersOf(s)
          BY <4>2, <3>1
        <4>3. ASSUME NEW d, UsersOf(s)' = UsersOf(s) \cup {d}
              PROVE  Cardinality(UsersOf(s)') <= Cardinality(UsersOf(s)) + 1
                       /\ Cardinality(UsersOf(s)') \in Nat
          BY <4>3, <3>2
        <4> QED BY <4>1, <4>2, <4>3
      <3>4. Sharers(s)' = Cardinality(UsersOf(s)') + (IF s = 0 THEN 1 ELSE 0)
        BY DEF Sharers
      <3>5. inode_table'[s].ref_count = inode_table[s].ref_count + 1
        BY <1>3, <2>3
      <3> QED BY <2>1, <3>1, <3>3, <3>4, <3>5 DEF Sharers
    <2> QED BY <2>2, <2>3
  <1>6. \A s \in Slot : InUse(s)' => inode_table'[s].index \in imap'
    BY <1>3 DEF Counted, InUse
  <1> QED BY <1>5, <1>6

\* As many files as places that are taken.
LEMMA FilesArePlaces ==
    ASSUME TypeOK, Sectors
    PROVE  /\ IsFiniteSet(Taken) /\ Cardinality(Taken) \in Nat
           /\ Cardinality(RegularFile) = Cardinality(Taken)
           /\ Cardinality(Taken) <= NumExtent
           /\ Cardinality(Taken) = NumExtent <=> Taken = 1..NumExtent
  <1> DEFINE place == [i \in RegularFile |->
                         CHOOSE e \in 1..NumExtent : disk_inode[i].start_sector = e * F]
  <1>1. \A i \in RegularFile : place[i] \in 1..NumExtent
                                 /\ disk_inode[i].start_sector = place[i] * F
    BY DEF Sectors
  <1>2. \A d, e \in 1..NumExtent : d * F = e * F => d = e
    BY MultiplesDiffer
  <1>3. place \in [RegularFile -> Taken]
    BY <1>1 DEF Taken
  <1>4. \A i, j \in RegularFile : place[i] = place[j] => i = j
    BY <1>1 DEF Sectors
  <1>5. \A e \in Taken : \E i \in RegularFile : place[i] = e
    BY <1>1, <1>2 DEF Taken
  <1> HIDE DEF place
  <1>6. place \in Injection(RegularFile, Taken)
    BY <1>3, <1>4 DEF Injection, IsInjective
  <1>7. place \in Surjection(RegularFile, Taken)
    BY <1>3, <1>5 DEF Surjection
  <1>8. IsFiniteSet(1..NumExtent) /\ Cardinality(1..NumExtent) = NumExtent
    BY MapSizes, FS_Interval
  <1>9. Taken \in SUBSET (1..NumExtent)
    BY DEF Taken
  <1>10. /\ IsFiniteSet(Taken) /\ Cardinality(Taken) <= NumExtent
         /\ Cardinality(Taken) = NumExtent <=> Taken = 1..NumExtent
    BY <1>8, <1>9, FS_Subset
  <1> QED BY <1>6, <1>7, <1>10, FS_Injection, FS_CardinalityType

\* While there is a place for a file there is an inode for it (fd.cpp:499-558).
LEMMA RoomForInode ==
    ASSUME TypeOK, Modes, Sectors, ~MapIsFull(smap)
    PROVE  Inode \ imap # {}
  <1> SUFFICES ASSUME Inode \subseteq imap PROVE FALSE
    OBVIOUS
  <1> DEFINE new == (NumDevice + 2) .. MaxEntry
  <1>1. new \subseteq RegularFile
    <2>1. new \subseteq Inode /\ new \cap FormattedMap = {}
      BY Sizes
    <2> QED BY <2>1 DEF RegularFile, Modes
  <1>2. IsFiniteSet(RegularFile)
    <2>1. IsFiniteSet(Inode)
      BY Sizes, FS_Interval
    <2> QED BY <2>1, FS_Subset DEF RegularFile, TypeOK
  <1>3. Cardinality(new) = NumExtent
    <2>1. NumDevice + 2 \in Int /\ MaxEntry \in Int /\ MaxEntry = 1 + NumDevice + NumExtent
      BY Sizes DEF MaxEntry
    <2>2. Cardinality(new) = IF NumDevice + 2 > MaxEntry THEN 0
                                                         ELSE MaxEntry - (NumDevice + 2) + 1
      BY <2>1, FS_Interval
    <2> QED BY <2>1, <2>2, Sizes
  <1>4. NumExtent <= Cardinality(RegularFile)
    BY <1>1, <1>2, <1>3, FS_Subset
  <1>5. Taken = 1..NumExtent
    BY <1>4, FilesArePlaces, Sizes
  <1>6. smap = MapOf(Taken) /\ Taken \in SUBSET (1..NumExtent)
    BY DEF Sectors, Taken
  <1> QED BY <1>5, <1>6, FreePlace

\* While there is an inode there is an entry (fd.cpp:632-675).
LEMMA RoomForEntry ==
    ASSUME TypeOK, Entries, panicked = "no", Inode \ imap # {}
    PROVE  /\ NewEntry \in 0..MaxEntry /\ NewEntry \in Nat
           /\ NewEntry = dir_size => dir_size < MaxEntry
  <1> DEFINE free == {k \in 0 .. (dir_size - 1) : dir[k].inode = FS_INODE_INVALID}
  <1>1. dir_size \in Nat /\ dir_size <= MaxEntry /\ MaxEntry \in Nat
    BY Sizes DEF TypeOK
  <1>2. CASE free # {}
    <2>1. free \in SUBSET Nat /\ NewEntry = First(free)
      BY <1>1, <1>2 DEF NewEntry
    <2>2. NewEntry \in free
      BY <1>2, <2>1, FirstOfSome
    <2>3. NewEntry \in 0 .. (dir_size - 1)
      BY <2>2
    <2> QED BY <2>3, <1>1
  <1>3. CASE free = {}
    <2>1. NewEntry = dir_size
      BY <1>3 DEF NewEntry
    <2> DEFINE D == 0 .. (dir_size - 1)
               f == [k \in D |-> dir[k].inode]
    <2>2. f \in Injection(D, imap)
      <3>1. D \subseteq Own
        <4>1. \A k \in D : k \in 0..MaxEntry /\ k < dir_size
          BY <1>1
        <4> QED BY <4>1 DEF Own
      <3>2. \A k \in D : dir[k].inode # FS_INODE_INVALID
        BY <1>3
      <3>3. \A k \in D : f[k] \in imap
        BY <3>1, <3>2 DEF Entries
      <3>4. \A j, k \in D : f[j] = f[k] => j = k
        BY <3>1, <3>2 DEF Entries
      <3> QED BY <3>3, <3>4 DEF Injection, IsInjective
    <2>3. IsFiniteSet(Inode) /\ Cardinality(Inode) = MaxEntry
      BY Sizes, FS_Interval
    <2>4. IsFiniteSet(imap) /\ Cardinality(imap) < MaxEntry /\ Cardinality(imap) \in Nat
      <3>1. imap \in SUBSET Inode /\ imap # Inode
        BY DEF TypeOK
      <3> QED BY <2>3, <3>1, <1>1, FS_Subset, FS_CardinalityType
    <2>5. Cardinality(D) = dir_size
      BY <1>1, FS_Interval
    <2>6. Cardinality(D) <= Cardinality(imap)
      <3> HIDE DEF f, D
      <3> QED BY <2>2, <2>4, FS_Injection
    <2> QED BY <1>1, <2>1, <2>4, <2>5, <2>6
  <1> QED BY <1>2, <1>3

\* The sectors of a file, as they were allocated and as they are given back.
LEMMA SectorsOfFile ==
    ASSUME NEW i, NEW e \in 1..NumExtent, disk_inode[i].start_sector = e * F
    PROVE  Extent(i) = RunOf(e) /\ SectorsOf(i) = RunOf(e)
  <1>1. e * F \in Nat
    BY MapSizes
  <1>2. Extent(i) = RunOf(e)
    BY DEF Extent, RunOf, F
  <1>3. SectorsOf(i) = RunOf(e)
    BY <1>1, GivenIsRun DEF SectorsOf, RunOf
  <1> QED BY <1>2, <1>3

-----------------------------------------------------------------------------
(* The invariant is kept.                                                  *)

\* What a start makes of the tables and of the disk, whatever it finds.
Started(old, entries) ==
    /\ fd_table = NoFds /\ f_desc = NoDescs /\ inode_table = RootGotten
    /\ imap = FormattedMap /\ smap = RootBits
    /\ disk_inode = FormattedInodes(old) /\ dir = FormattedEntries(entries)
    /\ dir_size = 1 + NumDevice
    /\ panicked = "no"

\* The inodes and the entries that mkfs writes.
LEMMA Roots ==
    /\ RootInodes \in [Inode -> [mode : Mode, start_sector : Bit]]
    /\ \A i \in Inode : i \in FormattedMap => RootInodes[i].mode \in {"directory", "char"}
    /\ RootEntries \in [0..MaxEntry -> [inode : Inode \cup {FS_INODE_INVALID},
                                        name : Name \cup {NoName, MixedName}]]
    /\ \A k \in 0..MaxEntry : RootEntries[k].inode # FS_INODE_INVALID =>
          k \in 0..NumDevice /\ RootEntries[k].inode = k + 1
  <1>1. 0 \in Bit
    BY MapSizes
  <1>2. RootInodes \in [Inode -> [mode : Mode, start_sector : Bit]]
    BY <1>1 DEF RootInodes, FreeInode, Mode
  <1>3. \A i \in Inode : i \in FormattedMap => RootInodes[i].mode \in {"directory", "char"}
    BY Sizes DEF RootInodes, FS_INODE_ROOT
  <1>4. \A k \in 1..NumDevice : Device[k] \in Name /\ k + 1 \in Inode
    BY FileSystemAssumption, Sizes DEF NumDevice, Name, MaxEntry
  <1>5. FS_INODE_ROOT \in Inode /\ Dot \in Name
    BY Sizes DEF Name
  <1>6. RootEntries \in [0..MaxEntry -> [inode : Inode \cup {FS_INODE_INVALID},
                                         name : Name \cup {NoName, MixedName}]]
    BY <1>4, <1>5 DEF RootEntries, FreeEntry
  <1>7. RootEntries[0].inode = 1
    BY Sizes DEF RootEntries, FS_INODE_ROOT
  <1>8. \A k \in 1..NumDevice : RootEntries[k].inode = k + 1
    BY Sizes DEF RootEntries, MaxEntry
  <1>9. \A k \in 0..MaxEntry : k > NumDevice => RootEntries[k].inode = FS_INODE_INVALID
    BY Sizes DEF RootEntries, FreeEntry
  <1>10. \A k \in 0..MaxEntry : RootEntries[k].inode # FS_INODE_INVALID =>
           k \in 0..NumDevice /\ RootEntries[k].inode = k + 1
    BY <1>7, <1>8, <1>9, Sizes
  <1> QED BY <1>2, <1>3, <1>6, <1>10

\* Any start establishes the invariant.
AnyStart ==
    \A old \in [Inode -> [mode : Mode, start_sector : Bit]],
       entries \in [0..MaxEntry -> [inode : Inode \cup {FS_INODE_INVALID},
                                    name : Name \cup {NoName, MixedName}]] :
          /\ Started(old, entries) /\ leftover \in {"none", "behind"}
          /\ leftover = "none" => dir = RootEntries
          => IInv

\* mkfs writes all that the invariant speaks of, but the entries behind its own.
LEMMA StartedIs == AnyStart
  <1> SUFFICES
         ASSUME NEW old \in [Inode -> [mode : Mode, start_sector : Bit]],
                NEW entries \in [0..MaxEntry -> [inode : Inode \cup {FS_INODE_INVALID},
                                                 name : Name \cup {NoName, MixedName}]],
                Started(old, entries), leftover \in {"none", "behind"},
                leftover = "none" => dir = RootEntries
         PROVE  IInv
    BY DEF AnyStart
  <1>1. TypeOK
    <2>1. /\ fd_table \in [Proc -> [Fd -> Desc \cup {None}]]
          /\ f_desc \in [Desc -> Slot \cup {None}]
      BY DEF Started, NoFds, NoDescs
    <2>2. inode_table \in [Slot -> [index : Inode \cup {FS_INODE_INVALID}, ref_count : Nat]]
      BY Sizes DEF Started, RootGotten
    <2>3. imap \subseteq Inode /\ smap \subseteq Bit
      BY Sizes, RunsApart DEF Started
    <2>4. disk_inode \in [Inode -> [mode : Mode, start_sector : Bit]]
      BY Roots DEF Started, FormattedInodes
    <2>5. dir_size \in 0..MaxEntry
      BY Sizes DEF Started, MaxEntry
    <2>6. dir \in [0..MaxEntry -> [inode : Inode \cup {FS_INODE_INVALID},
                                   name : Name \cup {NoName, MixedName}]]
      BY Roots DEF Started, FormattedEntries
    <2>7. panicked = "no"
      BY DEF Started
    <2> QED BY <2>1, <2>2, <2>3, <2>4, <2>5, <2>6, <2>7 DEF TypeOK
  <1>2. Descriptors
    BY DEF Started, NoFds, Descriptors
  <1>3. Distinct /\ Counted /\ Asserted
    <2>1. \A s \in Slot : /\ inode_table[s].ref_count = IF s = 0 THEN 1 ELSE 0
                          /\ s = 0 => inode_table[s].index = FS_INODE_ROOT
      BY DEF Started, RootGotten
    <2>2. \A s \in Slot : UsersOf(s) = {}
      BY Sizes DEF Started, NoDescs, UsersOf, None
    <2>3. \A s \in Slot : inode_table[s].ref_count >= Sharers(s)
      <3> TAKE s \in Slot
      <3>1. Cardinality(UsersOf(s)) = 0
        BY <2>2, FS_EmptySet, Zenon
      <3>2. Sharers(s) = 0 + (IF s = 0 THEN 1 ELSE 0)
        BY <3>1 DEF Sharers
      <3> QED BY <2>1, <3>2
    <2>4. FS_INODE_ROOT \in imap
      BY Sizes DEF Started, FS_INODE_ROOT
    <2>5. Asserted
      BY DEF Asserted, Started
    <2> QED BY <2>1, <2>3, <2>4, <2>5 DEF Distinct, Counted, InUse
  <1>4. Modes
    <2>1. \A i \in Inode : i \in FormattedMap => disk_inode[i] = RootInodes[i]
      BY Sizes DEF Started, FormattedInodes
    <2>2. imap = FormattedMap
      BY DEF Started
    <2> QED BY <2>1, <2>2, Roots DEF Modes
  <1>5. Sectors
    <2>1. RegularFile = {}
      <3>1. \A i \in imap : i \in Inode /\ i \in FormattedMap
        BY Sizes DEF Started
      <3> QED BY <1>4, <3>1 DEF Modes, RegularFile
    <2>2. Taken = {} /\ MapOf({}) = RootBits
      BY <2>1 DEF Taken, MapOf
    <2> QED BY <2>1, <2>2 DEF Started, Sectors
  <1>6. Entries
    <2>1. \A k \in Own : k \in 0..MaxEntry /\ dir[k] = RootEntries[k]
      <3>1. CASE leftover = "none"
        BY <3>1 DEF Own
      <3>2. CASE leftover = "behind"
        <4>1. \A k \in Own : k \in 0..MaxEntry /\ k < FS_DIRENTRY_PER_SECTOR
          BY <3>2, Sizes DEF Own, Started
        <4> QED BY <4>1 DEF Started, FormattedEntries
      <3> QED BY <3>1, <3>2
    <2>2. \A k \in Own : dir[k].inode # FS_INODE_INVALID =>
                            dir[k].inode = k + 1 /\ dir[k].inode \in imap
      <3> TAKE k \in Own
      <3>1. dir[k] = RootEntries[k] /\ k \in 0..MaxEntry
        BY <2>1
      <3>2. CASE dir[k].inode # FS_INODE_INVALID
        <4>1. k \in 0..NumDevice /\ dir[k].inode = k + 1
          BY <3>1, <3>2, Roots
        <4>2. imap = FormattedMap
          BY DEF Started
        <4> QED BY <4>1, <4>2, Sizes
      <3> QED BY <3>2
    <2>3. \A j, k \in Own : dir[j].inode # FS_INODE_INVALID /\ dir[k].inode = dir[j].inode
                               => k = j
      BY <2>1, <2>2, Sizes
    <2>4. dir_size <= FS_DIRENTRY_PER_SECTOR
      BY Sizes DEF Started
    <2> QED BY <2>2, <2>3, <2>4 DEF Entries
  <1> QED BY <1>1, <1>2, <1>3, <1>4, <1>5, <1>6 DEF IInv

\* The first start.
LEMMA InitIInv == Init => IInv
  <1> SUFFICES ASSUME Init PROVE IInv
    OBVIOUS
  <1>1. FormattedInodes(RootInodes) = RootInodes
    BY Roots DEF FormattedInodes
  <1>2. FormattedEntries(RootEntries) = RootEntries
    BY Roots DEF FormattedEntries
  <1>3. Started(RootInodes, RootEntries)
    BY <1>1, <1>2 DEF Init, Started
  <1> QED BY <1>3, Roots, StartedIs DEF AnyStart, Init

\* The files depend on the inodes of the disk alone.
LEMMA SameFiles ==
    ASSUME UNCHANGED <<imap, disk_inode>>
    PROVE  RegularFile' = RegularFile /\ Taken' = Taken
  BY DEF RegularFile, Taken

\* The descriptors stay when their tables do.
LEMMA SameDescriptors ==
    ASSUME Descriptors, UNCHANGED <<fd_table, f_desc>>
    PROVE  Descriptors'
  BY DEF Descriptors

\* What depends on the disk stays when it does.
LEMMA SameDisk ==
    ASSUME Modes, Sectors, Entries, UNCHANGED <<disk, panicked>>
    PROVE  Modes' /\ Sectors' /\ Entries'
  BY SameFiles DEF disk, Modes, Sectors, Entries, Own

\* What is said of the references stays when the tables do.
LEMMA SameReferences ==
    ASSUME Distinct, Counted, UNCHANGED <<f_desc, inode_table, leftover>>, imap \subseteq imap'
    PROVE  Distinct' /\ Counted'
  BY DEF Distinct, Counted, InUse, Sharers, UsersOf

\* A panic changes nothing else, for want of sectors there is one only when every
\* place is taken, and two of them come only with entries of an earlier start.
LEMMA PanicKeeps ==
    ASSUME IInv, NEW why, Panic(why),
           why \in {"no available fd", "no access flag", "inode table is full",
                    "no free sectors", "not a regular file", "no reference",
                    "inode is not allocated", "stat is not implemented"},
           why = "no free sectors" => MapIsFull(smap),
           why \in {"no reference", "inode is not allocated"} => leftover = "reached"
    PROVE  IInv'
  <1>1. UNCHANGED <<memory, disk>> /\ panicked' = why
    BY DEF Panic
  <1>2. TypeOK' /\ Descriptors' /\ Distinct' /\ Counted' /\ Modes'
    <2>1. TypeOK'
      BY <1>1 DEF IInv, memory, disk, TypeOK
    <2>2. Descriptors'
      <3>1. fd_table' = fd_table /\ f_desc' = f_desc
        BY <1>1 DEF memory
      <3> QED BY <3>1, SameDescriptors DEF IInv
    <2>3. Distinct' /\ Counted'
      BY <1>1, SameReferences DEF IInv, memory, disk
    <2>4. Modes'
      BY <1>1 DEF IInv, disk, Modes
    <2> QED BY <2>1, <2>2, <2>3, <2>4
  <1>3. Sectors'
    <2>1. UNCHANGED <<imap, disk_inode, smap>>
      BY <1>1 DEF disk
    <2>2. RegularFile' = RegularFile /\ Taken' = Taken
      BY <2>1, SameFiles
    <2>3. why = "no free sectors" => Taken = 1..NumExtent
      <3>1. smap = MapOf(Taken) /\ Taken \in SUBSET (1..NumExtent)
        BY DEF IInv, Sectors, Taken
      <3> QED BY <3>1, FreePlace
    <2> QED BY <1>1, <2>1, <2>2, <2>3 DEF IInv, Sectors
  <1>4. Entries'
    BY <1>1 DEF IInv, Entries, disk
  <1>5. Asserted'
    BY <1>1 DEF Asserted, disk
  <1> QED BY <1>2, <1>3, <1>4, <1>5 DEF IInv

\* Describe gives the process a descriptor that nobody has (fd.cpp:49-72, 211-216).
LEMMA DescribeKeeps ==
    ASSUME TypeOK, Descriptors, NEW p \in Proc, CanOpen(p), NEW i,
           SlotOf(i) \in Slot, Describe(p, i)
    PROVE  /\ Descriptors'
           /\ fd_table' \in [Proc -> [Fd -> Desc \cup {None}]]
           /\ f_desc' \in [Desc -> Slot \cup {None}]
           /\ \E d \in FreeDesc : f_desc' = [f_desc EXCEPT ![d] = SlotOf(i)]
  <1>1. PICK d \in FreeDesc : d = First(FreeDesc)
    <2>1. FreeDesc \in SUBSET Nat /\ FreeDesc # {}
      BY Sizes DEF FreeDesc, CanOpen
    <2> QED BY <2>1, FirstOfSome
  <1>2. PICK x \in FreeFd(p) : x = First(FreeFd(p))
    <2>1. FreeFd(p) \in SUBSET Nat /\ FreeFd(p) # {}
      BY Sizes DEF CanOpen
    <2> QED BY <2>1, FirstOfSome
  <1>3. PICK t \in Slot : t = SlotOf(i)
    OBVIOUS
  <1>4. /\ f_desc' = [f_desc EXCEPT ![d] = t]
        /\ fd_table' = [fd_table EXCEPT ![p][x] = d]
    BY <1>1, <1>2, <1>3 DEF Describe
  <1>5. d \in Desc /\ f_desc[d] = None /\ x \in Fd /\ d # None /\ t # None
    BY Sizes, <1>1, <1>2 DEF FreeDesc, None
  <1>6. /\ fd_table \in [Proc -> [Fd -> Desc \cup {None}]]
        /\ f_desc \in [Desc -> Slot \cup {None}]
    BY DEF TypeOK
  <1>7. /\ fd_table' \in [Proc -> [Fd -> Desc \cup {None}]]
        /\ f_desc' \in [Desc -> Slot \cup {None}]
        /\ f_desc'[d] = t /\ \A c \in Desc : c # d => f_desc'[c] = f_desc[c]
        /\ fd_table'[p][x] = d
        /\ \A q \in Proc, y \in Fd : q # p \/ y # x => fd_table'[q][y] = fd_table[q][y]
    BY <1>4, <1>5, <1>6
  <1>8. \A q \in Proc, y \in Fd : fd_table[q][y] # d
    BY <1>5 DEF Descriptors
  <1>9. Descriptors'
    <2>1. \A q \in Proc, y \in Fd :
             fd_table'[q][y] # None => f_desc'[fd_table'[q][y]] # None
      <3> SUFFICES ASSUME NEW q \in Proc, NEW y \in Fd, fd_table'[q][y] # None
                   PROVE  f_desc'[fd_table'[q][y]] # None
        OBVIOUS
      <3>1. CASE q = p /\ y = x
        BY <1>5, <1>7, <3>1
      <3>2. CASE ~(q = p /\ y = x)
        <4>1. fd_table'[q][y] = fd_table[q][y] /\ fd_table[q][y] \in Desc
          BY <1>6, <1>7, <3>2
        <4> QED BY <4>1, <1>7, <1>8 DEF Descriptors
      <3> QED BY <3>1, <3>2
    <2>2. \A q, r \in Proc, y, z \in Fd :
             fd_table'[q][y] = fd_table'[r][z] /\ fd_table'[q][y] # None
                => q = r /\ y = z
      BY <1>7, <1>8 DEF Descriptors
    <2> QED BY <2>1, <2>2 DEF Descriptors
  <1> QED BY <1>3, <1>4, <1>7, <1>9

\* open() of a file that is there: one more descriptor refers to its inode.
LEMMA OpenExistingKeeps ==
    ASSUME IInv, NEW p \in Proc, NEW path \in Path, OpenExisting(p, path)
    PROVE  IInv'
  <1> DEFINE i == fs_search_file(path)
  <1>1. /\ CanOpen(p) /\ panicked = "no" /\ i # FS_INODE_INVALID
        /\ \/ Panic("inode table is full")
           \/ Panic("not a regular file")
           \/ /\ ~TableIsFull(i) /\ i \in Inode
              /\ inode_table' = Gotten(i)
              /\ Describe(p, i)
              /\ UNCHANGED <<disk, panicked>>
    BY DEF OpenExisting, CanOpen, Request, NotAFile
  <1>2. CASE ~TableIsFull(i) /\ i \in Inode /\ inode_table' = Gotten(i)
              /\ Describe(p, i) /\ UNCHANGED <<disk, panicked>>
    <2>1. leftover # "reached" => i \in imap
      <3>1. path # RootPath
        BY <1>2, Sizes DEF fs_search_file
      <3> QED BY <1>1, <3>1, FoundIsAllocated DEF IInv
    <2> HIDE DEF i
    <2>2. SlotOf(i) \in Slot
      BY <1>2, GottenSlot
    <2>3. /\ Descriptors'
          /\ fd_table' \in [Proc -> [Fd -> Desc \cup {None}]]
          /\ f_desc' \in [Desc -> Slot \cup {None}]
          /\ \E d \in FreeDesc : f_desc' = [f_desc EXCEPT ![d] = SlotOf(i)]
      BY <1>1, <1>2, <2>2, DescribeKeeps DEF IInv
    <2>4. PICK n \in Nat :
             inode_table' = [inode_table EXCEPT ![SlotOf(i)] = [index |-> i, ref_count |-> n]]
      BY <1>2, GottenIs DEF IInv
    <2>5. /\ Distinct'
          /\ inode_table' \in [Slot -> [index : Inode \cup {FS_INODE_INVALID},
                                        ref_count : Nat]]
      BY <1>2, <2>4, GottenKeepsDistinct DEF IInv
    <2>6. Counted'
      <3>1. leftover' = leftover /\ imap' = imap
        BY <1>2 DEF disk
      <3> QED BY <1>2, <2>1, <2>3, <3>1, GottenKeepsCounted DEF IInv
    <2>7. TypeOK'
      BY <1>2, <2>3, <2>5 DEF IInv, TypeOK, disk
    <2>8. Modes' /\ Sectors' /\ Entries' /\ Asserted'
      BY <1>2, SameDisk DEF IInv, Asserted, disk
    <2> QED BY <2>3, <2>5, <2>6, <2>7, <2>8 DEF IInv
  <1> QED BY <1>1, <1>2, PanicKeeps

\* unlink() that is refused takes a reference to the inode and keeps it.
LEMMA UnlinkRefusedKeeps ==
    ASSUME IInv, NEW path \in Path, UnlinkRefused(path)
    PROVE  IInv'
  <1> DEFINE i == fs_search_file(path)
  <1>1. /\ panicked = "no" /\ i # FS_INODE_INVALID /\ path # RootPath
        /\ \/ Panic("inode table is full")
           \/ /\ ~TableIsFull(i) /\ inode_table' = Gotten(i)
              /\ UNCHANGED <<fd_table, f_desc, disk, panicked>>
    BY DEF UnlinkRefused, CanUnlink, Request
  <1>2. CASE ~TableIsFull(i) /\ inode_table' = Gotten(i)
              /\ UNCHANGED <<fd_table, f_desc, disk, panicked>>
    <2>1. i \in Inode /\ (leftover # "reached" => i \in imap)
      BY <1>1, FoundInEntry, FoundIsAllocated DEF IInv
    <2> HIDE DEF i
    <2>2. PICK n \in Nat :
             inode_table' = [inode_table EXCEPT ![SlotOf(i)] = [index |-> i, ref_count |-> n]]
      BY <1>2, GottenIs DEF IInv
    <2>3. /\ Distinct'
          /\ inode_table' \in [Slot -> [index : Inode \cup {FS_INODE_INVALID},
                                        ref_count : Nat]]
      BY <1>2, <2>1, <2>2, GottenKeepsDistinct DEF IInv
    <2>4. Counted'
      <3>1. leftover' = leftover /\ imap' = imap
        BY <1>2 DEF disk
      <3> QED BY <1>2, <2>1, <3>1, GottenKeepsCounted DEF IInv
    <2>5. TypeOK' /\ Descriptors'
      <3>1. TypeOK'
        BY <1>2, <2>3 DEF IInv, TypeOK, disk
      <3>2. Descriptors'
        BY <1>2, SameDescriptors DEF IInv
      <3> QED BY <3>1, <3>2
    <2>6. Modes' /\ Sectors' /\ Entries' /\ Asserted'
      BY <1>2, SameDisk DEF IInv, Asserted, disk
    <2> QED BY <2>3, <2>4, <2>5, <2>6 DEF IInv
  <1> QED BY <1>1, <1>2, PanicKeeps

\* A descriptor that is closed is one user of the inode less.
LEMMA CloseKeeps ==
    ASSUME IInv, NEW p \in Proc, NEW fd \in Fd, Close(p, fd)
    PROVE  IInv'
  <1>1. PICK d \in Desc : d = fd_table[p][fd]
    <2>1. fd_table \in [Proc -> [Fd -> Desc \cup {None}]]
      BY DEF IInv, TypeOK
    <2>2. fd_table[p][fd] # None
      BY DEF Close
    <2> QED BY <2>1, <2>2
  <1>2. PICK t \in Slot : t = f_desc[d]
    <2>1. f_desc \in [Desc -> Slot \cup {None}]
      BY DEF IInv, TypeOK
    <2>2. f_desc[d] # None
      <3>1. fd_table[p][fd] # None
        BY DEF Close
      <3> QED BY <1>1, <3>1 DEF IInv, Descriptors
    <2> QED BY <2>1, <2>2
  <1>3. \/ inode_table[t].ref_count = 0 /\ Panic("no reference")
        \/ /\ inode_table[t].ref_count > 0
           /\ inode_table' = [inode_table EXCEPT ![t].ref_count = @ - 1]
           /\ f_desc' = [f_desc EXCEPT ![d] = None]
           /\ fd_table' = [fd_table EXCEPT ![p][fd] = None]
           /\ UNCHANGED <<disk, panicked>>
    BY <1>1, <1>2 DEF Close
  <1>4. /\ fd_table \in [Proc -> [Fd -> Desc \cup {None}]]
        /\ f_desc \in [Desc -> Slot \cup {None}]
        /\ inode_table \in [Slot -> [index : Inode \cup {FS_INODE_INVALID}, ref_count : Nat]]
        /\ d # None /\ t # None
    <2>1. d # None /\ t # None
      BY Sizes DEF None
    <2> QED BY <2>1 DEF IInv, TypeOK
  <1>5. leftover # "reached" =>
           inode_table[t].ref_count >= Sharers(t) /\ Sharers(t) > 0 /\ Sharers(t) \in Nat
    <2>1. d \in UsersOf(t)
      BY <1>2 DEF UsersOf
    <2> QED BY <2>1, SharersCount DEF IInv, Counted
  <1>6. CASE inode_table[t].ref_count = 0 /\ Panic("no reference")
    <2>1. leftover = "reached"
      <3>1. inode_table[t].ref_count = 0
        BY <1>6
      <3> QED BY <1>5, <3>1
    <2> QED BY <1>6, <2>1, PanicKeeps
  <1>7. CASE /\ inode_table[t].ref_count > 0
              /\ inode_table' = [inode_table EXCEPT ![t].ref_count = @ - 1]
              /\ f_desc' = [f_desc EXCEPT ![d] = None]
              /\ fd_table' = [fd_table EXCEPT ![p][fd] = None]
              /\ UNCHANGED <<disk, panicked>>
    <2>1. /\ inode_table'[t] = [inode_table[t] EXCEPT !.ref_count = @ - 1]
          /\ inode_table'[t].ref_count = inode_table[t].ref_count - 1
          /\ inode_table'[t].index = inode_table[t].index
          /\ \A s \in Slot : s # t => inode_table'[s] = inode_table[s]
          /\ inode_table' \in [Slot -> [index : Inode \cup {FS_INODE_INVALID}, ref_count : Nat]]
      BY <1>7, <1>4, <1>5
    <2>2. /\ f_desc' \in [Desc -> Slot \cup {None}]
          /\ f_desc'[d] = None /\ \A c \in Desc : c # d => f_desc'[c] = f_desc[c]
          /\ fd_table' \in [Proc -> [Fd -> Desc \cup {None}]]
          /\ fd_table'[p][fd] = None
          /\ \A q \in Proc, y \in Fd : q # p \/ y # fd => fd_table'[q][y] = fd_table[q][y]
      BY <1>7, <1>4
    <2>3. TypeOK'
      BY <1>7, <2>1, <2>2 DEF IInv, TypeOK, disk
    <2>4. Descriptors'
      <3>1. \A q \in Proc, y \in Fd : q # p \/ y # fd => fd_table[q][y] # d
        BY <1>1, <1>4 DEF IInv, Descriptors
      <3>2. \A q \in Proc, y \in Fd :
               fd_table'[q][y] # None => f_desc'[fd_table'[q][y]] # None
        <4> SUFFICES ASSUME NEW q \in Proc, NEW y \in Fd, fd_table'[q][y] # None
                     PROVE  f_desc'[fd_table'[q][y]] # None
          OBVIOUS
        <4>1. q # p \/ y # fd
          BY <2>2
        <4>2. fd_table'[q][y] = fd_table[q][y] /\ fd_table[q][y] \in Desc
          BY <1>4, <2>2, <4>1
        <4> QED BY <2>2, <3>1, <4>1, <4>2 DEF IInv, Descriptors
      <3>3. \A q, r \in Proc, y, z \in Fd :
               fd_table'[q][y] = fd_table'[r][z] /\ fd_table'[q][y] # None
                  => q = r /\ y = z
        <4> SUFFICES ASSUME NEW q \in Proc, NEW r \in Proc, NEW y \in Fd, NEW z \in Fd,
                            fd_table'[q][y] = fd_table'[r][z], fd_table'[q][y] # None
                     PROVE  q = r /\ y = z
          OBVIOUS
        <4>1. (q # p \/ y # fd) /\ (r # p \/ z # fd)
          BY <2>2
        <4>2. fd_table[q][y] = fd_table[r][z] /\ fd_table[q][y] # None
          BY <2>2, <4>1
        <4> QED BY <4>2 DEF IInv, Descriptors
      <3> QED BY <3>2, <3>3 DEF Descriptors
    <2>5. Counted'
      <3> SUFFICES ASSUME leftover # "reached", NEW s \in Slot
                   PROVE  /\ inode_table'[s].ref_count >= Sharers(s)'
                          /\ InUse(s)' => inode_table'[s].index \in imap'
        BY <1>7 DEF Counted, disk
      <3>1. inode_table[s].ref_count >= Sharers(s) /\ inode_table[s].ref_count \in Nat
        BY <1>4 DEF IInv, Counted
      <3>2. CASE s # t
        <4>1. UsersOf(s)' = UsersOf(s)
          BY <1>2, <1>7, <1>4, <3>2, Sizes DEF UsersOf, None
        <4>2. inode_table'[s] = inode_table[s] /\ imap' = imap
          BY <1>7, <2>1, <3>2 DEF disk
        <4> QED BY <3>1, <4>1, <4>2 DEF IInv, Counted, Sharers, InUse
      <3>3. CASE s = t
        <4>1. UsersOf(s)' = UsersOf(s) \ {d} /\ d \in UsersOf(s)
          BY <1>2, <1>7, <1>4, <3>3 DEF UsersOf
        <4>2. IsFiniteSet(UsersOf(s)) /\ Cardinality(UsersOf(s)) \in Nat
          BY SharersCount, FS_CardinalityType
        <4>3. Cardinality(UsersOf(s) \ {d}) = Cardinality(UsersOf(s)) - 1
          BY <4>1, <4>2, FS_RemoveElement
        <4>4. Sharers(s)' = Cardinality(UsersOf(s)') + (IF s = 0 THEN 1 ELSE 0)
          BY DEF Sharers
        <4>5. Sharers(s)' = Sharers(s) - 1
          BY <4>1, <4>2, <4>3, <4>4 DEF Sharers
        <4>6. Sharers(s) \in Nat
          BY SharersCount
        <4>7. inode_table'[s].ref_count >= Sharers(s)'
          BY <2>1, <3>1, <3>3, <4>5, <4>6
        <4>8. inode_table'[s].index = inode_table[s].index /\ InUse(s) /\ imap' = imap
          BY <1>7, <2>1, <3>3 DEF InUse, disk
        <4> QED BY <4>7, <4>8 DEF IInv, Counted
      <3> QED BY <3>2, <3>3
    <2>6. Distinct'
      <3>1. \A s \in Slot : inode_table'[s].index = inode_table[s].index
                              /\ (InUse(s)' => InUse(s))
        <4> SUFFICES ASSUME NEW s \in Slot
                     PROVE  inode_table'[s].index = inode_table[s].index
                              /\ (InUse(s)' => InUse(s))
          OBVIOUS
        <4>1. CASE s = t
          BY <1>7, <2>1, <4>1 DEF InUse
        <4>2. CASE s # t
          BY <2>1, <4>2 DEF InUse
        <4> QED BY <4>1, <4>2
      <3> QED BY <3>1 DEF IInv, Distinct
    <2>7. Modes' /\ Sectors' /\ Entries' /\ Asserted'
      BY <1>7, SameDisk DEF IInv, Asserted, disk
    <2> QED BY <2>3, <2>4, <2>5, <2>6, <2>7 DEF IInv
  <1> QED BY <1>3, <1>6, <1>7

\* A file that is created gets an inode, sectors, an entry and a descriptor, each
\* of which was free.
LEMMA OpenCreateKeeps ==
    ASSUME IInv, NEW p \in Proc, NEW path \in File, OpenCreate(p, path)
    PROVE  IInv'
  <1> DEFINE new == First(Inode \ imap)
  <1>1. /\ CanOpen(p) /\ panicked = "no"
        /\ \/ MapIsFull(smap) /\ Panic("no free sectors")
           \/ Panic("inode table is full")
           \/ /\ ~MapIsFull(smap) /\ ~TableIsFull(new)
              /\ imap' = imap \cup {new}
              /\ smap' = smap \cup Wanted(smap)
              /\ disk_inode' = [disk_inode EXCEPT ![new] =
                    [mode |-> "regular", start_sector |-> StartOf(smap)]]
              /\ dir' = EntryNamed(NewEntry, new, path)
              /\ dir_size' = IF NewEntry = dir_size THEN dir_size + 1 ELSE dir_size
              /\ leftover' = IF leftover = "behind" /\ dir_size' > FS_DIRENTRY_PER_SECTOR
                             THEN "reached" ELSE leftover
              /\ inode_table' = [Gotten(new) EXCEPT ![SlotOf(new)].ref_count = 1]
              /\ Describe(p, new)
              /\ UNCHANGED panicked
    BY DEF OpenCreate, CanOpen, Request, NewInodes
  <1>2. CASE /\ ~MapIsFull(smap) /\ ~TableIsFull(new)
             /\ imap' = imap \cup {new}
             /\ smap' = smap \cup Wanted(smap)
             /\ disk_inode' = [disk_inode EXCEPT ![new] =
                   [mode |-> "regular", start_sector |-> StartOf(smap)]]
             /\ dir' = EntryNamed(NewEntry, new, path)
             /\ dir_size' = IF NewEntry = dir_size THEN dir_size + 1 ELSE dir_size
             /\ leftover' = IF leftover = "behind" /\ dir_size' > FS_DIRENTRY_PER_SECTOR
                            THEN "reached" ELSE leftover
             /\ inode_table' = [Gotten(new) EXCEPT ![SlotOf(new)].ref_count = 1]
             /\ Describe(p, new)
             /\ UNCHANGED panicked
    <2>1. /\ imap \subseteq Inode /\ dir_size \in 0..MaxEntry
          /\ disk_inode \in [Inode -> [mode : Mode, start_sector : Bit]]
          /\ dir \in [0..MaxEntry -> [inode : Inode \cup {FS_INODE_INVALID},
                                      name : Name \cup {NoName, MixedName}]]
      BY DEF IInv, TypeOK
    <2>2. PICK i \in Inode \ imap : i = new
      <3>1. Inode \ imap # {} /\ Inode \ imap \in SUBSET Nat
        BY <1>2, RoomForInode, Sizes DEF IInv
      <3> QED BY <3>1, FirstOfSome
    <2>3. PICK k \in 0..MaxEntry : k = NewEntry
      BY <1>1, <2>2, RoomForEntry DEF IInv
    <2>4. PICK e \in (1..NumExtent) \ Taken :
             StartOf(smap) = e * F /\ Wanted(smap) = RunOf(e)
      <3>1. smap = MapOf(Taken) /\ Taken \in SUBSET (1..NumExtent)
        BY DEF IInv, Sectors, Taken
      <3> QED BY <1>2, <3>1, FreePlace
    <2>5. /\ imap' = imap \cup {i} /\ smap' = smap \cup RunOf(e)
          /\ disk_inode' = [disk_inode EXCEPT ![i] =
                               [mode |-> "regular", start_sector |-> e * F]]
          /\ dir' = EntryNamed(k, i, path) /\ Describe(p, i) /\ ~TableIsFull(i)
          /\ panicked' = "no"
          /\ dir_size' = IF k = dir_size THEN dir_size + 1 ELSE dir_size
          /\ leftover' = IF leftover = "behind" /\ dir_size' > FS_DIRENTRY_PER_SECTOR
                         THEN "reached" ELSE leftover
          /\ inode_table' = [Gotten(i) EXCEPT ![SlotOf(i)].ref_count = 1]
      BY <1>1, <1>2, <2>2, <2>3, <2>4 DEF IInv
    <2> HIDE DEF new
    <2>6. imap' \subseteq Inode /\ imap \subseteq imap' /\ i \in imap'
      BY <2>1, <2>5
    <2>7. SlotOf(i) \in Slot
      BY <2>5, GottenSlot
    <2>8. /\ Descriptors'
          /\ fd_table' \in [Proc -> [Fd -> Desc \cup {None}]]
          /\ f_desc' \in [Desc -> Slot \cup {None}]
          /\ \E d \in FreeDesc : f_desc' = [f_desc EXCEPT ![d] = SlotOf(i)]
      BY <1>1, <2>5, <2>7, DescribeKeeps DEF IInv
    <2>9. /\ Distinct' /\ Counted' /\ Asserted'
          /\ inode_table' \in [Slot -> [index : Inode \cup {FS_INODE_INVALID},
                                        ref_count : Nat]]
      <3>1. inode_table' =
               [inode_table EXCEPT ![SlotOf(i)] = [index |-> i, ref_count |-> 1]]
        BY <2>5, FirstReferenceIs DEF IInv
      <3>2. leftover' # "reached" => leftover # "reached"
        BY <2>5
      <3>3. leftover' # "reached" => inode_table' = Gotten(i)
        BY <2>5, <3>2, FirstReference DEF IInv
      <3>4. Counted'
        BY <2>5, <2>6, <2>8, <3>2, <3>3, GottenKeepsCounted DEF IInv
      <3>5. /\ Distinct'
            /\ inode_table' \in [Slot -> [index : Inode \cup {FS_INODE_INVALID},
                                          ref_count : Nat]]
        BY <2>5, <3>1, GottenKeepsDistinct DEF IInv
      <3> QED BY <2>5, <3>4, <3>5 DEF Asserted
    <2>10. /\ \A j \in Inode : j # i => disk_inode'[j] = disk_inode[j]
           /\ disk_inode'[i] = [mode |-> "regular", start_sector |-> e * F]
      BY <2>1, <2>5
    <2>11. /\ DOMAIN dir' = 0..MaxEntry
           /\ \A j \in 0..MaxEntry : j # k =>
                 /\ dir'[j].inode \in {FS_INODE_INVALID, dir[j].inode}
                 /\ dir'[j] \in [inode : Inode \cup {FS_INODE_INVALID},
                                 name : Name \cup {NoName, MixedName}]
           /\ dir'[k] = [inode |-> i, name |-> NameIn(k, path)]
      <3>1. DOMAIN dir = 0..MaxEntry
        BY <2>1
      <3>2. dir' = [j \in 0..MaxEntry |->
                CASE j = k -> [inode |-> i, name |-> NameIn(k, path)]
                  [] j = k + 1 /\ RunsOver(k, path)
                        -> [dir[j] EXCEPT !.inode = FS_INODE_INVALID]
                  [] OTHER -> dir[j]]
        BY <2>5, <3>1 DEF EntryNamed
      <3>3. k # k + 1
        BY Sizes
      <3>4. \A j \in 0..MaxEntry : j # k =>
               dir'[j] = dir[j] \/ dir'[j] = [dir[j] EXCEPT !.inode = FS_INODE_INVALID]
        BY <3>2
      <3>5. dir'[k] = [inode |-> i, name |-> NameIn(k, path)]
        BY <3>2, <3>3
      <3>6. DOMAIN dir' = 0..MaxEntry
        BY <3>2
      <3> QED BY <2>1, <3>4, <3>5, <3>6
    <2>12. TypeOK'
      <3>1. disk_inode' \in [Inode -> [mode : Mode, start_sector : Bit]]
        <4>1. e * F \in Bit
          <5>1. e * F \in Nat /\ F \in Nat \ {0}
            BY MapSizes
          <5>2. e * F + 1 \in Bit
            BY <5>1, RunsApart DEF RunOf
          <5> QED BY <5>1, <5>2, MapSizes
        <4>2. [mode |-> "regular", start_sector |-> e * F]
                \in [mode : Mode, start_sector : Bit]
          BY <4>1 DEF Mode
        <4> QED BY <2>1, <2>5, <4>2
      <3>2. dir' \in [0..MaxEntry -> [inode : Inode \cup {FS_INODE_INVALID},
                                      name : Name \cup {NoName, MixedName}]]
        <4>1. NameIn(k, path) \in Name \cup {NoName, MixedName}
          BY DEF NameIn, Name
        <4>2. \A j \in 0..MaxEntry : dir'[j] \in [inode : Inode \cup {FS_INODE_INVALID},
                                                  name : Name \cup {NoName, MixedName}]
          BY <2>11, <4>1
        <4>3. dir' = [j \in 0..MaxEntry |-> dir'[j]]
          BY <2>5, <2>1 DEF EntryNamed
        <4> QED BY <4>2, <4>3
      <3>3. dir_size' \in 0..MaxEntry
        <4>1. k = dir_size => dir_size < MaxEntry
          BY <1>1, <2>2, <2>3, RoomForEntry DEF IInv
        <4> QED BY <2>1, <2>5, <4>1, Sizes
      <3>4. smap' \subseteq Bit
        BY <2>5, RunsApart DEF IInv, TypeOK
      <3>5. leftover' \in {"none", "behind", "reached"}
        BY <2>5 DEF IInv, TypeOK
      <3> QED BY <2>5, <2>6, <2>8, <2>9, <3>1, <3>2, <3>3, <3>4, <3>5 DEF TypeOK
    <2>13. Modes'
      <3>1. i \notin FormattedMap
        BY <2>2 DEF IInv, Modes
      <3> QED BY <2>5, <2>10, <3>1 DEF IInv, Modes
    <2>14. Sectors'
      <3>1. RegularFile' = RegularFile \cup {i} /\ i \notin RegularFile
        BY <2>1, <2>2, <2>5, <2>10 DEF RegularFile
      <3>2. \A j \in RegularFile : disk_inode'[j] = disk_inode[j]
        BY <2>1, <2>2, <2>10 DEF RegularFile
      <3>3. Taken' = Taken \cup {e}
        BY <2>10, <3>1, <3>2, MultiplesDiffer DEF Taken
      <3>4. MapOf(Taken \cup {e}) = MapOf(Taken) \cup RunOf(e)
        BY DEF MapOf
      <3>5. smap' = MapOf(Taken')
        BY <2>5, <3>3, <3>4 DEF IInv, Sectors
      <3>6. \A j \in RegularFile : disk_inode[j].start_sector # e * F
        BY <2>4 DEF Taken
      <3>7. \A j \in RegularFile' :
               \E d \in 1..NumExtent : disk_inode'[j].start_sector = d * F
        <4>1. \A j \in RegularFile :
                 \E d \in 1..NumExtent : disk_inode[j].start_sector = d * F
          BY DEF IInv, Sectors
        <4>2. disk_inode'[i].start_sector = e * F
          BY <2>10
        <4> QED BY <3>1, <3>2, <4>1, <4>2
      <3>8. \A j, l \in RegularFile' :
               disk_inode'[j].start_sector = disk_inode'[l].start_sector => j = l
        <4> DEFINE x == e * F
        <4>1. disk_inode'[i].start_sector = x
          BY <2>10
        <4>2. \A j \in RegularFile : disk_inode[j].start_sector # x
          BY <3>6
        <4>3. \A j, l \in RegularFile :
                 disk_inode[j].start_sector = disk_inode[l].start_sector => j = l
          BY DEF IInv, Sectors
        <4> HIDE DEF x
        <4> QED BY <3>1, <3>2, <4>1, <4>2, <4>3
      <3> QED BY <2>5, <3>5, <3>7, <3>8 DEF Sectors
    <2>15. Entries'
      <3>1. \A j, l \in Own : dir[j].inode # FS_INODE_INVALID =>
               /\ dir[j].inode \in imap
               /\ dir[l].inode = dir[j].inode => l = j
        BY <1>1 DEF IInv, Entries
      <3>2. dir'[k].inode = i
        BY <2>11
      <3>3. i # FS_INODE_INVALID
        BY Sizes DEF FS_INODE_INVALID
      <3>4. \A j \in Own' : j \in 0..MaxEntry /\ (j = k \/ j \in Own)
        <4>1. dir_size \in Nat /\ k \in Nat
          BY <2>1, Sizes
        <4>2. \A j \in 0..MaxEntry : j < dir_size' => j < dir_size \/ j = k
          BY <2>5, <4>1, Sizes
        <4>3. leftover' \in {leftover, "reached"}
          BY <2>5
        <4> QED BY <4>2, <4>3 DEF Own
      <3>5. \A j \in Own' : dir'[j].inode # FS_INODE_INVALID =>
               \/ j = k /\ dir'[j].inode = i
               \/ j # k /\ j \in Own /\ dir'[j].inode = dir[j].inode /\ dir[j].inode \in imap
        <4> TAKE j \in Own'
        <4>1. CASE j = k
          BY <3>2, <4>1
        <4>2. CASE j # k
          BY <2>11, <3>1, <3>4, <4>2
        <4> QED BY <4>1, <4>2
      <3>6. \A j, l \in Own' :
               dir'[j].inode # FS_INODE_INVALID /\ dir'[l].inode = dir'[j].inode => l = j
        <4> TAKE j, l \in Own'
        <4>1. CASE j # k /\ l # k
          BY <3>1, <3>5, <4>1
        <4>2. CASE j = k \/ l = k
          BY <2>2, <3>3, <3>5, <4>2
        <4> QED BY <4>1, <4>2
      <3>7. \A j \in Own' : dir'[j].inode # FS_INODE_INVALID => dir'[j].inode \in imap'
        BY <2>5, <3>5
      <3>8. leftover' = "behind" => dir_size' <= FS_DIRENTRY_PER_SECTOR
        <4>1. dir_size' \in Nat
          BY <2>1, <2>5, Sizes
        <4> QED BY <2>5, <4>1, Sizes
      <3> QED BY <3>6, <3>7, <3>8 DEF Entries
    <2> QED BY <2>8, <2>9, <2>12, <2>13, <2>14, <2>15 DEF IInv
  <1> QED BY <1>1, <1>2, PanicKeeps

\* The entry that unlink clears, and how long the directory is after that.
LEMMA EntryCleared ==
    ASSUME TypeOK, NEW i \in Inode, EntryOf(i) # {}
    PROVE  /\ First(EntryOf(i)) \in 0..MaxEntry /\ First(EntryOf(i)) < dir_size
           /\ dir[First(EntryOf(i))].inode = i
           /\ Cardinality(InUseBefore(First(EntryOf(i)))) \in 0..MaxEntry
           /\ Cardinality(InUseBefore(First(EntryOf(i)))) < dir_size
  <1>1. dir_size \in Nat /\ dir_size <= MaxEntry /\ MaxEntry \in Nat
    <2>1. dir_size \in 0..MaxEntry
      BY DEF TypeOK
    <2> QED BY <2>1, Sizes
  <1>2. PICK k \in EntryOf(i) : k = First(EntryOf(i))
    <2>1. EntryOf(i) \in SUBSET Nat
      BY <1>1 DEF EntryOf
    <2> QED BY <2>1, FirstOfSome
  <1>3. k \in 0 .. (dir_size - 1) /\ dir[k].inode = i
    BY <1>2 DEF EntryOf
  <1>4. Cardinality(InUseBefore(k)) \in Nat /\ Cardinality(InUseBefore(k)) <= k
    <2>1. IsFiniteSet(0 .. (k - 1)) /\ Cardinality(0 .. (k - 1)) = k
      <3>1. k \in Nat /\ 0 \in Int /\ k - 1 \in Int
        BY <1>3
      <3>2. /\ IsFiniteSet(0 .. (k - 1))
            /\ Cardinality(0 .. (k - 1)) = IF 0 > k - 1 THEN 0 ELSE (k - 1) - 0 + 1
        BY <3>1, FS_Interval
      <3> QED BY <3>1, <3>2
    <2>2. InUseBefore(k) \in SUBSET (0 .. (k - 1))
      BY DEF InUseBefore
    <2>3. IsFiniteSet(InUseBefore(k)) /\ Cardinality(InUseBefore(k)) <= k
      BY <2>1, <2>2, FS_Subset
    <2> QED BY <2>3, FS_CardinalityType
  <1> QED BY <1>1, <1>2, <1>3, <1>4

\* A file that is removed gives back what it was given, and nothing that is open
\* is left behind.
LEMMA UnlinkKeeps ==
    ASSUME IInv, NEW path \in Path, Unlink(path)
    PROVE  IInv'
  <1>1. PICK i \in imap : i = fs_search_file(path)
    BY DEF Unlink
  <1>2. /\ imap' = imap \ {i} /\ smap' = smap \ SectorsOf(i)
        /\ disk_inode' = [disk_inode EXCEPT ![i] = FreeInode]
        /\ \/ /\ panicked' = "no entry"
              /\ UNCHANGED <<dir, dir_size>>
           \/ /\ EntryOf(i) # {} /\ panicked' = panicked
              /\ dir' = [dir EXCEPT ![First(EntryOf(i))] = FreeEntry]
              /\ \/ dir_size' = dir_size
                 \/ dir_size' = Cardinality(InUseBefore(First(EntryOf(i))))
        /\ UNCHANGED <<memory, leftover>>
        /\ panicked = "no" /\ disk_inode[i].mode = "regular" /\ Cached(i) = {}
    BY <1>1 DEF Unlink, CanRemove, CanUnlink, Request, Removable, Cleared, ClearedInodes
  <1>3. /\ i \in RegularFile /\ i \in Inode
        /\ imap \subseteq Inode /\ dir_size \in 0..MaxEntry
        /\ disk_inode \in [Inode -> [mode : Mode, start_sector : Bit]]
        /\ dir \in [0..MaxEntry -> [inode : Inode \cup {FS_INODE_INVALID},
                                    name : Name \cup {NoName, MixedName}]]
    <2>1. imap \subseteq Inode
      BY DEF IInv, TypeOK
    <2>2. i \in RegularFile
      BY <1>2 DEF RegularFile
    <2> QED BY <2>1, <2>2 DEF IInv, TypeOK
  <1>4. PICK e \in 1..NumExtent : disk_inode[i].start_sector = e * F
    BY <1>3 DEF IInv, Sectors
  <1>5. smap' = smap \ RunOf(e) /\ e \in Taken
    BY <1>2, <1>3, <1>4, SectorsOfFile DEF Taken
  <1>6. /\ \A j \in Inode : j # i => disk_inode'[j] = disk_inode[j]
        /\ disk_inode'[i] = FreeInode
    BY <1>2, <1>3
  <1>7. /\ dir' \in [0..MaxEntry -> [inode : Inode \cup {FS_INODE_INVALID},
                                     name : Name \cup {NoName, MixedName}]]
        /\ dir_size' \in 0..MaxEntry /\ dir_size' <= dir_size
        /\ panicked' = "no" =>
              \A j \in Own : dir'[j].inode # FS_INODE_INVALID =>
                  dir'[j].inode = dir[j].inode /\ dir[j].inode # i
    <2>1. CASE panicked' = "no entry" /\ UNCHANGED <<dir, dir_size>>
      <3>1. dir_size \in Int /\ dir_size \in 0..MaxEntry
        BY <1>3, Sizes
      <3>2. dir_size' \in 0..MaxEntry /\ dir_size' <= dir_size /\ dir' = dir
        <4>1. dir' = dir /\ dir_size' = dir_size
          BY <2>1
        <4> QED BY <1>3, <3>1, <4>1
      <3>3. panicked' # "no"
        BY <2>1
      <3> QED BY <1>3, <3>2, <3>3
    <2>2. CASE /\ EntryOf(i) # {} /\ panicked' = panicked
               /\ dir' = [dir EXCEPT ![First(EntryOf(i))] = FreeEntry]
               /\ \/ dir_size' = dir_size
                  \/ dir_size' = Cardinality(InUseBefore(First(EntryOf(i))))
      <3>1. PICK k \in 0..MaxEntry : /\ k = First(EntryOf(i)) /\ dir[k].inode = i
                                      /\ k \in Own
        <4>1. /\ First(EntryOf(i)) \in 0..MaxEntry /\ First(EntryOf(i)) < dir_size
              /\ dir[First(EntryOf(i))].inode = i
          BY <1>3, <2>2, EntryCleared DEF IInv
        <4> QED BY <4>1 DEF Own
      <3>2. dir_size' \in 0..MaxEntry /\ dir_size' <= dir_size
        BY <1>3, <2>2, EntryCleared, Sizes DEF IInv
      <3>3. dir' = [dir EXCEPT ![k] = FreeEntry]
        BY <2>2, <3>1
      <3>4. FreeEntry \in [inode : Inode \cup {FS_INODE_INVALID}, name : Name \cup {NoName, MixedName}]
              /\ FreeEntry.inode = FS_INODE_INVALID
        BY DEF FreeEntry
      <3>5. i # FS_INODE_INVALID
        BY <1>3, Sizes DEF FS_INODE_INVALID
      <3>6. \A j \in Own : dir[j].inode = i => j = k
        BY <1>2, <3>1, <3>5 DEF IInv, Entries
      <3>7. \A j \in 0..MaxEntry : dir'[j] = IF j = k THEN FreeEntry ELSE dir[j]
        BY <1>3, <3>3
      <3>8. dir' \in [0..MaxEntry -> [inode : Inode \cup {FS_INODE_INVALID},
                                      name : Name \cup {NoName, MixedName}]]
        BY <1>3, <3>3, <3>4
      <3>9. \A j \in Own : j \in 0..MaxEntry
        BY DEF Own
      <3> QED BY <3>2, <3>4, <3>6, <3>7, <3>8, <3>9
    <2> QED BY <1>2, <2>1, <2>2
  <1>8. TypeOK'
    <2>1. disk_inode' \in [Inode -> [mode : Mode, start_sector : Bit]]
      <3>1. FreeInode \in [mode : Mode, start_sector : Bit]
        BY MapSizes DEF FreeInode, Mode
      <3> QED BY <1>2, <1>3, <3>1
    <2>2. imap' \subseteq Inode /\ smap' \subseteq Bit
      BY <1>2, <1>3 DEF IInv, TypeOK
    <2>3. panicked' \in {"no", "no entry"}
      BY <1>2
    <2>4. UNCHANGED <<fd_table, f_desc, inode_table, leftover>>
      BY <1>2 DEF memory
    <2> QED BY <1>7, <2>1, <2>2, <2>3, <2>4 DEF IInv, TypeOK
  <1>9. Descriptors'
    <2>1. UNCHANGED <<fd_table, f_desc>>
      BY <1>2 DEF memory
    <2> QED BY <2>1, SameDescriptors DEF IInv
  <1>10. Distinct' /\ Counted' /\ Asserted'
    <2>1. inode_table' = inode_table /\ f_desc' = f_desc /\ leftover' = leftover
      BY <1>2 DEF memory
    <2>2. \A s \in Slot : InUse(s) => inode_table[s].index # i
      BY <1>2 DEF InUse, Cached
    <2>3. Counted'
      BY <1>2, <2>1, <2>2 DEF IInv, Counted, InUse, Sharers, UsersOf
    <2>4. Distinct'
      BY <2>1 DEF IInv, Distinct, InUse
    <2>5. Asserted'
      BY <1>2 DEF Asserted
    <2> QED BY <2>3, <2>4, <2>5
  <1>11. Modes'
    <2>1. i \notin FormattedMap
      BY <1>2, <1>3 DEF IInv, Modes
    <2>2. imap' = imap \ {i}
      BY <1>2
    <2>3. /\ i \notin imap'
          /\ \A j \in Inode : j # i =>
                disk_inode'[j].mode = disk_inode[j].mode /\ (j \in imap' <=> j \in imap)
      BY <1>6, <2>2
    <2>4. Modes
      BY DEF IInv
    <2> QED BY <2>1, <2>3, <2>4 DEF Modes
  <1>12. Sectors'
    <2>1. RegularFile' = RegularFile \ {i}
      BY <1>2, <1>3, <1>6 DEF RegularFile
    <2>2. \A j \in RegularFile' : j \in RegularFile /\ disk_inode'[j] = disk_inode[j]
      BY <1>3, <1>6, <2>1 DEF RegularFile
    <2>3. \A j \in RegularFile : disk_inode[j].start_sector = e * F => j = i
      BY <1>3, <1>4 DEF IInv, Sectors
    <2>4. Taken' = Taken \ {e}
      <3>1. \A d \in 1..NumExtent : d \in Taken' => d \in Taken /\ d # e
        BY <2>1, <2>2, <2>3 DEF Taken
      <3>2. \A d \in 1..NumExtent : d \in Taken /\ d # e => d \in Taken'
        <4> SUFFICES ASSUME NEW d \in 1..NumExtent, d \in Taken, d # e
                     PROVE  \E j \in RegularFile' : disk_inode'[j].start_sector = d * F
          BY DEF Taken
        <4>1. PICK j \in RegularFile : disk_inode[j].start_sector = d * F
          BY DEF Taken
        <4>2. j # i
          BY <1>4, <4>1, MultiplesDiffer
        <4> QED BY <2>1, <2>2, <4>1, <4>2
      <3>3. Taken \subseteq 1..NumExtent /\ Taken' \subseteq 1..NumExtent
        BY DEF Taken
      <3> QED BY <3>1, <3>2, <3>3
    <2>5. smap' = MapOf(Taken \ {e})
      <3>1. RunOf(e) \cap RootBits = {}
        BY RunsApart
      <3>2. \A d \in Taken : d # e => RunOf(d) \cap RunOf(e) = {}
        BY RunsApart DEF Taken
      <3>3. MapOf(Taken) \ RunOf(e) = MapOf(Taken \ {e})
        BY <1>5, <3>1, <3>2 DEF MapOf
      <3> QED BY <1>5, <3>3 DEF IInv, Sectors
    <2>6. \A j \in RegularFile' :
             \E d \in 1..NumExtent : disk_inode'[j].start_sector = d * F
      <3>1. \A j \in RegularFile :
               \E d \in 1..NumExtent : disk_inode[j].start_sector = d * F
        BY DEF IInv, Sectors
      <3> QED BY <2>2, <3>1
    <2>7. \A j, l \in RegularFile' :
             disk_inode'[j].start_sector = disk_inode'[l].start_sector => j = l
      <3>1. \A j, l \in RegularFile :
               disk_inode[j].start_sector = disk_inode[l].start_sector => j = l
        BY DEF IInv, Sectors
      <3> QED BY <2>2, <3>1
    <2>8. panicked' # "no free sectors"
      BY <1>2
    <2> QED BY <2>4, <2>5, <2>6, <2>7, <2>8 DEF Sectors
  <1>13. Entries'
    <2>1. Own' \subseteq Own
      <3>1. dir_size \in Nat /\ dir_size' \in Nat /\ dir_size' <= dir_size
        BY <1>3, <1>7, Sizes
      <3>2. \A j \in 0..MaxEntry : j < dir_size' => j < dir_size
        BY <3>1, Sizes
      <3> QED BY <1>2, <3>2 DEF Own
    <2>2. ASSUME panicked' = "no", NEW j \in Own', NEW l \in Own',
                 dir'[j].inode # FS_INODE_INVALID
          PROVE  /\ dir'[j].inode \in imap'
                 /\ dir'[l].inode = dir'[j].inode => l = j
      <3>1. \A m \in Own : dir'[m].inode # FS_INODE_INVALID =>
               dir'[m].inode = dir[m].inode /\ dir[m].inode # i
        BY <1>7, <2>2
      <3>2. \A m, n \in Own : dir[m].inode # FS_INODE_INVALID =>
               /\ dir[m].inode \in imap
               /\ dir[n].inode = dir[m].inode => n = m
        BY <1>2 DEF IInv, Entries
      <3>3. j \in Own /\ l \in Own
        BY <2>1, <2>2
      <3> QED BY <1>2, <2>2, <3>1, <3>2, <3>3
    <2>3. leftover' = "behind" => dir_size' <= FS_DIRENTRY_PER_SECTOR
      <3>1. dir_size \in Nat /\ dir_size' \in Nat /\ dir_size' <= dir_size
        BY <1>3, <1>7, Sizes
      <3>2. leftover = "behind" => dir_size <= FS_DIRENTRY_PER_SECTOR
        BY DEF IInv, Entries
      <3>3. leftover' = leftover /\ FS_DIRENTRY_PER_SECTOR \in Nat
        BY <1>2, Sizes
      <3> QED BY <3>1, <3>2, <3>3
    <2> QED BY <2>2, <2>3 DEF Entries
  <1> QED BY <1>8, <1>9, <1>10, <1>11, <1>12, <1>13 DEF IInv

\* unlink() of a file that is not allocated: only an entry of an earlier start
\* stands for one.
LEMMA UnlinkUnallocatedKeeps ==
    ASSUME IInv, NEW path \in Path, UnlinkUnallocated(path)
    PROVE  IInv'
  <1>1. /\ panicked = "no" /\ path # RootPath
        /\ fs_search_file(path) # FS_INODE_INVALID /\ fs_search_file(path) \notin imap
        /\ Panic("inode is not allocated")
    BY DEF UnlinkUnallocated, CanRemove, CanUnlink, Request
  <1>2. leftover = "reached"
    BY <1>1, FoundIsAllocated DEF IInv
  <1> QED BY <1>1, <1>2, PanicKeeps

\* The inodes that a start may find are inodes.
LEMMA LastInodesAreInodes ==
    ASSUME IInv, NEW old \in LastInodes
    PROVE  old \in [Inode -> [mode : Mode, start_sector : Bit]]
  <1>1. disk_inode \in [Inode -> [mode : Mode, start_sector : Bit]]
    BY DEF IInv, TypeOK
  <1>2. ASSUME NEW i PROVE ClearedInodes(i) \in [Inode -> [mode : Mode, start_sector : Bit]]
    <2>1. FreeInode \in [mode : Mode, start_sector : Bit]
      BY MapSizes DEF FreeInode, Mode
    <2> QED BY <1>1, <2>1 DEF ClearedInodes
  <1>3. ASSUME ~MapIsFull(smap), NEW i
        PROVE  NewInodes(i) \in [Inode -> [mode : Mode, start_sector : Bit]]
    <2>1. StartOf(smap) \in Bit
      <3>1. smap = MapOf(Taken) /\ Taken \in SUBSET (1..NumExtent)
        BY DEF IInv, Sectors, Taken
      <3>2. PICK e \in (1..NumExtent) \ Taken : StartOf(smap) = e * F
        BY <1>3, <3>1, FreePlace
      <3>3. e * F \in Nat /\ F \in Nat \ {0}
        BY MapSizes
      <3>4. e * F + 1 \in Bit
        BY <3>3, RunsApart DEF RunOf
      <3> QED BY <3>2, <3>3, <3>4, MapSizes
    <2>2. [mode |-> "regular", start_sector |-> StartOf(smap)]
            \in [mode : Mode, start_sector : Bit]
      BY <2>1 DEF Mode
    <2> QED BY <1>1, <2>2 DEF NewInodes
  <1> QED BY <1>1, <1>2, <1>3 DEF LastInodes

\* A start formats whatever the one before has left.
LEMMA RestartKeeps ==
    ASSUME IInv, Restart
    PROVE  IInv'
  <1>1. PICK old \in LastInodes : disk_inode' = FormattedInodes(old)
    BY DEF Restart
  <1>2. old \in [Inode -> [mode : Mode, start_sector : Bit]]
    BY LastInodesAreInodes
  <1>3. dir \in [0..MaxEntry -> [inode : Inode \cup {FS_INODE_INVALID},
                                 name : Name \cup {NoName, MixedName}]]
    BY DEF IInv, TypeOK
  <1>4. PICK entries : entries = dir
    OBVIOUS
  <1>5. Started(old, entries)' /\ leftover' = "behind"
    BY <1>1, <1>4 DEF Restart, Started, FormattedSectors
  <1>6. AnyStart'
    BY StartedIs, PTL
  <1> QED BY <1>2, <1>3, <1>4, <1>5, <1>6 DEF AnyStart

\* A step in which nothing changes.
LEMMA StutterKeeps == IInv /\ UNCHANGED vars => IInv'
  <1> SUFFICES ASSUME IInv, UNCHANGED vars PROVE IInv'
    OBVIOUS
  <1>1. /\ UNCHANGED <<disk, panicked>>
        /\ UNCHANGED <<fd_table, f_desc, inode_table, imap, leftover>>
    BY DEF vars, memory, disk
  <1>2. TypeOK'
    BY <1>1 DEF IInv, TypeOK, disk
  <1>3. Descriptors'
    BY <1>1, SameDescriptors DEF IInv
  <1>4. Distinct' /\ Counted'
    BY <1>1, SameReferences DEF IInv
  <1>5. Modes' /\ Sectors' /\ Entries' /\ Asserted'
    BY <1>1, SameDisk DEF IInv, Asserted
  <1> QED BY <1>2, <1>3, <1>4, <1>5 DEF IInv

-----------------------------------------------------------------------------
(* The theorems.                                                           *)

\* What the tables, the maps and the directory say of one another holds at all
\* times, whatever is asked for.
THEOREM Invariance == Spec => []IInv
  <1>1. ASSUME IInv, Next PROVE IInv'
    <2>1. ASSUME NEW p \in Proc, OpenNoFd(p) PROVE IInv'
      BY <1>1, <2>1, PanicKeeps DEF OpenNoFd
    <2>2. ASSUME NEW p \in Proc, NEW path \in Path, NEW creat \in BOOLEAN,
                 OpenFails(p, path, creat)
          PROVE  IInv'
      BY <1>1, <2>2, StutterKeeps DEF OpenFails
    <2>3. ASSUME NEW p \in Proc, NEW path \in Path, OpenExisting(p, path) PROVE IInv'
      BY <1>1, <2>3, OpenExistingKeeps
    <2>4. ASSUME NEW p \in Proc, NEW path \in File, OpenCreate(p, path) PROVE IInv'
      BY <1>1, <2>4, OpenCreateKeeps
    <2>5. ASSUME NEW p \in Proc, NEW fd \in Fd, Close(p, fd) PROVE IInv'
      BY <1>1, <2>5, CloseKeeps
    <2>6. ASSUME NEW path \in Path, UnlinkFails(path) PROVE IInv'
      BY <1>1, <2>6, StutterKeeps DEF UnlinkFails
    <2>7. ASSUME NEW path \in Path, UnlinkRefused(path) PROVE IInv'
      BY <1>1, <2>7, UnlinkRefusedKeeps
    <2>8. ASSUME NEW path \in Path, Unlink(path) PROVE IInv'
      BY <1>1, <2>8, UnlinkKeeps
    <2>9. ASSUME fs_do_stat PROVE IInv'
      BY <1>1, <2>9, PanicKeeps DEF fs_do_stat
    <2>10. ASSUME NEW p \in Proc, OpenNoFlag(p) PROVE IInv'
      BY <1>1, <2>10, PanicKeeps DEF OpenNoFlag
    <2>11. ASSUME NEW path \in Path, UnlinkUnallocated(path) PROVE IInv'
      BY <1>1, <2>11, UnlinkUnallocatedKeeps
    <2>12. CASE Restart
      BY <1>1, <2>12, RestartKeeps
    <2> QED BY <1>1, <2>1, <2>2, <2>3, <2>4, <2>5, <2>6, <2>7, <2>8, <2>9, <2>10,
               <2>11, <2>12 DEF Next
  <1> QED BY <1>1, InitIInv, StutterKeeps, PTL DEF Spec

\* EntriesAreFiles, of what mkfs leaves at every start and of every directory after
\* it.
THEOREM EntriesStayFiles == Spec => []EntriesAreFiles
  <1>1. IInv => EntriesAreFiles
    BY DEF IInv, EntriesAreFiles, Entries
  <1> QED BY <1>1, Invariance, PTL

\* RefCountCovers: no inode is given up while somebody has it, until the directory
\* reaches entries of an earlier start.
THEOREM ReferencesStayCovered == Spec => []RefCountCovers
  <1>1. IInv => RefCountCovers
    BY DEF IInv, Counted, Asserted, RefCountCovers
  <1> QED BY <1>1, Invariance, PTL

\* OpenFilesExist: what is open is never removed, and what is opened or removed was
\* there, until the directory reaches entries of an earlier start.
THEOREM OpenFilesStay == Spec => []OpenFilesExist
  <1>1. ASSUME IInv, leftover # "reached", NEW d \in Desc, f_desc[d] # None
        PROVE  /\ inode_table[f_desc[d]].index \in imap
               /\ disk_inode[inode_table[f_desc[d]].index].mode # "free"
    <2>1. PICK s \in Slot : f_desc[d] = s
      BY <1>1 DEF IInv, TypeOK
    <2>2. InUse(s)
      <3>1. UsersOf(s) # {}
        BY <2>1 DEF UsersOf
      <3>2. inode_table[s].ref_count >= Sharers(s) /\ inode_table[s].ref_count \in Nat
        BY <1>1 DEF IInv, TypeOK, Counted
      <3> QED BY <3>1, <3>2, SharersCount DEF InUse
    <2>3. inode_table[s].index \in imap /\ imap \subseteq Inode
      BY <1>1, <2>2 DEF IInv, Counted, TypeOK
    <2>4. \A i \in imap : i \in Inode => disk_inode[i].mode # "free"
      BY <1>1 DEF IInv, Modes
    <2> QED BY <2>1, <2>3, <2>4
  <1>2. IInv => OpenFilesExist
    BY <1>1 DEF OpenFilesExist, IInv, Asserted
  <1> QED BY <1>2, Invariance, PTL

\* NoAliases: an inode is in the table once, a descriptor in one process.
THEOREM NothingIsAliased == Spec => []NoAliases
  <1>1. ASSUME IInv, NEW i \in Inode PROVE Cardinality(Cached(i)) <= 1
    <2>1. CASE Cached(i) = {}
      BY <2>1, FS_EmptySet
    <2>2. CASE Cached(i) # {}
      <3>1. PICK s \in Slot : s \in Cached(i)
        BY <2>2 DEF Cached
      <3>2. Cached(i) = {s}
        BY <1>1, <3>1 DEF IInv, Distinct, InUse, Cached
      <3> QED BY <3>2, FS_Singleton
    <2> QED BY <2>1, <2>2
  <1>2. IInv => NoAliases
    <2> SUFFICES ASSUME IInv PROVE NoAliases
      OBVIOUS
    <2>1. Descriptors
      BY DEF IInv
    <2> QED BY <1>1, <2>1 DEF NoAliases, Descriptors
  <1> QED BY <1>2, Invariance, PTL

\* SectorsExact: the map has what files have, in places of their own, and a file
\* is refused only when every place is taken.
THEOREM SectorsStayExact == Spec => []SectorsExact
  <1>1. ASSUME IInv PROVE SectorsExact
    <2>1. \A i \in RegularFile : \E e \in Taken :
             disk_inode[i].start_sector = e * F /\ Extent(i) = RunOf(e)
               /\ SectorsOf(i) = RunOf(e)
      <3> TAKE i \in RegularFile
      <3>1. PICK e \in 1..NumExtent : disk_inode[i].start_sector = e * F
        BY <1>1 DEF IInv, Sectors
      <3>2. e \in Taken
        BY <3>1 DEF Taken
      <3> QED BY <3>1, <3>2, SectorsOfFile
    <2>2. \A e \in Taken : \E i \in RegularFile :
             disk_inode[i].start_sector = e * F /\ Extent(i) = RunOf(e)
      BY SectorsOfFile DEF Taken
    <2>3. UNION {RunOf(e) : e \in Taken} = UNION {Extent(i) : i \in RegularFile}
      BY <2>1, <2>2
    <2>4. smap = MapOf(Taken)
      BY <1>1 DEF IInv, Sectors
    <2>5. smap = RootBits \cup UNION {Extent(i) : i \in RegularFile}
      BY <2>3, <2>4 DEF MapOf
    <2>6. ASSUME NEW i \in RegularFile, NEW j \in RegularFile, i # j
          PROVE  Extent(i) \cap Extent(j) = {}
      <3>1. disk_inode[i].start_sector # disk_inode[j].start_sector
        BY <1>1, <2>6 DEF IInv, Sectors
      <3>2. PICK d \in Taken : disk_inode[i].start_sector = d * F /\ Extent(i) = RunOf(d)
        BY <2>1
      <3>3. PICK e \in Taken : disk_inode[j].start_sector = e * F /\ Extent(j) = RunOf(e)
        BY <2>1
      <3>4. d # e /\ d \in Nat /\ e \in Nat
        BY <3>1, <3>2, <3>3 DEF Taken
      <3> QED BY <3>2, <3>3, <3>4, RunsApart
    <2>7. MapIsFull(smap) \/ Wanted(smap) \cap smap = {}
      <3>1. Taken \in SUBSET (1..NumExtent)
        BY DEF Taken
      <3>2. ~MapIsFull(smap) => \E e \in (1..NumExtent) \ Taken : Wanted(smap) = RunOf(e)
        BY <2>4, <3>1, FreePlace
      <3>3. \A e \in (1..NumExtent) \ Taken : RunOf(e) \cap smap = {}
        BY <2>4, <3>1, InMapOf
      <3> QED BY <3>2, <3>3
    <2>8. \A i \in RegularFile : SectorsOf(i) \subseteq smap
      BY <2>1, <2>4 DEF MapOf
    <2>9. panicked = "no free sectors" => Cardinality(RegularFile) = NumExtent
      <3>1. panicked = "no free sectors" => Taken = 1..NumExtent
        BY <1>1 DEF IInv, Sectors
      <3> QED BY <1>1, <3>1, FilesArePlaces DEF IInv
    <2> QED BY <2>5, <2>6, <2>7, <2>8, <2>9 DEF SectorsExact
  <1> QED BY <1>1, Invariance, PTL

-----------------------------------------------------------------------------
(* A name and its file.                                                    *)

\* A division that is rounded up.
LEMMA RoundedUp ==
    ASSUME NEW n \in Nat, NEW b \in Nat \ {0}
    PROVE  n <= ((n + b - 1) \div b) * b
  <1> DEFINE a == n + b - 1
  <1>1. a \in Nat
    OBVIOUS
  <1> HIDE DEF a
  <1>2. a \div b \in Nat /\ a % b \in 0..b - 1 /\ a = (a \div b) * b + (a % b)
    BY <1>1, Quotient
  <1> DEFINE q == a \div b
  <1> HIDE DEF q
  <1>3. q * b \in Nat /\ a % b <= b - 1 /\ a = q * b + (a % b) /\ a % b \in Nat
    BY <1>2 DEF q
  <1>4. n <= q * b
    BY <1>3 DEF a
  <1> QED BY <1>4 DEF q, a

\* An entry of the directory is one of those that are compared.
LEMMA EntriesAreScanned ==
    ASSUME dir_size \in Nat, NEW k \in 0..MaxEntry, k < dir_size
    PROVE  k \in Scanned
  <1> DEFINE up == ((dir_size + FS_DIRENTRY_PER_SECTOR - 1) \div FS_DIRENTRY_PER_SECTOR)
                      * FS_DIRENTRY_PER_SECTOR
  <1>1. FS_DIRENTRY_PER_SECTOR \in Nat \ {0} /\ k \in Nat
    BY FileSystemAssumption, Sizes
  <1>2. dir_size <= up /\ up \in Int
    BY <1>1, RoundedUp
  <1> HIDE DEF up
  <1>3. k <= dir_size /\ k < up
    BY <1>1, <1>2
  <1> QED BY <1>3 DEF Scanned, up

\* Where a name is found.
LEMMA FoundAt ==
    ASSUME TypeOK, NEW path \in File, fs_search_file(path) # FS_INODE_INVALID
    PROVE  \E k \in 0..MaxEntry :
              /\ k = First({e \in Scanned : dir[e].name = path})
              /\ dir[k].name = path /\ dir[k].inode = fs_search_file(path)
              /\ k < dir_size => \A j \in 0..(k - 1) : dir[j].name # path
  <1> DEFINE hits == {e \in Scanned : dir[e].name = path}
  <1>1. path # RootPath
    BY FileSystemAssumption DEF Name
  <1>2. hits # {}
    BY <1>1 DEF fs_search_file
  <1>3. fs_search_file(path) = dir[First(hits)].inode
    BY <1>1, <1>2 DEF fs_search_file
  <1>4. hits \in SUBSET Nat /\ hits \subseteq 0..MaxEntry
    BY Sizes DEF Scanned
  <1> HIDE DEF hits
  <1>5. PICK k \in hits : k = First(hits) /\ \A y \in hits : k <= y
    BY <1>2, <1>4, FirstOfSome
  <1>6. dir[k].name = path /\ k \in 0..MaxEntry /\ k \in Nat
    BY <1>4, <1>5 DEF hits
  <1>7. ASSUME k < dir_size, NEW j \in 0..(k - 1) PROVE dir[j].name # path
    <2>1. dir_size \in Nat
      <3>1. dir_size \in 0..MaxEntry
        BY DEF TypeOK
      <3> QED BY <3>1, Sizes
    <2>2. j < dir_size /\ j < k /\ j \in 0..MaxEntry
      BY <1>6, <1>7, <2>1, Sizes
    <2>3. j \in Scanned
      BY <2>1, <2>2, EntriesAreScanned
    <2>4. j \notin hits
      BY <1>5, <1>6, <2>2
    <2> QED BY <2>3, <2>4 DEF hits
  <1> QED BY <1>3, <1>5, <1>6, <1>7 DEF hits

\* A name is found where it was when its entry is as it was and in the
\* directory, and it has not come to be before that.
LEMMA StaysFound ==
    ASSUME TypeOK', NEW path \in File, NEW k \in 0..MaxEntry, k < dir_size',
           dir'[k].name = path, \A j \in 0..(k - 1) : dir'[j].name # path
    PROVE  fs_search_file(path)' = dir'[k].inode
  <1> DEFINE hits == {e \in Scanned' : dir'[e].name = path}
  <1>1. path # RootPath
    BY FileSystemAssumption DEF Name
  <1>2. dir_size' \in Nat
    <2>1. dir_size' \in 0..MaxEntry
      BY DEF TypeOK
    <2> QED BY <2>1, Sizes
  <1>3. k \in Scanned'
    <2> DEFINE n == dir_size'
               up == ((n + FS_DIRENTRY_PER_SECTOR - 1) \div FS_DIRENTRY_PER_SECTOR)
                       * FS_DIRENTRY_PER_SECTOR
    <2>1. FS_DIRENTRY_PER_SECTOR \in Nat \ {0} /\ k \in Nat /\ n \in Nat
      BY <1>2, FileSystemAssumption, Sizes
    <2> HIDE DEF n
    <2>2. n <= up /\ up \in Int
      BY <2>1, RoundedUp
    <2> HIDE DEF up
    <2>3. k < n
      BY DEF n
    <2>4. k <= n /\ k < up
      BY <2>1, <2>2, <2>3
    <2> QED BY <2>4 DEF Scanned, up, n
  <1>4. k \in hits /\ hits \in SUBSET Nat
    BY <1>3, Sizes DEF Scanned
  <1>5. \A y \in hits : k <= y
    <2> SUFFICES ASSUME NEW y \in hits, y < k PROVE FALSE
      BY <1>4
    <2>1. y \in 0..(k - 1)
      BY <1>4
    <2> QED BY <2>1
  <1>6. First(hits) = k
    <2> HIDE DEF hits
    <2>1. First(hits) \in hits /\ First(hits) <= k
      BY <1>4, FirstOfSome
    <2>2. k <= First(hits)
      BY <1>5, <2>1
    <2>3. First(hits) \in Nat /\ k \in Nat
      BY <1>4, <2>1
    <2> QED BY <2>1, <2>2, <2>3
  <1>7. fs_search_file(path)' = dir'[First(hits)].inode
    BY <1>1, <1>4 DEF fs_search_file
  <1> QED BY <1>6, <1>7

\* The entry that a new file gets is free, or behind the others.
LEMMA NewEntryIsFree ==
    ASSUME TypeOK
    PROVE  \/ NewEntry = dir_size
           \/ NewEntry \in 0 .. (dir_size - 1) /\ dir[NewEntry].inode = FS_INODE_INVALID
  <1> DEFINE free == {k \in 0 .. (dir_size - 1) : dir[k].inode = FS_INODE_INVALID}
  <1>1. CASE free = {}
    BY <1>1 DEF NewEntry
  <1>2. CASE free # {}
    <2>1. NewEntry = First(free) /\ free \in SUBSET Nat
      <3>1. dir_size \in 0..MaxEntry
        BY DEF TypeOK
      <3> QED BY <1>2, <3>1, Sizes DEF NewEntry
    <2> HIDE DEF free
    <2>2. NewEntry \in free
      BY <1>2, <2>1, FirstOfSome
    <2> QED BY <2>2 DEF free
  <1> QED BY <1>1, <1>2

\* Another file's entry does not take the name over, unless the name before it is
\* a long one.
LEMMA CreateKeepsNames ==
    ASSUME IInv, NEW p \in Proc, NEW other \in File, OpenCreate(p, other),
           NEW path \in File, fs_search_file(path) # FS_INODE_INVALID,
           NEW k \in 0..MaxEntry, k < dir_size, dir[k].inode # FS_INODE_INVALID,
           \A j \in 0..(k - 1) : dir[j].name # path,
           ~(dir[k - 1].inode = FS_INODE_INVALID /\ dir'[k - 1].name \in LongName)
    PROVE  dir'[k] = dir[k] /\ \A j \in 0..(k - 1) : dir'[j].name # path
  <1>1. CASE UNCHANGED dir
    BY <1>1
  <1>2. ASSUME NEW i, dir' = EntryNamed(NewEntry, i, other)
        PROVE  dir'[k] = dir[k] /\ \A j \in 0..(k - 1) : dir'[j].name # path
    <2>1. other # path
      BY DEF OpenCreate
    <2>2. NoName # path /\ MixedName # path
      BY FileSystemAssumption DEF Path, Name
    <2>3. DOMAIN dir = 0..MaxEntry /\ dir_size \in Nat /\ k \in Nat
      <3>1. dir_size \in 0..MaxEntry /\ DOMAIN dir = 0..MaxEntry
        BY DEF IInv, TypeOK
      <3> QED BY <3>1, Sizes
    <2>4. PICK n \in Nat :
             /\ n = NewEntry
             /\ \/ n = dir_size
                \/ n < dir_size /\ dir[n].inode = FS_INODE_INVALID
      <3>1. \/ NewEntry = dir_size
            \/ NewEntry \in 0 .. (dir_size - 1) /\ dir[NewEntry].inode = FS_INODE_INVALID
        BY NewEntryIsFree DEF IInv
      <3>2. CASE NewEntry = dir_size
        BY <2>3, <3>2
      <3>3. CASE NewEntry \in 0 .. (dir_size - 1) /\ dir[NewEntry].inode = FS_INODE_INVALID
        <4>1. NewEntry \in Nat /\ NewEntry < dir_size
          BY <2>3, <3>3
        <4> QED BY <3>3, <4>1
      <3> QED BY <3>1, <3>2, <3>3
    <2>5. dir' = [j \in 0..MaxEntry |->
             CASE j = n -> [inode |-> i, name |-> NameIn(n, other)]
               [] j = n + 1 /\ RunsOver(n, other)
                     -> [dir[j] EXCEPT !.inode = FS_INODE_INVALID]
               [] OTHER -> dir[j]]
      BY <1>2, <2>3, <2>4 DEF EntryNamed
    <2>6. NameIn(n, other) # path /\ (other \in LongName => NameIn(n, other) = other)
      BY <2>1, <2>2 DEF NameIn
    <2>7. n # k
      BY <2>4
    <2>8. n # n + 1
      BY <2>4
    <2>9. dir'[k] = dir[k]
      <3>1. CASE k = n + 1 /\ RunsOver(n, other)
        <4>1. n = k - 1 /\ n \in 0..MaxEntry /\ n < dir_size
          BY <2>3, <2>4, <3>1, Sizes
        <4>2. dir[n].inode = FS_INODE_INVALID
          BY <2>4, <4>1
        <4>3. dir'[n] = [inode |-> i, name |-> NameIn(n, other)]
          BY <2>5, <2>8, <4>1
        <4>4. dir'[n].name \in LongName
          BY <2>6, <3>1, <4>3 DEF RunsOver
        <4> QED BY <4>1, <4>2, <4>4
      <3>2. CASE ~(k = n + 1 /\ RunsOver(n, other))
        BY <2>5, <2>7, <3>2
      <3> QED BY <3>1, <3>2
    <2>10. ASSUME NEW j \in 0..(k - 1) PROVE dir'[j].name # path
      <3>1. j \in 0..MaxEntry
        BY <2>3, Sizes
      <3>2. dir[j] \in [inode : Inode \cup {FS_INODE_INVALID}, name : Name \cup {NoName, MixedName}]
        BY <3>1 DEF IInv, TypeOK
      <3>3. CASE j = n
        BY <2>5, <2>6, <2>8, <3>1, <3>3
      <3>4. CASE j = n + 1 /\ RunsOver(n, other)
        <4>1. dir'[j] = [dir[j] EXCEPT !.inode = FS_INODE_INVALID]
          BY <2>5, <2>8, <3>1, <3>4
        <4>2. dir'[j].name = dir[j].name
          BY <3>2, <4>1
        <4> QED BY <4>2
      <3>5. CASE j # n /\ ~(j = n + 1 /\ RunsOver(n, other))
        BY <2>5, <3>1, <3>5
      <3> QED BY <3>3, <3>4, <3>5
    <2> QED BY <2>9, <2>10
  <1> QED BY <1>1, <1>2 DEF OpenCreate, Panic, disk

\* Nor does unlink take away the entry of a file that stays.
LEMMA UnlinkKeepsNames ==
    ASSUME IInv, NEW other \in Path, Unlink(other),
           NEW path \in File, NEW k \in 0..MaxEntry,
           dir[k].inode \in imap', \A j \in 0..(k - 1) : dir[j].name # path
    PROVE  dir'[k] = dir[k] /\ \A j \in 0..(k - 1) : dir'[j].name # path
  <1>1. CASE UNCHANGED dir
    BY <1>1
  <1> DEFINE gone == fs_search_file(other)
             m == First(EntryOf(gone))
  <1>2. CASE EntryOf(gone) # {} /\ dir' = Cleared(m)
    <2>1. gone \in Inode /\ imap' = imap \ {gone}
      BY DEF IInv, TypeOK, Unlink
    <2>2. m \in 0..MaxEntry /\ dir[m].inode = gone
      BY <1>2, <2>1, EntryCleared DEF IInv
    <2>3. k # m
      BY <2>1, <2>2
    <2> HIDE DEF m
    <2>4. \A j \in 0..MaxEntry : dir'[j] = IF j = m THEN FreeEntry ELSE dir[j]
      <3>1. DOMAIN dir = 0..MaxEntry
        BY DEF IInv, TypeOK
      <3> QED BY <1>2, <3>1 DEF Cleared
    <2>5. FreeEntry.name # path
      BY FileSystemAssumption DEF FreeEntry, Path, Name
    <2>6. \A j \in 0..(k - 1) : j \in 0..MaxEntry
      BY Sizes
    <2> QED BY <2>3, <2>4, <2>5, <2>6
  <1> QED BY <1>1, <1>2 DEF Unlink

\* FilesKeepTheirNames, of every step.
THEOREM NamesAreKept == Spec => FilesKeepTheirNames
  <1> DEFINE Kept(path) ==
        LET i == fs_search_file(path)
            k == First({e \in Scanned : dir[e].name = path})
        IN  i \in RegularFile /\ i \in RegularFile' =>
                \/ fs_search_file(path)' = i
                \/ k >= dir_size \/ k >= dir_size'
                \/ dir[k - 1].inode = FS_INODE_INVALID /\ dir'[k - 1].name \in LongName
  <1>1. ASSUME IInv, IInv', Next, NEW path \in File PROVE Kept(path)
    <2> SUFFICES ASSUME fs_search_file(path) \in RegularFile,
                        fs_search_file(path) \in RegularFile',
                        NEW k \in 0..MaxEntry,
                        k = First({e \in Scanned : dir[e].name = path}),
                        dir[k].name = path, dir[k].inode = fs_search_file(path),
                        k < dir_size, k < dir_size',
                        ~(dir[k - 1].inode = FS_INODE_INVALID
                            /\ dir'[k - 1].name \in LongName),
                        \A j \in 0..(k - 1) : dir[j].name # path,
                        fs_search_file(path) # FS_INODE_INVALID
                 PROVE  fs_search_file(path)' = fs_search_file(path)
      <3>1. ASSUME fs_search_file(path) \in RegularFile
            PROVE  fs_search_file(path) # FS_INODE_INVALID
        <4>1. fs_search_file(path) \in Inode
          BY <1>1, <3>1 DEF RegularFile, IInv, TypeOK
        <4> QED BY <4>1, Sizes DEF FS_INODE_INVALID
      <3>2. /\ dir_size \in Int /\ dir_size' \in Int
            /\ \A k \in 0..MaxEntry : k \in Int
        <4>1. dir_size \in 0..MaxEntry /\ dir_size' \in 0..MaxEntry
          BY <1>1 DEF IInv, TypeOK
        <4> QED BY <4>1, Sizes
      <3>3. TypeOK
        BY <1>1 DEF IInv
      <3> QED BY <3>1, <3>2, <3>3, FoundAt
    <2>1. dir'[k] = dir[k] /\ \A j \in 0..(k - 1) : dir'[j].name # path
      <3>1. CASE UNCHANGED dir
        BY <3>1
      <3>2. ASSUME NEW p \in Proc, NEW other \in File, OpenCreate(p, other)
            PROVE  dir'[k] = dir[k] /\ \A j \in 0..(k - 1) : dir'[j].name # path
        BY <1>1, <3>2, CreateKeepsNames
      <3>3. ASSUME NEW other \in Path, Unlink(other)
            PROVE  dir'[k] = dir[k] /\ \A j \in 0..(k - 1) : dir'[j].name # path
        BY <1>1, <3>3, UnlinkKeepsNames DEF RegularFile
      <3>4. ASSUME Restart PROVE FALSE
        <4>1. imap' = FormattedMap /\ fs_search_file(path) \in imap'
          BY <3>4 DEF Restart, RegularFile
        <4>2. fs_search_file(path) \in Inode
          BY <4>1, Sizes
        <4>3. disk_inode'[fs_search_file(path)].mode \in {"directory", "char"}
          BY <1>1, <4>1, <4>2 DEF IInv, Modes
        <4> QED BY <4>3 DEF RegularFile
      <3> QED BY <1>1, <3>1, <3>2, <3>3, <3>4
              DEF Next, OpenNoFd, OpenNoFlag, OpenFails, OpenExisting, Close,
                  UnlinkFails, UnlinkRefused, UnlinkUnallocated, fs_do_stat, Panic,
                  disk, vars
    <2>2. fs_search_file(path)' = dir'[k].inode
      BY <1>1, <2>1, StaysFound DEF IInv
    <2> QED BY <2>1, <2>2
  <1>2. IInv /\ IInv' /\ [Next]_vars => [\A path \in File : Kept(path)]_vars
    BY <1>1
  <1> QED BY <1>2, Invariance, PTL DEF FilesKeepTheirNames, Spec
=============================================================================
