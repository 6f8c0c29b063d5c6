----------------------------- MODULE LoopProofs ------------------------------
(***************************************************************************)
(* Loops that do the work of one call, or of the whole start: udivmoddi4   *)
(* divides right for words of every width, fs_do_readwrite moves what it   *)
(* is asked for, and the loader brings the kernel to its place, for        *)
(* sectors, buffers, files and memories of every size.                     *)
(***************************************************************************)
EXTENDS Arith64, FileData, Loader, WellFoundedInduction, TLAPS

-----------------------------------------------------------------------------
(* The division.                                                           *)

\* qbit is a bit, and den the denominator shifted to it.
AtBit(k) == qbit = Bit[k] /\ den = division.b * Bit[k]

\* What remains is below twice the shifted denominator, and when the last bit
\* is through below the denominator itself.
Bounded ==
    \/ \E k \in 0..BITS - 1 : AtBit(k) /\ num < 2 * den
    \/ qbit = 0 /\ num < division.b

\* The inductive invariant.
UdivInv ==
    /\ division \in [fn : Function, a : Operand, b : Operand]
    /\ at \in {"divmod", "divide"} => division.fn # "udivmoddi4"
    /\ at = "justify" =>
          /\ quot = 0 /\ num = division.a
          /\ \E k \in 0..BITS - 1 : AtBit(k)
    /\ at = "subtract" =>
          /\ division.b # 0 /\ quot \in Nat /\ num \in Nat
          /\ division.a = division.b * quot + num
          /\ Bounded
    /\ DividesRight

-----------------------------------------------------------------------------
(* Arithmetic the steps rest on.                                           *)

\* A product doubles with its second factor.
LEMMA DoubleProduct ==
    ASSUME NEW x \in Nat, NEW y \in Nat
    PROVE  x * (2 * y) = 2 * (x * y)
  OBVIOUS

\* A quotient grows by a bit as the numerator shrinks by the shifted
\* denominator.
LEMMA ProductOfSum ==
    ASSUME NEW x \in Nat, NEW y \in Nat, NEW z \in Nat
    PROVE  x * (y + z) = x * y + x * z
  OBVIOUS

\* A product with a factor that is not zero is no less than the other.
LEMMA ProductAtLeast ==
    ASSUME NEW x \in Nat \ {0}, NEW y \in Nat
    PROVE  x * y >= y
  <1>1. PICK z \in Nat : x = z + 1
    <2>1. x - 1 \in Nat /\ x = (x - 1) + 1
      OBVIOUS
    <2> QED
      BY <2>1
  <1>2. (z + 1) * y = z * y + y
    BY <1>1
  <1>3. z * y \in Nat
    BY <1>1
  <1> QED
    BY <1>1, <1>2, <1>3

\* The upper half of the words is twice the lower one.
LEMMA TopBit ==
    /\ Bit[BITS] = 2 * Bit[BITS - 1] /\ Bit[BITS - 1] \in Nat \ {0}
    /\ Bit[BITS] \in Nat \ {0}
  <1>1. BITS \in 1..BITS /\ BITS - 1 \in 0..BITS
    BY ArithAssumption
  <1> QED
    BY <1>1, ArithAssumption

\* Reducing a number below the modulus changes nothing.
LEMMA SmallModulo ==
    ASSUME NEW n \in Nat \ {0}, NEW x \in 0..n - 1
    PROVE  x % n = x
  OBVIOUS

\* Reducing a word changes nothing.
LEMMA WrapOfWord ==
    ASSUME NEW x \in Word
    PROVE  Wrap(x) = x
  BY TopBit, SmallModulo DEF Word, Wrap

\* The operands are naturals below the first number that is no word.
LEMMA OperandsAreWords ==
    ASSUME division \in [fn : Function, a : Operand, b : Operand]
    PROVE  /\ division.a \in Nat /\ division.b \in Nat
           /\ division.a < Bit[BITS] /\ division.b < Bit[BITS]
  <1>1. division.a \in Operand /\ division.b \in Operand
    OBVIOUS
  <1>2. division.a \in 0..Bit[BITS] - 1 /\ division.b \in 0..Bit[BITS] - 1
    BY <1>1, ArithAssumption
  <1> QED
    BY <1>2, TopBit

-----------------------------------------------------------------------------
(* The steps of udivmoddi4.                                                *)

\* The denominator moves up by one bit together with qbit, and neither leaves
\* the word.
LEMMA JustifyingKeeps == UdivInv /\ UdivJustifies => UdivInv'
  <1> SUFFICES ASSUME UdivInv, UdivJustifies PROVE UdivInv'
    OBVIOUS
  <1> DEFINE b == division.b
  <1>1. PICK k \in 0..BITS - 1 : AtBit(k)
    BY DEF UdivInv, UdivJustifies
  <1>2. b \in Nat /\ Bit[k] \in Nat \ {0} /\ b * Bit[k] \in Nat
    BY ArithAssumption, OperandsAreWords, SMTT(30) DEF UdivInv
  <1>3. b # 0
    BY <1>1, <1>2 DEF UdivJustifies, AtBit
  <1>4. b * Bit[k] < Bit[BITS - 1] /\ b * Bit[k] >= Bit[k]
    BY <1>1, <1>2, <1>3, ProductAtLeast, TopBit DEF UdivJustifies, Negative, AtBit
  <1>5. k # BITS - 1
    BY <1>2, <1>4
  <1>6. k + 1 \in 0..BITS - 1 /\ Bit[k + 1] = 2 * Bit[k]
    BY <1>5, ArithAssumption
  <1>7. Wrap(2 * den) = 2 * den /\ Wrap(2 * qbit) = 2 * qbit
    BY <1>1, <1>2, <1>4, TopBit, WrapOfWord DEF Word, AtBit
  <1>8. AtBit(k + 1)'
    BY <1>1, <1>2, <1>6, <1>7, DoubleProduct DEF UdivJustifies, AtBit
  <1> QED
    BY <1>6, <1>8 DEF UdivInv, UdivJustifies, DividesRight

\* When the denominator fills the word, the numerator is below twice of it.
LEMMA JustifiedKeeps == UdivInv /\ UdivJustified => UdivInv'
  <1> SUFFICES ASSUME UdivInv, UdivJustified PROVE UdivInv'
    OBVIOUS
  <1>1. PICK k \in 0..BITS - 1 : AtBit(k)
    BY DEF UdivInv, UdivJustified
  <1>2. division.a \in Nat /\ division.b \in Nat /\ division.a < Bit[BITS]
    BY OperandsAreWords DEF UdivInv
  <1>3. Bit[k] \in Nat /\ den \in Nat
    BY <1>1, <1>2, ArithAssumption, SMTT(30) DEF AtBit
  <1>4. division.b # 0
    BY <1>1, <1>3, TopBit DEF UdivJustified, Negative, AtBit
  <1>5. num < 2 * den
    BY <1>2, <1>3, TopBit DEF UdivInv, UdivJustified, Negative
  <1>6. Bounded'
    BY <1>1, <1>5 DEF UdivJustified, Bounded, AtBit
  <1> QED
    BY <1>2, <1>4, <1>6 DEF UdivInv, UdivJustified, DividesRight

\* A round takes one bit of the quotient, and halves the denominator exactly.
LEMMA SubtractingKeeps == UdivInv /\ UdivSubtracts => UdivInv'
  <1> SUFFICES ASSUME UdivInv, UdivSubtracts PROVE UdivInv'
    OBVIOUS
  <1> DEFINE b == division.b
  <1>1. PICK k \in 0..BITS - 1 : AtBit(k) /\ num < 2 * den
    BY DEF UdivInv, UdivSubtracts, Bounded
  <1>2. /\ division.a \in Nat /\ b \in Nat \ {0} /\ division.a < Bit[BITS]
        /\ quot \in Nat /\ num \in Nat
        /\ division.a = b * quot + num
    BY OperandsAreWords DEF UdivInv, UdivSubtracts
  <1>3. Bit[k] \in Nat \ {0} /\ qbit = Bit[k] /\ den = b * qbit /\ den \in Nat
    <2>1. k \in 0..BITS /\ Bit[k] \in Nat \ {0}
      BY ArithAssumption
    <2>2. qbit = Bit[k] /\ den = b * Bit[k]
      BY <1>1 DEF AtBit
    <2> QED
      BY <1>2, <2>1, <2>2
  <1>4. /\ quot' \in Nat /\ num' \in Nat /\ num' < den
        /\ division.a = b * quot' + num'
    <2>1. CASE Fits
      <3>1. b * (quot + qbit) = b * quot + den
        BY <1>2, <1>3, ProductOfSum
      <3>2. quot + qbit \in Nat /\ b * quot \in Nat
        BY <1>2, <1>3
      <3>3. b * (quot + qbit) =< division.a
        BY <1>2, <1>3, <2>1, <3>1, <3>2 DEF Fits
      <3>4. b * (quot + qbit) >= quot + qbit
        BY <1>2, <3>2, ProductAtLeast
      <3>5. quot + qbit \in Word
        BY <1>2, <1>3, <3>1, <3>2, <3>3, <3>4, TopBit DEF Word
      <3>6. quot' = quot + qbit /\ num' = num - den
        BY <2>1, <3>5, WrapOfWord DEF UdivSubtracts
      <3> QED
        BY <1>1, <1>2, <1>3, <2>1, <3>1, <3>2, <3>6 DEF Fits
    <2>2. CASE ~Fits
      BY <1>2, <1>3, <2>2 DEF UdivSubtracts, Fits
    <2> QED
      BY <2>1, <2>2
  <1>5. Bounded'
    <2>1. CASE k = 0
      <3>1. qbit = 1 /\ den = b
        BY <1>2, <1>3, <2>1, ArithAssumption
      <3> QED
        BY <1>4, <3>1 DEF UdivSubtracts, Bounded
    <2>2. CASE k # 0
      <3>1. k - 1 \in 0..BITS - 1 /\ k \in 1..BITS /\ k - 1 \in 0..BITS
        BY <2>2, ArithAssumption
      <3>2. Bit[k] = 2 * Bit[k - 1] /\ Bit[k - 1] \in Nat
        <4>1. Bit[k] = 2 * Bit[k - 1]
          BY <3>1, ArithAssumption
        <4>2. Bit[k - 1] \in Nat
          BY <3>1, ArithAssumption
        <4> QED
          BY <4>1, <4>2
      <3>3. den = 2 * (b * Bit[k - 1]) /\ b * Bit[k - 1] \in Nat
        BY <1>2, <1>3, <3>2, DoubleProduct
      <3>4. qbit' = Bit[k - 1] /\ den' = b * Bit[k - 1]
        BY <1>3, <3>2, <3>3 DEF UdivSubtracts
      <3>5. AtBit(k - 1)' /\ num' < 2 * den'
        BY <1>4, <3>3, <3>4 DEF UdivSubtracts, AtBit
      <3> QED
        BY <3>1, <3>5 DEF Bounded
    <2> QED
      BY <2>1, <2>2
  <1> QED
    BY <1>2, <1>4, <1>5 DEF UdivInv, UdivSubtracts, DividesRight

\* After the last bit the rest is the remainder.
LEMMA ReturningKeeps == UdivInv /\ UdivReturns => UdivInv'
  <1> SUFFICES ASSUME UdivInv, UdivReturns PROVE UdivInv'
    OBVIOUS
  <1>1. num < division.b
    BY ArithAssumption DEF UdivInv, UdivReturns, Bounded, AtBit
  <1> QED
    BY <1>1 DEF UdivInv, UdivReturns, DividesRight

-----------------------------------------------------------------------------

\* udivmoddi4 returns the quotient and the remainder of its operands for words
\* of every width (sys/arith64.c:175-203).
THEOREM UdivmodDivides == DivideSpec => []DividesRight
  <1>1. DivideInit => UdivInv
    <2> SUFFICES ASSUME DivideInit PROVE UdivInv
      OBVIOUS
    <2>1. 0 \in 0..BITS - 1 /\ Bit[0] = 1
      BY ArithAssumption
    <2>2. division.b \in Nat
      BY OperandsAreWords DEF DivideInit
    <2>3. at = "justify" => num = division.a /\ AtBit(0)
      BY <2>1, <2>2 DEF DivideInit, Entered, Signed, AtBit
    <2> QED
      BY <2>1, <2>3 DEF DivideInit, UdivInv, DividesRight
  <1>2. UdivInv /\ [DivideNext]_divideVars => UdivInv'
    <2> SUFFICES ASSUME UdivInv, [DivideNext]_divideVars PROVE UdivInv'
      OBVIOUS
    <2>1. CASE Faults
      BY <2>1 DEF UdivInv, Faults, DividesRight
    <2>2. CASE UdivJustifies
      BY <2>2, JustifyingKeeps
    <2>3. CASE UdivJustified
      BY <2>3, JustifiedKeeps
    <2>4. CASE UdivSubtracts
      BY <2>4, SubtractingKeeps
    <2>5. CASE UdivReturns
      BY <2>5, ReturningKeeps
    <2>6. CASE DivmodReturnsAtOnce
      BY <2>6 DEF UdivInv, DivmodReturnsAtOnce, DividesRight
    <2>7. CASE DivmodStarts
      BY <2>7 DEF UdivInv, DivmodStarts, DividesRight
    <2>8. CASE DivmodStep
      BY <2>8 DEF UdivInv, DivmodStep, DividesRight
    <2>9. CASE DivmodReturns
      BY <2>9 DEF UdivInv, DivmodReturns, DividesRight
    <2>10. CASE UNCHANGED divideVars
      BY <2>10 DEF UdivInv, divideVars, DividesRight, Bounded, AtBit
    <2> QED
      BY <2>1, <2>2, <2>3, <2>4, <2>5, <2>6, <2>7, <2>8, <2>9, <2>10 DEF DivideNext
  <1>3. UdivInv => DividesRight
    BY DEF UdivInv
  <1> QED
    BY <1>1, <1>2, <1>3, PTL DEF DivideSpec

-----------------------------------------------------------------------------
(* The loop of fs_do_readwrite.                                            *)

\* What the loop has done of the request for count bytes from address a on; next
\* is the address of the sector that the next turn begins with.
Underway(state, type, count, a, next) ==
    /\ state.bytes_done \in Nat /\ state.bytes_left \in Nat
    /\ state.bytes_done + state.bytes_left = count
    /\ state.offset \in 0..HD_SECTOR_SIZE - 1
    /\ state.bytes_left > 0 => next + state.offset = a + state.bytes_done
    /\ type = "READ" =>
          state.memory = [k \in 1..state.bytes_done |-> disk[a + k - 1]]
    /\ state.disk = IF type = "READ" THEN disk
                    ELSE [o \in Offset |-> IF o - a \in 0..state.bytes_done - 1
                                           THEN Data(o - a) ELSE disk[o]]

LEMMA FileSizes ==
    /\ HD_SECTOR_SIZE \in Nat /\ HD_SECTOR_SIZE > 0
    /\ FS_BUFFER_SECTORS \in Nat /\ FS_BUFFER_SECTORS > 0
    /\ \A f \in File : /\ start_sector[f] \in Nat /\ num_sectors[f] \in Nat
                       /\ FirstByte(f) = start_sector[f] * HD_SECTOR_SIZE
                       /\ FirstByte(f) \in Nat /\ Capacity(f) \in Nat
    /\ \A d \in Fd : inode[d] \in File
    /\ Counts \subseteq Nat /\ Offsets \subseteq Int /\ MaxRequests \in Nat
  <1>1. \A m, n \in Nat : m * n \in Nat
    OBVIOUS
  <1> QED BY <1>1, FileDataAssumption DEF FirstByte, Capacity

\* A set of numbers has a least one.
LEMMA LeastNumber ==
    ASSUME NEW A \in SUBSET Nat, A # {}
    PROVE  \E m \in A : \A k \in A : m <= k
  <1> DEFINE less == OpToRel(<, Nat)
  <1>1. IsWellFoundedOn(less, Nat)
    BY NatLessThanWellFounded
  <1>2. \A x, y \in Nat : y < x => <<y, x>> \in less
    BY DEF OpToRel
  <1> HIDE DEF less
  <1>3. PICK x \in A : \A y \in A : ~(<<y, x>> \in less)
    BY <1>1, WFMin
  <1>4. \A y \in A : x \in Nat /\ y \in Nat /\ ~(y < x)
    BY <1>2, <1>3
  <1> QED BY <1>4

\* The states of the loop are well defined: each turn begins where the last ended.
LEMMA LoopIs ==
    ASSUME NEW begin, NEW s, NEW chunk, NEW turns \in Nat, NEW type
    PROVE  LET state == Loop(begin, s, chunk, turns, type)
           IN  /\ state[0] = begin
               /\ \A n \in 1..turns :
                     state[n] = Turn(state[n - 1], s + (n - 1) * chunk, chunk, type)
  <1> DEFINE Hop(st, n)  == Turn(st, s + (n - 1) * chunk, chunk, type)
             Walk(f, n) == f[0] = begin /\ \A i \in 1..n : f[i] = Hop(f[i - 1], i)
             state      == Loop(begin, s, chunk, turns, type)
  <1> HIDE DEF Hop
  <1>1. \A n \in Nat : \E f : Walk(f, n)
    <2> DEFINE Bad == {n \in Nat : ~\E f : Walk(f, n)}
    <2>1. SUFFICES ASSUME Bad # {} PROVE FALSE
      OBVIOUS
    <2>2. PICK n \in Bad : \A k \in Bad : n <= k
      <3>1. Bad \in SUBSET Nat
        OBVIOUS
      <3> HIDE DEF Bad
      <3> QED BY <2>1, <3>1, LeastNumber
    <2>3. n \in Nat /\ ~\E f : Walk(f, n)
      BY <2>2
    <2>4. CASE n = 0
      <3>1. Walk([i \in {0} |-> begin], 0)
        OBVIOUS
      <3> QED BY <2>3, <2>4, <3>1
    <2>5. CASE n # 0
      <3>1. n - 1 \in Nat /\ n - 1 \notin Bad
        <4>1. n - 1 \in Nat /\ ~(n <= n - 1)
          BY <2>3, <2>5
        <4> HIDE DEF Bad
        <4> QED BY <2>2, <4>1
      <3>2. PICK f : Walk(f, n - 1)
        BY <3>1
      <3> DEFINE g == [i \in 0..n |-> IF i = n THEN Hop(f[n - 1], n) ELSE f[i]]
      <3>3. g[0] = begin
        BY <2>3, <2>5, <3>2
      <3>4. ASSUME NEW i \in 1..n
            PROVE  g[i] = Hop(g[i - 1], i)
        <4>1. i \in 0..n /\ i - 1 \in 0..n /\ i - 1 # n
          BY <2>3
        <4>2. g[i] = (IF i = n THEN Hop(f[n - 1], n) ELSE f[i]) /\ g[i - 1] = f[i - 1]
          BY <4>1
        <4>3. i # n => i \in 1..n - 1
          BY <2>3
        <4> QED BY <3>2, <4>2, <4>3
      <3>5. Walk(g, n)
        <4> HIDE DEF g
        <4> QED BY <3>3, <3>4
      <3> QED BY <2>3, <3>5
    <2> QED BY <2>4, <2>5
  <1>2. PICK f : Walk(f, turns)
    BY <1>1
  <1> DEFINE F == [n \in 0..turns |-> f[n]]
  <1>3. \A n \in 0..turns : F[n] = IF n = 0 THEN begin ELSE Hop(F[n - 1], n)
    <2> TAKE n \in 0..turns
    <2>1. n # 0 => n \in 1..turns /\ n - 1 \in 0..turns
      OBVIOUS
    <2> QED BY <1>2, <2>1
  <1>4. F = [n \in 0..turns |-> IF n = 0 THEN begin ELSE Hop(F[n - 1], n)]
    <2>1. F = [n \in 0..turns |-> F[n]]
      OBVIOUS
    <2> HIDE DEF F
    <2> QED BY <1>3, <2>1
  <1> HIDE DEF F
  <1>5. state = [n \in 0..turns |-> IF n = 0 THEN begin ELSE Hop(state[n - 1], n)]
    BY <1>4 DEF Loop, Hop
  <1> HIDE DEF state
  <1>6. \A n \in 0..turns : state[n] = IF n = 0 THEN begin ELSE Hop(state[n - 1], n)
    BY <1>5
  <1>7. 0 \in 0..turns /\ \A n \in 1..turns : n \in 0..turns /\ n # 0
    OBVIOUS
  <1> QED BY <1>6, <1>7 DEF Hop, state

\* What is read in one piece follows what was read before.
LEMMA Follows ==
    ASSUME NEW g, NEW a \in Int, NEW m \in Nat, NEW u \in Nat
    PROVE  [k \in 1..m |-> g[a + k - 1]] \o [k \in 1..u |-> g[a + m + k - 1]]
              = [k \in 1..m + u |-> g[a + k - 1]]
  <1> DEFINE s == [k \in 1..m |-> g[a + k - 1]]
             t == [k \in 1..u |-> g[a + m + k - 1]]
             j == [k \in 1..m + u |-> g[a + k - 1]]
  <1> DEFINE V == {g[a + k - 1] : k \in 1..m + u}
  <1>1. s \in Seq(V) /\ Len(s) = m
    <2>1. \A k \in 1..m : g[a + k - 1] \in V
      OBVIOUS
    <2> HIDE DEF V
    <2> QED BY <2>1
  <1>2. t \in Seq(V) /\ Len(t) = u
    <2>1. \A k \in 1..u : m + k \in 1..m + u /\ a + m + k - 1 = a + (m + k) - 1
      OBVIOUS
    <2>2. \A k \in 1..u : g[a + m + k - 1] \in V
      BY <2>1
    <2> HIDE DEF V
    <2> QED BY <2>2
  <1>3. j \in Seq(V) /\ Len(j) = m + u
    <2>1. \A k \in 1..m + u : g[a + k - 1] \in V
      OBVIOUS
    <2> HIDE DEF V
    <2> QED BY <2>1
  <1>4. \A k \in 1..m : s[k] = g[a + k - 1]
    OBVIOUS
  <1>5. \A k \in 1..u : t[k] = g[a + m + k - 1]
    OBVIOUS
  <1>6. \A k \in 1..m + u : j[k] = g[a + k - 1]
    OBVIOUS
  <1> HIDE DEF s, t, j, V
  <1>7. s \o t \in Seq(V) /\ Len(s \o t) = m + u
    BY <1>1, <1>2
  <1>8. ASSUME NEW k \in 1..m + u PROVE (s \o t)[k] = j[k]
    <2>1. CASE k <= m
      BY <1>1, <1>2, <1>4, <1>6, <2>1
    <2>2. CASE k > m
      <3>1. k - m \in 1..u /\ a + m + (k - m) - 1 = a + k - 1
        BY <2>2
      <3>2. (s \o t)[k] = t[k - m]
        BY <1>1, <1>2, <2>2
      <3> QED BY <1>5, <1>6, <3>1, <3>2
    <2>3. k <= m \/ k > m
      OBVIOUS
    <2> QED BY <2>1, <2>2, <2>3
  <1>9. s \o t = j
    BY <1>3, <1>7, <1>8
  <1> QED BY <1>9 DEF s, t, j

LEMMA TurnGoesOn ==
    ASSUME NEW type \in {"READ", "WRITE"}, NEW count \in Nat, NEW a \in Nat,
           NEW i \in Nat, NEW chunk \in Nat, chunk > 0,
           NEW state, Underway(state, type, count, a, i * HD_SECTOR_SIZE)
    PROVE  Underway(Turn(state, i, chunk, type), type, count, a,
                    (i + chunk) * HD_SECTOR_SIZE)
  <1> DEFINE from == i * HD_SECTOR_SIZE + state.offset
             room == chunk * HD_SECTOR_SIZE
             unit == UnitSize(state, chunk)
             done == state.bytes_done
             left == state.bytes_left
             new  == Turn(state, i, chunk, type)
  <1>1. /\ done \in Nat /\ left \in Nat /\ done + left = count
        /\ state.offset \in 0..HD_SECTOR_SIZE - 1
        /\ left > 0 => from = a + done
    BY DEF Underway
  <1>2. /\ HD_SECTOR_SIZE \in Nat /\ HD_SECTOR_SIZE > 0
        /\ i * HD_SECTOR_SIZE \in Nat /\ room \in Nat
        /\ (i + chunk) * HD_SECTOR_SIZE = i * HD_SECTOR_SIZE + room
    BY FileSizes
  <1>3. room >= HD_SECTOR_SIZE
    <2>1. (chunk - 1) * HD_SECTOR_SIZE >= 0
      BY <1>2
    <2>2. (chunk - 1) * HD_SECTOR_SIZE = room - HD_SECTOR_SIZE
      BY <1>2
    <2> QED BY <1>2, <2>1, <2>2
  <1> HIDE DEF room
  <1>4. /\ unit \in Nat /\ unit <= left
        /\ left - unit > 0 => unit = room - state.offset
    <2>1. unit = IF left < room - state.offset THEN left ELSE room - state.offset
      BY DEF UnitSize, Least, room
    <2> HIDE DEF unit
    <2> QED BY <1>1, <1>2, <1>3, <2>1
  <1>5. /\ new.offset = 0 /\ new.bytes_left = left - unit /\ new.bytes_done = done + unit
        /\ new.memory = IF type = "READ"
                        THEN state.memory \o [k \in 1..unit |-> state.disk[from + k - 1]]
                        ELSE state.memory
        /\ new.disk = IF type = "READ" THEN state.disk
                      ELSE [o \in Offset |-> IF o \in from..from + unit - 1
                               THEN Data(done + o - from) ELSE state.disk[o]]
    BY DEF Turn
  <1>6. unit = 0 \/ from = a + done
    BY <1>1, <1>4
  <1>7. new.bytes_left > 0 =>
           (i + chunk) * HD_SECTOR_SIZE + new.offset = a + new.bytes_done
    <2>1. new.offset = 0 /\ new.bytes_left = left - unit /\ new.bytes_done = done + unit
      BY <1>5
    <2> DEFINE base == i * HD_SECTOR_SIZE
               next == (i + chunk) * HD_SECTOR_SIZE
    <2>2. base \in Nat /\ next = base + room /\ from = base + state.offset
      BY <1>2
    <2>3. state.offset \in Nat /\ room \in Nat /\ unit \in Nat
      BY <1>1, <1>2, <1>4
    <2> HIDE DEF unit, new, from, base, next, done, left
    <2>4. ASSUME left - unit > 0 PROVE next = a + done + unit
      <3>1. from = a + done /\ unit = room - state.offset
        BY <1>1, <1>4, <2>3, <2>4
      <3> QED BY <1>1, <2>2, <2>3, <3>1
    <2>5. new.bytes_left > 0 => next + new.offset = a + new.bytes_done
      BY <1>1, <2>1, <2>2, <2>3, <2>4
    <2> QED BY <2>5 DEF next
  <1> HIDE DEF unit, new
  <1>8. from \in Nat
    BY <1>1, <1>2
  <1> HIDE DEF from
  <1>9. ASSUME type = "READ"
        PROVE  new.memory = [k \in 1..done + unit |-> disk[a + k - 1]]
    <2>1. state.memory = [k \in 1..done |-> disk[a + k - 1]] /\ state.disk = disk
      BY <1>9 DEF Underway
    <2>2. [k \in 1..unit |-> disk[from + k - 1]] = [k \in 1..unit |-> disk[a + done + k - 1]]
      <3>1. CASE unit = 0
        BY <3>1
      <3>2. CASE from = a + done
        BY <3>2
      <3> QED BY <1>6, <3>1, <3>2
    <2>3. new.memory = [k \in 1..done |-> disk[a + k - 1]]
                          \o [k \in 1..unit |-> disk[a + done + k - 1]]
      BY <1>5, <1>9, <2>1, <2>2
    <2>4. done \in Nat /\ unit \in Nat /\ a \in Int
      BY <1>1, <1>4
    <2> HIDE DEF done
    <2>5. [k \in 1..done |-> disk[a + k - 1]] \o [k \in 1..unit |-> disk[a + done + k - 1]]
             = [k \in 1..done + unit |-> disk[a + k - 1]]
      BY <2>4, Follows
    <2> QED BY <2>3, <2>5
  <1>10. new.disk = IF type = "READ" THEN disk
                    ELSE [o \in Offset |-> IF o - a \in 0..(done + unit) - 1
                                           THEN Data(o - a) ELSE disk[o]]
    <2>1. CASE type = "READ"
      BY <1>5, <2>1 DEF Underway
    <2>2. CASE type = "WRITE"
      <3>1. /\ new.disk = [o \in Offset |-> IF o \in from..from + unit - 1
                               THEN Data(done + o - from) ELSE state.disk[o]]
            /\ state.disk = [o \in Offset |-> IF o - a \in 0..done - 1
                                               THEN Data(o - a) ELSE disk[o]]
        BY <1>5, <2>2 DEF Underway
      <3>2. ASSUME NEW o \in Offset
            PROVE  (IF o \in from..from + unit - 1 THEN Data(done + o - from)
                                                   ELSE state.disk[o])
                      = IF o - a \in 0..(done + unit) - 1 THEN Data(o - a) ELSE disk[o]
        <4>0. o \in Int
          BY DEF Offset
        <4>1. state.disk[o] = IF o - a \in 0..done - 1 THEN Data(o - a) ELSE disk[o]
          BY <3>1
        <4>2. CASE unit = 0
          <5>1. ~(o \in from..from + unit - 1) /\ (done + unit) - 1 = done - 1
            BY <1>1, <1>8, <4>0, <4>2
          <5> QED BY <4>1, <5>1
        <4>3. CASE from = a + done
          <5>1. CASE o \in from..from + unit - 1
            <6>1. o - a \in 0..(done + unit) - 1 /\ done + o - from = o - a
              BY <1>1, <1>4, <4>0, <4>3, <5>1
            <6> QED BY <5>1, <6>1
          <5>2. CASE ~(o \in from..from + unit - 1)
            <6>1. o - a \in 0..(done + unit) - 1 <=> o - a \in 0..done - 1
              BY <1>1, <1>4, <4>0, <4>3, <5>2
            <6> QED BY <4>1, <5>2, <6>1
          <5> QED BY <5>1, <5>2
        <4> QED BY <1>6, <4>2, <4>3
      <3> QED BY <2>2, <3>1, <3>2
    <2> QED BY <2>1, <2>2
  <1>11. /\ new.bytes_left \in Nat /\ new.bytes_done \in Nat
         /\ new.bytes_done + new.bytes_left = count
         /\ new.offset \in 0..HD_SECTOR_SIZE - 1
         /\ new.bytes_done = done + unit
    BY <1>1, <1>2, <1>4, <1>5, SMTT(30)
  <1> HIDE DEF done, left, room
  <1> DEFINE next == (i + chunk) * HD_SECTOR_SIZE
  <1>12. new.bytes_left > 0 => next + new.offset = a + new.bytes_done
    BY <1>7
  <1> HIDE DEF next
  <1>13. Underway(new, type, count, a, next)
    <2> DEFINE total == new.bytes_done
    <2>1. total = done + unit
      BY <1>11
    <2>2. type = "READ" => new.memory = [k \in 1..total |-> disk[a + k - 1]]
      BY <1>9, <2>1
    <2>3. new.disk = IF type = "READ" THEN disk
                     ELSE [o \in Offset |-> IF o - a \in 0..total - 1
                                            THEN Data(o - a) ELSE disk[o]]
      <3> DEFINE sum == done + unit
      <3>1. total = sum
        BY <2>1
      <3>2. new.disk = IF type = "READ" THEN disk
                       ELSE [o \in Offset |-> IF o - a \in 0..sum - 1
                                              THEN Data(o - a) ELSE disk[o]]
        BY <1>10
      <3> HIDE DEF sum, total
      <3> QED BY <3>1, <3>2
    <2> QED BY <1>11, <1>12, <2>2, <2>3 DEF Underway
  <1> QED BY <1>13 DEF new, next

LEMMA LoopGoesOn ==
    ASSUME NEW type \in {"READ", "WRITE"}, NEW count \in Nat, NEW a \in Nat,
           NEW s \in Nat, NEW chunk \in Nat, NEW turns \in Nat,
           turns > 0 => chunk > 0,
           NEW begin, Underway(begin, type, count, a, s * HD_SECTOR_SIZE)
    PROVE  \A n \in 0..turns : Underway(Loop(begin, s, chunk, turns, type)[n], type, count,
                                        a, (s + n * chunk) * HD_SECTOR_SIZE)
  <1> DEFINE state  == Loop(begin, s, chunk, turns, type)
             Good(n) == Underway(state[n], type, count, a, (s + n * chunk) * HD_SECTOR_SIZE)
             Bad    == {n \in 0..turns : ~Good(n)}
  <1>1. /\ state[0] = begin
        /\ \A n \in 1..turns :
              state[n] = Turn(state[n - 1], s + (n - 1) * chunk, chunk, type)
    BY LoopIs
  <1> HIDE DEF state
  <1>2. SUFFICES ASSUME Bad # {} PROVE FALSE
    BY DEF state
  <1>3. PICK n \in Bad : \A i \in Bad : n <= i
    <2>1. Bad \in SUBSET Nat
      OBVIOUS
    <2> HIDE DEF Bad
    <2> QED BY <1>2, <2>1, LeastNumber
  <1>4. n \in 0..turns /\ n \in Nat /\ ~Good(n)
    BY <1>3
  <1>5. n # 0
    <2>1. s + 0 * chunk = s
      OBVIOUS
    <2>2. Good(0)
      BY <1>1, <2>1
    <2> QED BY <1>4, <2>2
  <1> DEFINE m == n - 1
  <1>6. m \in 0..turns /\ m \in Nat /\ m + 1 = n /\ n \in 1..turns /\ ~(n <= m) /\ chunk > 0
    BY <1>4, <1>5
  <1>7. Good(m)
    <2> HIDE DEF Bad, m, Good
    <2>1. m \notin Bad
      BY <1>3, <1>6
    <2> QED BY <1>6, <2>1 DEF Bad
  <1>8. state[n] = Turn(state[m], s + m * chunk, chunk, type)
    BY <1>1, <1>6
  <1> DEFINE i == s + m * chunk
  <1>9. i \in Nat /\ i + chunk = s + n * chunk
    <2>1. m * chunk \in Nat /\ (m + 1) * chunk = m * chunk + chunk
      BY <1>6
    <2> QED BY <1>6, <2>1
  <1> HIDE DEF m
  <1>10. Underway(state[m], type, count, a, i * HD_SECTOR_SIZE)
    BY <1>7
  <1> HIDE DEF i
  <1>11. Underway(Turn(state[m], i, chunk, type), type, count, a,
                  (i + chunk) * HD_SECTOR_SIZE)
    BY <1>6, <1>9, <1>10, TurnGoesOn
  <1>12. Good(n)
    BY <1>8, <1>9, <1>11 DEF i
  <1> QED BY <1>4, <1>12

\* Sectors and offsets.
LEMMA SectorOf ==
    ASSUME NEW p \in Nat
    PROVE  LET S == HD_SECTOR_SIZE
           IN  /\ p \div S \in Nat /\ p % S \in 0..S - 1
               /\ p = (p \div S) * S + (p % S)
  <1>1. HD_SECTOR_SIZE \in Nat /\ HD_SECTOR_SIZE > 0
    BY FileSizes
  <1> QED BY <1>1

LEMMA LaterSector ==
    ASSUME NEW p \in Nat, NEW q \in Nat, p <= q
    PROVE  p \div HD_SECTOR_SIZE <= q \div HD_SECTOR_SIZE
  <1> DEFINE S == HD_SECTOR_SIZE
             m == p \div S
             n == q \div S
             x == p % S
             y == q % S
  <1>1. /\ S \in Nat /\ S > 0
        /\ m \in Nat /\ x \in 0..S - 1 /\ p = m * S + x
        /\ n \in Nat /\ y \in 0..S - 1 /\ q = n * S + y
    BY SectorOf, FileSizes
  <1> HIDE DEF m, n, x, y
  <1>2. SUFFICES ASSUME n < m PROVE FALSE
    BY <1>1 DEF m, n
  <1>3. (m - n - 1) * S >= 0
    BY <1>1, <1>2
  <1>4. (m - n - 1) * S = m * S - n * S - S /\ m * S \in Nat /\ n * S \in Nat
    BY <1>1
  <1> QED BY <1>1, <1>3, <1>4

\* The loop reaches behind the last sector.
LEMMA TurnsReach ==
    ASSUME NEW min \in Nat, NEW max \in Nat, min <= max, NEW chunk \in Nat, chunk > 0
    PROVE  /\ Turns(min, max, chunk) \in Nat /\ Turns(min, max, chunk) > 0
           /\ min + Turns(min, max, chunk) * chunk >= max + 1
  <1> DEFINE x == max - min
             q == x \div chunk
             z == x % chunk
  <1>1. x \in Nat /\ q \in Nat /\ z \in 0..chunk - 1 /\ x = q * chunk + z
    OBVIOUS
  <1>2. Turns(min, max, chunk) = q + 1
    BY DEF Turns
  <1> HIDE DEF q, z
  <1>3. (q + 1) * chunk = q * chunk + chunk /\ q * chunk \in Nat
    BY <1>1
  <1>4. min + (q + 1) * chunk >= max + 1
    BY <1>1, <1>3
  <1> QED BY <1>1, <1>2, <1>4

\* A request is done as far as the loop says, and completely when it does not end
\* behind what it may reach.
LEMMA MovesAsAsked ==
    ASSUME TypeOK, NEW f \in File, NEW pos \in Nat, NEW count \in Nat,
           NEW type \in {"READ", "WRITE"}
    PROVE  LET moved == Moves(f, pos, count, type)
           IN  /\ \E next : Underway(moved, type, count, FirstByte(f) + pos, next)
               /\ pos + count <= (IF type = "READ" THEN size[f] ELSE Capacity(f))
                     => moved.bytes_done = count
  <1> DEFINE S     == HD_SECTOR_SIZE
             first == start_sector[f]
             limit == IF type = "READ" THEN size[f] ELSE Capacity(f)
             end   == Least(pos + count, limit)
             min   == first + pos \div S
             max   == SectorMax(f, pos, end)
             chunk == Least(max - min + 1, FS_BUFFER_SECTORS)
             turns == Turns(min, max, chunk)
             begin == [offset |-> pos % S, bytes_left |-> count,
                       bytes_done |-> 0, memory |-> <<>>, disk |-> disk]
             a     == FirstByte(f) + pos
             moved == Loop(begin, min, chunk, turns, type)[turns]
  <1>1. /\ S \in Nat /\ S > 0 /\ FS_BUFFER_SECTORS \in Nat /\ FS_BUFFER_SECTORS > 0
        /\ first \in Nat /\ FirstByte(f) = first * S /\ FirstByte(f) \in Nat
        /\ Capacity(f) \in Nat
    BY FileSizes
  <1>2. limit \in Nat /\ end \in Nat /\ a \in Nat
    BY <1>1 DEF TypeOK, Least
  <1>3. pos \div S \in Nat /\ pos % S \in 0..S - 1 /\ pos = (pos \div S) * S + (pos % S)
    BY SectorOf
  <1>4. end \div S \in Nat /\ end % S \in 0..S - 1 /\ end = (end \div S) * S + (end % S)
    BY <1>2, SectorOf
  <1>5. max = first + end \div S
    BY DEF SectorMax
  <1>6. min \in Nat /\ max \in Nat
    BY <1>1, <1>3, <1>4, <1>5
  <1>7. min * S + (pos % S) = a
    <2> DEFINE m == pos \div S
               x == pos % S
    <2> HIDE DEF m, x
    <2>1. (first + m) * S = first * S + m * S
      BY <1>1, <1>3 DEF m
    <2>2. m * S \in Nat /\ first * S \in Nat /\ x \in Nat
      BY <1>1, <1>3 DEF m, x
    <2> QED BY <1>1, <1>3, <2>1, <2>2 DEF m, x
  <1>8. Underway(begin, type, count, a, min * S)
    <2>1. /\ begin.bytes_done = 0 /\ begin.bytes_left = count /\ begin.offset = pos % S
          /\ begin.memory = <<>> /\ begin.disk = disk
      OBVIOUS
    <2>2. <<>> = [k \in 1..0 |-> disk[a + k - 1]]
      OBVIOUS
    <2>3. disk = [o \in Offset |-> IF o - a \in 0..0 - 1 THEN Data(o - a) ELSE disk[o]]
      <3>1. \A o \in Offset : ~(o - a \in 0..0 - 1)
        BY <1>2 DEF Offset
      <3>2. disk = [o \in Offset |-> disk[o]]
        BY DEF TypeOK
      <3> QED BY <3>1, <3>2
    <2> DEFINE zero == begin.bytes_done
    <2>4. zero = 0
      OBVIOUS
    <2> HIDE DEF zero
    <2>5. begin.memory = [k \in 1..zero |-> disk[a + k - 1]]
      BY <2>1, <2>2, <2>4
    <2>6. begin.disk = [o \in Offset |-> IF o - a \in 0..zero - 1
                                         THEN Data(o - a) ELSE disk[o]]
      BY <2>1, <2>3, <2>4
    <2>7. begin.bytes_left > 0 => min * S + begin.offset = a + begin.bytes_done
      <3> HIDE DEF min, begin
      <3>1. min * S + begin.offset = a /\ a + 0 = a /\ begin.bytes_done = 0
        BY <1>2, <1>7, <2>1
      <3> QED BY <3>1
    <2> HIDE DEF begin, a, min
    <2>8. /\ begin.bytes_done \in Nat /\ begin.bytes_left \in Nat
          /\ begin.bytes_done + begin.bytes_left = count
          /\ begin.offset \in 0..S - 1
      BY <1>1, <1>3, <2>1
    <2> QED BY <2>1, <2>5, <2>6, <2>7, <2>8 DEF Underway, zero
  <1>9. turns \in Nat /\ (turns > 0 => min <= max /\ chunk \in Nat /\ chunk > 0)
    <2>1. CASE max < min
      BY <2>1 DEF Turns
    <2>2. CASE min <= max
      <3>1. chunk \in Nat /\ chunk > 0
        BY <1>1, <1>6, <2>2 DEF Least
      <3> HIDE DEF chunk, min, max
      <3> QED BY <1>6, <2>2, <3>1, TurnsReach
    <2> QED BY <1>6, <2>1, <2>2
  <1> DEFINE next == IF turns = 0 THEN min * S ELSE (min + turns * chunk) * S
  <1>10. Underway(moved, type, count, a, next)
    <2> HIDE DEF begin, a, min, max, chunk
    <2>1. CASE turns = 0
      <3>1. moved = begin
        BY <2>1, LoopIs
      <3> QED BY <1>8, <2>1, <3>1
    <2>2. CASE turns # 0
      <3>1. turns > 0 /\ turns \in 0..turns /\ chunk \in Nat /\ chunk > 0
        BY <1>9, <2>2
      <3> HIDE DEF turns
      <3>2. Underway(moved, type, count, a, (min + turns * chunk) * S)
        BY <1>2, <1>6, <1>8, <1>9, <3>1, LoopGoesOn
      <3> QED BY <2>2, <3>2
    <2> QED BY <2>1, <2>2
  <1>11. moved = Moves(f, pos, count, type)
    BY DEF Moves
  <1>12. ASSUME pos + count <= limit PROVE moved.bytes_done = count
    <2>1. end = pos + count
      BY <1>2, <1>12 DEF Least
    <2>2. min <= max
      <3>1. pos \div S <= end \div S
        BY <1>2, <2>1, LaterSector
      <3> QED BY <1>1, <1>3, <1>4, <1>5, <3>1, SMTT(30)
    <2>3. chunk \in Nat /\ chunk > 0
      BY <1>1, <1>6, <2>2 DEF Least
    <2>4. turns > 0 /\ turns \in Nat /\ min + turns * chunk >= max + 1
      <3> HIDE DEF min, max, chunk
      <3> QED BY <1>6, <2>2, <2>3, TurnsReach
    <2> DEFINE last1 == min + turns * chunk
               top   == max + 1
    <2>5. last1 \in Nat /\ top \in Nat /\ last1 >= top
      <3>1. turns * chunk \in Nat
        BY <2>3, <2>4
      <3> HIDE DEF turns, chunk, min, max
      <3> QED BY <1>6, <2>4, <3>1
    <2>6. next = last1 * S
      BY <2>4
    <2>7. last1 * S >= top * S
      <3> HIDE DEF last1, top
      <3>1. (last1 - top) * S >= 0
        BY <1>1, <2>5
      <3> QED BY <1>1, <2>5, <3>1
    <2>8. top * S > first * S + end
      <3> DEFINE m == end \div S
                 x == end % S
      <3>1. m \in Nat /\ x \in 0..S - 1 /\ end = m * S + x /\ top = first + m + 1
        BY <1>4, <1>5
      <3> HIDE DEF m, x, top, end
      <3>2. (first + m + 1) * S = first * S + m * S + S
        BY <1>1, <3>1
      <3>3. first * S \in Nat /\ m * S \in Nat
        BY <1>1, <3>1
      <3> QED BY <1>1, <3>1, <3>2, <3>3
    <2>9. next > a + count
      <3>1. next \in Int /\ top * S \in Int /\ next >= top * S
        BY <1>1, <2>5, <2>6, <2>7
      <3> HIDE DEF next, top
      <3> QED BY <1>1, <2>1, <2>8, <3>1
    <2> HIDE DEF moved, next, a
    <2>10. /\ moved.bytes_done \in Nat /\ moved.bytes_left \in Nat
           /\ moved.bytes_done + moved.bytes_left = count
           /\ moved.offset \in 0..S - 1
           /\ moved.bytes_left > 0 => next + moved.offset = a + moved.bytes_done
      BY <1>10 DEF Underway
    <2>11. next \in Int
      BY <1>1, <2>5, <2>6
    <2> QED BY <1>1, <1>2, <2>9, <2>10, <2>11
  <1> HIDE DEF moved, next, a
  <1> QED BY <1>10, <1>11, <1>12 DEF a

-----------------------------------------------------------------------------
(* Requests.                                                               *)

\* The inductive invariant: the sizes on the disk are those in memory, and what
\* the last read or write has been through is inside them.
FileInv ==
    /\ TypeOK /\ saved = size
    /\ answer.type \in {"READ", "WRITE"} =>
          answer.fd \in Fd /\ position[answer.fd] <= saved[inode[answer.fd]]

\* What a read or a write leaves behind.
LEMMA RequestDone ==
    ASSUME TypeOK, NEW d \in Fd, NEW type \in {"READ", "WRITE"}, NEW count \in Counts,
           fs_do_readwrite(d, type, count)
    PROVE  LET a == FirstByte(inode[d]) + position[d]
           IN  /\ answer'.type = type /\ answer'.fd = d
               /\ answer'.pos = position[d] /\ answer'.count = count
               /\ answer'.done \in 0..count
               /\ position[d] + count <=
                     (IF type = "READ" THEN size[inode[d]] ELSE Capacity(inode[d]))
                     => answer'.done = count
               /\ type = "READ" =>
                     answer'.memory = [k \in 1..answer'.done |-> disk[a + k - 1]]
               /\ disk' = IF type = "READ" THEN disk
                          ELSE [o \in Offset |-> IF o - a \in 0..answer'.done - 1
                                                 THEN Data(o - a) ELSE disk[o]]
               /\ position' = [position EXCEPT ![d] = position[d] + answer'.done]
               /\ SetSize(inode[d], position'[d])
  <1> DEFINE a     == FirstByte(inode[d]) + position[d]
             moved == Moves(inode[d], position[d], count, type)
  <1>1. inode[d] \in File /\ position[d] \in Nat /\ count \in Nat
    BY FileSizes DEF TypeOK
  <1>2. /\ \E next : Underway(moved, type, count, a, next)
        /\ position[d] + count <=
              (IF type = "READ" THEN size[inode[d]] ELSE Capacity(inode[d]))
              => moved.bytes_done = count
    BY <1>1, MovesAsAsked
  <1> HIDE DEF a, moved
  <1>3. /\ disk' = moved.disk
        /\ position' = [position EXCEPT ![d] = position[d] + moved.bytes_done]
        /\ SetSize(inode[d], position'[d])
        /\ answer' = [type |-> type, fd |-> d, pos |-> position[d], count |-> count,
                    done |-> moved.bytes_done, memory |-> moved.memory]
    BY DEF fs_do_readwrite, moved
  <1>4. /\ answer'.type = type /\ answer'.fd = d
        /\ answer'.pos = position[d] /\ answer'.count = count
        /\ answer'.done = moved.bytes_done /\ answer'.memory = moved.memory
    BY <1>3
  <1> DEFINE done == answer'.done
  <1>5. done = moved.bytes_done
    BY <1>4
  <1> HIDE DEF done
  <1>6. PICK next : Underway(moved, type, count, a, next)
    BY <1>2
  <1>7. done \in 0..count
    BY <1>1, <1>5, <1>6 DEF Underway
  <1>8. type = "READ" => answer'.memory = [k \in 1..done |-> disk[a + k - 1]]
    BY <1>4, <1>5, <1>6 DEF Underway
  <1>9. disk' = IF type = "READ" THEN disk
                ELSE [o \in Offset |-> IF o - a \in 0..done - 1
                                       THEN Data(o - a) ELSE disk[o]]
    BY <1>3, <1>5, <1>6 DEF Underway
  <1>10. position' = [position EXCEPT ![d] = position[d] + done]
    BY <1>3, <1>5
  <1> QED BY <1>2, <1>3, <1>4, <1>5, <1>7, <1>8, <1>9, <1>10 DEF a, done

LEMMA FileInvInit == ASSUME Init PROVE FileInv
  <1>1. DiskSectors * HD_SECTOR_SIZE \in Nat
    BY FileDataAssumption
  <1>2. \A o \in Offset : o \in Nat
    BY <1>1 DEF Offset
  <1>3. answer.type = "none"
    BY DEF Init, NoRequest
  <1> QED BY <1>2, <1>3, FileSizes DEF Init, FileInv, TypeOK, Byte

LEMMA FileInvNext == ASSUME FileInv, [Next]_vars PROVE FileInv'
  <1>1. CASE UNCHANGED vars
    BY <1>1 DEF FileInv, TypeOK, vars
  <1>3. TypeOK
    BY DEF FileInv
  <1>2. CASE Next
    <2>1. requests \in Nat /\ requests' \in 0..MaxRequests
      BY <1>2, FileSizes DEF FileInv, TypeOK, Next
    <2>2. ASSUME NEW d \in Fd, NEW type \in {"READ", "WRITE"}, NEW count \in Counts,
                 fs_do_readwrite(d, type, count)
          PROVE  FileInv'
      <3> DEFINE a    == FirstByte(inode[d]) + position[d]
                 done == answer'.done
                 pos  == position[d] + done
      <3>1. /\ answer'.type = type /\ answer'.fd = d /\ done \in 0..count
            /\ disk' = IF type = "READ" THEN disk
                       ELSE [o \in Offset |-> IF o - a \in 0..done - 1
                                              THEN Data(o - a) ELSE disk[o]]
            /\ position' = [position EXCEPT ![d] = pos]
            /\ SetSize(inode[d], position'[d])
        BY <1>3, <2>2, RequestDone, ZenonT(40)
      <3>2. inode[d] \in File /\ position[d] \in Nat /\ count \in Nat /\ a \in Nat
        BY FileSizes DEF FileInv, TypeOK
      <3> HIDE DEF a, done
      <3>3. \A o \in Offset : o - a \in 0..done - 1 => Data(o - a) \in Nat
        <4>1. \A i \in Nat : Data(i) \in Nat
          BY <2>1 DEF Data
        <4>2. done \in Nat
          BY <3>1, <3>2
        <4> QED BY <4>1, <4>2
      <3>4. disk' \in [Offset -> Byte]
        BY <3>1, <3>3 DEF FileInv, TypeOK, Byte
      <3>5. pos \in Nat
        BY <3>1, <3>2
      <3> HIDE DEF pos
      <3>6. position' \in [Fd -> Nat] /\ position'[d] = pos
        BY <3>1, <3>5 DEF FileInv, TypeOK
      <3>7. /\ size' \in [File -> Nat] /\ saved' \in [File -> Nat] /\ saved' = size'
            /\ pos <= saved'[inode[d]]
        <4>1. CASE pos > size[inode[d]]
          BY <3>1, <3>2, <3>5, <3>6, <4>1 DEF SetSize, FileInv, TypeOK
        <4>2. CASE ~(pos > size[inode[d]])
          BY <3>1, <3>2, <3>5, <3>6, <4>2 DEF SetSize, FileInv, TypeOK
        <4> QED BY <4>1, <4>2
      <3> QED BY <2>1, <3>1, <3>4, <3>6, <3>7 DEF FileInv, TypeOK
    <2>3. ASSUME NEW d \in Fd, NEW whence \in Whence, NEW off \in Offsets,
                 fs_do_lseek(d, whence, off)
          PROVE  FileInv'
      <3>1. Sought(d, whence, off) \in Nat
        <4>1. off \in Int /\ position[d] \in Nat /\ size[inode[d]] \in Nat
          BY FileSizes DEF FileInv, TypeOK
        <4>2. whence \in {"SET", "CUR", "END", "other"}
          BY DEF Whence
        <4> QED BY <4>1, <4>2 DEF Sought
      <3>2. answer'.type = "LSEEK" /\ position' \in [Fd -> Nat]
        BY <2>3, <3>1 DEF fs_do_lseek, FileInv, TypeOK
      <3> QED BY <2>1, <2>3, <3>2 DEF fs_do_lseek, FileInv, TypeOK
    <2> QED BY <1>2, <2>2, <2>3 DEF Next
  <1> QED BY <1>1, <1>2

\* Whatever is read, written and sought (fd.cpp:219-295), the inductive invariant
\* holds, for disks, files and requests of every size.
THEOREM FileInvariant == Spec => []FileInv
  BY FileInvInit, FileInvNext, PTL DEF Spec

\* What read and write have been through is inside the file, in memory and on the
\* disk (fd.cpp:251-256).
THEOREM PositionsAreSaved == Spec => []ReachedIsSaved
  <1>1. FileInv => ReachedIsSaved
    BY DEF FileInv, ReachedIsSaved
  <1> QED BY <1>1, FileInvariant, PTL

\* A read returns the bytes of the file at its position and a write puts its bytes
\* there, whatever the sizes of sectors and of the buffer (fd.cpp:219-249).
THEOREM RequestsMoveTheirBytes == Spec => MovesWhatWasAsked
  <1> DEFINE end  == answer'.pos + answer'.count
             Does ==
               /\ answer'.type = "READ" /\ end <= size[inode[answer'.fd]] =>
                     /\ answer'.done = answer'.count
                     /\ answer'.memory = [i \in 1..answer'.count |-> disk[AddressOf(i)']]
               /\ answer'.type = "WRITE" /\ end <= Capacity(inode[answer'.fd]) =>
                     /\ answer'.done = answer'.count
                     /\ \A i \in 1..answer'.count : disk'[AddressOf(i)'] = Data(i - 1)
  <1>1. ASSUME FileInv, Next PROVE Does
    <2>0. TypeOK
      BY <1>1 DEF FileInv
    <2>1. ASSUME NEW d \in Fd, NEW type \in {"READ", "WRITE"}, NEW count \in Counts,
                 fs_do_readwrite(d, type, count)
          PROVE  Does
      <3> DEFINE f == inode[d]
                 a == FirstByte(f) + position[d]
      <3>1. /\ answer'.type = type /\ answer'.fd = d
            /\ answer'.pos = position[d] /\ answer'.count = count
            /\ position[d] + count <=
                  (IF type = "READ" THEN size[f] ELSE Capacity(f)) => answer'.done = count
            /\ type = "READ" =>
                  answer'.memory = [k \in 1..answer'.done |-> disk[a + k - 1]]
            /\ disk' = IF type = "READ" THEN disk
                       ELSE [o \in Offset |-> IF o - a \in 0..answer'.done - 1
                                              THEN Data(o - a) ELSE disk[o]]
        BY <2>0, <2>1, RequestDone, ZenonT(40)
      <3>2. f \in File /\ position[d] \in Nat /\ count \in Nat /\ FirstByte(f) \in Nat
            /\ Capacity(f) \in Nat /\ a \in Nat
        BY <1>1, FileSizes DEF FileInv, TypeOK
      <3>3. \A i : AddressOf(i)' = a + i - 1
        BY <3>1 DEF AddressOf
      <3>4. ASSUME type = "READ", position[d] + count <= size[f]
            PROVE  answer'.memory = [i \in 1..count |-> disk[AddressOf(i)']]
        <4>1. answer'.memory = [i \in 1..count |-> disk[a + i - 1]]
          BY <3>1, <3>4
        <4> HIDE DEF a
        <4> QED BY <3>3, <4>1
      <3>5. ASSUME type = "WRITE", position[d] + count <= Capacity(f), NEW i \in 1..count
            PROVE  disk'[AddressOf(i)'] = Data(i - 1)
        <4> DEFINE o == a + i - 1
        <4>1. FirstByte(f) + Capacity(f) <= DiskSectors * HD_SECTOR_SIZE
          <5> DEFINE first == start_sector[f]
                     many  == num_sectors[f]
                     rest  == DiskSectors - first - many
          <5>1. first \in Nat /\ many \in Nat /\ DiskSectors \in Nat /\ HD_SECTOR_SIZE \in Nat
            BY <3>2, FileSizes, FileDataAssumption
          <5>2. first + many + 2 * FS_BUFFER_SECTORS <= DiskSectors
            BY <3>2, FileDataAssumption
          <5>3. rest \in Nat /\ DiskSectors = first + many + rest
            BY <5>1, <5>2, FileSizes
          <5>4. FirstByte(f) = first * HD_SECTOR_SIZE /\ Capacity(f) = many * HD_SECTOR_SIZE
            BY DEF FirstByte, Capacity
          <5> HIDE DEF first, many, rest
          <5>5. /\ (first + many + rest) * HD_SECTOR_SIZE = first * HD_SECTOR_SIZE
                       + many * HD_SECTOR_SIZE + rest * HD_SECTOR_SIZE
                /\ rest * HD_SECTOR_SIZE \in Nat
                /\ first * HD_SECTOR_SIZE \in Nat /\ many * HD_SECTOR_SIZE \in Nat
            BY <5>1, <5>3
          <5> QED BY <5>3, <5>4, <5>5
        <4>2. o \in Offset
          <5> DEFINE all == DiskSectors * HD_SECTOR_SIZE
          <5>1. all \in Nat
            BY FileDataAssumption
          <5> HIDE DEF all, f
          <5>2. o \in 0..all - 1
            BY <3>2, <3>5, <4>1, <5>1 DEF all
          <5> QED BY <5>2 DEF Offset, all
        <4>3. answer'.done = count
          BY <3>1, <3>5
        <4>4. o - a = i - 1 /\ o - a \in 0..count - 1
          <5> HIDE DEF a
          <5> QED BY <3>2
        <4>5. disk' = [x \in Offset |-> IF x - a \in 0..answer'.done - 1
                                        THEN Data(x - a) ELSE disk[x]]
          BY <3>1, <3>5
        <4> HIDE DEF o, a
        <4>6. disk'[o] = Data(i - 1)
          BY <4>2, <4>3, <4>4, <4>5
        <4> QED BY <3>3, <4>6 DEF o
      <3> QED BY <3>1, <3>4, <3>5
    <2>2. ASSUME NEW d \in Fd, NEW whence \in Whence, NEW off \in Offsets,
                 fs_do_lseek(d, whence, off)
          PROVE  Does
      <3>1. answer'.type = "LSEEK"
        BY <2>2 DEF fs_do_lseek
      <3> QED BY <3>1
    <2> HIDE DEF Does
    <2> QED BY <1>1, <2>1, <2>2 DEF Next
  <1>2. ASSUME FileInv, [Next]_vars PROVE [Does]_vars
    BY <1>1, <1>2
  <1> QED BY <1>2, FileInvariant, PTL DEF Spec, MovesWhatWasAsked

\* Only a write changes the disk, and only the bytes that it names, although whole
\* chunks are written back (fd.cpp:232-249).
THEOREM OnlyTheRangeChanges == Spec => ChangesOnlyItsRange
  <1> DEFINE Does == \A o \in Offset : disk'[o] # disk[o] =>
                        /\ answer'.type = "WRITE"
                        /\ o - FirstByte(inode[answer'.fd]) - answer'.pos \in 0..answer'.count - 1
  <1>1. ASSUME FileInv, Next PROVE Does
    <2>0. TypeOK
      BY <1>1 DEF FileInv
    <2>1. ASSUME NEW d \in Fd, NEW type \in {"READ", "WRITE"}, NEW count \in Counts,
                 fs_do_readwrite(d, type, count), NEW o \in Offset, disk'[o] # disk[o]
          PROVE  /\ answer'.type = "WRITE"
                 /\ o - FirstByte(inode[answer'.fd]) - answer'.pos \in 0..answer'.count - 1
      <3> DEFINE first == FirstByte(inode[d])
                 a     == first + position[d]
      <3>1. /\ answer'.type = type /\ answer'.fd = d
            /\ answer'.pos = position[d] /\ answer'.count = count /\ answer'.done \in 0..count
            /\ disk' = IF type = "READ" THEN disk
                       ELSE [x \in Offset |-> IF x - a \in 0..answer'.done - 1
                                              THEN Data(x - a) ELSE disk[x]]
        BY <2>0, <2>1, RequestDone, ZenonT(40)
      <3>2. first \in Nat /\ position[d] \in Nat /\ count \in Nat /\ o \in Int
        BY <1>1, FileSizes DEF FileInv, TypeOK, Offset
      <3>3. type # "READ"
        BY <2>1, <3>1
      <3>4. o - a \in 0..answer'.done - 1
        BY <2>1, <3>1, <3>3
      <3> HIDE DEF first
      <3>5. o - first - position[d] \in 0..count - 1
        BY <3>1, <3>2, <3>4
      <3> QED BY <3>1, <3>3, <3>5 DEF first
    <2>2. ASSUME NEW d \in Fd, NEW whence \in Whence, NEW off \in Offsets,
                 fs_do_lseek(d, whence, off)
          PROVE  disk' = disk
      BY <2>2 DEF fs_do_lseek
    <2> QED BY <1>1, <2>1, <2>2 DEF Next
  <1>2. ASSUME FileInv, [Next]_vars PROVE [Does]_vars
    BY <1>1, <1>2
  <1> QED BY <1>2, FileInvariant, PTL DEF Spec, ChangesOnlyItsRange

-----------------------------------------------------------------------------
(* The loader: arithmetic of sectors, clusters and tables.                 *)

\* How many sectors of a file there is room for.
Space == VALID_SPACE \div BytsPerSec

\* A number is so many times another and a rest.
LEMMA QuotientAndRest ==
    ASSUME NEW x \in Nat, NEW y \in Nat, y > 0
    PROVE  x \div y \in Nat /\ x % y \in 0..y - 1 /\ x = (x \div y) * y + (x % y)
  OBVIOUS

LEMMA LoaderSizes ==
    /\ BytsPerSec \in Nat /\ BytsPerSec > 0 /\ SecPerTrk \in Nat /\ SecPerTrk > 0
    /\ FATSz \in Nat /\ RootDirSectors \in Nat /\ EntriesPerSector \in Nat
    /\ Segment \in Nat /\ Segment > 0 /\ VALID_SPACE \in Nat
    /\ AddressSpace \in Nat /\ AddressSpace > 0 /\ Span \in Nat /\ Span > 0
    /\ PAGE_DIR \in Nat /\ KERNEL_PAGE \in Nat /\ PAGE_DIR < KERNEL_PAGE
    /\ Segment % BytsPerSec = 0 /\ VALID_SPACE % BytsPerSec = 0
    /\ KERNEL_PAGE + Space <= AddressSpace
    /\ PAGE_DIR + 1 + (KERNEL_PAGE + Space) \div Span < KERNEL_PAGE
  <1>1. /\ BytsPerSec \in Nat /\ BytsPerSec > 0 /\ SecPerTrk \in Nat /\ SecPerTrk > 0
        /\ FATSz \in Nat /\ RootDirSectors \in Nat /\ EntriesPerSector \in Nat
        /\ Segment \in Nat /\ Segment > 0 /\ VALID_SPACE \in Nat
        /\ AddressSpace \in Nat /\ AddressSpace > 0 /\ Span \in Nat /\ Span > 0
        /\ PAGE_DIR \in Nat /\ KERNEL_PAGE \in Nat
        /\ Segment % BytsPerSec = 0 /\ VALID_SPACE % BytsPerSec = 0
    BY LoaderAssumption
  <1>2. /\ KERNEL_PAGE + Space <= AddressSpace
        /\ PAGE_DIR + 1 + (KERNEL_PAGE + Space) \div Span < KERNEL_PAGE
    BY LoaderAssumption DEF Space
  <1>3. Space \in Nat
    BY <1>1, QuotientAndRest DEF Space
  <1> DEFINE reach == (KERNEL_PAGE + Space) \div Span
  <1>4. reach \in Nat /\ PAGE_DIR + 1 + reach < KERNEL_PAGE
    BY <1>1, <1>2, <1>3, QuotientAndRest
  <1> HIDE DEF reach
  <1>5. PAGE_DIR < KERNEL_PAGE
    BY <1>1, <1>4
  <1> QED BY <1>1, <1>2, <1>5

LEMMA OneQuotient ==
    ASSUME NEW y \in Nat, NEW m \in Nat, NEW n \in Nat, NEW s \in 0..y - 1, NEW t \in 0..y - 1,
           m * y + s <= n * y + t
    PROVE  m <= n
  <1>1. SUFFICES ASSUME n < m PROVE FALSE
    OBVIOUS
  <1>2. (m - n - 1) * y >= 0
    BY <1>1
  <1>3. (m - n - 1) * y = m * y - n * y - y /\ m * y \in Nat /\ n * y \in Nat
    OBVIOUS
  <1> QED BY <1>2, <1>3

LEMMA QuotientOfProduct ==
    ASSUME NEW y \in Nat, y > 0, NEW k \in Nat
    PROVE  (k * y) \div y = k
  <1> DEFINE m == (k * y) \div y
             r == (k * y) % y
  <1>1. k * y \in Nat
    OBVIOUS
  <1>2. m \in Nat /\ r \in 0..y - 1 /\ k * y = m * y + r
    BY <1>1, QuotientAndRest
  <1> HIDE DEF m, r
  <1>3. m * y \in Nat /\ 0 \in 0..y - 1 /\ m * y + r <= k * y + 0 /\ k * y + 0 <= m * y + r
    BY <1>1, <1>2
  <1>4. m <= k /\ k <= m
    BY <1>2, <1>3, OneQuotient
  <1> QED BY <1>2, <1>4 DEF m

\* int 13h finds the sector that is asked for.
LEMMA SectorIsRead ==
    ASSUME NEW x \in Nat
    PROVE  ReadSector(x) = x
  <1> DEFINE track == x \div SecPerTrk
             rest  == x % SecPerTrk
  <1>1. SecPerTrk \in Nat /\ track \in Nat /\ rest \in Nat /\ x = track * SecPerTrk + rest
    BY LoaderSizes, QuotientAndRest
  <1>2. ReadSector(x) = ((track \div 2) * 2 + (track % 2)) * SecPerTrk + (rest + 1) - 1
    BY DEF ReadSector, SectorAt
  <1> HIDE DEF track, rest
  <1>3. (track \div 2) * 2 + (track % 2) = track
    BY <1>1
  <1>4. ReadSector(x) = track * SecPerTrk + (rest + 1) - 1
    BY <1>2, <1>3
  <1>5. track * SecPerTrk \in Nat
    BY <1>1
  <1> QED BY <1>1, <1>4, <1>5

\* What is in the FAT, what of it stands for sectors, and the files there may be.
Number  == 0..END_OF_CHAIN
Cluster == 2..END_OF_CHAIN - 1
Chains(c) == c # <<>> /\ c \in Seq(Cluster) /\ IsInjective(c)

LEMMA ClusterIs ==
    /\ \A x \in Cluster : x \in Number /\ x \in Nat /\ x # 0 /\ x # 1 /\ x # END_OF_CHAIN
    /\ 0 \in Number /\ 4080 \in Number /\ END_OF_CHAIN \in Number
  <1>1. END_OF_CHAIN \in Int /\ END_OF_CHAIN > 4079
    BY DEF END_OF_CHAIN
  <1>2. \A e \in Int : e > 4079 =>
           /\ \A x \in 2..e - 1 : x \in 0..e /\ x \in Nat /\ x # 0 /\ x # 1 /\ x # e
           /\ 0 \in 0..e /\ 4080 \in 0..e /\ e \in 0..e
    OBVIOUS
  <1> QED BY <1>1, <1>2 DEF Cluster, Number

LEMMA ChainIs ==
    ASSUME NEW c, Chains(c)
    PROVE  /\ Len(c) \in Nat /\ Len(c) > 0 /\ DOMAIN c = 1..Len(c)
           /\ \A i \in 1..Len(c) : c[i] \in Cluster
           /\ \A i, j \in 1..Len(c) : c[i] = c[j] => i = j
  <1>1. Len(c) \in Nat /\ Len(c) > 0 /\ DOMAIN c = 1..Len(c)
    BY DEF Chains
  <1>2. \A i \in 1..Len(c) : c[i] \in Cluster
    BY DEF Chains
  <1>3. \A i, j \in 1..Len(c) : c[i] = c[j] => i = j
    BY <1>1 DEF Chains, IsInjective
  <1> QED BY <1>1, <1>2, <1>3

\* A number of the FAT is the next cluster of the file, or its end.
LEMMA FatNext ==
    ASSUME Chains(floppy.chain), NEW i \in 1..Len(floppy.chain)
    PROVE  Fat(floppy.chain[i]) =
              IF i = Len(floppy.chain) THEN END_OF_CHAIN ELSE floppy.chain[i + 1]
  <1> DEFINE c == floppy.chain
  <1>0. Chains(c) /\ i \in 1..Len(c)
    OBVIOUS
  <1> HIDE DEF c
  <1>1. /\ Len(c) \in Nat /\ Len(c) > 0 /\ DOMAIN c = 1..Len(c)
        /\ \A j \in 1..Len(c) : c[j] \in Cluster
        /\ \A j, k \in 1..Len(c) : c[j] = c[k] => j = k
    BY <1>0, ChainIs
  <1>2. Contains(c, c[i])
    BY <1>0 DEF Contains
  <1>4. c[i] # 0 /\ c[i] # 1
    <2>1. c[i] \in Cluster
      BY <1>0, <1>1
    <2> QED BY <2>1, ClusterIs
  <1>3. (CHOOSE j \in DOMAIN c : c[j] = c[i]) = i
    BY <1>0, <1>1
  <1> DEFINE k == CHOOSE j \in DOMAIN c : c[j] = c[i]
             n == c[i]
  <1>5. Fat(n) = CASE n = 0 -> 4080
                   [] n = 1 -> END_OF_CHAIN
                   [] Contains(c, n) -> IF k = Len(c) THEN END_OF_CHAIN ELSE c[k + 1]
                   [] OTHER -> 0
    BY DEF Fat, c
  <1>6. k = i
    BY <1>3
  <1> HIDE DEF k, n
  <1>7. n # 0 /\ n # 1 /\ Contains(c, n)
    BY <1>2, <1>4 DEF n
  <1> QED BY <1>5, <1>6, <1>7 DEF n, c

LEMMA FatFits ==
    ASSUME Chains(floppy.chain), NEW n \in Nat
    PROVE  Fat(n) \in Number
  <1> DEFINE c == floppy.chain
  <1>5. Chains(c)
    OBVIOUS
  <1>0. Len(c) \in Nat /\ \A j \in 1..Len(c) : c[j] \in Cluster
    <2> HIDE DEF c
    <2> QED BY <1>5, ChainIs
  <1>6. ~Contains(c, 0) /\ ~Contains(c, 1)
    <2> HIDE DEF c
    <2>1. \A j \in 1..Len(c) : c[j] # 0 /\ c[j] # 1
      <3> TAKE j \in 1..Len(c)
      <3>1. c[j] \in Cluster
        BY <1>0
      <3> QED BY <3>1, ClusterIs
    <2> QED BY <2>1 DEF Contains
  <1>1. CASE n = 0
    BY <1>1, <1>6, ClusterIs DEF Fat
  <1>2. CASE n = 1
    BY <1>2, <1>6, ClusterIs DEF Fat
  <1>3. CASE n # 0 /\ n # 1 /\ Contains(c, n)
    <2>1. PICK i \in 1..Len(c) : c[i] = n
      BY <1>3 DEF Contains
    <2>3. i # Len(c) => i + 1 \in 1..Len(c)
      BY <1>0
    <2>4. Fat(n) = IF i = Len(c) THEN END_OF_CHAIN ELSE c[i + 1]
      BY <2>1, FatNext
    <2> HIDE DEF c
    <2> QED BY <1>0, <2>1, <2>3, <2>4, ClusterIs
  <1>4. CASE n # 0 /\ n # 1 /\ ~Contains(c, n)
    BY <1>4, ClusterIs DEF Fat
  <1> QED BY <1>1, <1>2, <1>3, <1>4

\* What is unpacked of the two sectors of the FAT is the number of the cluster,
\* whether its bytes are in one sector or in two.
LEMMA FatEntryIsRead ==
    ASSUME Chains(floppy.chain), DOMAIN fatbuf = 0..2 * BytsPerSec - 1, NEW n \in Nat
    PROVE  GetFATEntry(n) = Fat(n)
  <1> DEFINE offset == (n * 3) \div 2
             at16   == offset % BytsPerSec
             sector == offset \div BytsPerSec
             b      == ReadsFat(offset)
  <1>1. /\ BytsPerSec \in Nat /\ BytsPerSec > 0 /\ offset \in Nat
        /\ sector \in Nat /\ at16 \in 0..BytsPerSec - 1 /\ offset = sector * BytsPerSec + at16
    BY LoaderSizes, QuotientAndRest
  <1>2. ReadSector(SectorNoOfFAT1 + sector) - SectorNoOfFAT1 = sector
    <2>1. 1 + sector \in Nat
      BY <1>1
    <2>2. ReadSector(1 + sector) = 1 + sector
      BY <2>1, SectorIsRead
    <2> HIDE DEF sector
    <2> QED BY <1>1, <2>2 DEF SectorNoOfFAT1
  <1>3. b = [i \in DOMAIN fatbuf |-> FatByte(sector * BytsPerSec + i)]
    BY <1>2 DEF ReadsFat
  <1> HIDE DEF sector, b, at16
  <1>4. at16 \in DOMAIN fatbuf /\ at16 + 1 \in DOMAIN fatbuf
    BY <1>1
  <1>5. b[at16] = FatByte(offset) /\ b[at16 + 1] = FatByte(offset + 1)
    <2>1. sector * BytsPerSec \in Nat
      BY <1>1
    <2>2. /\ sector * BytsPerSec + at16 = offset
          /\ sector * BytsPerSec + (at16 + 1) = offset + 1
      BY <1>1, <2>1
    <2> QED BY <1>3, <1>4, <2>2
  <1> DEFINE word == FatByte(offset) + 256 * FatByte(offset + 1)
             odd  == (n * 3) % 2 = 1
  <1>6. GetFATEntry(n) = (IF odd THEN word \div 16 ELSE word) % 4096
    BY <1>5 DEF GetFATEntry, b, at16
  <1> HIDE DEF offset, word
  <1> DEFINE h == n \div 2
             x == Fat(2 * h)
             y == Fat(2 * h + 1)
  <1>7. h \in Nat /\ 2 * h \in Nat /\ 2 * h + 1 \in Nat /\ (n = 2 * h \/ n = 2 * h + 1)
    OBVIOUS
  <1>8. x \in 0..4095 /\ y \in 0..4095
    <2> HIDE DEF h
    <2>1. x \in Number /\ y \in Number
      BY <1>7, FatFits
    <2> HIDE DEF x, y
    <2> QED BY <2>1 DEF Number, END_OF_CHAIN
  <1> HIDE DEF x, y, h
  <1>9. /\ FatByte(3 * h) = (x % 256)
        /\ FatByte(3 * h + 1) = x \div 256 + (y % 16) * 16
        /\ FatByte(3 * h + 2) = y \div 16
    <2>1. /\ (3 * h) \div 3 = h /\ (3 * h + 1) \div 3 = h /\ (3 * h + 2) \div 3 = h
          /\ (3 * h) % 3 = 0 /\ (3 * h + 1) % 3 = 1 /\ (3 * h + 2) % 3 = 2
      BY <1>7
    <2> QED BY <2>1 DEF FatByte, x, y
  <1>10. CASE n = 2 * h
    <2>1. offset = 3 * h /\ ~odd
      BY <1>7, <1>10 DEF offset
    <2>2. word = (x % 256) + 256 * (x \div 256 + (y % 16) * 16)
      BY <1>9, <2>1 DEF word
    <2>3. word % 4096 = x
      BY <1>8, <2>2
    <2> QED BY <1>6, <1>10, <2>1, <2>3 DEF x
  <1>11. CASE n = 2 * h + 1
    <2>1. offset = 3 * h + 1 /\ odd /\ offset + 1 = 3 * h + 2
      BY <1>7, <1>11 DEF offset
    <2>2. word = x \div 256 + (y % 16) * 16 + 256 * (y \div 16)
      BY <1>9, <2>1 DEF word
    <2>3. (word \div 16) % 4096 = y
      BY <1>8, <2>2
    <2> QED BY <1>6, <1>11, <2>1, <2>3 DEF y
  <1> QED BY <1>7, <1>10, <1>11

\* The highest of the numbers below a bound.
LEMMA HighestIsOne ==
    ASSUME NEW top \in Nat, NEW A \in SUBSET (0..top), A # {}
    PROVE  Max(A) \in A
  <1> DEFINE B == {top - x : x \in A}
  <1>1. B \in SUBSET Nat /\ B # {}
    <2>1. \A x \in A : top - x \in Nat
      OBVIOUS
    <2> QED BY <2>1
  <1>2. PICK m \in B : \A k \in B : m <= k
    <2> HIDE DEF B
    <2> QED BY <1>1, LeastNumber
  <1>3. PICK x \in A : m = top - x
    BY <1>2
  <1>4. \A y \in A : x >= y
    <2> TAKE y \in A
    <2>1. m <= top - y
      BY <1>2
    <2> QED BY <1>3, <2>1
  <1> QED BY <1>3, <1>4 DEF Max
-----------------------------------------------------------------------------
(* The loader: the inductive invariant.                                    *)

\* What the floppy, the map of memory and the memory always are.
MemoryRange == [base : Nat, length : Nat, type : Nat]
Name  == {"KERNEL  BIN", "other"}

FloppyIs ==
    /\ Chains(floppy.chain)
    /\ DOMAIN floppy.name = 0..Entries - 1
    /\ \A i \in 0..Entries - 1 : floppy.name[i] \in Name
    /\ \E rest \in 0..BytsPerSec - 1 :
          floppy.size = Len(floppy.chain) * BytsPerSec - rest

RangesAre ==
    /\ e820.map \in Seq(MemoryRange) /\ (e820.map = <<>> => e820.fails)
    /\ MCRNumber \in 0..Len(e820.map)
    /\ booting # "memory" => (MCRNumber = 0 => e820.fails)

MemoryIs ==
    /\ DOMAIN fatbuf = 0..2 * BytsPerSec - 1
    /\ DOMAIN file = 0..Space /\ file[Space] = TheLoader
    /\ DOMAIN pages = 0..AddressSpace - 1
    /\ dwMemSize \in Nat

\* The name is not in the sectors of the root directory that are done.
SearchInStep ==
    /\ booting \in {"memory", "search"} => es = 0 /\ bx = 0
    /\ booting = "memory" => wRootDirSizeForLoop = RootDirSectors
    /\ booting = "search" =>
          /\ wRootDirSizeForLoop \in 0..RootDirSectors
          /\ wSectorNo = SectorNoOfRootDirectory + RootDirSectors - wRootDirSizeForLoop
          /\ \A i \in 0..(RootDirSectors - wRootDirSizeForLoop) * EntriesPerSector - 1 :
                floppy.name[i] = "other"

FileLoaded(n) == \A u \in 0..n - 1 : file[u] = OfFile(DataSector(u))

\* es and bx are the place of the unit k, behind the sectors before it.
PlaceOf(k) ==
    /\ es \in Nat /\ es + bx = k * BytsPerSec
    /\ \E m \in 0..(Segment \div BytsPerSec) - 1 : bx = m * BytsPerSec

\* The units that were loaded are in their places.
LoadInStep ==
    /\ booting = "loading" =>
          /\ Len(floppy.chain) <= Space
          /\ \E k \in 0..Len(floppy.chain) - 1 :
                cluster = floppy.chain[k + 1] /\ PlaceOf(k) /\ FileLoaded(k)
    /\ booting \in {"loaded", "paging", "init"} =>
          Len(floppy.chain) <= Space /\ FileLoaded(Len(floppy.chain))

\* Memory is free until the tables are set up in it.
PagesInStep ==
    /\ booting \in {"memory", "search", "loading", "loaded", "paging"} =>
          \A p \in 0..AddressSpace - 1 : pages[p] = Free
    /\ booting = "init" =>
          /\ \A p \in 0..PAGE_DIR - 1 : pages[p] = Free
          /\ \A t \in 0..Tables - 1 :
                PAGE_DIR + 1 + t < AddressSpace /\ PAGE_DIR + 1 + t < dwMemSize
                   => pages[PAGE_DIR + 1 + t] = Table(t)

\* The inductive invariant.
LoaderInv ==
    FloppyIs /\ RangesAre /\ MemoryIs /\ SearchInStep /\ LoadInStep /\ PagesInStep /\ KernelStarts

LEMMA LoaderInvInit == ASSUME LoaderInit PROVE LoaderInv
  <1>1. PICK c \in Chain, rest \in 0..BytsPerSec - 1, n \in 0..Entries :
          floppy = [name  |-> [i \in 0..Entries - 1 |-> IF i = n THEN "KERNEL  BIN" ELSE "other"],
                    size  |-> Len(c) * BytsPerSec - rest,
                    chain |-> c]
    BY DEF LoaderInit
  <1>2. FloppyIs
    <2>1. Chains(c)
      BY LoaderAssumption DEF Chains, Cluster
    <2>2. /\ floppy.chain = c /\ floppy.size = Len(c) * BytsPerSec - rest
          /\ floppy.name = [i \in 0..Entries - 1 |-> IF i = n THEN "KERNEL  BIN" ELSE "other"]
      BY <1>1
    <2>3. /\ DOMAIN floppy.name = 0..Entries - 1
          /\ \A i \in 0..Entries - 1 : floppy.name[i] \in Name
      BY <2>2 DEF Name
    <2> QED BY <2>1, <2>2, <2>3 DEF FloppyIs
  <1>3. booting = "memory"
    BY DEF LoaderInit
  <1>4. RangesAre
    <2>1. e820.map \in MemMap /\ (e820.map = <<>> => e820.fails) /\ MCRNumber = 0
      BY DEF LoaderInit
    <2>2. e820.map \in Seq(MemoryRange)
      BY <2>1, LoaderAssumption DEF MemoryRange
    <2>3. 0 \in 0..Len(e820.map)
      BY <2>2
    <2> QED BY <1>3, <2>1, <2>2, <2>3 DEF RangesAre
  <1>5. MemoryIs
    <2>1. Space \in Nat /\ Space * BytsPerSec = VALID_SPACE
      <3>1. VALID_SPACE = (VALID_SPACE \div BytsPerSec) * BytsPerSec
                             + (VALID_SPACE % BytsPerSec)
        BY LoaderSizes, QuotientAndRest
      <3>2. Space \in Nat
        BY LoaderSizes, QuotientAndRest DEF Space
      <3> QED BY <3>1, <3>2, LoaderSizes DEF Space
    <2>2. file = [s \in 0..Space |-> IF s * BytsPerSec = VALID_SPACE THEN TheLoader ELSE Free]
      BY DEF LoaderInit, Space
    <2>3. DOMAIN file = 0..Space /\ file[Space] = TheLoader
      BY <2>1, <2>2
    <2>4. /\ DOMAIN fatbuf = 0..2 * BytsPerSec - 1 /\ DOMAIN pages = 0..AddressSpace - 1
          /\ dwMemSize \in Nat
      BY DEF LoaderInit
    <2> QED BY <2>3, <2>4 DEF MemoryIs
  <1>6. SearchInStep /\ LoadInStep
    BY <1>3 DEF LoaderInit, SearchInStep, LoadInStep
  <1>7. PagesInStep
    BY <1>3 DEF LoaderInit, PagesInStep
  <1>8. KernelStarts
    BY <1>3, <1>5 DEF KernelStarts, MemoryIs, Space
  <1> QED BY <1>2, <1>4, <1>5, <1>6, <1>7, <1>8 DEF LoaderInv

LEMMA FloppyStays == ASSUME FloppyIs, floppy' = floppy PROVE FloppyIs'
  BY DEF FloppyIs

LEMMA FileStays ==
    ASSUME floppy' = floppy, file' = file, NEW n
    PROVE  FileLoaded(n)' <=> FileLoaded(n)
  BY DEF FileLoaded, DataSector

LEMMA MemChkLoopKeeps == ASSUME LoaderInv, MemChkLoop PROVE LoaderInv'
  <1>1. /\ floppy' = floppy /\ e820' = e820 /\ fatbuf' = fatbuf /\ file' = file /\ pages' = pages
        /\ dwMemSize' = dwMemSize /\ wRootDirSizeForLoop' = wRootDirSizeForLoop
        /\ es' = es /\ bx' = bx /\ booting = "memory"
    BY DEF MemChkLoop, pageVars
  <1>2. FloppyIs' /\ MemoryIs'
    BY <1>1, FloppyStays DEF LoaderInv, MemoryIs
  <1>3. Len(e820.map) \in Nat /\ MCRNumber \in 0..Len(e820.map)
        /\ (Len(e820.map) = 0 => e820.fails)
    BY DEF LoaderInv, RangesAre
  <1>4. \/ booting' = "memory" /\ MCRNumber < Len(e820.map) /\ MCRNumber' = MCRNumber + 1
        \/ /\ booting' = "search" /\ wSectorNo' = SectorNoOfRootDirectory
           /\ MCRNumber' = IF e820.fails THEN 0 ELSE Len(e820.map)
    BY <1>1, <1>3 DEF MemChkLoop
  <1>5. RangesAre'
    BY <1>1, <1>3, <1>4 DEF LoaderInv, RangesAre
  <1>6. SearchInStep'
    <2>1. CASE booting' = "memory"
      BY <1>1, <2>1 DEF LoaderInv, SearchInStep
    <2>2. CASE booting' = "search"
      <3>1. wRootDirSizeForLoop' = RootDirSectors /\ es' = 0 /\ bx' = 0
        BY <1>1 DEF LoaderInv, SearchInStep
      <3>2. wSectorNo' = SectorNoOfRootDirectory
        BY <1>4, <2>2
      <3>3. RootDirSectors \in Nat /\ RootDirSectors - RootDirSectors = 0
            /\ 0 * EntriesPerSector = 0 /\ SectorNoOfRootDirectory \in Nat
        BY LoaderSizes DEF SectorNoOfRootDirectory
      <3> QED BY <2>2, <3>1, <3>2, <3>3 DEF SearchInStep
    <2> QED BY <1>4, <2>1, <2>2
  <1>7. LoadInStep'
    BY <1>4 DEF LoadInStep
  <1>8. PagesInStep'
    BY <1>1, <1>4 DEF LoaderInv, PagesInStep
  <1>9. KernelStarts'
    BY <1>1, <1>4 DEF LoaderInv, KernelStarts
  <1> QED BY <1>2, <1>5, <1>6, <1>7, <1>8, <1>9 DEF LoaderInv

LEMMA NextSectorKeeps == ASSUME LoaderInv, GotoNextSectorInRootDir PROVE LoaderInv'
  <1>1. /\ floppy' = floppy /\ e820' = e820 /\ fatbuf' = fatbuf /\ file' = file /\ pages' = pages
        /\ dwMemSize' = dwMemSize /\ es' = es /\ bx' = bx /\ MCRNumber' = MCRNumber
        /\ booting = "search" /\ booting' = "search"
        /\ wRootDirSizeForLoop > 0 /\ FilenameFound = {}
        /\ wRootDirSizeForLoop' = wRootDirSizeForLoop - 1 /\ wSectorNo' = wSectorNo + 1
    BY DEF GotoNextSectorInRootDir, pageVars
  <1>2. FloppyIs' /\ MemoryIs' /\ RangesAre'
    BY <1>1, FloppyStays DEF LoaderInv, MemoryIs, RangesAre
  <1>3. SearchInStep'
    <2> DEFINE done  == RootDirSectors - wRootDirSizeForLoop
               first == done * EntriesPerSector
               all   == RootDirSectors * EntriesPerSector
    <2>1. /\ RootDirSectors \in Nat /\ EntriesPerSector \in Nat
          /\ SectorNoOfRootDirectory \in Nat /\ wRootDirSizeForLoop \in 0..RootDirSectors
          /\ wSectorNo = SectorNoOfRootDirectory + RootDirSectors - wRootDirSizeForLoop
          /\ \A i \in 0..first - 1 : floppy.name[i] = "other"
      BY <1>1, LoaderSizes DEF LoaderInv, SearchInStep, SectorNoOfRootDirectory
    <2>2. done \in Nat /\ wSectorNo = SectorNoOfRootDirectory + done
      BY <2>1
    <2>3. ReadSector(wSectorNo) - SectorNoOfRootDirectory = done
      <3>1. ReadSector(wSectorNo) = wSectorNo
        BY <2>1, <2>2, SectorIsRead
      <3> HIDE DEF done
      <3> QED BY <2>1, <2>2, <3>1
    <2>4. \A i \in first..first + EntriesPerSector - 1 : floppy.name[i] # "KERNEL  BIN"
      <3> HIDE DEF done
      <3> QED BY <1>1, <2>3 DEF FilenameFound
    <2>5. first \in Nat /\ all \in Nat /\ first + EntriesPerSector <= all
      <3>1. (RootDirSectors - done - 1) * EntriesPerSector >= 0
        BY <1>1, <2>1
      <3>2. (RootDirSectors - done - 1) * EntriesPerSector = all - first - EntriesPerSector
        BY <2>1, <2>2
      <3>3. first \in Nat /\ all \in Nat
        BY <2>1, <2>2
      <3> HIDE DEF first, all
      <3> QED BY <2>1, <3>1, <3>2, <3>3
    <2>6. \A i \in 0..all - 1 : floppy.name[i] \in Name
      BY DEF LoaderInv, FloppyIs, Entries
    <2>7. (RootDirSectors - wRootDirSizeForLoop') * EntriesPerSector = first + EntriesPerSector
      <3>1. RootDirSectors - wRootDirSizeForLoop' = done + 1
        BY <1>1, <2>1
      <3>2. (done + 1) * EntriesPerSector = done * EntriesPerSector + EntriesPerSector
        BY <2>1, <2>2
      <3> QED BY <3>1, <3>2
    <2>8. ASSUME NEW i \in 0..first + EntriesPerSector - 1
          PROVE  floppy.name[i] = "other"
      <3>1. i \in 0..first - 1 \/ i \in first..first + EntriesPerSector - 1
        <4> HIDE DEF first
        <4> QED BY <2>1, <2>5
      <3>2. i \in 0..all - 1
        <4> HIDE DEF first, all
        <4> QED BY <2>1, <2>5
      <3> HIDE DEF first, all
      <3> QED BY <2>1, <2>4, <2>6, <3>1, <3>2 DEF Name
    <2>9. /\ wRootDirSizeForLoop' \in 0..RootDirSectors
          /\ wSectorNo' = SectorNoOfRootDirectory + RootDirSectors - wRootDirSizeForLoop'
      BY <1>1, <2>1
    <2>10. es' = 0 /\ bx' = 0
      BY <1>1 DEF LoaderInv, SearchInStep
    <2>11. \A i \in 0..(RootDirSectors - wRootDirSizeForLoop') * EntriesPerSector - 1 :
              floppy'.name[i] = "other"
      <3> DEFINE next == (RootDirSectors - wRootDirSizeForLoop') * EntriesPerSector
      <3> HIDE DEF next, first
      <3>1. \A i \in 0..next - 1 : floppy.name[i] = "other"
        <4>1. next = first + EntriesPerSector
          BY <2>7 DEF next
        <4>2. next - 1 = first + EntriesPerSector - 1
          BY <2>1, <2>5, <4>1
        <4> QED BY <2>8, <4>2
      <3> QED BY <1>1, <3>1 DEF next
    <2> QED BY <1>1, <2>9, <2>10, <2>11 DEF SearchInStep
  <1>4. LoadInStep'
    BY <1>1 DEF LoadInStep
  <1>5. PagesInStep'
    BY <1>1 DEF LoaderInv, PagesInStep
  <1>6. KernelStarts'
    BY <1>1 DEF LoaderInv, KernelStarts
  <1> QED BY <1>2, <1>3, <1>4, <1>5, <1>6 DEF LoaderInv

LEMMA NoKernelKeeps == ASSUME LoaderInv, NoKernel PROVE LoaderInv'
  <1>1. /\ floppy' = floppy /\ e820' = e820 /\ fatbuf' = fatbuf /\ file' = file /\ pages' = pages
        /\ dwMemSize' = dwMemSize /\ MCRNumber' = MCRNumber
        /\ booting = "search" /\ booting' = "No KERNEL" /\ wRootDirSizeForLoop = 0
    BY DEF NoKernel, pageVars, diskVars
  <1>2. FloppyIs' /\ MemoryIs' /\ RangesAre'
    BY <1>1, FloppyStays DEF LoaderInv, MemoryIs, RangesAre
  <1>3. \A i \in DOMAIN floppy.name : floppy.name[i] = "other"
    <2>1. DOMAIN floppy.name = 0..RootDirSectors * EntriesPerSector - 1
      BY DEF LoaderInv, FloppyIs, Entries
    <2>2. RootDirSectors - 0 = RootDirSectors
      BY LoaderSizes
    <2>3. \A i \in 0..RootDirSectors * EntriesPerSector - 1 : floppy.name[i] = "other"
      BY <1>1, <2>2 DEF LoaderInv, SearchInStep
    <2> QED BY <2>1, <2>3
  <1>4. SearchInStep' /\ LoadInStep' /\ PagesInStep'
    BY <1>1 DEF SearchInStep, LoadInStep, PagesInStep
  <1>5. KernelStarts'
    BY <1>1, <1>3 DEF LoaderInv, KernelStarts
  <1> QED BY <1>2, <1>4, <1>5 DEF LoaderInv

LEMMA StartsLoadingKeeps == ASSUME LoaderInv, StartsLoading PROVE LoaderInv'
  <1> DEFINE c == floppy.chain
  <1>1. /\ floppy' = floppy /\ e820' = e820 /\ fatbuf' = fatbuf /\ file' = file /\ pages' = pages
        /\ dwMemSize' = dwMemSize /\ es' = es /\ bx' = bx /\ MCRNumber' = MCRNumber
        /\ booting = "search"
        /\ booting' = IF FitsInSpace THEN "loading" ELSE "Too Large"
        /\ cluster' = IF FitsInSpace THEN Head(c) ELSE cluster
    BY DEF StartsLoading, pageVars
  <1>2. FloppyIs' /\ MemoryIs' /\ RangesAre'
    BY <1>1, FloppyStays DEF LoaderInv, MemoryIs, RangesAre
  <1>3. SearchInStep'
    BY <1>1 DEF SearchInStep
  <1>4. LoadInStep'
    <2>1. CASE ~FitsInSpace
      BY <1>1, <2>1 DEF LoadInStep
    <2>2. CASE FitsInSpace
      <3>1. PICK rest \in 0..BytsPerSec - 1 : floppy.size = Len(c) * BytsPerSec - rest
        BY DEF LoaderInv, FloppyIs
      <3>2. Chains(c)
        BY DEF LoaderInv, FloppyIs
      <3>3. Len(c) \in Nat /\ Len(c) > 0 /\ c[1] = Head(c)
        <4> HIDE DEF c
        <4>1. Len(c) \in Nat /\ Len(c) > 0
          BY <3>2, ChainIs
        <4>2. c \in Seq(Cluster) /\ c # <<>>
          BY <3>2 DEF Chains
        <4> QED BY <4>1, <4>2
      <3>4. Space \in Nat /\ VALID_SPACE = Space * BytsPerSec
        <4>1. VALID_SPACE = Space * BytsPerSec + (VALID_SPACE % BytsPerSec) /\ Space \in Nat
          BY LoaderSizes, QuotientAndRest DEF Space
        <4>2. Space * BytsPerSec \in Nat
          BY <4>1, LoaderSizes
        <4> QED BY <4>1, <4>2, LoaderSizes
      <3>5. Len(c) <= Space
        <4> DEFINE L == Len(c)
        <4> HIDE DEF L
        <4>1. L \in Nat /\ L * BytsPerSec - rest <= Space * BytsPerSec
          BY <2>2, <3>1, <3>3, <3>4 DEF FitsInSpace, L
        <4>2. L * BytsPerSec \in Nat /\ Space * BytsPerSec \in Nat /\ BytsPerSec \in Nat
              /\ BytsPerSec > 0
          BY <3>4, <4>1, LoaderSizes
        <4>3. L * BytsPerSec + 0 <= Space * BytsPerSec + rest
          BY <4>1, <4>2
        <4> QED BY <3>4, <4>1, <4>2, <4>3, OneQuotient DEF L
      <3>6. PlaceOf(0)'
        <4>1. es' = 0 /\ bx' = 0
          BY <1>1 DEF LoaderInv, SearchInStep
        <4>2. BytsPerSec \in Nat /\ 0 * BytsPerSec = 0
          BY LoaderSizes
        <4>3. (Segment \div BytsPerSec) - 1 >= 0
          <5> DEFINE q == Segment \div BytsPerSec
          <5>1. q \in Nat /\ Segment = q * BytsPerSec + (Segment % BytsPerSec)
            BY LoaderSizes, QuotientAndRest
          <5> HIDE DEF q
          <5>2. q # 0
            BY <4>2, <5>1, LoaderSizes
          <5> QED BY <5>1, <5>2 DEF q
        <4>4. (Segment \div BytsPerSec) \in Nat
          BY LoaderSizes, QuotientAndRest
        <4> DEFINE q == Segment \div BytsPerSec
        <4> HIDE DEF q
        <4>5. 0 \in 0..q - 1
          BY <4>3, <4>4 DEF q
        <4> QED BY <4>1, <4>2, <4>5 DEF PlaceOf, q
      <3>7. FileLoaded(0)'
        BY DEF FileLoaded
      <3>8. booting' = "loading" /\ cluster' = c[1]
        BY <1>1, <2>2, <3>3
      <3>9. 0 \in 0..Len(c) - 1
        BY <3>3
      <3>10. cluster' = c[0 + 1]
        BY <3>8
      <3>11. \E k \in 0..Len(c) - 1 : cluster' = c[k + 1] /\ PlaceOf(k)' /\ FileLoaded(k)'
        <4> HIDE DEF c
        <4> QED BY <3>6, <3>7, <3>9, <3>10
      <3> QED BY <1>1, <3>5, <3>8, <3>11 DEF LoadInStep
    <2> QED BY <2>1, <2>2
  <1>5. PagesInStep'
    BY <1>1 DEF LoaderInv, PagesInStep
  <1>6. KernelStarts'
    <2>1. ~FitsInSpace => floppy.size > VALID_SPACE
      <3>1. PICK rest \in 0..BytsPerSec - 1 : floppy.size = Len(c) * BytsPerSec - rest
        BY DEF LoaderInv, FloppyIs
      <3>2. Chains(c)
        BY DEF LoaderInv, FloppyIs
      <3>3. Len(c) \in Nat
        <4> HIDE DEF c
        <4> QED BY <3>2, ChainIs
      <3>4. floppy.size \in Int
        <4>1. Len(c) * BytsPerSec \in Nat
          BY <3>3, LoaderSizes
        <4> HIDE DEF c
        <4> QED BY <3>1, <4>1, LoaderSizes
      <3> QED BY <3>4, LoaderSizes DEF FitsInSpace
    <2> QED BY <1>1, <2>1 DEF LoaderInv, KernelStarts
  <1> QED BY <1>2, <1>3, <1>4, <1>5, <1>6 DEF LoaderInv

\* The next sector goes behind the one before, in the next segment when bx begins again.
LEMMA PlaceGoesOn ==
    ASSUME NEW k \in Nat, PlaceOf(k),
           bx' = (bx + BytsPerSec) % Segment, es' = NextSegment
    PROVE  PlaceOf(k + 1)'
  <1> DEFINE B == BytsPerSec
             q == Segment \div B
  <1>1. B \in Nat /\ B > 0 /\ q \in Nat /\ Segment \in Nat /\ Segment > 0
    BY LoaderSizes, QuotientAndRest
  <1>2. Segment = q * B
    <2>1. Segment = q * B + (Segment % B) /\ Segment % B = 0
      BY LoaderSizes, QuotientAndRest
    <2>2. q * B \in Nat
      BY <1>1
    <2> QED BY <2>1, <2>2
  <1> HIDE DEF q
  <1>3. PICK m \in 0..q - 1 : bx = m * B
    BY DEF PlaceOf, q
  <1>4. es \in Nat /\ es + bx = k * B
    BY DEF PlaceOf
  <1>5. m * B \in Nat /\ k * B \in Nat /\ q * B \in Nat /\ m \in Nat
        /\ (m + 1) * B = m * B + B /\ (k + 1) * B = k * B + B
    BY <1>1, <1>3
  <1>6. bx + B = (m + 1) * B
    BY <1>3, <1>5
  <1>7. CASE m + 1 = q
    <2>1. bx + B = Segment
      BY <1>2, <1>6, <1>7
    <2>2. bx' = 0 /\ es' = es + Segment
      BY <1>1, <2>1 DEF NextSegment
    <2>3. es' \in Nat /\ es' + bx' = (k + 1) * B
      BY <1>1, <1>3, <1>4, <1>5, <2>1, <2>2
    <2>4. bx' = 0 * B /\ 0 \in 0..q - 1
      BY <1>1, <1>3, <1>7, <2>2
    <2> QED BY <2>3, <2>4 DEF PlaceOf, q
  <1>8. CASE m + 1 # q
    <2>1. (q - m - 2) * B >= 0
      BY <1>1, <1>3, <1>8
    <2>2. (q - m - 2) * B = q * B - m * B - B - B
      BY <1>1, <1>3, <1>5
    <2>3. bx + B < Segment
      BY <1>1, <1>2, <1>3, <1>5, <2>1, <2>2
    <2>4. bx + B \in Nat
      BY <1>1, <1>3, <1>5
    <2>5. bx' = bx + B /\ es' = es
      BY <1>1, <2>3, <2>4 DEF NextSegment
    <2>6. es' \in Nat /\ es' + bx' = (k + 1) * B
      BY <1>1, <1>3, <1>4, <1>5, <2>5
    <2>7. bx' = (m + 1) * B /\ m + 1 \in 0..q - 1
      BY <1>1, <1>3, <1>6, <1>8, <2>5
    <2> QED BY <2>6, <2>7 DEF PlaceOf, q
  <1> QED BY <1>7, <1>8

LEMMA GoonLoadingKeeps == ASSUME LoaderInv, GoonLoadingFile PROVE LoaderInv'
  <1> DEFINE c == floppy.chain
             L == Len(c)
  <1>1. /\ floppy' = floppy /\ e820' = e820 /\ pages' = pages
        /\ dwMemSize' = dwMemSize /\ MCRNumber' = MCRNumber /\ booting = "loading"
        /\ file' = [file EXCEPT ![(es + bx) \div BytsPerSec] =
                       OfFile(ReadSector(cluster + RootDirSectors + DeltaSectorNo))]
        /\ fatbuf' = ReadsFat((cluster * 3) \div 2)
        /\ IF GetFATEntry(cluster) = END_OF_CHAIN
           THEN booting' = "loaded"
           ELSE /\ cluster' = GetFATEntry(cluster) /\ booting' = "loading"
                /\ bx' = (bx + BytsPerSec) % Segment /\ es' = NextSegment
    BY DEF GoonLoadingFile, pageVars
  <1>2. PICK k \in 0..L - 1 : cluster = c[k + 1] /\ PlaceOf(k) /\ FileLoaded(k)
    BY <1>1 DEF LoaderInv, LoadInStep
  <1>3. Chains(c) /\ L <= Space
    BY <1>1 DEF LoaderInv, FloppyIs, LoadInStep
  <1>4. /\ L \in Nat /\ L > 0
        /\ \A i \in 1..L : c[i] \in Cluster
    <2> HIDE DEF c
    <2> QED BY <1>3, ChainIs
  <1>5. Space \in Nat /\ BytsPerSec \in Nat /\ BytsPerSec > 0
    BY LoaderSizes, QuotientAndRest DEF Space
  <1> HIDE DEF L
  <1>6. k \in Nat /\ k < L /\ k + 1 \in 1..L /\ k \in 0..Space /\ k # Space
    BY <1>2, <1>3, <1>4, <1>5
  <1>7. GetFATEntry(cluster) = IF k + 1 = L THEN END_OF_CHAIN ELSE c[k + 2]
    <2>1. DOMAIN fatbuf = 0..2 * BytsPerSec - 1
      BY DEF LoaderInv, MemoryIs
    <2>2. cluster \in Nat
      BY <1>2, <1>4, <1>6, ClusterIs
    <2>3. GetFATEntry(cluster) = Fat(cluster)
      BY <1>3, <2>1, <2>2, FatEntryIsRead
    <2> DEFINE i == k + 1
    <2>4. i \in 1..Len(floppy.chain) /\ Chains(floppy.chain)
      BY <1>3, <1>6 DEF L
    <2> HIDE DEF i
    <2>5. Fat(floppy.chain[i]) = IF i = Len(floppy.chain) THEN END_OF_CHAIN
                                 ELSE floppy.chain[i + 1]
      BY <2>4, FatNext
    <2>6. i + 1 = k + 2
      BY <1>6 DEF i
    <2> QED BY <1>2, <2>3, <2>5, <2>6 DEF i, L
  <1>8. file' = [file EXCEPT ![k] = OfFile(DataSector(k))]
    <2>1. (es + bx) \div BytsPerSec = k
      BY <1>2, <1>5, <1>6, QuotientOfProduct DEF PlaceOf
    <2>2. cluster \in Nat /\ RootDirSectors \in Nat /\ FATSz \in Nat
      BY <1>2, <1>4, <1>6, ClusterIs, LoaderSizes
    <2>3. cluster + RootDirSectors + DeltaSectorNo \in Nat
      <3>1. cluster >= 2
        <4>1. cluster \in Cluster
          BY <1>2, <1>4, <1>6
        <4>2. END_OF_CHAIN \in Int
          BY DEF END_OF_CHAIN
        <4> HIDE DEF c
        <4> QED BY <4>1, <4>2 DEF Cluster
      <3> QED BY <2>2, <3>1 DEF DeltaSectorNo
    <2>4. ReadSector(cluster + RootDirSectors + DeltaSectorNo)
             = cluster + RootDirSectors + DeltaSectorNo
      BY <2>3, SectorIsRead
    <2>5. cluster + RootDirSectors + DeltaSectorNo = DataSector(k)
      BY <1>2, <2>2 DEF DataSector, DeltaSectorNo, SectorNoOfRootDirectory
    <2> QED BY <1>1, <2>1, <2>4, <2>5
  <1>9. FloppyIs' /\ RangesAre'
    <2>1. booting' # "memory"
      BY <1>1
    <2> QED BY <1>1, <2>1, FloppyStays DEF LoaderInv, RangesAre
  <1>10. MemoryIs'
    <2>1. DOMAIN fatbuf' = DOMAIN fatbuf
      BY <1>1 DEF ReadsFat
    <2>2. DOMAIN file' = DOMAIN file /\ file'[Space] = file[Space]
      BY <1>6, <1>8
    <2> QED BY <1>1, <2>1, <2>2 DEF LoaderInv, MemoryIs
  <1>11. FileLoaded(k + 1)'
    <2>1. DOMAIN file = 0..Space
      BY DEF LoaderInv, MemoryIs
    <2>2. ASSUME NEW u \in 0..(k + 1) - 1
          PROVE  file'[u] = OfFile(DataSector(u)')
      <3>1. DataSector(u)' = DataSector(u)
        BY <1>1 DEF DataSector
      <3>2. u \in DOMAIN file /\ (u = k \/ u \in 0..k - 1)
        BY <1>5, <1>6, <2>1
      <3>3. u = k \/ file[u] = OfFile(DataSector(u))
        BY <1>2, <3>2 DEF FileLoaded
      <3> QED BY <1>8, <3>1, <3>2, <3>3
    <2> QED BY <2>2 DEF FileLoaded
  <1>12. LoadInStep'
    <2>1. CASE k + 1 = L
      <3>1. booting' = "loaded"
        BY <1>1, <1>7, <2>1
      <3>2. Len(floppy'.chain) = k + 1
        BY <1>1, <2>1 DEF L
      <3>3. FileLoaded(Len(floppy.chain))'
        BY <1>11, <3>2
      <3> QED BY <1>1, <1>3, <3>1, <3>3 DEF LoadInStep, L
    <2>2. CASE k + 1 # L
      <3>1. k + 2 \in 1..L /\ k + 1 \in 0..L - 1 /\ k + 2 = (k + 1) + 1
        BY <1>4, <1>6, <2>2
      <3>2. c[k + 2] # END_OF_CHAIN
        <4>1. c[k + 2] \in Cluster
          BY <1>4, <3>1
        <4> QED BY <4>1, ClusterIs
      <3>3. /\ booting' = "loading" /\ cluster' = c[(k + 1) + 1]
            /\ bx' = (bx + BytsPerSec) % Segment /\ es' = NextSegment
        BY <1>1, <1>7, <2>2, <3>1, <3>2
      <3>4. PlaceOf(k + 1)'
        BY <1>2, <1>6, <3>3, PlaceGoesOn
      <3> DEFINE n == k + 1
      <3>5. n \in 0..L - 1 /\ cluster' = c[n + 1] /\ PlaceOf(n)' /\ FileLoaded(n)'
        BY <1>11, <3>1, <3>3, <3>4
      <3> HIDE DEF n
      <3>6. /\ Len(floppy'.chain) <= Space
            /\ \E i \in 0..Len(floppy'.chain) - 1 :
                  cluster' = floppy'.chain[i + 1] /\ PlaceOf(i)' /\ FileLoaded(i)'
        BY <1>1, <1>3, <3>5 DEF L
      <3> QED BY <3>3, <3>6 DEF LoadInStep
    <2> QED BY <2>1, <2>2
  <1>13. booting' \in {"loading", "loaded"}
    BY <1>1
  <1>14. SearchInStep'
    BY <1>13 DEF SearchInStep
  <1>15. PagesInStep'
    BY <1>1, <1>13 DEF LoaderInv, PagesInStep
  <1>16. KernelStarts'
    BY <1>10, <1>13 DEF KernelStarts, MemoryIs, Space
  <1> QED BY <1>9, <1>10, <1>12, <1>14, <1>15, <1>16 DEF LoaderInv

LEMMA DispMemInfoKeeps == ASSUME LoaderInv, DispMemInfo PROVE LoaderInv'
  <1> DEFINE used == {e820.map[i] : i \in {i \in 1..MCRNumber : e820.map[i].type = 1}}
             ends == {(r.base + r.length) % AddressSpace : r \in used}
  <1>1. /\ floppy' = floppy /\ e820' = e820 /\ fatbuf' = fatbuf /\ file' = file /\ pages' = pages
        /\ MCRNumber' = MCRNumber /\ booting = "loaded"
        /\ \/ MCRNumber = 0 /\ booting' = "lost" /\ dwMemSize' = dwMemSize
           \/ booting' = "paging" /\ dwMemSize' = Max({0} \union ends)
    BY DEF DispMemInfo, diskVars
  <1>2. dwMemSize' \in Nat
    <2>1. ASSUME NEW r \in used
          PROVE  (r.base + r.length) % AddressSpace \in 0..AddressSpace
      <3>1. PICK i \in 1..MCRNumber : r = e820.map[i]
        OBVIOUS
      <3>2. e820.map \in Seq(MemoryRange) /\ MCRNumber \in 0..Len(e820.map)
        BY DEF LoaderInv, RangesAre
      <3>3. r \in MemoryRange
        <4> HIDE DEF used
        <4>1. i \in 1..Len(e820.map)
          BY <3>2
        <4> QED BY <3>1, <3>2, <4>1
      <3>4. r.base \in Nat /\ r.length \in Nat /\ AddressSpace \in Nat /\ AddressSpace > 0
        BY <3>3, LoaderSizes DEF MemoryRange
      <3> QED BY <3>4
    <2>2. ends \in SUBSET (0..AddressSpace)
      <3> HIDE DEF used
      <3> QED BY <2>1
    <2> HIDE DEF ends
    <2>3. {0} \union ends \in SUBSET (0..AddressSpace) /\ {0} \union ends # {}
      BY <2>2, LoaderSizes
    <2>4. Max({0} \union ends) \in {0} \union ends
      BY <2>3, HighestIsOne, LoaderSizes
    <2>5. Max({0} \union ends) \in Nat
      BY <2>3, <2>4
    <2> QED BY <1>1, <2>5 DEF LoaderInv, MemoryIs
  <1>3. FloppyIs' /\ MemoryIs'
    BY <1>1, <1>2, FloppyStays DEF LoaderInv, MemoryIs
  <1>4. RangesAre'
    BY <1>1 DEF LoaderInv, RangesAre
  <1>5. SearchInStep'
    BY <1>1 DEF SearchInStep
  <1>6. LoadInStep'
    <2>1. Len(floppy'.chain) <= Space /\ FileLoaded(Len(floppy.chain))'
      BY <1>1, FileStays DEF LoaderInv, LoadInStep
    <2> QED BY <1>1, <2>1 DEF LoadInStep
  <1>7. PagesInStep'
    BY <1>1 DEF LoaderInv, PagesInStep
  <1>8. KernelStarts'
    <2>1. booting' = "lost" => e820.fails
      BY <1>1 DEF LoaderInv, RangesAre
    <2> QED BY <1>1, <2>1 DEF LoaderInv, KernelStarts
  <1> QED BY <1>3, <1>4, <1>5, <1>6, <1>7, <1>8 DEF LoaderInv

\* There is a table for each page of memory, and none only if there is no memory.
LEMMA TablesReach ==
    ASSUME dwMemSize \in Nat
    PROVE  /\ Tables \in Nat /\ (Tables = 0 => dwMemSize = 0)
           /\ \A p \in 0..dwMemSize - 1 : p \div Span \in 0..Tables - 1
  <1> DEFINE q == dwMemSize \div Span
             r == dwMemSize % Span
  <1>1. /\ Span \in Nat /\ Span > 0 /\ q \in Nat /\ r \in 0..Span - 1
        /\ dwMemSize = q * Span + r
    BY LoaderSizes, QuotientAndRest
  <1>2. Tables = IF r = 0 THEN q ELSE q + 1
    BY <1>1 DEF Tables
  <1> HIDE DEF q, r
  <1>3. Tables \in Nat /\ (Tables = 0 => dwMemSize = 0)
    <2>1. 0 * Span = 0
      BY <1>1
    <2>2. Tables = 0 => q = 0 /\ r = 0
      BY <1>1, <1>2
    <2> QED BY <1>1, <1>2, <2>1, <2>2
  <1>4. ASSUME NEW p \in 0..dwMemSize - 1
        PROVE  p \div Span \in 0..Tables - 1
    <2> DEFINE t == p \div Span
               s == p % Span
    <2>1. p \in Nat /\ p < dwMemSize
      OBVIOUS
    <2>2. t \in Nat /\ s \in 0..Span - 1 /\ p = t * Span + s
      BY <1>1, <2>1, QuotientAndRest
    <2> HIDE DEF t, s
    <2>3. t <= q
      BY <1>1, <2>1, <2>2, OneQuotient
    <2>4. t = q => r # 0
      BY <1>1, <2>1, <2>2
    <2>5. t \in 0..Tables - 1
      BY <1>1, <1>2, <2>2, <2>3, <2>4
    <2> QED BY <2>5 DEF t
  <1> QED BY <1>3, <1>4

LEMMA SetupPagingKeeps == ASSUME LoaderInv, SetupPaging PROVE LoaderInv'
  <1>1. /\ floppy' = floppy /\ e820' = e820 /\ fatbuf' = fatbuf /\ file' = file
        /\ MCRNumber' = MCRNumber /\ dwMemSize' = dwMemSize /\ booting = "paging"
        /\ booting' = IF Tables = 0 THEN "lost" ELSE "init"
        /\ pages' = [p \in DOMAIN pages |->
                        IF p >= dwMemSize THEN pages[p]
                        ELSE CASE p = PAGE_DIR                          -> Directory
                               [] p \in PAGE_DIR + 1..PAGE_DIR + Tables -> Table(p - PAGE_DIR - 1)
                               [] OTHER                                 -> pages[p]]
    BY DEF SetupPaging, diskVars
  <1>2. dwMemSize \in Nat /\ Tables \in Nat /\ (Tables = 0 => dwMemSize = 0)
    <2>1. dwMemSize \in Nat
      BY DEF LoaderInv, MemoryIs
    <2> QED BY <2>1, TablesReach
  <1>3. /\ PAGE_DIR \in Nat /\ KERNEL_PAGE \in Nat /\ PAGE_DIR < KERNEL_PAGE /\ Space \in Nat
        /\ AddressSpace \in Nat /\ PAGE_DIR < AddressSpace
    <2>1. Space \in Nat
      BY LoaderSizes, QuotientAndRest DEF Space
    <2> QED BY <2>1, LoaderSizes
  <1>4. FloppyIs' /\ MemoryIs'
    BY <1>1, FloppyStays DEF LoaderInv, MemoryIs
  <1>5. RangesAre'
    BY <1>1 DEF LoaderInv, RangesAre
  <1>6. SearchInStep'
    BY <1>1 DEF SearchInStep
  <1>7. LoadInStep'
    <2>1. Len(floppy'.chain) <= Space /\ FileLoaded(Len(floppy.chain))'
      BY <1>1, FileStays DEF LoaderInv, LoadInStep
    <2> QED BY <1>1, <2>1 DEF LoadInStep
  <1>8. DOMAIN pages = 0..AddressSpace - 1 /\ \A p \in 0..AddressSpace - 1 : pages[p] = Free
    BY <1>1 DEF LoaderInv, MemoryIs, PagesInStep
  <1>9. Tables' = Tables
    BY <1>1 DEF Tables
  <1> DEFINE n == Tables
  <1> HIDE DEF n
  <1>10. \A p \in 0..PAGE_DIR - 1 : pages'[p] = Free
    <2> TAKE p \in 0..PAGE_DIR - 1
    <2>1. /\ p \in 0..AddressSpace - 1 /\ p # PAGE_DIR
          /\ p \notin PAGE_DIR + 1..PAGE_DIR + n
      BY <1>2, <1>3 DEF n
    <2> QED BY <1>1, <1>8, <2>1 DEF n
  <1>11. ASSUME NEW t \in 0..n - 1, PAGE_DIR + 1 + t < AddressSpace,
                PAGE_DIR + 1 + t < dwMemSize
         PROVE  pages'[PAGE_DIR + 1 + t] = Table(t)
    <2> DEFINE p == PAGE_DIR + 1 + t
    <2>1. /\ p \in 0..AddressSpace - 1 /\ p # PAGE_DIR /\ ~(p >= dwMemSize)
          /\ p \in PAGE_DIR + 1..PAGE_DIR + n /\ p - PAGE_DIR - 1 = t
      BY <1>2, <1>3, <1>11 DEF n
    <2> HIDE DEF p
    <2>2. pages'[p] = Table(p - PAGE_DIR - 1)
      BY <1>1, <1>8, <2>1 DEF n
    <2> QED BY <2>1, <2>2 DEF p
  <1>12. PagesInStep'
    <2>1. \A t \in 0..Tables' - 1 :
             PAGE_DIR + 1 + t < AddressSpace /\ PAGE_DIR + 1 + t < dwMemSize'
                => pages'[PAGE_DIR + 1 + t] = Table(t)
      BY <1>1, <1>9, <1>11 DEF n
    <2> QED BY <1>1, <1>10, <2>1 DEF PagesInStep, Table
  <1>13. KernelStarts'
    <2>1. booting' = "lost" => dwMemSize' = 0
      BY <1>1, <1>2
    <2> QED BY <1>1, <2>1 DEF LoaderInv, KernelStarts
  <1> QED BY <1>4, <1>5, <1>6, <1>7, <1>12, <1>13 DEF LoaderInv

\* A unit of the file has its page, by whichever header.
LEMMA HeadersAre ==
    ASSUME Chains(floppy.chain), NEW p \in Nat
    PROVE  /\ KernelPages = KERNEL_PAGE..KERNEL_PAGE + Len(floppy.chain) - 1
           /\ p \in KernelPages =>
                 \E h \in ProgramHeaders : p \in h.vaddr..h.vaddr + h.filesz - 1
           /\ \A h \in ProgramHeaders : h.offset + p - h.vaddr = p - KERNEL_PAGE
  <1> DEFINE L     == Len(floppy.chain)
             first == IF L = 1 THEN 1 ELSE 2
             h1 == [type |-> "LOAD", offset |-> 0, vaddr |-> KERNEL_PAGE, filesz |-> first]
             h2 == [type |-> "NULL", offset |-> 0, vaddr |-> 0, filesz |-> 1]
             h3 == [type |-> "LOAD", offset |-> first, vaddr |-> KERNEL_PAGE + first,
                    filesz |-> L - first]
  <1>1. L \in Nat /\ L > 0 /\ first \in Nat /\ first <= L /\ first > 0
    <2>1. L \in Nat /\ L > 0
      BY ChainIs
    <2> HIDE DEF L
    <2> QED BY <2>1
  <1>2. KERNEL_PAGE \in Nat
    BY LoaderSizes
  <1>3. Headers = <<h1, h2, h3>>
    BY DEF Headers
  <1>4. /\ h1.type = "LOAD" /\ h1.offset = 0 /\ h1.vaddr = KERNEL_PAGE /\ h1.filesz = first
        /\ h2.type = "NULL"
        /\ h3.type = "LOAD" /\ h3.offset = first /\ h3.vaddr = KERNEL_PAGE + first
        /\ h3.filesz = L - first
    OBVIOUS
  <1> HIDE DEF h1, h2, h3, first, L
  <1>5. ToSet(Headers) = {h1, h2, h3}
    <2>1. DOMAIN <<h1, h2, h3>> = {1, 2, 3}
      OBVIOUS
    <2>2. /\ <<h1, h2, h3>>[1] = h1 /\ <<h1, h2, h3>>[2] = h2 /\ <<h1, h2, h3>>[3] = h3
      OBVIOUS
    <2> DEFINE s == <<h1, h2, h3>>
    <2> HIDE DEF s
    <2>3. {s[i] : i \in {1, 2, 3}} = {s[1], s[2], s[3]}
      OBVIOUS
    <2> QED BY <1>3, <2>1, <2>2, <2>3 DEF ToSet, s
  <1>6. ProgramHeaders = {h1, h3}
    BY <1>4, <1>5 DEF ProgramHeaders
  <1>7. KernelPages = KERNEL_PAGE..KERNEL_PAGE + L - 1
    <2> DEFINE R(h) == h.vaddr..h.vaddr + h.filesz - 1
    <2>1. \A x : x \in KernelPages <=> x \in R(h1) \/ x \in R(h3)
      BY <1>6 DEF KernelPages
    <2>2. \A x : x \in R(h1) \/ x \in R(h3) <=> x \in KERNEL_PAGE..KERNEL_PAGE + L - 1
      BY <1>1, <1>2, <1>4
    <2> HIDE DEF R
    <2> QED BY <2>1, <2>2
  <1>8. /\ h1.offset + p - h1.vaddr = p - KERNEL_PAGE
        /\ h3.offset + p - h3.vaddr = p - KERNEL_PAGE
    BY <1>1, <1>2, <1>4
  <1>9. p \in KernelPages =>
           \E h \in ProgramHeaders : p \in h.vaddr..h.vaddr + h.filesz - 1
    BY DEF KernelPages
  <1> QED BY <1>6, <1>7, <1>8, <1>9 DEF L

LEMMA InitKernelKeeps == ASSUME LoaderInv, InitKernel PROVE LoaderInv'
  <1> DEFINE L    == Len(floppy.chain)
             In(h, p) == p \in h.vaddr..h.vaddr + h.filesz - 1
  <1>1. /\ floppy' = floppy /\ e820' = e820 /\ fatbuf' = fatbuf /\ file' = file
        /\ MCRNumber' = MCRNumber /\ dwMemSize' = dwMemSize
        /\ booting = "init" /\ booting' = IF Unmapped = {} THEN "started" ELSE "faults"
        /\ pages' = [p \in DOMAIN pages |->
                        IF p \in Stored
                        THEN LET h == CHOOSE h \in ProgramHeaders : In(h, p)
                             IN file[h.offset + p - h.vaddr]
                        ELSE pages[p]]
    BY DEF InitKernel, diskVars
  <1>2. /\ Chains(floppy.chain) /\ L <= Space /\ FileLoaded(L)
        /\ DOMAIN pages = 0..AddressSpace - 1 /\ dwMemSize \in Nat
        /\ \A p \in 0..PAGE_DIR - 1 : pages[p] = Free
        /\ \A t \in 0..Tables - 1 :
              PAGE_DIR + 1 + t < AddressSpace /\ PAGE_DIR + 1 + t < dwMemSize
                 => pages[PAGE_DIR + 1 + t] = Table(t)
    BY <1>1 DEF LoaderInv, FloppyIs, LoadInStep, MemoryIs, PagesInStep
  <1>3. /\ PAGE_DIR \in Nat /\ KERNEL_PAGE \in Nat /\ PAGE_DIR < KERNEL_PAGE
        /\ AddressSpace \in Nat /\ KERNEL_PAGE + Space <= AddressSpace /\ Space \in Nat
        /\ Span \in Nat /\ Span > 0
        /\ PAGE_DIR + 1 + (KERNEL_PAGE + Space) \div Span < KERNEL_PAGE
    BY LoaderSizes, QuotientAndRest DEF Space
  <1>4. L \in Nat /\ L > 0
    BY <1>2, ChainIs
  <1> HIDE DEF L
  <1>5. ASSUME NEW p \in 0..AddressSpace - 1
        PROVE  pages'[p] = IF p \in Stored THEN file[p - KERNEL_PAGE] ELSE pages[p]
    <2>1. p \in Nat
      BY <1>3
    <2>2. /\ p \in Stored => \E h \in ProgramHeaders : In(h, p)
          /\ \A h \in ProgramHeaders : h.offset + p - h.vaddr = p - KERNEL_PAGE
      BY <1>2, <2>1, HeadersAre DEF L, Stored
    <2> HIDE DEF In
    <2> DEFINE g == CHOOSE h \in ProgramHeaders : In(h, p)
    <2>3. pages'[p] = IF p \in Stored THEN file[g.offset + p - g.vaddr]
                      ELSE pages[p]
      BY <1>1, <1>2
    <2>4. (\E h \in ProgramHeaders : In(h, p)) => g \in ProgramHeaders
      OBVIOUS
    <2> HIDE DEF g
    <2>5. (\E h \in ProgramHeaders : In(h, p)) => g.offset + p - g.vaddr = p - KERNEL_PAGE
      BY <2>2, <2>4
    <2> QED BY <2>2, <2>3, <2>5
  <1>6. FloppyIs' /\ MemoryIs'
    BY <1>1, FloppyStays DEF LoaderInv, MemoryIs
  <1>7. RangesAre'
    BY <1>1 DEF LoaderInv, RangesAre
  <1>8. SearchInStep' /\ LoadInStep' /\ PagesInStep'
    BY <1>1 DEF SearchInStep, LoadInStep, PagesInStep
  <1>9. KernelPages = KERNEL_PAGE..KERNEL_PAGE + L - 1
    <2>1. 0 \in Nat
      OBVIOUS
    <2> QED BY <1>2, <2>1, HeadersAre DEF L
  <1>10. ASSUME NEW p \in KernelPages, KERNEL_PAGE + L <= dwMemSize PROVE Maps(p)
    <2> DEFINE t == p \div Span
               i == PAGE_DIR + 1 + t
               k == (KERNEL_PAGE + Space) \div Span
    <2>1. p \in Nat /\ p \in 0..dwMemSize - 1 /\ p <= KERNEL_PAGE + Space
      BY <1>2, <1>3, <1>4, <1>9, <1>10
    <2>2. t \in 0..Tables - 1 /\ Tables \in Nat
      BY <1>2, <2>1, TablesReach
    <2>3. t <= k /\ k \in Nat
      BY <1>3, <2>1, QuotientAndRest, OneQuotient
    <2>4. PAGE_DIR + 1 + k < KERNEL_PAGE
      BY <1>3
    <2> HIDE DEF t, k
    <2>5. i < AddressSpace /\ i < dwMemSize
      BY <1>2, <1>3, <1>4, <1>10, <2>2, <2>3, <2>4
    <2>6. pages[i] = Table(t)
      BY <1>2, <2>2, <2>5
    <2> QED BY <2>6 DEF Maps, t
  <1>11. booting' = "faults" => dwMemSize' < KERNEL_PAGE + Len(floppy'.chain)
    <2> SUFFICES ASSUME KERNEL_PAGE + L <= dwMemSize PROVE Unmapped = {}
      BY <1>1, <1>2, <1>3, <1>4 DEF L
    <2> QED BY <1>10 DEF Unmapped
  <1>12. ASSUME Unmapped = {}, NEW u \in 0..L - 1, KERNEL_PAGE + u < dwMemSize
         PROVE  pages'[KERNEL_PAGE + u] = OfFile(DataSector(u))
    <2> DEFINE p == KERNEL_PAGE + u
    <2>1. /\ p \in 0..AddressSpace - 1 /\ p \in KERNEL_PAGE..KERNEL_PAGE + L - 1
          /\ p - KERNEL_PAGE = u /\ p < dwMemSize
      BY <1>2, <1>3, <1>4, <1>12
    <2> HIDE DEF p
    <2>2. p \in Stored
      BY <1>9, <1>12, <2>1 DEF Stored
    <2>3. pages'[p] = file[u]
      BY <1>5, <2>1, <2>2
    <2> QED BY <1>2, <2>3 DEF FileLoaded, p
  <1>13. \A p \in 0..PAGE_DIR - 1 : pages'[p] = Free
    <2> TAKE p \in 0..PAGE_DIR - 1
    <2>1. p \in 0..AddressSpace - 1 /\ ~(p \in KERNEL_PAGE..KERNEL_PAGE + L - 1)
      BY <1>3, <1>4
    <2>2. p \notin Stored
      BY <1>9, <2>1 DEF Stored
    <2> QED BY <1>2, <1>5, <2>1, <2>2
  <1>14. ASSUME NEW p \in 0..dwMemSize - 1, PAGE_DIR + 1 + p \div Span < KERNEL_PAGE,
                PAGE_DIR + 1 + p \div Span < dwMemSize
         PROVE  pages'[PAGE_DIR + 1 + p \div Span] = Table(p \div Span)
    <2> DEFINE t == p \div Span
               i == PAGE_DIR + 1 + t
    <2>1. t \in 0..Tables - 1 /\ Tables \in Nat
      BY <1>2, TablesReach
    <2> HIDE DEF t
    <2>2. /\ i \in 0..AddressSpace - 1 /\ ~(i \in KERNEL_PAGE..KERNEL_PAGE + L - 1)
          /\ i < AddressSpace /\ i < dwMemSize
      BY <1>2, <1>3, <1>4, <1>14, <2>1 DEF t
    <2>3. pages[i] = Table(t)
      BY <1>2, <2>1, <2>2
    <2> HIDE DEF i
    <2>4. i \notin Stored
      BY <1>9, <2>2 DEF Stored
    <2>5. pages'[i] = Table(t)
      BY <1>5, <2>2, <2>3, <2>4
    <2> QED BY <2>5 DEF i, t
  <1>15. KernelStarts'
    <2>1. booting' = "started" => \A u \in 0..Len(floppy'.chain) - 1 :
             KERNEL_PAGE + u < dwMemSize' => pages'[KERNEL_PAGE + u] = OfFile(DataSector(u))'
      BY <1>1, <1>12 DEF L, DataSector, OfFile
    <2>2. \A p \in 0..PAGE_DIR - 1 : pages'[p] = Free'
      BY <1>13 DEF Free
    <2>3. \A p \in 0..dwMemSize' - 1 :
             LET table == PAGE_DIR + 1 + p \div Span
             IN  table < KERNEL_PAGE /\ table < dwMemSize' => Maps(p)'
      BY <1>1, <1>14 DEF Maps, Table
    <2> QED BY <1>1, <1>6, <1>11, <2>1, <2>2, <2>3 DEF KernelStarts, MemoryIs, Space
  <1> QED BY <1>6, <1>7, <1>8, <1>15 DEF LoaderInv

LEMMA LoaderInvNext == ASSUME LoaderInv, [LoaderNext]_loaderVars PROVE LoaderInv'
  <1>1. CASE UNCHANGED loaderVars
    <2>1. /\ floppy' = floppy /\ e820' = e820 /\ booting' = booting /\ MCRNumber' = MCRNumber
          /\ wSectorNo' = wSectorNo /\ wRootDirSizeForLoop' = wRootDirSizeForLoop
          /\ cluster' = cluster /\ es' = es /\ bx' = bx /\ fatbuf' = fatbuf /\ file' = file
          /\ dwMemSize' = dwMemSize /\ pages' = pages
      BY <1>1 DEF loaderVars
    <2>2. FloppyIs' /\ RangesAre' /\ MemoryIs' /\ SearchInStep'
      BY <2>1, FloppyStays DEF LoaderInv, RangesAre, MemoryIs, SearchInStep
    <2>3. LoadInStep'
      <3>1. \A n : FileLoaded(n)' <=> FileLoaded(n)
        BY <2>1, FileStays
      <3>2. \A n : PlaceOf(n)' <=> PlaceOf(n)
        BY <2>1 DEF PlaceOf
      <3>3. FileLoaded(Len(floppy.chain))' <=> FileLoaded(Len(floppy.chain))
        BY <2>1 DEF FileLoaded, DataSector
      <3> QED BY <2>1, <3>1, <3>2, <3>3 DEF LoaderInv, LoadInStep
    <2>4. PagesInStep'
      BY <2>1 DEF LoaderInv, PagesInStep, Tables
    <2>5. KernelStarts'
      BY <2>1 DEF LoaderInv, KernelStarts, DataSector, Maps
    <2> QED BY <2>2, <2>3, <2>4, <2>5 DEF LoaderInv
  <1>2. CASE LoaderNext
    BY <1>2, MemChkLoopKeeps, NextSectorKeeps, NoKernelKeeps, StartsLoadingKeeps,
       GoonLoadingKeeps, DispMemInfoKeeps, SetupPagingKeeps, InitKernelKeeps DEF LoaderNext
  <1> QED BY <1>1, <1>2

\* A kernel anywhere in the root directory, with any chain of clusters, is started
\* with its file in place and memory mapped, for disks, segments and memories of every
\* size (boot/loader.asm:72-181, 295-378, 684-860).
THEOREM TheKernelStarts == LoaderSpec => []KernelStarts
  <1>1. LoaderInv => KernelStarts
    BY DEF LoaderInv
  <1> QED BY <1>1, LoaderInvInit, LoaderInvNext, PTL DEF LoaderSpec
=============================================================================
