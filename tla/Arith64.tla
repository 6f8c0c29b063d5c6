------------------------------- MODULE Arith64 -------------------------------
(***************************************************************************)
(* The 64-bit arithmetic that gcc calls on a 32-bit processor              *)
(* (sys/arith64.c), for words of any width.  The two divisions are loops,  *)
(* a round being a step; the rest are functions.  Words are the naturals   *)
(* below Bit[BITS], a signed one being the word it is kept in.             *)
(***************************************************************************)
EXTENDS Integers, FiniteSetsExt

CONSTANTS
    BITS,           \* the bits of a word, 64 in the code
    Bit,            \* the word that has this bit only
    Operand         \* the words divided and shifted

ASSUME ArithAssumption ==
    /\ BITS \in Nat \ {0}
    /\ Bit \in [0..BITS -> Nat \ {0}]
    /\ Bit[0] = 1
    /\ \A k \in 1..BITS : Bit[k] = 2 * Bit[k - 1]
    /\ Operand \subseteq 0 .. Bit[BITS] - 1

Word == 0 .. Bit[BITS] - 1
HALF == BITS \div 2

Wrap(x) == x % Bit[BITS]
Negative(x) == x >= Bit[BITS - 1]
hi(x) == x \div Bit[HALF]
lo(x) == x % Bit[HALF]
Joined(h, l) == (h % Bit[HALF]) * Bit[HALF] + (l % Bit[HALF])

\* Inverted and incremented if b is negative.
neg(a, b) == IF Negative(b) THEN Wrap(Bit[BITS] - a) ELSE a
abs(a) == neg(a, a)

-----------------------------------------------------------------------------
(* Shifts by halves                                                        *)

ashldi3(a, count) ==
    LET b == count % BITS IN
    CASE b >= HALF -> Joined(lo(a) * Bit[b - HALF], 0)
      [] b = 0     -> a
      [] OTHER     -> Joined(lo(a) \div Bit[HALF - b] + hi(a) * Bit[b], lo(a) * Bit[b])

\* What comes down from the high half, above what is left of the low one.
LowShifted(a, b) == hi(a) * Bit[HALF - b] + lo(a) \div Bit[b]

lshrdi3(a, count) ==
    LET b == count % BITS IN
    CASE b >= HALF -> Joined(0, hi(a) \div Bit[b - HALF])
      [] b = 0     -> a
      [] OTHER     -> Joined(hi(a) \div Bit[b], LowShifted(a, b))

\* A half shifted with its sign: the ones come in as zeros of the inverse.
HalfShifted(h, b) ==
    IF h < Bit[HALF - 1] THEN h \div Bit[b]
                         ELSE Bit[HALF] - 1 - (Bit[HALF] - 1 - h) \div Bit[b]

ashrdi3(a, count) ==
    LET b == count % BITS IN
    CASE b >= HALF -> Joined(HalfShifted(hi(a), HALF - 1), HalfShifted(hi(a), b - HALF))
      [] b = 0     -> a
      [] OTHER     -> Joined(HalfShifted(hi(a), b), LowShifted(a, b))

-----------------------------------------------------------------------------
(* Counts                                                                  *)

\* The cascades: a word without a bit in its upper (lower) s bits is shifted
\* by s, then s is halved; the last look is at a single bit.
Leading[s \in 1..BITS, a \in Word] ==
    LET b == IF a < Bit[BITS - s] THEN s ELSE 0
    IN IF s = 1 THEN b ELSE b + Leading[s \div 2, Wrap(a * Bit[b])]

Trailing[s \in 1..BITS, a \in Word] ==
    LET b == IF a % Bit[s] = 0 THEN s ELSE 0
    IN IF s = 1 THEN b ELSE b + Trailing[s \div 2, a \div Bit[b]]

clzdi2(a) == Leading[HALF, a]
ctzdi2(a) == Trailing[HALF, a]
ffsdi2(a) == IF a = 0 THEN 0 ELSE ctzdi2(a) + 1

BitsOf(x) == {k \in 0..BITS - 1 : (x \div Bit[k]) % 2 = 1}

\* The lower w bits of every 2w (0x5555..., 0x3333..., 0x0F0F...).
LowerBits(x, w) == MapThenSumSet(LAMBDA k : Bit[k], {k \in BitsOf(x) : (k \div w) % 2 = 0})

\* The bytes are added into the lowest.
Bytes[s \in 1..BITS, a \in Word] ==
    IF s < 8 THEN a ELSE Bytes[s \div 2, Wrap(a + a \div Bit[s])]

popcountdi2(a) ==
    LET twos  == a - LowerBits(a \div 2, 1)
        fours == LowerBits(twos \div 4, 2) + LowerBits(twos, 2)
    IN Bytes[HALF, LowerBits(fours + fours \div 16, 4)] % (2 * BITS)

-----------------------------------------------------------------------------
(* The divisions                                                           *)

Function == {"udivmoddi4", "divmoddi4", "divdi3", "moddi3"}
Signed(f) == f \in {"divdi3", "moddi3"}

VARIABLES
    division,       \* the call [fn, a, b]
    at,             \* where the call is
    num, den,       \* a and b inside
    quot, qbit,     \* of udivmoddi4
    rem, wrap, bits \* of divmoddi4, wrap its lowest bit

divideVars == <<division, at, num, den, quot, qbit, rem, wrap, bits>>

\* divdi3 and moddi3 call divmoddi4 with the absolute values.
Entered(f, x) == IF Signed(f) THEN abs(x) ELSE x

DivideInit ==
    /\ division \in [fn : Function, a : Operand, b : Operand]
    /\ at = IF division.fn = "udivmoddi4" THEN "justify" ELSE "divmod"
    /\ num = Entered(division.fn, division.a)
    /\ den = Entered(division.fn, division.b)
    /\ quot = 0 /\ qbit = 1
    /\ rem = 0 /\ wrap = 0 /\ bits = 0

\* 1 / 0 in either function: the processor stops the program.
Faults ==
    /\ at \in {"justify", "divmod"} /\ den = 0
    /\ at' = "exception"
    /\ UNCHANGED <<division, num, den, quot, qbit, rem, wrap, bits>>

(* udivmoddi4 *)

UdivJustifies ==
    /\ at = "justify" /\ den # 0 /\ ~Negative(den)
    /\ den' = Wrap(2 * den) /\ qbit' = Wrap(2 * qbit)
    /\ UNCHANGED <<division, at, num, quot, rem, wrap, bits>>

UdivJustified ==
    /\ at = "justify" /\ Negative(den)
    /\ at' = "subtract"
    /\ UNCHANGED <<division, num, den, quot, qbit, rem, wrap, bits>>

\* Variant: a denominator that just fits is not subtracted.
FitsBelow == den < num

Fits == den <= num

UdivSubtracts ==
    /\ at = "subtract" /\ qbit # 0
    /\ num' = IF Fits THEN num - den ELSE num
    /\ quot' = IF Fits THEN Wrap(quot + qbit) ELSE quot
    /\ den' = den \div 2 /\ qbit' = qbit \div 2
    /\ UNCHANGED <<division, at, rem, wrap, bits>>

UdivReturns ==
    /\ at = "subtract" /\ qbit = 0
    /\ rem' = num /\ at' = "returned"
    /\ UNCHANGED <<division, num, den, quot, qbit, wrap, bits>>

(* divmoddi4 *)

\* The cases that need no loop.
DivmodReturnsAtOnce ==
    /\ at = "divmod" /\ den # 0
    /\ \/ den > num /\ quot' = 0 /\ rem' = num
       \/ den = 1 /\ num # 0 /\ quot' = num /\ rem' = 0
       \/ /\ den \in 2..num /\ hi(den) = 0 /\ hi(num) = 0
          /\ quot' = lo(num) \div lo(den) /\ rem' = lo(num) % lo(den)
    /\ at' = "returned"
    /\ UNCHANGED <<division, num, den, qbit, wrap, bits>>

DivmodStarts ==
    /\ at = "divmod" /\ den \in 2..num /\ (hi(den) # 0 \/ hi(num) # 0)
    /\ bits' = clzdi2(den) - clzdi2(num) + 1
    /\ rem' = num \div Bit[bits']
    /\ num' = Wrap(num * Bit[BITS - bits'])
    /\ wrap' = 0 /\ at' = "divide"
    /\ UNCHANGED <<division, den, quot, qbit>>

DivmodStep ==
    /\ at = "divide" /\ bits > 0
    /\ LET r == Wrap(2 * rem) + num \div Bit[BITS - 1]
       IN /\ wrap' = IF Negative(Wrap(den - r - 1)) THEN 1 ELSE 0
          /\ rem' = Wrap(r - den * wrap')
    /\ num' = Wrap(2 * num) + wrap
    /\ bits' = bits - 1
    /\ UNCHANGED <<division, at, den, quot, qbit>>

DivmodReturns ==
    /\ at = "divide" /\ bits = 0
    /\ quot' = Wrap(2 * num) + wrap /\ at' = "returned"
    /\ UNCHANGED <<division, num, den, qbit, rem, wrap, bits>>

DivideNext ==
    \/ Faults
    \/ UdivJustifies \/ UdivJustified \/ UdivSubtracts \/ UdivReturns
    \/ DivmodReturnsAtOnce \/ DivmodStarts \/ DivmodStep \/ DivmodReturns

DivideSpec == DivideInit /\ [][DivideNext]_divideVars

\* What the caller gets: divdi3 negates when the signs differ, moddi3 when
\* the numerator is negative.
Quotient ==
    IF Signed(division.fn) /\ Negative(division.a) # Negative(division.b)
        THEN Wrap(Bit[BITS] - quot) ELSE quot
Remainder == IF Signed(division.fn) THEN neg(rem, division.a) ELSE rem

-----------------------------------------------------------------------------
(* Properties.                                                             *)

DivideTypeOK ==
    /\ division \in [fn : Function, a : Operand, b : Operand]
    /\ at \in {"justify", "subtract", "divmod", "divide", "returned", "exception"}
    /\ {num, den, quot, qbit, rem} \subseteq Word
    /\ wrap \in {0, 1} /\ bits \in 0..BITS - 1

\* Shifting and subtracting ends with the quotient and a remainder below the
\* denominator, whatever the width, and never divides by zero
\* (sys/arith64.c:175-203).
DividesRight ==
    at = "returned" /\ division.fn = "udivmoddi4" =>
        /\ division.b # 0
        /\ division.a = division.b * quot + rem
        /\ rem < division.b

\* The word as a signed number.
SignedValue(x) == IF Negative(x) THEN x - Bit[BITS] ELSE x
AbsoluteValue(x) == IF x < 0 THEN -x ELSE x

\* The long division with its early returns gives what the unsigned, and
\* around it the signed division of C gives, truncated towards zero; the least
\* number divided by -1 is itself (sys/arith64.c:132-172, 206-210, 239-244).
LongDivisionRight ==
    at = "returned" /\ division.fn # "udivmoddi4" =>
        LET value(x) == IF Signed(division.fn) THEN SignedValue(x) ELSE x
            a == value(division.a)
            b == value(division.b)
            q == AbsoluteValue(a) \div AbsoluteValue(b)
        IN /\ b # 0
           /\ Quotient = Wrap(IF (a < 0) # (b < 0) THEN -q ELSE q)
           /\ \/ a = b * value(Quotient) + value(Remainder)
              \/ a = -Bit[BITS - 1] /\ b = -1
           /\ AbsoluteValue(value(Remainder)) < AbsoluteValue(b)

\* Shifts by halves move every bit to its place, for every count, and the
\* cascades and sums count bits (sys/arith64.c:46-127, 214-269).
WordsRight ==
    at \in {"justify", "divmod"} =>
        LET a == division.a
            B == BitsOf(a)
            Top == BITS - 1
            Sign(k) == IF k > Top THEN Top ELSE k
        IN /\ \A n \in 0..2 * BITS - 1 :
                 /\ BitsOf(ashldi3(a, n)) = {k \in 0..Top : k - (n % BITS) \in B}
                 /\ BitsOf(lshrdi3(a, n)) = {k \in 0..Top : k + (n % BITS) \in B}
                 /\ BitsOf(ashrdi3(a, n)) = {k \in 0..Top : Sign(k + (n % BITS)) \in B}
           /\ B # {} => clzdi2(a) = Top - Max(B) /\ ctzdi2(a) = Min(B)
           /\ ffsdi2(a) = IF B = {} THEN 0 ELSE Min(B) + 1
           /\ popcountdi2(a) = Cardinality(B)
=============================================================================
