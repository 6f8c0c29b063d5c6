------------------------------- MODULE Printf -------------------------------
(***************************************************************************)
(* vsnprintf of lib/printf.cpp without the conversions of floating point.  *)
(* A format is a sequence of directives, each with its argument; a step    *)
(* converts one of them.  Every conversion goes through out, which bounds  *)
(* what is stored by the size of the caller's buffer.                      *)
(***************************************************************************)
EXTENDS Integers, SequencesExt

CONSTANTS
    CharMod, ShortMod, LongMod, LongLongMod,    \* the values the types have
    NTOA_BUFFER_SIZE,                           \* PRINTF_NTOA_BUFFER_SIZE
    PointerDigits,                              \* sizeof(void*) * 2
    Format,                                     \* the formats printed
    Count,                                      \* the sizes of the buffer
    Room                                        \* the cells there really are

NoPrecision == -1       \* no '.' in the directive
Signs == {"+", " "}

\* [conv, flags, width, prec, size, arg]: prec and width as they were read,
\* from the digits or from the argument for '*'.  A letter stands for itself.
Integer(d) == d.conv \in {"d", "u", "x", "X", "o", "b"}

ASSUME PrintfAssumption ==
    /\ {CharMod, ShortMod, LongMod, LongLongMod} \subseteq Nat \ {0}
    /\ NTOA_BUFFER_SIZE \in Nat \ {0} /\ PointerDigits \in Nat
    /\ Count \subseteq 0..Room

-----------------------------------------------------------------------------
(* The conversion of an integer                                            *)

\* A negative width means that the text is put to the left.
Flags(d) ==
    LET f == IF d.width < 0 THEN d.flags \union {"-"} ELSE d.flags
    IN CASE d.conv = "d"                   -> f \ {"#"}
         [] d.conv = "u"                   -> f \ ({"#"} \union Signs)
         [] d.conv \in {"x", "X", "o", "b"} -> f \ Signs
         [] d.conv = "p"                   -> f \union {"0"}
         [] OTHER                          -> f
Width(d) == CASE d.conv = "p" -> PointerDigits [] d.width < 0 -> -d.width [] OTHER -> d.width
HasPrecision(d) == d.prec # NoPrecision
Precision(d) == IF d.prec > 0 THEN d.prec ELSE 0

Base(d) == CASE d.conv \in {"x", "X", "p"} -> 16 [] d.conv = "o" -> 8
             [] d.conv = "b" -> 2 [] OTHER -> 10

Mod(d) == CASE d.conv = "p" -> LongMod [] d.size = "hh" -> CharMod [] d.size = "h" -> ShortMod
            [] d.size = "ll" -> LongLongMod [] OTHER -> LongMod

\* The argument in the type that the size says; its magnitude is unsigned, so
\* that the least number has one.
Value(d) ==
    LET v == d.arg % Mod(d)
    IN IF d.conv = "d" /\ v >= Mod(d) \div 2 THEN v - Mod(d) ELSE v
Magnitude(d) == IF Value(d) > 0 THEN Value(d) ELSE 0 - Value(d)

Lower == <<"0", "1", "2", "3", "4", "5", "6", "7", "8", "9", "a", "b", "c", "d", "e", "f">>
Upper == <<"0", "1", "2", "3", "4", "5", "6", "7", "8", "9", "A", "B", "C", "D", "E", "F">>
Digit(d, n) == IF d.conv \in {"X", "p"} THEN Upper[n + 1] ELSE Lower[n + 1]

Repeated(c, n) == [i \in 1..n |-> c]
\* The buffer of ntoa takes no more than its size.
Cut(s) == SubSeq(s, 1, IF Len(s) < NTOA_BUFFER_SIZE THEN Len(s) ELSE NTOA_BUFFER_SIZE)
PaddedTo(s, n) == Cut(s \o Repeated("0", n - Len(s)))

RECURSIVE DigitsOf(_, _)
\* The digits of a number, the lowest first.
DigitsOf(d, n) ==
    <<Digit(d, n % Base(d))>> \o
        (IF n < Base(d) THEN <<>> ELSE DigitsOf(d, n \div Base(d)))

ntoa_l_internal(d) ==
    IF HasPrecision(d) /\ Value(d) = 0 THEN <<>> ELSE Cut(DigitsOf(d, Magnitude(d)))

\* Precision switches zero padding off, except for pointers.
ZeroPads(d) == "0" \in Flags(d) /\ (HasPrecision(d) => d.conv = "p")
\* A sign takes one of the places that zeros fill.
ZeroWidth(d) ==
    IF ZeroPads(d) /\ "-" \notin Flags(d) /\ Width(d) > 0
          /\ (Value(d) < 0 \/ Flags(d) \intersect Signs # {})
        THEN Width(d) - 1 ELSE Width(d)

Zeroed(d) ==
    LET s == PaddedTo(ntoa_l_internal(d), Precision(d))
    IN IF "-" \in Flags(d) THEN ntoa_l_internal(d)
       ELSE IF ZeroPads(d) THEN PaddedTo(s, ZeroWidth(d)) ELSE s

\* The prefix takes the place of zeros, when the number has filled the field.
RoomForPrefix(d, s) ==
    IF ~HasPrecision(d) /\ s # <<>> /\ Len(s) \in {Precision(d), ZeroWidth(d)}
        THEN SubSeq(s, 1, Len(s) - (IF Base(d) = 16 /\ Len(s) > 1 THEN 2 ELSE 1))
        ELSE s

Prefixed(d, s) ==
    LET letter == CASE d.conv = "x" -> <<"x">> [] d.conv \in {"X", "p"} -> <<"X">>
                    [] d.conv = "b" -> <<"b">> [] OTHER -> <<>>
    IN IF "#" \in Flags(d) /\ Value(d) # 0
           THEN Cut(Cut(RoomForPrefix(d, s) \o letter) \o <<"0">>)
           ELSE s

Sign(d) == CASE Value(d) < 0                               -> <<"-">>
             [] Value(d) >= 0 /\ "+" \in Flags(d)          -> <<"+">>
             [] Value(d) >= 0 /\ Flags(d) \intersect Signs = {" "} -> <<" ">>
             [] OTHER                                      -> <<>>

\* The text is in the buffer in reverse, and spaces fill the width.
out_rev_internal(d, s) ==
    LET spaces == Repeated(" ", Width(d) - Len(s))
    IN IF "-" \in Flags(d) THEN Reverse(s) \o spaces
       ELSE IF ZeroPads(d) THEN Reverse(s) ELSE spaces \o Reverse(s)

ntoa_format_internal(d) == out_rev_internal(d, Cut(Prefixed(d, Zeroed(d)) \o Sign(d)))

-----------------------------------------------------------------------------
(* The other conversions                                                   *)

\* Spaces up to the width, on the side that the flag says.
Filled(d, s) ==
    LET spaces == Repeated(" ", Width(d) - Len(s))
    IN IF "-" \in Flags(d) THEN s \o spaces ELSE spaces \o s

\* The argument of %s is a sequence, of which precision takes the beginning.
StringOf(d) ==
    IF HasPrecision(d) /\ Precision(d) < Len(d.arg) THEN SubSeq(d.arg, 1, Precision(d)) ELSE d.arg

Converted(d) ==
    CASE Integer(d) \/ d.conv = "p" -> ntoa_format_internal(d)
      [] d.conv = "c" -> Filled(d, <<d.arg>>)
      [] d.conv = "s" -> Filled(d, StringOf(d))
      [] d.conv = "%" -> <<"%">>
      [] OTHER        -> <<d.conv>>

-----------------------------------------------------------------------------
(* vsnprintf                                                               *)

VARIABLES
    printed,    \* the call: [format, count], count the size it is told
    format,     \* what is left of the format
    idx,        \* the characters put out so far
    buffer,     \* the caller's buffer and what lies behind it
    printing    \* the call has not returned

printVars == <<printed, format, idx, buffer, printing>>

\* Variant: the size counts the characters behind the first.
out_buffer_past(b, i, s, maxlen) ==
    [c \in 0..Room |-> IF c - i + 1 \in DOMAIN s /\ c =< maxlen THEN s[c - i + 1] ELSE b[c]]

\* What out stores of a text that begins at i.
out_buffer_internal(b, i, s, maxlen) ==
    [c \in 0..Room |-> IF c - i + 1 \in DOMAIN s /\ c < maxlen THEN s[c - i + 1] ELSE b[c]]

PrintInit ==
    /\ printed \in [format : Format, count : Count]
    /\ format = printed.format
    /\ idx = 0 /\ buffer = [c \in 0..Room |-> "other"] /\ printing = TRUE

Converts ==
    /\ printing /\ format # <<>>
    /\ LET s == Converted(Head(format))
       IN /\ buffer' = out_buffer_internal(buffer, idx, s, printed.count)
          /\ idx' = idx + Len(s)
    /\ format' = Tail(format)
    /\ UNCHANGED <<printed, printing>>

\* The NUL goes behind the text or into the last cell; maxlen - 1 wraps when
\* the size is 0, and out stores nothing.
Terminates ==
    /\ printing /\ format = <<>>
    /\ LET end == IF idx < printed.count THEN idx ELSE printed.count - 1
       IN buffer' = IF printed.count = 0 THEN buffer
                    ELSE out_buffer_internal(buffer, end, <<"NUL">>, printed.count)
    /\ printing' = FALSE
    /\ UNCHANGED <<printed, format, idx>>

PrintNext == Converts \/ Terminates

-----------------------------------------------------------------------------
(* Properties.                                                             *)

\* What C says a directive stands for.
Meant(d) ==
    LET plain  == IF HasPrecision(d) /\ Value(d) = 0 THEN <<>>
                  ELSE Reverse(DigitsOf(d, Magnitude(d)))
        digits == Repeated("0", Precision(d) - Len(plain)) \o plain
        prefix == IF "#" \notin Flags(d) \/ Value(d) = 0 THEN <<>>
                  ELSE CASE d.conv = "x" -> <<"0", "x">> [] d.conv = "X" -> <<"0", "X">>
                         [] d.conv = "b" -> <<"0", "b">> [] OTHER -> <<"0">>
        front  == Sign(d) \o prefix
        zeros  == IF ZeroPads(d) /\ "-" \notin Flags(d)
                      THEN Repeated("0", Width(d) - Len(front) - Len(digits)) ELSE <<>>
    IN CASE Integer(d) -> Filled(d, front \o zeros \o digits)
         [] OTHER      -> Converted(d)

\* Where this printf is known to differ: text that its buffer does not hold,
\* a precision in a field put to the left, a prefix that takes the place of
\* digits or of too few zeros, and an octal one in addition to leading zeros.
Differs(d) ==
    LET digits == Len(ntoa_l_internal(d))
    IN /\ Integer(d)
       /\ \/ digits + 3 > NTOA_BUFFER_SIZE
          \/ Precision(d) + 3 > NTOA_BUFFER_SIZE
          \/ ZeroPads(d) /\ Width(d) > NTOA_BUFFER_SIZE
          \/ "-" \in Flags(d) /\ Precision(d) > digits
          \/ "#" \in Flags(d) /\ Width(d) \in {digits, digits + 1}
          \/ "#" \in Flags(d) /\ Base(d) = 2 /\ ZeroPads(d)
          \/ "#" \in Flags(d) /\ Base(d) = 8 /\ Precision(d) > digits

\* For every format in which no directive differs, the caller gets what C
\* means by it, cut to the size of the buffer and ended by a NUL; nothing is
\* stored behind that size; and what is returned is the whole length
\* (lib/printf.cpp:43-192, 438-733).
PrintsAsMeant ==
    ~printing /\ (\A i \in DOMAIN printed.format : ~Differs(printed.format[i])) =>
        LET text == FlattenSeq([i \in DOMAIN printed.format |-> Meant(printed.format[i])])
            kept == IF Len(text) < printed.count THEN Len(text) ELSE printed.count - 1
        IN /\ idx = Len(text)
           /\ \A c \in 0..Room :
                 buffer[c] = CASE c < kept                           -> text[c + 1]
                               [] c = kept /\ printed.count > 0      -> "NUL"
                               [] OTHER                              -> "other"
=============================================================================
