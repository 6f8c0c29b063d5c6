------------------------------- MODULE Stdlib -------------------------------
(***************************************************************************)
(* strtol and atoi of lib/stdlib.c.  A text is a sequence of characters;   *)
(* behind its end there is a NUL.  A call is one step.                     *)
(***************************************************************************)
EXTENDS Printf

CONSTANTS Text, Radix           \* the texts that are read, the bases given

LONG_MAX == LongMod \div 2 - 1
LONG_MIN == -(LongMod \div 2)

ASSUME StdlibAssumption == Radix \subseteq {0} \union 2..36

Foremost(S) == CHOOSE i \in S : \A j \in S : i <= j
At(text, i) == IF i \in DOMAIN text THEN text[i] ELSE "NUL"

\* The digits and letters of the texts; the others are no digits of any base.
DigitValue ==
    [c \in ToSet(Lower) \union ToSet(Upper) \union {"x", "X"} |->
        IF c \in {"x", "X"} THEN 33
        ELSE CHOOSE n \in 0..15 : c \in {Lower[n + 1], Upper[n + 1]}]

-----------------------------------------------------------------------------

\* Where the number begins: behind white space, the sign and 0x.
SignAt(text) == Foremost({i \in 1..Len(text) + 1 : At(text, i) # " "})
Negated(text) == At(text, SignAt(text)) = "-"
DigitsAt(text) == IF At(text, SignAt(text)) \in {"+", "-"} THEN SignAt(text) + 1 ELSE SignAt(text)
Hexadecimal(text, base) ==
    LET i == DigitsAt(text)
    IN base \in {0, 16} /\ At(text, i) = "0" /\ At(text, i + 1) \in {"x", "X"}
NumberAt(text, base) == DigitsAt(text) + (IF Hexadecimal(text, base) THEN 2 ELSE 0)

BaseOf(text, base) ==
    CASE base = 0 /\ Hexadecimal(text, base)   -> 16
      [] base = 0 /\ ~Hexadecimal(text, base)  -> IF At(text, DigitsAt(text)) = "0" THEN 8 ELSE 10
      [] OTHER                                 -> base

NumberEnd(text, base) ==
    Foremost({i \in NumberAt(text, base)..Len(text) + 3 :
                \/ At(text, i) \notin DOMAIN DigitValue
                \/ DigitValue[At(text, i)] >= BaseOf(text, base)})

\* The largest magnitude, which is one more below zero.
Limit(text) == IF Negated(text) THEN -LONG_MIN ELSE LONG_MAX

\* Variant: a number as large as the cutoff takes any further digit.
TooLargeAbove(text, base, acc, c) == acc > Limit(text) \div BaseOf(text, base)

\* One digit more would go beyond the limit.
TooLarge(text, base, acc, c) ==
    LET cutoff == Limit(text) \div BaseOf(text, base)
        cutlim == Limit(text) % BaseOf(text, base)
    IN acc > cutoff \/ (acc = cutoff /\ c > cutlim)

RECURSIVE Accumulated(_, _, _, _)
\* The digits from i on, [acc, any]; any stays -1 once the number is too large.
Accumulated(text, base, i, r) ==
    LET c == DigitValue[At(text, i)]
    IN IF i = NumberEnd(text, base) THEN r
       ELSE Accumulated(text, base, i + 1,
              IF r.any < 0 \/ TooLarge(text, base, r.acc, c) THEN [r EXCEPT !.any = -1]
              ELSE [acc |-> (r.acc * BaseOf(text, base) + c) % LongMod, any |-> 1])

\* [value, end, errno], end the place of endptr in the text.
strtol(text, base) ==
    LET r == Accumulated(text, base, NumberAt(text, base), [acc |-> 0, any |-> 0])
    IN [value |-> CASE r.any < 0                      -> IF Negated(text) THEN LONG_MIN ELSE LONG_MAX
                    [] r.any >= 0 /\ Negated(text)    -> -r.acc
                    [] r.any >= 0 /\ ~Negated(text)   -> r.acc,
        end   |-> IF r.any = 0 THEN 1 ELSE NumberEnd(text, base),
        errno |-> IF r.any < 0 THEN "ERANGE" ELSE "0"]

atoi(text) == strtol(text, 10).value

VARIABLES readcall, result      \* [text, base], what strtol returned
readVars == <<readcall, result>>

NoResult == [value |-> 0, end |-> 0, errno |-> "none"]

ReadInit ==
    /\ readcall \in [text : Text, base : Radix]
    /\ result = NoResult

Reads ==
    /\ result = NoResult
    /\ result' = strtol(readcall.text, readcall.base)
    /\ UNCHANGED readcall

-----------------------------------------------------------------------------
(* Properties.                                                             *)

RECURSIVE Exact(_, _)
\* The number that a sequence of digit values stands for.
Exact(q, base) == IF q = <<>> THEN 0 ELSE Exact(Front(q), base) * base + Last(q)

\* The number that the text begins with is read exactly, or cut to the nearest
\* long and reported, and endptr is behind its last digit
\* (lib/stdlib.c:6-87).
ReadsNumbers ==
    result # NoResult =>
        LET base == BaseOf(readcall.text, readcall.base)
            from == NumberAt(readcall.text, readcall.base)
            end  == NumberEnd(readcall.text, readcall.base)
            size == Exact([i \in 1..end - from |-> DigitValue[readcall.text[from + i - 1]]], base)
            n    == IF Negated(readcall.text) THEN -size ELSE size
        IN /\ result.value = (CASE n < LONG_MIN -> LONG_MIN [] n > LONG_MAX -> LONG_MAX [] OTHER -> n)
           /\ result.errno = "ERANGE" <=> n \notin LONG_MIN..LONG_MAX
           /\ result.end = IF end > from THEN end ELSE 1

\* What printf has written as a number, strtol reads back as the same number
\* in the base of the conversion, with its padding, sign and prefix.
ReadsBack ==
    ~printing /\ Len(printed.format) = 1 =>
        LET d == printed.format[1]
            readable == /\ Integer(d) /\ d.size = "l" /\ ~Differs(d)
                        /\ Value(d) =< LONG_MAX /\ ~("#" \in Flags(d) /\ d.conv = "b")
        IN readable => strtol(Converted(d), Base(d)).value = Value(d)
=============================================================================
