------------------------------ MODULE MCLibrary ------------------------------
(***************************************************************************)
(* What runs alone from a call to its return: the divisions, the string    *)
(* functions, the conversions and sleeps of the library, requests for the  *)
(* contents of files, which task_fs takes one after the other, and the     *)
(* loader.  The parts share nothing; all but one are idle.                 *)
(***************************************************************************)
EXTENDS Arith64, Strings, Stdlib, Sleep, Loader, FileData

\* Words of 16 bits with numbers at the ends of bytes and words.
MCBit == [k \in 0..16 |-> 2^k]
MCOperand == {0, 1, 2, 3, 7, 10, 85, 127, 128, 255, 256, 257, 4660, 21845,
              32767, 32768, 32769, 43690, 65280, 65534, 65535}

\* The third character is the first in upper case.
MCCharMap == [c \in 0..3 |-> IF c = 3 THEN 1 ELSE c]

Directive(conv, flags, width, prec, length, arg) ==
    [conv |-> conv, flags |-> flags, width |-> width, prec |-> prec, size |-> length, arg |-> arg]
Integers1 == [conv : {"d", "u", "x", "X", "o", "b"}, flags : SUBSET {"0", "-", "+", " ", "#"},
              width : {-4, 0, 2, 4, 5}, prec : {-1, 0, 3}, size : {"l"}, arg : {0, 1, 17, 200}]
Others == {Directive("d", {}, 0, -1, "hh", 13), Directive("d", {}, 0, -1, "h", 200),
           Directive("u", {}, 0, -1, "ll", 513), Directive("p", {}, 0, -1, "l", 171),
           Directive("c", {"-"}, 3, -1, "l", "z"), Directive("s", {}, 4, 2, "l", <<"h", "e", "y">>),
           Directive("s", {}, -4, -1, "l", <<"h">>), Directive("%", {}, 0, -1, "l", 0),
           Directive("a", {}, 0, -1, "l", 0)}
MCFormat == {<<d>> : d \in Integers1} \union {<<d, e>> : d, e \in Others}

\* Up to three digits behind any sign, and a prefix.
Digits == UNION {[1..n -> {"0", "1", "9", "f", "x"}] : n \in 0..3}
MCText == {p \o q : p \in {<<>>, <<" ">>, <<"-">>, <<" ", "+">>, <<"0", "x">>, <<"-", "1", "2">>},
                    q \in Digits}

\* Milliseconds and seconds, short ones and such that overflow.
MCAsked == {-1, 0, 1, 2, 3, 4, 7, 11, 20, 32}

\* Files in order, backwards and scattered, that end in either segment or are
\* too large; numbers 3 and 5 of the FAT, the second of which is cut by the end
\* of a sector.
MCChain == {<<2>>, <<5>>, <<3, 2>>, <<4, 5, 6>>, <<9, 6, 5, 2>>, <<2, 3, 4, 5, 6>>}

\* No memory, little, less than the directory, the first table and the kernel
\* need, an end within the kernel with and without a table for the rest of it, a
\* part of a table, ranges out of order, and so much that the tables reach into
\* the kernel, with a range that ends at 4G.
MemRange(base, length, type) == [base |-> base, length |-> length, type |-> type]
MCMemMap == {<<>>, <<MemRange(0, 1, 2)>>, <<MemRange(0, 1, 1)>>, <<MemRange(0, 4, 1)>>,
             <<MemRange(0, 7, 1)>>, <<MemRange(0, 8, 1)>>,
             <<MemRange(0, 1, 1), MemRange(1, 9, 1), MemRange(12, 2, 2)>>,
             <<MemRange(1, 11, 1), MemRange(0, 1, 1)>>,
             <<MemRange(0, 27, 1), MemRange(30, 2, 1)>>}

\* Two files, one behind the other, and two descriptors of the first of them.
CONSTANTS f1, f2, d1, d2, d3

MCStart   == (f1 :> 0) @@ (f2 :> 3)
MCSectors == (f1 :> 3) @@ (f2 :> 1)
MCInode   == (d1 :> f1) @@ (d2 :> f1) @@ (d3 :> f2)

MCOffsets == {-2, 0, 1, 3, 6}

VARIABLE part       \* the part that is called

libraryVars == <<part, divideVars, stringVars, printVars, readVars, sleepVars,
                 loaderVars, vars>>

DivideIdle == /\ division = "none" /\ at = "idle" /\ num = 0 /\ den = 0 /\ quot = 0
              /\ qbit = 0 /\ rem = 0 /\ wrap = 0 /\ bits = 0
StringIdle == /\ strcall = "none" /\ mem = <<>> /\ last = NULL /\ ret = NULL
              /\ pieces = <<>> /\ strat = "idle"
PrintIdle  == printed = "none" /\ format = <<>> /\ idx = 0 /\ buffer = <<>> /\ printing = TRUE
ReadIdle   == readcall = "none" /\ result = NoResult
SleepIdle  == /\ sleepcall = [fn |-> "none", n |-> 0] /\ ticks = 0 /\ t = 0 /\ sleeping = "idle"
              /\ elapsed = 0 /\ waited = 0
LoaderIdle == /\ floppy = [name |-> <<>>, size |-> 0, chain |-> <<>>]
              /\ e820 = [map |-> <<>>, fails |-> FALSE] /\ booting = "idle" /\ MCRNumber = 0
              /\ wSectorNo = 0 /\ wRootDirSizeForLoop = 0 /\ cluster = 0 /\ es = 0 /\ bx = 0
              /\ fatbuf = <<>> /\ file = [s \in {VALID_SPACE \div BytsPerSec} |-> TheLoader]
              /\ dwMemSize = 0 /\ tables = 0 /\ pages = <<>>

LibraryInit ==
    /\ part \in {"divide", "string", "print", "read", "sleep", "load", "file"}
    /\ IF part = "divide" THEN DivideInit ELSE DivideIdle
    /\ IF part = "string" THEN StringInit ELSE StringIdle
    /\ IF part = "print"  THEN PrintInit  ELSE PrintIdle
    /\ IF part = "read"   THEN ReadInit   ELSE ReadIdle
    /\ IF part = "sleep"  THEN SleepInit  ELSE SleepIdle
    /\ IF part = "load"   THEN LoaderInit ELSE LoaderIdle
    /\ Init             \* no request yet

LibraryNext ==
    /\ UNCHANGED part
    /\ \/ part = "divide" /\ DivideNext /\ UNCHANGED vars
                          /\ UNCHANGED <<stringVars, printVars, readVars, sleepVars, loaderVars>>
       \/ part = "string" /\ StringNext /\ UNCHANGED vars
                          /\ UNCHANGED <<divideVars, printVars, readVars, sleepVars, loaderVars>>
       \/ part = "print"  /\ PrintNext /\ UNCHANGED vars
                          /\ UNCHANGED <<divideVars, stringVars, readVars, sleepVars, loaderVars>>
       \/ part = "read"   /\ Reads /\ UNCHANGED vars
                          /\ UNCHANGED <<divideVars, stringVars, printVars, sleepVars, loaderVars>>
       \/ part = "sleep"  /\ SleepNext /\ UNCHANGED vars
                          /\ UNCHANGED <<divideVars, stringVars, printVars, readVars, loaderVars>>
       \/ part = "load"   /\ LoaderNext /\ UNCHANGED vars
                          /\ UNCHANGED <<divideVars, stringVars, printVars, readVars, sleepVars>>
       \/ part = "file"   /\ Next
                          /\ UNCHANGED <<divideVars, stringVars, printVars, readVars, sleepVars,
                                         loaderVars>>

LibrarySpec == LibraryInit /\ [][LibraryNext]_libraryVars

\* Arithmetic, strings, numbers and printed text come out as they are meant,
\* what is printed as a number is read back as the same, and sleeps end in time.
CallsAsMeant ==
    CASE part = "divide" -> DivideTypeOK /\ LongDivisionRight /\ WordsRight
      [] part = "string" -> CopiesRight /\ SplitsRight /\ LooksRight
      [] part = "read"   -> ReadsNumbers
      [] part = "print"  -> PrintsAsMeant /\ ReadsBack
      [] part = "sleep"  -> SleepsInTime
      [] part \in {"load", "file"} -> TRUE
=============================================================================
