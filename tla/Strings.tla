------------------------------- MODULE Strings -------------------------------
(***************************************************************************)
(* The string functions of lib/string.c and lib/strings.c on a memory of   *)
(* characters.  A string is the address of its first character and ends    *)
(* before the next NUL.  A call is one step; strtok and strsep are called  *)
(* until nothing is left, and strtok keeps its place in a static variable. *)
(***************************************************************************)
EXTENDS Integers, SequencesExt, FiniteSetsExt

CONSTANTS
    Char,       \* the characters, numbers above 0
    CharMap,    \* charmap: every character in lower case
    MaxLen,     \* the longest string
    SIZE        \* size_t has SIZE values

NUL == 0
NULL == -1

\* Where the strings of the calls lie: the first with room for two of them
\* and what lies behind it.
Dest == 0
Src == 2 * MaxLen + 2
Address == 0 .. Src + MaxLen

ASSUME StringsAssumption ==
    /\ Char \subseteq Nat \ {0}
    /\ CharMap \in [Char \union {NUL} -> Nat]
    /\ MaxLen \in Nat \ {0} /\ SIZE \in Nat /\ SIZE > 2 * MaxLen

First(S) == CHOOSE x \in S : \A y \in S : x <= y
EndOf(m, s) == First({p \in Address : p >= s /\ m[p] = NUL})
Set(m, s) == {m[p] : p \in s..EndOf(m, s) - 1}

-----------------------------------------------------------------------------
(* Copying: the result is [mem, ret].                                      *)

RECURSIVE Copied(_, _, _, _)
\* The loop of strcpy and its relatives: n cells at most, the last for the
\* NUL; n is counted down first and wraps at 0.
Copied(m, d, s, n) ==
    LET left == (n - 1) % SIZE
    IN IF m[s] # NUL /\ left # 0
           THEN Copied([m EXCEPT ![d] = m[s]], d + 1, s + 1, left)
           ELSE [mem |-> [m EXCEPT ![d] = NUL], end |-> d]

Appended(m, d, s, n) == Copied(m, EndOf(m, d), s, n)

strcpy(m, d, s) == [mem |-> Copied(m, d, s, 0).mem, ret |-> d]
stpcpy(m, d, s) == [mem |-> Copied(m, d, s, 0).mem, ret |-> Copied(m, d, s, 0).end]
strncpy(m, d, s, n) == [mem |-> Copied(m, d, s, n).mem, ret |-> d]
strcat(m, d, s) == [mem |-> Appended(m, d, s, 0).mem, ret |-> d]
strncat(m, d, s, n) == [mem |-> Appended(m, d, s, n).mem, ret |-> d]

RECURSIVE Moved(_, _, _, _)
\* From the lowest address on, also when the two overlap.
Moved(m, d, s, n) ==
    IF n = 0 THEN m ELSE Moved([m EXCEPT ![d] = m[s]], d + 1, s + 1, n - 1)

memcpy(m, d, s, n) == [mem |-> Moved(m, d, s, n), ret |-> d]
memset(m, d, c, n) ==
    [mem |-> [p \in Address |-> IF p \in d..d + n - 1 THEN c ELSE m[p]], ret |-> d + n]

-----------------------------------------------------------------------------
(* Looking: the result is a number or an address.                          *)

\* The difference where a comparison stops: at a character of ends, at the
\* first two that differ, or at n at the latest.
Compared(m, s, t, n, ends) ==
    LET S == {i \in 0..n - 1 : m[s + i] \in ends \/ m[s + i] # m[t + i]}
        i == IF S = {} THEN n - 1 ELSE First(S)
    IN IF n = 0 THEN 0 ELSE m[s + i] - m[t + i]

strcmp(m, s, t) == Compared(m, s, t, MaxLen + 1, {NUL})
strncmp(m, s, t, n) == Compared(m, s, t, n, {NUL})
memcmp(m, s, t, n) == Compared(m, s, t, n, {})
strcasecmp(m, s, t) == strcmp([p \in Address |-> CharMap[m[p]]], s, t)
strncasecmp(m, s, t, n) == strncmp([p \in Address |-> CharMap[m[p]]], s, t, n)

strlen(m, s) == EndOf(m, s) - s

\* NUL is looked for like any other character.
Found(m, s, c) == {p \in s..EndOf(m, s) : m[p] = c}
strchr(m, s, c) == IF Found(m, s, c) = {} THEN NULL ELSE First(Found(m, s, c))
strrchr(m, s, c) == IF Found(m, s, c) = {} THEN NULL ELSE Max(Found(m, s, c))

strspn(m, s, t) == First({p \in s..EndOf(m, s) : m[p] \notin Set(m, t)}) - s
strcspn(m, s, t) == First({p \in s..EndOf(m, s) : m[p] \in Set(m, t) \union {NUL}}) - s
strpbrk(m, s, t) ==
    LET p == s + strcspn(m, s, t) IN IF m[p] = NUL THEN NULL ELSE p

RECURSIVE Matches(_, _, _), strstr(_, _, _)
Matches(m, a, b) == m[b] = NUL \/ (m[a] = m[b] /\ Matches(m, a + 1, b + 1))
strstr(m, s, t) ==
    CASE m[t] = NUL                     -> s
      [] m[t] # NUL /\ m[s] = NUL       -> NULL
      [] m[t] # NUL /\ m[s] # NUL       -> IF Matches(m, s, t) THEN s ELSE strstr(m, s + 1, t)

-----------------------------------------------------------------------------
(* Splitting: the result is [mem, ret, next], next the static variable of  *)
(* strtok or *stringp of strsep.                                           *)

\* A piece ends at the next delimiter, which becomes NUL, or with the string.
PieceFrom(m, s, delim) ==
    LET e == s + strcspn(m, s, delim)
    IN [mem |-> [m EXCEPT ![e] = NUL], ret |-> s,
        next |-> IF m[e] = NUL THEN NULL ELSE e + 1]

strsep(m, s, delim) ==
    IF s = NULL THEN [mem |-> m, ret |-> NULL, next |-> s] ELSE PieceFrom(m, s, delim)

TokenFrom(m, s, delim) == s + strspn(m, s, delim)

strtok(m, s, delim) ==
    IF s = NULL \/ m[TokenFrom(m, s, delim)] = NUL
        THEN [mem |-> m, ret |-> NULL, next |-> NULL]
        ELSE PieceFrom(m, TokenFrom(m, s, delim), delim)

-----------------------------------------------------------------------------
(* A program that calls them.                                              *)

Copying == {"strcpy", "stpcpy", "strncpy", "strcat", "strncat", "memcpy", "memset"}
Splitting == {"strtok", "strsep"}

VARIABLES
    strcall,    \* [fn, d, s, n]: the two strings and a count
    mem,
    last,       \* the static variable of strtok, or what stringp points to
    ret,        \* what the call returned
    pieces,     \* the strings strtok or strsep has returned
    strat       \* "called" or "returned"

stringVars == <<strcall, mem, last, ret, pieces, strat>>

Str(m, s) == [i \in 1..strlen(m, s) |-> m[s + i - 1]]
Strings == BoundedSeq(Char, MaxLen)
\* What lies behind a string is not NUL.
Garbage == Max(Char)

Memory(d, s) ==
    LET At(p, a, q) == CASE p - a + 1 \in DOMAIN q -> q[p - a + 1]
                         [] p - a = Len(q)         -> NUL
                         [] OTHER                  -> Garbage
    IN [p \in Address |-> IF p < Src THEN At(p, Dest, d) ELSE At(p, Src, s)]

StringInit ==
    /\ strcall \in [fn : Copying \union Splitting, d : Strings, s : Strings, n : 0..MaxLen + 1]
    /\ strcall.n > 0 => strcall.fn \in {"strncpy", "strncat", "memcpy", "memset"}
    /\ mem = Memory(strcall.d, strcall.s)
    /\ last = IF strcall.fn \in Splitting THEN Dest ELSE NULL
    /\ ret = NULL /\ pieces = <<>> /\ strat = "called"

Copies ==
    /\ strat = "called" /\ strcall.fn \in Copying
    /\ LET n == strcall.n
           r == CASE strcall.fn = "strcpy"  -> strcpy(mem, Dest, Src)
                  [] strcall.fn = "stpcpy"  -> stpcpy(mem, Dest, Src)
                  [] strcall.fn = "strncpy" -> strncpy(mem, Dest, Src, n)
                  [] strcall.fn = "strcat"  -> strcat(mem, Dest, Src)
                  [] strcall.fn = "strncat" -> strncat(mem, Dest, Src, n)
                  [] strcall.fn = "memcpy"  -> memcpy(mem, Dest, Src, n)
                  [] strcall.fn = "memset"  -> memset(mem, Dest, NUL, n)
       IN mem' = r.mem /\ ret' = r.ret
    /\ strat' = "returned"
    /\ UNCHANGED <<strcall, last, pieces>>

\* The second string holds the delimiters.
Splits ==
    /\ strat = "called" /\ strcall.fn \in Splitting
    /\ LET r == IF strcall.fn = "strtok" THEN strtok(mem, last, Src)
                                         ELSE strsep(mem, last, Src)
       IN /\ mem' = r.mem /\ ret' = r.ret /\ last' = r.next
          /\ IF r.ret = NULL
                THEN strat' = "returned" /\ UNCHANGED pieces
                ELSE pieces' = Append(pieces, Str(r.mem, r.ret)) /\ UNCHANGED strat
    /\ UNCHANGED strcall

StringNext == Copies \/ Splits

-----------------------------------------------------------------------------
(* Properties.                                                             *)

\* The first n characters of a sequence.
Take(q, n) == SubSeq(q, 1, IF n < Len(q) THEN n ELSE Len(q))

\* What a copying call leaves at the destination, and the cells it may touch.
Copy ==
    LET d == strcall.d
        s == strcall.s
        n == strcall.n
    IN CASE strcall.fn = "strncpy" -> Take(s, n - 1)
         [] strcall.fn = "strcat"  -> d \o s
         [] strcall.fn = "strncat" -> d \o Take(s, n - 1)
         [] OTHER                  -> s

\* A copy is the string or as much of it as has room together with its NUL,
\* and nothing behind the NUL is touched (lib/string.c:38-63, 90-100,
\* 130-169); a count of 0, which both take for no bound, is left out.
CopiesRight ==
    strat = "returned" /\ strcall.fn \in Copying \ {"memcpy", "memset"}
            /\ (strcall.fn \in {"strncpy", "strncat"} => strcall.n > 0) =>
        /\ Str(mem, Dest) = Copy
        /\ \A p \in Address : p > Len(Copy) => mem[p] = Memory(strcall.d, strcall.s)[p]
        /\ ret = IF strcall.fn = "stpcpy" THEN EndOf(mem, Dest) ELSE Dest

\* The pieces of a sequence between delimiters, the empty ones too.
RECURSIVE PiecesOf(_, _)
PiecesOf(q, delims) ==
    LET S == {i \in DOMAIN q : q[i] \in delims}
    IN IF S = {} THEN <<q>>
       ELSE <<Take(q, Min(S) - 1)>> \o PiecesOf(SubSeq(q, Min(S) + 1, Len(q)), delims)

\* strsep returns the pieces between delimiters, strtok those that are not
\* empty, all of them and in their order, although the delimiters are
\* overwritten on the way (lib/string.c:198-224, 268-314).
SplitsRight ==
    strcall.fn \in Splitting =>
        LET all == PiecesOf(strcall.d, ToSet(strcall.s))
            due == IF strcall.fn = "strsep" THEN all
                                            ELSE SelectSeq(all, LAMBDA q : q # <<>>)
        IN IsPrefix(pieces, due) /\ (strat = "returned" => pieces = due)

\* q comes before r: it is shorter or smaller where they differ first.
Before(q, r) ==
    \E i \in 1..Len(r) :
        /\ Take(q, i - 1) = Take(r, i - 1)
        /\ i \in DOMAIN q => q[i] < r[i]
        /\ Len(q) >= i - 1

\* Comparisons order strings like a dictionary, the bounded ones by their
\* beginnings, and searches find the first, the last or the longest there is
\* (lib/string.c:24-36, 65-88, 102-120, 145-157, 171-196, 226-266).
LooksRight ==
    strat = "called" /\ strcall.fn = "strncpy" =>
        LET d == strcall.d
            s == strcall.s
            n == strcall.n
            Lowered(q) == [i \in DOMAIN q |-> CharMap[q[i]]]
            Ordered(c, q, r) == (c < 0 <=> Before(q, r)) /\ (c > 0 <=> Before(r, q))
            Subs == {i \in 0..Len(d) - Len(s) : SubSeq(d, i + 1, i + Len(s)) = s}
        IN /\ Ordered(strcmp(mem, Dest, Src), d, s)
           /\ Ordered(strncmp(mem, Dest, Src, n), Take(d, n), Take(s, n))
           /\ Ordered(strcasecmp(mem, Dest, Src), Lowered(d), Lowered(s))
           /\ Ordered(strncasecmp(mem, Dest, Src, n), Lowered(Take(d, n)), Lowered(Take(s, n)))
           /\ strstr(mem, Dest, Src) = IF Subs = {} THEN NULL ELSE Min(Subs)
           /\ \A c \in Char : strchr(mem, Dest, c) # NULL <=> c \in ToSet(d)
           /\ strspn(mem, Dest, Src) = Max({i \in 0..Len(d) : ToSet(Take(d, i)) \subseteq ToSet(s)})
           /\ strpbrk(mem, Dest, Src) = NULL <=> ToSet(d) \intersect ToSet(s) = {}
=============================================================================
