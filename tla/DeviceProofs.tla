---------------------------- MODULE DeviceProofs ----------------------------
(* Proofs about the two devices of the terminals.  For consoles of any size *)
(* the loop that follows the cursor ends but for a cursor above the screen, *)
(* and the screen shows the output; memory is looked at in rows of the      *)
(* width of the screen.  For any                                            *)
(* keyboard and a ring of any size the keys come as they were typed: the    *)
(* codes that nobody has read lead the reader to where the keyboard is.     *)
EXTENDS Keyboard, Console, WellFoundedInduction, TLAPS

H == CONSOLE_SCREEN_HEIGHT
P == video_memory_size_per_console

\* How far the rows of the memory are apart that hold the same line, once the
\* last lines have been copied to the beginning.
Apart == Lines - H + 1

CursorRow(c) == consoles_table[c].cursor \div W
Top(c) == consoles_table[c].current_start_address \div W

\* The line that row j holds: behind the cursor the memory is from the time before
\* it was used again.
LineIn(c, j) ==
    line[c] - CursorRow(c) + j
        - (IF consoles_table[c].is_full /\ j > CursorRow(c) THEN Apart ELSE 0)

\* Lines are counted with the rows; the screen does not begin behind the cursor
\* before the memory is used as a ring.
LineInStep(c) ==
    /\ line[c] <= MaxLine[c]
    /\ IF consoles_table[c].is_full
       THEN line[c] - CursorRow(c) > Apart
       ELSE /\ line[c] = CursorRow(c) + 1
            /\ consoles_table[c].current_start_address <= consoles_table[c].cursor

\* There is no text behind the cursor.
NothingAhead(c) ==
    /\ \A n \in 1..MaxLine[c] : n > line[c] => text[c][n] = {}
    /\ \A x \in text[c][line[c]] : x < consoles_table[c].cursor % W

\* The memory holds the text of its lines and nothing else.
MemoryInStep(c) ==
    \A j \in 0..Lines - 1, x \in 0..W - 1 :
        cells[c][W * j + x] =
            IF LineIn(c, j) <= line[c] /\ x \in text[c][LineIn(c, j)]
            THEN LineIn(c, j) ELSE Blank

\* The screen begins with the line it is said to, and does not hold both the
\* newest line and older ones behind it.
ViewInStep(c) ==
    /\ shown[c] = LineIn(c, Top(c))
    /\ consoles_table[c].is_full =>
          CursorRow(c) >= H - 1 /\ (Top(c) <= CursorRow(c) => Top(c) + H - 1 <= CursorRow(c))

InStep(c) ==
    /\ LineInStep(c) /\ NothingAhead(c)
    /\ plain[c] => MemoryInStep(c) /\ ViewInStep(c)

ControllerInStep ==
    crtc = [console |-> current_console_id,
            cursor  |-> consoles_table[current_console_id].cursor,
            start   |-> consoles_table[current_console_id].current_start_address]

\* The loop has no end: the screen begins behind the newest line, with remains.
HangsInStep(c) == AboveScreen(consoles_table[c]) /\ shown[c] > line[c]

CInv ==
    /\ ConsoleTypeOK /\ ControllerInStep
    /\ ~hung => \A c \in Console : InStep(c)
    /\ hung => \E c \in Console : HangsInStep(c) /\ \A d \in Console \ {c} : InStep(d)

-----------------------------------------------------------------------------
(* Rows and columns.                                                       *)

LEMMA Sizes ==
    /\ W \in Nat /\ W > 0 /\ H \in Nat /\ H > 1 /\ Lines \in Nat /\ Lines > H
    /\ Apart \in Nat /\ Apart > 1 /\ Apart = Lines - H + 1
    /\ CONSOLE_SCREEN_SIZE = W * H /\ console_size = W * Lines
    /\ P \in Nat /\ P >= W * Lines /\ W * Lines \in Nat
    /\ MaxLine \in [Console -> Nat \ {0}]
    /\ NUM_CONSOLES \in Nat \ {0} /\ 0 \in Console
  <1>1. W * Lines \in Nat
    BY ConsoleAssumption
  <1> QED BY <1>1, ConsoleAssumption
          DEF H, P, Apart, CONSOLE_SCREEN_SIZE, console_size, Console

\* A row is before another by a width at least.
LEMMA RowsApart ==
    ASSUME NEW i \in Int, NEW j \in Int
    PROVE  /\ W * i \in Int
           /\ i < j => W * i + W <= W * j
           /\ i <= j <=> W * i <= W * j
           /\ i = j <=> W * i = W * j
           /\ W * (i + j) = W * i + W * j /\ W * (i - j) = W * i - W * j
           /\ W * (i + 1) = W * i + W /\ W * (i - 1) = W * i - W
           /\ W * i = i * W
  <1>1. W \in Nat /\ W > 0
    BY Sizes
  <1>2. ASSUME NEW m \in Int, NEW n \in Int, m < n
        PROVE  W * m + W <= W * n
    <2>1. (n - m - 1) * W >= 0
      BY <1>1, <1>2
    <2>2. (n - m - 1) * W = W * n - W * m - W
      BY <1>1
    <2>3. W * m \in Int /\ W * n \in Int
      BY <1>1
    <2> QED BY <1>1, <2>1, <2>2, <2>3
  <1>3. W * i \in Int /\ W * j \in Int
    BY <1>1
  <1>4. i < j => W * i + W <= W * j
    BY <1>2
  <1>5. j < i => W * j + W <= W * i
    BY <1>2
  <1>6. /\ W * (i + j) = W * i + W * j /\ W * (i - j) = W * i - W * j
        /\ W * (i + 1) = W * i + W /\ W * (i - 1) = W * i - W
        /\ W * i = i * W
    BY <1>1
  <1>7. (i <= j <=> W * i <= W * j) /\ (i = j <=> W * i = W * j)
    BY <1>1, <1>3, <1>4, <1>5
  <1> QED BY <1>3, <1>4, <1>6, <1>7

LEMMA RowsAdd ==
    ASSUME NEW i \in Int, NEW j \in Int
    PROVE  W * (i + j) = W * i + W * j /\ W * (i - j) = W * i - W * j
  BY RowsApart

LEMMA NextRow ==
    ASSUME NEW i \in Int
    PROVE  W * i \in Int /\ W * (i + 1) = W * i + W /\ W * (i - 1) = W * i - W
  BY RowsApart

LEMMA RowAndColumn ==
    ASSUME NEW a \in Nat
    PROVE  /\ a \div W \in Nat /\ a % W \in 0..W - 1
           /\ a = W * (a \div W) + (a % W)
  BY Sizes

\* The row and the column of a cell.
LEMMA CellIs ==
    ASSUME NEW j \in Nat, NEW x \in 0..W - 1
    PROVE  /\ W * j + x \in Nat
           /\ (W * j + x) \div W = j /\ (W * j + x) % W = x
  <1>1. W \in Nat /\ W > 0
    BY Sizes
  <1>2. W * j \in Nat
    BY <1>1
  <1> DEFINE a == W * j + x
             q == a \div W
             z == a % W
  <1>3. a \in Nat
    BY <1>1, <1>2
  <1>4. q \in Nat /\ z \in 0..W - 1 /\ a = W * q + z
    BY <1>3, RowAndColumn
  <1>5. W * j + x = W * q + z
    BY <1>4
  <1> HIDE DEF a, q, z
  <1>6. W * q \in Int /\ x \in Int /\ z \in Int
    BY <1>1, <1>4
  <1>7. j < q => W * j + W <= W * q
    BY <1>4, RowsApart
  <1>8. q < j => W * q + W <= W * j
    BY <1>4, RowsApart
  <1>9. j = q
    BY <1>1, <1>2, <1>4, <1>5, <1>6, <1>7, <1>8
  <1>10. x = z
    BY <1>2, <1>5, <1>6, <1>9
  <1> QED BY <1>2, <1>3, <1>9, <1>10 DEF a, q, z

\* The same for rows before the memory too.
LEMMA RowOf ==
    ASSUME NEW j \in Int, NEW x \in 0..W - 1
    PROVE  (W * j + x) \div W = j
  <1>1. W \in Nat /\ W > 0 /\ W * j \in Int
    BY Sizes
  <1> DEFINE a == W * j + x
             q == a \div W
  <1>2. a \in Int /\ q \in Int /\ q * W <= a /\ a < (q + 1) * W
    BY <1>1
  <1>3. W * q <= a /\ a < W * q + W /\ W * q \in Int
    BY <1>1, <1>2
  <1>4. a = W * j + x
    OBVIOUS
  <1> HIDE DEF a, q
  <1>5. (j < q => W * j + W <= W * q) /\ (q < j => W * q + W <= W * j)
    BY <1>2, RowsApart
  <1>6. j = q
    BY <1>1, <1>2, <1>3, <1>4, <1>5
  <1> QED BY <1>6 DEF a, q

\* Two cells are one only in the same row and column.
LEMMA CellsDiffer ==
    ASSUME NEW i \in Nat, NEW j \in Nat, NEW x \in 0..W - 1, NEW y \in 0..W - 1,
           W * i + x = W * j + y
    PROVE  i = j /\ x = y
  BY CellIs

\* A number of cells before another.
LEMMA CellOrder ==
    ASSUME NEW i \in Int, NEW j \in Int, NEW x \in 0..W - 1, NEW y \in 0..W - 1
    PROVE  W * i + x <= W * j + y <=> i < j \/ (i = j /\ x <= y)
  <1>1. W \in Nat /\ W > 0 /\ W * i \in Int /\ W * j \in Int
    BY Sizes
  <1>2. i < j => W * i + W <= W * j
    BY RowsApart
  <1>3. j < i => W * j + W <= W * i
    BY RowsApart
  <1> QED BY <1>1, <1>2, <1>3

-----------------------------------------------------------------------------
(* Scrolling, and the loop that follows the cursor.                        *)

Places == [cursor : 0..console_size - 1,
           current_start_address : {W * k : k \in 0..Lines - CONSOLE_SCREEN_HEIGHT},
           is_full : BOOLEAN]

\* A console in rows.
LEMMA ConsoleIs ==
    ASSUME NEW con \in Places
    PROVE  \E r \in 0..Lines - 1, x \in 0..W - 1, k \in 0..Lines - H :
              /\ con.cursor = W * r + x
              /\ con.cursor \div W = r /\ con.cursor % W = x
              /\ con.current_start_address = W * k
              /\ con.current_start_address \div W = k
  <1>1. PICK k \in 0..Lines - H : con.current_start_address = W * k
    BY DEF Places, H
  <1>2. con.cursor \in 0..W * Lines - 1
    BY Sizes DEF Places
  <1> DEFINE cursor == con.cursor
             r == cursor \div W
             x == cursor % W
  <1>3. W * Lines \in Int
    BY Sizes
  <1>4. cursor \in Nat /\ cursor < W * Lines
    BY <1>2, <1>3
  <1>5. r \in Nat /\ x \in 0..W - 1 /\ cursor = W * r + x
    BY <1>4, RowAndColumn
  <1> HIDE DEF r, x
  <1>6. W * r \in Int /\ (Lines <= r => W * Lines <= W * r)
    BY <1>5, Sizes, RowsApart
  <1>7. r \in 0..Lines - 1
    BY <1>3, <1>4, <1>5, <1>6, Sizes
  <1>8. k \in Nat /\ 0 \in 0..W - 1 /\ W * k \in Int
    BY Sizes
  <1>9. (W * k + 0) \div W = k
    BY <1>8, CellIs
  <1>10. W * k + 0 = W * k
    BY <1>8
  <1> QED BY <1>1, <1>5, <1>7, <1>9, <1>10 DEF r, x

\* The top row after scrolling up, and down.
NextUp(full, r, k) ==
    CASE ~full /\ r >= k + H -> k + 1
      [] full /\ k + H - 1 # r -> IF k + H = Lines THEN 0 ELSE k + 1
      [] OTHER -> k

NextDown(full, r, k) ==
    CASE ~full /\ k > 0 -> k - 1
      [] full /\ k # (IF r + 1 = Lines THEN 0 ELSE r + 1) ->
             IF k # 0 THEN k - 1 ELSE IF r >= Lines - H THEN k ELSE Lines - H
      [] OTHER -> k

LEMMA ScrolledUpIs ==
    ASSUME NEW con, con.is_full \in BOOLEAN,
           NEW r \in 0..Lines - 1, NEW k \in 0..Lines - H,
           con.cursor \div W = r, con.current_start_address = W * k
    PROVE  ScrolledUp(con) = W * NextUp(con.is_full, r, k)
  <1>1. r \in Int /\ k \in Int /\ W \in Nat /\ H \in Nat /\ Lines \in Nat
    BY Sizes
  <1>2. Newest(con) = W * r
    BY <1>1, RowsApart DEF Newest
  <1> DEFINE m == k + H
             b == m - 1
  <1>3. m \in Int /\ b \in Int /\ W * m = W * k + W * H
    BY <1>1, RowsAdd
  <1> HIDE DEF m
  <1>4. W * b = W * m - W /\ W * m \in Int
    BY <1>3, NextRow
  <1>5. W * m <= W * r <=> m <= r
    BY <1>1, <1>3, RowsApart
  <1>6. W * m = W * Lines <=> m = Lines
    BY <1>1, <1>3, RowsApart
  <1> HIDE DEF b
  <1>7. W * b = W * r <=> b = r
    BY <1>1, <1>3, RowsApart
  <1>8. W * k \in Int /\ W * r \in Int /\ W * H \in Int /\ W * (k + 1) = W * k + W
        /\ W * 0 = 0
    BY <1>1, RowsApart
  <1>9. /\ Newest(con) >= con.current_start_address + CONSOLE_SCREEN_SIZE <=> r >= m
        /\ con.current_start_address + CONSOLE_SCREEN_SIZE - W # Newest(con) <=> b # r
        /\ con.current_start_address + CONSOLE_SCREEN_SIZE = console_size <=> m = Lines
    BY <1>1, <1>2, <1>3, <1>4, <1>5, <1>6, <1>7, <1>8, Sizes
  <1>10. con.current_start_address + W = W * (k + 1)
    BY <1>8
  <1>11. NextUp(con.is_full, r, k) =
            CASE ~con.is_full /\ r >= m -> k + 1
              [] con.is_full /\ b # r -> IF m = Lines THEN 0 ELSE k + 1
              [] OTHER -> k
    BY DEF NextUp, b, m
  <1> QED BY <1>8, <1>9, <1>10, <1>11 DEF ScrolledUp

LEMMA ScrolledDownIs ==
    ASSUME NEW con, con.is_full \in BOOLEAN,
           NEW r \in 0..Lines - 1, NEW x \in 0..W - 1, NEW k \in 0..Lines - H,
           con.cursor = W * r + x, con.cursor \div W = r,
           con.current_start_address = W * k
    PROVE  ScrolledDown(con) = W * NextDown(con.is_full, r, k)
  <1>1. r \in Int /\ k \in Int /\ x \in Int /\ W \in Nat /\ W > 0 /\ H \in Nat
        /\ Lines \in Nat /\ Lines > 0
    BY Sizes
  <1>2. Newest(con) = W * r
    BY <1>1, RowsApart DEF Newest
  <1>3. /\ W * k \in Int /\ W * r \in Int /\ W * Lines \in Int
        /\ W * 0 = 0 /\ (W * 0 = W * k <=> 0 = k) /\ (W * 0 <= W * k <=> 0 <= k)
        /\ W * (k - 1) = W * k - W /\ W * (r + 1) = W * r + W
        /\ W * (r + 1) \in Int /\ (W * (r + 1) = W * k <=> r + 1 = k)
    BY <1>1, RowsApart
  <1> DEFINE after == W * (r + 1)
             all   == W * Lines
             old   == IF r + 1 = Lines THEN 0 ELSE r + 1
  <1>4. after % all = W * old
    <2>1. CASE r + 1 = Lines
      <3>1. after = all /\ all \in Nat /\ all > 0
        BY <1>1, <2>1
      <3> HIDE DEF after, all
      <3>2. after % all = 0
        BY <3>1
      <3> QED BY <2>1, <3>2, <1>3
    <2>2. CASE r + 1 # Lines
      <3>1. W * (r + 1) + W <= W * Lines
        <4>1. r + 1 \in Int /\ r + 1 < Lines
          BY <1>1, <2>2
        <4> QED BY <4>1, <1>1, RowsApart
      <3>2. after \in Nat /\ after < all /\ all \in Nat
        <4>1. W * r >= 0
          BY <1>1
        <4> QED BY <1>1, <1>3, <3>1, <4>1
      <3> HIDE DEF after, all
      <3>3. after % all = after
        BY <3>2
      <3> QED BY <2>2, <3>3 DEF after
    <2> QED BY <2>1, <2>2
  <1>5. con.is_full => Oldest(con) = W * old
    BY <1>2, <1>3, <1>4, Sizes DEF Oldest
  <1>6. old \in Int /\ (W * k = W * old <=> k = old)
    <2>1. old \in Int
      BY <1>1
    <2> HIDE DEF old
    <2> QED BY <1>1, <2>1, RowsApart
  <1>7. W * (Lines - H) = W * Lines - W * H
    BY <1>1, RowsApart
  <1>8. con.cursor >= console_size - CONSOLE_SCREEN_SIZE <=> r >= Lines - H
    <2>1. 0 \in 0..W - 1 /\ Lines - H \in Int
      BY <1>1
    <2>2. W * (Lines - H) + 0 <= W * r + x
             <=> Lines - H < r \/ (Lines - H = r /\ 0 <= x)
      BY <1>1, <2>1, CellOrder
    <2>3. W * (Lines - H) \in Int
      BY <2>1, RowsApart
    <2> QED BY <1>1, <1>7, <2>2, <2>3, Sizes
  <1>9. /\ con.current_start_address > 0 <=> k > 0
        /\ con.current_start_address # 0 <=> k # 0
        /\ con.current_start_address - W = W * (k - 1)
        /\ console_size - CONSOLE_SCREEN_SIZE = W * (Lines - H)
        /\ con.is_full => (con.current_start_address # Oldest(con) <=> k # old)
    BY <1>1, <1>3, <1>5, <1>6, <1>7, Sizes
  <1> QED BY <1>8, <1>9 DEF ScrolledDown, NextDown

\* A set of numbers has a least one.
LEMMA LeastNumber ==
    ASSUME NEW S \in SUBSET Nat, S # {}
    PROVE  \E m \in S : \A k \in S : m <= k
  <1> DEFINE less == OpToRel(<, Nat)
  <1>1. IsWellFoundedOn(less, Nat)
    BY NatLessThanWellFounded
  <1>2. \A x, y \in Nat : y < x => <<y, x>> \in less
    BY DEF OpToRel
  <1> HIDE DEF less
  <1>3. PICK x \in S : \A y \in S : ~(<<y, x>> \in less)
    BY <1>1, WFMin
  <1>4. \A y \in S : x \in Nat /\ y \in Nat /\ ~(y < x)
    BY <1>2, <1>3
  <1> QED BY <1>4

\* The turns of the loop are well defined: each begins where the last one ended.
LEMMA TurnsAre ==
    ASSUME NEW con
    PROVE  /\ Turns(con)[0] = con.current_start_address
           /\ \A n \in 1..Lines :
                 Turns(con)[n] =
                    ScrolledUp([con EXCEPT !.current_start_address = Turns(con)[n - 1]])
  <1> DEFINE Hop(s)     == ScrolledUp([con EXCEPT !.current_start_address = s])
             first      == con.current_start_address
             Walk(f, n) == f[0] = first /\ \A i \in 1..n : f[i] = Hop(f[i - 1])
  <1>0. Lines \in Nat
    BY Sizes
  <1> HIDE DEF Hop, first
  <1>1. \A n \in Nat : \E f : Walk(f, n)
    <2> DEFINE Bad == {n \in Nat : ~\E f : Walk(f, n)}
    <2>1. SUFFICES ASSUME Bad # {} PROVE FALSE
      OBVIOUS
    <2>2. PICK n \in Bad : \A k \in Bad : n <= k
      <3>1. Bad \in SUBSET Nat
        OBVIOUS
      <3> HIDE DEF Bad
      <3> QED BY <2>1, <3>1, LeastNumber
    <2>3. n \in Nat /\ ~\E f : Walk(f, n)
      BY <2>2
    <2>4. CASE n = 0
      <3>1. Walk([i \in {0} |-> first], 0)
        OBVIOUS
      <3> QED BY <2>3, <2>4, <3>1
    <2>5. CASE n # 0
      <3>1. n - 1 \in Nat /\ n - 1 \notin Bad
        <4>1. n - 1 \in Nat /\ ~(n <= n - 1)
          BY <2>3, <2>5
        <4> HIDE DEF Bad
        <4> QED BY <2>2, <4>1
      <3>2. PICK f : Walk(f, n - 1)
        BY <3>1
      <3> DEFINE g == [i \in 0..n |-> IF i = n THEN Hop(f[n - 1]) ELSE f[i]]
      <3>3. g[0] = first
        BY <2>3, <2>5, <3>2
      <3>4. ASSUME NEW i \in 1..n
            PROVE  g[i] = Hop(g[i - 1])
        <4>1. i \in 0..n /\ i - 1 \in 0..n /\ i - 1 # n
          BY <2>3
        <4>2. g[i] = (IF i = n THEN Hop(f[n - 1]) ELSE f[i]) /\ g[i - 1] = f[i - 1]
          BY <4>1
        <4>3. i # n => i \in 1..n - 1
          BY <2>3
        <4> QED BY <3>2, <4>2, <4>3
      <3>5. Walk(g, n)
        <4> HIDE DEF g
        <4> QED BY <3>3, <3>4
      <3> QED BY <2>3, <3>5
    <2> QED BY <2>4, <2>5
  <1>2. PICK f : Walk(f, Lines)
    BY <1>0, <1>1
  <1> DEFINE F == [n \in 0..Lines |-> f[n]]
  <1>3. \A n \in 0..Lines : F[n] = IF n = 0 THEN first ELSE Hop(F[n - 1])
    <2> TAKE n \in 0..Lines
    <2>1. n # 0 => n \in 1..Lines /\ n - 1 \in 0..Lines
      BY <1>0
    <2> QED BY <1>2, <2>1
  <1>4. F = [n \in 0..Lines |-> IF n = 0 THEN first ELSE Hop(F[n - 1])]
    <2>1. F = [n \in 0..Lines |-> F[n]]
      OBVIOUS
    <2> HIDE DEF F
    <2> QED BY <1>3, <2>1
  <1> HIDE DEF F
  <1>5. Turns(con) = [n \in 0..Lines |-> IF n = 0 THEN first ELSE Hop(Turns(con)[n - 1])]
    BY <1>4 DEF Turns, Hop, first
  <1>6. \A n \in 0..Lines : Turns(con)[n] = IF n = 0 THEN first
                                           ELSE Hop(Turns(con)[n - 1])
    BY <1>5
  <1>7. 0 \in 0..Lines /\ \A n \in 1..Lines : n \in 0..Lines /\ n # 0
    BY <1>0
  <1> QED BY <1>6, <1>7 DEF Hop, first

\* n turns on, the screen has gone on by n rows, from the end to the beginning,
\* while each turn moves it.
TurnedTo(k, n) == IF n < Apart - k THEN k + n ELSE n - (Apart - k)

LEMMA TurnsGoOn ==
    ASSUME NEW con \in Places, NEW r \in 0..Lines - 1, NEW k \in 0..Lines - H,
           con.cursor \div W = r, con.current_start_address = W * k,
           NEW t \in 0..Lines, t < Apart - k + Apart,
           \A n \in 0..t - 1 :
              NextUp(con.is_full, r, TurnedTo(k, n)) = TurnedTo(k, n + 1)
    PROVE  \A n \in 0..t : Turns(con)[n] = W * TurnedTo(k, n)
  <1> DEFINE Bad == {n \in 0..t : Turns(con)[n] # W * TurnedTo(k, n)}
  <1>1. SUFFICES ASSUME Bad # {} PROVE FALSE
    OBVIOUS
  <1>0. Lines \in Nat /\ H \in Nat /\ Apart \in Nat /\ Apart = Lines - H + 1 /\ t \in Nat
    BY Sizes
  <1>2. PICK n \in Bad : \A i \in Bad : n <= i
    <2>1. Bad \in SUBSET Nat
      BY <1>0
    <2> HIDE DEF Bad
    <2> QED BY <1>1, <2>1, LeastNumber
  <1>3. n \in 0..t /\ n \in Nat /\ Turns(con)[n] # W * TurnedTo(k, n)
    BY <1>0, <1>2
  <1>4. n # 0
    <2>1. TurnedTo(k, 0) = k
      BY <1>0 DEF TurnedTo
    <2> QED BY <1>3, <2>1, TurnsAre
  <1> DEFINE m == n - 1
  <1>5. m \in 0..t - 1 /\ m \in 0..t /\ m + 1 = n /\ n \in 1..Lines /\ ~(n <= m)
    BY <1>0, <1>3, <1>4
  <1>6. m \notin Bad
    <2> HIDE DEF Bad, m
    <2> QED BY <1>2, <1>5
  <1>7. Turns(con)[m] = W * TurnedTo(k, m)
    BY <1>5, <1>6
  <1>8. TurnedTo(k, m) \in 0..Lines - H
    BY <1>0, <1>5 DEF TurnedTo
  <1> DEFINE at == [con EXCEPT !.current_start_address = Turns(con)[m]]
  <1>9. /\ at.is_full = con.is_full /\ at.is_full \in BOOLEAN
        /\ at.cursor \div W = r /\ at.current_start_address = W * TurnedTo(k, m)
    BY <1>7 DEF Places
  <1>10. Turns(con)[n] = ScrolledUp(at)
    BY <1>5, TurnsAre
  <1> HIDE DEF at, m
  <1>11. ScrolledUp(at) = W * NextUp(con.is_full, r, TurnedTo(k, m))
    BY <1>8, <1>9, ScrolledUpIs
  <1>12. NextUp(con.is_full, r, TurnedTo(k, m)) = TurnedTo(k, n)
    BY <1>5
  <1> QED BY <1>3, <1>10, <1>11, <1>12

\* The cursor is on the screen when its row is one of the rows of the screen.
LEMMA InViewIs ==
    ASSUME NEW con, NEW r \in 0..Lines - 1, NEW x \in 0..W - 1, NEW k \in 0..Lines - H,
           con.cursor = W * r + x
    PROVE  InView(con, W * k) <=> k <= r /\ r < k + H
  <1>1. r \in Int /\ x \in Int /\ k \in Int /\ 0 \in 0..W - 1 /\ H \in Nat /\ W \in Nat
    BY Sizes
  <1> DEFINE m == k + H
  <1>2. m \in Int /\ W * m = W * k + W * H
    BY <1>1, RowsAdd
  <1>3. W * k + 0 <= W * r + x <=> k < r \/ (k = r /\ 0 <= x)
    BY <1>1, CellOrder
  <1> HIDE DEF m
  <1>4. W * m + 0 <= W * r + x <=> m < r \/ (m = r /\ 0 <= x)
    BY <1>1, <1>2, CellOrder
  <1>5. W * k \in Int /\ W * r \in Int /\ W * m \in Int /\ W * H \in Int
    BY <1>1, <1>2
  <1>6. W * k <= con.cursor <=> k <= r
    BY <1>1, <1>3, <1>5
  <1>7. con.cursor < W * k + CONSOLE_SCREEN_SIZE <=> r < m
    BY <1>1, <1>2, <1>4, <1>5, Sizes
  <1> QED BY <1>6, <1>7 DEF InView, m

\* The cursor comes into view, within one round through the memory.
LEMMA ComesIntoView ==
    ASSUME NEW con \in Places, NEW r \in 0..Lines - 1, NEW k \in 0..Lines - H,
           con.cursor \div W = r, con.current_start_address = W * k,
           ~con.is_full => k <= r
    PROVE  \E n \in 0..Lines, to \in 0..Lines - H :
              /\ Turns(con)[n] = W * to /\ to <= r /\ r < to + H
              /\ \A m \in 0..n : \E e \in 0..Lines - H : Turns(con)[m] = W * e
              /\ ~con.is_full /\ n # 0 =>
                    to = r - H + 1
                    /\ \A m \in 0..n : Turns(con)[m] = W * (k + m)
              /\ k <= r /\ r < k + H => n = 0
              /\ k + H = r => n = 1 /\ to = k + 1
  <1>0. /\ Lines \in Nat /\ H \in Nat /\ H > 1 /\ Lines > H
        /\ Apart \in Nat /\ Apart = Lines - H + 1
        /\ r \in Nat /\ r < Lines /\ k \in Nat /\ k < Apart
        /\ con.is_full \in BOOLEAN
    BY Sizes DEF Places
  <1> DEFINE g == IF r >= H - 1 THEN r - H + 1 ELSE 0
             t == IF k <= r /\ r < k + H THEN 0
                  ELSE IF k <= g THEN g - k ELSE Apart - k + g
             to == TurnedTo(k, t)
  <1>1. g \in Nat /\ g < Apart /\ g <= r /\ r < g + H
    BY <1>0
  <1>2. t \in Nat /\ t <= Lines /\ t < Apart - k + Apart
    BY <1>0, <1>1
  <1>3. ASSUME NEW n \in 0..t - 1
        PROVE  NextUp(con.is_full, r, TurnedTo(k, n)) = TurnedTo(k, n + 1)
    <2>1. n \in Nat /\ n < t /\ t # 0 /\ ~(k <= r /\ r < k + H)
      BY <1>2
    <2>2. CASE k <= g
      <3>1. t = g - k /\ n < g - k
        BY <2>1, <2>2, <1>0, <1>1
      <3>2. TurnedTo(k, n) = k + n /\ TurnedTo(k, n + 1) = k + n + 1
        BY <1>0, <1>1, <2>1, <3>1 DEF TurnedTo
      <3>3. k + n < g /\ g = r - H + 1
        BY <1>0, <1>1, <2>1, <3>1
      <3>4. r >= k + n + H /\ k + n + H - 1 # r /\ k + n + H # Lines
        BY <1>0, <1>1, <2>1, <3>3
      <3> QED BY <1>0, <2>1, <3>2, <3>4 DEF NextUp
    <2>3. CASE k > g
      <3>1. t = Apart - k + g /\ k > r /\ con.is_full
        BY <2>1, <2>3, <1>0, <1>1
      <3>2. CASE n < Apart - k
        <4>1. TurnedTo(k, n) = k + n /\ k + n + H - 1 # r
          BY <1>0, <2>1, <3>1, <3>2 DEF TurnedTo
        <4>2. TurnedTo(k, n + 1) = IF k + n + H = Lines THEN 0 ELSE k + n + 1
          <5>1. n + 1 \in Nat /\ (n + 1 < Apart - k <=> k + n + H # Lines)
            BY <1>0, <2>1, <3>2
          <5>2. k + n + H = Lines => n + 1 - (Apart - k) = 0
            BY <1>0, <2>1
          <5> QED BY <1>0, <2>1, <5>1, <5>2 DEF TurnedTo
        <4> QED BY <1>0, <2>1, <3>1, <4>1, <4>2 DEF NextUp
      <3>3. CASE ~(n < Apart - k)
        <4> DEFINE e == n - (Apart - k)
        <4>1. e \in Nat /\ e < g
          BY <1>0, <1>1, <2>1, <3>1, <3>3
        <4>2. TurnedTo(k, n) = e
          BY <3>3 DEF TurnedTo
        <4>3. TurnedTo(k, n + 1) = e + 1
          BY <1>0, <2>1, <3>3 DEF TurnedTo
        <4> HIDE DEF e
        <4>4. e + H - 1 # r /\ e + H # Lines
          BY <1>0, <1>1, <4>1
        <4> QED BY <1>0, <3>1, <4>2, <4>3, <4>4 DEF NextUp
      <3> QED BY <3>2, <3>3
    <2> QED BY <1>0, <1>1, <2>2, <2>3
  <1>4. t \in 0..Lines
    BY <1>0, <1>2
  <1>5. \A n \in 0..t : Turns(con)[n] = W * TurnedTo(k, n)
    <2> HIDE DEF t
    <2> QED BY <1>2, <1>3, <1>4, TurnsGoOn
  <1>6. to \in 0..Lines - H /\ to <= r /\ r < to + H
    BY <1>0, <1>1, <1>2 DEF TurnedTo
  <1>7. \A m \in 0..t : TurnedTo(k, m) \in 0..Lines - H
    BY <1>0, <1>1, <1>2 DEF TurnedTo
  <1>8. k <= r /\ r < k + H => t = 0
    OBVIOUS
  <1>9. k + H = r => t = 1 /\ to = k + 1
    BY <1>0, <1>1 DEF TurnedTo
  <1>10. ~con.is_full /\ t # 0 => k <= g /\ g = r - H + 1 /\ to = r - H + 1
    BY <1>0, <1>1 DEF TurnedTo
  <1>11. ~con.is_full /\ t # 0 => \A m \in 0..t : TurnedTo(k, m) = k + m
    <2> SUFFICES ASSUME ~con.is_full, t # 0, NEW m \in 0..t
                 PROVE  TurnedTo(k, m) = k + m
      OBVIOUS
    <2>1. t = g - k
      BY <1>10
    <2> QED BY <1>0, <1>1, <2>1 DEF TurnedTo
  <1> HIDE DEF t, g
  <1>12. t \in 0..t
    BY <1>2
  <1> QED BY <1>4, <1>5, <1>6, <1>7, <1>8, <1>9, <1>10, <1>11, <1>12

\* Before the memory is used as a ring, no turn takes the screen back.
LEMMA TurnsStay ==
    ASSUME NEW con \in Places, NEW r \in 0..Lines - 1, NEW k \in 0..Lines - H,
           con.cursor \div W = r, con.current_start_address = W * k,
           ~con.is_full, r < k
    PROVE  \A n \in 0..Lines : Turns(con)[n] = W * k
  <1> DEFINE Bad == {n \in 0..Lines : Turns(con)[n] # W * k}
  <1>1. SUFFICES ASSUME Bad # {} PROVE FALSE
    OBVIOUS
  <1>0. Lines \in Nat /\ H \in Nat /\ H > 1 /\ r \in Nat /\ k \in Nat
    BY Sizes
  <1>2. PICK n \in Bad : \A i \in Bad : n <= i
    <2>1. Bad \in SUBSET Nat
      BY <1>0
    <2> HIDE DEF Bad
    <2> QED BY <1>1, <2>1, LeastNumber
  <1>3. n \in 0..Lines /\ n \in Nat /\ Turns(con)[n] # W * k
    BY <1>0, <1>2
  <1>4. n # 0
    BY <1>3, TurnsAre
  <1> DEFINE m == n - 1
  <1>5. m \in 0..Lines /\ n \in 1..Lines /\ ~(n <= m)
    BY <1>0, <1>3, <1>4
  <1>6. m \notin Bad
    <2> HIDE DEF Bad, m
    <2> QED BY <1>2, <1>5
  <1>7. Turns(con)[m] = W * k
    BY <1>5, <1>6
  <1> DEFINE at == [con EXCEPT !.current_start_address = Turns(con)[m]]
  <1>8. /\ at.is_full = con.is_full /\ at.is_full \in BOOLEAN
        /\ at.cursor \div W = r /\ at.current_start_address = W * k
    BY <1>7 DEF Places
  <1>9. Turns(con)[n] = ScrolledUp(at)
    BY <1>5, TurnsAre
  <1> HIDE DEF at, m
  <1>10. ScrolledUp(at) = W * NextUp(con.is_full, r, k)
    BY <1>8, ScrolledUpIs
  <1>11. NextUp(con.is_full, r, k) = k
    BY <1>0 DEF NextUp
  <1> QED BY <1>3, <1>9, <1>10, <1>11

\* The memory after the loop: a clear may reach the parts of the other consoles.
CellsAfter(c, memory, cursor, moved) ==
    [d \in Console |->
        IF moved
        THEN console_clear_screen(IF d = c THEN memory ELSE cells[d],
                                  cursor + (c - d) * P, W)
        ELSE IF d = c THEN memory ELSE cells[d]]

\* What the end of console_put_char does: it hangs when the cursor is above the
\* screen, and else the screen stays where it is or goes on to the row that the
\* cursor is in.
LEMMA FollowsTo ==
    ASSUME NEW c \in Console, NEW con \in Places, NEW memory,
           NEW r \in 0..Lines - 1, NEW x \in 0..W - 1, NEW k \in 0..Lines - H,
           con.cursor = W * r + x, con.cursor \div W = r,
           con.current_start_address = W * k,
           line'[c] \in Int,
           Follows(c, con, memory)
    PROVE  \E to \in 0..Lines - H, moved \in BOOLEAN :
              /\ consoles_table' = [consoles_table EXCEPT ![c] =
                                       [con EXCEPT !.current_start_address = W * to]]
              /\ cells' = CellsAfter(c, memory, con.cursor, moved)
              /\ shown' = [shown EXCEPT ![c] = line'[c] - (r - to)]
              /\ console_flush(c, [con EXCEPT !.current_start_address = W * to])
              /\ hung' = (~con.is_full /\ r < k)
              /\ hung' => to = k
              /\ ~hung' =>
                    /\ to <= r /\ r < to + H
                    /\ ~moved => to = k
                    /\ moved /\ ~con.is_full => to = r - H + 1
                    /\ k <= r /\ r < k + H => ~moved
                    /\ k + H = r => moved /\ to = k + 1
  <1> DEFINE start == Turns(con)
             ends  == {n \in 0..Lines : InView(con, start[n])}
             n     == IF ends = {} THEN Lines
                      ELSE CHOOSE m \in ends : \A i \in ends : m <= i
             final == [con EXCEPT !.current_start_address = start[n]]
             moved == n # 0
  <1>0. /\ Lines \in Nat /\ H \in Nat /\ H > 1 /\ r \in Nat /\ k \in Nat
        /\ con.is_full \in BOOLEAN /\ W \in Nat /\ Lines > H
    BY Sizes DEF Places
  <1>5. /\ consoles_table' = [consoles_table EXCEPT ![c] = final]
        /\ cells' = CellsAfter(c, memory, con.cursor, moved)
        /\ shown' = [shown EXCEPT ![c] =
                        line'[c] - (con.cursor - final.current_start_address) \div W]
        /\ console_flush(c, final)
        /\ hung' = (ends = {})
    <2>1. Follows(c, con, memory)
      OBVIOUS
    <2>2. cells' = [d \in Console |->
              IF n = 0 THEN IF d = c THEN memory ELSE cells[d]
              ELSE console_clear_screen(IF d = c THEN memory ELSE cells[d],
                      con.cursor + (c - d) * video_memory_size_per_console, W)]
      BY <2>1 DEF Follows
    <2>3. cells' = CellsAfter(c, memory, con.cursor, moved)
      <3> HIDE DEF n
      <3> QED BY <2>2 DEF CellsAfter, P
    <2> QED BY <2>1, <2>3 DEF Follows
  <1>18. moved \in BOOLEAN
    OBVIOUS
  <1>21. ASSUME NEW to \in 0..Lines - H, start[n] = W * to
         PROVE  /\ consoles_table' = [consoles_table EXCEPT ![c] =
                                       [con EXCEPT !.current_start_address = W * to]]
                /\ cells' = CellsAfter(c, memory, con.cursor, moved)
                /\ shown' = [shown EXCEPT ![c] = line'[c] - (r - to)]
                /\ console_flush(c, [con EXCEPT !.current_start_address = W * to])
    <2>0. final = [con EXCEPT !.current_start_address = W * to]
      BY <1>21
    <2>1. final.current_start_address = W * to
      BY <2>0 DEF Places
    <2> DEFINE d == r - to
    <2>2. d \in Int /\ W * d = W * r - W * to /\ W * d \in Int
      BY <1>0, RowsAdd, RowsApart
    <2> HIDE DEF d
    <2>3. W * d + x = con.cursor - W * to
      <3>1. W * r \in Int /\ W * to \in Int /\ x \in Int
        BY <1>0
      <3> QED BY <2>2, <3>1
    <2>4. (W * d + x) \div W = d
      BY <2>2, RowOf
    <2>5. (con.cursor - final.current_start_address) \div W = r - to
      BY <2>1, <2>3, <2>4 DEF d
    <2> HIDE DEF final, moved, n
    <2> QED BY <1>5, <2>0, <2>5
  <1>22. CASE ~con.is_full /\ r < k
    <2>1. \A m \in 0..Lines : start[m] = W * k
      BY <1>22, TurnsStay
    <2>2. ends = {}
      <3>1. ASSUME NEW m \in 0..Lines PROVE ~InView(con, start[m])
        <4>1. ~(k <= r)
          BY <1>0, <1>22
        <4>2. start[m] = W * k
          BY <2>1
        <4> QED BY <4>1, <4>2, InViewIs
      <3> HIDE DEF start
      <3> QED BY <3>1
    <2>3. n = Lines
      BY <2>2
    <2>4. start[n] = W * k
      BY <2>1, <2>3, <1>0
    <2>5. hung' = TRUE
      BY <1>5, <2>2
    <2> HIDE DEF n, ends, start, final, moved
    <2> QED BY <1>18, <1>21, <1>22, <2>4, <2>5
  <1>23. CASE ~con.is_full => k <= r
    <2>1. PICK p \in 0..Lines, q \in 0..Lines - H :
                /\ start[p] = W * q /\ q <= r /\ r < q + H
                /\ \A m \in 0..p : \E e \in 0..Lines - H : start[m] = W * e
                /\ ~con.is_full /\ p # 0 =>
                      q = r - H + 1 /\ \A m \in 0..p : start[m] = W * (k + m)
                /\ k <= r /\ r < k + H => p = 0
                /\ k + H = r => p = 1 /\ q = k + 1
      BY <1>23, ComesIntoView
    <2>2. p \in ends
      BY <2>1, InViewIs
    <2>3. ends # {} /\ ends \in SUBSET Nat
      BY <1>0, <2>2
    <2>4. n \in ends /\ \A i \in ends : n <= i
      <3>1. \E m \in ends : \A i \in ends : m <= i
        <4> HIDE DEF ends
        <4> QED BY <2>3, LeastNumber
      <3> HIDE DEF ends
      <3> QED BY <2>3, <3>1
    <2>6. n \in 0..Lines /\ InView(con, start[n])
      BY <2>4
    <2>7. n <= p
      <3> HIDE DEF ends, n
      <3> QED BY <2>2, <2>4
    <2>19. hung' = FALSE
      BY <1>5, <2>3
    <2> HIDE DEF ends, n, start, final
    <2>8. n \in 0..p
      BY <2>6, <2>7
    <2>9. PICK to \in 0..Lines - H : start[n] = W * to
      BY <2>1, <2>8
    <2>10. to <= r /\ r < to + H
      BY <2>6, <2>9, InViewIs
    <2>13. start[0] = W * k
      BY TurnsAre DEF start
    <2>14. n = 0 => to = k
      BY <2>9, <2>13, <1>0, RowsApart
    <2>15. n # 0 /\ ~con.is_full => to = r - H + 1
      <3> SUFFICES ASSUME n # 0, ~con.is_full PROVE to = r - H + 1
        OBVIOUS
      <3>1. p # 0
        BY <2>8, <1>0
      <3> DEFINE m == k + n
                 e == k + p
      <3>2. start[n] = W * m /\ start[p] = W * e /\ q = r - H + 1
        <4>1. p \in 0..p
          BY <1>0
        <4> QED BY <2>1, <2>8, <3>1, <4>1
      <3>3. m \in Int /\ e \in Int
        BY <1>0, <2>8
      <3> HIDE DEF m, e
      <3>4. to = m
        BY <3>2, <3>3, <2>9, RowsApart
      <3>6. q = e
        BY <3>2, <3>3, <2>1, RowsApart
      <3> QED BY <3>2, <3>4, <3>6, <1>0, <2>8, <2>10 DEF m, e
    <2>16. k <= r /\ r < k + H => n = 0
      BY <2>1, <2>8
    <2>17. k + H = r => n # 0 /\ to = k + 1
      <3> SUFFICES ASSUME k + H = r PROVE n # 0 /\ to = k + 1
        OBVIOUS
      <3>1. n # 0
        BY <1>0, <2>10, <2>14
      <3>2. n = p
        BY <2>1, <2>8, <3>1
      <3>3. start[n] = W * q
        BY <2>1, <3>2
      <3>4. to = q
        BY <3>3, <2>9, RowsApart
      <3> QED BY <2>1, <3>1, <3>4
    <2>20. /\ ~moved => to = k
           /\ moved /\ ~con.is_full => to = r - H + 1
           /\ k <= r /\ r < k + H => ~moved
           /\ k + H = r => moved /\ to = k + 1
      BY <2>14, <2>15, <2>16, <2>17
    <2>21. ~(~con.is_full /\ r < k)
      BY <1>0, <1>23
    <2> HIDE DEF moved
    <2> QED BY <1>18, <1>21, <2>9, <2>10, <2>19, <2>20, <2>21
  <1>24. (~con.is_full /\ r < k) \/ (~con.is_full => k <= r)
    BY <1>0
  <1> HIDE DEF start, ends, n, final, moved
  <1> QED BY <1>22, <1>23, <1>24, Zenon

-----------------------------------------------------------------------------
(* A console, a character and the text.                                    *)

LEMMA RowIs ==
    ASSUME ConsoleTypeOK, NEW c \in Console
    PROVE  /\ consoles_table[c] \in Places
           /\ \E x \in 0..W - 1 :
                 /\ consoles_table[c].cursor = W * CursorRow(c) + x
                 /\ consoles_table[c].cursor % W = x
           /\ CursorRow(c) \in 0..Lines - 1 /\ Top(c) \in 0..Lines - H
           /\ consoles_table[c].cursor \div W = CursorRow(c)
           /\ consoles_table[c].current_start_address = W * Top(c)
           /\ line[c] \in Nat \ {0} /\ consoles_table[c].is_full \in BOOLEAN
  <1>1. consoles_table[c] \in Places
    BY DEF ConsoleTypeOK, Places
  <1>2. PICK r \in 0..Lines - 1, x \in 0..W - 1, k \in 0..Lines - H :
              /\ consoles_table[c].cursor = W * r + x
              /\ consoles_table[c].cursor \div W = r
              /\ consoles_table[c].cursor % W = x
              /\ consoles_table[c].current_start_address = W * k
              /\ consoles_table[c].current_start_address \div W = k
    BY <1>1, ConsoleIs
  <1>3. CursorRow(c) = r /\ Top(c) = k
    BY <1>2 DEF CursorRow, Top
  <1>4. line[c] \in Nat \ {0} /\ consoles_table[c].is_full \in BOOLEAN
    BY <1>1 DEF ConsoleTypeOK, Places
  <1> QED BY <1>1, <1>2, <1>3, <1>4

\* Which line a row holds: the cursor is in the newest, all are lines of the
\* output, and none is further back than the memory of lines.
LEMMA HeldIs ==
    ASSUME ConsoleTypeOK, NEW c \in Console, LineInStep(c), NEW j \in 0..Lines - 1
    PROVE  /\ LineIn(c, j) \in Nat /\ LineIn(c, j) > 0
           /\ j <= CursorRow(c) => LineIn(c, j) = line[c] - CursorRow(c) + j
           /\ ~consoles_table[c].is_full => LineIn(c, j) = j + 1
           /\ consoles_table[c].is_full /\ j > CursorRow(c) =>
                 LineIn(c, j) = line[c] - CursorRow(c) + j - Apart
           /\ (consoles_table[c].is_full => CursorRow(c) >= H - 1) /\ j # CursorRow(c)
                 => LineIn(c, j) # line[c]
           /\ consoles_table[c].is_full /\ CursorRow(c) >= H - 1 => LineIn(c, j) <= line[c]
  <1>1. /\ CursorRow(c) \in 0..Lines - 1 /\ line[c] \in Nat
        /\ consoles_table[c].is_full \in BOOLEAN
    BY RowIs
  <1>2. /\ consoles_table[c].is_full => line[c] - CursorRow(c) > Apart
        /\ ~consoles_table[c].is_full => line[c] = CursorRow(c) + 1
    BY DEF LineInStep
  <1> DEFINE r == CursorRow(c)
             n == line[c]
             h == LineIn(c, j)
             old == consoles_table[c].is_full /\ j > r
  <1>3. /\ Lines \in Nat /\ Apart \in Nat /\ Apart > 1 /\ H \in Nat /\ H > 1
        /\ Lines > H /\ Apart = Lines - H + 1 /\ j \in 0..Lines - 1
    BY Sizes
  <1>4. h = n - r + j - (IF old THEN Apart ELSE 0)
    BY DEF LineIn
  <1>5. r \in 0..Lines - 1 /\ n \in Nat
    BY <1>1
  <1>6. old => consoles_table[c].is_full /\ j > r
    OBVIOUS
  <1>7. ~old => ~consoles_table[c].is_full \/ ~(j > r)
    OBVIOUS
  <1> HIDE DEF r, n, h, old
  <1>8. CASE old
    <2>1. h = n - r + j - Apart
      BY <1>4, <1>8
    <2>2. consoles_table[c].is_full /\ j > r /\ n - r > Apart
      BY <1>2, <1>6, <1>8 DEF n, r
    <2>3. h \in Nat /\ h > 0 /\ ~(j <= r)
      BY <1>3, <1>5, <2>1, <2>2
    <2>4. r >= H - 1 => h <= n /\ h # n
      BY <1>3, <1>5, <2>1, <2>2
    <2> QED BY <2>1, <2>2, <2>3, <2>4 DEF h, n, r
  <1>9. CASE ~old
    <2>1. h = n - r + j
      BY <1>3, <1>4, <1>5, <1>9
    <2>2. ~consoles_table[c].is_full => n = r + 1
      BY <1>2 DEF n, r
    <2>3. consoles_table[c].is_full => n - r > Apart /\ j <= r
      BY <1>2, <1>3, <1>5, <1>7, <1>9 DEF n, r
    <2>4. h \in Nat /\ h > 0
      BY <1>1, <1>3, <1>5, <2>1, <2>2, <2>3
    <2>5. /\ ~consoles_table[c].is_full => h = j + 1
          /\ j # r => h # n
          /\ consoles_table[c].is_full => h <= n /\ ~(j > r)
      BY <1>3, <1>5, <2>1, <2>2, <2>3
    <2> QED BY <1>1, <2>1, <2>4, <2>5 DEF h, n, r
  <1> QED BY <1>8, <1>9

\* Where the cursor goes.
LEMMA MovedIs ==
    ASSUME NEW r \in 0..Lines - 1, NEW x \in 0..W - 1,
           NEW ch \in {"char", "backspace", "newline"},
           NEW cursor, cursor = W * r + x, cursor \div W = r
    PROVE  \E r1 \in 0..Lines, x1 \in 0..W - 1 :
              /\ Moved(cursor, ch) = W * r1 + x1
              /\ Moved(cursor, ch) \div W = r1 /\ Moved(cursor, ch) % W = x1
              /\ ch = "newline" => r1 = r + 1 /\ x1 = 0
              /\ ch = "char" => IF x < W - 1 THEN r1 = r /\ x1 = x + 1
                                ELSE r1 = r + 1 /\ x1 = 0
              /\ ch = "backspace" =>
                    CASE x > 0          -> r1 = r /\ x1 = x - 1
                      [] x = 0 /\ r > 0 -> r1 = r - 1 /\ x1 = W - 1
                      [] OTHER          -> r1 = 0 /\ x1 = 0
              /\ Moved(cursor, ch) >= console_size <=> r1 = Lines
  <1> DEFINE r1 == CASE ch = "newline" -> r + 1
                     [] ch = "char" -> IF x < W - 1 THEN r ELSE r + 1
                     [] OTHER -> IF x > 0 THEN r ELSE IF r > 0 THEN r - 1 ELSE 0
             x1 == CASE ch = "newline" -> 0
                     [] ch = "char" -> IF x < W - 1 THEN x + 1 ELSE 0
                     [] OTHER -> IF x > 0 THEN x - 1 ELSE IF r > 0 THEN W - 1 ELSE 0
  <1>0. /\ r \in Int /\ x \in Int /\ r >= 0 /\ r < Lines /\ x >= 0 /\ x < W
        /\ Lines \in Nat /\ W \in Nat /\ W > 0 /\ W * r \in Int
    BY Sizes
  <1>1. /\ W * (r + 1) = W * r + W /\ W * (r - 1) = W * r - W
        /\ W * r = r * W /\ W * 0 = 0
    BY <1>0, RowsApart
  <1>2. r1 \in 0..Lines /\ x1 \in 0..W - 1
    BY <1>0
  <1>3. r + 1 \in Int /\ (r + 1) * W = W * (r + 1)
    BY <1>0
  <1>4. cursor > 0 <=> r > 0 \/ x > 0
    <2>1. r > 0 => W * 0 + W <= W * r
      BY <1>0, RowsApart
    <2>2. r = 0 => W * r = 0
      BY <1>1
    <2> QED BY <1>0, <1>1, <2>1, <2>2
  <1>5. Moved(cursor, ch) = W * r1 + x1
    <2>1. CASE ch = "newline"
      BY <2>1, <1>0, <1>1, <1>3 DEF Moved
    <2>2. CASE ch = "char"
      <3>1. Moved(cursor, ch) = cursor + 1
        BY <2>2 DEF Moved
      <3>2. CASE x < W - 1
        BY <2>2, <3>1, <3>2, <1>0
      <3>3. CASE ~(x < W - 1)
        <4>1. r1 = r + 1 /\ x1 = 0 /\ x = W - 1
          BY <2>2, <3>3, <1>0
        <4> HIDE DEF r1, x1
        <4>2. W * r1 + x1 = W * r + W
          BY <4>1, <1>0, <1>1
        <4> QED BY <3>1, <4>1, <4>2, <1>0
      <3> QED BY <3>2, <3>3
    <2>3. CASE ch = "backspace"
      <3>1. Moved(cursor, ch) = IF cursor > 0 THEN cursor - 1 ELSE cursor
        BY <2>3 DEF Moved
      <3>2. CASE x > 0
        BY <2>3, <3>1, <3>2, <1>0, <1>4
      <3>3. CASE x = 0 /\ r > 0
        BY <2>3, <3>1, <3>3, <1>0, <1>1, <1>4
      <3>4. CASE x = 0 /\ r = 0
        BY <2>3, <3>1, <3>4, <1>0, <1>1, <1>4
      <3> QED BY <3>2, <3>3, <3>4, <1>0
    <2> QED BY <2>1, <2>2, <2>3
  <1>6. /\ ch = "newline" => r1 = r + 1 /\ x1 = 0
        /\ ch = "char" => IF x < W - 1 THEN r1 = r /\ x1 = x + 1
                          ELSE r1 = r + 1 /\ x1 = 0
        /\ ch = "backspace" =>
              CASE x > 0          -> r1 = r /\ x1 = x - 1
                [] x = 0 /\ r > 0 -> r1 = r - 1 /\ x1 = W - 1
                [] OTHER          -> r1 = 0 /\ x1 = 0
    BY <1>0
  <1> HIDE DEF r1, x1
  <1>7. r1 \in Nat /\ (W * r1 + x1) \div W = r1 /\ (W * r1 + x1) % W = x1
    <2>1. r1 \in Nat
      BY <1>0, <1>2
    <2> QED BY <2>1, <1>2, CellIs
  <1>8. Moved(cursor, ch) >= console_size <=> r1 = Lines
    <2>1. 0 \in 0..W - 1 /\ Lines \in Int /\ r1 \in Int
      BY <1>0, <1>2
    <2>2. W * Lines + 0 <= W * r1 + x1 <=> Lines < r1 \/ (Lines = r1 /\ 0 <= x1)
      BY <2>1, <1>2, CellOrder
    <2>3. W * Lines \in Int /\ W * r1 \in Int /\ x1 \in Int
      BY <1>0, <1>2, <2>1
    <2> QED BY <1>0, <1>2, <1>5, <2>2, <2>3, Sizes
  <1> QED BY <1>2, <1>5, <1>6, <1>7, <1>8

Column(c) == consoles_table[c].cursor % W

\* The cursor goes to row r and column x, both of them counted from 0.
MovesTo(c, ch, r, x) ==
    /\ r \in 0..Lines /\ x \in 0..W - 1
    /\ ch = "newline" => r = CursorRow(c) + 1 /\ x = 0
    /\ ch = "char" => IF Column(c) < W - 1 THEN r = CursorRow(c) /\ x = Column(c) + 1
                      ELSE r = CursorRow(c) + 1 /\ x = 0
    /\ ch = "backspace" =>
          CASE Column(c) > 0                -> r = CursorRow(c) /\ x = Column(c) - 1
            [] Column(c) = 0 /\ CursorRow(c) > 0 -> r = CursorRow(c) - 1 /\ x = W - 1
            [] OTHER                        -> r = 0 /\ x = 0

\* There is still no text behind the cursor.
LEMMA NothingIsAhead ==
    ASSUME ConsoleTypeOK, NEW c \in Console, LineInStep(c), NothingAhead(c),
           NEW ch \in {"char", "backspace", "newline"}, NEW r, NEW x,
           MovesTo(c, ch, r, x), NEW n \in 1..MaxLine[c], n = line[c] + r - CursorRow(c)
    PROVE  /\ Edited(c, ch, n, x) \in [1..MaxLine[c] -> SUBSET (0..W - 1)]
           /\ \A m \in 1..MaxLine[c] : m > n => Edited(c, ch, n, x)[m] = {}
           /\ \A y \in Edited(c, ch, n, x)[n] : y < x
  <1>1. /\ CursorRow(c) \in 0..Lines - 1 /\ line[c] \in Nat \ {0} /\ Column(c) \in 0..W - 1
        /\ MaxLine[c] \in Nat
    BY RowIs, Sizes DEF Column
  <1>2. /\ line[c] \in 1..MaxLine[c] /\ r \in 0..Lines /\ x \in 0..W - 1
        /\ W \in Nat /\ W > 0 /\ Lines \in Nat
    BY <1>1, Sizes DEF LineInStep, MovesTo
  <1>3. text[c] \in [1..MaxLine[c] -> SUBSET (0..W - 1)]
    BY DEF ConsoleTypeOK
  <1>4. /\ \A m \in 1..MaxLine[c] : m > line[c] => text[c][m] = {}
        /\ \A y \in text[c][line[c]] : y \in 0..W - 1 /\ y < Column(c)
    BY <1>2, <1>3 DEF NothingAhead, Column
  <1>5. CASE ch = "newline"
    <2>1. Edited(c, ch, n, x) = text[c] /\ n > line[c]
      BY <1>1, <1>2, <1>5 DEF Edited, MovesTo, Column
    <2> QED BY <1>1, <1>3, <1>4, <2>1
  <1>6. CASE ch = "char"
    <2> DEFINE new == text[c][line[c]] \cup {Column(c)}
    <2>1. Edited(c, ch, n, x) = [text[c] EXCEPT ![line[c]] = new]
      BY <1>6 DEF Edited, Column
    <2>2. new \in SUBSET (0..W - 1)
      BY <1>1, <1>2, <1>3
    <2>3. \/ n = line[c] /\ x = Column(c) + 1
          \/ n = line[c] + 1 /\ x = 0
      BY <1>1, <1>6 DEF MovesTo
    <2>4. \A y \in new : y \in Int /\ y < Column(c) + 1
      BY <1>1, <1>4
    <2> HIDE DEF new
    <2>5. \A m \in 1..MaxLine[c] : Edited(c, ch, n, x)[m] =
                                    IF m = line[c] THEN new ELSE text[c][m]
      BY <1>3, <2>1
    <2>6. Edited(c, ch, n, x) \in [1..MaxLine[c] -> SUBSET (0..W - 1)]
      BY <1>2, <1>3, <2>1, <2>2
    <2>7. CASE n = line[c] /\ x = Column(c) + 1
      BY <1>1, <1>4, <2>4, <2>5, <2>6, <2>7
    <2>8. CASE n = line[c] + 1 /\ x = 0
      BY <1>1, <1>4, <2>5, <2>6, <2>8, SMTT(30)
    <2> QED BY <2>3, <2>7, <2>8
  <1>7. CASE ch = "backspace"
    <2> DEFINE new == text[c][n] \ {x}
    <2>1. Edited(c, ch, n, x) = [text[c] EXCEPT ![n] = new]
      BY <1>7 DEF Edited, Column
    <2>2. new \in SUBSET (0..W - 1)
      BY <1>3
    <2>3. \/ n = line[c] /\ Column(c) > 0 /\ x = Column(c) - 1
          \/ n = line[c] - 1 /\ Column(c) = 0 /\ x = W - 1
          \/ n <= line[c] /\ Column(c) = 0 /\ x = 0 /\ CursorRow(c) = 0 /\ n = line[c]
      BY <1>1, <1>2, <1>7 DEF MovesTo
    <2>4. \A y \in text[c][n] : y \in 0..W - 1
      BY <1>3
    <2>5. \A y \in new : y \in text[c][n] /\ y # x
      OBVIOUS
    <2> HIDE DEF new
    <2>6. \A m \in 1..MaxLine[c] : Edited(c, ch, n, x)[m] =
                                    IF m = n THEN new ELSE text[c][m]
      BY <1>3, <2>1
    <2>7. Edited(c, ch, n, x) \in [1..MaxLine[c] -> SUBSET (0..W - 1)]
      BY <1>3, <2>1, <2>2
    <2>8. \A y \in new : y < x
      <3> SUFFICES ASSUME NEW y \in new PROVE y < x
        OBVIOUS
      <3>1. y \in text[c][n] /\ y \in 0..W - 1 /\ y # x
        BY <2>4, <2>5
      <3> QED BY <1>1, <1>2, <1>4, <2>3, <3>1
    <2>9. ASSUME NEW m \in 1..MaxLine[c], m > n PROVE text[c][m] = {}
      <3>1. CASE m > line[c]
        BY <1>4, <3>1
      <3>2. CASE ~(m > line[c])
        <4>1. m = line[c] /\ Column(c) = 0
          BY <1>1, <2>3, <2>9, <3>2
        <4> QED BY <1>4, <4>1
      <3> QED BY <3>1, <3>2
    <2> QED BY <2>6, <2>7, <2>8, <2>9
  <1> QED BY <1>5, <1>6, <1>7

\* The memory holds the text with the character, in the rows where it held the
\* text without it.
LEMMA Printed ==
    ASSUME ConsoleTypeOK, NEW c \in Console, LineInStep(c), NothingAhead(c),
           MemoryInStep(c), consoles_table[c].is_full => CursorRow(c) >= H - 1,
           NEW ch \in {"char", "backspace", "newline"}, NEW r, NEW x,
           MovesTo(c, ch, r, x), consoles_table[c].is_full => r >= CursorRow(c),
           NEW n \in 1..MaxLine[c], n = line[c] + r - CursorRow(c),
           NEW j \in 0..Lines - 1, NEW y \in 0..W - 1
    PROVE  Written(cells[c], consoles_table[c].cursor, ch, line[c])[W * j + y] =
              IF LineIn(c, j) <= n /\ y \in Edited(c, ch, n, x)[LineIn(c, j)]
              THEN LineIn(c, j) ELSE Blank
  <1> DEFINE cursor == consoles_table[c].cursor
             h == LineIn(c, j)
             a == W * j + y
  <1>1. /\ CursorRow(c) \in 0..Lines - 1 /\ line[c] \in Nat \ {0} /\ Column(c) \in 0..W - 1
        /\ cursor = W * CursorRow(c) + Column(c) /\ MaxLine[c] \in Nat
    BY RowIs, Sizes DEF Column
  <1>2. /\ line[c] \in 1..MaxLine[c] /\ r \in 0..Lines /\ x \in 0..W - 1
        /\ W \in Nat /\ W > 0 /\ Lines \in Nat /\ H \in Nat /\ H > 1
    BY <1>1, Sizes DEF LineInStep, MovesTo
  <1>3. /\ text[c] \in [1..MaxLine[c] -> SUBSET (0..W - 1)]
        /\ cells[c] \in [Offset -> Nat]
    BY DEF ConsoleTypeOK
  <1>4. /\ \A m \in 1..MaxLine[c] : m > line[c] => text[c][m] = {}
        /\ \A z \in text[c][line[c]] : z \in 0..W - 1 /\ z < Column(c)
    BY <1>2, <1>3 DEF NothingAhead, Column
  <1>5. /\ h \in Nat /\ h > 0
        /\ j = CursorRow(c) => h = line[c]
        /\ j # CursorRow(c) => h # line[c]
        /\ ~consoles_table[c].is_full => h = j + 1 /\ line[c] = CursorRow(c) + 1
        /\ consoles_table[c].is_full => h <= line[c]
    <2>1. j = CursorRow(c) => h = line[c]
      BY <1>1, HeldIs
    <2> QED BY <2>1, HeldIs DEF LineInStep
  <1>6. cells[c][a] = IF h <= line[c] /\ y \in text[c][h] THEN h ELSE Blank
    BY DEF MemoryInStep
  <1>7. a \in Offset /\ cursor \in Offset
    <2>1. W * j + y <= W * (Lines - 1) + (W - 1)
      <3>1. j \in Int /\ Lines - 1 \in Int /\ W - 1 \in 0..W - 1
        BY <1>2
      <3>2. j < Lines - 1 \/ (j = Lines - 1 /\ y <= W - 1)
        BY <1>2
      <3> QED BY <3>1, <3>2, CellOrder
    <2>2. W * (Lines - 1) = W * Lines - W
      BY <1>2, NextRow
    <2>3. a \in Nat
      BY CellIs
    <2>4. cursor \in 0..console_size - 1
      BY DEF ConsoleTypeOK
    <2>5. W * Lines \in Int
      BY <1>2
    <2> QED BY <1>2, <2>1, <2>2, <2>3, <2>4, <2>5, Sizes DEF Offset, P
  <1>8. \A i \in 0..Lines - 1, z \in 0..W - 1 : a = W * i + z => j = i /\ y = z
    BY <1>2, CellsDiffer
  <1> HIDE DEF a, h
  <1>9. CASE ch = "newline"
    <2>1. Written(cells[c], cursor, ch, line[c])[a] = cells[c][a]
          /\ Edited(c, ch, n, x) = text[c] /\ n = line[c] + 1
      BY <1>1, <1>9 DEF Written, Edited, MovesTo, Column
    <2>2. h <= n /\ ~(h <= line[c]) => text[c][h] = {}
      BY <1>1, <1>2, <1>4, <1>5, <2>1
    <2> QED BY <1>1, <1>5, <1>6, <2>1, <2>2 DEF a, h
  <1>10. CASE ch = "char"
    <2>1. Written(cells[c], cursor, ch, line[c]) = [cells[c] EXCEPT ![cursor] = line[c]]
          /\ Edited(c, ch, n, x) = [text[c] EXCEPT ![line[c]] =
                                       text[c][line[c]] \cup {Column(c)}]
          /\ (n = line[c] \/ n = line[c] + 1)
      BY <1>1, <1>10 DEF Written, Edited, MovesTo, Column
    <2>2. CASE a = cursor
      <3>1. j = CursorRow(c) /\ y = Column(c)
        BY <1>1, <1>8, <2>2
      <3>2. Written(cells[c], cursor, ch, line[c])[a] = line[c]
        BY <1>3, <1>7, <2>1, <2>2
      <3>3. y \in Edited(c, ch, n, x)[line[c]]
        BY <1>2, <1>3, <2>1, <3>1
      <3> QED BY <1>1, <1>5, <2>1, <3>1, <3>2, <3>3 DEF a, h
    <2>3. CASE a # cursor
      <3>1. Written(cells[c], cursor, ch, line[c])[a] = cells[c][a]
        BY <1>3, <1>7, <2>1, <2>3
      <3>2. ~(j = CursorRow(c) /\ y = Column(c))
        BY <1>1, <2>3 DEF a
      <3>3. CASE j = CursorRow(c)
        <4>1. h = line[c] /\ (y \in Edited(c, ch, n, x)[h] <=> y \in text[c][h])
          BY <1>2, <1>3, <1>5, <2>1, <3>2, <3>3, SMTT(30)
        <4> QED BY <1>1, <1>6, <2>1, <3>1, <4>1 DEF a, h
      <3>4. CASE j # CursorRow(c)
        <4>1. h # line[c]
          BY <1>5, <3>4
        <4>2. h <= n => h \in 1..MaxLine[c]
          BY <1>1, <1>5
        <4>3. h <= n => Edited(c, ch, n, x)[h] = text[c][h]
          BY <1>3, <2>1, <4>1, <4>2
        <4>4. h <= n /\ ~(h <= line[c]) => text[c][h] = {}
          BY <1>1, <1>4, <1>5, <2>1, <4>2
        <4> QED BY <1>1, <1>5, <1>6, <2>1, <3>1, <4>3, <4>4 DEF a, h
      <3> QED BY <3>3, <3>4
    <2> QED BY <2>2, <2>3
  <1>11. CASE ch = "backspace"
    <2>1. Edited(c, ch, n, x) = [text[c] EXCEPT ![n] = text[c][n] \ {x}]
      BY <1>11 DEF Edited, Column
    <2>2. h \in 1..MaxLine[c] =>
             Edited(c, ch, n, x)[h] = IF h = n THEN text[c][n] \ {x} ELSE text[c][h]
      BY <1>3, <2>1
    <2>3. h <= n => h \in 1..MaxLine[c]
      BY <1>1, <1>5
    <2>4. \/ cursor > 0 /\ n = line[c] /\ r = CursorRow(c) /\ x = Column(c) - 1
          \/ cursor > 0 /\ n = line[c] - 1 /\ r = CursorRow(c) - 1 /\ x = W - 1 /\ Column(c) = 0
          \/ cursor = 0 /\ n = line[c] /\ r = CursorRow(c) /\ x = 0 /\ Column(c) = 0
      <3>1. CursorRow(c) > 0 => W * 0 + W <= W * CursorRow(c)
        <4>1. CursorRow(c) \in Int /\ 0 \in Int
          BY <1>1
        <4> QED BY <4>1, RowsApart
      <3>2. W * 0 = 0 /\ W * CursorRow(c) \in Nat
        BY <1>1, <1>2
      <3>3. CursorRow(c) > 0 \/ Column(c) > 0 => cursor > 0
        BY <1>1, <1>2, <3>1, <3>2
      <3>4. CursorRow(c) = 0 /\ Column(c) = 0 => cursor = 0
        BY <1>1, <3>2
      <3>5. CASE Column(c) > 0
        <4>1. r = CursorRow(c) /\ x = Column(c) - 1
          BY <1>11, <3>5 DEF MovesTo
        <4> QED BY <1>1, <3>3, <3>5, <4>1
      <3>6. CASE Column(c) = 0 /\ CursorRow(c) > 0
        <4>1. r = CursorRow(c) - 1 /\ x = W - 1
          BY <1>11, <3>6 DEF MovesTo
        <4> QED BY <1>1, <3>3, <3>6, <4>1
      <3>7. CASE Column(c) = 0 /\ CursorRow(c) = 0
        <4>1. r = 0 /\ x = 0
          BY <1>11, <3>7 DEF MovesTo
        <4> QED BY <1>1, <3>4, <3>7, <4>1
      <3> QED BY <1>1, <1>2, <3>5, <3>6, <3>7
    <2>5. \A z \in text[c][n] : z \in 0..W - 1
      BY <1>3
    <2>6. CASE cursor = 0
      <3>1. Written(cells[c], cursor, ch, line[c])[a] = cells[c][a]
            /\ n = line[c] /\ Column(c) = 0
        BY <1>1, <1>11, <2>4, <2>6 DEF Written
      <3>2. text[c][n] = {}
        BY <1>4, <3>1
      <3>3. h <= n => Edited(c, ch, n, x)[h] = text[c][h]
        BY <2>2, <2>3, <3>2
      <3> QED BY <1>6, <3>1, <3>3 DEF a, h
    <2>7. CASE cursor # 0
      <3>1. cursor > 0 /\ cursor - 1 = W * r + x /\ r \in 0..Lines - 1
        <4>1. r = CursorRow(c) - 1 => W * r = W * CursorRow(c) - W
          BY <1>1, NextRow
        <4>2. W * CursorRow(c) \in Int
          BY <1>1, <1>2
        <4>3. cursor \in Int /\ cursor >= 0
          BY <1>1, <1>2, <4>2
        <4>4. CursorRow(c) \in Int /\ Column(c) \in Int /\ W \in Int /\ Lines \in Int
              /\ Column(c) >= 0
          BY <1>1, <1>2
        <4> HIDE DEF cursor
        <4> QED BY <1>1, <1>2, <2>4, <2>7, <4>1, <4>2, <4>3, <4>4, SMTT(30)
      <3>2. Written(cells[c], cursor, ch, line[c]) = [cells[c] EXCEPT ![cursor - 1] = Blank]
        BY <1>11, <3>1 DEF Written
      <3>3. CASE a = cursor - 1
        <4>1. j = r /\ y = x
          BY <1>2, <1>8, <3>1, <3>3
        <4>2. h = n
          <5>1. r = CursorRow(c) \/ ~consoles_table[c].is_full
            <6>1. r <= CursorRow(c)
              BY <1>1, <2>4
            <6> QED BY <1>1, <1>2, <6>1
          <5> QED BY <1>1, <1>5, <4>1, <5>1
        <4>3. Written(cells[c], cursor, ch, line[c])[a] = Blank
          BY <1>3, <1>7, <3>2, <3>3
        <4>4. y \notin Edited(c, ch, n, x)[h]
          BY <2>2, <4>1, <4>2
        <4> QED BY <4>3, <4>4 DEF a, h
      <3>4. CASE a # cursor - 1
        <4>1. Written(cells[c], cursor, ch, line[c])[a] = cells[c][a]
          BY <1>3, <1>7, <3>2, <3>4
        <4>2. ~(j = r /\ y = x)
          BY <3>1, <3>4 DEF a
        <4>3. h = n => j = r
          <5> SUFFICES ASSUME h = n, j # r PROVE FALSE
            OBVIOUS
          <5>1. CASE consoles_table[c].is_full
            <6>1. r = CursorRow(c) /\ n = line[c]
              BY <1>1, <1>2, <2>4, <5>1
            <6> QED BY <1>5, <6>1
          <5>2. CASE ~consoles_table[c].is_full
            <6>1. h = j + 1 /\ n = r + 1
              BY <1>1, <1>2, <1>5, <5>2
            <6> QED BY <1>2, <6>1
          <5> QED BY <5>1, <5>2
        <4>4. h <= n => (y \in Edited(c, ch, n, x)[h] <=> y \in text[c][h])
          BY <2>2, <2>3, <4>2, <4>3
        <4>5. h <= line[c] /\ ~(h <= n) => text[c][h] = {}
          <5> SUFFICES ASSUME h <= line[c], ~(h <= n) PROVE text[c][h] = {}
            OBVIOUS
          <5>1. h = line[c] /\ Column(c) = 0
            BY <1>1, <1>5, <2>4
          <5> QED BY <1>4, <5>1
        <4>6. n <= line[c]
          BY <1>1, <2>4
        <4> QED BY <1>1, <1>5, <1>6, <4>1, <4>4, <4>5, <4>6 DEF a, h
      <3> QED BY <3>3, <3>4
    <2> QED BY <2>6, <2>7
  <1> QED BY <1>9, <1>10, <1>11

-----------------------------------------------------------------------------
(* console_put_char in rows.                                               *)

\* The cursor goes to row r and column x or, when r is behind the memory, to the
\* last row of the screen at its beginning; and the screen to row `to`.
EndRow(r)  == IF r = Lines THEN H - 1 ELSE r
TopOf(c, r) == IF r = Lines THEN 0 ELSE Top(c)
FullOf(c, r) == r = Lines \/ consoles_table[c].is_full

MemoryOf(c, ch, r) ==
    LET memory == Written(cells[c], consoles_table[c].cursor, ch, line[c])
    IN  IF r = Lines THEN Wrapped(memory) ELSE memory

Stores(c, ch, r, x, n, to, moved) ==
    /\ MovesTo(c, ch, r, x) /\ n \in 1..MaxLine[c] /\ n = line[c] + r - CursorRow(c)
    /\ to \in 0..Lines - H /\ moved \in BOOLEAN
    /\ consoles_table' = [consoles_table EXCEPT ![c] =
          [cursor |-> W * EndRow(r) + x, current_start_address |-> W * to,
           is_full |-> FullOf(c, r)]]
    /\ cells' = CellsAfter(c, MemoryOf(c, ch, r), W * EndRow(r) + x, moved)
    /\ line' = [line EXCEPT ![c] = n]
    /\ shown' = [shown EXCEPT ![c] = n - (EndRow(r) - to)]
    /\ text' = [text EXCEPT ![c] = Reaching(Edited(c, ch, n, x), n)]
    /\ plain' = [d \in Console |->
          /\ plain[d]
          /\ d = c /\ consoles_table[c].is_full =>
                Top(c) <= CursorRow(c) /\ CursorRow(c) < Top(c) + H /\ r >= CursorRow(c)
          /\ d # c => cells'[d] = cells[d]]
    /\ crtc' = IF c = current_console_id
               THEN [cursor |-> W * EndRow(r) + x, start |-> W * to, console |-> c]
               ELSE crtc
    /\ current_console_id' = current_console_id

\* The cursor comes into view ...
Views(c, r, to, moved) ==
    /\ to <= EndRow(r) /\ EndRow(r) < to + H
    /\ ~moved => to = TopOf(c, r)
    /\ moved /\ ~FullOf(c, r) => to = EndRow(r) - H + 1
    /\ TopOf(c, r) <= EndRow(r) /\ EndRow(r) < TopOf(c, r) + H => ~moved
    /\ TopOf(c, r) + H = EndRow(r) => moved /\ to = TopOf(c, r) + 1
    /\ hung' = FALSE

\* ... or it is above the screen.
Hangs(c, r, to) == ~FullOf(c, r) /\ EndRow(r) < to /\ to = TopOf(c, r) /\ hung' = TRUE

LEMMA PutCharPrints ==
    ASSUME ConsoleTypeOK, NEW c \in Console, LineInStep(c), Goes(c),
           NEW ch \in {"char", "backspace", "newline"},
           console_put_char(c, ch)
    PROVE  \E r \in 0..Lines, x \in 0..W - 1, n \in 1..MaxLine[c],
              to \in 0..Lines - H, moved \in BOOLEAN :
              /\ Stores(c, ch, r, x, n, to, moved)
              /\ Views(c, r, to, moved) \/ Hangs(c, r, to)
  <1> DEFINE con == consoles_table[c]
             new == Moved(con.cursor, ch)
             memory == Written(cells[c], con.cursor, ch, line[c])
  <1>1. /\ con \in Places /\ con.cursor = W * CursorRow(c) + Column(c)
        /\ Column(c) \in 0..W - 1 /\ con.cursor \div W = CursorRow(c)
        /\ CursorRow(c) \in 0..Lines - 1 /\ Top(c) \in 0..Lines - H
        /\ con.current_start_address = W * Top(c)
        /\ line[c] \in Nat \ {0} /\ con.is_full \in BOOLEAN
    BY RowIs DEF Column
  <1>2. PICK r \in 0..Lines, x \in 0..W - 1 :
              /\ new = W * r + x /\ new \div W = r /\ new % W = x
              /\ MovesTo(c, ch, r, x)
              /\ new >= console_size <=> r = Lines
    <2>1. \E r1 \in 0..Lines, x1 \in 0..W - 1 :
              /\ new = W * r1 + x1 /\ new \div W = r1 /\ new % W = x1
              /\ ch = "newline" => r1 = CursorRow(c) + 1 /\ x1 = 0
              /\ ch = "char" => IF Column(c) < W - 1
                                THEN r1 = CursorRow(c) /\ x1 = Column(c) + 1
                                ELSE r1 = CursorRow(c) + 1 /\ x1 = 0
              /\ ch = "backspace" =>
                    CASE Column(c) > 0                -> r1 = CursorRow(c) /\ x1 = Column(c) - 1
                      [] Column(c) = 0 /\ CursorRow(c) > 0 -> r1 = CursorRow(c) - 1 /\ x1 = W - 1
                      [] OTHER                        -> r1 = 0 /\ x1 = 0
              /\ new >= console_size <=> r1 = Lines
      <3> HIDE DEF con
      <3> QED BY <1>1, MovedIs
    <2> HIDE DEF new
    <2> QED BY <2>1 DEF MovesTo
  <1> DEFINE n == line[c] + r - CursorRow(c)
  <1>3. /\ Lines \in Nat /\ H \in Nat /\ H > 1 /\ Lines > H /\ W \in Nat /\ W > 0
        /\ MaxLine[c] \in Nat
    BY Sizes
  <1>4. n \in 1..MaxLine[c] /\ r <= CursorRow(c) + 1
    <2>1. r <= CursorRow(c) + 1 /\ r >= CursorRow(c) - 1
      BY <1>1, <1>2, <1>3 DEF MovesTo
    <2>2. line[c] + 1 <= MaxLine[c]
      BY <1>1, <1>3 DEF Goes
    <2>3. line[c] + r - CursorRow(c) >= 1
      <3>1. line[c] > CursorRow(c)
        <4>1. con.is_full => line[c] - CursorRow(c) > Apart
          BY DEF LineInStep
        <4>2. ~con.is_full => line[c] = CursorRow(c) + 1
          BY DEF LineInStep
        <4> QED BY <1>1, <4>1, <4>2, Sizes
      <3> QED BY <1>1, <1>2, <3>1
    <2> QED BY <1>1, <1>2, <1>3, <2>1, <2>2, <2>3
  <1>5. line' = [line EXCEPT ![c] = n]
    <2>1. line' = [line EXCEPT ![c] = @ + (new \div W) - (con.cursor \div W)]
      BY DEF console_put_char
    <2> QED BY <1>1, <1>2, <2>1
  <1>6. line'[c] = n /\ line'[c] \in Int
    <2>1. DOMAIN line = Console
      BY DEF ConsoleTypeOK
    <2> QED BY <1>4, <1>5, <2>1
  <1>7. text' = [text EXCEPT ![c] = Reaching(Edited(c, ch, n, x), n)]
    <2>1. text' = [text EXCEPT ![c] =
                      Reaching(Edited(c, ch, line'[c], new % W), line'[c])]
      BY DEF console_put_char
    <2> QED BY <1>2, <1>6, <2>1
  <1>8. InView(con, con.current_start_address) <=> Top(c) <= CursorRow(c) /\ CursorRow(c) < Top(c) + H
    <2> HIDE DEF con
    <2> QED BY <1>1, InViewIs
  <1>9. plain' = [d \in Console |->
            /\ plain[d]
            /\ d = c /\ con.is_full =>
                  Top(c) <= CursorRow(c) /\ CursorRow(c) < Top(c) + H /\ r >= CursorRow(c)
            /\ d # c => cells'[d] = cells[d]]
    <2>1. plain' = [d \in Console |->
              /\ plain[d]
              /\ d = c /\ con.is_full =>
                    InView(con, con.current_start_address) /\ line'[c] >= line[c]
              /\ d # c => cells'[d] = cells[d]]
      BY DEF console_put_char
    <2>2. line'[c] >= line[c] <=> r >= CursorRow(c)
      BY <1>1, <1>2, <1>3, <1>6
    <2> HIDE DEF con
    <2>3. \A d \in Console :
             (/\ plain[d]
              /\ d = c /\ con.is_full =>
                    InView(con, con.current_start_address) /\ line'[c] >= line[c]
              /\ d # c => cells'[d] = cells[d])
             = (/\ plain[d]
                /\ d = c /\ con.is_full =>
                     Top(c) <= CursorRow(c) /\ CursorRow(c) < Top(c) + H /\ r >= CursorRow(c)
                /\ d # c => cells'[d] = cells[d])
      BY <1>8, <2>2
    <2> QED BY <2>1, <2>3
  <1> DEFINE next == [cursor |-> W * EndRow(r) + x, current_start_address |-> W * TopOf(c, r),
                      is_full |-> FullOf(c, r)]
  <1>10. Follows(c, next, MemoryOf(c, ch, r))
    <2>1. CASE r = Lines
      <3>1. Follows(c, [cursor  |-> CONSOLE_SCREEN_SIZE - W + (new % W),
                        current_start_address |-> 0,
                        is_full |-> TRUE], Wrapped(memory))
        BY <1>2, <2>1 DEF console_put_char
      <3>2. CONSOLE_SCREEN_SIZE - W + (new % W) = W * EndRow(r) + x
        <4>1. W * (H - 1) = W * H - W
          BY <1>3, NextRow
        <4> QED BY <1>2, <2>1, <4>1, Sizes DEF EndRow
      <3>3. W * TopOf(c, r) = 0
        BY <1>3, <2>1 DEF TopOf
      <3> QED BY <2>1, <3>1, <3>2, <3>3 DEF FullOf, MemoryOf
    <2>2. CASE r # Lines
      <3>1. Follows(c, [con EXCEPT !.cursor = new], memory)
        BY <1>2, <2>2 DEF console_put_char
      <3>2. [con EXCEPT !.cursor = new] = next
        <4>1. [con EXCEPT !.cursor = new] =
                 [cursor |-> new, current_start_address |-> con.current_start_address,
                  is_full |-> con.is_full]
          BY <1>1 DEF Places
        <4>2. EndRow(r) = r /\ TopOf(c, r) = Top(c) /\ FullOf(c, r) = con.is_full
          BY <1>1, <2>2 DEF EndRow, TopOf, FullOf
        <4> QED BY <1>1, <1>2, <4>1, <4>2
      <3> HIDE DEF con, new, next
      <3> QED BY <2>2, <3>1, <3>2 DEF MemoryOf, con
    <2> QED BY <2>1, <2>2
  <1>11. EndRow(r) \in 0..Lines - 1 /\ TopOf(c, r) \in 0..Lines - H
         /\ FullOf(c, r) \in BOOLEAN
    BY <1>1, <1>3 DEF EndRow, TopOf, FullOf
  <1>12. W * EndRow(r) + x \in 0..console_size - 1
         /\ (W * EndRow(r) + x) \div W = EndRow(r)
    <2> DEFINE e == EndRow(r)
    <2> HIDE DEF e
    <2>1. e \in Nat /\ e < Lines /\ e \in Int /\ Lines \in Int
      BY <1>3, <1>11 DEF e
    <2>2. W * e + x \in Nat /\ (W * e + x) \div W = e
      BY <2>1, <1>2, CellIs
    <2>3. W * e + W <= W * Lines
      BY <2>1, RowsApart
    <2>4. W * e \in Int /\ W * Lines \in Int
      BY <2>1, <1>3
    <2> QED BY <1>2, <1>3, <2>2, <2>3, <2>4, Sizes DEF e
  <1>13. next \in Places
    <2>1. W * TopOf(c, r) \in {W * k : k \in 0..Lines - CONSOLE_SCREEN_HEIGHT}
      BY <1>11 DEF H
    <2> QED BY <1>11, <1>12, <2>1 DEF Places
  <1> DEFINE f == EndRow(r)
             k == TopOf(c, r)
  <1>15. /\ next.cursor = W * f + x /\ next.cursor \div W = f
         /\ next.current_start_address = W * k /\ next.is_full = FullOf(c, r)
    BY <1>12
  <1>16. f \in 0..Lines - 1 /\ k \in 0..Lines - H
    BY <1>11
  <1>17. \A to : [next EXCEPT !.current_start_address = W * to] =
                  [cursor |-> W * f + x, current_start_address |-> W * to,
                   is_full |-> FullOf(c, r)]
    OBVIOUS
  <1> HIDE DEF next, f, k, con, new, memory, n
  <1>18. PICK to \in 0..Lines - H, moved \in BOOLEAN :
              /\ consoles_table' = [consoles_table EXCEPT ![c] =
                                       [next EXCEPT !.current_start_address = W * to]]
              /\ cells' = CellsAfter(c, MemoryOf(c, ch, r), next.cursor, moved)
              /\ shown' = [shown EXCEPT ![c] = line'[c] - (f - to)]
              /\ console_flush(c, [next EXCEPT !.current_start_address = W * to])
              /\ hung' = (~next.is_full /\ f < k)
              /\ hung' => to = k
              /\ ~hung' =>
                    /\ to <= f /\ f < to + H
                    /\ ~moved => to = k
                    /\ moved /\ ~next.is_full => to = f - H + 1
                    /\ k <= f /\ f < k + H => ~moved
                    /\ k + H = f => moved /\ to = k + 1
    <2> HIDE DEF MemoryOf
    <2>1. next \in Places
      BY <1>13
    <2> QED BY <1>2, <1>6, <1>10, <1>15, <1>16, <2>1, FollowsTo
  <1>19. current_console_id' = current_console_id
    BY DEF console_put_char
  <1>20. crtc' = IF c = current_console_id
                 THEN [cursor |-> W * f + x, start |-> W * to, console |-> c]
                 ELSE crtc
    BY <1>17, <1>18 DEF console_flush
  <1>21. Stores(c, ch, r, x, n, to, moved)
    BY <1>2, <1>4, <1>5, <1>6, <1>7, <1>9, <1>15, <1>17, <1>18, <1>19, <1>20
       DEF Stores, f, n, con
  <1>22. CASE hung'
    <2>1. hung' = TRUE /\ ~FullOf(c, r) /\ f < k /\ to = k
      BY <1>15, <1>18, <1>22
    <2> QED BY <1>2, <1>4, <1>18, <1>21, <2>1 DEF Hangs, f, k
  <1>23. CASE ~hung'
    <2>1. hung' = FALSE
      BY <1>18, <1>23
    <2>2. Views(c, r, to, moved)
      BY <1>15, <1>18, <1>23, <2>1 DEF Views, f, k
    <2> QED BY <1>2, <1>4, <1>18, <1>21, <2>2
  <1> QED BY <1>22, <1>23

\* The memory keeps its type under everything console_put_char does to it.
LEMMA MemoryTyped ==
    ASSUME ConsoleTypeOK, NEW c \in Console, NEW ch, NEW r \in 0..Lines, NEW p
    PROVE  /\ MemoryOf(c, ch, r) \in [Offset -> Nat]
           /\ console_clear_screen(MemoryOf(c, ch, r), p, W) \in [Offset -> Nat]
  <1> DEFINE memory == Written(cells[c], consoles_table[c].cursor, ch, line[c])
             from   == console_size + W - CONSOLE_SCREEN_SIZE
  <1>1. cells[c] \in [Offset -> Nat] /\ line[c] \in Nat /\ Blank \in Nat
    BY DEF ConsoleTypeOK, Blank
  <1>2. memory \in [Offset -> Nat]
    BY <1>1 DEF Written
  <1> HIDE DEF memory
  <1>3. ASSUME NEW a \in Offset, a < CONSOLE_SCREEN_SIZE - W PROVE from + a \in Offset
    <2>1. W * Lines \in Int /\ W * H \in Int /\ W \in Nat
      BY Sizes
    <2>2. W * H <= W * Lines
      BY Sizes, RowsApart
    <2> QED BY <1>3, <2>1, <2>2, Sizes DEF Offset, P
  <1>4. Copied(memory, from) \in [Offset -> Nat]
    <2> HIDE DEF from
    <2> QED BY <1>2, <1>3 DEF Copied
  <1>5. \A m \in [Offset -> Nat] : \A b, l :
           console_clear_screen(m, b, l) \in [Offset -> Nat]
    BY <1>1 DEF console_clear_screen
  <1>6. Wrapped(memory) \in [Offset -> Nat]
    <2>1. Wrapped(memory) =
            console_clear_screen(Copied(memory, from), CONSOLE_SCREEN_SIZE - W, W)
      BY DEF Wrapped
    <2> QED BY <1>4, <1>5, <2>1
  <1>7. MemoryOf(c, ch, r) \in [Offset -> Nat]
    BY <1>2, <1>6 DEF MemoryOf, memory
  <1> QED BY <1>5, <1>7

LEMMA PrintsTyped ==
    ASSUME ConsoleTypeOK, NEW c \in Console, LineInStep(c), NothingAhead(c),
           NEW ch \in {"char", "backspace", "newline"}, NEW r, NEW x, NEW n, NEW to,
           NEW moved, Stores(c, ch, r, x, n, to, moved), hung' \in BOOLEAN
    PROVE  ConsoleTypeOK'
  <1>1. /\ Lines \in Nat /\ H \in Nat /\ H > 1 /\ Lines > H /\ W \in Nat /\ W > 0
        /\ MaxLine[c] \in Nat
    BY Sizes
  <1>2. /\ r \in 0..Lines /\ x \in 0..W - 1 /\ n \in 1..MaxLine[c]
        /\ n = line[c] + r - CursorRow(c) /\ to \in 0..Lines - H /\ moved \in BOOLEAN
        /\ MovesTo(c, ch, r, x)
    BY DEF Stores, MovesTo
  <1> DEFINE f == EndRow(r)
  <1>3. f \in 0..Lines - 1 /\ FullOf(c, r) \in BOOLEAN
    BY <1>1, <1>2, RowIs DEF EndRow, FullOf
  <1> HIDE DEF f
  <1>4. W * f + x \in 0..console_size - 1
    <2>1. f \in Nat /\ f < Lines /\ f \in Int /\ Lines \in Int
      BY <1>1, <1>3
    <2>2. W * f + x \in Nat
      BY <2>1, <1>2, CellIs
    <2>3. W * f + W <= W * Lines
      BY <2>1, RowsApart
    <2>4. W * f \in Int /\ W * Lines \in Int
      BY <2>1, <1>1
    <2> QED BY <1>1, <1>2, <2>2, <2>3, <2>4, Sizes
  <1>5. W * to \in {W * k : k \in 0..Lines - CONSOLE_SCREEN_HEIGHT}
    BY <1>2 DEF H
  <1>6. W * to \in 0..console_size - 1
    <2>1. to \in Nat /\ to < Lines /\ Lines \in Int /\ 0 \in 0..W - 1
      BY <1>1, <1>2
    <2>2. W * to + 0 \in Nat
      BY <2>1, CellIs
    <2>3. W * to + W <= W * Lines
      BY <2>1, RowsApart
    <2>4. W * to \in Int /\ W * Lines \in Int
      BY <2>1, <1>1
    <2> QED BY <1>1, <2>2, <2>3, <2>4, Sizes
  <1>7. consoles_table' \in
          [Console -> [cursor : 0..console_size - 1,
                       current_start_address :
                           {W * k : k \in 0..Lines - CONSOLE_SCREEN_HEIGHT},
                       is_full : BOOLEAN]]
    <2> DEFINE new == [cursor |-> W * f + x, current_start_address |-> W * to,
                       is_full |-> FullOf(c, r)]
    <2>1. consoles_table' = [consoles_table EXCEPT ![c] = new]
      BY DEF Stores, f
    <2>2. new \in [cursor : 0..console_size - 1,
                   current_start_address :
                       {W * k : k \in 0..Lines - CONSOLE_SCREEN_HEIGHT},
                   is_full : BOOLEAN]
      BY <1>3, <1>4, <1>5
    <2> HIDE DEF new
    <2> QED BY <2>1, <2>2 DEF ConsoleTypeOK
  <1>8. current_console_id' \in Console
    BY DEF Stores, ConsoleTypeOK
  <1>9. crtc' \in [cursor : 0..console_size - 1, start : 0..console_size - 1,
                   console : Console]
    <2>1. crtc' = IF c = current_console_id
                  THEN [cursor |-> W * f + x, start |-> W * to, console |-> c]
                  ELSE crtc
      BY DEF Stores, f
    <2> QED BY <1>4, <1>6, <2>1 DEF ConsoleTypeOK
  <1>10. cells' \in [Console -> [Offset -> Nat]]
    <2>1. MemoryOf(c, ch, r) \in [Offset -> Nat]
      BY <1>2, MemoryTyped
    <2>2. \A m \in [Offset -> Nat] : \A b :
             console_clear_screen(m, b, W) \in [Offset -> Nat]
      BY DEF console_clear_screen, Blank
    <2>3. cells \in [Console -> [Offset -> Nat]]
      BY DEF ConsoleTypeOK
    <2>4. cells' = CellsAfter(c, MemoryOf(c, ch, r), W * f + x, moved)
      BY DEF Stores, f
    <2> HIDE DEF MemoryOf
    <2> QED BY <2>1, <2>2, <2>3, <2>4 DEF CellsAfter
  <1>11. line' \in [Console -> Nat \ {0}]
    <2>1. line' = [line EXCEPT ![c] = n]
      BY DEF Stores
    <2>2. n \in Nat \ {0}
      BY <1>1, <1>2
    <2> QED BY <2>1, <2>2 DEF ConsoleTypeOK
  <1>12. shown' \in [Console -> Int]
    <2>1. shown' = [shown EXCEPT ![c] = n - (f - to)]
      BY DEF Stores, f
    <2>2. n - (f - to) \in Int
      BY <1>1, <1>2, <1>3
    <2> QED BY <2>1, <2>2 DEF ConsoleTypeOK
  <1>13. DOMAIN text' = Console
         /\ \A d \in Console : text'[d] \in [1..MaxLine[d] -> SUBSET (0..W - 1)]
    <2> DEFINE lines == Edited(c, ch, n, x)
               kept  == Reaching(lines, n)
    <2>1. lines \in [1..MaxLine[c] -> SUBSET (0..W - 1)]
      BY <1>2, NothingIsAhead
    <2> HIDE DEF lines
    <2>2. kept \in [1..MaxLine[c] -> SUBSET (0..W - 1)]
      BY <2>1 DEF Reaching
    <2>3. text' = [text EXCEPT ![c] = kept]
      BY DEF Stores, lines
    <2> HIDE DEF kept
    <2> QED BY <2>2, <2>3 DEF ConsoleTypeOK
  <1>14. plain' \in [Console -> BOOLEAN]
    <2> DEFINE p(d) == /\ plain[d]
                       /\ d = c /\ consoles_table[c].is_full =>
                             /\ Top(c) <= CursorRow(c) /\ CursorRow(c) < Top(c) + H
                             /\ r >= CursorRow(c)
                       /\ d # c => cells'[d] = cells[d]
    <2>1. plain' = [d \in Console |-> p(d)]
      BY DEF Stores
    <2>2. \A d : p(d) \in BOOLEAN
      OBVIOUS
    <2> HIDE DEF p
    <2> QED BY <2>1, <2>2
  <1> QED BY <1>7, <1>8, <1>9, <1>10, <1>11, <1>12, <1>13, <1>14 DEF ConsoleTypeOK

\* A cell in row j comes after the cell in row r and column x.
LEMMA ClearedCells ==
    ASSUME NEW r \in 0..Lines - 1, NEW x \in 0..W - 1, NEW memory,
           NEW j \in 0..Lines - 1, NEW y \in 0..W - 1
    PROVE  LET after == console_clear_screen(memory, W * r + x, W)
           IN  /\ after[W * j + y] = Blank \/ after[W * j + y] = memory[W * j + y]
               /\ j < r \/ (j = r /\ y < x) => after[W * j + y] = memory[W * j + y]
               /\ after[W * j + y] # memory[W * j + y] => j > r \/ (j = r /\ x <= y)
               /\ x = 0 => after[W * j + y] = IF j = r THEN Blank ELSE memory[W * j + y]
  <1> DEFINE a == W * j + y
             p == W * r + x
             after == console_clear_screen(memory, W * r + x, W)
  <1>0. /\ Lines \in Nat /\ W \in Nat /\ W > 0 /\ W * j \in Int /\ W * r \in Int
        /\ r \in Int /\ j \in Int
    BY Sizes
  <1>1. a \in Offset
    <2>1. W * j + W <= W * Lines
      <3>1. j < Lines /\ j \in Int /\ Lines \in Int
        BY <1>0
      <3> QED BY <3>1, RowsApart
    <2>2. W * j >= 0
      BY <1>0
    <2>3. W * Lines \in Int
      BY <1>0
    <2> QED BY <1>0, <2>1, <2>2, <2>3, Sizes DEF Offset, P
  <1>2. after[a] = IF a \in p..p + W - 1 THEN Blank ELSE memory[a]
    BY <1>1 DEF console_clear_screen
  <1>3. p <= a <=> r < j \/ (r = j /\ x <= y)
    BY <1>0, CellOrder
  <1>4. j < r \/ (j = r /\ y < x) => ~(p <= a)
    BY <1>0, <1>3
  <1>5. j > r /\ x = 0 => ~(a <= p + W - 1)
    <2> SUFFICES ASSUME j > r, x = 0 PROVE ~(a <= p + W - 1)
      OBVIOUS
    <2>1. W * r + W <= W * j
      BY <1>0, RowsApart
    <2> QED BY <1>0, <2>1
  <1>6. j = r /\ x = 0 => a \in p..p + W - 1
    BY <1>0
  <1>7. a \in p..p + W - 1 => p <= a /\ a <= p + W - 1
    BY <1>0
  <1> HIDE DEF a, p
  <1>8. /\ after[a] = Blank \/ after[a] = memory[a]
        /\ j < r \/ (j = r /\ y < x) => after[a] = memory[a]
        /\ after[a] # memory[a] => j > r \/ (j = r /\ x <= y)
    BY <1>2, <1>3, <1>4, <1>7
  <1>9. x = 0 => after[a] = IF j = r THEN Blank ELSE memory[a]
    <2>1. CASE j = r
      BY <1>2, <1>6, <2>1
    <2>2. CASE j > r
      BY <1>2, <1>5, <1>7, <2>2
    <2>3. CASE j < r
      BY <1>8, <2>3
    <2> QED BY <1>0, <2>1, <2>2, <2>3
  <1> QED BY <1>8, <1>9 DEF a

LEMMA ClearedRow ==
    ASSUME NEW r \in 0..Lines - 1, NEW memory, NEW j \in 0..Lines - 1, NEW y \in 0..W - 1
    PROVE  /\ j = r => console_clear_screen(memory, W * r + 0, W)[W * j + y] = Blank
           /\ j # r => console_clear_screen(memory, W * r + 0, W)[W * j + y] = memory[W * j + y]
  <1>1. 0 \in 0..W - 1
    BY Sizes
  <1> QED BY <1>1, ClearedCells

\* The first rows of the memory are the last ones, and a row is cleared.
LEMMA WrappedCells ==
    ASSUME NEW memory, NEW j \in 0..Lines - 1, NEW y \in 0..W - 1
    PROVE  Wrapped(memory)[W * j + y] =
              IF j < H - 1 THEN memory[W * (Apart + j) + y]
              ELSE IF j = H - 1 THEN Blank ELSE memory[W * j + y]
  <1> DEFINE from == console_size + W - CONSOLE_SCREEN_SIZE
             copied == Copied(memory, from)
             a == W * j + y
             h == H - 1
  <1>0. /\ Lines \in Nat /\ W \in Nat /\ W > 0 /\ W * j \in Int /\ j \in Int
        /\ H \in Nat /\ H > 1 /\ Apart \in Nat /\ h \in Int /\ h \in 0..Lines - 1
        /\ 0 \in 0..W - 1
    BY Sizes
  <1>1. W * h = CONSOLE_SCREEN_SIZE - W /\ W * h \in Int
    BY <1>0, NextRow, Sizes
  <1>2. Wrapped(memory) = console_clear_screen(copied, W * h + 0, W)
    BY <1>0, <1>1 DEF Wrapped
  <1>3. Wrapped(memory)[a] = IF j = h THEN Blank ELSE copied[a]
    <2> HIDE DEF copied, h
    <2>1. h \in 0..Lines - 1
      BY <1>0
    <2>2. /\ j = h => console_clear_screen(copied, W * h + 0, W)[W * j + y] = Blank
          /\ j # h =>
                console_clear_screen(copied, W * h + 0, W)[W * j + y] = copied[W * j + y]
      BY <2>1, ClearedRow, Zenon
    <2> QED BY <1>2, <2>2, Zenon
  <1>4. a \in Offset
    <2>1. W * j + W <= W * Lines
      <3>1. j < Lines /\ j \in Int /\ Lines \in Int
        BY <1>0
      <3> QED BY <3>1, RowsApart
    <2>2. W * j >= 0
      BY <1>0
    <2>3. W * Lines \in Int
      BY <1>0
    <2> QED BY <1>0, <2>1, <2>2, <2>3, Sizes DEF Offset, P
  <1>5. copied[a] = IF a < W * h THEN memory[from + a] ELSE memory[a]
    BY <1>1, <1>4 DEF Copied
  <1>6. a < W * h <=> j < h
    <2> HIDE DEF h
    <2>1. W * h + 0 <= W * j + y <=> h < j \/ (h = j /\ 0 <= y)
      BY <1>0, CellOrder
    <2> QED BY <1>0, <1>1, <2>1
  <1>7. from + a = W * (Apart + j) + y
    <2>1. W * (Apart + j) = W * Apart + W * j
      BY <1>0, RowsAdd
    <2> DEFINE l == Lines - H
    <2>2. Apart = l + 1 /\ l \in Int
      BY <1>0, Sizes
    <2>3. W * l = W * Lines - W * H
      BY <1>0, RowsAdd
    <2> HIDE DEF l
    <2>4. W * Apart = W * l + W
      BY <2>2, NextRow
    <2>5. W * Lines \in Int /\ W * H \in Int /\ W * Apart \in Int
      BY <1>0
    <2> QED BY <1>0, <2>1, <2>3, <2>4, <2>5, Sizes
  <1> HIDE DEF a, from, copied
  <1>8. j = h <=> j = H - 1
    OBVIOUS
  <1> QED BY <1>0, <1>3, <1>5, <1>6, <1>7 DEF a

\* The console after a character, in rows.
LEMMA AfterPrints ==
    ASSUME ConsoleTypeOK, NEW c \in Console, NEW ch, NEW r, NEW x, NEW n, NEW to,
           NEW moved, Stores(c, ch, r, x, n, to, moved)
    PROVE  /\ EndRow(r) \in 0..Lines - 1 /\ FullOf(c, r) \in BOOLEAN
           /\ CursorRow(c)' = EndRow(r) /\ Top(c)' = to
           /\ consoles_table'[c].cursor = W * EndRow(r) + x
           /\ consoles_table'[c].cursor % W = x
           /\ consoles_table'[c].current_start_address = W * to
           /\ consoles_table'[c].is_full = FullOf(c, r)
           /\ line'[c] = n /\ shown'[c] = n - (EndRow(r) - to)
           /\ text'[c] = Reaching(Edited(c, ch, n, x), n)
           /\ cells'[c] = IF moved
                          THEN console_clear_screen(MemoryOf(c, ch, r), W * EndRow(r) + x, W)
                          ELSE MemoryOf(c, ch, r)
           /\ plain'[c] = (plain[c] /\ (consoles_table[c].is_full =>
                    Top(c) <= CursorRow(c) /\ CursorRow(c) < Top(c) + H /\ r >= CursorRow(c)))
           /\ \A j : LineIn(c, j)' = n - EndRow(r) + j
                       - (IF FullOf(c, r) /\ j > EndRow(r) THEN Apart ELSE 0)
  <1> DEFINE f == EndRow(r)
             full == FullOf(c, r)
             new == [cursor |-> W * f + x, current_start_address |-> W * to,
                     is_full |-> full]
  <1>0. /\ r \in 0..Lines /\ x \in 0..W - 1 /\ to \in 0..Lines - H
        /\ Lines \in Nat /\ H \in Nat /\ H > 1 /\ Lines > H /\ W \in Nat
        /\ 0 \in 0..W - 1
    BY Sizes DEF Stores, MovesTo
  <1>1. f \in 0..Lines - 1 /\ full \in BOOLEAN
    <2>1. consoles_table[c].is_full \in BOOLEAN
      BY RowIs
    <2> QED BY <1>0, <2>1 DEF EndRow, FullOf
  <1>2. /\ consoles_table' = [consoles_table EXCEPT ![c] = new]
        /\ DOMAIN consoles_table = Console
    BY DEF Stores, ConsoleTypeOK
  <1>3. consoles_table'[c] = new
    BY <1>2
  <1> HIDE DEF f, full
  <1>4. /\ consoles_table'[c].cursor = W * f + x
        /\ consoles_table'[c].current_start_address = W * to
        /\ consoles_table'[c].is_full = full
    BY <1>3
  <1>5. (W * f + x) \div W = f /\ (W * f + x) % W = x
    <2>1. f \in Nat
      BY <1>0, <1>1
    <2> QED BY <2>1, <1>0, CellIs
  <1>6. (W * to) \div W = to
    <2>1. to \in Nat /\ W * to \in Int
      BY <1>0
    <2>2. (W * to + 0) \div W = to
      BY <2>1, <1>0, CellIs
    <2>3. W * to + 0 = W * to
      BY <2>1
    <2> QED BY <2>2, <2>3
  <1>7. CursorRow(c)' = f /\ Top(c)' = to
    BY <1>4, <1>5, <1>6 DEF CursorRow, Top
  <1>8. line'[c] = n
    BY DEF Stores, ConsoleTypeOK
  <1>9. shown'[c] = n - (f - to)
    BY DEF Stores, ConsoleTypeOK, f
  <1>10. text'[c] = Reaching(Edited(c, ch, n, x), n)
    BY DEF Stores, ConsoleTypeOK
  <1>11. cells'[c] = IF moved
                     THEN console_clear_screen(MemoryOf(c, ch, r), W * f + x, W)
                     ELSE MemoryOf(c, ch, r)
    <2> DEFINE p == W * f + x
               m == MemoryOf(c, ch, r)
    <2>1. p \in Int /\ p + (c - c) * P = p
      <3>1. p \in Int /\ P \in Int /\ c \in Int /\ W * f \in Int
        BY <1>0, <1>1, Sizes DEF Console
      <3> HIDE DEF p
      <3> QED BY <3>1
    <2>2. cells' = CellsAfter(c, m, p, moved)
      BY DEF Stores, f
    <2> HIDE DEF p, m
    <2>3. cells'[c] = IF moved THEN console_clear_screen(m, p + (c - c) * P, W) ELSE m
      BY <2>2 DEF CellsAfter
    <2> QED BY <2>1, <2>3 DEF p, m
  <1>12. plain'[c] = (plain[c] /\ (consoles_table[c].is_full =>
                    Top(c) <= CursorRow(c) /\ CursorRow(c) < Top(c) + H /\ r >= CursorRow(c)))
    BY DEF Stores, ConsoleTypeOK
  <1>13. \A j : LineIn(c, j)' = n - f + j - (IF full /\ j > f THEN Apart ELSE 0)
    BY <1>4, <1>7, <1>8 DEF LineIn
  <1> QED BY <1>1, <1>4, <1>5, <1>7, <1>8, <1>9, <1>10, <1>11, <1>12, <1>13 DEF f, full

\* Lines and rows are still counted together.
LEMMA PrintsLine ==
    ASSUME ConsoleTypeOK, NEW c \in Console, LineInStep(c),
           NEW ch \in {"char", "backspace", "newline"}, NEW r, NEW x, NEW n, NEW to,
           NEW moved, Stores(c, ch, r, x, n, to, moved),
           Views(c, r, to, moved)
    PROVE  LineInStep(c)'
  <1> DEFINE f == EndRow(r)
             full == FullOf(c, r)
  <1>0. /\ r \in 0..Lines /\ x \in 0..W - 1 /\ to \in 0..Lines - H
        /\ Lines \in Nat /\ H \in Nat /\ H > 1 /\ Lines > H /\ W \in Nat
        /\ MaxLine[c] \in Nat
    BY Sizes DEF Stores, Views, MovesTo
  <1>1. /\ CursorRow(c)' = f /\ line'[c] = n /\ consoles_table'[c].is_full = full
        /\ consoles_table'[c].cursor = W * f + x
        /\ consoles_table'[c].current_start_address = W * to
        /\ f \in 0..Lines - 1
    BY AfterPrints
  <1>2. /\ n \in 1..MaxLine[c] /\ n = line[c] + r - CursorRow(c) /\ moved \in BOOLEAN
        /\ to <= f
    BY DEF Stores, Views
  <1>3. /\ CursorRow(c) \in 0..Lines - 1 /\ line[c] \in Nat
        /\ consoles_table[c].is_full \in BOOLEAN
    BY RowIs
  <1>4. /\ consoles_table[c].is_full => line[c] - CursorRow(c) > Apart
        /\ ~consoles_table[c].is_full => line[c] = CursorRow(c) + 1
    BY DEF LineInStep
  <1>5. r = Lines => CursorRow(c) = Lines - 1
    <2>1. r <= CursorRow(c) + 1
      BY <1>0, <1>3 DEF Stores, Views, MovesTo, Column
    <2> QED BY <1>0, <1>3, <2>1
  <1>6. full => n - f > Apart
    <2>1. CASE r = Lines
      <3>1. f = H - 1
        BY <2>1 DEF EndRow
      <3> QED BY <1>0, <1>2, <1>3, <1>4, <1>5, <2>1, <3>1, Sizes
    <2>2. CASE r # Lines
      <3>1. f = r /\ full = consoles_table[c].is_full
        BY <1>3, <2>2 DEF EndRow, FullOf
      <3> HIDE DEF f, full
      <3> QED BY <1>0, <1>2, <1>3, <1>4, <3>1, Sizes
    <2> QED BY <2>1, <2>2
  <1>7. ~full => n = f + 1 /\ W * to <= W * f + x
    <2> SUFFICES ASSUME ~full PROVE n = f + 1 /\ W * to <= W * f + x
      OBVIOUS
    <2>1. r # Lines /\ ~consoles_table[c].is_full
      BY DEF FullOf
    <2>2. f = r
      BY <2>1 DEF EndRow
    <2>3. n = f + 1
      BY <1>0, <1>2, <1>3, <1>4, <2>1, <2>2
    <2>4. f \in Int /\ to \in Int /\ to <= f
      BY <1>0, <1>1, <1>2
    <2> HIDE DEF f
    <2>5. W * to <= W * f /\ W * to \in Int /\ W * f \in Int
      BY <2>4, RowsApart
    <2> QED BY <1>0, <2>3, <2>5
  <1>8. n <= MaxLine[c]
    BY <1>0, <1>2
  <1>9. /\ consoles_table'[c].is_full => line'[c] - CursorRow(c)' > Apart
        /\ ~consoles_table'[c].is_full =>
              /\ line'[c] = CursorRow(c)' + 1
              /\ consoles_table'[c].current_start_address
                    <= consoles_table'[c].cursor
    <2>1. consoles_table'[c].is_full => full
      BY <1>1
    <2>2. ~consoles_table'[c].is_full => ~full
      BY <1>1
    <2>3. consoles_table'[c].is_full => line'[c] - CursorRow(c)' > Apart
      BY <1>1, <1>6, <2>1
    <2>4. ~full => line'[c] = CursorRow(c)' + 1
      BY <1>1, <1>7
    <2>5. ~full => consoles_table'[c].current_start_address
                      <= consoles_table'[c].cursor
      <3> DEFINE a == W * f + x
                 b == W * to
      <3>1. ~full => b <= a
        <4>1. f \in Int /\ to \in Int /\ x \in Int /\ W \in Int
          BY <1>0, <1>1
        <4> HIDE DEF f, full
        <4> QED BY <1>7, <4>1
      <3>2. consoles_table'[c].cursor = a /\ consoles_table'[c].current_start_address = b
        BY <1>1
      <3> HIDE DEF a, b, full
      <3> QED BY <3>1, <3>2
    <2> HIDE DEF f, full
    <2> QED BY <2>2, <2>3, <2>4, <2>5
  <1>10. line'[c] <= MaxLine[c]
    BY <1>1, <1>8
  <1> QED BY <1>9, <1>10 DEF LineInStep

LEMMA PrintsNothingAhead ==
    ASSUME ConsoleTypeOK, NEW c \in Console, LineInStep(c), NothingAhead(c),
           NEW ch \in {"char", "backspace", "newline"}, NEW r, NEW x, NEW n, NEW to,
           NEW moved, Stores(c, ch, r, x, n, to, moved),
           Views(c, r, to, moved)
    PROVE  NothingAhead(c)'
  <1> DEFINE lines == Edited(c, ch, n, x)
  <1>1. n \in 1..MaxLine[c] /\ n = line[c] + r - CursorRow(c) /\ MovesTo(c, ch, r, x)
    BY DEF Stores, Views
  <1>2. /\ lines \in [1..MaxLine[c] -> SUBSET (0..W - 1)]
        /\ \A m \in 1..MaxLine[c] : m > n => lines[m] = {}
        /\ \A y \in lines[n] : y < x
    <2>1. n \in 1..MaxLine[c] /\ n = line[c] + r - CursorRow(c)
      BY <1>1
    <2>2. MovesTo(c, ch, r, x)
      BY <1>1
    <2>3. Edited(c, ch, n, x) \in [1..MaxLine[c] -> SUBSET (0..W - 1)]
      BY <2>1, <2>2, NothingIsAhead
    <2>4. \A m \in 1..MaxLine[c] : m > n => Edited(c, ch, n, x)[m] = {}
      BY <2>1, <2>2, NothingIsAhead
    <2>5. \A y \in Edited(c, ch, n, x)[n] : y < x
      BY <2>1, <2>2, NothingIsAhead
    <2> QED BY <2>3, <2>4, <2>5
  <1> HIDE DEF lines
  <1>3. \A m \in 1..MaxLine[c] : Reaching(lines, n)[m] = lines[m]
                                 \/ Reaching(lines, n)[m] = {}
    BY <1>2 DEF Reaching
  <1>4. /\ text'[c] = Reaching(lines, n) /\ line'[c] = n
        /\ consoles_table'[c].cursor % W = x
    BY AfterPrints DEF lines
  <1> QED BY <1>1, <1>2, <1>3, <1>4 DEF NothingAhead

\* What a row holds after a character: the same line as before, but for the row
\* that is new, and at the beginning of the memory the rows that were copied.
LEMMA HeldAfter ==
    ASSUME ConsoleTypeOK, NEW c \in Console, LineInStep(c),
           NEW ch \in {"char", "backspace", "newline"}, NEW r, NEW x, NEW n, NEW to,
           NEW moved, Stores(c, ch, r, x, n, to, moved),
           Views(c, r, to, moved),
           consoles_table[c].is_full => r >= CursorRow(c) /\ CursorRow(c) >= H - 1,
           NEW j \in 0..Lines - 1
    PROVE  /\ LineIn(c, j)' \in Nat /\ LineIn(c, j)' > 0 /\ n - LineIn(c, j)' < Lines
           /\ j = EndRow(r) => LineIn(c, j)' = n
           /\ r < Lines /\ ~(consoles_table[c].is_full /\ r = CursorRow(c) + 1 /\ j = r) =>
                 LineIn(c, j)' = LineIn(c, j)
           /\ r = Lines =>
                 /\ j > H - 1 => LineIn(c, j)' = LineIn(c, j)
                 /\ j < H - 1 => Apart + j \in 0..Lines - 1
                                 /\ LineIn(c, j)' = LineIn(c, Apart + j)
  <1> DEFINE f == EndRow(r)
  <1>0. /\ r \in 0..Lines /\ n \in Nat /\ n > 0
        /\ Lines \in Nat /\ H \in Nat /\ H > 1 /\ Lines > H
        /\ Apart \in Nat /\ Apart = Lines - H + 1
    <2>1. n \in 1..MaxLine[c] /\ MaxLine[c] \in Nat
      BY Sizes DEF Stores, Views
    <2> QED BY <2>1, Sizes DEF Stores, Views, MovesTo
  <1>1. n = line[c] + r - CursorRow(c)
    BY DEF Stores, Views
  <1>2. /\ CursorRow(c) \in 0..Lines - 1 /\ line[c] \in Nat /\ Column(c) \in 0..W - 1
        /\ consoles_table[c].is_full \in BOOLEAN
    BY RowIs DEF Column
  <1>3. /\ consoles_table[c].is_full => line[c] - CursorRow(c) > Apart
        /\ ~consoles_table[c].is_full => line[c] = CursorRow(c) + 1
    BY DEF LineInStep
  <1>4. r <= CursorRow(c) + 1
    BY <1>0, <1>2 DEF Stores, Views, MovesTo
  <1>5. LineIn(c, j)' = n - f + j - (IF FullOf(c, r) /\ j > f THEN Apart ELSE 0)
    BY AfterPrints
  <1>6. CASE r = Lines
    <2>1. f = H - 1 /\ FullOf(c, r) /\ CursorRow(c) = Lines - 1
      BY <1>0, <1>2, <1>4, <1>6 DEF EndRow, FullOf
    <2>2. \A i \in 0..Lines - 1 : LineIn(c, i) = line[c] - CursorRow(c) + i
      BY <1>2, <2>1 DEF LineIn
    <2>3. LineIn(c, j)' = n - f + j - (IF j > f THEN Apart ELSE 0)
      BY <1>5, <2>1
    <2>4. line[c] - CursorRow(c) > 0 /\ n = line[c] + 1
      BY <1>0, <1>1, <1>2, <1>3, <1>6, <2>1
    <2>5. j < H - 1 => Apart + j \in 0..Lines - 1
      BY <1>0
    <2> HIDE DEF f
    <2>6. j < H - 1 => LineIn(c, Apart + j) = line[c] - CursorRow(c) + Apart + j
      BY <1>0, <1>2, <2>2, <2>5
    <2>7. n - f = line[c] - CursorRow(c) + Apart
      BY <1>0, <1>2, <2>1, <2>4
    <2>8. LineIn(c, j) = line[c] - CursorRow(c) + j
      BY <2>2
    <2>9. /\ LineIn(c, j)' \in Nat /\ LineIn(c, j)' > 0 /\ n - LineIn(c, j)' < Lines
          /\ j = f => LineIn(c, j)' = n
      BY <1>0, <1>2, <2>1, <2>3, <2>4, <2>7
    <2>10. /\ j > H - 1 => LineIn(c, j)' = LineIn(c, j)
           /\ j < H - 1 => LineIn(c, j)' = LineIn(c, Apart + j)
      BY <1>0, <1>2, <2>1, <2>3, <2>6, <2>7, <2>8
    <2> QED BY <1>0, <1>6, <2>5, <2>9, <2>10 DEF f
  <1>7. CASE r # Lines
    <2>1. f = r /\ (FullOf(c, r) <=> consoles_table[c].is_full) /\ r < Lines
      BY <1>0, <1>2, <1>7 DEF EndRow, FullOf
    <2>2. LineIn(c, j)' = n - r + j
             - (IF consoles_table[c].is_full /\ j > r THEN Apart ELSE 0)
      BY <1>5, <2>1
    <2>3. n - r = line[c] - CursorRow(c)
      BY <1>0, <1>1, <1>2
    <2>4. LineIn(c, j) = line[c] - CursorRow(c) + j
             - (IF consoles_table[c].is_full /\ j > CursorRow(c) THEN Apart ELSE 0)
      BY DEF LineIn
    <2>5. CASE ~consoles_table[c].is_full
      <3>1. LineIn(c, j)' = j + 1 /\ LineIn(c, j) = j + 1 /\ n = r + 1
        BY <1>0, <1>1, <1>2, <1>3, <2>2, <2>3, <2>4, <2>5
      <3> QED BY <1>0, <1>7, <2>1, <2>5, <3>1
    <2>6. CASE consoles_table[c].is_full
      <3>1. r = CursorRow(c) \/ r = CursorRow(c) + 1
        BY <1>0, <1>2, <1>4, <2>6
      <3>2. LineIn(c, j)' = line[c] - CursorRow(c) + j - (IF j > r THEN Apart ELSE 0)
        BY <2>2, <2>3, <2>6
      <3>3. LineIn(c, j) = line[c] - CursorRow(c) + j - (IF j > CursorRow(c) THEN Apart ELSE 0)
        BY <2>4, <2>6
      <3>4. ~(r = CursorRow(c) + 1 /\ j = r) => LineIn(c, j)' = LineIn(c, j)
        BY <1>0, <1>2, <3>1, <3>2, <3>3
      <3>5. /\ LineIn(c, j)' \in Nat /\ LineIn(c, j)' > 0 /\ n - LineIn(c, j)' < Lines
            /\ j = r => LineIn(c, j)' = n
        BY <1>0, <1>1, <1>2, <1>3, <2>1, <2>6, <3>1, <3>2
      <3> QED BY <1>7, <2>1, <2>6, <3>4, <3>5
    <2> QED BY <1>2, <2>5, <2>6
  <1> QED BY <1>6, <1>7

LEMMA PrintsMemory ==
    ASSUME ConsoleTypeOK, NEW c \in Console, LineInStep(c), NothingAhead(c),
           plain[c] => MemoryInStep(c) /\ ViewInStep(c),
           NEW ch \in {"char", "backspace", "newline"}, NEW r, NEW x, NEW n, NEW to,
           NEW moved, Stores(c, ch, r, x, n, to, moved),
           Views(c, r, to, moved), plain'[c]
    PROVE  MemoryInStep(c)'
  <1> DEFINE memory == Written(cells[c], consoles_table[c].cursor, ch, line[c])
             lines  == Edited(c, ch, n, x)
  <1>0. /\ r \in 0..Lines /\ x \in 0..W - 1 /\ n \in 1..MaxLine[c] /\ MaxLine[c] \in Nat
        /\ n = line[c] + r - CursorRow(c) /\ MovesTo(c, ch, r, x) /\ moved \in BOOLEAN
        /\ Lines \in Nat /\ H \in Nat /\ H > 1 /\ Lines > H /\ W \in Nat /\ W > 0
    BY Sizes DEF Stores, Views, MovesTo
  <1>1. /\ CursorRow(c) \in 0..Lines - 1 /\ line[c] \in Nat /\ Column(c) \in 0..W - 1
        /\ Top(c) \in 0..Lines - H
        /\ consoles_table[c].is_full \in BOOLEAN
    BY RowIs DEF Column
  <1>2. /\ plain[c]
        /\ consoles_table[c].is_full =>
              Top(c) <= CursorRow(c) /\ CursorRow(c) < Top(c) + H /\ r >= CursorRow(c)
    BY AfterPrints
  <1>3. MemoryInStep(c) /\ ViewInStep(c)
    BY <1>2
  <1>4. consoles_table[c].is_full =>
           CursorRow(c) >= H - 1 /\ Top(c) + H - 1 <= CursorRow(c) /\ r >= CursorRow(c)
    BY <1>2, <1>3 DEF ViewInStep
  <1>5. /\ lines \in [1..MaxLine[c] -> SUBSET (0..W - 1)]
        /\ \A m \in 1..MaxLine[c] : m > n => lines[m] = {}
        /\ \A y \in lines[n] : y < x
    <2>1. Edited(c, ch, n, x) \in [1..MaxLine[c] -> SUBSET (0..W - 1)]
      BY <1>0, NothingIsAhead
    <2>2. \A m \in 1..MaxLine[c] : m > n => Edited(c, ch, n, x)[m] = {}
      BY <1>0, NothingIsAhead
    <2>3. \A y \in Edited(c, ch, n, x)[n] : y < x
      BY <1>0, NothingIsAhead
    <2> QED BY <2>1, <2>2, <2>3
  <1>6. \A i \in 0..Lines - 1, y \in 0..W - 1 :
           memory[W * i + y] = IF LineIn(c, i) <= n /\ y \in lines[LineIn(c, i)]
                               THEN LineIn(c, i) ELSE Blank
    BY <1>0, <1>3, <1>4, Printed, SMTT(30)
  <1> HIDE DEF memory, lines
  <1>7. /\ line'[c] = n /\ text'[c] = Reaching(lines, n)
        /\ cells'[c] = IF moved
                       THEN console_clear_screen(MemoryOf(c, ch, r), W * EndRow(r) + x, W)
                       ELSE MemoryOf(c, ch, r)
        /\ EndRow(r) \in 0..Lines - 1
    BY AfterPrints DEF lines
  <1>8. MemoryOf(c, ch, r) = IF r = Lines THEN Wrapped(memory) ELSE memory
    BY DEF MemoryOf, memory
  <1> SUFFICES ASSUME NEW j \in 0..Lines - 1, NEW y \in 0..W - 1
               PROVE  cells'[c][W * j + y] =
                         IF LineIn(c, j)' <= n /\ y \in text'[c][LineIn(c, j)']
                         THEN LineIn(c, j)' ELSE Blank
    BY <1>7 DEF MemoryInStep
  <1> DEFINE h == LineIn(c, j)'
  <1>9. /\ h \in Nat /\ h > 0 /\ n - h < Lines
        /\ j = EndRow(r) => h = n
        /\ r < Lines /\ ~(consoles_table[c].is_full /\ r = CursorRow(c) + 1 /\ j = r) =>
              h = LineIn(c, j)
        /\ r = Lines =>
              /\ j > H - 1 => h = LineIn(c, j)
              /\ j < H - 1 => Apart + j \in 0..Lines - 1 /\ h = LineIn(c, Apart + j)
    BY <1>4, HeldAfter
  <1> HIDE DEF h
  <1>10. h <= n => (y \in text'[c][h] <=> y \in lines[h])
    <2> SUFFICES ASSUME h <= n PROVE y \in text'[c][h] <=> y \in lines[h]
      OBVIOUS
    <2>1. h \in 1..MaxLine[c] /\ h > n - Lines
      BY <1>0, <1>9
    <2>2. Reaching(lines, n)[h] = lines[h]
      BY <1>5, <2>1 DEF Reaching
    <2> QED BY <1>7, <2>2
  <1>11. SUFFICES cells'[c][W * j + y] =
                     IF h <= n /\ y \in lines[h] THEN h ELSE Blank
    BY <1>10 DEF h
  <1>12. r <= CursorRow(c) + 1
    BY <1>0, <1>1 DEF MovesTo
  \* The row that is new is empty.
  <1>13. j = EndRow(r) /\ x = 0 => ~(h <= n /\ y \in lines[h])
    BY <1>5, <1>9
  <1>14. CASE r = Lines
    <2>1. EndRow(r) = H - 1 /\ TopOf(c, r) = 0
      BY <1>14 DEF EndRow, TopOf
    <2>2. ~moved
      BY <1>0, <2>1 DEF Stores, Views
    <2>3. cells'[c][W * j + y] =
             IF j < H - 1 THEN memory[W * (Apart + j) + y]
             ELSE IF j = H - 1 THEN Blank ELSE memory[W * j + y]
      BY <1>7, <1>8, <1>14, <2>2, WrappedCells
    <2>4. x = 0
      BY <1>0, <1>1, <1>14 DEF MovesTo
    <2>5. CASE j < H - 1
      BY <1>6, <1>9, <1>14, <2>3, <2>5
    <2>6. CASE j = H - 1
      BY <1>0, <1>13, <2>1, <2>3, <2>4, <2>6
    <2>7. CASE j > H - 1
      BY <1>0, <1>6, <1>9, <1>14, <2>3, <2>7
    <2> QED BY <1>0, <2>5, <2>6, <2>7
  <1>15. CASE r # Lines /\ ~consoles_table[c].is_full
    <2>1. EndRow(r) = r /\ r \in 0..Lines - 1 /\ r < Lines
      BY <1>0, <1>15 DEF EndRow
    <2>2. h = LineIn(c, j) /\ h = j + 1 /\ n = r + 1
      BY <1>0, <1>1, <1>9, <1>15, <2>1, HeldIs DEF LineInStep
    <2>3. memory[W * j + y] = IF h <= n /\ y \in lines[h] THEN h ELSE Blank
      BY <1>6, <2>2
    <2>4. j > r \/ (j = r /\ x <= y) => ~(h <= n /\ y \in lines[h])
      BY <1>0, <1>5, <2>1, <2>2
    <2>5. cells'[c][W * j + y] = IF moved
             THEN console_clear_screen(memory, W * r + x, W)[W * j + y]
             ELSE memory[W * j + y]
      BY <1>7, <1>8, <1>15, <2>1
    <2>6. /\ \/ console_clear_screen(memory, W * r + x, W)[W * j + y] = Blank
             \/ console_clear_screen(memory, W * r + x, W)[W * j + y] = memory[W * j + y]
          /\ console_clear_screen(memory, W * r + x, W)[W * j + y] # memory[W * j + y]
                => j > r \/ (j = r /\ x <= y)
      <3>1. x \in 0..W - 1 /\ r \in 0..Lines - 1
        BY <1>0, <2>1
      <3> QED BY <3>1, ClearedCells
    <2> QED BY <2>3, <2>4, <2>5, <2>6
  <1>16. CASE r # Lines /\ consoles_table[c].is_full
    <2>1. EndRow(r) = r /\ r \in 0..Lines - 1 /\ r < Lines /\ TopOf(c, r) = Top(c)
      BY <1>0, <1>16 DEF EndRow, TopOf
    <2>2. CASE r = CursorRow(c)
      <3>1. ~moved
        BY <1>0, <1>1, <1>2, <1>16, <2>1, <2>2 DEF Stores, Views
      <3>2. h = LineIn(c, j)
        BY <1>0, <1>1, <1>9, <2>1, <2>2
      <3>3. cells'[c][W * j + y] = memory[W * j + y]
        BY <1>7, <1>8, <1>16, <3>1
      <3> QED BY <1>6, <3>2, <3>3
    <2>3. CASE r = CursorRow(c) + 1
      <3>1. moved
        <4>1. TopOf(c, r) + H = EndRow(r)
          BY <1>0, <1>1, <1>2, <1>4, <1>16, <2>1, <2>3
        <4> QED BY <4>1 DEF Stores, Views
      <3>2. x = 0
        BY <1>0, <1>1, <2>3 DEF MovesTo
      <3>3. cells'[c][W * j + y] = IF j = r THEN Blank ELSE memory[W * j + y]
        <4>1. cells'[c] = console_clear_screen(memory, W * r + x, W)
          BY <1>7, <1>8, <1>16, <2>1, <3>1
        <4>2. console_clear_screen(memory, W * r + 0, W)[W * j + y] =
                 IF j = r THEN Blank ELSE memory[W * j + y]
          BY <2>1, ClearedRow
        <4> QED BY <3>2, <4>1, <4>2
      <3>4. CASE j = r
        BY <1>13, <2>1, <3>2, <3>3, <3>4
      <3>5. CASE j # r
        BY <1>6, <1>9, <2>1, <3>3, <3>5
      <3> QED BY <3>4, <3>5
    <2>4. r = CursorRow(c) \/ r = CursorRow(c) + 1
      BY <1>0, <1>1, <1>4, <1>12, <1>16
    <2> QED BY <2>2, <2>3, <2>4
  <1> QED BY <1>1, <1>14, <1>15, <1>16

LEMMA PrintsView ==
    ASSUME ConsoleTypeOK, NEW c \in Console, LineInStep(c),
           plain[c] => ViewInStep(c),
           NEW ch \in {"char", "backspace", "newline"}, NEW r, NEW x, NEW n, NEW to,
           NEW moved, Stores(c, ch, r, x, n, to, moved),
           Views(c, r, to, moved), plain'[c]
    PROVE  ViewInStep(c)'
  <1>0. /\ r \in 0..Lines /\ x \in 0..W - 1 /\ n \in 1..MaxLine[c] /\ MaxLine[c] \in Nat
        /\ to \in 0..Lines - H /\ to <= EndRow(r) /\ EndRow(r) < to + H
        /\ Lines \in Nat /\ H \in Nat /\ H > 1 /\ Lines > H
    BY Sizes DEF Stores, Views, MovesTo
  <1>1. /\ CursorRow(c) \in 0..Lines - 1 /\ Top(c) \in 0..Lines - H /\ Column(c) \in 0..W - 1
        /\ consoles_table[c].is_full \in BOOLEAN /\ W \in Nat /\ W > 0
    BY RowIs, Sizes DEF Column
  <1>2. /\ plain[c]
        /\ consoles_table[c].is_full =>
              Top(c) <= CursorRow(c) /\ CursorRow(c) < Top(c) + H /\ r >= CursorRow(c)
    BY AfterPrints
  <1>3. consoles_table[c].is_full =>
           CursorRow(c) >= H - 1 /\ Top(c) + H - 1 <= CursorRow(c) /\ r >= CursorRow(c)
    BY <1>2 DEF ViewInStep
  <1>4. /\ shown'[c] = n - (EndRow(r) - to) /\ Top(c)' = to /\ CursorRow(c)' = EndRow(r)
        /\ EndRow(r) \in 0..Lines - 1
    BY AfterPrints
  <1>5. consoles_table'[c].is_full <=> FullOf(c, r)
    BY AfterPrints
  <1>6. LineIn(c, to)' = n - EndRow(r) + to
    <2>1. LineIn(c, to)' = n - EndRow(r) + to
                            - (IF FullOf(c, r) /\ to > EndRow(r) THEN Apart ELSE 0)
      BY AfterPrints
    <2> QED BY <1>0, <1>4, <2>1
  <1>7. shown'[c] = LineIn(c, to)'
    BY <1>0, <1>4, <1>6
  <1>8. FullOf(c, r) => EndRow(r) >= H - 1 /\ to + H - 1 <= EndRow(r)
    <2>1. CASE r = Lines
      <3>1. EndRow(r) = H - 1 /\ TopOf(c, r) = 0
        BY <2>1 DEF EndRow, TopOf
      <3>2. ~moved /\ (~moved => to = TopOf(c, r))
        BY <1>0, <3>1 DEF Stores, Views
      <3> QED BY <1>0, <3>1, <3>2
    <2>2. CASE r # Lines /\ consoles_table[c].is_full
      <3>1. EndRow(r) = r /\ TopOf(c, r) = Top(c)
        BY <2>2 DEF EndRow, TopOf
      <3>2. r <= CursorRow(c) + 1
        BY <1>0, <1>1 DEF Stores, Views, MovesTo
      <3>3. r = CursorRow(c) \/ r = CursorRow(c) + 1
        BY <1>0, <1>1, <1>3, <2>2, <3>2
      <3>4. CASE r = CursorRow(c)
        <4>1. ~moved /\ (~moved => to = TopOf(c, r))
          BY <1>0, <1>1, <1>2, <2>2, <3>1, <3>4 DEF Stores, Views
        <4> QED BY <1>0, <1>1, <1>3, <2>2, <3>1, <3>4, <4>1
      <3>5. CASE r = CursorRow(c) + 1
        <4>1. TopOf(c, r) + H = EndRow(r)
          BY <1>0, <1>1, <1>2, <1>3, <2>2, <3>1, <3>5
        <4>2. to = TopOf(c, r) + 1
          BY <4>1 DEF Stores, Views
        <4> QED BY <1>0, <1>1, <1>3, <2>2, <3>1, <3>5, <4>2
      <3> QED BY <3>3, <3>4, <3>5
    <2> QED BY <2>1, <2>2 DEF FullOf
  <1>9. LineIn(c, Top(c))' = LineIn(c, to)'
    BY <1>4 DEF LineIn
  <1> QED BY <1>4, <1>5, <1>7, <1>8, <1>9 DEF ViewInStep

-----------------------------------------------------------------------------
(* The steps.                                                              *)

\* A console that a step leaves alone stays in step; of its memory that is asked
\* only while nothing was cleared from another.
LEMMA OthersStay ==
    ASSUME NEW d \in Console, InStep(d),
           consoles_table'[d] = consoles_table[d], line'[d] = line[d],
           shown'[d] = shown[d], text'[d] = text[d],
           plain'[d] => plain[d] /\ cells'[d] = cells[d]
    PROVE  InStep(d)'
  <1>1. CursorRow(d)' = CursorRow(d) /\ Top(d)' = Top(d)
    BY DEF CursorRow, Top
  <1>2. \A j : LineIn(d, j)' = LineIn(d, j)
    BY <1>1 DEF LineIn
  <1>3. LineInStep(d)' /\ NothingAhead(d)'
    BY <1>1 DEF InStep, LineInStep, NothingAhead
  <1>4. MemoryInStep(d) /\ plain'[d] => MemoryInStep(d)'
    BY <1>2 DEF MemoryInStep
  <1>5. ViewInStep(d) => ViewInStep(d)'
    <2>1. LineIn(d, Top(d))' = LineIn(d, Top(d))
      BY <1>1 DEF LineIn
    <2> QED BY <1>1, <2>1 DEF ViewInStep
  <1>6. plain'[d] => MemoryInStep(d)' /\ ViewInStep(d)'
    BY <1>4, <1>5 DEF InStep
  <1> QED BY <1>3, <1>6 DEF InStep

LEMMA PutCharKeeps ==
    ASSUME CInv, ~hung, NEW c \in Console, Goes(c),
           NEW ch \in {"char", "backspace", "newline"}, console_put_char(c, ch)
    PROVE  CInv'
  <1>1. ConsoleTypeOK /\ ControllerInStep /\ \A d \in Console : InStep(d)
    BY DEF CInv
  <1>2. /\ LineInStep(c) /\ NothingAhead(c)
        /\ plain[c] => MemoryInStep(c) /\ ViewInStep(c)
    BY <1>1 DEF InStep
  <1>4. PICK r \in 0..Lines, x \in 0..W - 1, n \in 1..MaxLine[c],
             to \in 0..Lines - H, moved \in BOOLEAN :
                /\ Stores(c, ch, r, x, n, to, moved)
                /\ Views(c, r, to, moved) \/ Hangs(c, r, to)
    BY <1>1, <1>2, PutCharPrints
  <1>5. hung' \in BOOLEAN
    BY <1>4 DEF Views, Hangs
  <1>6. ConsoleTypeOK'
    BY <1>1, <1>2, <1>4, <1>5, PrintsTyped
  <1>12. ASSUME NEW d \in Console, d # c
         PROVE  InStep(d)'
    <2>1. consoles_table'[d] = consoles_table[d] /\ line'[d] = line[d]
      BY <1>1, <1>4, <1>12 DEF Stores, ConsoleTypeOK
    <2>2. shown'[d] = shown[d] /\ text'[d] = text[d]
      BY <1>1, <1>4, <1>12 DEF Stores, ConsoleTypeOK
    <2>3. plain'[d] => plain[d] /\ cells'[d] = cells[d]
      BY <1>4, <1>12 DEF Stores
    <2> QED BY <1>1, <2>1, <2>2, <2>3, OthersStay
  <1>14. ControllerInStep'
    <2>1. current_console_id' = current_console_id /\ current_console_id \in Console
      BY <1>1, <1>4 DEF Stores, ConsoleTypeOK
    <2>2. CASE c = current_console_id
      <3>1. /\ consoles_table'[c].cursor = W * EndRow(r) + x
            /\ consoles_table'[c].current_start_address = W * to
        BY <1>1, <1>4, AfterPrints
      <3>2. crtc' = [cursor |-> W * EndRow(r) + x, start |-> W * to, console |-> c]
        BY <1>4, <2>2 DEF Stores
      <3> QED BY <2>1, <2>2, <3>1, <3>2 DEF ControllerInStep
    <2>3. CASE c # current_console_id
      <3>1. crtc' = crtc
        BY <1>4, <2>3 DEF Stores
      <3>2. consoles_table'[current_console_id] = consoles_table[current_console_id]
        BY <1>1, <1>4, <2>1, <2>3 DEF Stores, ConsoleTypeOK
      <3> QED BY <1>1, <2>1, <3>1, <3>2 DEF ControllerInStep
    <2> QED BY <2>2, <2>3
  <1>15. CASE Views(c, r, to, moved)
    <2>1. LineInStep(c)'
      BY <1>1, <1>2, <1>4, <1>15, PrintsLine
    <2>2. NothingAhead(c)'
      BY <1>1, <1>2, <1>4, <1>15, PrintsNothingAhead
    <2>3. plain'[c] => MemoryInStep(c)' /\ ViewInStep(c)'
      <3> SUFFICES ASSUME plain'[c] PROVE MemoryInStep(c)' /\ ViewInStep(c)'
        OBVIOUS
      <3>1. MemoryInStep(c)'
        BY <1>1, <1>2, <1>4, <1>15, PrintsMemory
      <3>2. ViewInStep(c)'
        BY <1>1, <1>2, <1>4, <1>15, PrintsView
      <3> QED BY <3>1, <3>2
    <2>4. InStep(c)'
      BY <2>1, <2>2, <2>3 DEF InStep
    <2>5. \A d \in Console : InStep(d)'
      BY <1>12, <2>4
    <2>6. ~hung'
      BY <1>15 DEF Views
    <2> QED BY <1>6, <1>14, <2>5, <2>6 DEF CInv
  <1>16. CASE Hangs(c, r, to)
    <2>1. /\ consoles_table'[c].cursor = W * EndRow(r) + x
          /\ consoles_table'[c].current_start_address = W * to
          /\ consoles_table'[c].is_full = FullOf(c, r)
          /\ line'[c] = n /\ shown'[c] = n - (EndRow(r) - to)
          /\ EndRow(r) \in 0..Lines - 1
      BY <1>1, <1>4, AfterPrints
    <2>2. ~FullOf(c, r) /\ EndRow(r) < to /\ hung'
      BY <1>16 DEF Hangs
    <2>3. n \in Nat
      <3>1. MaxLine[c] \in Nat
        BY Sizes
      <3> QED BY <3>1
    <2> DEFINE f == EndRow(r)
    <2>4. f \in Int /\ to \in Int /\ W \in Int /\ x < W /\ x \in Int
      BY <2>1, Sizes
    <2> HIDE DEF f
    <2>5. W * f + W <= W * to /\ W * f \in Int /\ W * to \in Int
      BY <2>2, <2>4, RowsApart DEF f
    <2>6. W * f + x < W * to
      BY <2>4, <2>5
    <2>7. n - (f - to) > n
      BY <2>2, <2>3, <2>4 DEF f
    <2>8. HangsInStep(c)'
      BY <2>1, <2>2, <2>6, <2>7 DEF HangsInStep, AboveScreen, f
    <2>9. \E e \in Console : HangsInStep(e)' /\ \A d \in Console \ {e} : InStep(d)'
      BY <1>12, <2>8
    <2> QED BY <1>6, <1>14, <2>2, <2>9 DEF CInv
  <1> QED BY <1>4, <1>15, <1>16

-----------------------------------------------------------------------------
\* The row at the top after console_scroll.
Scrolls(up, full, r, k) == IF up THEN NextUp(full, r, k) ELSE NextDown(full, r, k)

\* Scrolling stays in the memory and goes on by a line.
LEMMA ScrollsAre ==
    ASSUME ConsoleTypeOK, NEW c \in Console, LineInStep(c), NEW up \in BOOLEAN,
           NEW k, k = Scrolls(up, consoles_table[c].is_full, CursorRow(c), Top(c))
    PROVE  /\ k \in 0..Lines - H
           /\ ~consoles_table[c].is_full =>
                 W * k <= consoles_table[c].cursor
           /\ ViewInStep(c) =>
                 /\ LineIn(c, Top(c)) <= line[c]
                 /\ consoles_table[c].is_full => (k <= CursorRow(c) => k + H - 1 <= CursorRow(c))
                 /\ k + H - 1 = CursorRow(c) => LineIn(c, k) = line[c] - H + 1
                 /\ k # Top(c) =>
                       \/ k + H - 1 = CursorRow(c)
                       \/ up /\ LineIn(c, k) = LineIn(c, Top(c)) + 1
                       \/ ~up /\ LineIn(c, k) = LineIn(c, Top(c)) - 1
  <1> DEFINE r    == CursorRow(c)
             top  == Top(c)
             full == consoles_table[c].is_full
  <1>1. /\ r \in 0..Lines - 1 /\ top \in 0..Lines - H /\ full \in BOOLEAN
        /\ consoles_table[c].current_start_address = W * top
        /\ line[c] \in Nat \ {0}
    BY RowIs
  <1>2. PICK x \in 0..W - 1 : consoles_table[c].cursor = W * r + x
    BY RowIs
  <1>3. /\ Lines \in Nat /\ H \in Nat /\ H > 1 /\ Lines > H /\ W \in Nat /\ W > 0
        /\ Apart = Lines - H + 1
    BY Sizes
  <1>5. ~full => W * top <= W * r + x
    <2>1. ~full => consoles_table[c].current_start_address <= consoles_table[c].cursor
      BY DEF LineInStep
    <2>2. W * top \in Int /\ W * r \in Int /\ x \in Int
      BY <1>1, <1>3
    <2> HIDE DEF r, top
    <2> QED BY <1>1, <1>2, <2>1, <2>2
  <1>6. /\ top <= r \/ full => LineIn(c, top) <= line[c] \/ ~(r >= H - 1)
        /\ \A j \in 0..Lines - 1 :
              LineIn(c, j) = line[c] - r + j - (IF full /\ j > r THEN Apart ELSE 0)
    BY <1>1, <1>3 DEF LineIn
  <1>7. ~full => top <= r
    <2> SUFFICES ASSUME ~full PROVE top <= r
      OBVIOUS
    <2>1. 0 \in 0..W - 1 /\ top \in Int /\ r \in Int
      BY <1>1, <1>3
    <2>2. W * top + 0 <= W * r + x <=> top < r \/ (top = r /\ 0 <= x)
      BY <2>1, CellOrder
    <2>3. W * top \in Int /\ W * r \in Int
      BY <2>1, <1>3
    <2> QED BY <1>3, <1>5, <2>1, <2>2, <2>3
  <1>8. k = Scrolls(up, full, r, top)
    OBVIOUS
  <1>9. ViewInStep(c) => (full => r >= H - 1 /\ (top <= r => top + H - 1 <= r))
    BY DEF ViewInStep
  <1>10. ~full => LineIn(c, top) = top + 1 /\ line[c] = r + 1
    BY <1>1, <1>3, <1>6, <1>7 DEF LineInStep
  <1> HIDE DEF r, top, full
  <1>11. k \in 0..Lines - H
    BY <1>1, <1>3, <1>8 DEF Scrolls, NextUp, NextDown
  <1>12. ASSUME ~full PROVE W * k <= W * r + x
    <2>1. k <= r
      BY <1>1, <1>3, <1>7, <1>8, <1>12 DEF Scrolls, NextUp, NextDown
    <2>2. k \in Int /\ r \in Int
      BY <1>1, <1>3, <1>11
    <2>3. W * k <= W * r /\ W * k \in Int /\ W * r \in Int
      BY <2>1, <2>2, RowsApart
    <2> QED BY <1>3, <2>3
  <1>13. ASSUME ViewInStep(c)
         PROVE  /\ LineIn(c, top) <= line[c]
                /\ full => (k <= r => k + H - 1 <= r)
                /\ k + H - 1 = r => LineIn(c, k) = line[c] - H + 1
                /\ k # top => \/ k + H - 1 = r
                              \/ up /\ LineIn(c, k) = LineIn(c, top) + 1
                              \/ ~up /\ LineIn(c, k) = LineIn(c, top) - 1
    <2>1. full => r >= H - 1 /\ (top <= r => top + H - 1 <= r)
      BY <1>9, <1>13
    <2>2. LineIn(c, top) <= line[c]
      <3>1. LineIn(c, top) = line[c] - r + top - (IF full /\ top > r THEN Apart ELSE 0)
        BY <1>1, <1>3, <1>6
      <3> QED BY <1>1, <1>3, <1>7, <2>1, <3>1
    <2>3. /\ LineIn(c, top) = line[c] - r + top - (IF full /\ top > r THEN Apart ELSE 0)
          /\ LineIn(c, k) = line[c] - r + k - (IF full /\ k > r THEN Apart ELSE 0)
      <3>1. top \in 0..Lines - 1 /\ k \in 0..Lines - 1
        BY <1>1, <1>3, <1>11
      <3> QED BY <1>6, <3>1
    <2>4. CASE ~full
      <3>1. LineIn(c, k) = k + 1 /\ LineIn(c, top) = top + 1 /\ line[c] = r + 1
        BY <1>1, <1>3, <1>10, <1>11, <2>3, <2>4
      <3>2. k = top \/ (up /\ k = top + 1) \/ (~up /\ k = top - 1)
        BY <1>8, <2>4 DEF Scrolls, NextUp, NextDown
      <3> QED BY <1>1, <1>3, <1>11, <2>2, <2>4, <3>1, <3>2
    <2>5. CASE full /\ up
      <3> SUFFICES /\ k <= r => k + H - 1 <= r
                   /\ k + H - 1 = r => LineIn(c, k) = line[c] - H + 1
                   /\ k # top => k + H - 1 = r \/ LineIn(c, k) = LineIn(c, top) + 1
        BY <2>2, <2>5
      <3>0. full
        BY <2>5
      <3>1. CASE top + H - 1 = r
        <4>1. k = top
          BY <1>8, <2>5, <3>1 DEF Scrolls, NextUp
        <4>2. ~(k > r) /\ k = r - H + 1
          BY <1>1, <1>3, <3>1, <4>1
        <4>3. LineIn(c, k) = line[c] - r + k
          BY <1>1, <1>3, <2>3, <4>2
        <4> QED BY <1>1, <1>3, <4>1, <4>2, <4>3
      <3>2. CASE top + H - 1 # r /\ top + H = Lines
        <4>1. k = 0
          BY <1>8, <2>5, <3>2 DEF Scrolls, NextUp
        <4>2. top > r
          BY <1>1, <1>3, <2>1, <2>5, <3>2
        <4>3. LineIn(c, k) = line[c] - r
          BY <1>1, <1>3, <2>3, <4>1
        <4>4. LineIn(c, top) = line[c] - r + top - Apart /\ Apart = top + 1
          BY <1>1, <1>3, <2>3, <3>0, <3>2, <4>2
        <4>5. r >= H - 1
          BY <2>1, <3>0
        <4>6. line[c] \in Int /\ r \in Int /\ top \in Int /\ H \in Int
          BY <1>1, <1>3
        <4>7. LineIn(c, k) = LineIn(c, top) + 1
          BY <4>3, <4>4, <4>6
        <4>8. k + H - 1 = r => LineIn(c, k) = line[c] - H + 1
          BY <4>1, <4>3, <4>6
        <4>9. k <= r => k + H - 1 <= r
          BY <4>1, <4>5, <4>6
        <4> QED BY <4>7, <4>8, <4>9
      <3>3. CASE top + H - 1 # r /\ top + H # Lines
        <4>1. k = top + 1
          BY <1>8, <2>5, <3>3 DEF Scrolls, NextUp
        <4> QED BY <1>1, <1>3, <2>1, <2>3, <3>0, <3>3, <4>1
      <3> QED BY <3>1, <3>2, <3>3
    <2>6. CASE full /\ ~up
      <3> DEFINE old == IF r + 1 = Lines THEN 0 ELSE r + 1
      <3>1. CASE top = old \/ (top = 0 /\ r >= Lines - H)
        <4>1. k = top
          BY <1>8, <2>6, <3>1 DEF Scrolls, NextDown
        <4> QED BY <1>1, <1>3, <2>1, <2>2, <2>3, <2>6, <4>1
      <3>2. CASE top # old /\ top # 0
        <4>1. k = top - 1
          BY <1>8, <2>6, <3>2 DEF Scrolls, NextDown
        <4>2. top # r + 1
          BY <1>1, <1>3, <3>2
        <4> QED BY <1>1, <1>3, <2>1, <2>2, <2>3, <2>6, <4>1, <4>2
      <3>3. CASE top # old /\ top = 0 /\ r < Lines - H
        <4>1. k = Lines - H
          BY <1>1, <1>3, <1>8, <2>6, <3>3 DEF Scrolls, NextDown
        <4> QED BY <1>1, <1>3, <2>1, <2>2, <2>3, <2>6, <3>3, <4>1
      <3> QED BY <1>1, <1>3, <3>1, <3>2, <3>3
    <2> QED BY <1>1, <2>4, <2>5, <2>6
  <1>14. ~full => W * k <= consoles_table[c].cursor
    BY <1>2, <1>12
  <1> QED BY <1>11, <1>13, <1>14 DEF r, top, full

LEMMA AtNewestIs ==
    ASSUME NEW con, NEW r \in 0..Lines - 1, NEW k \in 0..Lines - H,
           con.cursor \div W = r, con.current_start_address = W * k
    PROVE  AtNewest(con) <=> k + H - 1 = r
  <1> DEFINE m == k + H
             b == m - 1
  <1>1. r \in Int /\ k \in Int /\ m \in Int /\ b \in Int /\ H \in Int
    BY Sizes
  <1>2. W * m = W * k + W * H
    <2> HIDE DEF H
    <2> QED BY <1>1, RowsAdd DEF m
  <1> HIDE DEF m
  <1>3. W * b = W * m - W /\ W * r = r * W
    BY <1>1, RowsApart DEF b
  <1> HIDE DEF b
  <1>4. W * b = W * r <=> b = r
    BY <1>1, RowsApart
  <1>5. W * k \in Int /\ W * H \in Int /\ W * m \in Int /\ W \in Int
    BY <1>1, Sizes
  <1>6. AtNewest(con) <=> W * k + W * H - W = W * r
    BY <1>3, Sizes DEF AtNewest, Newest
  <1>7. W * b = W * k + W * H - W
    BY <1>2, <1>3, <1>5
  <1>8. AtNewest(con) <=> b = r
    BY <1>4, <1>6, <1>7
  <1>9. b = k + H - 1
    BY <1>1 DEF b, m
  <1> QED BY <1>8, <1>9

\* console_scroll in rows.
LEMMA ScrollIs ==
    ASSUME ConsoleTypeOK, NEW up \in BOOLEAN, console_scroll(up),
           NEW c, c = current_console_id, NEW k,
           k = Scrolls(up, consoles_table[c].is_full, CursorRow(c), Top(c)),
           k \in 0..Lines - H
    PROVE  /\ consoles_table' = [consoles_table EXCEPT ![c].current_start_address = W * k]
           /\ crtc' = [cursor |-> consoles_table[c].cursor, start |-> W * k, console |-> c]
           /\ shown' = [shown EXCEPT ![c] =
                 CASE k = Top(c) -> @
                   [] k # Top(c) /\ k + H - 1 = CursorRow(c) -> line[c] - H + 1
                   [] OTHER -> IF @ > line[c] THEN @ ELSE IF up THEN @ + 1 ELSE @ - 1]
  <1> DEFINE con      == consoles_table[c]
             start    == IF up THEN ScrolledUp(con) ELSE ScrolledDown(con)
             scrolled == [con EXCEPT !.current_start_address = start]
  <1>1. c \in Console
    BY DEF ConsoleTypeOK
  <1>2. /\ con \in Places /\ CursorRow(c) \in 0..Lines - 1 /\ Top(c) \in 0..Lines - H
        /\ con.cursor \div W = CursorRow(c) /\ con.current_start_address = W * Top(c)
        /\ con.is_full \in BOOLEAN
    BY <1>1, RowIs
  <1>3. start = W * k
    <2>1. PICK x \in 0..W - 1 : con.cursor = W * CursorRow(c) + x
      BY <1>1, RowIs
    <2>2. ScrolledUp(con) = W * NextUp(con.is_full, CursorRow(c), Top(c))
      BY <1>2, ScrolledUpIs
    <2>3. ScrolledDown(con) = W * NextDown(con.is_full, CursorRow(c), Top(c))
      BY <1>2, <2>1, ScrolledDownIs
    <2> QED BY <2>2, <2>3 DEF Scrolls
  <1>4. /\ consoles_table' = [consoles_table EXCEPT ![c] = scrolled]
        /\ shown' = [shown EXCEPT ![c] =
                 CASE start = con.current_start_address -> @
                   [] start # con.current_start_address /\ AtNewest(scrolled) ->
                          line[c] - H + 1
                   [] OTHER -> IF @ > line[c] THEN @ ELSE IF up THEN @ + 1 ELSE @ - 1]
        /\ crtc' = [cursor |-> scrolled.cursor, start |-> scrolled.current_start_address,
                    console |-> c]
    BY DEF console_scroll, console_flush, H
  <1> HIDE DEF start
  <1>5. /\ scrolled.cursor = con.cursor /\ scrolled.current_start_address = W * k
    BY <1>2, <1>3 DEF Places
  <1>6. start = con.current_start_address <=> k = Top(c)
    <2>1. k \in Int /\ Top(c) \in Int
      BY <1>2, Sizes
    <2>2. W * k = W * Top(c) <=> k = Top(c)
      BY <2>1, RowsApart
    <2> QED BY <1>2, <1>3, <2>2
  <1>7. AtNewest(scrolled) <=> k + H - 1 = CursorRow(c)
    <2>1. scrolled.cursor \div W = CursorRow(c)
      BY <1>2, <1>5
    <2> HIDE DEF scrolled
    <2> QED BY <1>2, <1>5, <2>1, AtNewestIs
  <1>8. consoles_table' = [consoles_table EXCEPT ![c].current_start_address = W * k]
    BY <1>3, <1>4
  <1>9. crtc' = [cursor |-> con.cursor, start |-> W * k, console |-> c]
    BY <1>4, <1>5
  <1>10. shown' = [shown EXCEPT ![c] =
                 CASE k = Top(c) -> @
                   [] k # Top(c) /\ k + H - 1 = CursorRow(c) -> line[c] - H + 1
                   [] OTHER -> IF @ > line[c] THEN @ ELSE IF up THEN @ + 1 ELSE @ - 1]
    <2> HIDE DEF con, scrolled
    <2> QED BY <1>4, <1>6, <1>7
  <1> QED BY <1>8, <1>9, <1>10

LEMMA ScrollKeeps ==
    ASSUME CInv, ~hung, NEW up \in BOOLEAN, console_scroll(up), UNCHANGED hung
    PROVE  CInv'
  <1> DEFINE c == current_console_id
             k == Scrolls(up, consoles_table[c].is_full, CursorRow(c), Top(c))
  <1>1. ConsoleTypeOK /\ c \in Console /\ \A d \in Console : InStep(d)
    BY DEF CInv, ConsoleTypeOK
  <1>2. /\ LineInStep(c) /\ NothingAhead(c)
        /\ plain[c] => MemoryInStep(c) /\ ViewInStep(c)
    BY <1>1 DEF InStep
  <1>3. UNCHANGED <<current_console_id, cells, line, text, plain>>
    BY DEF console_scroll
  <1>4. PICK x \in 0..W - 1 : consoles_table[c].cursor = W * CursorRow(c) + x
    BY <1>1, RowIs
  <1>5. /\ k \in 0..Lines - H
        /\ ~consoles_table[c].is_full => W * k <= consoles_table[c].cursor
        /\ ViewInStep(c) =>
              /\ LineIn(c, Top(c)) <= line[c]
              /\ consoles_table[c].is_full => (k <= CursorRow(c) => k + H - 1 <= CursorRow(c))
              /\ k + H - 1 = CursorRow(c) => LineIn(c, k) = line[c] - H + 1
              /\ k # Top(c) => \/ k + H - 1 = CursorRow(c)
                               \/ up /\ LineIn(c, k) = LineIn(c, Top(c)) + 1
                               \/ ~up /\ LineIn(c, k) = LineIn(c, Top(c)) - 1
    BY <1>1, <1>2, ScrollsAre
  <1>6. /\ consoles_table' = [consoles_table EXCEPT ![c].current_start_address = W * k]
        /\ crtc' = [cursor |-> consoles_table[c].cursor, start |-> W * k, console |-> c]
        /\ shown' = [shown EXCEPT ![c] =
              CASE k = Top(c) -> @
                [] k # Top(c) /\ k + H - 1 = CursorRow(c) -> line[c] - H + 1
                [] OTHER -> IF @ > line[c] THEN @ ELSE IF up THEN @ + 1 ELSE @ - 1]
    BY <1>1, <1>5, ScrollIs
  <1> HIDE DEF k
  <1>7. /\ CursorRow(c) \in 0..Lines - 1 /\ Top(c) \in 0..Lines - H
        /\ consoles_table[c] \in Places /\ line[c] \in Nat \ {0}
    BY <1>1, RowIs
  <1>8. /\ consoles_table'[c].cursor = consoles_table[c].cursor
        /\ consoles_table'[c].is_full = consoles_table[c].is_full
        /\ consoles_table'[c].current_start_address = W * k
    BY <1>1, <1>6, <1>7 DEF ConsoleTypeOK, Places
  <1>9. CursorRow(c)' = CursorRow(c) /\ Top(c)' = k
    <2>1. CursorRow(c)' = CursorRow(c)
      BY <1>3, <1>8 DEF CursorRow
    <2>2. (W * k + 0) \div W = k
      <3>1. k \in Nat /\ 0 \in 0..W - 1
        BY <1>5, Sizes
      <3> QED BY <3>1, CellIs
    <2>3. W * k + 0 = W * k
      BY <1>5, Sizes
    <2> QED BY <1>3, <1>8, <2>1, <2>2, <2>3 DEF Top
  <1>10. \A j : LineIn(c, j)' = LineIn(c, j)
    BY <1>3, <1>8, <1>9 DEF LineIn
  <1>11. LineInStep(c)'
    BY <1>2, <1>3, <1>5, <1>8, <1>9 DEF LineInStep
  <1>12. NothingAhead(c)'
    BY <1>2, <1>3, <1>8 DEF NothingAhead
  <1>13. MemoryInStep(c) => MemoryInStep(c)'
    BY <1>3, <1>10 DEF MemoryInStep
  <1>14. ViewInStep(c) => ViewInStep(c)'
    <2> SUFFICES ASSUME ViewInStep(c) PROVE ViewInStep(c)'
      OBVIOUS
    <2>1. shown[c] = LineIn(c, Top(c)) /\ (consoles_table[c].is_full => CursorRow(c) >= H - 1)
      BY DEF ViewInStep
    <2>2. shown'[c] = CASE k = Top(c) -> shown[c]
                [] k # Top(c) /\ k + H - 1 = CursorRow(c) -> line[c] - H + 1
                [] OTHER -> IF shown[c] > line[c] THEN shown[c]
                            ELSE IF up THEN shown[c] + 1 ELSE shown[c] - 1
      BY <1>1, <1>6 DEF ConsoleTypeOK
    <2>3. shown'[c] = LineIn(c, k)
      <3>1. CASE k = Top(c)
        BY <2>1, <2>2, <3>1
      <3>2. CASE k # Top(c) /\ k + H - 1 = CursorRow(c)
        BY <1>5, <2>2, <3>2
      <3>3. CASE k # Top(c) /\ k + H - 1 # CursorRow(c)
        <4>1. shown'[c] = IF up THEN shown[c] + 1 ELSE shown[c] - 1
          <5>1. shown[c] \in Int /\ ~(shown[c] > line[c])
            BY <1>1, <1>5, <1>7, <2>1, SMTT(30) DEF ConsoleTypeOK
          <5> QED BY <2>2, <3>3, <5>1
        <4> QED BY <1>5, <2>1, <3>3, <4>1
      <3> QED BY <3>1, <3>2, <3>3
    <2>4. LineIn(c, Top(c))' = LineIn(c, k)
      BY <1>3, <1>8, <1>9 DEF LineIn
    <2> QED BY <1>3, <1>5, <1>8, <1>9, <2>1, <2>3, <2>4 DEF ViewInStep
  <1>15. InStep(c)'
    <2>1. plain'[c] => MemoryInStep(c)' /\ ViewInStep(c)'
      BY <1>2, <1>3, <1>13, <1>14
    <2> QED BY <1>2, <1>3, <1>8, <1>11, <1>12, <2>1 DEF InStep
  <1>16. \A d \in Console : InStep(d)'
    <2> TAKE d \in Console
    <2>1. CASE d = c
      BY <1>3, <1>15, <2>1
    <2>2. CASE d # c
      <3>1. consoles_table'[d] = consoles_table[d] /\ shown'[d] = shown[d]
        BY <1>1, <1>6, <2>2 DEF ConsoleTypeOK
      <3> QED BY <1>1, <1>3, <3>1, OthersStay
    <2> QED BY <2>1, <2>2
  <1>17. ControllerInStep'
    BY <1>3, <1>6, <1>8 DEF ControllerInStep
  <1>18. ConsoleTypeOK'
    <2>1. W * k \in {W * i : i \in 0..Lines - CONSOLE_SCREEN_HEIGHT}
      BY <1>5 DEF H
    <2>2. W * k \in 0..console_size - 1
      <3>1. k \in Nat /\ k < Lines /\ Lines \in Int /\ 0 \in 0..W - 1 /\ W \in Nat
        BY <1>5, Sizes
      <3>2. W * k + 0 \in Nat
        BY <3>1, CellIs
      <3>3. W * k + W <= W * Lines
        BY <3>1, RowsApart
      <3>4. W * k \in Int /\ W * Lines \in Int /\ W > 0
        BY <3>1, Sizes
      <3> QED BY <3>1, <3>2, <3>3, <3>4, Sizes
    <2>3. consoles_table' \in
             [Console -> [cursor : 0..console_size - 1,
                          current_start_address :
                              {W * i : i \in 0..Lines - CONSOLE_SCREEN_HEIGHT},
                          is_full : BOOLEAN]]
      <3> DEFINE new == [consoles_table[c] EXCEPT !.current_start_address = W * k]
      <3>1. consoles_table' = [consoles_table EXCEPT ![c] = new]
        BY <1>6
      <3>2. new \in [cursor : 0..console_size - 1,
                     current_start_address :
                         {W * i : i \in 0..Lines - CONSOLE_SCREEN_HEIGHT},
                     is_full : BOOLEAN]
        BY <1>7, <2>1 DEF Places
      <3> HIDE DEF new
      <3> QED BY <1>1, <3>1, <3>2 DEF ConsoleTypeOK
    <2>4. crtc' \in [cursor : 0..console_size - 1, start : 0..console_size - 1,
                     console : Console]
      BY <1>1, <1>6, <1>7, <2>2 DEF Places
    <2>5. shown' \in [Console -> Int]
      <3>1. PICK s : shown' = [shown EXCEPT ![c] = s]
                /\ s = CASE k = Top(c) -> shown[c]
                  [] k # Top(c) /\ k + H - 1 = CursorRow(c) -> line[c] - H + 1
                  [] OTHER -> IF shown[c] > line[c] THEN shown[c]
                              ELSE IF up THEN shown[c] + 1 ELSE shown[c] - 1
        BY <1>6
      <3>2. shown[c] \in Int /\ H \in Int
        BY <1>1, Sizes DEF ConsoleTypeOK
      <3>3. s \in Int
        BY <1>7, <3>1, <3>2
      <3> QED BY <1>1, <3>1, <3>3 DEF ConsoleTypeOK
    <2> QED BY <1>1, <1>3, <2>3, <2>4, <2>5 DEF ConsoleTypeOK
  <1> QED BY <1>1, <1>16, <1>17, <1>18 DEF CInv

\* console_select: the controller goes over to another console.
LEMMA SelectKeeps ==
    ASSUME CInv, ~hung, NEW c \in Console, console_select(c), UNCHANGED hung
    PROVE  CInv'
  <1>1. ConsoleTypeOK /\ \A d \in Console : InStep(d)
    BY DEF CInv
  <1>2. /\ current_console_id' = c
        /\ crtc' = [cursor |-> consoles_table[c].cursor,
                    start |-> consoles_table[c].current_start_address, console |-> c]
        /\ UNCHANGED <<consoles_table, cells, line, shown, text, plain, hung>>
    BY DEF console_select, history
  <1>3. \A d \in Console : InStep(d)'
    BY <1>1, <1>2, OthersStay
  <1>4. ControllerInStep'
    BY <1>2 DEF ControllerInStep
  <1>5. ConsoleTypeOK'
    <2>1. consoles_table[c] \in Places /\ Top(c) \in 0..Lines - H
          /\ consoles_table[c].current_start_address = W * Top(c)
      BY <1>1, RowIs
    <2> DEFINE k == Top(c)
    <2> HIDE DEF k
    <2>2. W * k \in 0..console_size - 1
      <3>1. k \in Nat /\ k < Lines /\ Lines \in Int /\ 0 \in 0..W - 1 /\ W \in Nat
        BY <2>1, Sizes DEF k
      <3>2. W * k + 0 \in Nat
        BY <3>1, CellIs
      <3>3. W * k + W <= W * Lines
        BY <3>1, RowsApart
      <3>4. W * k \in Int /\ W * Lines \in Int /\ W > 0
        BY <3>1, Sizes
      <3> QED BY <3>1, <3>2, <3>3, <3>4, Sizes
    <2>3. crtc' \in [cursor : 0..console_size - 1, start : 0..console_size - 1,
                     console : Console]
      BY <1>2, <2>1, <2>2 DEF Places, k
    <2> QED BY <1>1, <1>2, <2>3 DEF ConsoleTypeOK
  <1> QED BY <1>1, <1>2, <1>3, <1>4, <1>5 DEF CInv

-----------------------------------------------------------------------------
(* The theorems.                                                           *)

LEMMA InitCInv == ConsoleInit => CInv
  <1> SUFFICES ASSUME ConsoleInit PROVE CInv
    OBVIOUS
  <1>0. /\ W \in Nat /\ W > 0 /\ H \in Nat /\ H > 1 /\ Lines \in Nat /\ Lines > H
        /\ MaxLine \in [Console -> Nat \ {0}]
        /\ NUM_CONSOLES \in Nat \ {0} /\ 0 \in Console
    BY Sizes
  <1>1. W * 0 = 0 /\ 0 \div W = 0 /\ 0 % W = 0
    <2>1. 0 \in Nat /\ 0 \in 0..W - 1
      BY <1>0
    <2>2. (W * 0 + 0) \div W = 0 /\ (W * 0 + 0) % W = 0
      BY <2>1, CellIs
    <2>3. W * 0 = 0
      BY <1>0
    <2> QED BY <2>2, <2>3
  <1>2. 0 \in 0..console_size - 1
    <2>1. 0 < Lines /\ 0 \in Int /\ Lines \in Int
      BY <1>0
    <2>2. W * 0 + W <= W * Lines
      BY <2>1, RowsApart
    <2>3. W * Lines \in Int
      BY <1>0
    <2> QED BY <1>0, <1>1, <2>2, <2>3, Sizes
  <1>3. ConsoleTypeOK
    <2>1. 0 \in {W * k : k \in 0..Lines - CONSOLE_SCREEN_HEIGHT}
      BY <1>0, <1>1 DEF H
    <2>2. consoles_table \in
             [Console -> [cursor : 0..console_size - 1,
                          current_start_address :
                              {W * k : k \in 0..Lines - CONSOLE_SCREEN_HEIGHT},
                          is_full : BOOLEAN]]
      BY <1>2, <2>1 DEF ConsoleInit
    <2>3. cells \in [Console -> [Offset -> Nat]]
      BY DEF ConsoleInit, Blank
    <2>4. crtc \in [cursor : 0..console_size - 1, start : 0..console_size - 1,
                    console : Console]
      BY <1>0, <1>2 DEF ConsoleInit
    <2>6. /\ line \in [Console -> Nat \ {0}] /\ shown \in [Console -> Int]
          /\ plain \in [Console -> BOOLEAN] /\ hung \in BOOLEAN
          /\ current_console_id \in Console
      <3>1. 1 \in Nat \ {0} /\ 1 \in Int
        OBVIOUS
      <3>2. line \in [Console -> Nat \ {0}] /\ shown \in [Console -> Int]
        BY <3>1 DEF ConsoleInit
      <3>3. plain \in [Console -> BOOLEAN] /\ hung \in BOOLEAN
        BY DEF ConsoleInit
      <3> QED BY <1>0, <3>2, <3>3 DEF ConsoleInit
    <2>7. DOMAIN text = Console
          /\ \A c \in Console : text[c] \in [1..MaxLine[c] -> SUBSET (0..W - 1)]
      BY DEF ConsoleInit
    <2> QED BY <2>2, <2>3, <2>4, <2>6, <2>7 DEF ConsoleTypeOK
  <1>4. ControllerInStep
    BY <1>0 DEF ConsoleInit, ControllerInStep
  <1>5. ASSUME NEW c \in Console PROVE InStep(c)
    <2>1. /\ consoles_table[c].cursor = 0 /\ consoles_table[c].current_start_address = 0
          /\ consoles_table[c].is_full = FALSE /\ line[c] = 1
          /\ shown[c] = 1 /\ plain[c] = TRUE
          /\ text[c] = [n \in 1..MaxLine[c] |-> {}]
          /\ cells[c] = [a \in Offset |-> Blank]
      BY DEF ConsoleInit
    <2>2. CursorRow(c) = 0 /\ Top(c) = 0
      BY <1>1, <2>1 DEF CursorRow, Top
    <2>3. MaxLine[c] \in Nat \ {0}
      BY <1>0
    <2>4. LineInStep(c)
      BY <2>1, <2>2, <2>3 DEF LineInStep
    <2>5. NothingAhead(c)
      BY <2>1, <2>3 DEF NothingAhead
    <2>6. MemoryInStep(c)
      <3> SUFFICES ASSUME NEW j \in 0..Lines - 1, NEW x \in 0..W - 1
                   PROVE  cells[c][W * j + x] =
                             IF LineIn(c, j) <= line[c] /\ x \in text[c][LineIn(c, j)]
                             THEN LineIn(c, j) ELSE Blank
        BY DEF MemoryInStep
      <3>1. LineIn(c, j) \in Nat /\ LineIn(c, j) > 0
        BY <1>3, <2>4, HeldIs
      <3>2. ~(LineIn(c, j) <= line[c] /\ x \in text[c][LineIn(c, j)])
        BY <2>1, <2>3, <3>1
      <3>3. W * j + x \in Offset
        <4>1. j \in Nat /\ j \in Int /\ j < Lines /\ Lines \in Int
          BY <1>0
        <4>2. W * j + x \in Nat
          BY <4>1, CellIs
        <4>3. W * j + W <= W * Lines
          BY <4>1, RowsApart
        <4>4. W * j \in Int /\ W * Lines \in Int
          BY <1>0, <4>1
        <4> QED BY <1>0, <4>2, <4>3, <4>4, Sizes DEF Offset, P
      <3> QED BY <2>1, <3>2, <3>3
    <2>7. ViewInStep(c)
      BY <2>1, <2>2 DEF ViewInStep, LineIn
    <2> QED BY <2>1, <2>4, <2>5, <2>6, <2>7 DEF InStep
  <1> QED BY <1>3, <1>4, <1>5 DEF ConsoleInit, CInv

LEMMA NextCInv == CInv /\ [ConsoleNext]_consoleVars => CInv'
  <1> SUFFICES ASSUME CInv, [ConsoleNext]_consoleVars PROVE CInv'
    OBVIOUS
  <1>2. ASSUME ~hung, NEW c \in Console, Goes(c), tty_do_write(c)
        PROVE  CInv'
    BY <1>2, PutCharKeeps DEF tty_do_write
  <1>4. ASSUME ~hung, NEW c \in Console, console_select(c), UNCHANGED hung PROVE CInv'
    BY <1>4, SelectKeeps
  <1>5. ASSUME ~hung, NEW up \in BOOLEAN, console_scroll(up), UNCHANGED hung PROVE CInv'
    BY <1>5, ScrollKeeps
  <1>6. CASE UNCHANGED consoleVars
    <2>1. UNCHANGED <<consoles_table, current_console_id, crtc, cells, line,
                      shown, text, plain, hung>>
      BY <1>6 DEF consoleVars, history
    <2>2. ConsoleTypeOK' /\ ControllerInStep'
      BY <2>1 DEF CInv, ConsoleTypeOK, ControllerInStep
    <2>3. \A d \in Console : InStep(d) => InStep(d)'
      BY <2>1, OthersStay
    <2>4. \A c : HangsInStep(c) => HangsInStep(c)'
      BY <2>1 DEF HangsInStep, AboveScreen
    <2>5. CASE hung
      <3>1. PICK c \in Console : HangsInStep(c) /\ \A d \in Console \ {c} : InStep(d)
        BY <2>5 DEF CInv
      <3>2. HangsInStep(c)' /\ \A d \in Console \ {c} : InStep(d)'
        BY <2>3, <2>4, <3>1
      <3> QED BY <2>1, <2>2, <2>5, <3>2 DEF CInv
    <2>6. CASE ~hung
      <3>1. \A d \in Console : InStep(d)'
        BY <2>3, <2>6 DEF CInv
      <3> QED BY <2>1, <2>2, <2>6, <3>1 DEF CInv
    <2> QED BY <2>5, <2>6
  <1> QED BY <1>2, <1>4, <1>5, <1>6 DEF ConsoleNext

\* Each console is in step with its history (CInv): the rows of its memory hold
\* the lines of the output in their order and its screen begins with the line it
\* is said to, until a cursor is above its screen when console_put_char
\* (console.cpp:97-139) follows it.
THEOREM ConsoleInvariant == ConsoleSpec => []CInv
  <1> QED BY InitCInv, NextCInv, PTL DEF ConsoleSpec

\* Before the memory is used as a ring, a console in step has its cursor on the
\* screen or below it.
LEMMA InStepEnds == CInv => LoopEnds
  <1> SUFFICES ASSUME CInv PROVE LoopEnds
    OBVIOUS
  <1>1. ConsoleTypeOK
    BY DEF CInv
  <1>2. hung => \E c \in Console : AboveScreen(consoles_table[c])
    BY DEF CInv, HangsInStep
  <1>3. ASSUME NEW c \in Console, AboveScreen(consoles_table[c]) PROVE ~InStep(c)
    <2>1. /\ consoles_table[c].cursor \in Int
          /\ consoles_table[c].current_start_address \in Int
      <3>1. Top(c) \in Int /\ CursorRow(c) \in Int /\ W \in Int
        BY <1>1, RowIs, Sizes
      <3>2. consoles_table[c].current_start_address = W * Top(c)
        BY <1>1, RowIs
      <3>3. PICK x \in 0..W - 1 : consoles_table[c].cursor = W * CursorRow(c) + x
        BY <1>1, RowIs
      <3> QED BY <3>1, <3>2, <3>3
    <2> QED BY <1>3, <2>1 DEF AboveScreen, InStep, LineInStep
  <1>4. (\E c \in Console : AboveScreen(consoles_table[c])) => hung
    BY <1>3 DEF CInv
  <1> QED BY <1>1, <1>2, <1>4 DEF LoopEnds

\* The loop that scrolls until the cursor is in view ends, wherever the user has
\* scrolled to and whatever is written, but for a cursor that backspaces brought
\* above the screen before the memory is used as a ring; and cursor and screen
\* stay in the memory of the console (console.cpp:65-75).
THEOREM CursorComesIntoView == ConsoleSpec => []LoopEnds
  <1> QED BY InStepEnds, ConsoleInvariant, PTL

\* The screen of a console that is in step, or hangs, shows its output.
LEMMA InStepShows == CInv => ScreenShowsOutput
  <1> SUFFICES ASSUME CInv PROVE ScreenShowsOutput
    OBVIOUS
  <1>1. ConsoleTypeOK /\ ControllerInStep
        /\ \A c \in Console : InStep(c) \/ HangsInStep(c)
    BY DEF CInv
  <1>2. ASSUME NEW c \in Console, plain[c], InStep(c),
               NEW a \in consoles_table[c].current_start_address ..
                    consoles_table[c].current_start_address + CONSOLE_SCREEN_SIZE - 1,
               Due(c, a) \in 1..line[c]
        PROVE  cells[c][a] = IF a % W \in text[c][Due(c, a)] THEN Due(c, a) ELSE Blank
    <2>0. /\ W \in Nat /\ W > 0 /\ H \in Nat /\ H > 1 /\ Lines \in Nat /\ Lines > H
          /\ CONSOLE_SCREEN_SIZE = W * H
      BY Sizes
    <2>1. LineInStep(c) /\ MemoryInStep(c) /\ ViewInStep(c)
      BY <1>1, <1>2 DEF InStep
    <2>2. /\ CursorRow(c) \in 0..Lines - 1 /\ Top(c) \in 0..Lines - H
          /\ consoles_table[c].current_start_address = W * Top(c)
          /\ line[c] \in Nat \ {0} /\ consoles_table[c].is_full \in BOOLEAN
      BY <1>1, RowIs
    <2> DEFINE k == Top(c)
               i == a - W * k
               j == k + i \div W
               y == i % W
    <2>3. k \in Nat /\ W * k \in Nat /\ W * H \in Nat
      BY <2>0, <2>2
    <2>4. a \in W * k .. W * k + W * H - 1
      BY <2>0, <2>2
    <2>5. a \in Nat /\ i \in Nat /\ i < W * H
      <3> HIDE DEF k
      <3> QED BY <2>3, <2>4
    <2>6. i \div W \in Nat /\ y \in 0..W - 1 /\ i = W * (i \div W) + y
      <3> HIDE DEF i
      <3> QED BY <2>5, RowAndColumn
    <2> DEFINE m == i \div W
    <2>7. m \in Nat /\ i = W * m + y /\ j = k + m
      BY <2>6
    <2> HIDE DEF k, i, m, y, j
    <2>8. m < H
      <3>1. m \in Int /\ H \in Int /\ W * m \in Int
        BY <2>0, <2>7
      <3>2. H <= m <=> W * H <= W * m
        BY <3>1, RowsApart
      <3> QED BY <2>3, <2>5, <2>6, <2>7, <3>1, <3>2
    <2>9. j \in Nat /\ j \in 0..Lines - 1
      BY <2>0, <2>2, <2>3, <2>7, <2>8 DEF k
    <2>10. a = W * j + y
      <3>1. W * j = W * k + W * m
        <4>1. k \in Int /\ m \in Int
          BY <2>3, <2>7
        <4> QED BY <2>7, <4>1, RowsAdd
      <3>2. a = W * k + i
        BY <2>3, <2>5 DEF i
      <3>3. W * m \in Int /\ y \in Int
        BY <2>0, <2>6, <2>7
      <3> QED BY <2>3, <2>7, <3>1, <3>2, <3>3
    <2>11. a % W = y
      BY <2>6, <2>9, <2>10, CellIs
    <2>12. Due(c, a) = shown[c] + m
      BY <2>2 DEF Due, i, m, k
    <2>13. Due(c, a) = LineIn(c, j)
      <3>1. LineIn(c, k) = shown[c]
        BY <2>1 DEF ViewInStep, k
      <3>2. consoles_table[c].is_full => (k <= CursorRow(c) => k + H - 1 <= CursorRow(c))
        BY <2>1 DEF ViewInStep, k
      <3>3. /\ LineIn(c, j) = line[c] - CursorRow(c) + j
                    - (IF consoles_table[c].is_full /\ j > CursorRow(c) THEN Apart ELSE 0)
            /\ LineIn(c, k) = line[c] - CursorRow(c) + k
                    - (IF consoles_table[c].is_full /\ k > CursorRow(c) THEN Apart ELSE 0)
        BY DEF LineIn
      <3>4. (consoles_table[c].is_full /\ j > CursorRow(c))
               <=> (consoles_table[c].is_full /\ k > CursorRow(c))
        BY <2>0, <2>2, <2>3, <2>7, <2>8, <3>2
      <3>5. Apart \in Int
        BY Sizes
      <3>6. PICK d \in Int :
               /\ LineIn(c, j) = line[c] - CursorRow(c) + j - d
               /\ LineIn(c, k) = line[c] - CursorRow(c) + k - d
        BY <3>3, <3>4, <3>5
      <3>7. line[c] \in Int /\ CursorRow(c) \in Int /\ k \in Int /\ m \in Int /\ j = k + m
        BY <2>0, <2>2, <2>3, <2>7
      <3> QED BY <2>12, <3>1, <3>6, <3>7
    <2>14. cells[c][W * j + y] =
              IF LineIn(c, j) <= line[c] /\ y \in text[c][LineIn(c, j)]
              THEN LineIn(c, j) ELSE Blank
      BY <2>1, <2>6, <2>9 DEF MemoryInStep
    <2>15. LineIn(c, j) <= line[c]
      BY <1>2, <2>2, <2>13
    <2> QED BY <2>10, <2>11, <2>13, <2>14, <2>15
  \* All its rows are behind the newest line.
  <1>3. ASSUME NEW c \in Console, HangsInStep(c),
               NEW a \in consoles_table[c].current_start_address ..
                    consoles_table[c].current_start_address + CONSOLE_SCREEN_SIZE - 1
        PROVE  ~(Due(c, a) \in 1..line[c])
    <2>1. /\ shown[c] \in Int /\ line[c] \in Int /\ shown[c] > line[c]
      BY <1>1, <1>3 DEF ConsoleTypeOK, HangsInStep
    <2> DEFINE top == consoles_table[c].current_start_address
               i   == a - top
    <2>2. top \in Int
      <3>1. Top(c) \in Int /\ W \in Int /\ top = W * Top(c)
        BY <1>1, RowIs, Sizes
      <3> HIDE DEF top
      <3> QED BY <3>1
    <2>3. CONSOLE_SCREEN_SIZE \in Int
      BY Sizes
    <2> HIDE DEF top
    <2>4. i \in Nat
      BY <2>2, <2>3 DEF top
    <2>5. Due(c, a) = shown[c] + i \div W
      BY DEF Due, top
    <2> HIDE DEF i
    <2>6. i \div W \in Nat
      BY <2>4, RowAndColumn
    <2> QED BY <2>1, <2>5, <2>6
  <1> QED BY <1>1, <1>2, <1>3 DEF ScreenShowsOutput, ControllerInStep

\* The screen shows consecutive lines of the output, each as it was written, and
\* the controller the console that is selected (console.cpp:49-95, 97-139).
THEOREM ScreenShows == ConsoleSpec => []ScreenShowsOutput
  <1> QED BY InStepShows, ConsoleInvariant, PTL

-----------------------------------------------------------------------------
(* The keyboard: what keyboard_read makes of a code, as a relation of where *)
(* it is before and after, and the keys it gives to the terminal: the       *)
(* number `seen` of them is in said[seen].                                  *)

Reading == {"idle", "E0", "make_E0", "make_37", "break_E0", "break_AA"}
              \cup {Pause[i] : i \in DOMAIN Pause}

Reader == [pc : Reading, modifiers : SUBSET Modifier, locks : SUBSET Lock, seen : Nat]

Meaning == [key  : {k.alone : k \in Keys} \cup {k.shifted : k \in Keys} \cup {NONE},
            with : SUBSET Modifier, pad : BOOLEAN]

capsAt(s, row) ==
    LET shift == s.modifiers \cap {"LSHIFT", "RSHIFT"} # {} IN
    IF "CAPSLOCK" \in s.locks /\ row[1] \in Letter THEN ~shift ELSE shift

KeyAt(s, code, prefix) ==
    Row(code)[IF prefix = "E0" THEN 3 ELSE IF capsAt(s, Row(code)) THEN 2 ELSE 1]

InputAt(s, key, with) ==
    [key  |-> IF key \notin DOMAIN numpad THEN key
              ELSE IF "NUMLOCK" \in s.locks THEN numpad[key][1] ELSE numpad[key][2],
     with |-> with,
     pad  |-> key \in DOMAIN numpad]

ModifiersAfter(s, key, code) ==
    IF key \notin Modifier THEN s.modifiers
    ELSE IF Make(code) THEN s.modifiers \cup {key} ELSE s.modifiers \ {key}

LocksAfter(s, key, code) ==
    IF Make(code) /\ key \in Lock
    THEN IF key \in s.locks THEN s.locks \ {key} ELSE s.locks \cup {key}
    ELSE s.locks

Makes(s, t, code, prefix, said) ==
    LET key == KeyAt(s, code, prefix) IN
    /\ t.pc = "idle"
    /\ t.modifiers = ModifiersAfter(s, key, code)
    /\ t.locks = LocksAfter(s, key, code)
    /\ Make(code) => t.seen = s.seen + 1
                       /\ said[s.seen] = InputAt(s, key, t.modifiers)
    /\ ~Make(code) => t.seen = s.seen

GoesOn(s, t, next) ==
    t.pc = next /\ t.modifiers = s.modifiers /\ t.locks = s.locks /\ t.seen = s.seen

Takes(s, t, code, said) ==
    /\ s.pc = "idle" =>
          /\ code = \hE1 => GoesOn(s, t, Pause[1])
          /\ code = \hE0 => GoesOn(s, t, "E0")
          /\ code \notin {\hE0, \hE1} => Makes(s, t, code, "none", said)
    /\ \A i \in DOMAIN Pause : s.pc = Pause[i] =>
          IF code = pausebrk_scode[i]
          THEN GoesOn(s, t, IF i = 5 THEN "idle" ELSE Pause[i + 1])
          ELSE Makes(s, t, \hE1, "none", said)
    /\ s.pc = "E0" =>
          /\ code = \h2A => GoesOn(s, t, "make_E0")
          /\ code = \hB7 => GoesOn(s, t, "break_E0")
          /\ code \notin {\h2A, \hB7} => Makes(s, t, code, "E0", said)
    /\ s.pc = "make_E0" =>
          IF code = \hE0 THEN GoesOn(s, t, "make_37") ELSE Makes(s, t, \h2A, "E0", said)
    /\ s.pc = "make_37" =>
          IF code = \h37 THEN GoesOn(s, t, "idle") ELSE Makes(s, t, \h2A, "E0", said)
    /\ s.pc = "break_E0" =>
          IF code = \hE0 THEN GoesOn(s, t, "break_AA") ELSE Makes(s, t, \hB7, "E0", said)
    /\ s.pc = "break_AA" =>
          IF code = \hAA THEN GoesOn(s, t, "idle") ELSE Makes(s, t, \hB7, "E0", said)

\* The codes from number `first` on, up to `end`, lead from reader to reader.
Leads(code, reader, said, first, end) ==
    /\ \A j \in first..end - 1 : Takes(reader[j], reader[j + 1], code[j], said)
    /\ \A j \in first..end : reader[j].seen <= reader[end].seen

\* The codes, one after the other, lead from s to t.
Leading(run, codes, said) ==
    /\ Len(run) = Len(codes) + 1
    /\ \A j \in 1..Len(codes) : Takes(run[j], run[j + 1], codes[j], said)
    /\ \A j \in 1..Len(run) : run[j].seen <= run[Len(run)].seen

LeadFromTo(codes, s, t, said) ==
    \E run \in Seq(Reader) :
        Leading(run, codes, said) /\ run[1] = s /\ run[Len(run)] = t

-----------------------------------------------------------------------------
(* What is in flight: the codes in the ring and those the device has still  *)
(* to send lead the reader to where the device is.                          *)

Latest(first) == first + keyboard_in.count + Len(out)

RingHolds(code, first) ==
    \A j \in 0..keyboard_in.count - 1 :
        keyboard_in.buffer[(keyboard_in.tail + j) % KEYBOARD_IN_BUFFERSIZE] = code[first + j]

DeviceHolds(code, first) ==
    \A j \in 1..Len(out) : out[j] = code[first + keyboard_in.count + j - 1]

ReaderAt(s) ==
    /\ s.pc = IF pc \in {"LED", "leds"} THEN "idle" ELSE pc
    /\ s.modifiers = modifiers /\ s.locks = locks

DeviceAt(s) == s.pc = "idle" /\ s.modifiers = Held /\ s.locks = on

Expects(said, s, t) ==
    /\ Len(expected) = t.seen - s.seen
    /\ \A i \in 1..Len(expected) : expected[i] = said[s.seen + i - 1]

InFlight(code, reader, said, first) ==
    /\ RingHolds(code, first) /\ DeviceHolds(code, first)
    /\ Leads(code, reader, said, first, Latest(first))
    /\ ReaderAt(reader[first]) /\ DeviceAt(reader[Latest(first)])
    /\ Expects(said, reader[first], reader[Latest(first)])

\* A key is expected with what it means.
KTypes == TypeOK /\ expected \in Seq(Meaning)

\* The inductive invariant; a reader, its codes and its keys are numbered.
KInv ==
    /\ KTypes
    /\ ~dropped =>
          /\ correct
          /\ \E code \in [Nat -> Code], reader \in [Nat -> Reader],
                said \in [Nat -> Meaning], first \in Nat :
                InFlight(code, reader, said, first)

-----------------------------------------------------------------------------
(* The codes of a key.                                                      *)

MeantAt(k, s) ==
    LET shifted == capsAt(s, <<k.alone>>)
        pad     == k.pad /\ ~shifted
    IN [key  |-> IF shifted \/ (pad /\ "NUMLOCK" \in s.locks) THEN k.shifted ELSE k.alone,
        with |-> s.modifiers \cup ({k.name} \cap Modifier),
        pad  |-> pad]

LocksPressed(k, s) ==
    IF k.name \notin Lock THEN s.locks
    ELSE IF k.name \in s.locks THEN s.locks \ {k.name} ELSE s.locks \cup {k.name}

\* The places of keyboard_read in the middle of a PAUSEBREAK.
LEMMA PauseIs ==
    /\ DOMAIN Pause = 1..5
    /\ Pause[1] = "E1_1" /\ Pause[2] = "E1_2" /\ Pause[3] = "E1_3"
    /\ Pause[4] = "E1_4" /\ Pause[5] = "E1_5"
    /\ \A i \in 1..5 : Pause[i] \notin {"idle", "E0", "make_E0", "make_37", "break_E0",
                                        "break_AA", "LED", "leds"}
    /\ \A h, i \in 1..5 : Pause[h] = Pause[i] => h = i
  BY DEF Pause

\* What is taken at the beginning of a key, and after \hE0.
LEMMA TakesAtIdle ==
    ASSUME NEW s, NEW t, NEW code, NEW said, s.pc = "idle"
    PROVE  Takes(s, t, code, said) <=>
              /\ code = \hE1 => GoesOn(s, t, Pause[1])
              /\ code = \hE0 => GoesOn(s, t, "E0")
              /\ code \notin {\hE0, \hE1} => Makes(s, t, code, "none", said)
  BY PauseIs DEF Takes

LEMMA TakesAfterE0 ==
    ASSUME NEW s, NEW t, NEW code, NEW said, s.pc = "E0"
    PROVE  Takes(s, t, code, said) <=>
              /\ code = \h2A => GoesOn(s, t, "make_E0")
              /\ code = \hB7 => GoesOn(s, t, "break_E0")
              /\ code \notin {\h2A, \hB7} => Makes(s, t, code, "E0", said)
  BY PauseIs DEF Takes

LEMMA ReaderIs ==
    ASSUME NEW place \in Reading, NEW held \in SUBSET Modifier, NEW lit \in SUBSET Lock,
           NEW n \in Nat
    PROVE  LET t == [pc |-> place, modifiers |-> held, locks |-> lit, seen |-> n] IN
           /\ t \in Reader
           /\ t.pc = place /\ t.modifiers = held /\ t.locks = lit /\ t.seen = n
  BY DEF Reader

LEMMA ReadingPlaces ==
    /\ {"idle", "E0", "make_E0", "make_37", "break_E0", "break_AA"} \subseteq Reading
    /\ \A i \in 1..5 : Pause[i] \in Reading
  BY PauseIs DEF Reading

\* Two inputs are the same when their parts are.
LEMMA SameInput ==
    ASSUME NEW key, NEW key2, key = key2, NEW held, NEW p \in BOOLEAN, NEW q \in BOOLEAN, p <=> q
    PROVE  [key |-> key, with |-> held, pad |-> p] = [key |-> key2, with |-> held, pad |-> q]
  <1>1. p = q
    OBVIOUS
  <1> QED
    BY <1>1, Zenon

\* What comes of a key of one code.
LEMMA OneCodeMakes ==
    ASSUME NEW k \in Keys, k.silent = FALSE, OfOneCode(k), NEW s \in Reader, s.pc = "idle",
           NEW said, said[s.seen] = MeantAt(k, s)
    PROVE  LET t == [pc |-> "idle", modifiers |-> s.modifiers \cup ({k.name} \cap Modifier),
                     locks |-> LocksPressed(k, s), seen |-> s.seen + 1]
           IN  /\ k.make \in Seq(Code) /\ Len(k.make) = 1
               /\ t \in Reader /\ Takes(s, t, k.make[1], said)
  <1>1. PICK code \in DOMAIN keymap \ {\h60, \h61} :
           LET row == keymap[code] IN
           /\ k.make = <<code>> /\ k.break = <<code + 128>>
           /\ Named(k, {row[1], row[2]})
           /\ row[2] = k.shifted /\ row[2] \notin DOMAIN numpad
           /\ row[1] \in Letter <=> k.alone \in Letter
           /\ \/ k.pad = TRUE /\ row[1] \in DOMAIN numpad
                 /\ numpad[row[1]] = <<k.shifted, k.alone>>
              \/ k.pad = FALSE /\ row[1] \notin DOMAIN numpad /\ row[1] = k.alone
    BY DEF OfOneCode
  <1>2. code \in 0..127 /\ Row(code) = keymap[code] /\ Make(code) /\ code \in Code
    BY KeyboardAssumption DEF Row, Make, Code
  <1> DEFINE t == [pc |-> "idle", modifiers |-> s.modifiers \cup ({k.name} \cap Modifier),
                   locks |-> LocksPressed(k, s), seen |-> s.seen + 1]
             row == keymap[code]
             key == KeyAt(s, code, "none")
  <1>3. s.modifiers \subseteq Modifier /\ s.locks \subseteq Lock /\ s.seen \in Nat
    BY DEF Reader
  <1>4. LocksPressed(k, s) \subseteq Lock
    BY <1>3 DEF LocksPressed
  <1>5. /\ t \in Reader /\ t.pc = "idle"
        /\ t.modifiers = s.modifiers \cup ({k.name} \cap Modifier)
        /\ t.locks = LocksPressed(k, s) /\ t.seen = s.seen + 1
    <2>1. s.modifiers \cup ({k.name} \cap Modifier) \in SUBSET Modifier
      BY <1>3
    <2>2. s.seen + 1 \in Nat
      BY <1>3
    <2> QED
      BY <2>1, <2>2, <1>4, ReaderIs, ReadingPlaces
  <1>6. key = IF capsAt(s, row) THEN row[2] ELSE row[1]
    BY <1>2 DEF KeyAt
  <1>7. capsAt(s, row) = capsAt(s, <<k.alone>>)
    BY <1>1 DEF capsAt
  <1>8. key \in {row[1], row[2]}
    BY <1>6
  <1>9. /\ key \in Modifier => key = k.name
        /\ key \in Lock => key = k.name
        /\ k.name \in Modifier => key = k.name
        /\ k.name \in Lock => key = k.name
    BY <1>1, <1>8 DEF Named
  <1>10. ModifiersAfter(s, key, code) = s.modifiers \cup ({k.name} \cap Modifier)
    <2>1. CASE key \in Modifier
      BY <2>1, <1>9, <1>2 DEF ModifiersAfter
    <2>2. CASE key \notin Modifier
      BY <2>2, <1>9, <1>2 DEF ModifiersAfter
    <2> QED
      BY <2>1, <2>2
  <1>11. LocksAfter(s, key, code) = LocksPressed(k, s)
    <2>1. CASE key \in Lock
      BY <2>1, <1>9, <1>2 DEF LocksAfter, LocksPressed
    <2>2. CASE key \notin Lock
      BY <2>2, <1>9, <1>2 DEF LocksAfter, LocksPressed
    <2> QED
      BY <2>1, <2>2
  <1>12. MeantAt(k, s) = InputAt(s, key, t.modifiers)
    <2> DEFINE shifted == capsAt(s, <<k.alone>>)
               meant   == IF shifted \/ (k.pad /\ ~shifted /\ "NUMLOCK" \in s.locks)
                          THEN k.shifted ELSE k.alone
               given   == IF key \notin DOMAIN numpad THEN key
                          ELSE IF "NUMLOCK" \in s.locks THEN numpad[key][1]
                          ELSE numpad[key][2]
    <2>1. meant = given /\ (k.pad /\ ~shifted <=> key \in DOMAIN numpad)
      <3>1. CASE capsAt(s, row)
        BY <3>1, <1>1, <1>6, <1>7
      <3>2. CASE ~capsAt(s, row) /\ k.pad = TRUE
        <4>1. key \in DOMAIN numpad /\ numpad[key] = <<k.shifted, k.alone>>
          BY <3>2, <1>1, <1>6
        <4>2. numpad[key][1] = k.shifted /\ numpad[key][2] = k.alone
          BY <4>1
        <4> QED
          BY <3>2, <4>1, <4>2, <1>7
      <3>3. CASE ~capsAt(s, row) /\ k.pad = FALSE
        <4>1. key \notin DOMAIN numpad /\ key = k.alone
          BY <3>3, <1>1, <1>6
        <4> QED
          BY <3>3, <4>1, <1>7
      <3> QED
        BY <3>1, <3>2, <3>3, <1>1
    <2> HIDE DEF meant, given, key, t
    <2>2. [key |-> meant, with |-> t.modifiers, pad |-> k.pad /\ ~shifted]
             = [key |-> given, with |-> t.modifiers, pad |-> key \in DOMAIN numpad]
      BY <2>1, SameInput
    <2>3. InputAt(s, key, t.modifiers)
             = [key |-> given, with |-> t.modifiers, pad |-> key \in DOMAIN numpad]
      BY DEF InputAt, given
    <2>4. MeantAt(k, s) = [key |-> meant, with |-> s.modifiers \cup ({k.name} \cap Modifier),
                          pad |-> k.pad /\ ~shifted]
      BY Zenon DEF MeantAt, meant
    <2> QED
      BY <1>5, <2>2, <2>3, <2>4, Zenon
  <1> HIDE DEF t, key
  <1>13. Makes(s, t, code, "none", said)
    BY <1>2, <1>5, <1>10, <1>11, <1>12 DEF Makes, key
  <1>14. Takes(s, t, code, said)
    <2>1. code \notin {\hE0, \hE1}
      BY <1>2
    <2> QED
      BY <2>1, <1>13, TakesAtIdle
  <1>15. k.make \in Seq(Code) /\ Len(k.make) = 1 /\ k.make[1] = code
    BY <1>1, <1>2
  <1> QED
    BY <1>5, <1>14, <1>15 DEF t

\* The same when the key is released.
LEMMA OneCodeBreaks ==
    ASSUME NEW k \in Keys, k.silent = FALSE, OfOneCode(k), NEW s \in Reader, s.pc = "idle",
           NEW said
    PROVE  LET t == [pc |-> "idle", modifiers |-> s.modifiers \ ({k.name} \cap Modifier),
                     locks |-> s.locks, seen |-> s.seen]
           IN  /\ k.break \in Seq(Code) /\ Len(k.break) = 1
               /\ t \in Reader /\ Takes(s, t, k.break[1], said)
  <1>1. PICK code \in DOMAIN keymap \ {\h60, \h61} :
           /\ k.break = <<code + 128>>
           /\ Named(k, {keymap[code][1], keymap[code][2]})
    BY DEF OfOneCode
  <1>2. code \in 0..127
    BY KeyboardAssumption
  <1>3. /\ (code + 128) % 128 = code /\ ~Make(code + 128) /\ code + 128 \in Code
        /\ code + 128 \notin {\hE0, \hE1}
    BY <1>1, <1>2 DEF Make, Code
  <1>4. Row(code + 128) = keymap[code]
    BY <1>1, <1>3 DEF Row
  <1> DEFINE t == [pc |-> "idle", modifiers |-> s.modifiers \ ({k.name} \cap Modifier),
                   locks |-> s.locks, seen |-> s.seen]
             key == KeyAt(s, code + 128, "none")
  <1>5. /\ t \in Reader /\ t.pc = "idle" /\ t.locks = s.locks /\ t.seen = s.seen
        /\ t.modifiers = s.modifiers \ ({k.name} \cap Modifier)
    BY ReaderIs, ReadingPlaces DEF Reader
  <1>6. key \in {keymap[code][1], keymap[code][2]}
    BY <1>4 DEF KeyAt
  <1>7. (key \in Modifier => key = k.name) /\ (k.name \in Modifier => key = k.name)
    BY <1>1, <1>6 DEF Named
  <1>8. ModifiersAfter(s, key, code + 128) = s.modifiers \ ({k.name} \cap Modifier)
    <2>1. CASE key \in Modifier
      BY <2>1, <1>3, <1>7 DEF ModifiersAfter
    <2>2. CASE key \notin Modifier
      BY <2>2, <1>7 DEF ModifiersAfter
    <2> QED
      BY <2>1, <2>2
  <1>9. LocksAfter(s, key, code + 128) = s.locks
    BY <1>3 DEF LocksAfter
  <1> HIDE DEF t, key
  <1>10. Makes(s, t, code + 128, "none", said)
    BY <1>3, <1>5, <1>8, <1>9 DEF Makes, key
  <1>11. Takes(s, t, code + 128, said)
    BY <1>3, <1>10, TakesAtIdle
  <1> QED
    BY <1>1, <1>3, <1>5, <1>11 DEF t

\* The same for a key of two codes.
LEMMA E0Makes ==
    ASSUME NEW k \in Keys, k.silent = FALSE, AfterE0(k), NEW s \in Reader, s.pc = "idle",
           NEW said, said[s.seen] = MeantAt(k, s)
    PROVE  LET m == [pc |-> "E0", modifiers |-> s.modifiers, locks |-> s.locks, seen |-> s.seen]
               t == [pc |-> "idle", modifiers |-> s.modifiers \cup ({k.name} \cap Modifier),
                     locks |-> LocksPressed(k, s), seen |-> s.seen + 1]
           IN  /\ k.make \in Seq(Code) /\ Len(k.make) = 2 /\ m \in Reader /\ t \in Reader
               /\ Takes(s, m, k.make[1], said) /\ Takes(m, t, k.make[2], said)
  <1>1. PICK code \in DOMAIN keymap \ {\h2A, \h37} :
           LET key == keymap[code][3] IN
           /\ k.make = <<\hE0, code>> /\ k.break = <<\hE0, code + 128>>
           /\ Named(k, {key})
           /\ k.alone = key /\ k.shifted = key /\ key \notin DOMAIN numpad /\ k.pad = FALSE
    BY DEF AfterE0
  <1>2. code \in 0..127 /\ Row(code) = keymap[code] /\ Make(code) /\ code \in Code
    BY KeyboardAssumption DEF Row, Make, Code
  <1> DEFINE m == [pc |-> "E0", modifiers |-> s.modifiers, locks |-> s.locks, seen |-> s.seen]
             t == [pc |-> "idle", modifiers |-> s.modifiers \cup ({k.name} \cap Modifier),
                   locks |-> LocksPressed(k, s), seen |-> s.seen + 1]
             key == KeyAt(m, code, "E0")
  <1>3. s.modifiers \subseteq Modifier /\ s.locks \subseteq Lock /\ s.seen \in Nat
    BY DEF Reader
  <1>4. LocksPressed(k, s) \subseteq Lock
    BY <1>3 DEF LocksPressed
  <1>5. /\ m \in Reader
        /\ m.pc = "E0" /\ m.modifiers = s.modifiers /\ m.locks = s.locks /\ m.seen = s.seen
    BY <1>3, ReaderIs, ReadingPlaces
  <1>6. /\ t \in Reader /\ t.pc = "idle"
        /\ t.modifiers = s.modifiers \cup ({k.name} \cap Modifier)
        /\ t.locks = LocksPressed(k, s) /\ t.seen = s.seen + 1
    <2>1. s.modifiers \cup ({k.name} \cap Modifier) \in SUBSET Modifier
      BY <1>3
    <2>2. s.seen + 1 \in Nat
      BY <1>3
    <2> QED
      BY <2>1, <2>2, <1>4, ReaderIs, ReadingPlaces
  <1>7. key = keymap[code][3]
    BY <1>2 DEF KeyAt
  <1>8. /\ key \in Modifier => key = k.name
        /\ key \in Lock => key = k.name
        /\ k.name \in Modifier => key = k.name
        /\ k.name \in Lock => key = k.name
    BY <1>1, <1>7 DEF Named
  <1>9. ModifiersAfter(m, key, code) = s.modifiers \cup ({k.name} \cap Modifier)
    <2>1. CASE key \in Modifier
      BY <2>1, <1>8, <1>2, <1>5 DEF ModifiersAfter
    <2>2. CASE key \notin Modifier
      BY <2>2, <1>8, <1>2, <1>5 DEF ModifiersAfter
    <2> QED
      BY <2>1, <2>2
  <1>10. LocksAfter(m, key, code) = LocksPressed(k, s)
    <2>1. CASE key \in Lock
      BY <2>1, <1>8, <1>2, <1>5 DEF LocksAfter, LocksPressed
    <2>2. CASE key \notin Lock
      BY <2>2, <1>8, <1>2, <1>5 DEF LocksAfter, LocksPressed
    <2> QED
      BY <2>1, <2>2
  <1> HIDE DEF m, t, key
  <1>11. MeantAt(k, s) = InputAt(m, key, t.modifiers)
    <2> DEFINE shifted == capsAt(s, <<k.alone>>)
               meant   == IF shifted \/ (k.pad /\ ~shifted /\ "NUMLOCK" \in s.locks)
                          THEN k.shifted ELSE k.alone
               given   == IF key \notin DOMAIN numpad THEN key
                          ELSE IF "NUMLOCK" \in m.locks THEN numpad[key][1]
                          ELSE numpad[key][2]
    <2>1. meant = given /\ (k.pad /\ ~shifted <=> key \in DOMAIN numpad)
      BY <1>1, <1>7
    <2> HIDE DEF meant, given
    <2>2. [key |-> meant, with |-> t.modifiers, pad |-> k.pad /\ ~shifted]
             = [key |-> given, with |-> t.modifiers, pad |-> key \in DOMAIN numpad]
      BY <2>1, SameInput
    <2>3. InputAt(m, key, t.modifiers)
             = [key |-> given, with |-> t.modifiers, pad |-> key \in DOMAIN numpad]
      BY DEF InputAt, given
    <2>4. MeantAt(k, s) = [key |-> meant, with |-> s.modifiers \cup ({k.name} \cap Modifier),
                          pad |-> k.pad /\ ~shifted]
      BY Zenon DEF MeantAt, meant
    <2> QED
      BY <1>6, <2>2, <2>3, <2>4, Zenon
  <1>12. Makes(m, t, code, "E0", said)
    BY <1>2, <1>5, <1>6, <1>9, <1>10, <1>11 DEF Makes, key
  <1>13. Takes(m, t, code, said)
    <2>1. code \notin {\h2A, \hB7}
      BY <1>2
    <2> QED
      BY <2>1, <1>5, <1>12, TakesAfterE0
  <1>14. k.make \in Seq(Code) /\ Len(k.make) = 2 /\ k.make[1] = \hE0 /\ k.make[2] = code
    BY <1>1, <1>2 DEF Code
  <1>15. Takes(s, m, k.make[1], said)
    <2>1. GoesOn(s, m, "E0")
      BY <1>5 DEF GoesOn
    <2> QED
      BY <2>1, <1>14, TakesAtIdle
  <1> QED
    BY <1>6, <1>5, <1>13, <1>15, <1>14 DEF m, t

\* The same when the key is released.
LEMMA E0Breaks ==
    ASSUME NEW k \in Keys, k.silent = FALSE, AfterE0(k), NEW s \in Reader, s.pc = "idle",
           NEW said
    PROVE  LET m == [pc |-> "E0", modifiers |-> s.modifiers, locks |-> s.locks, seen |-> s.seen]
               t == [pc |-> "idle", modifiers |-> s.modifiers \ ({k.name} \cap Modifier),
                     locks |-> s.locks, seen |-> s.seen]
           IN  /\ k.break \in Seq(Code) /\ Len(k.break) = 2 /\ m \in Reader /\ t \in Reader
               /\ Takes(s, m, k.break[1], said) /\ Takes(m, t, k.break[2], said)
  <1>1. PICK code \in DOMAIN keymap \ {\h2A, \h37} :
           k.break = <<\hE0, code + 128>> /\ Named(k, {keymap[code][3]})
    BY DEF AfterE0
  <1>2. code \in 0..127
    BY KeyboardAssumption
  <1>3. /\ (code + 128) % 128 = code /\ ~Make(code + 128) /\ code + 128 \in Code
        /\ code + 128 \notin {\h2A, \hB7}
    BY <1>1, <1>2 DEF Make, Code
  <1>4. Row(code + 128) = keymap[code]
    BY <1>1, <1>3 DEF Row
  <1> DEFINE m == [pc |-> "E0", modifiers |-> s.modifiers, locks |-> s.locks, seen |-> s.seen]
             t == [pc |-> "idle", modifiers |-> s.modifiers \ ({k.name} \cap Modifier),
                   locks |-> s.locks, seen |-> s.seen]
             key == KeyAt(m, code + 128, "E0")
  <1>5. /\ t \in Reader /\ t.pc = "idle" /\ t.locks = s.locks /\ t.seen = s.seen
        /\ t.modifiers = s.modifiers \ ({k.name} \cap Modifier)
    BY ReaderIs, ReadingPlaces DEF Reader
  <1>6. /\ m \in Reader
        /\ m.pc = "E0" /\ m.modifiers = s.modifiers /\ m.locks = s.locks /\ m.seen = s.seen
    BY ReaderIs, ReadingPlaces DEF Reader
  <1>7. key = keymap[code][3]
    BY <1>4 DEF KeyAt
  <1>8. (key \in Modifier => key = k.name) /\ (k.name \in Modifier => key = k.name)
    BY <1>1, <1>7 DEF Named
  <1>9. ModifiersAfter(m, key, code + 128) = s.modifiers \ ({k.name} \cap Modifier)
    <2>1. CASE key \in Modifier
      BY <2>1, <1>3, <1>8, <1>6 DEF ModifiersAfter
    <2>2. CASE key \notin Modifier
      BY <2>2, <1>8, <1>6 DEF ModifiersAfter
    <2> QED
      BY <2>1, <2>2
  <1>10. LocksAfter(m, key, code + 128) = s.locks
    BY <1>3, <1>6 DEF LocksAfter
  <1> HIDE DEF m, t, key
  <1>11. Makes(m, t, code + 128, "E0", said)
    BY <1>3, <1>5, <1>9, <1>10, <1>6 DEF Makes, key
  <1>12. Takes(m, t, code + 128, said)
    BY <1>3, <1>11, <1>6, TakesAfterE0
  <1>13. k.break \in Seq(Code) /\ Len(k.break) = 2 /\ k.break[1] = \hE0
           /\ k.break[2] = code + 128
    BY <1>1, <1>3 DEF Code
  <1>14. Takes(s, m, k.break[1], said)
    <2>1. GoesOn(s, m, "E0")
      BY <1>6 DEF GoesOn
    <2> QED
      BY <2>1, <1>13, TakesAtIdle
  <1> QED
    BY <1>5, <1>6, <1>12, <1>14, <1>13 DEF m, t

\* Codes lead from reader to reader when each of them is taken.
LEMMA NoCodes ==
    ASSUME NEW s \in Reader, NEW said
    PROVE  LeadFromTo(<<>>, s, s, said)
  <1> DEFINE run == <<s>>
  <1>1. run \in Seq(Reader) /\ Len(run) = 1 /\ run[1] = s
    OBVIOUS
  <1>2. s.seen \in Nat
    BY DEF Reader
  <1>3. Leading(run, <<>>, said)
    BY <1>1, <1>2 DEF Leading
  <1> QED
    BY <1>1, <1>3 DEF LeadFromTo

LEMMA OneCode ==
    ASSUME NEW codes \in Seq(Code), Len(codes) = 1, NEW s \in Reader, NEW t \in Reader, NEW said,
           Takes(s, t, codes[1], said), s.seen <= t.seen
    PROVE  LeadFromTo(codes, s, t, said)
  <1> DEFINE run == <<s, t>>
  <1>1. run \in Seq(Reader) /\ Len(run) = 2 /\ run[1] = s /\ run[2] = t
    OBVIOUS
  <1>2. t.seen \in Nat
    BY DEF Reader
  <1> HIDE DEF run
  <1>3. ASSUME NEW j \in 1..Len(codes) PROVE Takes(run[j], run[j + 1], codes[j], said)
    <2>1. j = 1
      OBVIOUS
    <2>2. Takes(run[1], run[2], codes[1], said)
      BY <1>1
    <2> QED
      BY <2>1, <2>2
  <1>4. Leading(run, codes, said)
    BY <1>1, <1>2, <1>3 DEF Leading
  <1> QED
    BY <1>1, <1>4 DEF LeadFromTo

LEMMA TwoCodes ==
    ASSUME NEW codes \in Seq(Code), Len(codes) = 2, NEW s \in Reader, NEW m \in Reader,
           NEW t \in Reader, NEW said,
           Takes(s, m, codes[1], said), Takes(m, t, codes[2], said),
           s.seen <= t.seen, m.seen <= t.seen
    PROVE  LeadFromTo(codes, s, t, said)
  <1> DEFINE run == <<s, m, t>>
  <1>1. /\ run \in Seq(Reader) /\ Len(run) = 3
        /\ run[1] = s /\ run[2] = m /\ run[3] = t
    OBVIOUS
  <1>2. t.seen \in Nat
    BY DEF Reader
  <1> HIDE DEF run
  <1>3. ASSUME NEW j \in 1..Len(codes) PROVE Takes(run[j], run[j + 1], codes[j], said)
    <2>1. j = 1 \/ j = 2
      OBVIOUS
    <2>2. Takes(run[1], run[2], codes[1], said) /\ Takes(run[2], run[3], codes[2], said)
      BY <1>1
    <2> QED
      BY <2>1, <2>2
  <1>4. Leading(run, codes, said)
    BY <1>1, <1>2, <1>3 DEF Leading
  <1> QED
    BY <1>1, <1>4 DEF LeadFromTo

\* Where the reader is in the middle of a key.
Within(s, place) ==
    [pc |-> place, modifiers |-> s.modifiers, locks |-> s.locks, seen |-> s.seen]

LEMMA WithinIs ==
    ASSUME NEW s \in Reader, NEW place \in Reading
    PROVE  /\ Within(s, place) \in Reader /\ Within(s, place).pc = place
           /\ Within(s, place).modifiers = s.modifiers
           /\ Within(s, place).locks = s.locks /\ Within(s, place).seen = s.seen
           /\ s.pc = place => Within(s, place) = s
  BY DEF Within, Reader

\* A series of codes that change nothing but where the reader is.
LEMMA SeriesLeads ==
    ASSUME NEW codes \in Seq(Code), NEW place \in [1..Len(codes) + 1 -> Reading],
           NEW s \in Reader, NEW said,
           place[1] = s.pc, place[Len(codes) + 1] = s.pc,
           \A j \in 1..Len(codes) : \A a, b :
              a.pc = place[j] /\ GoesOn(a, b, place[j + 1]) => Takes(a, b, codes[j], said)
    PROVE  LeadFromTo(codes, s, s, said)
  <1> DEFINE n == Len(codes)
             run == [j \in 1..n + 1 |-> Within(s, place[j])]
  <1>1. n \in Nat
    OBVIOUS
  <1>2. \A j \in 1..n + 1 : /\ run[j] \in Reader /\ run[j].pc = place[j] /\ run[j].seen = s.seen
                            /\ run[j].modifiers = s.modifiers /\ run[j].locks = s.locks
    BY WithinIs
  <1>3. run[1] = s /\ run[n + 1] = s
    BY <1>1, WithinIs DEF Reader
  <1>4. run \in Seq(Reader) /\ Len(run) = n + 1
    BY <1>1, <1>2
  <1> HIDE DEF run, n
  <1>5. ASSUME NEW j \in 1..Len(codes) PROVE Takes(run[j], run[j + 1], codes[j], said)
    <2>1. j \in 1..n + 1 /\ j + 1 \in 1..n + 1
      BY <1>1 DEF n
    <2>2. GoesOn(run[j], run[j + 1], place[j + 1])
      BY <2>1, <1>2 DEF GoesOn
    <2>3. run[j].pc = place[j]
      BY <2>1, <1>2
    <2> QED
      BY <2>2, <2>3
  <1>6. ASSUME NEW j \in 1..Len(run) PROVE run[j].seen <= run[Len(run)].seen
    BY <1>1, <1>2, <1>4 DEF Reader
  <1>7. Leading(run, codes, said)
    BY <1>4, <1>5, <1>6 DEF Leading, n
  <1> QED
    BY <1>3, <1>4, <1>7 DEF LeadFromTo

\* The codes of a PAUSEBREAK and of a PRINTSCREEN lead nowhere.
LEMMA PauseLeads ==
    ASSUME NEW k, PauseBreak(k), NEW s \in Reader, s.pc = "idle", NEW said
    PROVE  k.make \in Seq(Code) /\ LeadFromTo(k.make, s, s, said)
  <1> DEFINE codes == k.make
             place == [j \in 1..7 |-> IF j \in {1, 7} THEN "idle" ELSE Pause[j - 1]]
  <1>1. /\ codes \in Seq(Code) /\ Len(codes) = 6 /\ codes[1] = \hE1 /\ codes[2] = \h1D
        /\ codes[3] = \h45 /\ codes[4] = \hE1 /\ codes[5] = \h9D /\ codes[6] = \hC5
    BY DEF PauseBreak, Code
  <1>2. /\ place[1] = "idle" /\ place[7] = "idle"
        /\ \A i \in 1..5 : place[i + 1] = Pause[i]
    OBVIOUS
  <1>3. place \in [1..7 -> Reading]
    <2>1. \A j \in 1..7 : j \in {1, 7} \/ j - 1 \in 1..5
      OBVIOUS
    <2> QED
      BY <2>1, ReadingPlaces
  <1> HIDE DEF codes, place
  <1>4. /\ pausebrk_scode[1] = codes[2] /\ pausebrk_scode[2] = codes[3]
        /\ pausebrk_scode[3] = codes[4] /\ pausebrk_scode[4] = codes[5]
        /\ pausebrk_scode[5] = codes[6]
    BY <1>1 DEF pausebrk_scode
  <1>5. ASSUME NEW j \in 1..Len(codes), NEW a, NEW b, a.pc = place[j],
               GoesOn(a, b, place[j + 1])
        PROVE  Takes(a, b, codes[j], said)
    <2>1. CASE j = 1
      <3>1. GoesOn(a, b, Pause[1]) /\ a.pc = "idle"
        BY <2>1, <1>2, <1>5
      <3> QED
        BY <3>1, <2>1, <1>1, TakesAtIdle
    <2>2. CASE j \in 2..6
      <3> DEFINE i == j - 1
      <3>1. i \in 1..5 /\ j = i + 1
        BY <2>2
      <3>2. a.pc = Pause[i] /\ codes[j] = pausebrk_scode[i]
        BY <3>1, <1>2, <1>4, <1>5
      <3>3. place[j + 1] = IF i = 5 THEN "idle" ELSE Pause[i + 1]
        BY <3>1, <1>2
      <3> HIDE DEF i
      <3>4. /\ \A h \in 1..5 : Pause[h] = Pause[i] => h = i
            /\ a.pc \notin {"idle", "E0", "make_E0", "make_37", "break_E0", "break_AA"}
        BY <3>1, <3>2, PauseIs
      <3> QED
        BY <3>1, <3>2, <3>3, <3>4, <1>5, PauseIs DEF Takes
    <2> QED
      BY <2>1, <2>2, <1>1
  <1>6. LeadFromTo(codes, s, s, said)
    <2>1. /\ place \in [1..Len(codes) + 1 -> Reading]
          /\ place[1] = s.pc /\ place[Len(codes) + 1] = s.pc
      BY <1>1, <1>2, <1>3
    <2>2. codes \in Seq(Code)
      BY <1>1
    <2> QED
      BY <2>1, <2>2, <1>5, SeriesLeads
  <1> QED
    BY <1>1, <1>6 DEF codes

LEMMA FourCodes ==
    ASSUME NEW codes \in Seq(Code), Len(codes) = 4, NEW s \in Reader, NEW said,
           NEW second \in Reading, NEW third \in Reading, NEW fourth \in Reading,
           \A a, b : a.pc = s.pc /\ GoesOn(a, b, second) => Takes(a, b, codes[1], said),
           \A a, b : a.pc = second /\ GoesOn(a, b, third) => Takes(a, b, codes[2], said),
           \A a, b : a.pc = third /\ GoesOn(a, b, fourth) => Takes(a, b, codes[3], said),
           \A a, b : a.pc = fourth /\ GoesOn(a, b, s.pc) => Takes(a, b, codes[4], said)
    PROVE  LeadFromTo(codes, s, s, said)
  <1> DEFINE place == [j \in 1..5 |-> IF j = 2 THEN second ELSE IF j = 3 THEN third
                                      ELSE IF j = 4 THEN fourth ELSE s.pc]
  <1>1. s.pc \in Reading
    BY DEF Reader
  <1>2. place \in [1..5 -> Reading]
    BY <1>1
  <1>3. /\ place[1] = s.pc /\ place[2] = second /\ place[3] = third
        /\ place[4] = fourth /\ place[5] = s.pc
    OBVIOUS
  <1> HIDE DEF place
  <1>4. ASSUME NEW j \in 1..Len(codes), NEW a, NEW b, a.pc = place[j], GoesOn(a, b, place[j + 1])
        PROVE  Takes(a, b, codes[j], said)
    <2>1. CASE j = 1
      BY <2>1, <1>3, <1>4
    <2>2. CASE j = 2
      BY <2>2, <1>3, <1>4
    <2>3. CASE j = 3
      BY <2>3, <1>3, <1>4
    <2>4. CASE j = 4
      BY <2>4, <1>3, <1>4
    <2> QED
      BY <2>1, <2>2, <2>3, <2>4
  <1>5. place \in [1..Len(codes) + 1 -> Reading] /\ place[Len(codes) + 1] = s.pc
    BY <1>2, <1>3
  <1> QED
    BY <1>3, <1>4, <1>5, SeriesLeads

LEMMA PrintScreenMakes ==
    ASSUME NEW k, PrintScreen(k), NEW s \in Reader, s.pc = "idle", NEW said
    PROVE  k.make \in Seq(Code) /\ LeadFromTo(k.make, s, s, said)
  <1> DEFINE codes == k.make
  <1>1. /\ codes \in Seq(Code) /\ Len(codes) = 4 /\ codes[1] = \hE0 /\ codes[2] = \h2A
        /\ codes[3] = \hE0 /\ codes[4] = \h37
    BY DEF Code, PrintScreen
  <1> HIDE DEF codes
  <1>2. ASSUME NEW a, NEW b, a.pc = s.pc, GoesOn(a, b, "E0")
        PROVE  Takes(a, b, codes[1], said)
    BY <1>1, <1>2, TakesAtIdle
  <1>3. ASSUME NEW a, NEW b, a.pc = "E0", GoesOn(a, b, "make_E0")
        PROVE  Takes(a, b, codes[2], said)
    BY <1>1, <1>3, TakesAfterE0
  <1>4. ASSUME NEW a, NEW b, a.pc = "make_E0", GoesOn(a, b, "make_37")
        PROVE  Takes(a, b, codes[3], said)
    BY <1>1, <1>4, PauseIs DEF Takes
  <1>5. ASSUME NEW a, NEW b, a.pc = "make_37", GoesOn(a, b, s.pc)
        PROVE  Takes(a, b, codes[4], said)
    BY <1>1, <1>5, PauseIs DEF Takes
  <1>6. LeadFromTo(codes, s, s, said)
    BY <1>1, <1>2, <1>3, <1>4, <1>5, FourCodes, ReadingPlaces
  <1> QED
    BY <1>1, <1>6 DEF codes

LEMMA PrintScreenBreaks ==
    ASSUME NEW k, PrintScreen(k), NEW s \in Reader, s.pc = "idle", NEW said
    PROVE  k.break \in Seq(Code) /\ LeadFromTo(k.break, s, s, said)
  <1> DEFINE codes == k.break
  <1>1. /\ codes \in Seq(Code) /\ Len(codes) = 4 /\ codes[1] = \hE0 /\ codes[2] = \hB7
        /\ codes[3] = \hE0 /\ codes[4] = \hAA
    BY DEF Code, PrintScreen
  <1> HIDE DEF codes
  <1>2. ASSUME NEW a, NEW b, a.pc = s.pc, GoesOn(a, b, "E0")
        PROVE  Takes(a, b, codes[1], said)
    BY <1>1, <1>2, TakesAtIdle
  <1>3. ASSUME NEW a, NEW b, a.pc = "E0", GoesOn(a, b, "break_E0")
        PROVE  Takes(a, b, codes[2], said)
    BY <1>1, <1>3, TakesAfterE0
  <1>4. ASSUME NEW a, NEW b, a.pc = "break_E0", GoesOn(a, b, "break_AA")
        PROVE  Takes(a, b, codes[3], said)
    BY <1>1, <1>4, PauseIs DEF Takes
  <1>5. ASSUME NEW a, NEW b, a.pc = "break_AA", GoesOn(a, b, s.pc)
        PROVE  Takes(a, b, codes[4], said)
    BY <1>1, <1>5, PauseIs DEF Takes
  <1>6. LeadFromTo(codes, s, s, said)
    BY <1>1, <1>2, <1>3, <1>4, <1>5, FourCodes, ReadingPlaces
  <1> QED
    BY <1>1, <1>6 DEF codes

\* What the codes of a key lead to.
AfterPress(k, s) ==
    [pc |-> "idle", modifiers |-> s.modifiers \cup ({k.name} \cap Modifier),
     locks |-> LocksPressed(k, s), seen |-> IF k.silent THEN s.seen ELSE s.seen + 1]

AfterRelease(k, s) ==
    [pc |-> "idle", modifiers |-> s.modifiers \ ({k.name} \cap Modifier),
     locks |-> s.locks, seen |-> s.seen]

\* A key that is not given to the terminal changes nothing.
LEMMA SilentKeys ==
    ASSUME NEW k \in Keys, k.silent = TRUE, NEW s \in Reader, s.pc = "idle"
    PROVE  AfterPress(k, s) = s /\ AfterRelease(k, s) = s
  <1>1. k.name \notin Modifier /\ k.name \notin Lock
    BY KeysAssumption
  <1>2. /\ s.modifiers \cup ({k.name} \cap Modifier) = s.modifiers
        /\ s.modifiers \ ({k.name} \cap Modifier) = s.modifiers
        /\ LocksPressed(k, s) = s.locks
    BY <1>1 DEF LocksPressed
  <1> QED
    BY <1>2 DEF AfterPress, AfterRelease, Reader

\* Whatever the key: its codes lead to where its stroke leaves the reader.
LEMMA PressLeads ==
    ASSUME NEW k \in Keys, NEW s \in Reader, s.pc = "idle", NEW said,
           k.silent = FALSE => said[s.seen] = MeantAt(k, s)
    PROVE  /\ k.make \in Seq(Code) /\ AfterPress(k, s) \in Reader
           /\ LeadFromTo(k.make, s, AfterPress(k, s), said)
  <1>1. s.seen \in Nat /\ s.seen <= s.seen + 1
    BY DEF Reader
  <1> DEFINE t == [pc |-> "idle", modifiers |-> s.modifiers \cup ({k.name} \cap Modifier),
                   locks |-> LocksPressed(k, s), seen |-> s.seen + 1]
             m == [pc |-> "E0", modifiers |-> s.modifiers, locks |-> s.locks, seen |-> s.seen]
  <1>2. t.seen = s.seen + 1 /\ m.seen = s.seen
    OBVIOUS
  <1>3. CASE k.silent = TRUE
    BY <1>3, SilentKeys, KeysAssumption, PauseLeads, PrintScreenMakes
  <1>4. CASE k.silent = FALSE /\ OfOneCode(k)
    <2>1. AfterPress(k, s) = t
      BY <1>4 DEF AfterPress
    <2>2. k.make \in Seq(Code) /\ Len(k.make) = 1 /\ t \in Reader /\ Takes(s, t, k.make[1], said)
      BY <1>4, OneCodeMakes
    <2> HIDE DEF t
    <2> QED
      BY <2>1, <2>2, <1>2, <1>1, OneCode
  <1>5. CASE k.silent = FALSE /\ AfterE0(k)
    <2>1. AfterPress(k, s) = t
      BY <1>5 DEF AfterPress
    <2>2. /\ k.make \in Seq(Code) /\ Len(k.make) = 2 /\ m \in Reader /\ t \in Reader
          /\ Takes(s, m, k.make[1], said) /\ Takes(m, t, k.make[2], said)
      BY <1>5, E0Makes
    <2> HIDE DEF t, m
    <2> QED
      BY <2>1, <2>2, <1>2, <1>1, TwoCodes
  <1> QED
    BY <1>3, <1>4, <1>5, KeysAssumption

LEMMA ReleaseLeads ==
    ASSUME NEW k \in Keys, NEW s \in Reader, s.pc = "idle", NEW said
    PROVE  /\ k.break \in Seq(Code) /\ AfterRelease(k, s) \in Reader
           /\ LeadFromTo(k.break, s, AfterRelease(k, s), said)
  <1>1. s.seen \in Nat /\ s.seen <= s.seen
    BY DEF Reader
  <1> DEFINE t == AfterRelease(k, s)
             m == [pc |-> "E0", modifiers |-> s.modifiers, locks |-> s.locks, seen |-> s.seen]
  <1>2. t.seen = s.seen /\ m.seen = s.seen
    BY DEF AfterRelease
  <1>3. CASE k.silent = TRUE
    <2>1. t = s
      BY <1>3, SilentKeys
    <2>2. CASE PrintScreen(k)
      BY <2>1, <2>2, PrintScreenBreaks
    <2>3. CASE PauseBreak(k)
      <3>1. k.break = <<>> /\ <<>> \in Seq(Code)
        BY <2>3 DEF PauseBreak
      <3> QED
        BY <3>1, <2>1, NoCodes
    <2> QED
      BY <1>3, <2>2, <2>3, KeysAssumption
  <1>4. CASE k.silent = FALSE /\ OfOneCode(k)
    <2>2. /\ k.break \in Seq(Code) /\ Len(k.break) = 1 /\ t \in Reader
          /\ Takes(s, t, k.break[1], said)
      BY <1>4, OneCodeBreaks DEF AfterRelease
    <2> HIDE DEF t
    <2> QED
      BY <2>2, <1>2, <1>1, OneCode DEF t
  <1>5. CASE k.silent = FALSE /\ AfterE0(k)
    <2>2. /\ k.break \in Seq(Code) /\ Len(k.break) = 2 /\ m \in Reader /\ t \in Reader
          /\ Takes(s, m, k.break[1], said) /\ Takes(m, t, k.break[2], said)
      BY <1>5, E0Breaks DEF AfterRelease
    <2> HIDE DEF t, m
    <2> QED
      BY <2>2, <1>2, <1>1, TwoCodes DEF t
  <1> QED
    BY <1>3, <1>4, <1>5, KeysAssumption

-----------------------------------------------------------------------------
(* More codes, and more keys that were meant.                               *)

\* A key nobody looked at does not matter.
LEMMA SameTakes ==
    ASSUME NEW s, NEW t, NEW code, NEW said, NEW said2, Takes(s, t, code, said),
           t.seen = s.seen + 1 => said2[s.seen] = said[s.seen]
    PROVE  Takes(s, t, code, said2)
  <1>1. \A c, prefix : Makes(s, t, c, prefix, said) => Makes(s, t, c, prefix, said2)
    BY DEF Makes
  <1> QED
    BY <1>1 DEF Takes

\* What a key means that is pressed now nobody looked at before.
LEMMA OneSaidMore ==
    ASSUME NEW code, NEW reader \in [Nat -> Reader], NEW said \in [Nat -> Meaning],
           NEW first \in Nat, NEW end \in Nat, NEW meant \in Meaning,
           Leads(code, reader, said, first, end)
    PROVE  Leads(code, reader, [said EXCEPT ![reader[end].seen] = meant], first, end)
  <1> DEFINE said2 == [said EXCEPT ![reader[end].seen] = meant]
  <1>1. ASSUME NEW j \in first..end - 1 PROVE Takes(reader[j], reader[j + 1], code[j], said2)
    <2>1. /\ j \in Nat /\ j + 1 \in Nat /\ j + 1 \in first..end
          /\ reader[j] \in Reader /\ reader[j + 1] \in Reader /\ reader[end] \in Reader
      OBVIOUS
    <2>2. reader[j].seen \in Nat /\ reader[j + 1].seen \in Nat /\ reader[end].seen \in Nat
      BY <2>1 DEF Reader
    <2>3. Takes(reader[j], reader[j + 1], code[j], said)
      BY DEF Leads
    <2>4. reader[j + 1].seen <= reader[end].seen
      BY <2>1 DEF Leads
    <2>5. reader[j + 1].seen = reader[j].seen + 1 => said2[reader[j].seen] = said[reader[j].seen]
      BY <2>2, <2>4
    <2> QED
      BY <2>3, <2>5, SameTakes
  <1> QED
    BY <1>1 DEF Leads

\* The codes from `first` to `end` can be followed by others, which lead to t.
LeadOn(code, reader, said, first, end, codes, t) ==
    \E code2 \in [Nat -> Code], reader2 \in [Nat -> Reader] :
        /\ Leads(code2, reader2, said, first, end + Len(codes))
        /\ \A j \in first..end - 1 : code2[j] = code[j]
        /\ \A j \in 1..Len(codes) : code2[end + j - 1] = codes[j]
        /\ reader2[first] = reader[first] /\ reader2[end + Len(codes)] = t

LEMMA LeadsOn ==
    ASSUME NEW code \in [Nat -> Code], NEW reader \in [Nat -> Reader], NEW said,
           NEW first \in Nat, NEW end \in Nat, first <= end,
           Leads(code, reader, said, first, end),
           NEW codes \in Seq(Code), NEW t \in Reader,
           LeadFromTo(codes, reader[end], t, said)
    PROVE  LeadOn(code, reader, said, first, end, codes, t)
  <1>1. PICK run \in Seq(Reader) :
           Leading(run, codes, said) /\ run[1] = reader[end] /\ run[Len(run)] = t
    BY DEF LeadFromTo
  <1> DEFINE n == Len(codes)
             code2   == [j \in Nat |-> IF j \in end..end + n - 1 THEN codes[j - end + 1] ELSE code[j]]
             reader2 == [j \in Nat |-> IF j \in end..end + n THEN run[j - end + 1] ELSE reader[j]]
  <1>2. n \in Nat /\ Len(run) = n + 1
    BY <1>1 DEF Leading
  <1>3. /\ \A j \in end..end + n - 1 : j - end + 1 \in 1..n
        /\ \A j \in end..end + n : j - end + 1 \in 1..n + 1
    BY <1>2
  <1>4. code2 \in [Nat -> Code] /\ reader2 \in [Nat -> Reader]
    BY <1>2, <1>3
  <1>5. /\ \A j \in first..end - 1 : code2[j] = code[j]
        /\ \A j \in end..end + n - 1 : code2[j] = codes[j - end + 1]
        /\ \A j \in first..end : reader2[j] = reader[j]
        /\ \A j \in end..end + n : reader2[j] = run[j - end + 1]
    BY <1>1, <1>2
  <1> HIDE DEF n, code2, reader2
  <1>6. reader2[end + n] = t
    <2>1. end + n \in end..end + n /\ (end + n) - end + 1 = n + 1
      BY <1>2
    <2>2. reader2[end + n] = run[(end + n) - end + 1]
      BY <2>1, <1>5
    <2> QED
      BY <2>1, <2>2, <1>1, <1>2
  <1>7. ASSUME NEW j \in first..end + n - 1
        PROVE  Takes(reader2[j], reader2[j + 1], code2[j], said)
    <2>1. CASE j \in first..end - 1
      <3>1. Takes(reader[j], reader[j + 1], code[j], said)
        BY <2>1 DEF Leads
      <3>2. j + 1 \in first..end /\ j \in first..end
        BY <2>1
      <3> QED
        BY <3>1, <3>2, <2>1, <1>5
    <2>2. CASE j \in end..end + n - 1
      <3> DEFINE i == j - end + 1
      <3>1. i \in 1..n /\ j + 1 \in end..end + n /\ j + 1 - end + 1 = i + 1 /\ j \in end..end + n
        BY <2>2, <1>2
      <3>2. reader2[j] = run[i] /\ reader2[j + 1] = run[i + 1] /\ code2[j] = codes[i]
        BY <3>1, <2>2, <1>5
      <3> HIDE DEF i
      <3>3. Takes(run[i], run[i + 1], codes[i], said)
        BY <3>1, <1>1 DEF Leading, n
      <3> QED
        BY <3>2, <3>3
    <2> QED
      BY <2>1, <2>2, <1>2
  <1>8. ASSUME NEW j \in first..end + n PROVE reader2[j].seen <= reader2[end + n].seen
    <2>1. /\ reader[end].seen \in Nat /\ t.seen \in Nat
          /\ reader[end].seen <= t.seen
      <3>1. run[1].seen <= t.seen
        BY <1>1, <1>2 DEF Leading
      <3> QED
        BY <3>1, <1>1 DEF Reader
    <2>2. CASE j \in first..end - 1
      <3>1. reader2[j] = reader[j] /\ reader[j].seen <= reader[end].seen /\ reader[j] \in Reader
        BY <2>2, <1>5 DEF Leads
      <3>2. reader[j].seen \in Nat
        BY <3>1 DEF Reader
      <3> QED
        BY <3>1, <3>2, <2>1, <1>6
    <2>3. CASE j \in end..end + n
      <3> DEFINE i == j - end + 1
      <3>1. i \in 1..n + 1 /\ reader2[j] = run[i]
        BY <2>3, <1>2, <1>5
      <3> HIDE DEF i
      <3>2. run[i].seen <= t.seen
        BY <3>1, <1>1, <1>2 DEF Leading
      <3> QED
        BY <3>1, <3>2, <1>6
    <2> QED
      BY <2>2, <2>3, <1>2
  <1>9. Leads(code2, reader2, said, first, end + n)
    <2>1. \A j \in first..(end + n) - 1 : Takes(reader2[j], reader2[j + 1], code2[j], said)
      BY <1>2, <1>7
    <2>2. \A j \in first..end + n : reader2[j].seen <= reader2[end + n].seen
      BY <1>8
    <2> QED
      BY <2>1, <2>2 DEF Leads
  <1>10. ASSUME NEW j \in 1..n PROVE code2[end + j - 1] = codes[j]
    <2>1. end + j - 1 \in end..end + n - 1 /\ (end + j - 1) - end + 1 = j
      BY <1>2
    <2>2. code2[end + j - 1] = codes[(end + j - 1) - end + 1]
      BY <2>1, <1>5
    <2> QED
      BY <2>1, <2>2
  <1>11. reader2[first] = reader[first]
    BY <1>5
  <1> QED
    BY <1>4, <1>5, <1>6, <1>9, <1>10, <1>11 DEF n, LeadOn

-----------------------------------------------------------------------------
(* The ring.                                                                *)

\* A cell of the ring, without a remainder.
LEMMA RoundOnce ==
    ASSUME NEW n \in Nat, NEW x \in Nat, x < n + n
    PROVE  x % n = (IF x < n THEN x ELSE x - n) /\ x % n \in 0..n - 1
  <1>1. x < n => x % n = x
    OBVIOUS
  <1>2. n <= x => x % n = x - n
    OBVIOUS
  <1> QED
    BY <1>1, <1>2

LEMMA RingCell ==
    ASSUME NEW tail \in Ring, NEW j \in 0..KEYBOARD_IN_BUFFERSIZE
    PROVE  /\ (tail + j) % KEYBOARD_IN_BUFFERSIZE
                 = IF tail + j < KEYBOARD_IN_BUFFERSIZE THEN tail + j
                   ELSE (tail + j) - KEYBOARD_IN_BUFFERSIZE
           /\ (tail + j) % KEYBOARD_IN_BUFFERSIZE \in Ring
  <1>1. KEYBOARD_IN_BUFFERSIZE \in Nat /\ tail \in 0..KEYBOARD_IN_BUFFERSIZE - 1
    BY KeyboardAssumption DEF Ring
  <1>2. tail + j \in Nat /\ tail + j < KEYBOARD_IN_BUFFERSIZE + KEYBOARD_IN_BUFFERSIZE
    BY <1>1
  <1> QED
    BY <1>1, <1>2, RoundOnce DEF Ring

Rings == [buffer : [Ring -> Code], head : Ring, tail : Ring,
          count : 0..KEYBOARD_IN_BUFFERSIZE]

Formed(ring) == ring.head = (ring.tail + ring.count) % KEYBOARD_IN_BUFFERSIZE

\* A code that is put into the ring is behind those that are there.
LEMMA PutIn ==
    ASSUME NEW ring \in Rings, Formed(ring), NEW code \in Code
    PROVE  LET more == With(ring, code) IN
           /\ more \in Rings /\ Formed(more)
           /\ ~Full(ring) =>
                /\ more.tail = ring.tail /\ more.count = ring.count + 1
                /\ \A j \in 0..ring.count : more.buffer[(ring.tail + j) % KEYBOARD_IN_BUFFERSIZE] =
                      IF j = ring.count THEN code
                      ELSE ring.buffer[(ring.tail + j) % KEYBOARD_IN_BUFFERSIZE]
  <1> DEFINE n == KEYBOARD_IN_BUFFERSIZE
             more == With(ring, code)
  <1>1. n \in Nat /\ n > 0
    BY KeyboardAssumption
  <1>2. CASE Full(ring)
    BY <1>2 DEF With
  <1>3. CASE ~Full(ring)
    <2>1. /\ ring.head \in Ring /\ ring.tail \in Ring /\ ring.count \in 0..n - 1
          /\ ring.buffer \in [Ring -> Code] /\ ring.head = (ring.tail + ring.count) % n
      BY <1>1, <1>3 DEF Rings, Full, Formed
    <2>2. more = [buffer |-> [ring.buffer EXCEPT ![ring.head] = code], head |-> Next1(ring.head),
                  tail |-> ring.tail, count |-> ring.count + 1]
      BY <1>3 DEF With
    <2> HIDE DEF more
    <2>3. Next1(ring.head) = (ring.tail + (ring.count + 1)) % n /\ Next1(ring.head) \in Ring
      <3>1. 1 \in 0..n /\ ring.count \in 0..n /\ ring.count + 1 \in 0..n
        BY <1>1, <2>1
      <3>2. Next1(ring.head) = IF ring.head + 1 < n THEN ring.head + 1 ELSE (ring.head + 1) - n
        BY <3>1, <2>1, RingCell DEF Next1
      <3>3. ring.head = IF ring.tail + ring.count < n THEN ring.tail + ring.count
                        ELSE (ring.tail + ring.count) - n
        BY <3>1, <2>1, RingCell
      <3>4. (ring.tail + (ring.count + 1)) % n =
               IF ring.tail + (ring.count + 1) < n THEN ring.tail + (ring.count + 1)
               ELSE (ring.tail + (ring.count + 1)) - n
        BY <3>1, <2>1, RingCell
      <3>5. (ring.tail + (ring.count + 1)) % n \in Ring
        BY <3>1, <2>1, RingCell
      <3>6. ring.head \in 0..n - 1 /\ ring.tail \in 0..n - 1
        BY <2>1 DEF Ring
      <3>7. Next1(ring.head) = (ring.tail + (ring.count + 1)) % n
        BY <3>2, <3>3, <3>4, <3>6, <2>1, <1>1
      <3> QED
        BY <3>5, <3>7
    <2>4. more \in Rings /\ Formed(more)
      BY <2>1, <2>2, <2>3, <1>1 DEF Rings, Formed
    <2>5. ASSUME NEW j \in 0..ring.count
          PROVE  more.buffer[(ring.tail + j) % n] =
                    IF j = ring.count THEN code ELSE ring.buffer[(ring.tail + j) % n]
      <3> DEFINE cell == (ring.tail + j) % n
      <3>1. /\ cell = IF ring.tail + j < n THEN ring.tail + j ELSE (ring.tail + j) - n
            /\ cell \in Ring
        BY <2>1, <1>1, RingCell
      <3>2. ring.head = IF ring.tail + ring.count < n THEN ring.tail + ring.count
                        ELSE (ring.tail + ring.count) - n
        BY <2>1, <1>1, RingCell
      <3>3. ring.tail \in 0..n - 1
        BY <2>1 DEF Ring
      <3> HIDE DEF cell
      <3>4. cell = ring.head <=> j = ring.count
        <4> DEFINE a == ring.tail
                   d == ring.count
                   h == ring.head
        <4>1. /\ cell = (IF a + j < n THEN a + j ELSE (a + j) - n)
              /\ h = (IF a + d < n THEN a + d ELSE (a + d) - n)
          BY <3>1, <3>2
        <4>2. a \in 0..n - 1 /\ d \in 0..n - 1 /\ j \in 0..d
          BY <3>3, <2>1
        <4> HIDE DEF a, d, h
        <4>3. cell = h <=> j = d
          BY <4>1, <4>2, <1>1
        <4> QED
          BY <4>3 DEF d, h
      <3>5. more.buffer = [ring.buffer EXCEPT ![ring.head] = code]
        BY <2>2
      <3>6. more.buffer[cell] = IF cell = ring.head THEN code ELSE ring.buffer[cell]
        BY <3>1, <3>5, <2>1
      <3> QED
        BY <3>4, <3>6 DEF cell
    <2> QED
      BY <2>2, <2>4, <2>5 DEF more
  <1> QED
    BY <1>2, <1>3

\* When the first code is taken out, the next one is the first.
LEMMA TakenOut ==
    ASSUME NEW ring \in Rings, Formed(ring), ring.count > 0
    PROVE  LET less == Without(ring) IN
           /\ less \in Rings /\ Formed(less) /\ less.count = ring.count - 1
           /\ ring.buffer[ring.tail] = ring.buffer[(ring.tail + 0) % KEYBOARD_IN_BUFFERSIZE]
           /\ ring.buffer[ring.tail] \in Code
           /\ \A j \in 0..ring.count - 2 :
                 less.buffer[(less.tail + j) % KEYBOARD_IN_BUFFERSIZE] =
                    ring.buffer[(ring.tail + (j + 1)) % KEYBOARD_IN_BUFFERSIZE]
  <1> DEFINE n == KEYBOARD_IN_BUFFERSIZE
             less == Without(ring)
  <1>1. n \in Nat /\ n > 0
    BY KeyboardAssumption
  <1>2. /\ ring.head \in Ring /\ ring.tail \in Ring /\ ring.count \in 1..n
        /\ ring.buffer \in [Ring -> Code] /\ ring.head = (ring.tail + ring.count) % n
    BY <1>1 DEF Rings, Formed
  <1>3. ring.tail \in 0..n - 1 /\ 0 \in Code
    BY <1>2 DEF Ring, Code
  <1>4. less = [buffer |-> [ring.buffer EXCEPT ![ring.tail] = 0], head |-> ring.head,
                tail |-> Next1(ring.tail), count |-> ring.count - 1]
    BY DEF Without
  <1> HIDE DEF less
  <1>5. /\ Next1(ring.tail) = IF ring.tail + 1 < n THEN ring.tail + 1 ELSE (ring.tail + 1) - n
        /\ Next1(ring.tail) \in Ring
    BY <1>1, <1>2, RingCell DEF Next1
  <1>6. ASSUME NEW j \in 0..ring.count - 1
        PROVE  (Next1(ring.tail) + j) % n = (ring.tail + (j + 1)) % n
    <2>1. j \in 0..n /\ j + 1 \in 0..n
      BY <1>2, <1>1
    <2>2. (Next1(ring.tail) + j) % n = IF Next1(ring.tail) + j < n THEN Next1(ring.tail) + j
                                       ELSE (Next1(ring.tail) + j) - n
      BY <2>1, <1>5, RingCell
    <2>3. (ring.tail + (j + 1)) % n = IF ring.tail + (j + 1) < n THEN ring.tail + (j + 1)
                                      ELSE (ring.tail + (j + 1)) - n
      BY <2>1, <1>2, RingCell
    <2> DEFINE a == ring.tail
               b == Next1(ring.tail)
    <2>4. a \in 0..n - 1 /\ b = (IF a + 1 < n THEN a + 1 ELSE (a + 1) - n)
      BY <1>3, <1>5
    <2> HIDE DEF a, b
    <2>5. (IF b + j < n THEN b + j ELSE (b + j) - n)
             = (IF a + (j + 1) < n THEN a + (j + 1) ELSE (a + (j + 1)) - n)
      BY <2>1, <2>4, <1>1
    <2> QED
      BY <2>2, <2>3, <2>5 DEF a, b
  <1>7. ring.head = (Next1(ring.tail) + (ring.count - 1)) % n
    <2>1. ring.count - 1 \in 0..ring.count - 1 /\ (ring.count - 1) + 1 = ring.count
      BY <1>2, <1>1
    <2> QED
      BY <2>1, <1>2, <1>6
  <1>8. less \in Rings /\ Formed(less) /\ less.count = ring.count - 1
    BY <1>1, <1>2, <1>3, <1>4, <1>5, <1>7 DEF Rings, Formed
  <1>9. ASSUME NEW j \in 0..ring.count - 2
        PROVE  less.buffer[(less.tail + j) % n] = ring.buffer[(ring.tail + (j + 1)) % n]
    <2> DEFINE cell == (ring.tail + (j + 1)) % n
    <2>1. less.tail = Next1(ring.tail) /\ less.buffer = [ring.buffer EXCEPT ![ring.tail] = 0]
      BY <1>4
    <2>2. (less.tail + j) % n = cell
      BY <2>1, <1>2, <1>6
    <2>3. /\ cell = IF ring.tail + (j + 1) < n THEN ring.tail + (j + 1) ELSE (ring.tail + (j + 1)) - n
          /\ cell \in Ring
      <3>1. j + 1 \in 0..n
        BY <1>1, <1>2
      <3> QED
        BY <3>1, <1>2, RingCell
    <2> HIDE DEF cell
    <2>4. cell # ring.tail
      BY <2>3, <1>1, <1>2, <1>3
    <2> QED
      BY <2>1, <2>2, <2>3, <2>4, <1>2 DEF cell
  <1>10. (ring.tail + 0) % n = ring.tail
    BY <1>1, <1>2, <1>3, RingCell
  <1> QED
    BY <1>2, <1>8, <1>9, <1>10 DEF less

-----------------------------------------------------------------------------
(* What a step of keyboard_read does to the variables.                      *)

\* Decodes in the reader's words.
Gives(s, key, code) ==
    /\ modifiers' = ModifiersAfter(s, key, code)
    /\ locks' = LocksAfter(s, key, code)
    /\ pc' \in {"idle", "LED"}
    /\ Make(code) =>
          /\ correct' = (correct /\ expected # <<>>
                            /\ Head(expected) = InputAt(s, key, modifiers'))
          /\ expected' = IF expected = <<>> THEN <<>> ELSE Tail(expected)
    /\ ~Make(code) => UNCHANGED <<expected, correct>>

\* The keys of the driver's variables are those of a reader that has the same.
LEMMA KeyIs ==
    ASSUME NEW s, s.modifiers = modifiers, s.locks = locks, NEW code
    PROVE  /\ KeyOf(code, FALSE) = KeyAt(s, code, "none")
           /\ KeyOf(code, TRUE) = KeyAt(s, code, "E0")
  <1> DEFINE row == Row(code)
  <1>1. caps(row) <=> capsAt(s, row)
    BY DEF caps, capsAt
  <1> HIDE DEF row
  <1>3. /\ caps(row) => KeyOf(code, FALSE) = row[2]
        /\ ~caps(row) => KeyOf(code, FALSE) = row[1]
    BY Zenon DEF KeyOf, row
  <1>4. KeyAt(s, code, "none") = row[IF capsAt(s, row) THEN 2 ELSE 1]
    BY DEF KeyAt, row
  <1>5. KeyOf(code, TRUE) = row[3]
    BY Zenon DEF KeyOf, row
  <1>6. KeyAt(s, code, "E0") = row[3]
    BY DEF KeyAt, row
  <1>7. /\ capsAt(s, row) => KeyAt(s, code, "none") = row[2]
        /\ ~capsAt(s, row) => KeyAt(s, code, "none") = row[1]
    BY <1>4, Zenon
  <1>8. KeyOf(code, FALSE) = KeyAt(s, code, "none")
    BY <1>1, <1>3, <1>7, Zenon
  <1>9. KeyOf(code, TRUE) = KeyAt(s, code, "E0")
    BY <1>5, <1>6, Zenon
  <1> QED
    BY <1>8, <1>9, Zenon

\* What the terminal gets, in the reader's words.
LEMMA InputIs ==
    ASSUME NEW s, s.locks = locks, NEW key, NEW held
    PROVE  Input(key, held) = InputAt(s, key, held)
  <1> DEFINE given == CASE key \notin DOMAIN numpad -> key
                        [] key \in DOMAIN numpad /\ "NUMLOCK" \in locks    -> numpad[key][1]
                        [] key \in DOMAIN numpad /\ "NUMLOCK" \notin locks -> numpad[key][2]
             same  == IF key \notin DOMAIN numpad THEN key
                      ELSE IF "NUMLOCK" \in s.locks THEN numpad[key][1] ELSE numpad[key][2]
  <1>1. given = same
    <2>1. CASE key \notin DOMAIN numpad
      BY <2>1, Zenon
    <2>2. CASE key \in DOMAIN numpad /\ "NUMLOCK" \in locks
      BY <2>2, Zenon
    <2>3. CASE key \in DOMAIN numpad /\ "NUMLOCK" \notin locks
      BY <2>3, Zenon
    <2> QED
      BY <2>1, <2>2, <2>3
  <1>2. Input(key, held) = [key |-> given, with |-> held, pad |-> key \in DOMAIN numpad]
    BY Zenon DEF Input
  <1>3. InputAt(s, key, held) = [key |-> same, with |-> held, pad |-> key \in DOMAIN numpad]
    BY Zenon DEF InputAt
  <1> HIDE DEF given, same
  <1> QED
    BY <1>1, <1>2, <1>3, Zenon

\* What a code that is decoded does, in the reader's words.
LEMMA DecodesIs ==
    ASSUME NEW s, s.modifiers = modifiers, s.locks = locks, NEW code \in Code
    PROVE  /\ Decodes(code, FALSE) => Gives(s, KeyAt(s, code, "none"), code)
           /\ Decodes(code, TRUE) => Gives(s, KeyAt(s, code, "E0"), code)
  <1>1. ASSUME NEW key,
               modifiers' = CASE key \in Modifier /\ Make(code)  -> modifiers \cup {key}
                              [] key \in Modifier /\ ~Make(code) -> modifiers \ {key}
                              [] OTHER                           -> modifiers,
               IF Make(code) /\ key \in Lock
               THEN locks' = Toggled(key) /\ pc' = "LED"
               ELSE UNCHANGED locks /\ pc' = "idle",
               IF Make(code)
               THEN /\ correct' = (correct /\ expected # <<>>
                                     /\ Head(expected) = Input(key, modifiers'))
                    /\ expected' = IF expected = <<>> THEN <<>> ELSE Tail(expected)
               ELSE UNCHANGED <<expected, correct>>
        PROVE  Gives(s, key, code)
    <2>1. modifiers' = ModifiersAfter(s, key, code)
      <3>1. CASE key \in Modifier /\ Make(code)
        BY <1>1, <3>1, Zenon DEF ModifiersAfter
      <3>2. CASE key \in Modifier /\ ~Make(code)
        BY <1>1, <3>2, Zenon DEF ModifiersAfter
      <3>3. CASE key \notin Modifier
        BY <1>1, <3>3, Zenon DEF ModifiersAfter
      <3> QED
        BY <3>1, <3>2, <3>3
    <2>2. locks' = LocksAfter(s, key, code)
      BY <1>1, Zenon DEF LocksAfter, Toggled
    <2>3. pc' \in {"idle", "LED"}
      BY <1>1
    <2>4. Input(key, modifiers') = InputAt(s, key, modifiers')
      BY InputIs
    <2>5. Make(code) => /\ correct' = (correct /\ expected # <<>>
                                         /\ Head(expected) = InputAt(s, key, modifiers'))
                        /\ expected' = IF expected = <<>> THEN <<>> ELSE Tail(expected)
      BY <1>1, <2>4, Zenon
    <2>6. ~Make(code) => UNCHANGED <<expected, correct>>
      BY <1>1, Zenon
    <2> QED
      BY <2>1, <2>2, <2>3, <2>5, <2>6, Zenon DEF Gives
  <1>2. Decodes(code, FALSE) => Gives(s, KeyOf(code, FALSE), code)
    BY <1>1, Zenon DEF Decodes
  <1>3. Decodes(code, TRUE) => Gives(s, KeyOf(code, TRUE), code)
    BY <1>1, Zenon DEF Decodes
  <1> QED
    BY <1>2, <1>3, KeyIs, Zenon

\* What was read, in the reader's words.
Received(s, t, said) ==
    /\ pc' = t.pc \/ (pc' = "LED" /\ t.pc = "idle")
    /\ modifiers' = t.modifiers /\ locks' = t.locks
    /\ \/ t.seen = s.seen /\ UNCHANGED <<expected, correct>>
       \/ /\ t.seen = s.seen + 1
          /\ correct' = (correct /\ expected # <<>> /\ Head(expected) = said[s.seen])
          /\ expected' = IF expected = <<>> THEN <<>> ELSE Tail(expected)

ReadsCode ==
    \/ ReadsFirst
    \/ \E i \in DOMAIN Pause : ReadsPause(i)
    \/ ReadsAfterE0
    \/ ReadsPrintScreen

LEMMA MakesIs ==
    ASSUME NEW s, NEW t, NEW code, NEW prefix, NEW said,
           Gives(s, KeyAt(s, code, prefix), code), Makes(s, t, code, prefix, said)
    PROVE  Received(s, t, said)
  <1> DEFINE key == KeyAt(s, code, prefix)
  <1>1. /\ t.pc = "idle" /\ t.modifiers = ModifiersAfter(s, key, code)
        /\ t.locks = LocksAfter(s, key, code)
        /\ Make(code) => t.seen = s.seen + 1 /\ said[s.seen] = InputAt(s, key, t.modifiers)
        /\ ~Make(code) => t.seen = s.seen
    BY DEF Makes
  <1> HIDE DEF key
  <1>2. /\ pc' = t.pc \/ (pc' = "LED" /\ t.pc = "idle")
        /\ modifiers' = t.modifiers /\ locks' = t.locks
    BY <1>1 DEF Gives, key
  <1>3. CASE Make(code)
    <2>1. /\ correct' = (correct /\ expected # <<>>
                            /\ Head(expected) = InputAt(s, key, modifiers'))
          /\ expected' = IF expected = <<>> THEN <<>> ELSE Tail(expected)
      BY <1>3, Zenon DEF Gives, key
    <2>2. InputAt(s, key, modifiers') = said[s.seen] /\ t.seen = s.seen + 1
      BY <1>1, <1>2, <1>3
    <2>3. correct' = (correct /\ expected # <<>> /\ Head(expected) = said[s.seen])
      BY <2>1, <2>2, Zenon
    <2> QED
      BY <1>2, <2>1, <2>2, <2>3, Zenon DEF Received
  <1>4. CASE ~Make(code)
    <2>1. UNCHANGED <<expected, correct>>
      BY <1>4, Zenon DEF Gives
    <2> QED
      BY <1>1, <1>2, <1>4, <2>1, Zenon DEF Received
  <1> QED
    BY <1>3, <1>4

\* The arms of the two CASEs of keyboard_read exclude each other.
LEMMA FirstIs ==
    ASSUME ReadsFirst
    PROVE  /\ pc = "idle"
           /\ Front = \hE1 => ReadsOn(Pause[1])
           /\ Front = \hE0 => ReadsOn("E0")
           /\ Front \notin {\hE0, \hE1} => Decodes(Front, FALSE)
  <1>1. \hE1 # \hE0
    OBVIOUS
  <1> DEFINE e1 == \hE1
             e0 == \hE0
             one == Pause[1]
  <1>2. e1 # e0
    BY <1>1
  <1>3. /\ pc = "idle"
        /\ CASE Front = e1 -> ReadsOn(one)
             [] Front = e0 -> ReadsOn("E0")
             [] OTHER -> Decodes(Front, FALSE)
    BY ZenonT(60) DEF ReadsFirst
  <1> HIDE DEF e1, e0, one
  <1>4. Front = e1 => Front # e0
    BY <1>2
  <1>5. Front = e1 => ReadsOn(one)
    BY <1>3, <1>4, ZenonT(60)
  <1>6. Front = e0 => ReadsOn("E0")
    BY <1>3, <1>4, ZenonT(60)
  <1>7. Front # e1 /\ Front # e0 => Decodes(Front, FALSE)
    BY <1>3, ZenonT(60)
  <1> QED
    BY <1>3, <1>5, <1>6, <1>7, Zenon DEF e1, e0, one

LEMMA AfterE0Is ==
    ASSUME ReadsAfterE0
    PROVE  /\ pc = "E0"
           /\ Front = \h2A => ReadsOn("make_E0")
           /\ Front = \hB7 => ReadsOn("break_E0")
           /\ Front \notin {\h2A, \hB7} => Decodes(Front, TRUE)
  <1>1. \h2A # \hB7
    OBVIOUS
  <1> DEFINE make == \h2A
             break == \hB7
  <1>2. make # break
    BY <1>1
  <1>3. /\ pc = "E0"
        /\ CASE Front = make -> ReadsOn("make_E0")
             [] Front = break -> ReadsOn("break_E0")
             [] OTHER -> Decodes(Front, TRUE)
    BY ZenonT(60) DEF ReadsAfterE0
  <1> HIDE DEF make, break
  <1>4. Front = make => Front # break
    BY <1>2
  <1>5. Front = make => ReadsOn("make_E0")
    BY <1>3, <1>4, ZenonT(60)
  <1>6. Front = break => ReadsOn("break_E0")
    BY <1>3, <1>4, ZenonT(60)
  <1>7. Front # make /\ Front # break => Decodes(Front, TRUE)
    BY <1>3, ZenonT(60)
  <1> QED
    BY <1>3, <1>5, <1>6, <1>7, Zenon DEF make, break

\* A step of keyboard_read is what the relation of readers says.
LEMMA ReadsIs ==
    ASSUME NEW s, NEW t, NEW said, s.pc = pc, s.modifiers = modifiers, s.locks = locks,
           Front \in Code, Takes(s, t, Front, said), ReadsCode
    PROVE  Received(s, t, said)
  <1>1. ASSUME NEW next, ReadsOn(next), GoesOn(s, t, next)
        PROVE  Received(s, t, said)
    BY <1>1, Zenon DEF ReadsOn, GoesOn, Received
  <1>2. ASSUME NEW code \in Code, Decodes(code, FALSE), Makes(s, t, code, "none", said)
        PROVE  Received(s, t, said)
    BY <1>2, DecodesIs, MakesIs, Zenon
  <1>3. ASSUME NEW code \in Code, Decodes(code, TRUE), Makes(s, t, code, "E0", said)
        PROVE  Received(s, t, said)
    BY <1>3, DecodesIs, MakesIs, Zenon
  <1>4. \hE1 \in Code /\ \h2A \in Code /\ \hB7 \in Code
    BY DEF Code
  <1>5. CASE ReadsFirst
    <2>1. s.pc = "idle"
      BY <1>5, FirstIs
    <2>2. /\ Front = \hE1 => GoesOn(s, t, Pause[1])
          /\ Front = \hE0 => GoesOn(s, t, "E0")
          /\ Front \notin {\hE0, \hE1} => Makes(s, t, Front, "none", said)
      BY <2>1, TakesAtIdle
    <2>3. CASE Front = \hE1
      <3>1. ReadsOn(Pause[1])
        BY <1>5, <2>3, FirstIs, Zenon
      <3> QED
        BY <1>1, <2>2, <2>3, <3>1, Zenon
    <2>4. CASE Front = \hE0
      <3>1. ReadsOn("E0")
        BY <1>5, <2>4, FirstIs, Zenon
      <3> QED
        BY <1>1, <2>2, <2>4, <3>1, Zenon
    <2>5. CASE Front \notin {\hE0, \hE1}
      <3>1. Decodes(Front, FALSE)
        BY <1>5, <2>5, FirstIs, Zenon
      <3> QED
        BY <1>2, <2>2, <2>5, <3>1, Zenon
    <2> QED
      BY <2>3, <2>4, <2>5
  <1>6. ASSUME NEW i \in DOMAIN Pause, ReadsPause(i)
        PROVE  Received(s, t, said)
    <2>1. s.pc = Pause[i]
      BY <1>6, Zenon DEF ReadsPause
    <2>2. IF Front = pausebrk_scode[i]
          THEN GoesOn(s, t, IF i = 5 THEN "idle" ELSE Pause[i + 1])
          ELSE Makes(s, t, \hE1, "none", said)
      BY <2>1, Zenon DEF Takes
    <2>3. CASE Front = pausebrk_scode[i]
      BY <1>1, <1>6, <2>2, <2>3, Zenon DEF ReadsPause
    <2>4. CASE Front # pausebrk_scode[i]
      <3>1. Decodes(\hE1, FALSE)
        BY <1>6, <2>4, Zenon DEF ReadsPause
      <3> QED
        BY <1>2, <1>4, <2>2, <2>4, <3>1, Zenon
    <2> QED
      BY <2>3, <2>4
  <1>7. CASE ReadsAfterE0
    <2>1. s.pc = "E0"
      BY <1>7, AfterE0Is
    <2>2. /\ Front = \h2A => GoesOn(s, t, "make_E0")
          /\ Front = \hB7 => GoesOn(s, t, "break_E0")
          /\ Front \notin {\h2A, \hB7} => Makes(s, t, Front, "E0", said)
      BY <2>1, TakesAfterE0
    <2>3. CASE Front = \h2A
      <3>1. ReadsOn("make_E0")
        BY <1>7, <2>3, AfterE0Is, Zenon
      <3> QED
        BY <1>1, <2>2, <2>3, <3>1, Zenon
    <2>4. CASE Front = \hB7
      <3>1. ReadsOn("break_E0")
        BY <1>7, <2>4, AfterE0Is, Zenon
      <3> QED
        BY <1>1, <2>2, <2>4, <3>1, Zenon
    <2>5. CASE Front \notin {\h2A, \hB7}
      <3>1. Decodes(Front, TRUE)
        BY <1>7, <2>5, AfterE0Is, Zenon
      <3> QED
        BY <1>3, <2>2, <2>5, <3>1, Zenon
    <2> QED
      BY <2>3, <2>4, <2>5
  <1>8. CASE ReadsPrintScreen
    <2>1. CASE pc = "make_E0" /\ IF Front = \hE0 THEN ReadsOn("make_37") ELSE Decodes(\h2A, TRUE)
      <3>1. IF Front = \hE0 THEN GoesOn(s, t, "make_37") ELSE Makes(s, t, \h2A, "E0", said)
        BY <2>1, Zenon DEF Takes
      <3> QED
        BY <1>1, <1>3, <1>4, <2>1, <3>1, Zenon
    <2>2. CASE pc = "make_37" /\ IF Front = \h37 THEN ReadsOn("idle") ELSE Decodes(\h2A, TRUE)
      <3>1. IF Front = \h37 THEN GoesOn(s, t, "idle") ELSE Makes(s, t, \h2A, "E0", said)
        BY <2>2, Zenon DEF Takes
      <3> QED
        BY <1>1, <1>3, <1>4, <2>2, <3>1, Zenon
    <2>3. CASE pc = "break_E0" /\ IF Front = \hE0 THEN ReadsOn("break_AA") ELSE Decodes(\hB7, TRUE)
      <3>1. IF Front = \hE0 THEN GoesOn(s, t, "break_AA") ELSE Makes(s, t, \hB7, "E0", said)
        BY <2>3, Zenon DEF Takes
      <3> QED
        BY <1>1, <1>3, <1>4, <2>3, <3>1, Zenon
    <2>4. CASE pc = "break_AA" /\ IF Front = \hAA THEN ReadsOn("idle") ELSE Decodes(\hB7, TRUE)
      <3>1. IF Front = \hAA THEN GoesOn(s, t, "idle") ELSE Makes(s, t, \hB7, "E0", said)
        BY <2>4, Zenon DEF Takes
      <3> QED
        BY <1>1, <1>3, <1>4, <2>4, <3>1, Zenon
    <2> QED
      BY <1>8, <2>1, <2>2, <2>3, <2>4, Zenon DEF ReadsPrintScreen
  <1> QED
    BY <1>5, <1>6, <1>7, <1>8, Zenon DEF ReadsCode

-----------------------------------------------------------------------------
(* What the variables are.                                                  *)

RingIsFormed == keyboard_in \in Rings /\ Formed(keyboard_in)

ReaderTypes ==
    /\ modifiers \subseteq Modifier /\ locks \subseteq Lock
    /\ pc \in Reading \cup {"LED", "leds"}
    /\ expected \in Seq(Meaning) /\ correct \in BOOLEAN

DeviceTypes == out \in Seq(Code) /\ down \subseteq Keys /\ on \subseteq Lock

PortTypes == owed \in Nat /\ acked \in BOOLEAN

\* The types of the ring, of the reader, of the device and of its port, one by one.
LEMMA KTypesAre ==
    KTypes <=> RingIsFormed /\ ReaderTypes /\ DeviceTypes /\ PortTypes /\ dropped \in BOOLEAN
  BY DEF KTypes, TypeOK, RingIsFormed, Rings, Formed, ReaderTypes, DeviceTypes, PortTypes,
       Reading

LEMMA KeyCodes ==
    ASSUME NEW k \in Keys
    PROVE  k.make \in Seq(Code) /\ k.break \in Seq(Code)
  <1> DEFINE s == [pc |-> "idle", modifiers |-> {}, locks |-> {}, seen |-> 0]
             said == [i \in {0} |-> MeantAt(k, s)]
  <1>1. s \in Reader /\ s.pc = "idle" /\ s.seen = 0
    BY ReaderIs, ReadingPlaces
  <1>2. said[s.seen] = MeantAt(k, s)
    BY <1>1
  <1> HIDE DEF s, said
  <1> QED
    BY <1>1, <1>2, PressLeads, ReleaseLeads

\* What a key means is of the keys; a modifier is of one key.
LEMMA KeysAre ==
    /\ \A k \in Keys : k.silent \in BOOLEAN
    /\ \A k \in Keys : ~k.silent => k.pad \in BOOLEAN
    /\ \A k \in Keys : k.break = <<>> => k.name \notin Modifier
    /\ \A k, l \in Keys : k.name = l.name /\ k.name \in Modifier => k = l
  <1>1. ASSUME NEW k \in Keys
        PROVE  /\ k.silent \in BOOLEAN /\ (~k.silent => k.pad \in BOOLEAN)
               /\ k.break = <<>> => k.name \notin Modifier
    <2>1. CASE k.silent = TRUE
      BY <2>1, KeysAssumption
    <2>2. CASE k.silent = FALSE /\ OfOneCode(k)
      <3>1. PICK code : k.break = <<code + 128>> /\ (k.pad = TRUE \/ k.pad = FALSE)
        BY <2>2, Zenon DEF OfOneCode
      <3>2. Len(k.break) = 1 /\ Len(<<>>) = 0
        BY <3>1
      <3>3. k.break # <<>>
        BY <3>2
      <3> QED
        BY <2>2, <3>1, <3>3, Zenon
    <2>3. CASE k.silent = FALSE /\ AfterE0(k)
      <3>1. PICK code : k.break = <<\hE0, code + 128>> /\ k.pad = FALSE
        BY <2>3, Zenon DEF AfterE0
      <3>2. Len(k.break) = 2 /\ Len(<<>>) = 0
        BY <3>1
      <3>3. k.break # <<>>
        BY <3>2
      <3> QED
        BY <2>3, <3>1, <3>3, Zenon
    <2> QED
      BY <2>1, <2>2, <2>3, KeysAssumption
  <1> QED
    BY <1>1, KeysAssumption

\* What a stroke means is what a reader gets that has what the device has.
LEMMA MeantIs ==
    ASSUME NEW k \in Keys, ~k.silent, NEW s, s.modifiers = Held, s.locks = on
    PROVE  Meant(k) = MeantAt(k, s) /\ Meant(k) \in Meaning
  <1> DEFINE shifted == capsAt(s, <<k.alone>>)
             meant   == IF shifted \/ (k.pad /\ ~shifted /\ "NUMLOCK" \in s.locks)
                        THEN k.shifted ELSE k.alone
             means   == IF Shifted(k) \/ (k.pad /\ ~Shifted(k) /\ "NUMLOCK" \in on)
                        THEN k.shifted ELSE k.alone
  <1>1. Shifted(k) <=> shifted
    BY DEF Shifted, capsAt
  <1>2. means = meant
    BY <1>1
  <1>3. /\ meant \in {j.alone : j \in Keys} \cup {j.shifted : j \in Keys} \cup {NONE}
        /\ Held \cup ({k.name} \cap Modifier) \in SUBSET Modifier
        /\ (k.pad /\ ~shifted) \in BOOLEAN /\ (k.pad /\ ~Shifted(k)) \in BOOLEAN
    BY KeysAre DEF Held
  <1>4. Meant(k) = [key |-> means, with |-> Held \cup ({k.name} \cap Modifier),
                    pad |-> k.pad /\ ~Shifted(k)]
    BY Zenon DEF Meant
  <1>5. MeantAt(k, s) = [key |-> meant, with |-> s.modifiers \cup ({k.name} \cap Modifier),
                         pad |-> k.pad /\ ~shifted]
    BY Zenon DEF MeantAt
  <1> HIDE DEF meant, means
  <1>6. (k.pad /\ ~Shifted(k)) <=> (k.pad /\ ~shifted)
    BY <1>1
  <1>7. [key |-> means, with |-> Held \cup ({k.name} \cap Modifier), pad |-> k.pad /\ ~Shifted(k)]
           = [key |-> meant, with |-> Held \cup ({k.name} \cap Modifier), pad |-> k.pad /\ ~shifted]
    BY <1>2, <1>3, <1>6, SameInput
  <1>8. Meant(k) = MeantAt(k, s)
    BY <1>4, <1>5, <1>7, Zenon
  <1>9. MeantAt(k, s) \in Meaning
    BY <1>3, <1>5 DEF Meaning
  <1> QED
    BY <1>8, <1>9

\* A step of keyboard_read, whatever it reads.
LEMMA ReaderTypesKept ==
    ASSUME ReaderTypes, ReadsCode, Front \in Code
    PROVE  ReaderTypes'
  <1> DEFINE s == [pc |-> pc, modifiers |-> modifiers, locks |-> locks]
  <1>1. s.modifiers = modifiers /\ s.locks = locks
    OBVIOUS
  <1> HIDE DEF s
  <1>2. ASSUME NEW next \in Reading, ReadsOn(next) PROVE ReaderTypes'
    BY <1>2 DEF ReadsOn, ReaderTypes
  <1>3. ASSUME NEW key, NEW code, Gives(s, key, code) PROVE ReaderTypes'
    <2>1. modifiers' \subseteq Modifier /\ locks' \subseteq Lock
      BY <1>1, <1>3 DEF ReaderTypes, Gives, ModifiersAfter, LocksAfter
    <2>2. pc' \in Reading \cup {"LED", "leds"}
      BY <1>3, ReadingPlaces DEF Gives
    <2>3. correct' \in BOOLEAN /\ expected' \in Seq(Meaning)
      <3>1. CASE Make(code)
        <4>1. correct' \in BOOLEAN
          BY <3>1, <1>3 DEF Gives
        <4>2. expected' = IF expected = <<>> THEN <<>> ELSE Tail(expected)
          BY <3>1, <1>3, Zenon DEF Gives
        <4> QED
          BY <4>1, <4>2 DEF ReaderTypes
      <3>2. CASE ~Make(code)
        BY <3>2, <1>3 DEF Gives, ReaderTypes
      <3> QED
        BY <3>1, <3>2
    <2> QED
      BY <2>1, <2>2, <2>3 DEF ReaderTypes
  <1>4. \hE1 \in Code /\ \h2A \in Code /\ \hB7 \in Code
    BY DEF Code
  <1>5. ASSUME NEW code \in Code, Decodes(code, FALSE) \/ Decodes(code, TRUE) PROVE ReaderTypes'
    BY <1>1, <1>3, <1>5, DecodesIs, Zenon
  <1>6. CASE ReadsFirst
    <2>1. ReadsOn(Pause[1]) \/ ReadsOn("E0") \/ Decodes(Front, FALSE)
      BY <1>6, Zenon DEF ReadsFirst
    <2>2. Pause[1] \in Reading /\ "E0" \in Reading
      BY ReadingPlaces
    <2> QED
      BY <1>2, <1>5, <2>1, <2>2, Zenon
  <1>7. ASSUME NEW i \in DOMAIN Pause, ReadsPause(i) PROVE ReaderTypes'
    <2>1. ReadsOn(IF i = 5 THEN "idle" ELSE Pause[i + 1]) \/ Decodes(\hE1, FALSE)
      BY <1>7, Zenon DEF ReadsPause
    <2>2. (IF i = 5 THEN "idle" ELSE Pause[i + 1]) \in Reading
      BY ReadingPlaces, PauseIs
    <2> QED
      BY <1>2, <1>4, <1>5, <2>1, <2>2, Zenon
  <1>8. CASE ReadsAfterE0
    <2>1. ReadsOn("make_E0") \/ ReadsOn("break_E0") \/ Decodes(Front, TRUE)
      BY <1>8, Zenon DEF ReadsAfterE0
    <2>2. "make_E0" \in Reading /\ "break_E0" \in Reading
      BY ReadingPlaces
    <2> QED
      BY <1>2, <1>5, <2>1, <2>2, Zenon
  <1>9. CASE ReadsPrintScreen
    <2>1. \/ ReadsOn("make_37") \/ ReadsOn("idle") \/ ReadsOn("break_AA")
          \/ Decodes(\h2A, TRUE) \/ Decodes(\hB7, TRUE)
      BY <1>9, Zenon DEF ReadsPrintScreen
    <2>2. "make_37" \in Reading /\ "idle" \in Reading /\ "break_AA" \in Reading
      BY ReadingPlaces
    <2> QED
      BY <1>2, <1>4, <1>5, <2>1, <2>2, Zenon
  <1> QED
    BY <1>6, <1>7, <1>8, <1>9, Zenon DEF ReadsCode

LEMMA FrontIs ==
    ASSUME RingIsFormed, keyboard_in.count > 0
    PROVE  Front \in Code
  BY TakenOut DEF RingIsFormed, Front

LEMMA AckIsCode == KEYBOARD_CODE_ACK \in Code
  BY DEF KEYBOARD_CODE_ACK, Code

\* What is owed and what is in the port, whatever comes and is asked for.
LEMMA PortTypesKept ==
    ASSUME PortTypes, [Next]_vars
    PROVE  PortTypes'
  <1>1. ASSUME NEW k \in Keys, Press(k) \/ Release(k) PROVE PortTypes'
    BY <1>1 DEF Press, Release, portVars, PortTypes
  <1>2. CASE keyboard_handler \/ CodePolled
    BY <1>2 DEF keyboard_handler, CodePolled, Sends, PortTypes
  <1>3. CASE Acknowledge
    BY <1>3 DEF Acknowledge, PortTypes
  <1>4. CASE keyboard_read
    <2>1. owed' = owed + 1 \/ owed' = owed
      BY <1>4, Zenon DEF keyboard_read
    <2>2. acked' = acked
      BY <1>4, Zenon DEF keyboard_read
    <2> QED
      BY <2>1, <2>2 DEF PortTypes
  <1>5. CASE keyboard_ack
    BY <1>5 DEF keyboard_ack, PortTypes
  <1>6. CASE UNCHANGED vars
    BY <1>6 DEF vars, portVars, PortTypes
  <1> QED
    BY <1>1, <1>2, <1>3, <1>4, <1>5, <1>6, Zenon DEF Next

LEMMA KTypesKept ==
    ASSUME KTypes, [Next]_vars
    PROVE  KTypes'
  <1>1. /\ RingIsFormed /\ ReaderTypes /\ DeviceTypes /\ PortTypes /\ dropped \in BOOLEAN
        /\ PortTypes'
    BY KTypesAre, PortTypesKept
  <1> SUFFICES RingIsFormed' /\ ReaderTypes' /\ DeviceTypes' /\ dropped' \in BOOLEAN
    BY <1>1 DEF KTypes, TypeOK, RingIsFormed, Rings, Formed, ReaderTypes, DeviceTypes,
         PortTypes, Reading
  <1>2. ASSUME NEW k \in Keys, Press(k)
        PROVE  RingIsFormed' /\ ReaderTypes' /\ DeviceTypes' /\ dropped' \in BOOLEAN
    <2>1. /\ out' = k.make /\ down' = (IF k.break = <<>> THEN down ELSE down \cup {k})
          /\ expected' = (IF k.silent THEN expected ELSE Append(expected, Meant(k)))
          /\ UNCHANGED <<keyboard_in, modifiers, locks, pc, correct, dropped>>
      BY <1>2, Zenon DEF Press, readVars
    <2>2. /\ \/ k.name \in Lock /\ k.name \in on /\ on' = on \ {k.name}
             \/ k.name \in Lock /\ k.name \notin on /\ on' = on \cup {k.name}
             \/ k.name \notin Lock /\ on' = on
      BY <1>2, Zenon DEF Press
    <2>3. expected' \in Seq(Meaning)
      <3>1. CASE k.silent
        BY <3>1, <2>1, <1>1 DEF ReaderTypes
      <3>2. CASE ~k.silent
        <4> DEFINE s == [modifiers |-> Held, locks |-> on]
        <4>1. s.modifiers = Held /\ s.locks = on
          OBVIOUS
        <4> HIDE DEF s
        <4>2. Meant(k) \in Meaning
          BY <3>2, <4>1, MeantIs
        <4> QED
          BY <3>2, <4>2, <2>1, <1>1 DEF ReaderTypes
      <3> QED
        BY <3>1, <3>2
    <2>4. DeviceTypes'
      BY <2>1, <2>2, <1>1, KeyCodes DEF DeviceTypes
    <2>5. ReaderTypes'
      BY <2>1, <2>3, <1>1 DEF ReaderTypes
    <2> QED
      BY <2>1, <2>4, <2>5, <1>1 DEF RingIsFormed
  <1>3. ASSUME NEW k \in Keys, Release(k)
        PROVE  RingIsFormed' /\ ReaderTypes' /\ DeviceTypes' /\ dropped' \in BOOLEAN
    <2>1. /\ out' = k.break /\ down' = down \ {k}
          /\ UNCHANGED <<keyboard_in, modifiers, locks, pc, on, expected, correct, dropped>>
      BY <1>3 DEF Release, readVars
    <2>2. DeviceTypes'
      BY <2>1, <1>1, KeyCodes DEF DeviceTypes
    <2>3. ReaderTypes'
      BY <2>1, <1>1 DEF ReaderTypes
    <2> QED
      BY <2>1, <2>2, <2>3, <1>1 DEF RingIsFormed
  <1>4. CASE keyboard_handler \/ CodePolled
    <2>1. /\ out # <<>> /\ out' = Tail(out)
          /\ \/ /\ keyboard_in' = With(keyboard_in, Head(out))
                /\ dropped' = (dropped \/ Full(keyboard_in))
             \/ UNCHANGED keyboard_in /\ dropped' = TRUE
          /\ UNCHANGED <<modifiers, locks, pc, down, on, expected, correct>>
      BY <1>4, Zenon DEF keyboard_handler, CodePolled, Sends, readVars
    <2>2. Head(out) \in Code /\ out' \in Seq(Code)
      BY <2>1, <1>1 DEF DeviceTypes
    <2>3. RingIsFormed'
      BY <2>1, <2>2, <1>1, PutIn DEF RingIsFormed
    <2>4. DeviceTypes' /\ ReaderTypes'
      BY <2>1, <2>2, <1>1 DEF DeviceTypes, ReaderTypes
    <2>5. dropped' \in BOOLEAN
      BY <2>1
    <2> QED
      BY <2>3, <2>4, <2>5
  <1>5. CASE keyboard_read
    <2>1. /\ keyboard_in.count > 0 /\ keyboard_in' = Without(keyboard_in) /\ ReadsCode
          /\ UNCHANGED <<out, down, on, dropped>>
      BY <1>5, Zenon DEF keyboard_read, ReadsCode, deviceVars
    <2>2. RingIsFormed'
      BY <2>1, <1>1, TakenOut DEF RingIsFormed
    <2>3. ReaderTypes'
      BY <2>1, <1>1, FrontIs, ReaderTypesKept
    <2> QED
      BY <2>1, <2>2, <2>3, <1>1 DEF DeviceTypes
  <1>6. CASE Acknowledge \/ keyboard_ack
    <2>1. /\ pc' \in {pc, "leds", "idle"}
          /\ UNCHANGED <<modifiers, locks, out, down, on, expected, correct>>
          /\ \/ /\ keyboard_in' = With(keyboard_in, KEYBOARD_CODE_ACK)
                /\ dropped' = (dropped \/ Full(keyboard_in))
             \/ UNCHANGED <<keyboard_in, dropped>>
      BY <1>6 DEF Acknowledge, keyboard_ack, readVars, deviceVars
    <2>2. RingIsFormed'
      BY <2>1, <1>1, AckIsCode, PutIn DEF RingIsFormed
    <2>3. ReaderTypes' /\ DeviceTypes'
      BY <2>1, <1>1, ReadingPlaces DEF ReaderTypes, DeviceTypes
    <2>4. dropped' \in BOOLEAN
      BY <2>1, <1>1
    <2> QED
      BY <2>2, <2>3, <2>4
  <1>7. CASE UNCHANGED vars
    BY <1>1, <1>7 DEF vars, readVars, deviceVars, RingIsFormed, ReaderTypes, DeviceTypes
  <1> QED
    BY <1>2, <1>3, <1>4, <1>5, <1>6, <1>7, Zenon DEF Next

-----------------------------------------------------------------------------
(* What is in flight stays so.                                              *)

\* The number of the code after the last one that was sent or will be.
LEMMA LatestIs ==
    ASSUME RingIsFormed, DeviceTypes, NEW first \in Nat
    PROVE  /\ keyboard_in.count \in Nat /\ Len(out) \in Nat
           /\ Latest(first) \in Nat /\ first <= Latest(first)
           /\ out = <<>> => Latest(first) = first + keyboard_in.count
  <1>1. keyboard_in.count \in Nat
    BY KeyboardAssumption DEF RingIsFormed, Rings
  <1>2. Len(out) \in Nat /\ (out = <<>> => Len(out) = 0)
    BY DEF DeviceTypes
  <1> QED
    BY <1>1, <1>2 DEF Latest

\* The next code goes into the ring.
LEMMA HandlerInFlight ==
    ASSUME RingIsFormed, DeviceTypes,
           NEW code, NEW reader, NEW said, NEW first \in Nat,
           InFlight(code, reader, said, first), keyboard_handler, ~Full(keyboard_in)
    PROVE  InFlight(code, reader, said, first)'
  <1> DEFINE n == keyboard_in.count
             m == Len(out)
             more == With(keyboard_in, Head(out))
  <1>1. /\ out # <<>> /\ out' = Tail(out) /\ keyboard_in' = more
        /\ UNCHANGED <<modifiers, locks, pc, down, on, expected>>
    BY DEF keyboard_handler, Sends, readVars
  <1>2. n \in Nat /\ m \in Nat /\ m > 0 /\ Head(out) = out[1] /\ Head(out) \in Code
        /\ Len(out') = m - 1 /\ \A j \in 1..m - 1 : out'[j] = out[j + 1]
    <2>1. n \in Nat
      BY LatestIs
    <2>2. m \in Nat /\ m > 0 /\ Head(out) = out[1] /\ Head(out) \in Code
      BY <1>1 DEF DeviceTypes
    <2>3. Len(out') = m - 1 /\ \A j \in 1..m - 1 : out'[j] = out[j + 1]
      BY <1>1 DEF DeviceTypes
    <2> QED
      BY <2>1, <2>2, <2>3
  <1>3. /\ more.tail = keyboard_in.tail /\ more.count = n + 1
        /\ \A j \in 0..n : more.buffer[(keyboard_in.tail + j) % KEYBOARD_IN_BUFFERSIZE] =
              IF j = n THEN Head(out)
              ELSE keyboard_in.buffer[(keyboard_in.tail + j) % KEYBOARD_IN_BUFFERSIZE]
    BY <1>2, PutIn DEF RingIsFormed
  <1>4. Latest(first)' = Latest(first)
    BY <1>1, <1>2, <1>3, SMTT(30) DEF Latest
  <1>5. RingHolds(code, first)'
    <2>1. out[1] = code[(first + n) + 1 - 1] /\ (first + n) + 1 - 1 = first + n
      BY <1>2 DEF InFlight, DeviceHolds
    <2>2. ASSUME NEW j \in 0..n
          PROVE  more.buffer[(more.tail + j) % KEYBOARD_IN_BUFFERSIZE] = code[first + j]
      <3>1. CASE j = n
        BY <3>1, <2>1, <1>2, <1>3
      <3>2. CASE j \in 0..n - 1
        <4>1. keyboard_in.buffer[(keyboard_in.tail + j) % KEYBOARD_IN_BUFFERSIZE] = code[first + j]
          BY <3>2 DEF InFlight, RingHolds
        <4> QED
          BY <4>1, <3>2, <1>2, <1>3
      <3> QED
        BY <3>1, <3>2, <1>2
    <2> HIDE DEF more, n
    <2>3. keyboard_in'.count - 1 = n
      BY <1>1, <1>2, <1>3
    <2> QED
      BY <2>2, <2>3, <1>1 DEF RingHolds
  <1>6. DeviceHolds(code, first)'
    <2>1. ASSUME NEW j \in 1..m - 1
          PROVE  out'[j] = code[(first + (n + 1)) + j - 1]
      <3>1. j + 1 \in 1..m /\ (first + n) + (j + 1) - 1 = (first + (n + 1)) + j - 1
        BY <1>2, SMTT(30)
      <3>2. out[j + 1] = code[(first + n) + (j + 1) - 1]
        BY <3>1 DEF InFlight, DeviceHolds
      <3> QED
        BY <3>1, <3>2, <1>2
    <2>2. keyboard_in'.count = n + 1
      BY <1>1, <1>3
    <2> HIDE DEF n, m
    <2> QED
      BY <2>1, <2>2, <1>2 DEF DeviceHolds
  <1> HIDE DEF n, m, more
  <1>7. Leads(code, reader, said, first, Latest(first))'
    BY <1>4 DEF InFlight
  <1>8. ReaderAt(reader[first])' /\ DeviceAt(reader[Latest(first)])'
    BY <1>1, <1>4 DEF InFlight, ReaderAt, DeviceAt, Held
  <1>9. Expects(said, reader[first], reader[Latest(first)])'
    BY <1>1, <1>4 DEF InFlight, Expects
  <1> QED
    BY <1>5, <1>6, <1>7, <1>8, <1>9 DEF InFlight

\* The device begins with a key: its codes lead on from where it was.
LEMMA SentInFlight ==
    ASSUME RingIsFormed, DeviceTypes, out = <<>>,
           NEW code \in [Nat -> Code], NEW reader \in [Nat -> Reader], NEW said,
           NEW said2 \in [Nat -> Meaning], NEW first \in Nat,
           InFlight(code, reader, said, first),
           Leads(code, reader, said2, first, Latest(first)),
           NEW codes \in Seq(Code), NEW t \in Reader,
           LeadFromTo(codes, reader[Latest(first)], t, said2),
           out' = codes, UNCHANGED <<keyboard_in, modifiers, locks, pc>>,
           DeviceAt(t)', Expects(said2, reader[first], t)'
    PROVE  \E code2 \in [Nat -> Code], reader2 \in [Nat -> Reader] :
              InFlight(code2, reader2, said2, first)'
  <1> DEFINE n == keyboard_in.count
             end == Latest(first)
  <1>1. n \in Nat /\ end \in Nat /\ end = first + n /\ first <= end
    BY LatestIs, Zenon
  <1> HIDE DEF end
  <1>2. PICK code2 \in [Nat -> Code], reader2 \in [Nat -> Reader] :
              /\ Leads(code2, reader2, said2, first, end + Len(codes))
              /\ \A j \in first..end - 1 : code2[j] = code[j]
              /\ \A j \in 1..Len(codes) : code2[end + j - 1] = codes[j]
              /\ reader2[first] = reader[first] /\ reader2[end + Len(codes)] = t
    <2>1. /\ Leads(code, reader, said2, first, end)
          /\ LeadFromTo(codes, reader[end], t, said2)
      BY DEF end
    <2>2. end \in Nat /\ first <= end
      BY <1>1
    <2>3. LeadOn(code, reader, said2, first, end, codes, t)
      BY <2>1, <2>2, LeadsOn, Zenon
    <2> QED
      BY <2>3, Zenon DEF LeadOn
  <1>3. Latest(first)' = end + Len(codes)
    BY <1>1 DEF Latest
  <1>4. RingHolds(code2, first)'
    <2>1. ASSUME NEW j \in 0..n - 1
          PROVE  keyboard_in.buffer[(keyboard_in.tail + j) % KEYBOARD_IN_BUFFERSIZE]
                    = code2[first + j]
      <3>1. first + j \in first..end - 1
        BY <1>1
      <3>2. keyboard_in.buffer[(keyboard_in.tail + j) % KEYBOARD_IN_BUFFERSIZE]
               = code[first + j]
        BY DEF InFlight, RingHolds
      <3> QED
        BY <3>1, <3>2, <1>2
    <2> QED
      BY <2>1 DEF RingHolds
  <1>5. DeviceHolds(code2, first)'
    <2>1. \A j \in 1..Len(codes) : codes[j] = code2[(first + n) + j - 1]
      BY <1>1, <1>2
    <2> QED
      BY <2>1 DEF DeviceHolds
  <1>6. Leads(code2, reader2, said2, first, Latest(first))'
    BY <1>2, <1>3
  <1>7. ReaderAt(reader2[first])'
    BY <1>2 DEF InFlight, ReaderAt
  <1>8. DeviceAt(reader2[Latest(first)])' /\ Expects(said2, reader2[first], reader2[Latest(first)])'
    BY <1>2, <1>3
  <1>9. InFlight(code2, reader2, said2, first)'
    BY <1>4, <1>5, <1>6, <1>7, <1>8 DEF InFlight
  <1> QED
    BY <1>9

\* The answer to a command is taken for a code that says nothing.
LEMMA AckSaysNothing ==
    ASSUME NEW s \in Reader, s.pc = "idle", NEW said
    PROVE  Takes(s, s, KEYBOARD_CODE_ACK, said)
  <1> DEFINE key == KeyAt(s, KEYBOARD_CODE_ACK, "none")
  <1>1. key \notin Modifier
    BY KeysAssumption DEF KeyAt
  <1>2. ~Make(KEYBOARD_CODE_ACK) /\ KEYBOARD_CODE_ACK \notin {\hE0, \hE1}
    BY DEF Make, KEYBOARD_CODE_ACK
  <1>3. Makes(s, s, KEYBOARD_CODE_ACK, "none", said)
    BY <1>1, <1>2 DEF Makes, ModifiersAfter, LocksAfter
  <1> QED
    BY <1>2, <1>3, TakesAtIdle

\* So the reader is led on to where it would have been without it.
LEMMA AckInFlight ==
    ASSUME RingIsFormed, DeviceTypes,
           NEW code \in [Nat -> Code], NEW reader \in [Nat -> Reader],
           NEW said \in [Nat -> Meaning], NEW first \in Nat,
           InFlight(code, reader, said, first), Acknowledge, ~Full(keyboard_in)
    PROVE  \E code2 \in [Nat -> Code], reader2 \in [Nat -> Reader] :
              InFlight(code2, reader2, said, first)'
  <1> DEFINE n == keyboard_in.count
             end == Latest(first)
             more == With(keyboard_in, KEYBOARD_CODE_ACK)
             codes == <<KEYBOARD_CODE_ACK>>
  <1>1. /\ out = <<>> /\ (keyboard_in' = more \/ UNCHANGED keyboard_in)
        /\ UNCHANGED <<pc, modifiers, locks, out, down, on, expected>>
    BY DEF Acknowledge, readVars, deviceVars
  <1>2. n \in Nat /\ end \in Nat /\ end = first + n /\ first <= end /\ Len(out) = 0
    <2>1. n \in Nat /\ end \in Nat /\ end = first + n /\ first <= end
      BY <1>1, LatestIs, Zenon
    <2> QED
      BY <1>1, <2>1
  <1>3. \A s : ReaderAt(s) => ReaderAt(s)'
    BY <1>1 DEF ReaderAt
  <1>4. \A s : DeviceAt(s) => DeviceAt(s)'
    BY <1>1 DEF DeviceAt, Held
  <1>5. CASE UNCHANGED keyboard_in
    <2>1. Latest(first)' = Latest(first)
      BY <1>1, <1>5 DEF Latest
    <2>2. RingHolds(code, first)' /\ DeviceHolds(code, first)'
      BY <1>1, <1>5 DEF InFlight, RingHolds, DeviceHolds
    <2>3. Leads(code, reader, said, first, Latest(first))'
      BY <2>1 DEF InFlight
    <2>4. ReaderAt(reader[first])' /\ DeviceAt(reader[Latest(first)])'
      BY <2>1, <1>3, <1>4 DEF InFlight
    <2>5. Expects(said, reader[first], reader[Latest(first)])'
      BY <2>1, <1>1 DEF InFlight, Expects
    <2> QED
      BY <2>2, <2>3, <2>4, <2>5 DEF InFlight
  <1>6. CASE keyboard_in' = more
    <2> HIDE DEF end
    <2>1. /\ more.tail = keyboard_in.tail /\ more.count = n + 1
          /\ \A j \in 0..n : more.buffer[(keyboard_in.tail + j) % KEYBOARD_IN_BUFFERSIZE] =
                IF j = n THEN KEYBOARD_CODE_ACK
                ELSE keyboard_in.buffer[(keyboard_in.tail + j) % KEYBOARD_IN_BUFFERSIZE]
      BY AckIsCode, PutIn DEF RingIsFormed
    <2>2. codes \in Seq(Code) /\ Len(codes) = 1 /\ codes[1] = KEYBOARD_CODE_ACK
      BY AckIsCode
    <2>3. reader[end] \in Reader /\ reader[end].pc = "idle"
      BY <1>2 DEF InFlight, DeviceAt, end
    <2> HIDE DEF codes, more
    <2>4. LeadFromTo(codes, reader[end], reader[end], said)
      <3>1. Takes(reader[end], reader[end], codes[1], said)
        BY <2>2, <2>3, AckSaysNothing
      <3>2. reader[end].seen <= reader[end].seen
        BY <2>3 DEF Reader
      <3> QED
        BY <2>2, <2>3, <3>1, <3>2, OneCode
    <2>5. PICK code2 \in [Nat -> Code], reader2 \in [Nat -> Reader] :
              /\ Leads(code2, reader2, said, first, end + Len(codes))
              /\ \A j \in first..end - 1 : code2[j] = code[j]
              /\ \A j \in 1..Len(codes) : code2[end + j - 1] = codes[j]
              /\ reader2[first] = reader[first] /\ reader2[end + Len(codes)] = reader[end]
      <3>1. Leads(code, reader, said, first, end)
        BY DEF InFlight, end
      <3>2. LeadOn(code, reader, said, first, end, codes, reader[end])
        BY <1>2, <2>2, <2>3, <2>4, <3>1, LeadsOn, Zenon
      <3> QED
        BY <3>2, Zenon DEF LeadOn
    <2>6. Latest(first)' = end + 1
      BY <1>1, <1>2, <1>6, <2>1 DEF Latest
    <2>7. code2[first + n] = KEYBOARD_CODE_ACK
      <3>1. code2[end + 1 - 1] = codes[1]
        BY <2>2, <2>5
      <3> QED
        BY <3>1, <2>2, <1>2
    <2>8. RingHolds(code2, first)'
      <3>1. ASSUME NEW j \in 0..n
            PROVE  more.buffer[(more.tail + j) % KEYBOARD_IN_BUFFERSIZE] = code2[first + j]
        <4>1. CASE j = n
          BY <4>1, <2>1, <2>7, <1>2
        <4>2. CASE j \in 0..n - 1
          <5>1. first + j \in first..end - 1
            BY <4>2, <1>2
          <5>2. keyboard_in.buffer[(keyboard_in.tail + j) % KEYBOARD_IN_BUFFERSIZE]
                   = code[first + j]
            BY <4>2 DEF InFlight, RingHolds
          <5> QED
            BY <4>2, <5>1, <5>2, <2>1, <2>5, <1>2
        <4> QED
          BY <4>1, <4>2, <1>2
      <3> HIDE DEF n
      <3>2. keyboard_in'.count - 1 = n
        BY <1>2, <1>6, <2>1
      <3> QED
        BY <3>1, <3>2, <1>6 DEF RingHolds
    <2>9. DeviceHolds(code2, first)'
      BY <1>1, <1>2 DEF DeviceHolds
    <2>10. Leads(code2, reader2, said, first, Latest(first))'
      BY <2>2, <2>5, <2>6
    <2>11. reader2[Latest(first)'] = reader[end]
      BY <2>2, <2>5, <2>6
    <2>12. ReaderAt(reader2[first])' /\ DeviceAt(reader2[Latest(first)])'
      BY <2>5, <2>11, <1>3, <1>4 DEF InFlight, end
    <2>13. Expects(said, reader2[first], reader2[Latest(first)])'
      BY <2>5, <2>11, <1>1 DEF InFlight, Expects, end
    <2>14. InFlight(code2, reader2, said, first)'
      BY <2>8, <2>9, <2>10, <2>12, <2>13 DEF InFlight
    <2> QED
      BY <2>14
  <1> QED
    BY <1>1, <1>5, <1>6

\* A key is pressed: nothing changes for the codes that were there.
LEMMA PressInFlight ==
    ASSUME RingIsFormed, ReaderTypes, DeviceTypes,
           NEW code \in [Nat -> Code], NEW reader \in [Nat -> Reader],
           NEW said \in [Nat -> Meaning], NEW first \in Nat,
           InFlight(code, reader, said, first), NEW k \in Keys, Press(k)
    PROVE  \E code2 \in [Nat -> Code], reader2 \in [Nat -> Reader], said2 \in [Nat -> Meaning] :
              InFlight(code2, reader2, said2, first)'
  <1>1. PICK end \in Nat : end = Latest(first) /\ first <= end
    BY LatestIs, Zenon
  <1> DEFINE s == reader[end]
             t == AfterPress(k, s)
             said2 == IF k.silent THEN said ELSE [said EXCEPT ![s.seen] = MeantAt(k, s)]
  <1>2. /\ out = <<>> /\ out' = k.make
        /\ down' = (IF k.break = <<>> THEN down ELSE down \cup {k})
        /\ expected' = (IF k.silent THEN expected ELSE Append(expected, Meant(k)))
        /\ UNCHANGED <<keyboard_in, modifiers, locks, pc, correct, dropped>>
        /\ \/ k.name \in Lock /\ k.name \in on /\ on' = on \ {k.name}
           \/ k.name \in Lock /\ k.name \notin on /\ on' = on \cup {k.name}
           \/ k.name \notin Lock /\ on' = on
    BY Zenon DEF Press, Rests, readVars
  <1>3. /\ s \in Reader /\ s.pc = "idle" /\ s.modifiers = Held /\ s.locks = on
        /\ s.seen \in Nat /\ reader[first] \in Reader /\ reader[first].seen \in Nat
    BY <1>1 DEF InFlight, DeviceAt, Reader
  <1>4. Leads(code, reader, said, first, end)
    BY <1>1 DEF InFlight
  <1>5. reader[first].seen <= s.seen
    BY <1>1, <1>4 DEF Leads
  <1>6. Expects(said, reader[first], s)
    BY <1>1 DEF InFlight
  <1> HIDE DEF s
  <1>7. /\ said2 \in [Nat -> Meaning] /\ Expects(said2, reader[first], t)'
        /\ Leads(code, reader, said2, first, end)
        /\ k.silent = FALSE => said2[s.seen] = MeantAt(k, s)
    <2>1. CASE k.silent
      <3>1. said2 = said /\ said2 \in [Nat -> Meaning]
        BY <2>1
      <3>2. t.seen = s.seen /\ expected' = expected
        BY <1>2, <2>1 DEF AfterPress
      <3>3. Expects(said2, reader[first], t)'
        BY <1>6, <3>1, <3>2 DEF Expects
      <3>4. Leads(code, reader, said2, first, end)
        BY <1>4, <3>1
      <3>5. ~k.silent => said2[s.seen] = MeantAt(k, s)
        BY <2>1
      <3> QED
        BY <3>1, <3>3, <3>4, <3>5
    <2>2. CASE ~k.silent
      <3>1. Meant(k) = MeantAt(k, s) /\ Meant(k) \in Meaning
        BY <1>3, <2>2, MeantIs
      <3>2. said2 = [said EXCEPT ![s.seen] = MeantAt(k, s)] /\ said2 \in [Nat -> Meaning]
        BY <1>3, <2>2, <3>1
      <3> HIDE DEF said2
      <3>3. t.seen = s.seen + 1 /\ expected' = Append(expected, Meant(k))
        BY <1>2, <2>2 DEF AfterPress
      <3>4. Expects(said2, reader[first], t)'
        <4>1. expected \in Seq(Meaning) /\ Len(expected) \in Nat
          BY DEF ReaderTypes
        <4>2. /\ Len(expected) = s.seen - reader[first].seen
              /\ \A i \in 1..Len(expected) : expected[i] = said[reader[first].seen + i - 1]
          BY <1>6 DEF Expects
        <4>3. Len(expected') = t.seen - reader[first].seen
          BY <1>3, <3>1, <3>3, <4>1, <4>2
        <4>4. ASSUME NEW i \in 1..Len(expected') PROVE expected'[i] = said2[reader[first].seen + i - 1]
          <5>1. Len(expected') = Len(expected) + 1
            BY <3>1, <3>3, <4>1
          <5>2. CASE i \in 1..Len(expected)
            <6> DEFINE x == reader[first].seen + i - 1
            <6>1. expected'[i] = said[x]
              BY <5>2, <3>1, <3>3, <4>1, <4>2
            <6>2. x \in Nat /\ x # s.seen
              BY <5>2, <1>3, <4>1, <4>2
            <6> HIDE DEF x
            <6>3. said2[x] = said[x]
              BY <6>2, <3>2
            <6> QED
              BY <6>1, <6>3 DEF x
          <5>3. CASE i = Len(expected) + 1
            <6>1. expected'[i] = Meant(k)
              BY <5>3, <3>1, <3>3, <4>1
            <6>2. reader[first].seen + i - 1 = s.seen
              BY <5>3, <1>3, <4>1, <4>2
            <6> QED
              BY <6>1, <6>2, <3>1, <3>2, <1>3
          <5> QED
            BY <5>1, <5>2, <5>3, <4>1, SMTT(30)
        <4> QED
          BY <4>3, <4>4 DEF Expects
      <3>5. Leads(code, reader, said2, first, end)
        BY <1>1, <1>4, <3>1, <3>2, OneSaidMore DEF s
      <3>6. said2[s.seen] = MeantAt(k, s)
        BY <1>3, <3>1, <3>2
      <3> QED
        BY <3>2, <3>4, <3>5, <3>6
    <2> QED
      BY <2>1, <2>2
  <1> HIDE DEF said2
  <1>8. k.make \in Seq(Code) /\ t \in Reader /\ LeadFromTo(k.make, s, t, said2)
    BY <1>3, <1>7, PressLeads
  <1>9. DeviceAt(t)'
    <2>1. Held' = Held \cup ({k.name} \cap Modifier)
      <3>1. CASE k.break = <<>>
        BY <3>1, <1>2, KeysAre DEF Held
      <3>2. CASE k.break # <<>>
        BY <3>2, <1>2 DEF Held
      <3> QED
        BY <3>1, <3>2
    <2>2. on' = LocksPressed(k, s)
      BY <1>2, <1>3 DEF LocksPressed
    <2>3. t.pc = "idle" /\ t.modifiers = s.modifiers \cup ({k.name} \cap Modifier)
            /\ t.locks = LocksPressed(k, s)
      BY DEF AfterPress
    <2> QED
      BY <2>1, <2>2, <2>3, <1>3 DEF DeviceAt
  <1> HIDE DEF t
  <1>10. \E code2 \in [Nat -> Code], reader2 \in [Nat -> Reader] :
            InFlight(code2, reader2, said2, first)'
    BY <1>2, <1>1, <1>7, <1>8, <1>9, SentInFlight DEF s
  <1> QED
    BY <1>7, <1>10

\* The same when a key is released.
LEMMA ReleaseInFlight ==
    ASSUME RingIsFormed, DeviceTypes,
           NEW code \in [Nat -> Code], NEW reader \in [Nat -> Reader],
           NEW said \in [Nat -> Meaning], NEW first \in Nat,
           InFlight(code, reader, said, first), NEW k \in Keys, Release(k)
    PROVE  \E code2 \in [Nat -> Code], reader2 \in [Nat -> Reader] :
              InFlight(code2, reader2, said, first)'
  <1>1. PICK end \in Nat : end = Latest(first) /\ first <= end
    BY LatestIs, Zenon
  <1> DEFINE s == reader[end]
             t == AfterRelease(k, s)
  <1>2. /\ out = <<>> /\ out' = k.break /\ k \in down /\ down' = down \ {k}
        /\ UNCHANGED <<keyboard_in, modifiers, locks, pc, on, expected>>
    BY DEF Release, Rests, readVars
  <1>3. s \in Reader /\ s.pc = "idle" /\ s.modifiers = Held /\ s.locks = on
    BY <1>1 DEF InFlight, DeviceAt
  <1>4. Leads(code, reader, said, first, end) /\ Expects(said, reader[first], s)
    BY <1>1 DEF InFlight
  <1> HIDE DEF s
  <1>5. k.break \in Seq(Code) /\ t \in Reader /\ LeadFromTo(k.break, s, t, said)
    BY <1>3, ReleaseLeads
  <1>6. Expects(said, reader[first], t)'
    BY <1>2, <1>4 DEF Expects, AfterRelease
  <1>7. DeviceAt(t)'
    <2>1. Held' = Held \ ({k.name} \cap Modifier)
      BY <1>2, KeysAre DEF Held, DeviceTypes
    <2> QED
      BY <2>1, <1>2, <1>3 DEF DeviceAt, AfterRelease
  <1> HIDE DEF t
  <1> QED
    BY <1>2, <1>1, <1>4, <1>5, <1>6, <1>7, SentInFlight DEF s

\* A code is read: the reader is one further.
LEMMA ReadInFlight ==
    ASSUME RingIsFormed, ReaderTypes, DeviceTypes,
           NEW code \in [Nat -> Code], NEW reader \in [Nat -> Reader],
           NEW said \in [Nat -> Meaning], NEW first \in Nat,
           InFlight(code, reader, said, first), keyboard_read, correct
    PROVE  correct' /\ InFlight(code, reader, said, first + 1)'
  <1> DEFINE n == keyboard_in.count
             less == Without(keyboard_in)
             s == reader[first]
             t == reader[first + 1]
  <1>1. /\ n > 0 /\ keyboard_in' = less /\ ReadsCode
        /\ UNCHANGED <<out, down, on, dropped>>
    BY Zenon DEF keyboard_read, ReadsCode, deviceVars
  <1>2. PICK end \in Nat : end = Latest(first) /\ first <= end
    BY LatestIs, Zenon
  <1>3. n \in Nat /\ Len(out) \in Nat /\ end = first + n + Len(out) /\ first + 1 <= end
    <2>1. n \in Nat /\ Len(out) \in Nat
      BY LatestIs
    <2>2. end = first + n + Len(out)
      BY <1>2 DEF Latest
    <2> QED
      BY <2>1, <2>2, <1>1
  <1>4. /\ less.count = n - 1 /\ Front = keyboard_in.buffer[(keyboard_in.tail + 0) % KEYBOARD_IN_BUFFERSIZE]
        /\ Front \in Code
        /\ \A j \in 0..n - 2 :
              less.buffer[(less.tail + j) % KEYBOARD_IN_BUFFERSIZE] =
                 keyboard_in.buffer[(keyboard_in.tail + (j + 1)) % KEYBOARD_IN_BUFFERSIZE]
    BY <1>1, TakenOut DEF RingIsFormed, Front
  <1>5. Front = code[first]
    BY <1>1, <1>3, <1>4 DEF InFlight, RingHolds
  <1>6. Leads(code, reader, said, first, end) /\ ReaderAt(s) /\ DeviceAt(reader[end])
          /\ Expects(said, s, reader[end])
    BY <1>2 DEF InFlight
  <1>7. /\ Takes(s, t, Front, said) /\ t.seen <= reader[end].seen
        /\ s \in Reader /\ t \in Reader /\ reader[end] \in Reader
        /\ s.seen \in Nat /\ t.seen \in Nat /\ reader[end].seen \in Nat
    <2>1. first \in first..end - 1 /\ first + 1 \in first..end
      BY <1>3
    <2>2. s \in Reader /\ t \in Reader /\ reader[end] \in Reader
      OBVIOUS
    <2> QED
      BY <2>1, <2>2, <1>5, <1>6 DEF Leads, Reader
  <1> HIDE DEF s, t, less, n
  <1>8. pc \notin {"LED", "leds"}
    BY <1>1, PauseIs DEF ReadsCode, ReadsFirst, ReadsPause, ReadsAfterE0, ReadsPrintScreen
  <1>9. s.pc = pc /\ s.modifiers = modifiers /\ s.locks = locks
    BY <1>6, <1>8 DEF ReaderAt
  <1>10. Received(s, t, said)
    BY <1>1, <1>4, <1>7, <1>9, ReadsIs
  <1>11. /\ pc' = t.pc \/ (pc' = "LED" /\ t.pc = "idle")
         /\ modifiers' = t.modifiers /\ locks' = t.locks
    BY <1>10, Zenon DEF Received
  <1>12. expected \in Seq(Meaning)
    BY DEF ReaderTypes
  <1>13. /\ Len(expected) = reader[end].seen - s.seen
         /\ \A i \in 1..Len(expected) : expected[i] = said[s.seen + i - 1]
    BY <1>6 DEF Expects
  <1>14. correct' /\ Expects(said, t, reader[end])'
    <2>1. CASE t.seen = s.seen /\ UNCHANGED <<expected, correct>>
      BY <2>1, <1>6 DEF Expects
    <2>2. CASE /\ t.seen = s.seen + 1
               /\ correct' = (correct /\ expected # <<>> /\ Head(expected) = said[s.seen])
               /\ expected' = IF expected = <<>> THEN <<>> ELSE Tail(expected)
      <3>1. Len(expected) \in Nat /\ Len(expected) > 0 /\ expected # <<>>
        BY <2>2, <1>7, <1>12, <1>13
      <3>2. Head(expected) = said[s.seen]
        <4>1. Head(expected) = expected[1] /\ 1 \in 1..Len(expected)
          BY <3>1, <1>12
        <4>2. expected[1] = said[s.seen + 1 - 1] /\ s.seen + 1 - 1 = s.seen
          BY <4>1, <1>7, <1>13
        <4> QED
          BY <4>1, <4>2
      <3>3. expected' = Tail(expected)
        BY <2>2, <3>1
      <3>4. Len(expected') = Len(expected) - 1
              /\ \A i \in 1..Len(expected) - 1 : expected'[i] = expected[i + 1]
        BY <3>1, <3>3, <1>12
      <3>5. Len(expected') = reader[end].seen - t.seen
        BY <3>4, <3>1, <2>2, <1>7, <1>13
      <3>6. ASSUME NEW i \in 1..Len(expected') PROVE expected'[i] = said[t.seen + i - 1]
        <4>1. i \in 1..Len(expected) - 1 /\ i + 1 \in 1..Len(expected)
          BY <3>1, <3>4
        <4>2. expected'[i] = said[s.seen + (i + 1) - 1]
          BY <4>1, <3>4, <1>13
        <4>3. s.seen + (i + 1) - 1 = t.seen + i - 1
          BY <4>1, <2>2, <1>7, <3>1
        <4> QED
          BY <4>2, <4>3
      <3>7. correct'
        BY <2>2, <3>1, <3>2
      <3> QED
        BY <3>5, <3>6, <3>7 DEF Expects
    <2> QED
      BY <1>10, <2>1, <2>2, Zenon DEF Received
  <1>15. Latest(first + 1)' = end
    BY <1>1, <1>3, <1>4 DEF Latest
  <1>16. RingHolds(code, first + 1)'
    <2>1. ASSUME NEW j \in 0..n - 2
          PROVE  less.buffer[(less.tail + j) % KEYBOARD_IN_BUFFERSIZE] = code[(first + 1) + j]
      <3>1. j + 1 \in 0..n - 1 /\ first + (j + 1) = (first + 1) + j
        BY <1>3
      <3>2. keyboard_in.buffer[(keyboard_in.tail + (j + 1)) % KEYBOARD_IN_BUFFERSIZE]
               = code[first + (j + 1)]
        BY <3>1 DEF InFlight, RingHolds, n
      <3> QED
        BY <3>1, <3>2, <1>4
    <2>2. keyboard_in'.count - 1 = n - 2
      BY <1>1, <1>3, <1>4
    <2> QED
      BY <2>1, <2>2, <1>1 DEF RingHolds
  <1>17. DeviceHolds(code, first + 1)'
    <2>1. ASSUME NEW j \in 1..Len(out) PROVE out[j] = code[((first + 1) + (n - 1)) + j - 1]
      <3>1. out[j] = code[(first + n) + j - 1]
        BY DEF InFlight, DeviceHolds, n
      <3>2. (first + 1) + (n - 1) = first + n
        BY <1>3
      <3> QED
        BY <3>1, <3>2
    <2>2. keyboard_in'.count = n - 1
      BY <1>1, <1>4
    <2> QED
      BY <2>1, <2>2, <1>1 DEF DeviceHolds
  <1>18. Leads(code, reader, said, first + 1, end)
    <2>1. /\ \A j \in (first + 1)..end - 1 : j \in first..end - 1
          /\ \A j \in (first + 1)..end : j \in first..end
      BY <1>3
    <2> QED
      BY <2>1, <1>6 DEF Leads
  <1>19. ReaderAt(t)'
    BY <1>8, <1>7, <1>11, PauseIs DEF ReaderAt, Reader, Reading
  <1>20. DeviceAt(reader[end])'
    BY <1>1, <1>6 DEF DeviceAt, Held
  <1>21. InFlight(code, reader, said, first + 1)'
    BY <1>14, <1>15, <1>16, <1>17, <1>18, <1>19, <1>20 DEF InFlight, t
  <1> QED
    BY <1>14, <1>21

-----------------------------------------------------------------------------
(* The invariant.                                                           *)

\* At the beginning nothing is in flight.
LEMMA KInit ==
    ASSUME init_keyboard
    PROVE  KInv
  <1>1. /\ keyboard_in = [buffer |-> [i \in Ring |-> 0], head |-> 0, tail |-> 0, count |-> 0]
        /\ modifiers = {} /\ locks = {"NUMLOCK"} /\ pc = "idle"
        /\ out = <<>> /\ down = {} /\ on = {"NUMLOCK"}
        /\ expected = <<>> /\ correct = TRUE /\ dropped = FALSE
    BY DEF init_keyboard
  <1>2. RingIsFormed
    <2>1. 0 \in Ring /\ 0 \in Code /\ (0 + 0) % KEYBOARD_IN_BUFFERSIZE = 0
      BY KeyboardAssumption DEF Ring, Code
    <2>2. 0 \in 0..KEYBOARD_IN_BUFFERSIZE
      BY KeyboardAssumption
    <2> QED
      BY <1>1, <2>1, <2>2 DEF RingIsFormed, Rings, Formed
  <1>3. ReaderTypes /\ DeviceTypes /\ dropped \in BOOLEAN
    <2>1. <<>> \in Seq(Meaning) /\ <<>> \in Seq(Code)
      OBVIOUS
    <2>2. ReaderTypes
      BY <1>1, <2>1, ReadingPlaces DEF ReaderTypes, Lock
    <2>3. DeviceTypes
      BY <1>1, <2>1 DEF DeviceTypes, Lock
    <2> QED
      BY <1>1, <2>2, <2>3
  <1>4. KTypes
    <2>1. PortTypes
      BY DEF init_keyboard, PortTypes
    <2> QED
      BY <2>1, <1>2, <1>3, KTypesAre
  <1> DEFINE s == [pc |-> "idle", modifiers |-> {}, locks |-> {"NUMLOCK"}, seen |-> 0]
             code   == [i \in Nat |-> 0]
             reader == [i \in Nat |-> s]
             said   == [i \in Nat |-> [key |-> NONE, with |-> {}, pad |-> FALSE]]
  <1>5. /\ s \in Reader /\ s.pc = "idle" /\ s.modifiers = {} /\ s.locks = {"NUMLOCK"}
        /\ s.seen = 0
    BY ReaderIs, ReadingPlaces DEF Lock
  <1> HIDE DEF s
  <1>6. code \in [Nat -> Code] /\ reader \in [Nat -> Reader] /\ reader[0] = s
    BY <1>5 DEF Code
  <1>7. said \in [Nat -> Meaning]
    BY DEF Meaning
  <1>8. Latest(0) = 0
    BY <1>1 DEF Latest
  <1> HIDE DEF code, reader, said
  <1>9. InFlight(code, reader, said, 0)
    <2>1. RingHolds(code, 0) /\ DeviceHolds(code, 0)
      BY <1>1 DEF RingHolds, DeviceHolds
    <2>2. Leads(code, reader, said, 0, 0)
      BY <1>5, <1>6 DEF Leads
    <2>3. ReaderAt(s) /\ DeviceAt(s)
      BY <1>1, <1>5 DEF ReaderAt, DeviceAt, Held
    <2>4. Expects(said, s, s)
      BY <1>1, <1>5 DEF Expects
    <2> QED
      BY <2>1, <2>2, <2>3, <2>4, <1>6, <1>8 DEF InFlight
  <1> QED
    BY <1>1, <1>4, <1>6, <1>7, <1>9 DEF KInv

\* Every step keeps the keyboard and the reader in step.
LEMMA KStep ==
    ASSUME KInv, [Next]_vars
    PROVE  KInv'
  <1>1. RingIsFormed /\ ReaderTypes /\ DeviceTypes /\ dropped \in BOOLEAN /\ KTypes'
    BY KTypesAre, KTypesKept DEF KInv
  <1>2. SUFFICES ASSUME ~dropped'
                 PROVE  correct' /\ \E code \in [Nat -> Code], reader \in [Nat -> Reader],
                           said \in [Nat -> Meaning], first \in Nat :
                           InFlight(code, reader, said, first)'
    BY <1>1 DEF KInv
  <1>3. ~dropped
    BY <1>2 DEF Next, Press, Release, keyboard_handler, CodePolled, Acknowledge, keyboard_read,
         keyboard_ack, vars, Rests
  <1>4. correct
    BY <1>3 DEF KInv
  <1>5. PICK code \in [Nat -> Code], reader \in [Nat -> Reader],
             said \in [Nat -> Meaning], first \in Nat :
             InFlight(code, reader, said, first)
    BY <1>3, Zenon DEF KInv
  <1>6. ASSUME NEW k \in Keys, Press(k)
        PROVE  correct' /\ \E code2 \in [Nat -> Code], reader2 \in [Nat -> Reader],
                  said2 \in [Nat -> Meaning] : InFlight(code2, reader2, said2, first)'
    <2>1. correct' = correct
      BY <1>6 DEF Press
    <2> QED
      BY <2>1, <1>1, <1>4, <1>5, <1>6, PressInFlight, Zenon
  <1>7. ASSUME NEW k \in Keys, Release(k)
        PROVE  correct' /\ \E code2 \in [Nat -> Code], reader2 \in [Nat -> Reader] :
                  InFlight(code2, reader2, said, first)'
    <2>1. correct' = correct
      BY <1>7 DEF Release
    <2> QED
      BY <2>1, <1>1, <1>4, <1>5, <1>7, ReleaseInFlight, Zenon
  <1>8. CASE keyboard_handler
    <2>1. ~Full(keyboard_in) /\ correct' = correct
      BY <1>2, <1>8 DEF keyboard_handler, Sends
    <2> QED
      BY <2>1, <1>1, <1>4, <1>5, <1>8, HandlerInFlight, Zenon
  <1>9. CASE keyboard_read
    <2>1. first + 1 \in Nat
      OBVIOUS
    <2>2. correct' /\ InFlight(code, reader, said, first + 1)'
      BY <1>1, <1>4, <1>5, <1>9, ReadInFlight, Zenon
    <2> QED
      BY <2>1, <2>2
  <1>10. CASE Acknowledge
    <2>1. correct' = correct
      BY <1>10 DEF Acknowledge
    <2>2. CASE Full(keyboard_in)
      <3>1. UNCHANGED <<keyboard_in, dropped>>
        BY <1>2, <1>10, <2>2 DEF Acknowledge
      <3>2. InFlight(code, reader, said, first)'
        BY <1>5, <1>10, <3>1 DEF Acknowledge, readVars, deviceVars, InFlight, Latest, RingHolds,
             DeviceHolds, ReaderAt, DeviceAt, Held, Expects
      <3> QED
        BY <3>2, <2>1, <1>4
    <2>3. CASE ~Full(keyboard_in)
      BY <2>1, <2>3, <1>1, <1>4, <1>5, <1>10, AckInFlight, Zenon
    <2> QED
      BY <2>2, <2>3
  <1>11. CASE keyboard_ack
    <2>1. correct' = correct
      BY <1>11 DEF keyboard_ack
    <2>2. InFlight(code, reader, said, first)'
      BY <1>5, <1>11 DEF keyboard_ack, deviceVars, InFlight, Latest, RingHolds,
           DeviceHolds, ReaderAt, DeviceAt, Held, Expects
    <2> QED
      BY <2>1, <2>2, <1>4
  <1>12. CASE UNCHANGED vars
    <2>1. correct' /\ InFlight(code, reader, said, first)'
      BY <1>4, <1>5, <1>12 DEF vars, readVars, deviceVars, InFlight, Latest, RingHolds,
           DeviceHolds, ReaderAt, DeviceAt, Held, Expects
    <2> QED
      BY <2>1
  <1> QED
    BY <1>3, <1>2, <1>6, <1>7, <1>8, <1>9, <1>10, <1>11, <1>12 DEF Next, CodePolled

\* As long as no code was lost, the codes that the ring and the device hold
\* lead the reader, from where it is now, to where the keyboard is, and the keys
\* they make are those that were meant and did not come yet.
THEOREM KeyboardInvariant == Spec => []KInv
  <1>1. init_keyboard => KInv
    BY KInit
  <1>2. KInv /\ [Next]_vars => KInv'
    BY KStep
  <1> QED
    BY <1>1, <1>2, PTL DEF Spec

\* With any keys, a ring of any size and a reader that lags behind as it likes,
\* the terminal gets the keys that were typed, in their order, with the
\* modifiers and locks of the moment they were typed.
THEOREM KeysComeAsTyped == Spec => []KeysAsTyped
  <1>1. KInv => KeysAsTyped
    <2> SUFFICES ASSUME KInv PROVE KeysAsTyped
      OBVIOUS
    <2>1. TypeOK /\ (dropped \/ correct)
      BY DEF KInv, KTypes
    <2>2. ASSUME pc = "idle", keyboard_in.count = 0, out = <<>>, ~dropped
          PROVE  expected = <<>> /\ modifiers = Held /\ locks = on
      <3>1. PICK code \in [Nat -> Code], reader \in [Nat -> Reader],
                 said \in [Nat -> Meaning], first \in Nat :
                 InFlight(code, reader, said, first)
        BY <2>2, Zenon DEF KInv
      <3>2. Latest(first) = first
        BY <2>2 DEF Latest
      <3>3. ReaderAt(reader[first]) /\ DeviceAt(reader[first])
              /\ Expects(said, reader[first], reader[first])
        BY <3>1, <3>2 DEF InFlight
      <3>4. modifiers = Held /\ locks = on
        BY <3>3 DEF ReaderAt, DeviceAt
      <3>5. Len(expected) = 0 /\ expected \in Seq(Meaning)
        BY <3>3 DEF Expects, Reader, KInv, KTypes
      <3> QED
        BY <3>4, <3>5
    <2> QED
      BY <2>1, <2>2 DEF KeysAsTyped
  <1> QED
    BY <1>1, KeyboardInvariant, PTL
=============================================================================
