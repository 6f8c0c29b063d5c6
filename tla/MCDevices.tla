----------------------------- MODULE MCDevices ------------------------------
(***************************************************************************)
(* The two devices of the terminals for TLC, one at a time: they share     *)
(* nothing but task_tty.                                                   *)
(*                                                                         *)
(* The keyboard has eight keys: a letter, a digit pad key, modifiers and   *)
(* locks, and the three keys whose codes come in series.  Of the consoles, *)
(* the memory of the first is used as a ring, and used again; the second,  *)
(* whose part lies behind it, has a line to be cleared by accident.        *)
(***************************************************************************)
EXTENDS Keyboard, Console

VARIABLE device     \* the device that is used

devicesVars == <<device, vars, consoleVars>>

MCKeymap ==
    [row \in {\h1E, \h2A, \h37, \h38, \h3A, \h45, \h48, \h1D} |->
        CASE row = \h1E -> <<"a", "A", NONE>>
          [] row = \h1D -> <<"LCTRL", "LCTRL", "RCTRL">>
          [] row = \h2A -> <<"LSHIFT", "LSHIFT", NONE>>
          [] row = \h37 -> <<"*", "*", NONE>>
          [] row = \h38 -> <<"LALT", "LALT", "RALT">>
          [] row = \h3A -> <<"CAPSLOCK", "CAPSLOCK", NONE>>
          [] row = \h45 -> <<"NUMLOCK", "NUMLOCK", NONE>>
          [] row = \h48 -> <<"NUMPAD_8", "8", "UP">>]

MCNumpad == [key \in {"NUMPAD_8"} |-> <<"8", "UP">>]

MCLetter == {"a"}

\* A key that gives the same key with and without shift.
Plain(name, make, break) ==
    [name |-> name, make |-> make, break |-> break, alone |-> name,
     shifted |-> name, pad |-> FALSE, silent |-> FALSE]

MCKeys ==
    {[Plain("A", <<\h1E>>, <<\h9E>>) EXCEPT !.alone = "a"],
     [Plain("8", <<\h48>>, <<\hC8>>) EXCEPT !.alone = "UP", !.pad = TRUE],
     Plain("LSHIFT", <<\h2A>>, <<\hAA>>),
     Plain("CAPSLOCK", <<\h3A>>, <<\hBA>>),
     Plain("NUMLOCK", <<\h45>>, <<\hC5>>),
     Plain("RALT", <<\hE0, \h38>>, <<\hE0, \hB8>>),
     [Plain("PRINTSCREEN", <<\hE0, \h2A, \hE0, \h37>>, <<\hE0, \hB7, \hE0, \hAA>>)
        EXCEPT !.silent = TRUE],
     [Plain("PAUSEBREAK", <<\hE1, \h1D, \h45, \hE1, \h9D, \hC5>>, <<>>)
        EXCEPT !.silent = TRUE]}
LinesOfEach == [c \in Console |-> IF c = 0 THEN 8 ELSE 2]

DevicesInit ==
    /\ device \in {"keyboard", "console"} /\ init_keyboard /\ ConsoleInit
    /\ device = "console" => acked      \* the idle keyboard has one port

DevicesNext ==
    /\ UNCHANGED device
    /\ \/ device = "keyboard" /\ Next /\ UNCHANGED consoleVars
       \/ device = "console" /\ ConsoleNext /\ UNCHANGED vars

DevicesSpec == DevicesInit /\ [][DevicesNext]_devicesVars /\ ReadsOnAndOn
=============================================================================
