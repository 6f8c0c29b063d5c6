------------------------------ MODULE Keyboard ------------------------------
(***************************************************************************)
(* The keyboard (sys/keyboard.c): the interrupt handler puts scan codes    *)
(* into a ring, and keyboard_read, called by task_tty, takes them out and  *)
(* makes keys of them.  A key can have several codes, which arrive one by  *)
(* one: keyboard_read then waits for the rest in the middle of its work.   *)
(*                                                                         *)
(* The device sends the codes of one key after the other, and an           *)
(* acknowledgement for each byte it is given about its lamps.  What it     *)
(* sends stays in the data port until it sends again: the handler reads it *)
(* there, and so does keyboard_ack, which asks for an acknowledgement      *)
(* again and again while the handler takes it for a scan code and the next *)
(* key takes its place in the port.                                        *)
(***************************************************************************)
EXTENDS Integers, Sequences, FiniteSets

CONSTANTS
    KEYBOARD_IN_BUFFERSIZE,
    keymap,           \* by row: the key alone, with shift, after E0
    Letter,           \* the keys between 'a' and 'z'
    numpad,           \* what keys of the number pad are with num_lock, without
    Keys,             \* the keys of the device: their codes and what they are
    MaxStrokes,       \* bound on the keys meant that did not come yet
    MaxDown           \* bound on the keys that are down

NONE == "0"
Code == 0..255
Make(code) == code < 128        \* !(scan_code & KEYBOARD_FLAG_BREAK)
KEYBOARD_CODE_ACK == \hFA

Modifier == {"LSHIFT", "RSHIFT", "LCTRL", "RCTRL", "LALT", "RALT"}
Lock     == {"CAPSLOCK", "NUMLOCK", "SCROLLLOCK"}

\* The codes that must follow 0xE1.
pausebrk_scode == <<\h1D, \h45, \hE1, \h9D, \hC5>>
Pause == <<"E1_1", "E1_2", "E1_3", "E1_4", "E1_5">>

ASSUME KeyboardAssumption ==
    /\ KEYBOARD_IN_BUFFERSIZE \in Nat \ {0}
    /\ DOMAIN keymap \subseteq 0..127
    /\ MaxStrokes \in Nat /\ MaxDown \in Nat

VARIABLES
    keyboard_in,      \* the ring: buffer, head, tail, count
    modifiers, locks, \* which of lshift.. and caps_lock.. are true
    pc,               \* where keyboard_read is
    out,              \* the codes the device has still to send of a key
    owed,             \* the acknowledgements it has still to send
    acked,            \* is an acknowledgement in the port, sent last?
    down, on,         \* the keys that are down; the locks that are on
    expected,         \* the keys that were meant and did not come yet
    correct,          \* have the keys that came been the ones meant?
    dropped           \* was a code lost, in the full ring or to keyboard_ack?

readVars   == <<modifiers, locks, pc>>
deviceVars == <<out, down, on>>
portVars   == <<owed, acked>>
vars == <<keyboard_in, readVars, deviceVars, portVars, expected, correct, dropped>>

Ring == 0..KEYBOARD_IN_BUFFERSIZE - 1

TypeOK ==
    /\ keyboard_in \in [buffer : [Ring -> Code], head : Ring, tail : Ring,
                        count : 0..KEYBOARD_IN_BUFFERSIZE]
    /\ keyboard_in.head =
          (keyboard_in.tail + keyboard_in.count) % KEYBOARD_IN_BUFFERSIZE
    /\ modifiers \subseteq Modifier /\ locks \subseteq Lock
    /\ pc \in {"idle", "E0", "make_E0", "make_37", "break_E0", "break_AA",
               "LED", "leds"} \cup {Pause[i] : i \in DOMAIN Pause}
    /\ out \in Seq(Code)
    /\ owed \in Nat /\ acked \in BOOLEAN
    /\ down \subseteq Keys /\ on \subseteq Lock
    /\ correct \in BOOLEAN /\ dropped \in BOOLEAN

init_keyboard ==
    /\ keyboard_in = [buffer |-> [i \in Ring |-> 0], head |-> 0, tail |-> 0, count |-> 0]
    /\ modifiers = {} /\ locks = {"NUMLOCK"}
    /\ pc = "idle"
    /\ out = <<>> /\ down = {} /\ on = {"NUMLOCK"}
    /\ owed = 0 /\ acked \in BOOLEAN      \* the port has what the BIOS left there
    /\ expected = <<>> /\ correct = TRUE /\ dropped = FALSE

-----------------------------------------------------------------------------
(* What a key is by its codes.                                             *)

Row(code) ==
    IF code % 128 \in DOMAIN keymap THEN keymap[code % 128] ELSE <<NONE, NONE, NONE>>

\* A modifier or a lock is the same in every column that its codes lead to.
Named(k, keys) ==
    \A key \in keys \cup {k.name} : key \in Modifier \cup Lock => keys = {k.name}

\* With 128 added the code is neither \hE0 nor \hE1.
OfOneCode(k) ==
    \E code \in DOMAIN keymap \ {\h60, \h61} :
        LET row == keymap[code] IN
        /\ k.make = <<code>> /\ k.break = <<code + 128>>
        /\ Named(k, {row[1], row[2]})
        /\ row[2] = k.shifted /\ row[2] \notin DOMAIN numpad
        /\ row[1] \in Letter <=> k.alone \in Letter
        /\ \/ k.pad = TRUE /\ row[1] \in DOMAIN numpad
              /\ numpad[row[1]] = <<k.shifted, k.alone>>
           \/ k.pad = FALSE /\ row[1] \notin DOMAIN numpad /\ row[1] = k.alone

\* Neither code is taken for the beginning of a PRINTSCREEN; the two keys of the
\* number pad with codes of this kind, Enter and slash, are not among the Keys.
AfterE0(k) ==
    \E code \in DOMAIN keymap \ {\h2A, \h37} :
        LET key == keymap[code][3] IN
        /\ k.make = <<\hE0, code>> /\ k.break = <<\hE0, code + 128>>
        /\ Named(k, {key})
        /\ k.alone = key /\ k.shifted = key /\ key \notin DOMAIN numpad /\ k.pad = FALSE

PrintScreen(k) ==
    k.make = <<\hE0, \h2A, \hE0, \h37>> /\ k.break = <<\hE0, \hB7, \hE0, \hAA>>
PauseBreak(k) ==
    k.make = <<\hE1, \h1D, \h45, \hE1, \h9D, \hC5>> /\ k.break = <<>>

\* The codes of each key are those the driver knows it by, no two keys are the
\* same modifier, and an acknowledgement is not the code of a modifier.
ASSUME KeysAssumption ==
    /\ \A k \in Keys :
          \/ k.silent = FALSE /\ (OfOneCode(k) \/ AfterE0(k))
          \/ /\ k.silent = TRUE /\ (PrintScreen(k) \/ PauseBreak(k))
             /\ k.name \notin Modifier \cup Lock
    /\ \A k, l \in Keys : k.name = l.name /\ k.name \in Modifier => k = l
    /\ \A i \in 1..3 : Row(KEYBOARD_CODE_ACK)[i] \notin Modifier

-----------------------------------------------------------------------------
(* The ring.                                                               *)

Next1(i) == (i + 1) % KEYBOARD_IN_BUFFERSIZE

Full(ring) == ring.count = KEYBOARD_IN_BUFFERSIZE

With(ring, code) ==
    IF Full(ring) THEN ring
    ELSE [buffer |-> [ring.buffer EXCEPT ![ring.head] = code],
          head |-> Next1(ring.head), tail |-> ring.tail, count |-> ring.count + 1]

\* keyboard_read_from_buffer, when its loop has found a code; a cell that was
\* read is 0 here, for nobody reads it again before it is written.
Front == keyboard_in.buffer[keyboard_in.tail]
Without(ring) ==
    [buffer |-> [ring.buffer EXCEPT ![ring.tail] = 0],
     head |-> ring.head, tail |-> Next1(ring.tail), count |-> ring.count - 1]

-----------------------------------------------------------------------------
(* The device, and what the strokes on it mean.                            *)

Held == {k.name : k \in down} \cap Modifier

Shifted(k) ==
    LET shift == Held \cap {"LSHIFT", "RSHIFT"} # {} IN
    IF k.alone \in Letter /\ "CAPSLOCK" \in on THEN ~shift ELSE shift

\* The key that a stroke means, with the modifiers that are held; a modifier
\* holds itself.  Shift makes a key of the number pad an ordinary one.
Meant(k) ==
    LET pad == k.pad /\ ~Shifted(k) IN
    [key  |-> IF Shifted(k) \/ (pad /\ "NUMLOCK" \in on) THEN k.shifted ELSE k.alone,
     with |-> Held \cup ({k.name} \cap Modifier),
     pad  |-> pad]

\* The device answers a command before it looks at its keys again.
Rests == out = <<>> /\ owed = 0 /\ ~dropped

\* A key is pressed, or repeats itself.
Press(k) ==
    /\ Rests /\ Len(expected) < MaxStrokes
    /\ k \in down \/ Cardinality(down) < MaxDown
    /\ out' = k.make
    /\ down' = IF k.break = <<>> THEN down ELSE down \cup {k}
    /\ expected' = IF k.silent THEN expected ELSE Append(expected, Meant(k))
    /\ on' = CASE k.name \in Lock /\ k.name \in on    -> on \ {k.name}
               [] k.name \in Lock /\ k.name \notin on -> on \cup {k.name}
               [] OTHER                               -> on
    /\ UNCHANGED <<keyboard_in, readVars, portVars, correct, dropped>>

Release(k) ==
    /\ Rests /\ k \in down
    /\ out' = k.break /\ down' = down \ {k}
    /\ UNCHANGED <<keyboard_in, readVars, portVars, on, expected, correct, dropped>>

\* The next code comes into the port.
Sends ==
    /\ out # <<>> /\ out' = Tail(out)
    /\ acked' = (Head(out) = KEYBOARD_CODE_ACK)
    /\ UNCHANGED <<readVars, owed, down, on, expected, correct>>

keyboard_handler ==
    /\ Sends
    /\ keyboard_in' = With(keyboard_in, Head(out))
    /\ dropped' = (dropped \/ Full(keyboard_in))

\* keyboard_ack asks for the code before the handler does.
CodePolled ==
    /\ pc \in {"LED", "leds"} /\ Sends
    /\ dropped' = TRUE /\ UNCHANGED keyboard_in

\* An acknowledgement comes into the port.  The handler takes it for a scan
\* code, unless keyboard_ack asks for it before.
Acknowledge ==
    /\ owed > 0 /\ out = <<>>
    /\ owed' = owed - 1 /\ acked' = TRUE
    /\ \/ /\ keyboard_in' = With(keyboard_in, KEYBOARD_CODE_ACK)
          /\ dropped' = (dropped \/ Full(keyboard_in))
       \/ pc \in {"LED", "leds"} /\ UNCHANGED <<keyboard_in, dropped>>
    /\ UNCHANGED <<readVars, deviceVars, expected, correct>>

-----------------------------------------------------------------------------
(* keyboard_read.  Each step takes one code out of the ring.               *)

ReadsOn(next) ==
    /\ pc' = next /\ UNCHANGED <<modifiers, locks, expected, correct>>

\* Variant: caps_lock counts for every key.
caps_of_all(row) ==
    (modifiers \cap {"LSHIFT", "RSHIFT"} # {}) # ("CAPSLOCK" \in locks)

caps(row) ==
    LET shift == modifiers \cap {"LSHIFT", "RSHIFT"} # {} IN
    IF "CAPSLOCK" \in locks /\ row[1] \in Letter THEN ~shift ELSE shift

KeyOf(code, code_with_e0) ==
    Row(code)[IF code_with_e0 THEN 3 ELSE IF caps(Row(code)) THEN 2 ELSE 1]

\* What tty_process_input gets for a key.
Input(key, with) ==
    [key  |-> CASE key \notin DOMAIN numpad -> key
                [] key \in DOMAIN numpad /\ "NUMLOCK" \in locks    -> numpad[key][1]
                [] key \in DOMAIN numpad /\ "NUMLOCK" \notin locks -> numpad[key][2],
     with |-> with,
     pad  |-> key \in DOMAIN numpad]

Toggled(key) == IF key \in locks THEN locks \ {key} ELSE locks \cup {key}

\* From keyboard.c:241 to the end.
Decodes(code, code_with_e0) ==
    LET key == KeyOf(code, code_with_e0) IN
    /\ modifiers' = CASE key \in Modifier /\ Make(code)  -> modifiers \cup {key}
                      [] key \in Modifier /\ ~Make(code) -> modifiers \ {key}
                      [] OTHER                           -> modifiers
    /\ IF Make(code) /\ key \in Lock
       THEN locks' = Toggled(key) /\ pc' = "LED"
       ELSE UNCHANGED locks /\ pc' = "idle"
    /\ IF Make(code)
       THEN /\ correct' = (correct /\ expected # <<>>
                             /\ Head(expected) = Input(key, modifiers'))
            /\ expected' = IF expected = <<>> THEN <<>> ELSE Tail(expected)
       ELSE UNCHANGED <<expected, correct>>

ReadsFirst ==
    /\ pc = "idle"
    /\ CASE Front = \hE1 -> ReadsOn(Pause[1])
         [] Front = \hE0 -> ReadsOn("E0")
         [] OTHER        -> Decodes(Front, FALSE)

\* Variant: the loop asks for one code too many.
ReadsPauseOn(i) ==
    /\ pc = Pause[i]
    /\ IF Front = pausebrk_scode[i] \/ i = 5
       THEN ReadsOn(Pause[IF i = 5 THEN 5 ELSE i + 1])
       ELSE Decodes(\hE1, FALSE)

\* A PAUSEBREAK is not given to the terminal.
ReadsPause(i) ==
    /\ pc = Pause[i]
    /\ IF Front = pausebrk_scode[i]
       THEN ReadsOn(IF i = 5 THEN "idle" ELSE Pause[i + 1])
       ELSE Decodes(\hE1, FALSE)

ReadsAfterE0 ==
    /\ pc = "E0"
    /\ CASE Front = \h2A -> ReadsOn("make_E0")
         [] Front = \hB7 -> ReadsOn("break_E0")
         [] OTHER        -> Decodes(Front, TRUE)

\* The rest of a PRINTSCREEN, which is not given to the terminal either; when
\* it is something else the codes read for it are gone.
ReadsPrintScreen ==
    \/ /\ pc = "make_E0"
       /\ IF Front = \hE0 THEN ReadsOn("make_37") ELSE Decodes(\h2A, TRUE)
    \/ /\ pc = "make_37"
       /\ IF Front = \h37 THEN ReadsOn("idle") ELSE Decodes(\h2A, TRUE)
    \/ /\ pc = "break_E0"
       /\ IF Front = \hE0 THEN ReadsOn("break_AA") ELSE Decodes(\hB7, TRUE)
    \/ /\ pc = "break_AA"
       /\ IF Front = \hAA THEN ReadsOn("idle") ELSE Decodes(\hB7, TRUE)

keyboard_read ==
    /\ keyboard_in.count > 0
    /\ keyboard_in' = Without(keyboard_in)
    /\ \/ ReadsFirst
       \/ \E i \in DOMAIN Pause : ReadsPause(i)
       \/ ReadsAfterE0
       \/ ReadsPrintScreen
    /\ owed' = IF pc' = "LED" THEN owed + 1 ELSE owed     \* out_byte(KEYBOARD_LED)
    /\ UNCHANGED <<deviceVars, acked, dropped>>

\* The loop of keyboard_ack ends: an acknowledgement is in the port, be it that
\* of an earlier byte.  In keyboard_set_leds a second byte follows the first.
keyboard_ack ==
    /\ pc \in {"LED", "leds"} /\ acked
    /\ pc' = IF pc = "LED" THEN "leds" ELSE "idle"
    /\ owed' = IF pc = "LED" THEN owed + 1 ELSE owed
    /\ UNCHANGED <<keyboard_in, modifiers, locks, deviceVars, acked, expected, correct, dropped>>

Next ==
    \/ \E k \in Keys : Press(k) \/ Release(k)
    \/ keyboard_handler
    \/ CodePolled
    \/ Acknowledge
    \/ keyboard_read
    \/ keyboard_ack

Spec == init_keyboard /\ [][Next]_vars

\* The device ends what it began and acknowledges what it is given, and task_tty
\* reads while there are codes.
ReadsOnAndOn ==
    /\ WF_vars(keyboard_handler) /\ WF_vars(Acknowledge)
    /\ WF_vars(keyboard_read) /\ WF_vars(keyboard_ack)

FairSpec == Spec /\ ReadsOnAndOn

-----------------------------------------------------------------------------
(* Properties.                                                             *)

\* As long as no code was lost, the terminal gets the keys that were typed, in
\* the order they were typed, with the modifiers and locks of that moment:
\* however far the reader lags behind the device, and whatever is in the ring.
\* When everything was read, every key has come, and the driver's view of the
\* modifiers and locks is the one of the keyboard: a modifier never sticks.  The
\* ring is always well formed.
KeysAsTyped ==
    /\ TypeOK
    /\ dropped \/ correct
    /\ pc = "idle" /\ keyboard_in.count = 0 /\ out = <<>> /\ ~dropped =>
          expected = <<>> /\ modifiers = Held /\ locks = on

\* keyboard_ack was not in time: a code has taken the place of the last of the
\* acknowledgements in the port.
Overwritten == pc \in {"LED", "leds"} /\ ~acked /\ owed = 0

\* keyboard_read, which waits for codes and for acknowledgements in loops without
\* an end of their own, comes out of them unless a code was lost, or keyboard_ack
\* looks into the port when the next key is there already: then it never ends.
ReadingEnds == (pc # "idle") ~> (pc = "idle" \/ dropped \/ Overwritten)
=============================================================================
