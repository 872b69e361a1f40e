------------------------------ MODULE Console ------------------------------
(***************************************************************************)
(* The console (tps/kern/console.c): keyboard and serial port feed a ring  *)
(* of CONSBUFSIZE characters, readline (lib/readline.c) edits a line from  *)
(* it and echoes on the CGA screen.  The reader is the kernel monitor or,  *)
(* through read() of the console device (lib/console.c), an environment.   *)
(* The devices are external.  Their interrupts have no handler here, so    *)
(* they are read when somebody asks for a character (cons_getc).           *)
(*                                                                         *)
(* Of the key tables there are a letter, Enter, Backspace, the two Shift   *)
(* and the two Ctrl keys (the codes of the right Ctrl have an E0 prefix)   *)
(* and Caps Lock.                                                          *)
(***************************************************************************)
EXTENDS Integers, Sequences, SequencesExt

CONSTANTS
  CONSBUFSIZE,          \* characters in the ring
  CRT_COLS, CRT_ROWS,   \* the screen
  BUFLEN,               \* readline's buffer
  KBD,                  \* scan codes the keyboard controller holds
  MaxKeys               \* bound: keys pressed

ASSUME ConsoleAssumption ==
  {CONSBUFSIZE, CRT_COLS, CRT_ROWS, BUFLEN, KBD, MaxKeys} \subseteq Nat \ {0}

VARIABLES
  kbd,      \* scan codes waiting in the controller
  serial,   \* a character waiting in the serial port, or none; or no port
  shift,    \* the static `shift` of kbd_proc_data
  cons,     \* the ring: buf, rpos, wpos
  crt,      \* the screen: buf, pos
  line,     \* readline: who reads, the characters so far
  held,     \* (observer) the keys that are down, whether a Shift key was
            \* pressed after the last release of one, the same of the Ctrl
            \* keys, whether caps is on, and the keys so far
  typed,    \* (observer) the characters of the keys pressed that are not
            \* read yet, in order
  overrun   \* (observer) a character went over one that was not read

conVars == <<kbd, serial, shift, cons, crt, line, held, typed, overrun>>

-----------------------------------------------------------------------------
(* The keyboard *)

ShiftKeys == {"lshift", "rshift"}
CtlKeys == {"lctl", "rctl"}
Keys == {"d", "enter", "bs", "caps"} \cup ShiftKeys \cup CtlKeys
Codes(k, up) == (IF k = "rctl" THEN <<[key |-> "E0", up |-> FALSE]>> ELSE <<>>) \o <<[key |-> k, up |-> up]>>
NO == "none"

\* normalmap, shiftmap and ctlmap.
charcode(s, k) ==
  IF "CTL" \in s
  THEN CASE k = "d" -> "^D" [] k = "enter" -> "CR" [] OTHER -> NO
  ELSE CASE k = "d" -> IF "SHIFT" \in s THEN "D" ELSE "d"
         [] k = "enter" -> "LF" [] k = "bs" -> "BS" [] OTHER -> NO

\* Two keys for each modifier: 0x2A and 0x36 are the Shift keys, 0x1D is the
\* left Ctrl and 0x9D, which is 0x1D with the prefix, the right one.
shiftcode(k) ==
  CASE k \in ShiftKeys -> {"SHIFT"} [] k \in CtlKeys -> {"CTL"} [] OTHER -> {}
togglecode(k) == IF k = "caps" THEN {"CAPSLOCK"} ELSE {}
Capital(c) == CASE c = "d" -> "D" [] c = "D" -> "d" [] OTHER -> c

\* Mutant of kbd_proc_data: a release leaves the modifier set.
kbd_proc_data_sticky(s, data) ==
  IF data.key = "E0" THEN [shift |-> s \cup {"E0ESC"}, c |-> NO]
  ELSE IF data.up THEN [shift |-> s \ {"E0ESC"}, c |-> NO]
  ELSE LET s1 == (s \ {"E0ESC"}) \cup shiftcode(data.key)
           t == togglecode(data.key)
           s2 == (s1 \cup t) \ (s1 \cap t)
           c == charcode(s2, data.key)
       IN [shift |-> s2, c |-> IF "CAPSLOCK" \in s2 THEN Capital(c) ELSE c]

\* One scan code: the new shift state, and a character or NO.
kbd_proc_data(s, data) ==
  IF data.key = "E0" THEN [shift |-> s \cup {"E0ESC"}, c |-> NO]
  ELSE IF data.up THEN [shift |-> s \ (shiftcode(data.key) \cup {"E0ESC"}), c |-> NO]
  ELSE LET s1 == (s \ {"E0ESC"}) \cup shiftcode(data.key)
           t == togglecode(data.key)
           s2 == (s1 \cup t) \ (s1 \cap t)
           c == charcode(s2, data.key)
       IN [shift |-> s2, c |-> IF "CAPSLOCK" \in s2 THEN Capital(c) ELSE c]

\* All the waiting codes, as the loop of cons_intr gets them.
proc_next(a, data) ==
  LET r == kbd_proc_data(a.shift, data)
  IN [shift |-> r.shift, out |-> IF r.c = NO THEN a.out ELSE Append(a.out, r.c)]
Drain(s, codes) ==
  LET t[k \in 0..Len(codes)] ==
        IF k = 0 THEN [shift |-> s, out |-> <<>>] ELSE proc_next(t[k - 1], codes[k])
  IN t[Len(codes)]

-----------------------------------------------------------------------------
(* The ring *)

Pending(r) == (r.wpos - r.rpos) % CONSBUFSIZE

\* No look at rpos: a full ring is an empty one.
put_next(r, c) ==
  [r EXCEPT !.buf[r.wpos] = c, !.wpos = IF @ + 1 = CONSBUFSIZE THEN 0 ELSE @ + 1]
cons_intr(r, cs) ==
  LET t[k \in 0..Len(cs)] == IF k = 0 THEN r ELSE put_next(t[k - 1], cs[k])
  IN t[Len(cs)]

get_next(r) == [r EXCEPT !.rpos = IF @ + 1 = CONSBUFSIZE THEN 0 ELSE @ + 1]

-----------------------------------------------------------------------------
(* The screen *)

CRT_SIZE == CRT_COLS * CRT_ROWS
Blank == " "

\* Mutant of cga_putc: it scrolls a character late.
cga_putc_late(v, c) ==
  LET n == CASE c = "BS" -> IF v.pos > 0
                            THEN [buf |-> [v.buf EXCEPT ![v.pos - 1] = Blank], pos |-> v.pos - 1]
                            ELSE v
             [] c = "LF" -> [v EXCEPT !.pos = (@ + CRT_COLS) - (@ % CRT_COLS)]
             [] OTHER -> [buf |-> [v.buf EXCEPT ![v.pos] = c], pos |-> v.pos + 1]
  IN IF n.pos <= CRT_SIZE THEN n
     ELSE [buf |-> [i \in 0..(CRT_SIZE - 1) |->
                      IF i + CRT_COLS < CRT_SIZE THEN n.buf[i + CRT_COLS] ELSE Blank],
           pos |-> n.pos - CRT_COLS]

\* A screen after one character; it scrolls when the last line is left.
cga_putc(v, c) ==
  LET n == CASE c = "BS" -> IF v.pos > 0
                            THEN [buf |-> [v.buf EXCEPT ![v.pos - 1] = Blank], pos |-> v.pos - 1]
                            ELSE v
             [] c = "LF" -> [v EXCEPT !.pos = (@ + CRT_COLS) - (@ % CRT_COLS)]
             [] OTHER -> [buf |-> [v.buf EXCEPT ![v.pos] = c], pos |-> v.pos + 1]
  IN IF n.pos < CRT_SIZE THEN n
     ELSE [buf |-> [i \in 0..(CRT_SIZE - 1) |->
                      IF i + CRT_COLS < CRT_SIZE THEN n.buf[i + CRT_COLS] ELSE Blank],
           pos |-> n.pos - CRT_COLS]

-----------------------------------------------------------------------------
(* The devices *)

press(k) ==
  /\ k \notin held.down /\ Len(kbd) + 2 <= KBD /\ held.n < MaxKeys
  /\ kbd' = kbd \o Codes(k, FALSE)
  /\ LET now == held.down \cup {k}
         sh == held.shift \/ k \in ShiftKeys
         ctl == held.ctl \/ k \in CtlKeys
         caps == IF k = "caps" THEN ~held.caps ELSE held.caps
         c == IF ctl
              THEN CASE k = "d" -> <<"^D">> [] k = "enter" -> <<"CR">> [] OTHER -> <<>>
              ELSE CASE k = "d" -> <<IF sh # caps THEN "D" ELSE "d">>
                     [] k = "enter" -> <<"LF">> [] k = "bs" -> <<"BS">> [] OTHER -> <<>>
     IN /\ held' = [down |-> now, shift |-> sh, ctl |-> ctl, caps |-> caps, n |-> held.n + 1]
        /\ typed' = IF overrun THEN <<>> ELSE typed \o c
  /\ UNCHANGED <<serial, shift, cons, crt, line, overrun>>

release(k) ==
  /\ k \in held.down /\ Len(kbd) + 2 <= KBD
  /\ kbd' = kbd \o Codes(k, TRUE)
  /\ held' = [held EXCEPT !.down = @ \ {k}, !.shift = @ /\ k \notin ShiftKeys,
                          !.ctl = @ /\ k \notin CtlKeys]
  /\ UNCHANGED <<serial, shift, cons, crt, line, typed, overrun>>

\* serial_init: the FIFO is off, what came before is dropped; there may be no
\* port at all.
serial_init == serial \in {NO, "absent"}

\* The serial port holds one character.
receive ==
  /\ serial = NO /\ held.n < MaxKeys
  /\ serial' = "s"
  /\ held' = [held EXCEPT !.n = @ + 1]
  /\ UNCHANGED <<kbd, shift, cons, crt, line, typed, overrun>>

-----------------------------------------------------------------------------
(* The reader *)

\* What devcons_read makes the end of the file.
Eof(c) == c = "^D" /\ line.who = "user"

\* readline with the next character: an erased one, one more (any that is
\* not a control character, as long as there is room), the end of the line
\* or, for an environment, of the input (ctrl-D, devcons_read); or nothing.
\* Every change is echoed.
readline(c) ==
  LET i == Len(line.buf)
  IN \/ /\ c = "BS" /\ i > 0
        /\ line' = [line EXCEPT !.buf = Front(@)]
        /\ crt' = cga_putc(crt, "BS")
     \/ /\ c \in {"d", "D", "s"} /\ i < BUFLEN - 1
        /\ line' = [line EXCEPT !.buf = Append(@, c)]
        /\ crt' = cga_putc(crt, c)
     \/ /\ c \in {"LF", "CR"}
        /\ line' = [line EXCEPT !.buf = <<>>]
        /\ crt' = cga_putc(crt, "LF")
     \/ /\ Eof(c)
        /\ line' = [line EXCEPT !.buf = <<>>]
        /\ UNCHANGED crt
     \/ /\ ~Eof(c) /\ c \notin {"LF", "CR"}
        /\ c = "BS" => i = 0
        /\ c \in {"d", "D", "s"} => i = BUFLEN - 1
        /\ UNCHANGED <<line, crt>>

\* getchar, or sys_cgetc: poll the devices, the serial port first; then the
\* next character of the ring, if there is one.
cons_getc ==
  LET k == Drain(shift, kbd)
      new == (IF serial = "s" THEN <<serial>> ELSE <<>>) \o k.out
      r == cons_intr(cons, new)
      found == r.rpos # r.wpos
  IN /\ new # <<>> \/ kbd # <<>> \/ found
     /\ kbd' = <<>> /\ shift' = k.shift
     /\ serial' = (IF serial = "s" THEN NO ELSE serial)
     /\ overrun' = (overrun \/ Pending(cons) + Len(new) >= CONSBUFSIZE)
     /\ IF found
        THEN /\ cons' = get_next(r)
             /\ typed' = IF overrun' THEN <<>> ELSE IF r.buf[r.rpos] = "s" THEN typed
                         ELSE Tail(typed)
             /\ readline(r.buf[r.rpos])
        ELSE cons' = r /\ UNCHANGED <<typed, line, crt>>
     /\ UNCHANGED held

-----------------------------------------------------------------------------
\* cons_init has found the cursor somewhere on the screen; the prompt of the
\* reader has moved it to the last place.
ConsoleInit ==
  /\ kbd = <<>> /\ serial_init /\ shift = {}
  /\ cons = [buf |-> [i \in 0..(CONSBUFSIZE - 1) |-> NO], rpos |-> 0, wpos |-> 0]
  /\ crt = [buf |-> [i \in 0..(CRT_SIZE - 1) |-> Blank], pos |-> CRT_SIZE - 1]
  /\ \E w \in {"monitor", "user"} : line = [who |-> w, buf |-> <<>>]
  /\ held = [down |-> {}, shift |-> FALSE, ctl |-> FALSE, caps |-> FALSE, n |-> 0]
  /\ typed = <<>> /\ overrun = FALSE

ConsoleNext == (\E k \in Keys : press(k) \/ release(k)) \/ receive \/ cons_getc

-----------------------------------------------------------------------------
(* Properties *)

Ring(r) == [i \in 1..Pending(r) |-> r.buf[(r.rpos + i - 1) % CONSBUFSIZE]]

\* The characters of the keyboard among those of the ring.
Keyed(cs) ==
  LET t[k \in 0..Len(cs)] ==
        IF k = 0 THEN <<>> ELSE IF cs[k] = "s" THEN t[k - 1] ELSE Append(t[k - 1], cs[k])
  IN t[Len(cs)]

\* From the keys to the reader: what waits in the ring and what waits in the
\* controller are the characters that the keys mean, in order and none lost,
\* unless the ring has been overrun.  A modifier counts from the press of one
\* of its two keys to the next release of either: releasing one Shift ends
\* the other, which is still down, as they share a flag.
ReadIsTyped ==
  ~overrun =>
    Keyed(Ring(cons)) \o Drain(shift, kbd).out = typed

\* What stands before the cursor is the line that is being read, as far as
\* it is still on the screen, and the cursor stays on it: over erasing,
\* wrapping and scrolling.
EchoMatches ==
  /\ crt.pos \in 0..(CRT_SIZE - 1)
  /\ \A k \in 1..Len(line.buf) :
       k <= crt.pos => crt.buf[crt.pos - k] = line.buf[Len(line.buf) - k + 1]
=============================================================================
