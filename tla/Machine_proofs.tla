--------------------------- MODULE Machine_proofs ---------------------------
(***************************************************************************)
(* Three theorems about the machine that the kernel finds: two about the   *)
(* console, for any size of the screen, the ring, the line and the         *)
(* controller, and any number of keys, and one about the memory, for any   *)
(* amount of it, of environments and of processors.                        *)
(*                                                                         *)
(* EchoTheorem: what readline echoes is what it holds.  The devices, the   *)
(* shift state and the ring may do what they like: any sequence of         *)
(* characters that readline gets is echoed right.                          *)
(*                                                                         *)
(* TypedTheorem: what waits between the keys and the reader is what was    *)
(* typed.  Its invariant is about the scan codes that nobody has read yet: *)
(* once they are read, the shift state is that of the keys that are down,  *)
(* so a key means the same whenever its code is read.                      *)
(*                                                                         *)
(* BootTheorem: mem_init hands out no page twice, touches none that is not *)
(* mapped yet, and ends with the directory that check_kern_pgdir asserts.  *)
(* Its invariant is a count: there are always at least as many pages at    *)
(* the front of the free list that can be touched as there are tables to   *)
(* come, so no pgdir_walk fails on the way.                                *)
(*                                                                         *)
(* The loops of both models are recursive functions; LoopRuns shows that   *)
(* they have the values of their rounds, and RoundsKeep what every round   *)
(* keeps.                                                                  *)
(***************************************************************************)
EXTENDS Console, BootMem, FiniteSetTheorems, WellFoundedInduction, TLAPS

(* Loops *)

\* A set of numbers has a least one.
LEMMA MinNat ==
  ASSUME NEW S, S \subseteq Nat, S # {} PROVE \E m \in S : \A y \in S : m <= y
PROOF
  <1> DEFINE Less == OpToRel(<, Nat)
  <1>1. \A x, y \in Nat : y < x => <<y, x>> \in Less BY DEF OpToRel
  <1>2. IsWellFoundedOn(Less, Nat) BY NatLessThanWellFounded
  <1> HIDE DEF Less
  <1>3. PICK m \in S : \A y \in S : ~(<<y, m>> \in Less) BY <1>2, WFMin
  <1>4. ASSUME NEW y \in S PROVE m <= y
    <2>1. ~(y < m) BY <1>1, <1>3, Zenon
    <2> QED BY <2>1
  <1> QED BY <1>4

\* The step k of a loop is F[<<x, k>>]; it stays in S; t are the states of a
\* loop that starts in s.
StepsIn(N, S, F) == \A x \in S, k \in 1..N : F[<<x, k>>] \in S
Runs(N, s, F, t) == t[0] = s /\ \A k \in 1..N : t[k] = F[<<t[k - 1], k>>]

\* A loop of N steps over states of S has a run.
LEMMA LoopRuns ==
  ASSUME NEW N \in Nat, NEW S, NEW s \in S, NEW F, StepsIn(N, S, F)
  PROVE  \E t \in [0..N -> S] : Runs(N, s, F, t)
PROOF
  <1>0. \A x \in S, k \in 1..N : F[<<x, k>>] \in S BY DEF StepsIn
  <1> DEFINE Is(t, m) == t[0] = s /\ \A k \in 1..m : t[k] = F[<<t[k - 1], k>>]
             Has(m) == \E t \in [0..m -> S] : Is(t, m)
             M == {m \in Nat : m <= N /\ ~Has(m)}
  <1>1. Has(0)
    <2> DEFINE t == [k \in 0..0 |-> s]
    <2>1. t \in [0..0 -> S] /\ t[0] = s OBVIOUS
    <2>2. \A k \in 1..0 : FALSE OBVIOUS
    <2> HIDE DEF t
    <2> QED BY <2>1, <2>2
  <1>2. ASSUME NEW m \in 1..N, Has(m - 1) PROVE Has(m)
    <2>1. PICK t \in [0..(m - 1) -> S] : Is(t, m - 1) BY <1>2
    <2>2. m - 1 \in 0..(m - 1) OBVIOUS
    <2>3. t[m - 1] \in S BY <2>1, <2>2
    <2> DEFINE e == F[<<t[m - 1], m>>]
    <2>4. e \in S BY <1>0, <2>3
    <2> DEFINE g == [k \in 0..m |-> IF k = m THEN e ELSE t[k]]
    <2>5. \A k \in 0..m : k # m => k \in 0..(m - 1) OBVIOUS
    <2>6. g \in [0..m -> S] BY <2>1, <2>4, <2>5
    <2>7. g[m] = e /\ \A k \in 0..(m - 1) : g[k] = t[k] OBVIOUS
    <2> HIDE DEF g
    <2>8. ASSUME NEW k \in 1..m PROVE g[k] = F[<<g[k - 1], k>>]
      <3>1. k - 1 \in 0..(m - 1) /\ g[k - 1] = t[k - 1] BY <2>7
      <3>2. CASE k = m BY <2>7, <3>1, <3>2
      <3>3. CASE k # m
        <4>1. k \in 1..(m - 1) /\ k \in 0..(m - 1) BY <3>3
        <4> QED BY <2>1, <2>7, <3>1, <4>1
      <3> QED BY <3>2, <3>3
    <2>9. g[0] = s BY <2>1, <2>7
    <2> QED BY <2>6, <2>8, <2>9
  <1> HIDE DEF Has
  <1>3. ASSUME M # {} PROVE FALSE
    <2>1. PICK m \in M : \A y \in M : m <= y BY <1>3, MinNat
    <2>2. m # 0 /\ m \in 1..N BY <1>1, <2>1
    <2>3. m - 1 \in Nat /\ m - 1 \notin M BY <2>1, <2>2
    <2>4. Has(m - 1) BY <2>2, <2>3
    <2> QED BY <1>2, <2>1, <2>2, <2>4
  <1>4. Has(N) BY <1>3
  <1> QED BY <1>4 DEF Has, Runs

\* What holds at first and is kept by every round holds in all of them.
LEMMA RoundsKeep ==
  ASSUME NEW N \in Nat, NEW P, 0 \in P, \A k \in 1..N : k - 1 \in P => k \in P
  PROVE  \A k \in 0..N : k \in P
PROOF
  <1> DEFINE M == {k \in Nat : k <= N /\ k \notin P}
  <1>1. ASSUME M # {} PROVE FALSE
    <2>1. PICK m \in M : \A y \in M : m <= y BY <1>1, MinNat
    <2>2. m \in 1..N BY <2>1
    <2>3. m - 1 \in Nat /\ m - 1 \notin M BY <2>1, <2>2
    <2> QED BY <2>1, <2>2, <2>3
  <1> QED BY <1>1

-----------------------------------------------------------------------------
(* The console: readline and the screen *)

Cells == 0..(CRT_SIZE - 1)
Typable == {"d", "D", "s"}

\* The screen v shows the line b before its cursor.
Shows(v, b) ==
  \A k \in 1..Len(b) : k <= v.pos => v.buf[v.pos - k] = b[Len(b) - k + 1]

\* The cursor is on the screen, whose cells never become more or fewer.
Screen(v) == DOMAIN v = {"buf", "pos"} /\ v.pos \in Cells /\ DOMAIN v.buf = Cells
IInv ==
  /\ Screen(crt) /\ DOMAIN line = {"who", "buf"} /\ line.buf \in Seq(Typable)
  /\ Shows(crt, line.buf)

-----------------------------------------------------------------------------
\* The screen has a line at least, and its size is a number.
LEMMA SizeLemma ==
  CRT_COLS \in Nat \ {0} /\ CRT_SIZE \in Nat /\ CRT_COLS <= CRT_SIZE
PROOF
  <1>1. CRT_COLS \in Nat \ {0} /\ CRT_ROWS \in Nat \ {0}
    BY ConsoleAssumption
  <1>2. \A a, b \in Nat : b # 0 => a * b \in Nat /\ a <= a * b
    OBVIOUS
  <1> QED BY <1>1, <1>2 DEF CRT_SIZE

\* The column of a place on the screen.
LEMMA ColumnLemma ==
  ASSUME NEW x \in Nat, NEW n \in Nat \ {0}
  PROVE  x % n \in 0..x
OBVIOUS

\* A line without its last character.
LEMMA FrontLemma ==
  ASSUME NEW S, NEW b \in Seq(S), Len(b) > 0
  PROVE  /\ Front(b) \in Seq(S) /\ Len(Front(b)) = Len(b) - 1
         /\ \A i \in 1..(Len(b) - 1) : Front(b)[i] = b[i]
PROOF
  <1> DEFINE f == [i \in 1..(Len(b) - 1) |-> b[i]]
  <1>1. Len(b) \in Nat /\ \A i \in 1..Len(b) : b[i] \in S OBVIOUS
  <1>2. Front(b) = f BY <1>1 DEF Front
  <1>3. f \in Seq(S) /\ Len(f) = Len(b) - 1 BY <1>1
  <1> QED BY <1>2, <1>3

\* The screen n one line up.
Scrolled(n) ==
  [buf |-> [i \in Cells |-> IF i + CRT_COLS < CRT_SIZE THEN n.buf[i + CRT_COLS] ELSE Blank],
   pos |-> n.pos - CRT_COLS]
\* The screen before it is scrolled, if it has to be.
Written(v, c) ==
  CASE c = "BS" -> IF v.pos > 0
                   THEN [buf |-> [v.buf EXCEPT ![v.pos - 1] = Blank], pos |-> v.pos - 1]
                   ELSE v
    [] c = "LF" -> [v EXCEPT !.pos = (@ + CRT_COLS) - (@ % CRT_COLS)]
    [] OTHER -> [buf |-> [v.buf EXCEPT ![v.pos] = c], pos |-> v.pos + 1]

\* cga_putc writes, then scrolls a screen whose cursor has left it.
LEMMA PutcLemma ==
  ASSUME NEW v, NEW c
  PROVE  cga_putc(v, c) = IF Written(v, c).pos < CRT_SIZE THEN Written(v, c)
                          ELSE Scrolled(Written(v, c))
BY Zenon DEF cga_putc, Written, Scrolled, Cells

\* Scrolling a screen whose cursor has left it by at most a line keeps the
\* cursor on the screen and moves every cell up.
LEMMA ScrollLemma ==
  ASSUME NEW n, n.pos \in Nat, n.pos >= CRT_SIZE, n.pos < CRT_SIZE + CRT_COLS
  PROVE  /\ Screen(Scrolled(n)) /\ Scrolled(n).pos = n.pos - CRT_COLS
         /\ \A k \in 1..Scrolled(n).pos :
              n.pos - k < CRT_SIZE => Scrolled(n).buf[Scrolled(n).pos - k] = n.buf[n.pos - k]
PROOF
  <1> DEFINE w == Scrolled(n)
  <1>1. /\ w.pos = n.pos - CRT_COLS /\ DOMAIN w.buf = Cells /\ DOMAIN w = {"buf", "pos"}
        /\ \A i \in Cells :
             w.buf[i] = IF i + CRT_COLS < CRT_SIZE THEN n.buf[i + CRT_COLS] ELSE Blank
    BY DEF Scrolled
  <1>2. w.pos \in Cells BY <1>1, SizeLemma DEF Cells
  <1>3. ASSUME NEW k \in 1..w.pos, n.pos - k < CRT_SIZE
        PROVE  w.buf[w.pos - k] = n.buf[n.pos - k]
    <2> HIDE DEF w
    <2>1. /\ w.pos - k \in Cells /\ (w.pos - k) + CRT_COLS = n.pos - k
      <3>1. PICK p, o, c, l \in Nat : p = w.pos /\ o = n.pos /\ c = CRT_COLS /\ l = CRT_SIZE
        BY <1>2, SizeLemma DEF Cells
      <3>2. p = o - c /\ p \in 0..(l - 1) BY <1>1, <1>2, <3>1 DEF Cells
      <3>3. k \in 1..p BY <3>1
      <3>4. p - k \in 0..(l - 1) /\ (p - k) + c = o - k BY <3>1, <3>2, <3>3
      <3> QED BY <3>1, <3>4 DEF Cells
    <2> QED BY <1>1, <1>3, <2>1
  <1> QED BY <1>1, <1>2, <1>3 DEF Screen

\* A character that is shown is appended to what stands before the cursor.
LEMMA CharLemma ==
  ASSUME NEW v, Screen(v), NEW b \in Seq(Typable), Shows(v, b), NEW c \in Typable
  PROVE  Screen(cga_putc(v, c)) /\ Shows(cga_putc(v, c), Append(b, c))
PROOF
  <1> DEFINE n == [buf |-> [v.buf EXCEPT ![v.pos] = c], pos |-> v.pos + 1]
             d == Append(b, c)
  <1>1. cga_putc(v, c) = IF n.pos < CRT_SIZE THEN n ELSE Scrolled(n)
    <2>1. c # "BS" /\ c # "LF" BY DEF Typable
    <2>2. Written(v, c) = n BY <2>1 DEF Written
    <2> QED BY <2>2, PutcLemma
  <1>2. /\ Len(d) = Len(b) + 1 /\ d[Len(b) + 1] = c /\ Len(b) \in Nat
        /\ \A i \in 1..Len(b) : d[i] = b[i]
    OBVIOUS
  <1>3. /\ v.pos \in Cells /\ v.pos \in Nat /\ n.pos = v.pos + 1 /\ DOMAIN n.buf = Cells
        /\ n.buf[v.pos] = c /\ DOMAIN n = {"buf", "pos"}
        /\ \A i \in Cells : i # v.pos => n.buf[i] = v.buf[i]
    BY SizeLemma DEF Screen, Cells
  <1> HIDE DEF n, d
  <1>4. ASSUME NEW k \in 1..Len(d), k <= n.pos
        PROVE  n.buf[n.pos - k] = d[Len(d) - k + 1]
    <2>1. CASE k = 1 BY <1>2, <1>3, <2>1
    <2>2. CASE k # 1
      <3>1. k - 1 \in 1..Len(b) /\ k - 1 <= v.pos BY <1>2, <1>3, <1>4, <2>2
      <3>2. v.buf[v.pos - (k - 1)] = b[Len(b) - (k - 1) + 1] BY <3>1 DEF Shows
      <3>3. n.pos - k = v.pos - (k - 1) /\ n.pos - k \in Cells /\ n.pos - k # v.pos
        BY <1>3, <1>4, <3>1, SizeLemma DEF Cells
      <3>4. Len(d) - k + 1 = Len(b) - (k - 1) + 1 /\ Len(d) - k + 1 \in 1..Len(b)
        BY <1>2, <3>1
      <3> QED BY <1>2, <1>3, <3>2, <3>3, <3>4
    <2> QED BY <2>1, <2>2
  <1>5. CASE n.pos < CRT_SIZE
    <2>1. Screen(n) BY <1>3, <1>5, SizeLemma DEF Screen, Cells
    <2> QED BY <1>1, <1>4, <1>5, <2>1 DEF Shows, d
  <1>6. CASE ~(n.pos < CRT_SIZE)
    <2>1. n.pos \in Nat /\ n.pos = CRT_SIZE BY <1>3, <1>6, SizeLemma DEF Cells
    <2>2. /\ Screen(Scrolled(n)) /\ Scrolled(n).pos = n.pos - CRT_COLS
          /\ \A k \in 1..Scrolled(n).pos :
               n.pos - k < CRT_SIZE => Scrolled(n).buf[Scrolled(n).pos - k] = n.buf[n.pos - k]
      BY <2>1, SizeLemma, ScrollLemma
    <2>3. ASSUME NEW k \in 1..Len(d), k <= Scrolled(n).pos
          PROVE  Scrolled(n).buf[Scrolled(n).pos - k] = d[Len(d) - k + 1]
      <3>1. k \in 1..Scrolled(n).pos /\ k <= n.pos /\ n.pos - k < CRT_SIZE
        BY <1>2, <2>1, <2>2, <2>3, SizeLemma
      <3> QED BY <1>4, <2>2, <3>1
    <2> QED BY <1>1, <1>6, <2>2, <2>3 DEF Shows, d
  <1> QED BY <1>5, <1>6

\* A backspace removes the last character of what stands before the cursor.
LEMMA BackspaceLemma ==
  ASSUME NEW v, Screen(v), NEW b \in Seq(Typable), Shows(v, b), Len(b) > 0
  PROVE  Screen(cga_putc(v, "BS")) /\ Shows(cga_putc(v, "BS"), Front(b))
PROOF
  <1> DEFINE n == [buf |-> [v.buf EXCEPT ![v.pos - 1] = Blank], pos |-> v.pos - 1]
             d == Front(b)
  <1>1. v.pos \in Cells /\ v.pos \in Nat /\ v.pos < CRT_SIZE /\ Len(b) \in Nat
    BY SizeLemma DEF Screen, Cells
  <1>2. Len(d) = Len(b) - 1 /\ \A i \in 1..(Len(b) - 1) : d[i] = b[i]
    BY <1>1, FrontLemma
  <1>3. CASE v.pos = 0
    <2>1. cga_putc(v, "BS") = v BY <1>1, <1>3, SizeLemma DEF cga_putc
    <2>2. Shows(v, d) BY <1>1, <1>2, <1>3 DEF Shows
    <2> QED BY <2>1, <2>2
  <1>4. CASE v.pos > 0
    <2>1. /\ n.pos = v.pos - 1 /\ DOMAIN n.buf = Cells /\ DOMAIN n = {"buf", "pos"}
          /\ \A i \in Cells : i # v.pos - 1 => n.buf[i] = v.buf[i]
      BY DEF Screen
    <2>2. cga_putc(v, "BS") = n
      BY <1>1, <1>4, SizeLemma DEF cga_putc
    <2> HIDE DEF n, d
    <2>3. Screen(n) BY <1>1, <1>4, <2>1, SizeLemma DEF Screen, Cells
    <2>4. ASSUME NEW k \in 1..Len(d), k <= n.pos
          PROVE  n.buf[n.pos - k] = d[Len(d) - k + 1]
      <3>1. k + 1 \in 1..Len(b) /\ k + 1 <= v.pos BY <1>1, <1>2, <2>1, <2>4
      <3>2. v.buf[v.pos - (k + 1)] = b[Len(b) - (k + 1) + 1] BY <3>1 DEF Shows
      <3>3. n.pos - k = v.pos - (k + 1) /\ n.pos - k \in Cells /\ n.pos - k # v.pos - 1
        BY <1>1, <2>1, <2>4, <3>1, SizeLemma DEF Cells
      <3>4. Len(d) - k + 1 = Len(b) - (k + 1) + 1 /\ Len(d) - k + 1 \in 1..(Len(b) - 1)
        BY <1>1, <1>2, <3>1
      <3> QED BY <1>2, <2>1, <3>2, <3>3, <3>4
    <2> QED BY <2>2, <2>3, <2>4 DEF Shows, d
  <1> QED BY <1>1, <1>3, <1>4

\* A new line keeps the cursor on the screen.
LEMMA NewlineLemma ==
  ASSUME NEW v, Screen(v)
  PROVE  Screen(cga_putc(v, "LF"))
PROOF
  <1> DEFINE n == [v EXCEPT !.pos = (@ + CRT_COLS) - (@ % CRT_COLS)]
  <1>1. cga_putc(v, "LF") = IF n.pos < CRT_SIZE THEN n ELSE Scrolled(n)
    <2>1. Written(v, "LF") = n BY DEF Written
    <2> QED BY <2>1, PutcLemma
  <1>2. v.pos \in Nat /\ v.pos < CRT_SIZE BY SizeLemma DEF Screen, Cells
  <1>3. v.pos % CRT_COLS \in 0..v.pos BY <1>2, SizeLemma, ColumnLemma
  <1>4. /\ n.pos = (v.pos + CRT_COLS) - (v.pos % CRT_COLS) /\ n.buf = v.buf
        /\ DOMAIN n = {"buf", "pos"}
    BY DEF Screen
  <1> HIDE DEF n
  <1>5. n.pos \in Nat /\ n.pos < CRT_SIZE + CRT_COLS BY <1>2, <1>3, <1>4, SizeLemma
  <1>6. CASE n.pos < CRT_SIZE
    <2>1. Screen(n) BY <1>4, <1>5, <1>6, SizeLemma DEF Screen, Cells
    <2> QED BY <1>1, <1>6, <2>1
  <1>7. CASE ~(n.pos < CRT_SIZE)
    <2>1. Screen(Scrolled(n)) BY <1>5, <1>7, SizeLemma, ScrollLemma
    <2> QED BY <1>1, <1>7, <2>1
  <1> QED BY <1>6, <1>7

-----------------------------------------------------------------------------
(* The keyboard *)

Scancodes == [key : Keys \cup {"E0"}, up : BOOLEAN]
Mods == {"SHIFT", "CTL", "CAPSLOCK", "E0ESC"}
Chars == {"d", "D", "LF", "CR", "BS", "^D"}
Drained == [shift : SUBSET Mods, out : Seq(Chars)]

\* One scan code leads from a state of kbd_proc_data to another.
LEMMA ProcTyped ==
  ASSUME NEW a \in Drained, NEW x \in Scancodes
  PROVE  proc_next(a, x) \in Drained
PROOF
  <1>1. PICK r : r = kbd_proc_data(a.shift, x) OBVIOUS
  <1>2. a.shift \in SUBSET Mods /\ a.out \in Seq(Chars) BY DEF Drained
  <1>3. ASSUME NEW s \in SUBSET Mods, NEW k \in Keys
        PROVE  /\ charcode(s, k) \in Chars \cup {NO}
               /\ Capital(charcode(s, k)) \in Chars \cup {NO}
    BY DEF charcode, Capital, Chars, NO
  <1>4. r.shift \in SUBSET Mods /\ r.c \in Chars \cup {NO}
    <2>1. CASE x.key = "E0"
      <3>1. r = [shift |-> a.shift \cup {"E0ESC"}, c |-> NO] BY <1>1, <2>1 DEF kbd_proc_data
      <3> QED BY <1>2, <3>1 DEF Mods
    <2>2. CASE x.key # "E0" /\ x.up
      <3>1. r = [shift |-> a.shift \ (shiftcode(x.key) \cup {"E0ESC"}), c |-> NO]
        BY <1>1, <2>2 DEF kbd_proc_data
      <3> QED BY <1>2, <3>1
    <2>3. CASE x.key # "E0" /\ ~x.up
      <3> DEFINE s1 == (a.shift \ {"E0ESC"}) \cup shiftcode(x.key)
                 t == togglecode(x.key)
                 s2 == (s1 \cup t) \ (s1 \cap t)
                 c == charcode(s2, x.key)
      <3>1. r = [shift |-> s2, c |-> IF "CAPSLOCK" \in s2 THEN Capital(c) ELSE c]
        BY <1>1, <2>3 DEF kbd_proc_data
      <3>2. x.key \in Keys BY <2>3 DEF Scancodes
      <3>3. s2 \in SUBSET Mods BY <1>2 DEF shiftcode, togglecode, Mods
      <3> HIDE DEF s2
      <3> QED BY <1>3, <3>1, <3>2, <3>3
    <2> QED BY <2>1, <2>2, <2>3
  <1>5. proc_next(a, x) =
          [shift |-> r.shift, out |-> IF r.c = NO THEN a.out ELSE Append(a.out, r.c)]
    BY <1>1, Zenon DEF proc_next
  <1> QED BY <1>2, <1>4, <1>5 DEF Drained

\* The states of the loop over the scan codes in the controller.
DrainRun(s, codes, t) ==
  /\ t \in [0..Len(codes) -> Drained]
  /\ t[0] = [shift |-> s, out |-> <<>>]
  /\ \A k \in 1..Len(codes) : t[k] = proc_next(t[k - 1], codes[k])

\* Drain is the last state of the loop.
LEMMA DrainIs ==
  ASSUME NEW s \in SUBSET Mods, NEW codes \in Seq(Scancodes)
  PROVE  \E t : DrainRun(s, codes, t) /\ Drain(s, codes) = t[Len(codes)]
PROOF
  <1> DEFINE N == Len(codes)
             a == [shift |-> s, out |-> <<>>]
             F == [y \in Drained \X (1..N) |-> proc_next(y[1], codes[y[2]])]
             Is(t) == t = [k \in 0..N |-> IF k = 0 THEN a ELSE proc_next(t[k - 1], codes[k])]
             r == CHOOSE t : Is(t)
  <1>1. N \in Nat /\ \A k \in 1..N : codes[k] \in Scancodes OBVIOUS
  <1>2. a \in Drained BY DEF Drained
  <1>3. Drain(s, codes) = r[N] BY Zenon DEF Drain
  <1> HIDE DEF N, a
  <1>4. \A x \in Drained, k \in 1..N : F[<<x, k>>] = proc_next(x, codes[k]) OBVIOUS
  <1> HIDE DEF F
  <1>5. PICK t \in [0..N -> Drained] : t[0] = a /\ \A k \in 1..N : t[k] = F[<<t[k - 1], k>>]
    <2>1. StepsIn(N, Drained, F) BY <1>1, <1>4, ProcTyped DEF StepsIn
    <2>2. PICK t \in [0..N -> Drained] : Runs(N, a, F, t) BY <1>1, <1>2, <2>1, LoopRuns
    <2> QED BY <2>2 DEF Runs
  <1>6. Is(t)
    <2>1. \A k \in 0..N : k # 0 => k \in 1..N /\ k - 1 \in 0..N BY <1>1
    <2>2. \A k \in 0..N : k # 0 => t[k] = proc_next(t[k - 1], codes[k]) BY <1>4, <1>5, <2>1
    <2>3. t = [k \in 0..N |-> t[k]] BY <1>5
    <2> QED BY <1>5, <2>2, <2>3
  <1>7. Is(r) BY <1>6
  <1> HIDE DEF r
  <1>8. r[0] = a /\ \A k \in 1..N : r[k] = proc_next(r[k - 1], codes[k]) BY <1>1, <1>7
  <1>9. r = [k \in 0..N |-> r[k]] BY <1>7
  <1>10. \A k \in 0..N : r[k] \in Drained
    <2> DEFINE P == {k \in 0..N : r[k] \in Drained}
    <2>1. 0 \in P BY <1>1, <1>2, <1>8
    <2>2. ASSUME NEW k \in 1..N, k - 1 \in P PROVE k \in P
      <3>1. r[k - 1] \in Drained /\ codes[k] \in Scancodes /\ k \in 0..N BY <1>1, <2>2
      <3>2. proc_next(r[k - 1], codes[k]) \in Drained BY <3>1, ProcTyped
      <3> QED BY <1>8, <3>1, <3>2
    <2> HIDE DEF P
    <2>3. \A k \in 0..N : k \in P BY <1>1, <2>1, <2>2, RoundsKeep
    <2> QED BY <2>3 DEF P
  <1>11. r \in [0..N -> Drained] BY <1>9, <1>10
  <1> QED BY <1>3, <1>8, <1>11 DEF DrainRun, N, a

\* One code more.
LEMMA DrainAppend ==
  ASSUME NEW s \in SUBSET Mods, NEW codes \in Seq(Scancodes), NEW x \in Scancodes
  PROVE  /\ Drain(s, <<>>) = [shift |-> s, out |-> <<>>]
         /\ Drain(s, codes) \in Drained
         /\ Drain(s, Append(codes, x)) = proc_next(Drain(s, codes), x)
PROOF
  <1>1. PICK d : d = Append(codes, x) OBVIOUS
  <1>2. /\ d \in Seq(Scancodes) /\ Len(d) = Len(codes) + 1 /\ Len(codes) \in Nat
        /\ d[Len(d)] = x /\ \A k \in 1..Len(codes) : d[k] = codes[k]
    BY <1>1
  <1>3. PICK t : DrainRun(s, codes, t) /\ Drain(s, codes) = t[Len(codes)] BY DrainIs
  <1>4. PICK u : DrainRun(s, d, u) /\ Drain(s, d) = u[Len(d)] BY <1>2, DrainIs
  <1>5. PICK N : N = Len(codes) OBVIOUS
  <1>6. \A k \in 0..N : t[k] = u[k]
    <2> DEFINE P == {k \in 0..N : t[k] = u[k]}
    <2>1. 0 \in P BY <1>2, <1>3, <1>4, <1>5 DEF DrainRun
    <2>2. ASSUME NEW k \in 1..N, k - 1 \in P PROVE k \in P
      <3>1. t[k] = proc_next(t[k - 1], codes[k]) BY <1>3, <1>5 DEF DrainRun
      <3>2. u[k] = proc_next(u[k - 1], d[k]) BY <1>2, <1>4, <1>5 DEF DrainRun
      <3>3. d[k] = codes[k] /\ t[k - 1] = u[k - 1] BY <1>2, <1>5, <2>2
      <3> QED BY <3>1, <3>2, <3>3
    <2> HIDE DEF P
    <2>3. \A k \in 0..N : k \in P BY <1>2, <1>5, <2>1, <2>2, RoundsKeep
    <2> QED BY <2>3 DEF P
  <1>7. Drain(s, d) = proc_next(Drain(s, codes), x)
    <2>1. Len(d) \in 1..Len(d) /\ Len(d) - 1 = N BY <1>2, <1>5
    <2>2. u[Len(d)] = proc_next(u[Len(d) - 1], d[Len(d)]) BY <1>4, <2>1 DEF DrainRun
    <2>3. u[N] = t[N] BY <1>2, <1>5, <1>6
    <2> QED BY <1>2, <1>3, <1>4, <1>5, <2>1, <2>2, <2>3
  <1>8. Drain(s, codes) \in Drained BY <1>2, <1>3 DEF DrainRun
  <1>9. Drain(s, <<>>) = [shift |-> s, out |-> <<>>]
    <2>1. <<>> \in Seq(Scancodes) /\ Len(<<>>) = 0 OBVIOUS
    <2>2. PICK v : DrainRun(s, <<>>, v) /\ Drain(s, <<>>) = v[0] BY <2>1, DrainIs
    <2> QED BY <2>2 DEF DrainRun
  <1> QED BY <1>1, <1>7, <1>8, <1>9

\* The modifiers that count, as kbd_proc_data keeps them.
Modifiers(h) ==
  (IF h.shift THEN {"SHIFT"} ELSE {})
    \cup (IF h.ctl THEN {"CTL"} ELSE {})
    \cup (IF h.caps THEN {"CAPSLOCK"} ELSE {})
Helds == [down : SUBSET Keys, shift : BOOLEAN, ctl : BOOLEAN, caps : BOOLEAN, n : Nat]

\* What a key means when it is pressed, with the modifiers that count then.
Meant(sh, ctl, caps, k) ==
  IF ctl
  THEN CASE k = "d" -> <<"^D">> [] k = "enter" -> <<"CR">> [] OTHER -> <<>>
  ELSE CASE k = "d" -> <<IF sh # caps THEN "D" ELSE "d">>
         [] k = "enter" -> <<"LF">> [] k = "bs" -> <<"BS">> [] OTHER -> <<>>
Toggled(h, k) == IF k = "caps" THEN ~h.caps ELSE h.caps
Shifted(h, k) == h.shift \/ k \in ShiftKeys
Ctled(h, k) == h.ctl \/ k \in CtlKeys

Pressed(h, k) ==
  [down |-> h.down \cup {k}, shift |-> Shifted(h, k), ctl |-> Ctled(h, k),
   caps |-> Toggled(h, k), n |-> h.n + 1]
Released(h, k) ==
  [h EXCEPT !.down = @ \ {k}, !.shift = @ /\ k \notin ShiftKeys, !.ctl = @ /\ k \notin CtlKeys]

\* What kbd_proc_data makes of all codes of a key, with and without prefix.
KeyCodes(a, k, up) ==
  proc_next(IF k = "rctl" THEN proc_next(a, [key |-> "E0", up |-> FALSE]) ELSE a,
            [key |-> k, up |-> up])

KeyDone(h, k, up, a, e) ==
  /\ up => e.out = a.out /\ e.shift = Modifiers(Released(h, k))
  /\ ~up => /\ e.shift = Modifiers(Pressed(h, k))
            /\ e.out = a.out \o Meant(Shifted(h, k), Ctled(h, k), Toggled(h, k), k)

\* A key that is pressed or released, at the keyboard and in kbd_proc_data:
\* all codes of the key together.
LEMMA KeyProc ==
  ASSUME NEW h \in Helds, NEW k \in Keys, NEW up \in BOOLEAN, NEW a \in Drained,
         a.shift = Modifiers(h)
  PROVE  KeyDone(h, k, up, a, KeyCodes(a, k, up))
PROOF
  <1> SUFFICES ASSUME NEW e, e = KeyCodes(a, k, up) PROVE KeyDone(h, k, up, a, e)
    OBVIOUS
  <1> USE DEF KeyDone
  <1>0. PICK b : /\ b = IF k = "rctl" THEN proc_next(a, [key |-> "E0", up |-> FALSE]) ELSE a
                 /\ e = proc_next(b, [key |-> k, up |-> up])
    BY Zenon DEF KeyCodes
  <1>1. PICK s : s = b.shift \ {"E0ESC"} OBVIOUS
  <1>2. /\ s = Modifiers(h) /\ b.out = a.out /\ h.down \in SUBSET Keys
        /\ h.caps \in BOOLEAN /\ h.shift \in BOOLEAN /\ h.ctl \in BOOLEAN
        /\ a.out \in Seq(Chars)
    <2>1. "E0ESC" \notin Modifiers(h) BY DEF Modifiers
    <2>2. CASE k = "rctl"
      <3>1. PICK x : x = [key |-> "E0", up |-> FALSE] OBVIOUS
      <3>2. x.key = "E0" BY <3>1
      <3>3. kbd_proc_data(a.shift, x) = [shift |-> a.shift \cup {"E0ESC"}, c |-> NO]
        BY <3>2 DEF kbd_proc_data
      <3>4. b = proc_next(a, x) BY <1>0, <2>2, <3>1
      <3>5. b.shift = a.shift \cup {"E0ESC"} /\ b.out = a.out BY <3>3, <3>4 DEF proc_next
      <3> QED BY <1>1, <2>1, <3>5 DEF Helds, Drained
    <2>3. CASE k # "rctl" BY <1>0, <1>1, <2>1, <2>3 DEF Helds, Drained
    <2> QED BY <2>2, <2>3
  <1>3. PICK x : x = [key |-> k, up |-> up] OBVIOUS
  <1>4. x.key = k /\ x.up = up /\ k # "E0" BY <1>3 DEF Keys, ShiftKeys, CtlKeys
  <1>5. PICK r : r = kbd_proc_data(b.shift, x) OBVIOUS
  <1>6. e.shift = r.shift /\ e.out = IF r.c = NO THEN b.out ELSE Append(b.out, r.c)
    BY <1>0, <1>3, <1>5 DEF proc_next
  <1>7. CASE up
    <2>1. r = [shift |-> b.shift \ (shiftcode(k) \cup {"E0ESC"}), c |-> NO]
      BY <1>4, <1>5, <1>7 DEF kbd_proc_data
    <2>2. r.shift = s \ shiftcode(k) /\ r.c = NO BY <1>1, <2>1
    <2>3. PICK g : g = Released(h, k) OBVIOUS
    <2>4. /\ g.caps = h.caps
          /\ g.shift <=> h.shift /\ k \notin ShiftKeys
          /\ g.ctl <=> h.ctl /\ k \notin CtlKeys
      BY <2>3 DEF Helds, Released
    <2>4a. ShiftKeys \cap CtlKeys = {} BY DEF ShiftKeys, CtlKeys
    <2>5. r.shift = Modifiers(g)
      <3>1. CASE k \in ShiftKeys BY <1>2, <2>2, <2>4, <2>4a, <3>1 DEF Modifiers, shiftcode
      <3>2. CASE k \in CtlKeys BY <1>2, <2>2, <2>4, <2>4a, <3>2 DEF Modifiers, shiftcode
      <3>3. CASE k \notin ShiftKeys \cup CtlKeys
        BY <1>2, <2>2, <2>4, <3>3 DEF Modifiers, shiftcode
      <3> QED BY <3>1, <3>2, <3>3
    <2> QED BY <1>2, <1>6, <1>7, <2>2, <2>3, <2>5
  <1>8. CASE ~up
    <2>1. PICK s1, y : s1 = s \cup shiftcode(k) /\ y = togglecode(k) OBVIOUS
    <2>2. PICK s2 : s2 = (s1 \cup y) \ (s1 \cap y) OBVIOUS
    <2>3. PICK c : c = charcode(s2, k) OBVIOUS
    <2>4. r = [shift |-> s2, c |-> IF "CAPSLOCK" \in s2 THEN Capital(c) ELSE c]
      <3>1. r = LET v1 == (b.shift \ {"E0ESC"}) \cup shiftcode(k)
                    v == togglecode(k)
                    v2 == (v1 \cup v) \ (v1 \cap v)
                    v3 == charcode(v2, k)
                IN [shift |-> v2, c |-> IF "CAPSLOCK" \in v2 THEN Capital(v3) ELSE v3]
        BY <1>4, <1>5, <1>8 DEF kbd_proc_data
      <3> QED BY <1>1, <2>1, <2>2, <2>3, <3>1
    <2>5. PICK g : g = Pressed(h, k) OBVIOUS
    <2>6. /\ g.shift = Shifted(h, k) /\ g.ctl = Ctled(h, k) /\ g.caps = Toggled(h, k)
          /\ g.shift \in BOOLEAN /\ g.ctl \in BOOLEAN /\ g.caps \in BOOLEAN
      BY <1>2, <2>5, Zenon DEF Pressed, Shifted, Ctled, Toggled
    <2>6a. /\ g.shift <=> h.shift \/ k \in ShiftKeys
           /\ g.ctl <=> h.ctl \/ k \in CtlKeys
           /\ g.caps <=> (IF k = "caps" THEN ~h.caps ELSE h.caps)
      BY <2>6 DEF Shifted, Ctled, Toggled
    <2>6b. ShiftKeys \cap CtlKeys = {} /\ "caps" \notin ShiftKeys \cup CtlKeys
      BY DEF ShiftKeys, CtlKeys
    <2>7. s2 = Modifiers(g)
      <3>1. CASE k \in ShiftKeys
        BY <1>2, <2>1, <2>2, <2>6a, <2>6b, <3>1 DEF Modifiers, shiftcode, togglecode
      <3>2. CASE k \in CtlKeys
        BY <1>2, <2>1, <2>2, <2>6a, <2>6b, <3>2 DEF Modifiers, shiftcode, togglecode
      <3>3. CASE k = "caps"
        BY <1>2, <2>1, <2>2, <2>6a, <2>6b, <3>3 DEF Modifiers, shiftcode, togglecode
      <3>4. CASE k \notin ShiftKeys \cup CtlKeys /\ k # "caps"
        BY <1>2, <2>1, <2>2, <2>6a, <3>4 DEF Modifiers, shiftcode, togglecode
      <3> QED BY <3>1, <3>2, <3>3, <3>4
    <2>8. PICK o : o = Meant(g.shift, g.ctl, g.caps, k) OBVIOUS
    <2>9. /\ "CTL" \in s2 <=> g.ctl
          /\ "SHIFT" \in s2 <=> g.shift
          /\ "CAPSLOCK" \in s2 <=> g.caps
      BY <2>7 DEF Modifiers
    <2>10. e.out = a.out \o o
      <3>1. e.out = IF r.c = NO THEN a.out ELSE Append(a.out, r.c) BY <1>2, <1>6
      <3>2. (o = <<>> /\ r.c = NO) \/ (o = <<r.c>> /\ r.c # NO)
        <4>1. CASE k = "d"
          BY <2>3, <2>4, <2>6, <2>8, <2>9, <4>1 DEF charcode, Capital, Meant, NO
        <4>2. CASE k = "enter"
          BY <2>3, <2>4, <2>8, <2>9, <4>2 DEF charcode, Capital, Meant, NO
        <4>3. CASE k = "bs"
          BY <2>3, <2>4, <2>8, <2>9, <4>3 DEF charcode, Capital, Meant, NO
        <4>4. CASE k \in {"lshift", "rshift", "lctl", "rctl", "caps"}
          BY <2>3, <2>4, <2>8, <2>9, <4>4 DEF charcode, Capital, Meant, NO
        <4> QED BY <4>1, <4>2, <4>3, <4>4 DEF Keys, ShiftKeys, CtlKeys
      <3>3. r.c \in Chars \cup {NO}
        BY <2>3, <2>4 DEF charcode, Capital, Chars, NO
      <3>4. CASE o = <<>> /\ r.c = NO BY <1>2, <3>1, <3>4
      <3>5. CASE o = <<r.c>> /\ r.c # NO
        <4>1. \A v \in Chars : Append(a.out, v) = a.out \o <<v>> BY <1>2
        <4> QED BY <3>1, <3>3, <3>5, <4>1
      <3> QED BY <3>2, <3>4, <3>5
    <2> QED BY <1>6, <1>8, <2>4, <2>5, <2>6, <2>7, <2>8, <2>10
  <1> QED BY <1>7, <1>8

-----------------------------------------------------------------------------
(* The ring *)

Anychars == Chars \cup {"s", NO}
Places == 0..(CONSBUFSIZE - 1)
Rings == [buf : [Places -> Anychars], rpos : Places, wpos : Places]

\* Place x of a ring of n places, for an x that may have left it on either side.
LEMMA PlaceOf ==
  ASSUME NEW n \in Nat \ {0}, NEW x \in Int, -n < x, x < 2 * n
  PROVE  x % n = IF x < 0 THEN x + n ELSE IF x < n THEN x ELSE x - n
OBVIOUS

\* How many places are taken from a to b in a ring of n places, the place x
\* when x may have left it at the end, and the place after x.
Count(n, a, b) == IF b < a THEN b - a + n ELSE b - a
Wrap(n, x) == IF x < n THEN x ELSE x - n
After(n, x) == IF x + 1 = n THEN 0 ELSE x + 1

\* Counting the places of a ring: one more at the end is one more taken, one
\* less at the front is one less, and no place counts twice.
LEMMA CountFacts ==
  ASSUME NEW n \in Nat \ {0}, NEW a \in 0..(n - 1), NEW b \in 0..(n - 1)
  PROVE  /\ Count(n, a, b) \in 0..(n - 1)
         /\ After(n, a) \in 0..(n - 1) /\ After(n, b) \in 0..(n - 1)
         /\ Wrap(n, a + Count(n, a, b)) = b
         /\ \A i \in 0..(Count(n, a, b) - 1) :
              Wrap(n, a + i) \in 0..(n - 1) /\ Wrap(n, a + i) # b
         /\ Count(n, a, b) + 1 < n => Count(n, a, After(n, b)) = Count(n, a, b) + 1
         /\ a # b => /\ Count(n, a, b) > 0
                     /\ Count(n, After(n, a), b) = Count(n, a, b) - 1
                     /\ \A i \in 0..(Count(n, a, b) - 2) :
                          Wrap(n, After(n, a) + i) = Wrap(n, a + i + 1)
BY DEF Count, Wrap, After

\* Sequences are equal that have the same elements.
LEMMA SameSeq ==
  ASSUME NEW S, NEW s \in Seq(S), NEW t \in Seq(S), Len(s) = Len(t),
         \A i \in 1..Len(s) : s[i] = t[i]
  PROVE  s = t
OBVIOUS

\* The places of a ring are numbered as the code counts them.
LEMMA RingFacts ==
  ASSUME NEW r \in Rings
  PROVE  /\ CONSBUFSIZE \in Nat \ {0}
         /\ r.rpos \in Places /\ r.wpos \in Places /\ r.buf \in [Places -> Anychars]
         /\ Pending(r) = Count(CONSBUFSIZE, r.rpos, r.wpos)
         /\ Pending(r) \in 0..(CONSBUFSIZE - 1)
         /\ Len(Ring(r)) = Pending(r) /\ Ring(r) \in Seq(Anychars)
         /\ \A i \in 1..Pending(r) :
              Ring(r)[i] = r.buf[Wrap(CONSBUFSIZE, r.rpos + (i - 1))]
PROOF
  <1>1. CONSBUFSIZE \in Nat \ {0} BY ConsoleAssumption
  <1>2. r.rpos \in Places /\ r.wpos \in Places /\ r.buf \in [Places -> Anychars] BY DEF Rings
  <1>3. PICK n, a, b : n = CONSBUFSIZE /\ a = r.rpos /\ b = r.wpos OBVIOUS
  <1>4. n \in Nat \ {0} /\ a \in 0..(n - 1) /\ b \in 0..(n - 1) BY <1>1, <1>2, <1>3 DEF Places
  <1>5. Pending(r) = Count(n, a, b)
    <2>1. PICK x : x = b - a OBVIOUS
    <2>2. x \in Int /\ -n < x /\ x < n /\ x < 2 * n BY <1>4, <2>1
    <2>3. x % n = IF x < 0 THEN x + n ELSE IF x < n THEN x ELSE x - n BY <1>4, <2>2, PlaceOf
    <2>4. Pending(r) = x % n BY <1>3, <2>1 DEF Pending
    <2> QED BY <1>4, <2>1, <2>2, <2>3, <2>4 DEF Count
  <1>6. Pending(r) \in 0..(n - 1) BY <1>4, <1>5, CountFacts
  <1>7. ASSUME NEW i \in 1..Pending(r)
        PROVE  Ring(r)[i] = r.buf[Wrap(n, a + (i - 1))] /\ Wrap(n, a + (i - 1)) \in 0..(n - 1)
    <2>1. PICK x : x = a + i - 1 OBVIOUS
    <2>2. x \in Nat /\ x \in Int /\ -n < x /\ x < 2 * n /\ a + (i - 1) = x
      BY <1>4, <1>6, <2>1
    <2>3. x % n = IF x < 0 THEN x + n ELSE IF x < n THEN x ELSE x - n BY <1>4, <2>2, PlaceOf
    <2>4. Ring(r)[i] = r.buf[x % n] BY <1>3, <2>1 DEF Ring
    <2>5. x % n = Wrap(n, a + (i - 1)) BY <2>2, <2>3 DEF Wrap
    <2>6. Wrap(n, x) \in 0..(n - 1) BY <1>4, <2>2 DEF Wrap
    <2> QED BY <2>2, <2>4, <2>5, <2>6
  <1>8. \A i \in 1..Pending(r) : Ring(r)[i] \in Anychars BY <1>2, <1>3, <1>7 DEF Places
  <1>9. Len(Ring(r)) = Pending(r) /\ Ring(r) \in Seq(Anychars)
    <2>1. PICK p \in Nat : p = Pending(r) BY <1>4, <1>6
    <2>2. Ring(r) = [i \in 1..p |-> Ring(r)[i]] BY <2>1 DEF Ring
    <2>3. \A i \in 1..p : Ring(r)[i] \in Anychars BY <1>8, <2>1
    <2> HIDE DEF Ring
    <2> QED BY <2>1, <2>2, <2>3
  <1>10. \A i \in 1..Pending(r) :
           Ring(r)[i] = r.buf[Wrap(CONSBUFSIZE, r.rpos + (i - 1))]
    BY <1>3, <1>7
  <1> QED BY <1>1, <1>2, <1>3, <1>5, <1>6, <1>9, <1>10

\* A character more in a ring that has room is behind the others.
LEMMA PutNext ==
  ASSUME NEW r \in Rings, NEW c \in Anychars, Pending(r) + 1 < CONSBUFSIZE,
         NEW q, q = put_next(r, c)
  PROVE  q \in Rings /\ Pending(q) = Pending(r) + 1 /\ Ring(q) = Append(Ring(r), c)
PROOF
  <1>1. PICK n, a, b, p : n = CONSBUFSIZE /\ a = r.rpos /\ b = r.wpos /\ p = Count(n, a, b)
    OBVIOUS
  <1>2. /\ n \in Nat \ {0} /\ a \in 0..(n - 1) /\ b \in 0..(n - 1) /\ Places = 0..(n - 1)
        /\ r.buf \in [Places -> Anychars] /\ p = Pending(r) /\ p + 1 < n
        /\ Len(Ring(r)) = p /\ Ring(r) \in Seq(Anychars)
        /\ \A i \in 1..p : Ring(r)[i] = r.buf[Wrap(n, a + (i - 1))]
    BY <1>1, RingFacts DEF Places
  <1>3. /\ p \in 0..(n - 1) /\ After(n, b) \in 0..(n - 1) /\ Wrap(n, a + p) = b
        /\ \A i \in 0..(p - 1) : Wrap(n, a + i) \in 0..(n - 1) /\ Wrap(n, a + i) # b
        /\ Count(n, a, After(n, b)) = p + 1
    <2>1. n \in Nat \ {0} /\ a \in 0..(n - 1) /\ b \in 0..(n - 1) /\ p = Count(n, a, b) /\ p + 1 < n
      BY <1>1, <1>2
    <2> QED BY <2>1, CountFacts
  <1>4. /\ q.rpos = a /\ q.wpos = After(n, b) /\ q.buf = [r.buf EXCEPT ![b] = c]
        /\ q \in Rings
    BY <1>1, <1>2, <1>3 DEF put_next, Rings, After
  <1>5. /\ Pending(q) = p + 1 /\ Len(Ring(q)) = p + 1 /\ Ring(q) \in Seq(Anychars)
        /\ \A i \in 1..(p + 1) : Ring(q)[i] = q.buf[Wrap(n, a + (i - 1))]
    <2>1. q \in Rings BY <1>4
    <2>2. /\ Pending(q) = Count(CONSBUFSIZE, q.rpos, q.wpos)
          /\ Len(Ring(q)) = Pending(q) /\ Ring(q) \in Seq(Anychars)
          /\ \A i \in 1..Pending(q) :
               Ring(q)[i] = q.buf[Wrap(CONSBUFSIZE, q.rpos + (i - 1))]
      BY <2>1, RingFacts
    <2>3. CONSBUFSIZE = n /\ q.rpos = a /\ q.wpos = After(n, b) BY <1>1, <1>4
    <2>4. Pending(q) = p + 1 BY <1>3, <2>2, <2>3
    <2> QED BY <2>2, <2>3, <2>4
  <1>6. PICK s : s = Append(Ring(r), c) OBVIOUS
  <1>7. /\ s \in Seq(Anychars) /\ Len(s) = p + 1 /\ s[p + 1] = c
        /\ \A i \in 1..p : s[i] = Ring(r)[i]
    BY <1>2, <1>3, <1>6
  <1>8. ASSUME NEW i \in 1..(p + 1) PROVE Ring(q)[i] = s[i]
    <2>1. CASE i = p + 1
      <3>1. Wrap(n, a + (i - 1)) = b
        <4>1. i - 1 = p BY <1>3, <2>1
        <4> QED BY <1>3, <4>1
      <3>2. q.buf[b] = c BY <1>2, <1>4
      <3> QED BY <1>5, <1>7, <2>1, <3>1, <3>2
    <2>2. CASE i # p + 1
      <3>1. i \in 1..p /\ i - 1 \in 0..(p - 1) BY <1>3, <2>2
      <3>2. PICK x : x = Wrap(n, a + (i - 1)) OBVIOUS
      <3>3. x \in Places /\ x # b BY <1>2, <1>3, <3>1, <3>2
      <3>4. q.buf[x] = r.buf[x] BY <1>2, <1>4, <3>3
      <3> QED BY <1>2, <1>5, <1>7, <3>1, <3>2, <3>4
    <2> QED BY <2>1, <2>2
  <1>9. Ring(q) = s BY <1>5, <1>7, <1>8, SameSeq
  <1> QED BY <1>2, <1>4, <1>5, <1>6, <1>9

\* The reader takes the first character of a ring that is not empty.
LEMMA GetNext ==
  ASSUME NEW r \in Rings, r.rpos # r.wpos, NEW q, q = get_next(r)
  PROVE  /\ q \in Rings /\ Ring(r) # <<>>
         /\ Head(Ring(r)) = r.buf[r.rpos] /\ Ring(q) = Tail(Ring(r))
PROOF
  <1>1. PICK n, a, b, p : n = CONSBUFSIZE /\ a = r.rpos /\ b = r.wpos /\ p = Count(n, a, b)
    OBVIOUS
  <1>2. /\ n \in Nat \ {0} /\ a \in 0..(n - 1) /\ b \in 0..(n - 1) /\ Places = 0..(n - 1)
        /\ r.buf \in [Places -> Anychars] /\ p = Pending(r)
        /\ Len(Ring(r)) = p /\ Ring(r) \in Seq(Anychars)
        /\ \A i \in 1..p : Ring(r)[i] = r.buf[Wrap(n, a + (i - 1))]
    BY <1>1, RingFacts DEF Places
  <1>3. /\ p \in 0..(n - 1) /\ After(n, a) \in 0..(n - 1) /\ p > 0
        /\ Count(n, After(n, a), b) = p - 1
        /\ \A i \in 0..(p - 2) : Wrap(n, After(n, a) + i) = Wrap(n, a + i + 1)
    <2>1. n \in Nat \ {0} /\ a \in 0..(n - 1) /\ b \in 0..(n - 1) /\ p = Count(n, a, b) /\ a # b
      BY <1>1, <1>2
    <2> QED BY <2>1, CountFacts
  <1>4. q.rpos = After(n, a) /\ q.wpos = b /\ q.buf = r.buf /\ q \in Rings
    BY <1>1, <1>2, <1>3 DEF get_next, Rings, After
  <1>5. /\ Pending(q) = p - 1 /\ Len(Ring(q)) = p - 1 /\ Ring(q) \in Seq(Anychars)
        /\ \A i \in 1..(p - 1) : Ring(q)[i] = q.buf[Wrap(n, After(n, a) + (i - 1))]
    <2>1. /\ Pending(q) = Count(n, After(n, a), b)
          /\ Len(Ring(q)) = Pending(q) /\ Ring(q) \in Seq(Anychars)
          /\ \A i \in 1..Pending(q) : Ring(q)[i] = q.buf[Wrap(n, After(n, a) + (i - 1))]
      BY <1>1, <1>4, RingFacts
    <2> QED BY <1>3, <2>1
  <1>6. PICK s : s = Tail(Ring(r)) OBVIOUS
  <1>7. /\ Ring(r) # <<>> /\ Head(Ring(r)) = Ring(r)[1]
        /\ s \in Seq(Anychars) /\ Len(s) = p - 1
        /\ \A i \in 1..(p - 1) : s[i] = Ring(r)[i + 1]
    BY <1>2, <1>3, <1>6
  <1>8. Ring(r)[1] = r.buf[a]
    <2>1. 1 \in 1..p /\ a + (1 - 1) = a /\ a < n BY <1>2, <1>3
    <2> QED BY <1>2, <2>1 DEF Wrap
  <1>9. ASSUME NEW i \in 1..(p - 1) PROVE Ring(q)[i] = s[i]
    <2>1. i - 1 \in 0..(p - 2) /\ i + 1 \in 1..p /\ a + (i - 1) + 1 = a + ((i + 1) - 1)
      BY <1>2, <1>3
    <2>2. Wrap(n, After(n, a) + (i - 1)) = Wrap(n, a + (i - 1) + 1) BY <1>3, <2>1
    <2>3. Wrap(n, After(n, a) + (i - 1)) = Wrap(n, a + ((i + 1) - 1)) BY <2>1, <2>2
    <2>4. PICK j \in 1..p : j = i + 1 BY <2>1
    <2>5. Ring(r)[j] = r.buf[Wrap(n, a + (j - 1))] BY <1>2
    <2>6. s[i] = Ring(r)[j] BY <1>7, <2>4
    <2>7. Ring(q)[i] = r.buf[Wrap(n, After(n, a) + (i - 1))] BY <1>4, <1>5
    <2> QED BY <2>3, <2>4, <2>5, <2>6, <2>7
  <1>10. Ring(q) = s BY <1>5, <1>7, <1>9, SameSeq
  <1> QED BY <1>1, <1>4, <1>6, <1>7, <1>8, <1>10
-----------------------------------------------------------------------------
(* Sequences, a character at a time *)

Pre(y, k) == [i \in 1..k |-> y[i]]

\* A sequence grows from the empty one by an element at a time.
LEMMA PreFacts ==
  ASSUME NEW S, NEW y \in Seq(S)
  PROVE  /\ Len(y) \in Nat /\ Pre(y, 0) = <<>> /\ Pre(y, Len(y)) = y
         /\ \A k \in 0..Len(y) : Pre(y, k) \in Seq(S)
         /\ \A k \in 1..Len(y) : y[k] \in S /\ Pre(y, k) = Append(Pre(y, k - 1), y[k])
PROOF
  <1>1. Len(y) \in Nat /\ \A k \in 1..Len(y) : y[k] \in S OBVIOUS
  <1>2. ASSUME NEW k \in 0..Len(y) PROVE Pre(y, k) \in Seq(S) /\ Len(Pre(y, k)) = k
    <2>1. k \in Nat /\ \A i \in 1..k : y[i] \in S BY <1>1
    <2> QED BY <2>1 DEF Pre
  <1>3. ASSUME NEW k \in 1..Len(y) PROVE Pre(y, k) = Append(Pre(y, k - 1), y[k])
    <2>1. PICK d : d = Append(Pre(y, k - 1), y[k]) OBVIOUS
    <2>2. k - 1 \in 0..Len(y) /\ k \in 0..Len(y) BY <1>1
    <2>3. /\ Pre(y, k - 1) \in Seq(S) /\ Len(Pre(y, k - 1)) = k - 1
          /\ Pre(y, k) \in Seq(S) /\ Len(Pre(y, k)) = k
      BY <1>2, <2>2
    <2>4. /\ d \in Seq(S) /\ Len(d) = k /\ d[k] = y[k]
          /\ \A i \in 1..(k - 1) : d[i] = Pre(y, k - 1)[i]
      BY <1>1, <2>1, <2>2, <2>3
    <2>5. \A i \in 1..(k - 1) : Pre(y, k - 1)[i] = y[i] BY DEF Pre
    <2>6. \A i \in 1..k : Pre(y, k)[i] = y[i] BY DEF Pre
    <2>7. \A i \in 1..k : Pre(y, k)[i] = d[i] BY <2>4, <2>5, <2>6
    <2>8. Pre(y, k) = d BY <2>3, <2>4, <2>7, SameSeq
    <2> QED BY <2>1, <2>8
  <1>4. Pre(y, 0) = <<>>
    <2>1. 0 \in 0..Len(y) BY <1>1
    <2> QED BY <1>2, <2>1
  <1>5. Pre(y, Len(y)) = y
    <2>1. Len(y) \in 0..Len(y) BY <1>1
    <2>2. \A i \in 1..Len(y) : Pre(y, Len(y))[i] = y[i] BY DEF Pre
    <2> QED BY <1>2, <2>1, <2>2, SameSeq
  <1> QED BY <1>1, <1>2, <1>3, <1>4, <1>5

\* What follows a sequence may be put behind it an element at a time.
LEMMA CatAppend ==
  ASSUME NEW S, NEW x \in Seq(S), NEW y \in Seq(S), NEW c \in S
  PROVE  x \o <<>> = x /\ x \o Append(y, c) = Append(x \o y, c) /\ x \o y \in Seq(S)
OBVIOUS

-----------------------------------------------------------------------------
(* The characters of the keyboard among others *)

Kept(s, c) == IF c = "s" THEN s ELSE Append(s, c)
KeyedRun(cs, t) ==
  /\ t \in [0..Len(cs) -> Seq(Anychars)] /\ t[0] = <<>>
  /\ \A k \in 1..Len(cs) : t[k] = Kept(t[k - 1], cs[k])

\* Keyed is the last state of a loop.
LEMMA KeyedIs ==
  ASSUME NEW cs \in Seq(Anychars)
  PROVE  \E t : KeyedRun(cs, t) /\ Keyed(cs) = t[Len(cs)]
PROOF
  <1> DEFINE N == Len(cs)
             T == Seq(Anychars)
             a == <<>>
             F == [y \in T \X (1..N) |-> Kept(y[1], cs[y[2]])]
             Is(t) == t = [k \in 0..N |-> IF k = 0 THEN a ELSE Kept(t[k - 1], cs[k])]
             r == CHOOSE t : Is(t)
  <1>1. N \in Nat /\ \A k \in 1..N : cs[k] \in Anychars OBVIOUS
  <1>2. a \in T OBVIOUS
  <1>3. \A x \in T, c \in Anychars : Kept(x, c) \in T BY DEF Kept
  <1>4. Keyed(cs) = r[N]
    <2>1. \A t : Is(t) <=> t = [k \in 0..N |-> IF k = 0 THEN <<>>
                                  ELSE IF cs[k] = "s" THEN t[k - 1] ELSE Append(t[k - 1], cs[k])]
      BY Zenon DEF Kept
    <2> QED BY Zenon DEF Keyed, Kept
  <1> HIDE DEF N, a, T
  <1>5. \A x \in T, k \in 1..N : F[<<x, k>>] = Kept(x, cs[k]) OBVIOUS
  <1> HIDE DEF F
  <1>6. PICK t \in [0..N -> T] : t[0] = a /\ \A k \in 1..N : t[k] = F[<<t[k - 1], k>>]
    <2>1. StepsIn(N, T, F) BY <1>1, <1>3, <1>5 DEF StepsIn
    <2>2. PICK t \in [0..N -> T] : Runs(N, a, F, t) BY <1>1, <1>2, <2>1, LoopRuns
    <2> QED BY <2>2 DEF Runs
  <1>7. Is(t)
    <2>1. \A k \in 0..N : k # 0 => k \in 1..N /\ k - 1 \in 0..N BY <1>1
    <2>2. \A k \in 0..N : k # 0 => t[k] = Kept(t[k - 1], cs[k]) BY <1>5, <1>6, <2>1
    <2>3. t = [k \in 0..N |-> t[k]] BY <1>6
    <2> QED BY <1>6, <2>2, <2>3
  <1>8. Is(r) BY <1>7
  <1> HIDE DEF r
  <1>9. r[0] = a /\ \A k \in 1..N : r[k] = Kept(r[k - 1], cs[k]) BY <1>1, <1>8
  <1>10. r = [k \in 0..N |-> r[k]] BY <1>8
  <1>11. \A k \in 0..N : r[k] \in T
    <2> DEFINE P == {k \in 0..N : r[k] \in T}
    <2>1. 0 \in P BY <1>1, <1>2, <1>9
    <2>2. ASSUME NEW k \in 1..N, k - 1 \in P PROVE k \in P
      <3>1. r[k - 1] \in T /\ cs[k] \in Anychars /\ k \in 0..N BY <1>1, <2>2
      <3>2. Kept(r[k - 1], cs[k]) \in T BY <1>3, <3>1
      <3> QED BY <1>9, <3>1, <3>2
    <2> HIDE DEF P
    <2>3. \A k \in 0..N : k \in P BY <1>1, <2>1, <2>2, RoundsKeep
    <2> QED BY <2>3 DEF P
  <1>12. r \in [0..N -> T] BY <1>10, <1>11
  <1> QED BY <1>4, <1>9, <1>12 DEF KeyedRun, N, a, T

\* One character more.
LEMMA KeyedAppend ==
  ASSUME NEW cs \in Seq(Anychars), NEW c \in Anychars
  PROVE  /\ Keyed(<<>>) = <<>> /\ Keyed(cs) \in Seq(Anychars)
         /\ Keyed(Append(cs, c)) = Kept(Keyed(cs), c)
PROOF
  <1>1. PICK d : d = Append(cs, c) OBVIOUS
  <1>2. /\ d \in Seq(Anychars) /\ Len(d) = Len(cs) + 1 /\ Len(cs) \in Nat
        /\ d[Len(d)] = c /\ \A k \in 1..Len(cs) : d[k] = cs[k]
    BY <1>1
  <1>3. PICK t : KeyedRun(cs, t) /\ Keyed(cs) = t[Len(cs)] BY KeyedIs
  <1>4. PICK u : KeyedRun(d, u) /\ Keyed(d) = u[Len(d)] BY <1>2, KeyedIs
  <1>5. PICK N : N = Len(cs) OBVIOUS
  <1>6. \A k \in 0..N : t[k] = u[k]
    <2> DEFINE P == {k \in 0..N : t[k] = u[k]}
    <2>1. 0 \in P BY <1>2, <1>3, <1>4, <1>5 DEF KeyedRun
    <2>2. ASSUME NEW k \in 1..N, k - 1 \in P PROVE k \in P
      <3>1. t[k] = Kept(t[k - 1], cs[k]) BY <1>3, <1>5 DEF KeyedRun
      <3>2. u[k] = Kept(u[k - 1], d[k]) BY <1>2, <1>4, <1>5 DEF KeyedRun
      <3>3. d[k] = cs[k] /\ t[k - 1] = u[k - 1] BY <1>2, <1>5, <2>2
      <3> QED BY <3>1, <3>2, <3>3
    <2> HIDE DEF P
    <2>3. \A k \in 0..N : k \in P BY <1>2, <1>5, <2>1, <2>2, RoundsKeep
    <2> QED BY <2>3 DEF P
  <1>7. Keyed(d) = Kept(Keyed(cs), c)
    <2>1. Len(d) \in 1..Len(d) /\ Len(d) - 1 = N BY <1>2, <1>5
    <2>2. u[Len(d)] = Kept(u[Len(d) - 1], d[Len(d)]) BY <1>4, <2>1 DEF KeyedRun
    <2>3. u[N] = t[N] BY <1>2, <1>5, <1>6
    <2> QED BY <1>2, <1>3, <1>4, <1>5, <2>1, <2>2, <2>3
  <1>8. Keyed(cs) \in Seq(Anychars) BY <1>2, <1>3 DEF KeyedRun
  <1>9. Keyed(<<>>) = <<>>
    <2>1. <<>> \in Seq(Anychars) /\ Len(<<>>) = 0 OBVIOUS
    <2>2. PICK v : KeyedRun(<<>>, v) /\ Keyed(<<>>) = v[0] BY <2>1, KeyedIs
    <2> QED BY <2>2 DEF KeyedRun
  <1> QED BY <1>1, <1>7, <1>8, <1>9

\* What comes of one sequence behind another is behind what comes of the other.
LEMMA KeyedCat ==
  ASSUME NEW x \in Seq(Anychars), NEW y \in Seq(Anychars)
  PROVE  Keyed(x \o y) = Keyed(x) \o Keyed(y)
PROOF
  <1> DEFINE P == {k \in 0..Len(y) : Keyed(x \o Pre(y, k)) = Keyed(x) \o Keyed(Pre(y, k))}
  <1>1. Len(y) \in Nat /\ Keyed(x) \in Seq(Anychars) /\ Keyed(<<>>) = <<>>
    BY KeyedAppend, PreFacts DEF Anychars
  <1>2. 0 \in P
    <2>1. x \o <<>> = x /\ Keyed(x) \o <<>> = Keyed(x) BY <1>1
    <2>2. Pre(y, 0) = <<>> /\ 0 \in 0..Len(y) BY <1>1, PreFacts
    <2> QED BY <1>1, <2>1, <2>2, Zenon
  <1>3. ASSUME NEW k \in 1..Len(y), k - 1 \in P PROVE k \in P
    <2>1. PICK z, c : z = Pre(y, k - 1) /\ c = y[k] OBVIOUS
    <2>2. k - 1 \in 0..Len(y) BY <1>1
    <2>3. z \in Seq(Anychars) /\ c \in Anychars /\ Pre(y, k) = Append(z, c)
      <3>1. y[k] \in Anychars /\ Pre(y, k) = Append(Pre(y, k - 1), y[k]) BY PreFacts
      <3>2. Pre(y, k - 1) \in Seq(Anychars) BY <2>2, PreFacts
      <3> QED BY <2>1, <3>1, <3>2
    <2>4. Keyed(x \o z) = Keyed(x) \o Keyed(z) BY <1>3, <2>1
    <2>5. x \o z \in Seq(Anychars) /\ x \o Append(z, c) = Append(x \o z, c)
      BY <2>3, CatAppend
    <2>6. Keyed(Append(x \o z, c)) = Kept(Keyed(x \o z), c) BY <2>3, <2>5, KeyedAppend
    <2>7. Keyed(Append(z, c)) = Kept(Keyed(z), c) /\ Keyed(z) \in Seq(Anychars)
      BY <2>3, KeyedAppend
    <2>8. Keyed(x) \o Append(Keyed(z), c) = Append(Keyed(x) \o Keyed(z), c)
      <3>1. PICK u, v : u = Keyed(x) /\ v = Keyed(z) OBVIOUS
      <3>2. u \in Seq(Anychars) /\ v \in Seq(Anychars) BY <1>1, <2>7, <3>1
      <3>3. u \o Append(v, c) = Append(u \o v, c) BY <2>3, <3>2, CatAppend, SMTT(30)
      <3> QED BY <3>1, <3>3, Zenon
    <2>9. Kept(Keyed(x) \o Keyed(z), c) = Keyed(x) \o Kept(Keyed(z), c) BY <2>8 DEF Kept
    <2>10. k \in 0..Len(y) BY <1>1
    <2>11. Keyed(x \o Append(z, c)) = Keyed(x) \o Keyed(Append(z, c))
      BY <2>4, <2>5, <2>6, <2>7, <2>9, Zenon
    <2> QED BY <2>3, <2>10, <2>11, Zenon
  <1> HIDE DEF P
  <1>4. \A k \in 0..Len(y) : k \in P BY <1>1, <1>2, <1>3, RoundsKeep
  <1>5. Len(y) \in P BY <1>1, <1>4
  <1> QED BY <1>5, PreFacts DEF P

\* Characters that all come from the keyboard.
LEMMA KeyedKeys ==
  ASSUME NEW y \in Seq(Chars)
  PROVE  y \in Seq(Anychars) /\ Keyed(y) = y
PROOF
  <1> DEFINE P == {k \in 0..Len(y) : Keyed(Pre(y, k)) = Pre(y, k)}
  <1>0. Len(y) \in Nat /\ \A k \in 0..Len(y) : Pre(y, k) \in Seq(Anychars)
    <2>1. y \in Seq(Anychars) BY DEF Anychars
    <2> QED BY <2>1, PreFacts
  <1>1. 0 \in P
    <2>1. Pre(y, 0) = <<>> BY PreFacts
    <2>2. <<>> \in Seq(Anychars) /\ "s" \in Anychars /\ 0 \in 0..Len(y) BY <1>0 DEF Anychars
    <2>3. Keyed(<<>>) = <<>> BY <2>2, KeyedAppend
    <2> QED BY <2>1, <2>2, <2>3, Zenon
  <1>2. ASSUME NEW k \in 1..Len(y), k - 1 \in P PROVE k \in P
    <2>1. PICK z, c : z = Pre(y, k - 1) /\ c = y[k] OBVIOUS
    <2>2. k - 1 \in 0..Len(y) BY <1>0
    <2>3. z \in Seq(Anychars) BY <1>0, <2>1, <2>2
    <2>4. c \in Chars /\ Pre(y, k) = Append(z, c)
      <3>1. y[k] \in Chars /\ Pre(y, k) = Append(Pre(y, k - 1), y[k]) BY PreFacts
      <3> QED BY <2>1, <3>1
    <2>5. c \in Anychars /\ c # "s" BY <2>4 DEF Chars, Anychars
    <2>6. Keyed(z) = z /\ k \in 0..Len(y) BY <1>0, <1>2, <2>1
    <2>7. Keyed(Append(z, c)) = Append(z, c)
      BY <2>3, <2>5, <2>6, KeyedAppend DEF Kept
    <2> QED BY <2>4, <2>6, <2>7, Zenon
  <1> HIDE DEF P
  <1>3. \A k \in 0..Len(y) : k \in P BY <1>0, <1>1, <1>2, RoundsKeep
  <1>4. Len(y) \in P BY <1>0, <1>3
  <1>5. y \in Seq(Anychars) BY DEF Anychars
  <1> QED BY <1>4, <1>5, PreFacts DEF P
-----------------------------------------------------------------------------
(* All characters of the devices *)

\* A character more leaves a ring, whether it has room or not.
LEMMA PutTyped ==
  ASSUME NEW r \in Rings, NEW c \in Anychars
  PROVE  put_next(r, c) \in Rings
PROOF
  <1>1. CONSBUFSIZE \in Nat \ {0} BY ConsoleAssumption
  <1>2. r.rpos \in Places /\ r.wpos \in Places /\ r.buf \in [Places -> Anychars] BY DEF Rings
  <1>3. (IF r.wpos + 1 = CONSBUFSIZE THEN 0 ELSE r.wpos + 1) \in Places
    BY <1>1, <1>2 DEF Places
  <1>4. [r.buf EXCEPT ![r.wpos] = c] \in [Places -> Anychars] BY <1>2
  <1> QED BY <1>2, <1>3, <1>4 DEF put_next, Rings

\* The states of the loop of cons_intr.
IntrRun(r, cs, t) ==
  /\ t \in [0..Len(cs) -> Rings] /\ t[0] = r
  /\ \A k \in 1..Len(cs) : t[k] = put_next(t[k - 1], cs[k])

\* cons_intr is the last state of the loop.
LEMMA IntrIs ==
  ASSUME NEW r \in Rings, NEW cs \in Seq(Anychars)
  PROVE  \E t : IntrRun(r, cs, t) /\ cons_intr(r, cs) = t[Len(cs)]
PROOF
  <1> DEFINE N == Len(cs)
             F == [y \in Rings \X (1..N) |-> put_next(y[1], cs[y[2]])]
             Is(t) == t = [k \in 0..N |-> IF k = 0 THEN r ELSE put_next(t[k - 1], cs[k])]
             e == CHOOSE t : Is(t)
  <1>1. N \in Nat /\ \A k \in 1..N : cs[k] \in Anychars OBVIOUS
  <1>2. cons_intr(r, cs) = e[N] BY Zenon DEF cons_intr
  <1> HIDE DEF N
  <1>3. \A x \in Rings, k \in 1..N : F[<<x, k>>] = put_next(x, cs[k]) OBVIOUS
  <1> HIDE DEF F
  <1>4. PICK t \in [0..N -> Rings] : t[0] = r /\ \A k \in 1..N : t[k] = F[<<t[k - 1], k>>]
    <2>1. StepsIn(N, Rings, F) BY <1>1, <1>3, PutTyped DEF StepsIn
    <2>2. PICK t \in [0..N -> Rings] : Runs(N, r, F, t) BY <1>1, <2>1, LoopRuns
    <2> QED BY <2>2 DEF Runs
  <1>5. Is(t)
    <2>1. \A k \in 0..N : k # 0 => k \in 1..N /\ k - 1 \in 0..N BY <1>1
    <2>2. \A k \in 0..N : k # 0 => t[k] = put_next(t[k - 1], cs[k]) BY <1>3, <1>4, <2>1
    <2>3. t = [k \in 0..N |-> t[k]] BY <1>4
    <2> QED BY <1>4, <2>2, <2>3
  <1>6. Is(e) BY <1>5
  <1> HIDE DEF e
  <1>7. e[0] = r /\ \A k \in 1..N : e[k] = put_next(e[k - 1], cs[k]) BY <1>1, <1>6
  <1>8. e = [k \in 0..N |-> e[k]] BY <1>6
  <1>9. \A k \in 0..N : e[k] \in Rings
    <2> DEFINE P == {k \in 0..N : e[k] \in Rings}
    <2>1. 0 \in P BY <1>1, <1>7
    <2>2. \A k \in 1..N : k - 1 \in P => k \in P BY <1>1, <1>7, PutTyped
    <2> HIDE DEF P
    <2>3. \A k \in 0..N : k \in P BY <1>1, <2>1, <2>2, RoundsKeep
    <2> QED BY <2>3 DEF P
  <1>10. e \in [0..N -> Rings] BY <1>8, <1>9
  <1> QED BY <1>2, <1>7, <1>10 DEF IntrRun, N

\* As long as there is room, what the devices give is behind what the ring held.
LEMMA IntrRing ==
  ASSUME NEW r \in Rings, NEW cs \in Seq(Anychars), NEW q, q = cons_intr(r, cs)
  PROVE  /\ q \in Rings
         /\ Pending(r) + Len(cs) < CONSBUFSIZE => Ring(q) = Ring(r) \o cs
PROOF
  <1>1. PICK t : IntrRun(r, cs, t) /\ q = t[Len(cs)] BY IntrIs
  <1>2. Len(cs) \in Nat /\ Len(cs) \in 0..Len(cs) OBVIOUS
  <1>3. q \in Rings BY <1>1, <1>2 DEF IntrRun
  <1>4. ASSUME Pending(r) + Len(cs) < CONSBUFSIZE PROVE Ring(q) = Ring(r) \o cs
    <2> DEFINE P == {k \in 0..Len(cs) : /\ Pending(t[k]) = Pending(r) + k
                                        /\ Ring(t[k]) = Ring(r) \o Pre(cs, k)}
    <2>1. /\ CONSBUFSIZE \in Nat /\ Pending(r) \in Nat /\ Ring(r) \in Seq(Anychars)
      BY RingFacts
    <2>2. 0 \in P
      <3>1. t[0] = r /\ Pre(cs, 0) = <<>> /\ Ring(r) \o <<>> = Ring(r) /\ Pending(r) = Pending(r) + 0
        BY <1>1, <2>1, PreFacts DEF IntrRun
      <3>2. 0 \in 0..Len(cs) BY <1>2
      <3> QED BY <3>1, <3>2, Zenon
    <2>3. ASSUME NEW k \in 1..Len(cs), k - 1 \in P PROVE k \in P
      <3>1. PICK z, c, x, y : z = Pre(cs, k - 1) /\ c = cs[k] /\ x = t[k - 1] /\ y = t[k] OBVIOUS
      <3>2. k - 1 \in 0..Len(cs) /\ k \in 0..Len(cs) BY <1>2
      <3>3. z \in Seq(Anychars) /\ c \in Anychars /\ Pre(cs, k) = Append(z, c)
        <4>1. cs[k] \in Anychars /\ Pre(cs, k) = Append(Pre(cs, k - 1), cs[k]) BY PreFacts
        <4>2. Pre(cs, k - 1) \in Seq(Anychars) BY <3>2, PreFacts
        <4> QED BY <3>1, <4>1, <4>2
      <3>4. x \in Rings /\ y = put_next(x, c) BY <1>1, <3>1, <3>2 DEF IntrRun
      <3>5. Pending(x) = Pending(r) + (k - 1) /\ Ring(x) = Ring(r) \o z BY <2>3, <3>1
      <3>6. Pending(x) + 1 < CONSBUFSIZE /\ Pending(x) + 1 = Pending(r) + k
        BY <1>2, <1>4, <2>1, <3>5
      <3>7. Pending(y) = Pending(r) + k /\ Ring(y) = Append(Ring(r) \o z, c)
        BY <3>3, <3>4, <3>5, <3>6, PutNext
      <3>8. Ring(r) \o Append(z, c) = Append(Ring(r) \o z, c) BY <2>1, <3>3, CatAppend
      <3> QED BY <3>1, <3>2, <3>3, <3>7, <3>8, Zenon
    <2> HIDE DEF P
    <2>4. \A k \in 0..Len(cs) : k \in P BY <1>2, <2>2, <2>3, RoundsKeep
    <2>5. Len(cs) \in P BY <1>2, <2>4
    <2>6. Pre(cs, Len(cs)) = cs BY PreFacts
    <2> QED BY <1>1, <2>5, <2>6, Zenon DEF P
  <1> QED BY <1>3, <1>4

\* The codes of a key behind those that wait.
LEMMA DrainCodes ==
  ASSUME NEW s \in SUBSET Mods, NEW codes \in Seq(Scancodes), NEW k \in Keys, NEW up \in BOOLEAN
  PROVE  /\ codes \o Codes(k, up) \in Seq(Scancodes)
         /\ Drain(s, codes \o Codes(k, up)) = KeyCodes(Drain(s, codes), k, up)
PROOF
  <1>1. PICK p, x : p = [key |-> "E0", up |-> FALSE] /\ x = [key |-> k, up |-> up] OBVIOUS
  <1>2. p \in Scancodes /\ x \in Scancodes BY <1>1 DEF Scancodes
  <1>3. CASE k = "rctl"
    <2>1. Codes(k, up) = <<p>> \o <<x>> BY <1>1, <1>3 DEF Codes
    <2>2. PICK m : m = Append(codes, p) OBVIOUS
    <2>3. m \in Seq(Scancodes) /\ Append(m, x) \in Seq(Scancodes) BY <1>2, <2>2
    <2>4. codes \o (<<p>> \o <<x>>) = Append(m, x) BY <1>2, <2>2
    <2>5. Drain(s, Append(m, x)) = proc_next(Drain(s, m), x) BY <1>2, <2>3, DrainAppend
    <2>6. Drain(s, m) = proc_next(Drain(s, codes), p) BY <1>2, <2>2, DrainAppend
    <2> QED BY <1>1, <1>3, <2>1, <2>3, <2>4, <2>5, <2>6, Zenon DEF KeyCodes
  <1>4. CASE k # "rctl"
    <2>1. Codes(k, up) = <<>> \o <<x>> BY <1>1, <1>4 DEF Codes
    <2>2. codes \o (<<>> \o <<x>>) = Append(codes, x) BY <1>2
    <2>3. Append(codes, x) \in Seq(Scancodes) BY <1>2
    <2>4. Drain(s, Append(codes, x)) = proc_next(Drain(s, codes), x) BY <1>2, DrainAppend
    <2> QED BY <1>1, <1>4, <2>1, <2>2, <2>3, <2>4, Zenon DEF KeyCodes
  <1> QED BY <1>3, <1>4
-----------------------------------------------------------------------------
(* From the keys to the reader *)

\* What is typed between the ring and the controller: the characters that
\* wait in the one, then those that wait in the other.
Waiting(r, s, codes) == Keyed(Ring(r)) \o Drain(s, codes).out

\* The modifiers, once all codes have been read, are those that are down.
RInv ==
  /\ held \in Helds /\ kbd \in Seq(Scancodes) /\ shift \in SUBSET Mods
  /\ Drain(shift, kbd).shift = Modifiers(held)
  /\ cons \in Rings /\ serial \in {NO, "absent", "s"} /\ overrun \in BOOLEAN
  /\ ~overrun => typed = Waiting(cons, shift, kbd)

\* Nobody has pressed a key and nothing waits.
LEMMA RInit == ConsoleInit => RInv
PROOF
  <1> SUFFICES ASSUME ConsoleInit PROVE RInv
    OBVIOUS
  <1> USE DEF ConsoleInit
  <1>1. CONSBUFSIZE \in Nat \ {0} BY ConsoleAssumption
  <1>2. held \in Helds /\ kbd \in Seq(Scancodes) /\ shift \in SUBSET Mods /\ overrun \in BOOLEAN
    <2>1. /\ held = [down |-> {}, shift |-> FALSE, ctl |-> FALSE, caps |-> FALSE, n |-> 0]
          /\ kbd = <<>> /\ shift = {}
          /\ overrun = FALSE
      OBVIOUS
    <2> HIDE DEF ConsoleInit
    <2>2. held \in Helds BY <2>1 DEF Helds
    <2>3. kbd \in Seq(Scancodes) BY <2>1
    <2>4. shift \in SUBSET Mods BY <2>1
    <2> QED BY <2>1, <2>2, <2>3, <2>4
  <1>3. Modifiers(held) = {} BY DEF Modifiers
  <1>4. Drain(shift, kbd) = [shift |-> {}, out |-> <<>>]
    <2>1. {} \in SUBSET Mods /\ <<>> \in Seq(Scancodes) /\ [key |-> "E0", up |-> FALSE] \in Scancodes
      BY DEF Scancodes
    <2>2. Drain({}, <<>>) = [shift |-> {}, out |-> <<>>] BY <2>1, DrainAppend
    <2> QED BY <2>2
  <1>5. cons \in Rings BY <1>1 DEF Rings, Places, Anychars
  <1>6. serial \in {NO, "absent", "s"} BY DEF serial_init
  <1>7. Waiting(cons, shift, kbd) = <<>>
    <2>1. Pending(cons) = 0
      <3>1. cons.rpos = 0 /\ cons.wpos = 0 BY DEF ConsoleInit
      <3>2. Pending(cons) = Count(CONSBUFSIZE, 0, 0) BY <1>5, <3>1, RingFacts
      <3> QED BY <3>2 DEF Count
    <2>2. Ring(cons) = <<>> BY <1>5, <2>1, RingFacts
    <2>3. <<>> \in Seq(Anychars) /\ "s" \in Anychars BY DEF Anychars
    <2>4. Keyed(<<>>) = <<>> BY <2>3, KeyedAppend
    <2>5. Drain(shift, kbd).out = <<>> BY <1>4
    <2>6. Keyed(Ring(cons)) = <<>> BY <2>2, <2>4, Zenon
    <2> HIDE DEF ConsoleInit
    <2> QED BY <2>5, <2>6 DEF Waiting
  <1>8. typed = <<>> OBVIOUS
  <1> HIDE DEF ConsoleInit
  <1> QED BY <1>2, <1>3, <1>4, <1>5, <1>6, <1>7, <1>8 DEF RInv

\* What waits is a sequence of characters, of the ring and of the controller.
LEMMA WaitingTyped ==
  ASSUME RInv
  PROVE  /\ Drain(shift, kbd) \in Drained /\ Drain(shift, kbd).out \in Seq(Chars)
         /\ Drain(shift, kbd).out \in Seq(Anychars)
         /\ Ring(cons) \in Seq(Anychars) /\ Keyed(Ring(cons)) \in Seq(Anychars)
PROOF
  <1>1. shift \in SUBSET Mods /\ kbd \in Seq(Scancodes) /\ cons \in Rings BY DEF RInv
  <1>2. [key |-> "E0", up |-> FALSE] \in Scancodes /\ "s" \in Anychars
    BY DEF Scancodes, Anychars
  <1>3. Drain(shift, kbd) \in Drained BY <1>1, <1>2, DrainAppend
  <1>4. Drain(shift, kbd).out \in Seq(Chars) BY <1>3 DEF Drained
  <1>5. Drain(shift, kbd).out \in Seq(Anychars) BY <1>4, KeyedKeys
  <1>6. Ring(cons) \in Seq(Anychars) BY <1>1, RingFacts
  <1>7. Keyed(Ring(cons)) \in Seq(Anychars) BY <1>2, <1>6, KeyedAppend
  <1> QED BY <1>3, <1>4, <1>5, <1>6, <1>7

\* One sequence behind two.
LEMMA CatAssoc ==
  ASSUME NEW x \in Seq(Anychars), NEW y \in Seq(Anychars), NEW z \in Seq(Anychars)
  PROVE  x \o (y \o z) = (x \o y) \o z
OBVIOUS

\* A key that is pressed means what the modifiers that are down say.
LEMMA PressLemma ==
  ASSUME RInv, NEW k \in Keys, press(k)
  PROVE  RInv'
PROOF
  <1>1. PICK a : a = Drain(shift, kbd) OBVIOUS
  <1>2. PICK o, g : /\ o = Meant(Shifted(held, k), Ctled(held, k), Toggled(held, k), k)
                    /\ g = Pressed(held, k)
    OBVIOUS
  <1>3. /\ kbd' = kbd \o Codes(k, FALSE) /\ held' = g
        /\ typed' = IF overrun THEN <<>> ELSE typed \o o
        /\ shift' = shift /\ cons' = cons /\ serial' = serial /\ overrun' = overrun
    BY <1>2, Zenon DEF press, Meant, Toggled, Shifted, Ctled, Pressed
  <1>4. /\ held \in Helds /\ kbd \in Seq(Scancodes) /\ shift \in SUBSET Mods
        /\ a.shift = Modifiers(held) /\ cons \in Rings /\ overrun \in BOOLEAN
        /\ serial \in {NO, "absent", "s"}
    BY <1>1 DEF RInv
  <1>5. a \in Drained /\ a.out \in Seq(Anychars) /\ Keyed(Ring(cons)) \in Seq(Anychars)
    BY <1>1, WaitingTyped
  <1>6. PICK e : e = KeyCodes(a, k, FALSE) OBVIOUS
  <1>7. e.shift = Modifiers(g) /\ e.out = a.out \o o
    <2>1. FALSE \in BOOLEAN OBVIOUS
    <2>2. KeyDone(held, k, FALSE, a, e) BY <1>4, <1>5, <1>6, <2>1, KeyProc, Zenon
    <2> QED BY <1>2, <2>2, Zenon DEF KeyDone
  <1>8. kbd' \in Seq(Scancodes) /\ Drain(shift, kbd') = e
    BY <1>1, <1>3, <1>4, <1>6, DrainCodes
  <1>9. held' \in Helds
    <2>1. held.down \cup {k} \in SUBSET Keys /\ held.n + 1 \in Nat /\ held.caps \in BOOLEAN
      BY <1>4 DEF Helds
    <2>2. (~held.caps) \in BOOLEAN OBVIOUS
    <2>3. Toggled(held, k) \in BOOLEAN BY <2>1, <2>2, Zenon DEF Toggled
    <2>3a. Shifted(held, k) \in BOOLEAN /\ Ctled(held, k) \in BOOLEAN
      BY Zenon DEF Shifted, Ctled
    <2>4. PICK w, x, y, t, m : /\ w = held.down \cup {k} /\ t = Toggled(held, k)
                               /\ m = held.n + 1
                               /\ x = Shifted(held, k) /\ y = Ctled(held, k)
      OBVIOUS
    <2>5. w \in SUBSET Keys /\ t \in BOOLEAN /\ m \in Nat /\ x \in BOOLEAN /\ y \in BOOLEAN
      BY <2>1, <2>3, <2>3a, <2>4
    <2>6. [down |-> w, shift |-> x, ctl |-> y, caps |-> t, n |-> m] \in Helds
      BY <2>5 DEF Helds
    <2> QED BY <1>2, <1>3, <2>4, <2>6, Zenon DEF Pressed
  <1>10. o \in Seq(Anychars)
    <2>1. \A c \in {"^D", "CR", "D", "d", "LF", "BS"} : <<c>> \in Seq(Anychars)
      BY DEF Anychars, Chars
    <2>2. <<>> \in Seq(Anychars) OBVIOUS
    <2>3. o = <<>> \/ \E c \in {"^D", "CR", "D", "d", "LF", "BS"} : o = <<c>>
      BY <1>2 DEF Meant
    <2> QED BY <2>1, <2>2, <2>3, Zenon
  <1>11. ~overrun => typed' = Waiting(cons, shift, kbd')
    <2>1. Keyed(Ring(cons)) \o (a.out \o o) = (Keyed(Ring(cons)) \o a.out) \o o
      BY <1>5, <1>10, CatAssoc
    <2>2. ~overrun => typed = Keyed(Ring(cons)) \o a.out BY <1>1 DEF RInv, Waiting
    <2>3. Waiting(cons, shift, kbd') = Keyed(Ring(cons)) \o e.out BY <1>8, Zenon DEF Waiting
    <2> QED BY <1>3, <1>7, <2>1, <2>2, <2>3, Zenon
  <1> QED BY <1>3, <1>4, <1>7, <1>8, <1>9, <1>11 DEF RInv, Waiting

\* A key that is released means nothing.
LEMMA ReleaseLemma ==
  ASSUME RInv, NEW k \in Keys, release(k)
  PROVE  RInv'
PROOF
  <1>1. PICK a, g : a = Drain(shift, kbd) /\ g = Released(held, k) OBVIOUS
  <1>2. /\ kbd' = kbd \o Codes(k, TRUE) /\ held' = g /\ typed' = typed
        /\ shift' = shift /\ cons' = cons /\ serial' = serial /\ overrun' = overrun
    BY <1>1 DEF release, Released
  <1>3. /\ held \in Helds /\ kbd \in Seq(Scancodes) /\ shift \in SUBSET Mods
        /\ a.shift = Modifiers(held) /\ cons \in Rings /\ overrun \in BOOLEAN
        /\ serial \in {NO, "absent", "s"}
    BY <1>1 DEF RInv
  <1>4. a \in Drained BY <1>1, WaitingTyped
  <1>5. PICK e : e = KeyCodes(a, k, TRUE) OBVIOUS
  <1>6. e.shift = Modifiers(g) /\ e.out = a.out
    <2>1. TRUE \in BOOLEAN OBVIOUS
    <2>2. KeyDone(held, k, TRUE, a, e) BY <1>3, <1>4, <1>5, <2>1, KeyProc, Zenon
    <2> QED BY <1>1, <2>2, Zenon DEF KeyDone
  <1>7. kbd' \in Seq(Scancodes) /\ Drain(shift, kbd') = e
    BY <1>1, <1>2, <1>3, <1>5, DrainCodes
  <1>8. held' \in Helds BY <1>1, <1>2, <1>3 DEF Helds, Released
  <1>9. ~overrun => typed' = Waiting(cons, shift, kbd')
    <2>1. ~overrun => typed = Keyed(Ring(cons)) \o a.out BY <1>1 DEF RInv, Waiting
    <2>2. Waiting(cons, shift, kbd') = Keyed(Ring(cons)) \o e.out BY <1>7, Zenon DEF Waiting
    <2> QED BY <1>2, <1>6, <2>1, <2>2, Zenon
  <1> QED BY <1>2, <1>3, <1>6, <1>7, <1>8, <1>9 DEF RInv, Waiting

\* A character at the serial port is not one of the keyboard.
LEMMA ReceiveLemma ==
  ASSUME RInv, receive
  PROVE  RInv'
PROOF
  <1>1. /\ serial' = "s" /\ held' = [held EXCEPT !.n = @ + 1] /\ kbd' = kbd /\ shift' = shift
        /\ cons' = cons /\ typed' = typed /\ overrun' = overrun
    BY DEF receive
  <1>2. held' \in Helds /\ Modifiers(held') = Modifiers(held)
    BY <1>1 DEF RInv, Helds, Modifiers
  <1> QED BY <1>1, <1>2 DEF RInv, Waiting

\* The reader gets the first character, and what comes of the devices goes
\* behind those that wait; if there is no room the ring is overrun for good.
LEMMA GetcLemma ==
  ASSUME RInv, cons_getc
  PROVE  RInv'
PROOF
  <1>1. PICK k : k = Drain(shift, kbd) OBVIOUS
  <1>2. PICK f : f = IF serial = "s" THEN <<serial>> ELSE <<>> OBVIOUS
  <1>3. PICK new : new = f \o k.out OBVIOUS
  <1>4. PICK r : r = cons_intr(cons, new) OBVIOUS
  <1>5. PICK found : found = (r.rpos # r.wpos) OBVIOUS
  <1>6. /\ kbd' = <<>> /\ shift' = k.shift /\ held' = held
        /\ serial' = (IF serial = "s" THEN NO ELSE serial)
        /\ overrun' = (overrun \/ Pending(cons) + Len(new) >= CONSBUFSIZE)
        /\ found => /\ cons' = get_next(r)
                    /\ typed' = IF overrun' THEN <<>>
                                ELSE IF r.buf[r.rpos] = "s" THEN typed ELSE Tail(typed)
        /\ ~found => cons' = r /\ typed' = typed
    BY <1>1, <1>2, <1>3, <1>4, <1>5, Zenon DEF cons_getc
  <1>7. /\ held \in Helds /\ kbd \in Seq(Scancodes) /\ shift \in SUBSET Mods
        /\ k.shift = Modifiers(held) /\ cons \in Rings /\ overrun \in BOOLEAN
        /\ serial \in {NO, "absent", "s"}
    BY <1>1 DEF RInv
  <1>8. /\ k \in Drained /\ k.out \in Seq(Chars) /\ k.out \in Seq(Anychars)
        /\ Ring(cons) \in Seq(Anychars) /\ Keyed(Ring(cons)) \in Seq(Anychars)
    BY <1>1, WaitingTyped
  <1>9. k.shift \in SUBSET Mods BY <1>8 DEF Drained
  <1>10. Drain(k.shift, <<>>) = [shift |-> k.shift, out |-> <<>>]
    <2>1. <<>> \in Seq(Scancodes) /\ [key |-> "E0", up |-> FALSE] \in Scancodes BY DEF Scancodes
    <2> QED BY <1>9, <2>1, DrainAppend
  <1>11. "s" \in Anychars /\ <<>> \in Seq(Anychars) BY DEF Anychars
  <1>12. f \in Seq(Anychars) /\ Keyed(f) = <<>>
    <2>1. Keyed(<<>>) = <<>> /\ Keyed(Append(<<>>, "s")) = Kept(Keyed(<<>>), "s")
      BY <1>11, KeyedAppend
    <2>2. Append(<<>>, "s") = <<"s">> OBVIOUS
    <2>3. Keyed(<<"s">>) = <<>> BY <2>1, <2>2 DEF Kept
    <2>4. f = <<>> \/ f = <<"s">> BY <1>2
    <2>5. <<"s">> \in Seq(Anychars) BY <1>11
    <2>6. f \in Seq(Anychars) BY <1>11, <2>4, <2>5, Zenon
    <2> QED BY <2>1, <2>3, <2>4, <2>6, Zenon
  <1>13. new \in Seq(Anychars) /\ Keyed(new) = k.out
    <2>1. Keyed(f \o k.out) = Keyed(f) \o Keyed(k.out) BY <1>8, <1>12, KeyedCat
    <2>2. Keyed(k.out) = k.out BY <1>8, KeyedKeys
    <2>3. <<>> \o k.out = k.out BY <1>8
    <2>4. f \o k.out \in Seq(Anychars) BY <1>8, <1>12
    <2> QED BY <1>3, <1>12, <2>1, <2>2, <2>3, <2>4, Zenon
  <1>14. /\ r \in Rings
         /\ Pending(cons) + Len(new) < CONSBUFSIZE => Ring(r) = Ring(cons) \o new
    BY <1>4, <1>7, <1>13, IntrRing
  <1>15. found => /\ cons' \in Rings /\ Ring(r) # <<>> /\ Head(Ring(r)) = r.buf[r.rpos]
                  /\ Ring(cons') = Tail(Ring(r))
    BY <1>5, <1>6, <1>14, GetNext
  <1>16. cons' \in Rings BY <1>6, <1>14, <1>15
  <1>17. ASSUME ~overrun' PROVE typed' = Keyed(Ring(cons'))
    <2>1. ~overrun /\ Pending(cons) + Len(new) < CONSBUFSIZE
      <3>1. Pending(cons) \in Nat /\ CONSBUFSIZE \in Nat /\ Len(new) \in Nat
        BY <1>7, <1>13, RingFacts
      <3>2. ~overrun /\ ~(Pending(cons) + Len(new) >= CONSBUFSIZE) BY <1>6, <1>17
      <3> QED BY <3>1, <3>2
    <2>2. typed = Keyed(Ring(r))
      <3>1. typed = Keyed(Ring(cons)) \o k.out BY <1>1, <2>1 DEF RInv, Waiting
      <3>2. Keyed(Ring(cons) \o new) = Keyed(Ring(cons)) \o Keyed(new) BY <1>8, <1>13, KeyedCat
      <3> QED BY <1>13, <1>14, <2>1, <3>1, <3>2, Zenon
    <2>3. CASE ~found BY <1>6, <2>2, <2>3
    <2>4. CASE found
      <3>1. PICK s, c, u : s = Ring(r) /\ c = Head(s) /\ u = Tail(s) OBVIOUS
      <3>2. s \in Seq(Anychars) /\ s # <<>> BY <1>14, <1>15, <2>4, <3>1, RingFacts
      <3>3. c \in Anychars /\ u \in Seq(Anychars) /\ s = <<c>> \o u BY <3>1, <3>2
      <3>4. Keyed(s) = Keyed(<<c>>) \o Keyed(u)
        <4>1. <<c>> \in Seq(Anychars) BY <3>3
        <4> QED BY <3>3, <4>1, KeyedCat
      <3>5. Keyed(<<c>>) = Kept(<<>>, c) /\ Keyed(u) \in Seq(Anychars)
        <4>1. Keyed(<<>>) = <<>> /\ Keyed(Append(<<>>, c)) = Kept(Keyed(<<>>), c)
          BY <1>11, <3>3, KeyedAppend
        <4>2. Append(<<>>, c) = <<c>> OBVIOUS
        <4>3. Keyed(u) \in Seq(Anychars) BY <1>11, <3>3, KeyedAppend
        <4> QED BY <4>1, <4>2, <4>3, Zenon
      <3>6. PICK v : v = Keyed(u) OBVIOUS
      <3>7. typed' = IF c = "s" THEN typed ELSE Tail(typed)
        BY <1>6, <1>15, <1>17, <2>4, <3>1
      <3>8. typed = Kept(<<>>, c) \o v BY <2>2, <3>1, <3>4, <3>5, <3>6, Zenon
      <3>9. v \in Seq(Anychars) BY <3>5, <3>6
      <3>10. CASE c = "s"
        <4>1. Kept(<<>>, c) = <<>> BY <3>10 DEF Kept
        <4>2. <<>> \o v = v BY <3>9
        <4> QED BY <1>15, <2>4, <3>1, <3>6, <3>7, <3>8, <3>10, <4>1, <4>2, Zenon
      <3>11. CASE c # "s"
        <4>1. Kept(<<>>, c) = <<c>> BY <3>11 DEF Kept
        <4>2. Tail(<<c>> \o v) = v BY <3>3, <3>9
        <4> QED BY <1>15, <2>4, <3>1, <3>6, <3>7, <3>8, <3>11, <4>1, <4>2, Zenon
      <3> QED BY <3>10, <3>11
    <2> QED BY <2>3, <2>4
  <1>18. ~overrun' => typed' = Waiting(cons', k.shift, <<>>)
    <2>1. Waiting(cons', k.shift, <<>>) = Keyed(Ring(cons')) \o <<>>
      <3>1. Drain(k.shift, <<>>).out = <<>> BY <1>10
      <3> QED BY <3>1, Zenon DEF Waiting
    <2>2. Keyed(Ring(cons')) \in Seq(Anychars)
      <3>1. Ring(cons') \in Seq(Anychars) BY <1>16, RingFacts
      <3> QED BY <1>11, <3>1, KeyedAppend
    <2>3. Keyed(Ring(cons')) \o <<>> = Keyed(Ring(cons')) BY <2>2
    <2> QED BY <1>17, <2>1, <2>3, Zenon
  <1>19. overrun' \in BOOLEAN /\ serial' \in {NO, "absent", "s"} /\ kbd' \in Seq(Scancodes)
    BY <1>6, <1>7
  <1>20. RInv' <=>
           /\ held' \in Helds /\ kbd' \in Seq(Scancodes) /\ shift' \in SUBSET Mods
           /\ Drain(shift', kbd').shift = Modifiers(held')
           /\ cons' \in Rings /\ serial' \in {NO, "absent", "s"} /\ overrun' \in BOOLEAN
           /\ ~overrun' => typed' = Waiting(cons', shift', kbd')
    BY Zenon DEF RInv, Waiting
  <1>21. Drain(shift', kbd').shift = Modifiers(held')
    <2>1. Drain(k.shift, <<>>).shift = k.shift BY <1>10
    <2> QED BY <1>6, <1>7, <2>1, Zenon
  <1> QED BY <1>6, <1>7, <1>9, <1>16, <1>18, <1>19, <1>20, <1>21, Zenon

\* Every step of the console keeps what is typed and what waits together.
LEMMA RNext == RInv /\ [ConsoleNext]_conVars => RInv'
PROOF
  <1> SUFFICES ASSUME RInv, [ConsoleNext]_conVars PROVE RInv'
    OBVIOUS
  <1>1. CASE UNCHANGED conVars BY <1>1 DEF conVars, RInv, Waiting
  <1> QED BY <1>1, PressLemma, ReleaseLemma, ReceiveLemma, GetcLemma DEF ConsoleNext

\* The reader gets what was typed, in order and none lost, unless the ring
\* is overrun (kern/console.c:320 kbd_proc_data, kern/console.c:404 cons_intr
\* and kern/console.c:419 cons_getc).
THEOREM TypedTheorem == ConsoleInit /\ [][ConsoleNext]_conVars => []ReadIsTyped
PROOF
  <1>1. RInv => ReadIsTyped BY Zenon DEF RInv, ReadIsTyped, Waiting
  <1> QED BY <1>1, RInit, RNext, PTL

-----------------------------------------------------------------------------
\* The screen is blank at first, and there is no line.
LEMMA InitLemma == ConsoleInit => IInv
PROOF
  <1> SUFFICES ASSUME ConsoleInit PROVE IInv
    OBVIOUS
  <1>1. Screen(crt) BY SizeLemma DEF ConsoleInit, Screen, Cells
  <1>2. line.buf = <<>> /\ DOMAIN line = {"who", "buf"} BY DEF ConsoleInit
  <1> QED BY <1>1, <1>2 DEF IInv, Shows

\* readline keeps line and screen together, whatever character it gets.
LEMMA ReadlineLemma ==
  ASSUME IInv, NEW c, readline(c)
  PROVE  IInv'
PROOF
  <1> USE DEF IInv
  <1>1. Len(line.buf) \in Nat OBVIOUS
  <1>2. CASE c = "BS" /\ Len(line.buf) > 0 /\ line' = [line EXCEPT !.buf = Front(@)]
             /\ crt' = cga_putc(crt, "BS")
    <2>1. line'.buf = Front(line.buf) /\ DOMAIN line' = {"who", "buf"} BY <1>2
    <2>2. Front(line.buf) \in Seq(Typable) BY <1>1, <1>2, FrontLemma
    <2> QED BY <1>2, <2>1, <2>2, BackspaceLemma
  <1>3. CASE c \in Typable /\ line' = [line EXCEPT !.buf = Append(@, c)]
             /\ crt' = cga_putc(crt, c)
    <2>1. line'.buf = Append(line.buf, c) /\ DOMAIN line' = {"who", "buf"} BY <1>3
    <2>2. Append(line.buf, c) \in Seq(Typable) BY <1>3
    <2> QED BY <1>3, <2>1, <2>2, CharLemma
  <1>4. CASE line' = [line EXCEPT !.buf = <<>>] /\ (crt' = cga_putc(crt, "LF") \/ UNCHANGED crt)
    <2>1. line'.buf = <<>> /\ DOMAIN line' = {"who", "buf"} BY <1>4
    <2>2. Screen(crt') BY <1>4, NewlineLemma
    <2> QED BY <2>1, <2>2 DEF Shows
  <1>5. CASE UNCHANGED <<line, crt>> BY <1>5
  <1> QED BY <1>2, <1>3, <1>4, <1>5 DEF readline, Typable

\* Every step of the console keeps the invariant: only readline writes.
LEMMA NextLemma == IInv /\ [ConsoleNext]_conVars => IInv'
PROOF
  <1> SUFFICES ASSUME IInv, [ConsoleNext]_conVars PROVE IInv'
    OBVIOUS
  <1>1. CASE UNCHANGED <<line, crt>> BY <1>1 DEF IInv
  <1>2. CASE cons_getc
    <2>1. (\E c : readline(c)) \/ UNCHANGED <<line, crt>> BY <1>2 DEF cons_getc
    <2> QED BY <1>1, <2>1, ReadlineLemma
  <1>3. CASE \E k \in Keys : press(k) \/ release(k) BY <1>1, <1>3 DEF press, release
  <1>4. CASE receive BY <1>1, <1>4 DEF receive
  <1>5. CASE UNCHANGED conVars BY <1>1, <1>5 DEF conVars
  <1> QED BY <1>2, <1>3, <1>4, <1>5 DEF ConsoleNext

-----------------------------------------------------------------------------
\* What stands before the cursor is always the line that readline holds,
\* over erasing, wrapping and scrolling (lib/readline.c, kern/console.c:168).
THEOREM EchoTheorem == ConsoleInit /\ [][ConsoleNext]_conVars => []EchoMatches
PROOF
  <1>1. IInv => EchoMatches BY DEF IInv, EchoMatches, Screen, Shows, Cells
  <1> QED BY <1>1, InitLemma, NextLemma, PTL

-----------------------------------------------------------------------------
(* Tables and their entries *)

\* A page number is a table and an entry in it.
LEMMA DivMod ==
  ASSUME NEW n \in Nat \ {0}, NEW v \in Nat
  PROVE  v \div n \in Nat /\ v % n \in 0..(n - 1) /\ v = (v \div n) * n + (v % n)
OBVIOUS

\* Products of natural numbers.
LEMMA Products ==
  ASSUME NEW n \in Nat, NEW a \in Nat, NEW b \in Nat
  PROVE  /\ a * n \in Nat
         /\ (a + b) * n = a * n + b * n
         /\ a < b => a * n + n <= b * n
PROOF
  <1>1. a * n \in Nat OBVIOUS
  <1>2. (a + b) * n = a * n + b * n OBVIOUS
  <1>3. ASSUME a < b PROVE a * n + n <= b * n
    <2>1. PICK c \in Nat : b = a + 1 + c
      <3>1. b - a - 1 \in Nat /\ b = a + 1 + (b - a - 1) BY <1>3
      <3> QED BY <3>1
    <2>2. (a + 1 + c) * n = a * n + n + c * n OBVIOUS
    <2>3. c * n \in Nat /\ a * n \in Nat OBVIOUS
    <2>4. PICK x, y, z \in Nat : x = a * n /\ y = b * n /\ z = c * n BY <2>1, <2>2, <2>3
    <2>5. y = x + n + z BY <2>1, <2>2, <2>4
    <2>6. x + n <= y BY <2>4, <2>5
    <2> QED BY <2>4, <2>6
  <1> QED BY <1>1, <1>2, <1>3

\* A table and an entry in it are those of one page.
LEMMA DivUnique ==
  ASSUME NEW n \in Nat \ {0}, NEW q \in Nat, NEW r \in 0..(n - 1), NEW v, v = q * n + r
  PROVE  v \in Nat /\ v \div n = q /\ v % n = r
PROOF
  <1>1. v \in Nat BY Products
  <1>2. PICK p, s : p = v \div n /\ s = v % n OBVIOUS
  <1>3. p \in Nat /\ s \in 0..(n - 1) /\ v = p * n + s BY <1>1, <1>2, DivMod
  <1>4. PICK x, y \in Nat : x = p * n /\ y = q * n BY <1>3, Products
  <1>5. x + s = y + r BY <1>3, <1>4
  <1>6. ~(p < q)
    <2>1. p < q => x + n <= y BY <1>3, <1>4, Products
    <2> QED BY <1>3, <1>5, <2>1
  <1>7. ~(q < p)
    <2>1. q < p => y + n <= x BY <1>3, <1>4, Products
    <2> QED BY <1>3, <1>5, <2>1
  <1>8. p = q BY <1>3, <1>6, <1>7
  <1>9. s = r BY <1>3, <1>4, <1>5, <1>8
  <1> QED BY <1>1, <1>2, <1>8, <1>9

-----------------------------------------------------------------------------
(* Memory while it is being mapped *)

\* The constants, one by one.
LEMMA Constants_ ==
  /\ MPENTRY \in Nat \ {0} /\ IOPHYSMEM \in Nat \ {0} /\ EXTPHYSMEM \in Nat \ {0}
  /\ KEND \in Nat \ {0} /\ LOW \in Nat \ {0} /\ NENT \in Nat \ {0} /\ KT \in Nat \ {0}
  /\ PERPAGE \in Nat \ {0} /\ ENVPAGES \in Nat \ {0} /\ NCPU \in Nat \ {0}
  /\ KSTKSIZE \in Nat \ {0} /\ KSTKGAP \in Nat \ {0}
  /\ MPENTRY < IOPHYSMEM /\ IOPHYSMEM < EXTPHYSMEM /\ EXTPHYSMEM < KEND
  /\ NENT >= 3 /\ ENVPAGES <= NENT /\ IOPHYSMEM - 2 >= KT + 4
BY BootMemAssumption

\* The table of a page is a table.
LEMMA TableOf ==
  ASSUME NEW v \in Vas
  PROVE  v \div NENT \in Tables /\ v \in Nat
PROOF
  <1>1. PICK n, c : n = NENT /\ c = 5 + KT OBVIOUS
  <1>2. n \in Nat \ {0} /\ c \in Nat /\ c = 5 + KT BY <1>1, Constants_
  <1>3. PICK l \in Nat : l = c * n BY <1>2, Products
  <1>4. v \in Nat /\ v < l BY <1>1, <1>3 DEF Vas
  <1>5. PICK q, r : q = v \div n /\ r = v % n OBVIOUS
  <1>6. q \in Nat /\ r \in 0..(n - 1) /\ v = q * n + r BY <1>2, <1>4, <1>5, DivMod
  <1>7. PICK x \in Nat : x = q * n BY <1>2, <1>6, Products
  <1>8. ~(c <= q)
    <2>1. c < q => l + n <= x BY <1>2, <1>3, <1>6, <1>7, Products
    <2>2. c = q => l = x BY <1>3, <1>7
    <2> QED BY <1>2, <1>4, <1>6, <1>7, <2>1, <2>2
  <1>9. q \in 0..(4 + KT) BY <1>2, <1>6, <1>8, Constants_
  <1> QED BY <1>1, <1>4, <1>5, <1>9 DEF Tables

Mems == [pgdir : [Tables -> Int], free : Seq(Nat), pte : [Vas -> Int], touched : SUBSET Nat]
Empty(m) == {t \in Tables : m.pgdir[t] = None}

\* The free list s of N pages of which R are in use.
ListOK(s, N, R) ==
  /\ s \in Seq(Nat)
  /\ \A i \in 1..Len(s) : s[i] < N /\ s[i] \notin R
  /\ \A i, j \in 1..Len(s) : s[i] = s[j] => i = j
\* The list begins with n pages that can be touched.
LowFirst(s, n) == \A i \in 1..n : i <= Len(s) /\ s[i] < LOW
\* No table is free or serves twice.
TablesOK(m) ==
  \A t \in Tables : m.pgdir[t] >= 0 =>
    /\ \A i \in 1..Len(m.free) : m.free[i] # m.pgdir[t]
    /\ \A u \in Tables : m.pgdir[u] = m.pgdir[t] => u = t
MapOK(m, N, R) ==
  /\ m \in Mems /\ ListOK(m.free, N, R) /\ TablesOK(m) /\ m.touched \subseteq entry_pgdir
  /\ LowFirst(m.free, Cardinality(Empty(m)))

\* There are finitely many tables.
LEMMA EmptyFinite ==
  ASSUME NEW m
  PROVE  IsFiniteSet(Empty(m)) /\ Cardinality(Empty(m)) \in Nat
PROOF
  <1>1. 4 + KT \in Int /\ 0 \in Int BY Constants_
  <1>2. IsFiniteSet(Tables) BY <1>1, FS_Interval DEF Tables
  <1>3. Empty(m) \in SUBSET Tables BY DEF Empty
  <1>4. IsFiniteSet(Empty(m)) BY <1>2, <1>3, FS_Subset
  <1> QED BY <1>4, FS_CardinalityType

\* An entry of the directory is filled, by the first free page or without one.
LEMMA Fewer ==
  ASSUME NEW m, NEW w, NEW t \in Tables, NEW x, x # None, w.pgdir = [m.pgdir EXCEPT ![t] = x],
         m.pgdir \in [Tables -> Int]
  PROVE  /\ Cardinality(Empty(w)) <= Cardinality(Empty(m))
         /\ m.pgdir[t] = None => /\ Cardinality(Empty(w)) = Cardinality(Empty(m)) - 1
                                 /\ Cardinality(Empty(m)) > 0
PROOF
  <1>1. Empty(w) = Empty(m) \ {t} BY DEF Empty
  <1>2. IsFiniteSet(Empty(m)) /\ Cardinality(Empty(m)) \in Nat BY EmptyFinite
  <1>3. /\ Cardinality(Empty(m) \ {t}) =
             IF t \in Empty(m) THEN Cardinality(Empty(m)) - 1 ELSE Cardinality(Empty(m))
    BY <1>2, FS_RemoveElement
  <1>4. m.pgdir[t] = None => t \in Empty(m) BY DEF Empty
  <1>5. Cardinality(Empty(w)) \in Nat BY EmptyFinite
  <1> QED BY <1>1, <1>2, <1>3, <1>4, <1>5

\* What a page more in the directory leaves: entries only become more.
Grown(m, w, t) ==
  /\ w.pte = m.pte /\ w.pgdir[t] # None
  /\ \A u \in Tables : u # t => w.pgdir[u] = m.pgdir[u]

\* pgdir_walk finds a table or takes the first free page for it.
LEMMA WalkLemma ==
  ASSUME NEW m, NEW N, NEW R, MapOK(m, N, R), NEW v \in Vas, NEW w, w = pgdir_walk(m, v)
  PROVE  MapOK(w, N, R) /\ Grown(m, w, v \div NENT)
PROOF
  <1>1. PICK t \in Tables : t = v \div NENT BY TableOf
  <1>2. PICK c \in Nat : c = Cardinality(Empty(m)) BY EmptyFinite
  <1>3. /\ m \in Mems /\ ListOK(m.free, N, R) /\ TablesOK(m) /\ m.touched \subseteq entry_pgdir
        /\ LowFirst(m.free, c)
    BY <1>2 DEF MapOK
  <1>4. CASE m.pgdir[t] # None
    <2>1. w = m BY <1>1, <1>4 DEF pgdir_walk
    <2> QED BY <1>1, <1>4, <2>1 DEF Grown
  <1>5. CASE m.pgdir[t] = None
    <2>1. m.pgdir \in [Tables -> Int] /\ m.free \in Seq(Nat) /\ m.pte \in [Vas -> Int]
          /\ m.touched \in SUBSET Nat
      BY <1>3 DEF Mems
    <2>2. PICK s, p, r : s = m.free /\ p = Head(s) /\ r = Tail(s) OBVIOUS
    <2>3. c > 0
      <3>1. PICK x : x = [m EXCEPT !.pgdir[t] = 0] OBVIOUS
      <3>2. x.pgdir = [m.pgdir EXCEPT ![t] = 0] BY <1>3, <3>1 DEF Mems
      <3>3. 0 # None BY DEF None
      <3> QED BY <1>2, <1>5, <2>1, <3>2, <3>3, Fewer
    <2>4. Len(s) >= 1 /\ s # <<>> /\ s[1] < LOW /\ p = s[1] /\ s \in Seq(Nat) /\ p \in Nat
      <3>1. 1 \in 1..c BY <1>2, <2>3
      <3>2. 1 <= Len(s) /\ s[1] < LOW BY <1>3, <2>2, <3>1 DEF LowFirst
      <3> QED BY <2>1, <2>2, <3>2
    <2>5. r \in Seq(Nat) /\ Len(r) = Len(s) - 1 /\ \A i \in 1..Len(r) : i + 1 \in 1..Len(s) /\ r[i] = s[i + 1]
      BY <2>2, <2>4
    <2>6. /\ w.pgdir = [m.pgdir EXCEPT ![t] = p] /\ w.free = r /\ w.pte = m.pte
          /\ w.touched = m.touched \cup {p} /\ w \in Mems
      <3>1. w = [m EXCEPT !.pgdir[t] = p, !.free = r, !.touched = @ \cup {p}]
        BY <1>1, <1>5, <2>2, <2>4 DEF pgdir_walk
      <3>2. w = [pgdir |-> [m.pgdir EXCEPT ![t] = p], free |-> r, pte |-> m.pte,
                 touched |-> m.touched \cup {p}]
        BY <1>3, <3>1 DEF Mems
      <3>3. [m.pgdir EXCEPT ![t] = p] \in [Tables -> Int] BY <2>1, <2>4
      <3>4. m.touched \cup {p} \in SUBSET Nat BY <2>1, <2>4
      <3> QED BY <2>1, <2>5, <3>2, <3>3, <3>4 DEF Mems
    <2>7. PICK d \in Nat : d = Cardinality(Empty(w)) BY EmptyFinite
    <2>8. d = c - 1
      <3>1. p # None BY <2>4 DEF None
      <3> QED BY <1>2, <1>5, <2>1, <2>6, <2>7, <3>1, Fewer
    <2>9. ListOK(w.free, N, R)
      <3>1. \A i \in 1..Len(r) : r[i] < N /\ r[i] \notin R BY <1>3, <2>2, <2>5 DEF ListOK
      <3>2. ASSUME NEW i \in 1..Len(r), NEW j \in 1..Len(r), r[i] = r[j] PROVE i = j
        <4>1. i + 1 \in 1..Len(s) /\ j + 1 \in 1..Len(s) /\ s[i + 1] = s[j + 1] BY <2>5, <3>2
        <4>2. i + 1 = j + 1 BY <1>3, <2>2, <4>1 DEF ListOK
        <4> QED BY <4>2
      <3> QED BY <2>5, <2>6, <3>1, <3>2 DEF ListOK
    <2>10. \A i \in 1..Len(r) : r[i] # p
      <3>1. SUFFICES ASSUME NEW i \in 1..Len(r), r[i] = p PROVE FALSE OBVIOUS
      <3>2. i + 1 \in 1..Len(s) /\ 1 \in 1..Len(s) /\ s[i + 1] = s[1] BY <2>4, <2>5, <3>1
      <3>3. i + 1 = 1 BY <1>3, <2>2, <3>2 DEF ListOK
      <3> QED BY <3>3
    <2>11. \A u \in Tables : m.pgdir[u] # p
      <3>1. SUFFICES ASSUME NEW u \in Tables, m.pgdir[u] = p PROVE FALSE OBVIOUS
      <3>2. m.pgdir[u] >= 0 /\ 1 \in 1..Len(m.free) /\ m.free[1] = m.pgdir[u]
        BY <2>2, <2>4, <3>1
      <3> QED BY <1>3, <3>2 DEF TablesOK
    <2>12. TablesOK(w)
      <3>1. SUFFICES ASSUME NEW u \in Tables, w.pgdir[u] >= 0
                     PROVE  /\ \A i \in 1..Len(r) : r[i] # w.pgdir[u]
                            /\ \A x \in Tables : w.pgdir[x] = w.pgdir[u] => x = u
        BY <2>6 DEF TablesOK
      <3>2. CASE u = t
        <4>1. w.pgdir[u] = p BY <2>1, <2>6, <3>2
        <4>2. \A x \in Tables : x # t => w.pgdir[x] = m.pgdir[x] BY <2>1, <2>6
        <4> QED BY <2>10, <2>11, <3>2, <4>1, <4>2
      <3>3. CASE u # t
        <4>1. w.pgdir[u] = m.pgdir[u] /\ w.pgdir[t] = p BY <2>1, <2>6, <3>3
        <4>2. \A x \in Tables : x # t => w.pgdir[x] = m.pgdir[x] BY <2>1, <2>6
        <4>3. m.pgdir[u] >= 0 BY <3>1, <4>1
        <4>4. \A x \in Tables : m.pgdir[x] = m.pgdir[u] => x = u BY <1>3, <4>3 DEF TablesOK
        <4>5. \A i \in 1..Len(s) : s[i] # m.pgdir[u] BY <1>3, <2>2, <4>3 DEF TablesOK
        <4>6. \A i \in 1..Len(r) : r[i] # w.pgdir[u] BY <2>5, <4>1, <4>5
        <4> QED BY <2>11, <4>1, <4>2, <4>4, <4>6
      <3> QED BY <3>2, <3>3
    <2>13. w.touched \subseteq entry_pgdir BY <1>3, <2>4, <2>6, Constants_ DEF entry_pgdir
    <2>14. LowFirst(w.free, d)
      <3>1. SUFFICES ASSUME NEW i \in 1..d PROVE i <= Len(r) /\ r[i] < LOW
        BY <2>6 DEF LowFirst
      <3>2. i + 1 \in 1..c BY <2>8, <2>7
      <3>3. i + 1 <= Len(s) /\ s[i + 1] < LOW BY <1>3, <2>2, <3>2 DEF LowFirst
      <3>4. i <= Len(r) BY <2>4, <2>5, <3>3
      <3>5. i \in 1..Len(r) BY <2>5, <3>4
      <3> QED BY <2>5, <3>3, <3>4, <3>5
    <2>15. Grown(m, w, t)
      <3>1. p # None BY <2>4 DEF None
      <3> QED BY <2>1, <2>6, <3>1 DEF Grown
    <2> QED BY <1>1, <2>6, <2>7, <2>9, <2>12, <2>13, <2>14, <2>15 DEF MapOK
  <1> QED BY <1>4, <1>5

\* A large page in place of a table.
LEMMA LargeLemma ==
  ASSUME NEW m, NEW N, NEW R, MapOK(m, N, R), NEW t \in Tables, NEW w,
         w = [m EXCEPT !.pgdir[t] = Large]
  PROVE  MapOK(w, N, R) /\ Grown(m, w, t) /\ w.pgdir[t] = Large
PROOF
  <1>1. PICK c \in Nat : c = Cardinality(Empty(m)) BY EmptyFinite
  <1>2. PICK d \in Nat : d = Cardinality(Empty(w)) BY EmptyFinite
  <1>3. /\ m \in Mems /\ ListOK(m.free, N, R) /\ TablesOK(m) /\ m.touched \subseteq entry_pgdir
        /\ LowFirst(m.free, c) /\ m.pgdir \in [Tables -> Int]
    BY <1>1 DEF MapOK, Mems
  <1>4. /\ w.pgdir = [m.pgdir EXCEPT ![t] = Large] /\ w.free = m.free /\ w.pte = m.pte
        /\ w.touched = m.touched /\ w \in Mems
    <2>1. w = [pgdir |-> [m.pgdir EXCEPT ![t] = Large], free |-> m.free, pte |-> m.pte,
               touched |-> m.touched]
      BY <1>3 DEF Mems
    <2>2. [m.pgdir EXCEPT ![t] = Large] \in [Tables -> Int] BY <1>3 DEF Large
    <2> QED BY <1>3, <2>1, <2>2 DEF Mems
  <1>5. Large # None /\ ~(Large >= 0) BY DEF Large, None
  <1>6. d <= c
    <2>1. PICK x : x = Large OBVIOUS
    <2>2. /\ x # None /\ w.pgdir = [m.pgdir EXCEPT ![t] = x] /\ m.pgdir \in [Tables -> Int]
      BY <1>3, <1>4, <1>5, <2>1
    <2>3. Cardinality(Empty(w)) <= Cardinality(Empty(m)) BY <2>2, Fewer
    <2> QED BY <1>1, <1>2, <2>3
  <1>7. LowFirst(w.free, d) BY <1>3, <1>4, <1>6 DEF LowFirst
  <1>8. w.pgdir[t] = Large /\ \A u \in Tables : u # t => w.pgdir[u] = m.pgdir[u] BY <1>3, <1>4
  <1>9. TablesOK(w) BY <1>3, <1>4, <1>5, <1>8 DEF TablesOK
  <1>10. Grown(m, w, t) BY <1>4, <1>5, <1>8 DEF Grown
  <1> QED BY <1>2, <1>3, <1>4, <1>7, <1>8, <1>9, <1>10 DEF MapOK

-----------------------------------------------------------------------------
(* A region, page by page *)

Mapped(p, va, k, pa) ==
  [x \in Vas |-> IF x \in va..(va + k - 1) THEN pa + (x - va) ELSE p[x]]
Covered(va, k) == {(va + i) \div NENT : i \in 0..(k - 1)}
Fits(va, size, pa) ==
  va \in Nat /\ size \in Nat /\ pa \in Nat /\ \A i \in 0..(size - 1) : va + i \in Vas
AllAligned(va, size, pa) == pse /\ \A i \in 0..(size - 1) : Aligned(va, size, pa, i)

\* One page of a region.
LEMMA PageLemma ==
  ASSUME NEW N, NEW R, NEW m, MapOK(m, N, R), NEW va, NEW size, NEW pa, Fits(va, size, pa),
         NEW i \in 0..(size - 1), NEW w, w = map_next(m, va, size, pa, i),
         NEW t, t = (va + i) \div NENT
  PROVE  /\ MapOK(w, N, R) /\ w.pte = [m.pte EXCEPT ![va + i] = pa + i]
         /\ t \in Tables /\ w.pgdir[t] # None
         /\ \A u \in Tables : u # t => w.pgdir[u] = m.pgdir[u]
         /\ AllAligned(va, size, pa) => w.pgdir[t] = Large
PROOF
  <1>1. PICK v, p : v = va + i /\ p = pa + i OBVIOUS
  <1>2. v \in Vas /\ p \in Int BY <1>1 DEF Fits
  <1>3. t \in Tables BY <1>1, <1>2, TableOf
  <1>4. PICK d : d = map_dir(m, va, size, pa, i) OBVIOUS
  <1>5. MapOK(d, N, R) /\ Grown(m, d, t) /\ (AllAligned(va, size, pa) => d.pgdir[t] = Large)
    <2>1. CASE pse /\ Aligned(va, size, pa, i)
      <3>1. d = [m EXCEPT !.pgdir[t] = Large] BY <1>4, <2>1 DEF map_dir
      <3>2. MapOK(d, N, R) /\ Grown(m, d, t) /\ d.pgdir[t] = Large
        BY <1>3, <3>1, LargeLemma, ZenonT(60)
      <3> QED BY <3>2
    <2>2. CASE ~(pse /\ Aligned(va, size, pa, i))
      <3>1. d = pgdir_walk(m, v) BY <1>1, <1>4, <2>2 DEF map_dir
      <3>2. MapOK(d, N, R) /\ Grown(m, d, v \div NENT) BY <1>2, <3>1, WalkLemma
      <3>3. ~AllAligned(va, size, pa) BY <2>2 DEF AllAligned
      <3> QED BY <1>1, <3>2, <3>3
    <2> QED BY <2>1, <2>2
  <1>6. /\ d.pte = m.pte /\ d.pgdir[t] # None
        /\ \A u \in Tables : u # t => d.pgdir[u] = m.pgdir[u]
    BY <1>5 DEF Grown
  <1>7. w = [d EXCEPT !.pte[v] = p]
    <2>1. w = map_pte(d, v, p) BY <1>1, <1>4, Zenon DEF map_next
    <2>2. d.pgdir[v \div NENT] # None BY <1>1, <1>6
    <2> QED BY <2>1, <2>2 DEF map_pte
  <1>8. d \in Mems /\ d.pte \in [Vas -> Int] BY <1>5 DEF MapOK, Mems
  <1>9. w = [pgdir |-> d.pgdir, free |-> d.free, pte |-> [d.pte EXCEPT ![v] = p],
             touched |-> d.touched]
    BY <1>7, <1>8 DEF Mems
  <1>10. [d.pte EXCEPT ![v] = p] \in [Vas -> Int] BY <1>2, <1>8
  <1>11. w \in Mems BY <1>8, <1>9, <1>10 DEF Mems
  <1>12. w.pgdir = d.pgdir /\ w.free = d.free /\ w.touched = d.touched
         /\ w.pte = [d.pte EXCEPT ![v] = p]
    BY <1>9
  <1>13. Empty(w) = Empty(d) BY <1>12 DEF Empty
  <1>14. MapOK(w, N, R)
    <2>1. TablesOK(w)
      <3>1. TablesOK(d) BY <1>5 DEF MapOK
      <3> QED BY <1>12, <3>1 DEF TablesOK
    <2> QED BY <1>5, <1>11, <1>12, <1>13, <2>1 DEF MapOK
  <1>15. w.pte = [m.pte EXCEPT ![va + i] = pa + i] BY <1>1, <1>6, <1>12
  <1> QED BY <1>3, <1>5, <1>6, <1>12, <1>14, <1>15

\* The states of the loop of boot_map_region.
RegionRun(m, va, size, pa, t) ==
  /\ DOMAIN t = 0..size /\ t[0] = m
  /\ \A k \in 1..size : t[k] = map_next(t[k - 1], va, size, pa, k - 1)

\* boot_map_region is the last state of the loop.
LEMMA RegionIs ==
  ASSUME NEW N, NEW R, NEW m, MapOK(m, N, R), NEW va, NEW size, NEW pa, Fits(va, size, pa)
  PROVE  \E t : RegionRun(m, va, size, pa, t) /\ boot_map_region(m, va, size, pa) = t[size]
PROOF
  <1> DEFINE S == {a \in Mems : MapOK(a, N, R)}
             F == [y \in S \X (1..size) |-> map_next(y[1], va, size, pa, y[2] - 1)]
             Is(t) == t = [k \in 0..size |-> IF k = 0 THEN m
                                             ELSE map_next(t[k - 1], va, size, pa, k - 1)]
             e == CHOOSE t : Is(t)
  <1>1. size \in Nat BY DEF Fits
  <1>2. m \in S BY DEF MapOK
  <1>3. boot_map_region(m, va, size, pa) = e[size] BY Zenon DEF boot_map_region
  <1>4. ASSUME NEW a \in S, NEW k \in 1..size PROVE map_next(a, va, size, pa, k - 1) \in S
    <2>1. k - 1 \in 0..(size - 1) /\ MapOK(a, N, R) BY <1>1
    <2>2. MapOK(map_next(a, va, size, pa, k - 1), N, R) BY <2>1, PageLemma
    <2> QED BY <2>2 DEF MapOK
  <1>5. m \in S BY DEF MapOK
  <1> HIDE DEF S
  <1>6. \A x \in S, k \in 1..size : F[<<x, k>>] = map_next(x, va, size, pa, k - 1) OBVIOUS
  <1> HIDE DEF F
  <1>7. PICK t \in [0..size -> S] : t[0] = m /\ \A k \in 1..size : t[k] = F[<<t[k - 1], k>>]
    <2>1. StepsIn(size, S, F) BY <1>4, <1>6 DEF StepsIn
    <2>2. PICK t \in [0..size -> S] : Runs(size, m, F, t) BY <1>1, <1>2, <2>1, LoopRuns
    <2> QED BY <2>2 DEF Runs
  <1>8. Is(t)
    <2>1. \A k \in 0..size : k # 0 => k \in 1..size /\ k - 1 \in 0..size BY <1>1
    <2>2. \A k \in 0..size : k # 0 => t[k] = map_next(t[k - 1], va, size, pa, k - 1)
      BY <1>6, <1>7, <2>1
    <2>3. t = [k \in 0..size |-> t[k]] BY <1>7
    <2> QED BY <1>7, <2>2, <2>3
  <1>9. Is(e) BY <1>8
  <1> HIDE DEF e
  <1>10. e[0] = m /\ \A k \in 1..size : e[k] = map_next(e[k - 1], va, size, pa, k - 1)
    BY <1>1, <1>9
  <1>11. DOMAIN e = 0..size BY <1>9
  <1> QED BY <1>3, <1>10, <1>11 DEF RegionRun

\* The first k pages of a region are mapped.
RegionAt(m, a, va, size, pa, k) ==
  /\ a.pte = Mapped(m.pte, va, k, pa)
  /\ \A t \in Tables : IF t \in Covered(va, k) THEN a.pgdir[t] # None
                       ELSE a.pgdir[t] = m.pgdir[t]
  /\ AllAligned(va, size, pa) => \A t \in Covered(va, k) : a.pgdir[t] = Large

\* boot_map_region maps all of its pages, each to the one it should, and
\* touches nothing else; there is a page for every table it needs.
LEMMA RegionLemma ==
  ASSUME NEW N, NEW R, NEW m, MapOK(m, N, R), NEW va, NEW size, NEW pa, Fits(va, size, pa),
         NEW q, q = boot_map_region(m, va, size, pa)
  PROVE  MapOK(q, N, R) /\ RegionAt(m, q, va, size, pa, size)
PROOF
  <1>1. PICK t : RegionRun(m, va, size, pa, t) /\ q = t[size] BY RegionIs
  <1>2. va \in Nat /\ size \in Nat /\ pa \in Nat BY DEF Fits
  <1> DEFINE P == {k \in 0..size : MapOK(t[k], N, R) /\ RegionAt(m, t[k], va, size, pa, k)}
  <1>3. 0 \in P
    <2>1. t[0] = m BY <1>1 DEF RegionRun
    <2>2. Covered(va, 0) = {} BY DEF Covered
    <2>3. Mapped(m.pte, va, 0, pa) = m.pte
      <3>1. m.pte \in [Vas -> Int] BY DEF MapOK, Mems
      <3>2. va..(va + 0 - 1) = {} BY <1>2
      <3> QED BY <3>1, <3>2 DEF Mapped
    <2>4. RegionAt(m, m, va, size, pa, 0) BY <2>2, <2>3 DEF RegionAt
    <2>5. 0 \in 0..size BY <1>2
    <2> QED BY <2>1, <2>4, <2>5
  <1>4. ASSUME NEW k \in 1..size, k - 1 \in P PROVE k \in P
    <2>1. PICK i, a, w, u : i = k - 1 /\ a = t[i] /\ w = t[k] /\ u = (va + i) \div NENT OBVIOUS
    <2>2. i \in 0..(size - 1) /\ k = i + 1 /\ k \in 0..size BY <1>2, <2>1
    <2>3. MapOK(a, N, R) /\ RegionAt(m, a, va, size, pa, i) BY <1>4, <2>1
    <2>4. w = map_next(a, va, size, pa, i) BY <1>1, <2>1 DEF RegionRun
    <2>5. /\ MapOK(w, N, R) /\ w.pte = [a.pte EXCEPT ![va + i] = pa + i]
          /\ u \in Tables /\ w.pgdir[u] # None
          /\ \A x \in Tables : x # u => w.pgdir[x] = a.pgdir[x]
          /\ AllAligned(va, size, pa) => w.pgdir[u] = Large
      <3>1. i \in 0..(size - 1) /\ u = (va + i) \div NENT BY <2>1, <2>2
      <3>2. MapOK(a, N, R) /\ w = map_next(a, va, size, pa, i) BY <2>3, <2>4
      <3>3. Fits(va, size, pa) OBVIOUS
      <3> QED BY <3>1, <3>2, <3>3, PageLemma
    <2>6. Covered(va, k) = Covered(va, i) \cup {u}
      <3>1. 0..(k - 1) = (0..(i - 1)) \cup {i} BY <2>2
      <3> QED BY <2>1, <3>1 DEF Covered
    <2>7. w.pte = Mapped(m.pte, va, k, pa)
      <3>1. PICK v : v = va + i OBVIOUS
      <3>2. v \in Vas BY <2>2, <3>1 DEF Fits
      <3>3. w.pte = [Mapped(m.pte, va, i, pa) EXCEPT ![v] = pa + i]
        BY <2>3, <2>5, <3>1 DEF RegionAt
      <3>4. \A x \in Vas : x \in va..(va + k - 1) <=> x \in va..(va + i - 1) \/ x = v
        <4>1. \A x \in Vas : x \in Int BY DEF Vas
        <4> QED BY <1>2, <2>2, <3>1, <4>1
      <3>5. pa + (v - va) = pa + i /\ v \notin va..(va + i - 1) BY <1>2, <2>2, <3>1
      <3>6. ASSUME NEW x \in Vas PROVE w.pte[x] = Mapped(m.pte, va, k, pa)[x]
        <4>1. CASE x = v
          <5>1. w.pte[x] = pa + i BY <3>2, <3>3, <4>1 DEF Mapped
          <5>2. Mapped(m.pte, va, k, pa)[x] = pa + (x - va) BY <3>4, <4>1 DEF Mapped
          <5> QED BY <3>5, <4>1, <5>1, <5>2
        <4>2. CASE x # v
          <5>1. w.pte[x] = Mapped(m.pte, va, i, pa)[x] BY <3>3, <4>2 DEF Mapped
          <5> QED BY <3>4, <4>2, <5>1 DEF Mapped
        <4> QED BY <4>1, <4>2
      <3>7. DOMAIN w.pte = Vas /\ w.pte = [x \in Vas |-> w.pte[x]] BY <3>3 DEF Mapped
      <3>8. Mapped(m.pte, va, k, pa) = [x \in Vas |-> Mapped(m.pte, va, k, pa)[x]]
        BY Zenon DEF Mapped
      <3> HIDE DEF Mapped
      <3> QED BY <3>6, <3>7, <3>8
    <2>8. ASSUME NEW x \in Tables
          PROVE  IF x \in Covered(va, k) THEN w.pgdir[x] # None ELSE w.pgdir[x] = m.pgdir[x]
      <3>1. IF x \in Covered(va, i) THEN a.pgdir[x] # None ELSE a.pgdir[x] = m.pgdir[x]
        BY <2>3 DEF RegionAt
      <3>2. CASE x = u BY <2>5, <2>6, <3>2
      <3>3. CASE x # u BY <2>5, <2>6, <3>1, <3>3
      <3> QED BY <3>2, <3>3
    <2>9. ASSUME AllAligned(va, size, pa), NEW x \in Covered(va, k) PROVE w.pgdir[x] = Large
      <3>1. CASE x = u BY <2>5, <2>9, <3>1
      <3>2. CASE x # u
        <4>1. x \in Covered(va, i) BY <2>6, <2>9, <3>2
        <4>2. x \in Tables
          <5>1. PICK j \in 0..(i - 1) : x = (va + j) \div NENT BY <4>1 DEF Covered
          <5>2. j \in 0..(size - 1) BY <1>2, <2>2
          <5>3. va + j \in Vas BY <5>2 DEF Fits
          <5> QED BY <5>1, <5>3, TableOf
        <4>3. a.pgdir[x] = Large BY <2>3, <2>9, <4>1 DEF RegionAt
        <4> QED BY <2>5, <3>2, <4>2, <4>3
      <3> QED BY <3>1, <3>2
    <2>10. RegionAt(m, w, va, size, pa, k) BY <2>7, <2>8, <2>9 DEF RegionAt
    <2> QED BY <2>1, <2>2, <2>5, <2>10
  <1> HIDE DEF P
  <1>5. \A k \in 0..size : k \in P BY <1>2, <1>3, <1>4, RoundsKeep
  <1>6. size \in P BY <1>2, <1>5
  <1> QED BY <1>1, <1>6 DEF P

-----------------------------------------------------------------------------
(* The free list *)

OnceEach(s) == \A i, j \in 1..Len(s) : s[i] = s[j] => i = j

\* What Keep has made of the first k pages of s.
KeptAt(s, S, a, k) ==
  /\ a \in Seq(Nat)
  /\ \A i \in 1..Len(a) : a[i] \in S /\ \E j \in 1..k : s[j] = a[i]
  /\ \A j \in 1..k : s[j] \in S => \E i \in 1..Len(a) : a[i] = s[j]
  /\ OnceEach(s) => OnceEach(a)

\* The states of the loop of Keep.
KeepRun(s, S, t) ==
  /\ t[0] = <<>> /\ \A k \in 1..Len(s) : t[k] = keep_next(t[k - 1], s[k], S)

\* Keep is the last state of the loop.
LEMMA KeepIs ==
  ASSUME NEW s \in Seq(Nat), NEW S
  PROVE  \E t : KeepRun(s, S, t) /\ Keep(s, S) = t[Len(s)]
PROOF
  <1> DEFINE N == Len(s)
             T == Seq(Nat)
             a == <<>>
             F == [y \in T \X (1..N) |-> keep_next(y[1], s[y[2]], S)]
             Is(t) == t = [k \in 0..N |-> IF k = 0 THEN a ELSE keep_next(t[k - 1], s[k], S)]
             r == CHOOSE t : Is(t)
  <1>1. N \in Nat /\ \A k \in 1..N : s[k] \in Nat OBVIOUS
  <1>2. a \in T OBVIOUS
  <1>3. \A x \in T, k \in 1..N : keep_next(x, s[k], S) \in T BY <1>1 DEF keep_next
  <1>4. Keep(s, S) = r[N] BY Zenon DEF Keep
  <1> HIDE DEF N, a, T
  <1>5. \A x \in T, k \in 1..N : F[<<x, k>>] = keep_next(x, s[k], S) OBVIOUS
  <1> HIDE DEF F
  <1>6. PICK t \in [0..N -> T] : t[0] = a /\ \A k \in 1..N : t[k] = F[<<t[k - 1], k>>]
    <2>1. StepsIn(N, T, F) BY <1>1, <1>3, <1>5 DEF StepsIn
    <2>2. PICK t \in [0..N -> T] : Runs(N, a, F, t) BY <1>1, <1>2, <2>1, LoopRuns
    <2> QED BY <2>2 DEF Runs
  <1>7. Is(t)
    <2>1. \A k \in 0..N : k # 0 => k \in 1..N /\ k - 1 \in 0..N BY <1>1
    <2>2. \A k \in 0..N : k # 0 => t[k] = keep_next(t[k - 1], s[k], S) BY <1>5, <1>6, <2>1
    <2>3. t = [k \in 0..N |-> t[k]] BY <1>6
    <2> QED BY <1>6, <2>2, <2>3
  <1>8. Is(r) BY <1>7
  <1> HIDE DEF r
  <1>9. r[0] = a /\ \A k \in 1..N : r[k] = keep_next(r[k - 1], s[k], S) BY <1>1, <1>8
  <1> QED BY <1>4, <1>9 DEF KeepRun, N, a

\* Keep keeps the pages that are in S, and those only, and none becomes two.
LEMMA KeepLemma ==
  ASSUME NEW s \in Seq(Nat), NEW S, NEW q, q = Keep(s, S)
  PROVE  KeptAt(s, S, q, Len(s))
PROOF
  <1>1. PICK t : KeepRun(s, S, t) /\ q = t[Len(s)] BY KeepIs
  <1>2. Len(s) \in Nat /\ \A k \in 1..Len(s) : s[k] \in Nat OBVIOUS
  <1> DEFINE P == {k \in 0..Len(s) : KeptAt(s, S, t[k], k)}
  <1>3. 0 \in P
    <2>1. t[0] = <<>> /\ 0 \in 0..Len(s) BY <1>1, <1>2 DEF KeepRun
    <2>2. KeptAt(s, S, <<>>, 0) BY DEF KeptAt, OnceEach
    <2> QED BY <2>1, <2>2
  <1>4. ASSUME NEW k \in 1..Len(s), k - 1 \in P PROVE k \in P
    <2>1. PICK i, a, b, x : i = k - 1 /\ a = t[i] /\ b = t[k] /\ x = s[k] OBVIOUS
    <2>2. i \in 0..Len(s) /\ k \in 0..Len(s) /\ k = i + 1 /\ x \in Nat BY <1>2, <2>1
    <2>3. KeptAt(s, S, a, i) BY <1>4, <2>1
    <2>4. b = keep_next(a, x, S) BY <1>1, <2>1 DEF KeepRun
    <2>5. 1..k = (1..i) \cup {k} BY <2>2
    <2>6. a \in Seq(Nat) /\ Len(a) \in Nat BY <2>3 DEF KeptAt
    <2>7. CASE x \in S
      <3>1. b = Append(a, x) BY <2>4, <2>7 DEF keep_next
      <3>2. /\ b \in Seq(Nat) /\ Len(b) = Len(a) + 1 /\ b[Len(a) + 1] = x
            /\ \A j \in 1..Len(a) : b[j] = a[j]
        BY <2>2, <2>6, <3>1
      <3>3. ASSUME NEW j \in 1..Len(b) PROVE b[j] \in S /\ \E l \in 1..k : s[l] = b[j]
        <4>1. CASE j = Len(a) + 1
          <5>1. b[j] = x /\ s[k] = x /\ k \in 1..k BY <2>1, <2>2, <3>2, <4>1
          <5> QED BY <2>7, <5>1
        <4>2. CASE j # Len(a) + 1
          <5>1. j \in 1..Len(a) BY <2>6, <3>2, <4>2
          <5>2. a[j] \in S /\ \E l \in 1..i : s[l] = a[j] BY <2>3, <5>1 DEF KeptAt
          <5> QED BY <2>5, <3>2, <5>1, <5>2
        <4> QED BY <4>1, <4>2
      <3>4. ASSUME NEW j \in 1..k, s[j] \in S PROVE \E l \in 1..Len(b) : b[l] = s[j]
        <4>1. CASE j = k
          <5>1. Len(a) + 1 \in 1..Len(b) BY <2>6, <3>2
          <5> QED BY <2>1, <3>2, <4>1, <5>1
        <4>2. CASE j # k
          <5>1. PICK l \in 1..Len(a) : a[l] = s[j] BY <2>3, <2>5, <3>4, <4>2 DEF KeptAt
          <5>2. l \in 1..Len(b) BY <2>6, <3>2
          <5> QED BY <3>2, <5>1, <5>2
        <4> QED BY <4>1, <4>2
      <3>5. ASSUME OnceEach(s) PROVE OnceEach(b)
        <4>1. OnceEach(a) BY <2>3, <3>5 DEF KeptAt
        <4>2. ASSUME NEW l \in 1..Len(a) PROVE a[l] # x
          <5>1. PICK j \in 1..i : s[j] = a[l] BY <2>3 DEF KeptAt
          <5>2. j \in 1..Len(s) /\ j # k BY <2>2, <1>2
          <5> QED BY <2>1, <3>5, <5>1, <5>2 DEF OnceEach
        <4>3. ASSUME NEW u \in 1..Len(b), NEW v \in 1..Len(b), b[u] = b[v] PROVE u = v
          <5>1. CASE u = Len(a) + 1 /\ v = Len(a) + 1 BY <5>1
          <5>2. CASE u = Len(a) + 1 /\ v # Len(a) + 1
            <6>1. v \in 1..Len(a) BY <2>6, <3>2, <5>2
            <6> QED BY <3>2, <4>2, <4>3, <5>2, <6>1
          <5>3. CASE u # Len(a) + 1 /\ v = Len(a) + 1
            <6>1. u \in 1..Len(a) BY <2>6, <3>2, <5>3
            <6> QED BY <3>2, <4>2, <4>3, <5>3, <6>1
          <5>4. CASE u # Len(a) + 1 /\ v # Len(a) + 1
            <6>3. PICK n \in Nat : n = Len(a) BY <2>6
            <6>4. u \in 1..(n + 1) /\ v \in 1..(n + 1) /\ u # n + 1 /\ v # n + 1
              BY <3>2, <5>4, <6>3
            <6>5. u \in 1..n /\ v \in 1..n BY <6>3, <6>4
            <6>1. u \in 1..Len(a) /\ v \in 1..Len(a) BY <6>3, <6>5
            <6>2. a[u] = a[v] BY <3>2, <4>3, <6>1
            <6> QED BY <4>1, <6>1, <6>2 DEF OnceEach
          <5> QED BY <5>1, <5>2, <5>3, <5>4
        <4> QED BY <4>3 DEF OnceEach
      <3>6. KeptAt(s, S, b, k) BY <3>2, <3>3, <3>4, <3>5 DEF KeptAt
      <3> QED BY <2>1, <2>2, <3>6
    <2>8. CASE x \notin S
      <3>1. b = a BY <2>4, <2>8 DEF keep_next
      <3>2. \A j \in 1..Len(a) : a[j] \in S /\ \E l \in 1..k : s[l] = a[j]
        BY <2>3, <2>5 DEF KeptAt
      <3>3. \A j \in 1..k : s[j] \in S => \E l \in 1..Len(a) : a[l] = s[j]
        BY <2>1, <2>3, <2>5, <2>8 DEF KeptAt
      <3>4. KeptAt(s, S, b, k) BY <2>3, <3>1, <3>2, <3>3 DEF KeptAt
      <3> QED BY <2>1, <2>2, <3>4
    <2> QED BY <2>7, <2>8
  <1> HIDE DEF P
  <1>5. \A k \in 0..Len(s) : k \in P BY <1>2, <1>3, <1>4, RoundsKeep
  <1>6. Len(s) \in P BY <1>2, <1>5
  <1> QED BY <1>1, <1>6 DEF P

\* What may not be on the free list, from page_init on.
Reserved == {0, MPENTRY} \cup (IOPHYSMEM..(nextfree - 1))
\* The pages of base memory that nobody needs.
Base == (1..(IOPHYSMEM - 1)) \ {MPENTRY}
BaseFree(s) == \A p \in Base : \E i \in 1..Len(s) : s[i] = p

\* page_init: base memory is free, and nothing that is in use.
LEMMA InitList ==
  ASSUME npages \in Nat, nextfree \in Nat, KEND <= nextfree, nextfree <= npages,
         NEW s, s = Keep([k \in 1..(npages - 1) |-> k], FreePages(npages))
  PROVE  ListOK(s, npages, Reserved) /\ BaseFree(s)
PROOF
  <1>1. PICK f : f = [k \in 1..(npages - 1) |-> k] OBVIOUS
  <1>2. npages - 1 \in Nat BY Constants_
  <1>3. f \in Seq(Nat) /\ Len(f) = npages - 1 /\ \A k \in 1..Len(f) : f[k] = k BY <1>1, <1>2
  <1>4. PICK S : S = FreePages(npages) OBVIOUS
  <1>5. KeptAt(f, S, s, Len(f)) BY <1>1, <1>3, <1>4, KeepLemma
  <1>6. OnceEach(s)
    <2>1. OnceEach(f) BY <1>3 DEF OnceEach
    <2> QED BY <1>5, <2>1 DEF KeptAt
  <1>7. ASSUME NEW i \in 1..Len(s) PROVE s[i] < npages /\ s[i] \notin Reserved
    <2>1. s[i] \in S BY <1>5 DEF KeptAt
    <2> QED BY <1>4, <2>1 DEF FreePages, Reserved
  <1>8. ASSUME NEW p \in Base PROVE \E i \in 1..Len(s) : s[i] = p
    <2>1. p \in 1..Len(f) /\ p \in S
      BY <1>3, <1>4, Constants_ DEF Base, FreePages
    <2>2. f[p] \in S BY <1>3, <2>1
    <2>3. \E i \in 1..Len(s) : s[i] = f[p] BY <1>5, <2>1, <2>2 DEF KeptAt
    <2> QED BY <1>3, <2>1, <2>3
  <1>9. s \in Seq(Nat) BY <1>5 DEF KeptAt
  <1> QED BY <1>6, <1>7, <1>8, <1>9 DEF ListOK, OnceEach, BaseFree

\* A list with all of base memory is long enough for the tables.
LEMMA LongEnough ==
  ASSUME NEW s \in Seq(Nat), BaseFree(s)
  PROVE  Len(s) >= KT + 4
PROOF
  <1>1. PICK n \in Nat : n = Len(s) OBVIOUS
  <1> DEFINE D == 1..n
             T == {s[i] : i \in D}
             f == [i \in D |-> s[i]]
  <1>2. IsFiniteSet(D) /\ Cardinality(D) = n
    <2>1. 1 \in Int /\ n \in Int OBVIOUS
    <2>2. IsFiniteSet(1..n) /\ Cardinality(1..n) = IF 1 > n THEN 0 ELSE n - 1 + 1
      BY <2>1, FS_Interval
    <2> QED BY <2>2
  <1>3. f \in Surjection(D, T) BY DEF Surjection
  <1>4. IsFiniteSet(T) /\ Cardinality(T) <= Cardinality(D) BY <1>2, <1>3, FS_Surjection
  <1>5. Base \in SUBSET T BY <1>1 DEF BaseFree
  <1>6. IsFiniteSet(Base) /\ Cardinality(Base) <= Cardinality(T) BY <1>4, <1>5, FS_Subset
  <1>7. Cardinality(Base) = IOPHYSMEM - 2
    <2>1. PICK h \in Nat : h = IOPHYSMEM - 1 BY Constants_
    <2>2. 1 \in Int /\ h \in Int OBVIOUS
    <2>3. IsFiniteSet(1..h) /\ Cardinality(1..h) = IF 1 > h THEN 0 ELSE h - 1 + 1
      BY <2>2, FS_Interval
    <2>4. MPENTRY \in 1..h BY <2>1, Constants_
    <2>5. Cardinality((1..h) \ {MPENTRY}) = Cardinality(1..h) - 1 BY <2>3, <2>4, FS_RemoveElement
    <2>6. Base = (1..h) \ {MPENTRY} BY <2>1 DEF Base
    <2>7. Cardinality(Base) = Cardinality(1..h) - 1 BY <2>5, <2>6, Zenon
    <2>8. h >= 1 /\ h = IOPHYSMEM - 1 BY <2>1, Constants_
    <2>9. Cardinality(1..h) = h BY <2>3, <2>8
    <2> QED BY <2>7, <2>8, <2>9, Constants_
  <1>8. Cardinality(T) \in Nat /\ Cardinality(Base) \in Nat BY <1>4, <1>6, FS_CardinalityType
  <1>9. PICK x, y \in Nat : x = Cardinality(T) /\ y = Cardinality(Base) BY <1>8
  <1>10. x <= n BY <1>2, <1>4, <1>9
  <1>11. y <= x /\ y = IOPHYSMEM - 2 BY <1>6, <1>7, <1>9
  <1> QED BY <1>1, <1>9, <1>10, <1>11, Constants_

\* check_page_free_list: the pages that can be touched come first, and there
\* are enough of them.
LEMMA CheckedList ==
  ASSUME npages \in Nat, NEW R, NEW s, ListOK(s, npages, R), BaseFree(s), IOPHYSMEM <= LOW,
         NEW l, l = Keep(s, entry_pgdir), NEW h, h = Keep(s, LOW..(npages - 1)),
         NEW q, q = l \o h
  PROVE  ListOK(q, npages, R) /\ LowFirst(q, KT + 4) /\ \A i \in 1..Len(l) : l[i] \in entry_pgdir
PROOF
  <1>1. s \in Seq(Nat) /\ OnceEach(s) BY DEF ListOK, OnceEach
  <1>2. KeptAt(s, entry_pgdir, l, Len(s)) /\ KeptAt(s, LOW..(npages - 1), h, Len(s))
    BY <1>1, KeepLemma
  <1>3. /\ l \in Seq(Nat) /\ h \in Seq(Nat) /\ OnceEach(l) /\ OnceEach(h)
        /\ \A i \in 1..Len(l) : l[i] \in entry_pgdir /\ \E j \in 1..Len(s) : s[j] = l[i]
        /\ \A i \in 1..Len(h) : h[i] \in LOW..(npages - 1) /\ \E j \in 1..Len(s) : s[j] = h[i]
    BY <1>1, <1>2 DEF KeptAt
  <1>4. PICK a, b \in Nat : a = Len(l) /\ b = Len(h) BY <1>3
  <1>5. /\ q \in Seq(Nat) /\ Len(q) = a + b
        /\ \A i \in 1..a : q[i] = l[i]
        /\ \A i \in (a + 1)..(a + b) : q[i] = h[i - a] /\ i - a \in 1..b
    BY <1>3, <1>4
  <1>6. ASSUME NEW i \in 1..Len(q)
        PROVE  /\ \E j \in 1..Len(s) : s[j] = q[i]
               /\ i <= a => q[i] < LOW
               /\ i > a => q[i] >= LOW
    <2>1. CASE i <= a
      <3>1. i \in 1..a BY <1>4, <2>1
      <3>2. q[i] \in entry_pgdir /\ \E j \in 1..Len(s) : s[j] = q[i] BY <1>3, <1>4, <1>5, <3>1
      <3> QED BY <1>4, <2>1, <3>2, Constants_ DEF entry_pgdir
    <2>2. CASE ~(i <= a)
      <3>1. i \in (a + 1)..(a + b) BY <1>4, <1>5, <2>2
      <3>2. q[i] = h[i - a] /\ i - a \in 1..b BY <1>5, <3>1
      <3>3. h[i - a] \in LOW..(npages - 1) /\ \E j \in 1..Len(s) : s[j] = h[i - a]
        BY <1>3, <1>4, <3>2
      <3>4. q[i] >= LOW BY <3>2, <3>3, Constants_
      <3> QED BY <2>2, <3>2, <3>3, <3>4
    <2> QED BY <2>1, <2>2
  <1>7. \A i \in 1..Len(q) : q[i] < npages /\ q[i] \notin R BY <1>6 DEF ListOK
  <1>8. ASSUME NEW i \in 1..Len(q), NEW j \in 1..Len(q), q[i] = q[j] PROVE i = j
    <2>1. i \in Nat /\ j \in Nat /\ a \in Nat /\ LOW \in Nat BY <1>4, <1>5, Constants_
    <2>4. q[i] \in Nat /\ q[j] \in Nat
      <3>1. q \in Seq(Nat) BY <1>5
      <3>2. \A k \in 1..Len(q) : q[k] \in Nat BY <3>1
      <3> QED BY <1>8, <3>2, Zenon
    <2>5. PICK x \in Nat : x = q[i] /\ x = q[j] BY <1>8, <2>4
    <2>6. (i <= a => x < LOW) /\ (i > a => x >= LOW) /\ (j <= a => x < LOW) /\ (j > a => x >= LOW)
      BY <1>6, <1>8, <2>5
    <2>2. CASE i <= a
      <3>1. j <= a BY <2>1, <2>2, <2>6
      <3>2. i \in 1..a /\ j \in 1..a BY <1>4, <2>2, <3>1
      <3>3. l[i] = l[j] BY <1>5, <1>8, <3>2
      <3> QED BY <1>3, <1>4, <3>2, <3>3 DEF OnceEach
    <2>3. CASE ~(i <= a)
      <3>1. ~(j <= a) BY <2>1, <2>3, <2>6
      <3>2. i \in (a + 1)..(a + b) /\ j \in (a + 1)..(a + b) BY <1>4, <1>5, <2>3, <3>1
      <3>3. h[i - a] = h[j - a] /\ i - a \in 1..b /\ j - a \in 1..b BY <1>5, <1>8, <3>2
      <3>4. i - a = j - a BY <1>3, <1>4, <3>3 DEF OnceEach
      <3> QED BY <1>4, <3>4
    <2> QED BY <2>2, <2>3
  <1>9. BaseFree(l)
    <2>1. SUFFICES ASSUME NEW p \in Base PROVE \E i \in 1..Len(l) : l[i] = p BY DEF BaseFree
    <2>2. PICK j \in 1..Len(s) : s[j] = p BY DEF BaseFree
    <2>3. p \in entry_pgdir BY Constants_ DEF Base, entry_pgdir
    <2> QED BY <1>2, <2>2, <2>3 DEF KeptAt
  <1>10. a >= KT + 4 BY <1>3, <1>4, <1>9, LongEnough
  <1>11. LowFirst(q, KT + 4)
    <2>1. SUFFICES ASSUME NEW i \in 1..(KT + 4) PROVE i <= Len(q) /\ q[i] < LOW BY DEF LowFirst
    <2>2. i \in Nat /\ i >= 1 /\ i <= a BY <1>4, <1>10, Constants_
    <2>3. i \in 1..Len(q) /\ i <= Len(q) BY <1>4, <1>5, <2>2
    <2>4. q[i] < LOW BY <1>6, <2>2, <2>3
    <2> QED BY <2>3, <2>4
  <1> QED BY <1>3, <1>5, <1>7, <1>8, <1>11 DEF ListOK

-----------------------------------------------------------------------------
(* Where the regions are *)

\* The arrays fit where they are mapped, and all boot data below LOW.
LEMMA InfoFacts ==
  ASSUME npages \in Sizes
  PROVE  /\ npages \in Nat \ {0} /\ npages <= KT * NENT
         /\ InfoPages \in Nat \ {0} /\ InfoPages <= NENT
         /\ KEND + 1 + InfoPages + ENVPAGES <= LOW
PROOF
  <1>1. PICK n, p, q, r, i, s :
          /\ n = npages /\ p = PERPAGE /\ q = n \div p /\ r = n % p
          /\ i = (n + p - 1) \div p /\ s = (n + p - 1) % p
    OBVIOUS
  <1>2. n \in 1..(KT * NENT) /\ p \in Nat \ {0} /\ q + 1 <= NENT /\ KEND + 1 + q + 1 + ENVPAGES <= LOW
    BY <1>1, Constants_, BootMemAssumption
  <1>3. n \in Nat \ {0} /\ n <= KT * NENT
    <2>1. KT * NENT \in Nat BY Constants_, Products
    <2> QED BY <1>2, <2>1
  <1>4. q \in Nat /\ r \in 0..(p - 1) /\ n = q * p + r BY <1>1, <1>2, <1>3, DivMod
  <1>5. i \in Nat /\ s \in 0..(p - 1) /\ n + p - 1 = i * p + s
    <2>1. n + p - 1 \in Nat BY <1>2, <1>3
    <2> QED BY <1>1, <1>2, <2>1, DivMod
  <1>6. PICK x, y \in Nat : x = q * p /\ y = i * p BY <1>2, <1>4, <1>5, Products
  <1>7. i # 0
    <2>1. i = 0 => y = 0 BY <1>2, <1>6
    <2> QED BY <1>2, <1>3, <1>5, <1>6, <2>1
  <1>8. i <= q + 1
    <2>1. ASSUME q + 1 < i PROVE FALSE
      <3>1. (q + 1) * p = x + p BY <1>2, <1>4, <1>6
      <3>2. (q + 1) * p + p <= i * p BY <1>2, <1>4, <1>5, <2>1, Products
      <3>3. x + p + p <= y BY <1>6, <3>1, <3>2
      <3> QED BY <1>2, <1>3, <1>4, <1>5, <1>6, <3>3
    <2> QED BY <1>4, <1>5, <2>1
  <1>9. InfoPages = i BY <1>1 DEF InfoPages, RoundUp
  <1> QED BY <1>1, <1>2, <1>3, <1>4, <1>5, <1>7, <1>8, <1>9, Constants_

\* A region that stays in one table.
LEMMA OneTable ==
  ASSUME NEW q \in Tables, NEW o \in Nat, NEW size \in Nat, o + size <= NENT,
         NEW va, va = q * NENT + o
  PROVE  va \in Nat /\ \A i \in 0..(size - 1) : va + i \in Vas /\ (va + i) \div NENT = q
PROOF
  <1>1. PICK n, c : n = NENT /\ c = 5 + KT OBVIOUS
  <1>2. n \in Nat \ {0} /\ c \in Nat /\ q \in Nat /\ q < c BY <1>1, Constants_ DEF Tables
  <1>3. PICK x, l \in Nat : x = q * n /\ l = c * n BY <1>2, Products
  <1>4. x + n <= l BY <1>2, <1>3, Products
  <1>5. va \in Nat /\ va = x + o BY <1>1, <1>3
  <1>6. ASSUME NEW i \in 0..(size - 1) PROVE va + i \in Vas /\ (va + i) \div NENT = q
    <2>1. PICK r : r = o + i OBVIOUS
    <2>2. r \in 0..(n - 1) /\ va + i = q * n + r BY <1>1, <1>2, <1>3, <1>5, <2>1
    <2>3. (va + i) \div n = q BY <1>2, <2>2, DivUnique
    <2>4. va + i \in 0..(l - 1) BY <1>2, <1>3, <1>4, <1>5, <2>1, <2>2
    <2>5. va + i \in Vas BY <1>1, <1>3, <2>4 DEF Vas
    <2> QED BY <1>1, <2>3, <2>5
  <1> QED BY <1>5, <1>6

\* So it fits, and only its table is covered.
LEMMA OneTableFits ==
  ASSUME NEW q \in Tables, NEW o \in Nat, NEW size \in Nat \ {0}, o + size <= NENT,
         NEW va, va = q * NENT + o, NEW pa \in Nat
  PROVE  Fits(va, size, pa) /\ Covered(va, size) = {q}
PROOF
  <1>1. va \in Nat /\ \A i \in 0..(size - 1) : va + i \in Vas /\ (va + i) \div NENT = q
    BY OneTable
  <1>2. 0 \in 0..(size - 1) OBVIOUS
  <1> QED BY <1>1, <1>2 DEF Fits, Covered

\* The stack of processor c begins at Slot(c).
Slot(c) == StackTop(c) - KSTKSIZE

\* Stacks and gaps are in the table below KSTACKTOP and do not overlap.
LEMMA SlotFacts ==
  ASSUME NEW c \in 0..(NCPU - 1)
  PROVE  /\ Slot(c) \in Nat /\ Slot(c) - KSTKGAP >= 4 * NENT
         /\ Slot(c) + KSTKSIZE <= 5 * NENT
         /\ \A d \in 0..(NCPU - 1) : c < d => Slot(d) + KSTKSIZE <= Slot(c) - KSTKGAP
PROOF
  <1>1. PICK n, s, g, w, k : n = NENT /\ s = KSTKSIZE /\ g = KSTKGAP /\ w = s + g /\ k = NCPU OBVIOUS
  <1>2. /\ n \in Nat \ {0} /\ s \in Nat \ {0} /\ g \in Nat \ {0} /\ w \in Nat /\ w = s + g
        /\ k \in Nat \ {0} /\ c \in Nat /\ c < k
    BY <1>1, Constants_
  <1>3. k * w <= n BY <1>1, BootMemAssumption
  <1>4. PICK x, l \in Nat : x = c * w /\ l = k * w BY <1>2, Products
  <1>5. x + w <= l BY <1>2, <1>4, Products
  <1>6. Slot(c) = 5 * n - x - s BY <1>1, <1>4 DEF Slot, StackTop, KSTACKTOP
  <1>7. ASSUME NEW d \in 0..(NCPU - 1), c < d PROVE Slot(d) + s <= Slot(c) - g
    <2>1. d \in Nat BY <1>1, <1>2
    <2>2. PICK y \in Nat : y = d * w BY <1>2, <2>1, Products
    <2>3. x + w <= y BY <1>2, <1>4, <1>7, <2>1, <2>2, Products
    <2>4. Slot(d) = 5 * n - y - s BY <1>1, <2>2 DEF Slot, StackTop, KSTACKTOP
    <2> QED BY <1>2, <1>4, <1>6, <2>2, <2>3, <2>4
  <1>8. Slot(c) \in Nat /\ Slot(c) - g >= 4 * n /\ Slot(c) + s <= 5 * n
    BY <1>2, <1>3, <1>4, <1>5, <1>6
  <1> QED BY <1>1, <1>7, <1>8

\* The regions fit, and cover the tables they should.
LEMMA RegionFits ==
  ASSUME npages \in Sizes
  PROVE  /\ Fits(UPAGES, InfoPages, KEND + 1) /\ Covered(UPAGES, InfoPages) = {1}
         /\ Fits(UENVS, ENVPAGES, KEND + 1 + InfoPages) /\ Covered(UENVS, ENVPAGES) = {0}
         /\ Fits(MMIOBASE, 3, 0) /\ Covered(MMIOBASE, 3) = {3}
         /\ \A c \in 0..(NCPU - 1) : /\ Fits(Slot(c), KSTKSIZE, Stack(c))
                                     /\ Covered(Slot(c), KSTKSIZE) = {4}
PROOF
  <1>0. 0 \in Tables /\ 1 \in Tables /\ 3 \in Tables /\ 4 \in Tables BY Constants_ DEF Tables
  <1>1. Fits(UPAGES, InfoPages, KEND + 1) /\ Covered(UPAGES, InfoPages) = {1}
    <2>1. UPAGES = 1 * NENT + 0 /\ KEND + 1 \in Nat BY Constants_ DEF UPAGES
    <2>2. InfoPages \in Nat \ {0} /\ 0 + InfoPages <= NENT BY InfoFacts
    <2> QED BY <1>0, <2>1, <2>2, OneTableFits
  <1>2. Fits(UENVS, ENVPAGES, KEND + 1 + InfoPages) /\ Covered(UENVS, ENVPAGES) = {0}
    <2>1. UENVS = 0 * NENT + 0 BY Constants_ DEF UENVS
    <2>2. InfoPages \in Nat BY InfoFacts
    <2>3. KEND + 1 + InfoPages \in Nat /\ ENVPAGES \in Nat \ {0} /\ 0 + ENVPAGES <= NENT
      BY <2>2, Constants_
    <2> QED BY <1>0, <2>1, <2>3, OneTableFits
  <1>3. Fits(MMIOBASE, 3, 0) /\ Covered(MMIOBASE, 3) = {3}
    <2>1. MMIOBASE = 3 * NENT + 0 BY Constants_ DEF MMIOBASE
    <2>2. 0 + 3 <= NENT BY Constants_
    <2> QED BY <1>0, <2>1, <2>2, OneTableFits
  <1>4. ASSUME NEW c \in 0..(NCPU - 1)
        PROVE  Fits(Slot(c), KSTKSIZE, Stack(c)) /\ Covered(Slot(c), KSTKSIZE) = {4}
    <2>1. Slot(c) \in Nat /\ Slot(c) >= 4 * NENT /\ Slot(c) + KSTKSIZE <= 5 * NENT
      BY SlotFacts, Constants_
    <2>2. PICK o : o = Slot(c) - 4 * NENT OBVIOUS
    <2>3. o \in Nat /\ Slot(c) = 4 * NENT + o /\ o + KSTKSIZE <= NENT BY <2>1, <2>2, Constants_
    <2>4. Stack(c) \in Nat
      <3>1. c \in Nat BY Constants_
      <3>2. c * KSTKSIZE \in Nat BY <3>1, Constants_, Products
      <3> QED BY <3>2, Constants_ DEF Stack
    <2> QED BY <1>0, <2>3, <2>4, Constants_, OneTableFits
  <1> QED BY <1>1, <1>2, <1>3, <1>4

\* All memory at KERNBASE: whole tables, each aligned.
LEMMA KernbaseFits ==
  /\ Fits(KERNBASE, KT * NENT, 0) /\ Covered(KERNBASE, KT * NENT) = 5..(4 + KT)
  /\ pse => AllAligned(KERNBASE, KT * NENT, 0)
PROOF
  <1>1. PICK n, k, b, l : n = NENT /\ k = KT /\ b = KERNBASE /\ l = k * n OBVIOUS
  <1>2. n \in Nat \ {0} /\ k \in Nat \ {0} /\ b = 5 * n
    BY <1>1, Constants_ DEF KERNBASE, KSTACKTOP
  <1>3. l \in Nat BY <1>1, <1>2, Products
  <1>4. (5 + k) * n = 5 * n + l BY <1>1, <1>2, Products
  <1>5. ASSUME NEW i \in 0..(l - 1)
        PROVE  /\ b + i \in Vas /\ (b + i) \div n \in 5..(4 + k)
               /\ Aligned(b, l, 0, i)
    <2>1. PICK q, r : q = i \div n /\ r = i % n OBVIOUS
    <2>11. i \in Nat /\ i < l BY <1>3
    <2>2. i \in Nat /\ q \in Nat /\ r \in 0..(n - 1) /\ i = q * n + r
      BY <1>2, <2>1, <2>11, DivMod
    <2>3. PICK x \in Nat : x = q * n BY <1>2, <2>2, Products
    <2>4. q < k
      <3>1. k < q => l + n <= x BY <1>1, <1>2, <1>3, <2>2, <2>3, Products
      <3>2. k = q => l = x BY <1>1, <2>3
      <3> QED BY <1>2, <1>3, <2>2, <2>3, <3>1, <3>2
    <2>5. x + n <= l BY <1>1, <1>2, <2>2, <2>3, <2>4, Products
    <2>6. (5 + q) * n = 5 * n + x BY <1>2, <2>2, <2>3, Products
    <2>7. b + i = (5 + q) * n + r /\ 5 + q \in Nat BY <1>2, <2>2, <2>3, <2>6
    <2>8. (b + i) \div n = 5 + q /\ (b + i) % n = r
      <3>1. PICK v, c \in Nat : v = b + i /\ c = 5 + q
        <4>1. b + i \in Nat BY <1>2, <2>11
        <4> QED BY <2>7, <4>1
      <3>2. v = c * n + r BY <2>7, <3>1
      <3>3. v \div n = c /\ v % n = r BY <1>2, <2>2, <3>2, DivUnique
      <3> QED BY <3>1, <3>3
    <2>9. b + i \in Vas
      <3>1. b + i \in 0..((5 + k) * n - 1) BY <1>2, <1>3, <1>4, <2>2
      <3> QED BY <1>1, <3>1 DEF Vas
    <2>10. Aligned(b, l, 0, i)
      <3>1. i - ((b + i) % n) = x BY <2>2, <2>3, <2>8
      <3>2. x = q * n + 0 /\ 0 \in 0..(n - 1) BY <1>2, <2>3
      <3>5. q \in Nat /\ n \in Nat \ {0} BY <1>2, <2>2
      <3>3. x % n = 0 BY <3>2, <3>5, DivUnique
      <3>4. x >= 0 /\ (0 + x) % n = 0 /\ l - x >= n BY <1>2, <1>3, <2>3, <2>5, <3>3
      <3> QED BY <1>1, <3>1, <3>4 DEF Aligned
    <2> QED BY <1>2, <2>2, <2>4, <2>8, <2>9, <2>10
  <1>6. Fits(b, l, 0)
    <2>1. b \in Nat /\ 0 \in Nat BY <1>2
    <2>2. \A i \in 0..(l - 1) : b + i \in Vas BY <1>5
    <2> QED BY <1>3, <2>1, <2>2 DEF Fits
  <1>7. Covered(b, l) = 5..(4 + k)
    <2>1. \A t \in Covered(b, l) : t \in 5..(4 + k) BY <1>1, <1>5 DEF Covered
    <2>2. ASSUME NEW t \in 5..(4 + k) PROVE t \in Covered(b, l)
      <3>1. PICK q : q = t - 5 OBVIOUS
      <3>2. q \in Nat /\ q < k /\ t = 5 + q BY <1>2, <3>1
      <3>3. PICK x \in Nat : x = q * n BY <1>2, <3>2, Products
      <3>4. x + n <= l BY <1>1, <1>2, <3>2, <3>3, Products
      <3>5. x \in 0..(l - 1) BY <1>2, <1>3, <3>3, <3>4
      <3>6. b + x = t * n + 0 /\ t \in Nat /\ 0 \in 0..(n - 1)
        <4>1. (5 + q) * n = 5 * n + q * n BY <1>2, <3>2, Products
        <4> QED BY <1>2, <3>2, <3>3, <4>1
      <3>7. (b + x) \div n = t BY <1>2, <3>6, DivUnique
      <3> QED BY <1>1, <3>5, <3>7 DEF Covered
    <2> QED BY <2>1, <2>2
  <1>8. pse => AllAligned(b, l, 0) BY <1>5 DEF AllAligned
  <1> QED BY <1>1, <1>6, <1>7, <1>8

\* The pages from va are mapped to those from pa.
Has(p, va, size, pa) == \A i \in 0..(size - 1) : p[va + i] = pa + i
\* Nothing is mapped below the stacks.
Gaps(p) == \A c \in 0..(NCPU - 1), i \in 1..KSTKGAP : p[Slot(c) - i] = None
Inside(va, size) == \A i \in 0..(size - 1) : va + i \in Vas

\* A region is mapped when it has been mapped.
LEMMA HasNow ==
  ASSUME NEW p, NEW va, NEW size, NEW pa, Fits(va, size, pa)
  PROVE  Has(Mapped(p, va, size, pa), va, size, pa)
PROOF
  <1>1. SUFFICES ASSUME NEW i \in 0..(size - 1)
                 PROVE  Mapped(p, va, size, pa)[va + i] = pa + i
    BY DEF Has
  <1>2. va \in Nat /\ size \in Nat /\ pa \in Nat BY DEF Fits
  <1>3. PICK v : v = va + i OBVIOUS
  <1>4. v \in Vas /\ v \in va..(va + size - 1) /\ pa + (v - va) = pa + i
    BY <1>2, <1>3 DEF Fits
  <1>5. Mapped(p, va, size, pa)[v] = pa + (v - va) BY <1>4 DEF Mapped
  <1> QED BY <1>3, <1>4, <1>5

\* A page outside of a region keeps its mapping.
LEMMA Outside ==
  ASSUME NEW p, NEW va, NEW size, NEW pa, NEW v \in Vas, va \in Nat, size \in Nat,
         v < va \/ va + size <= v
  PROVE  Mapped(p, va, size, pa)[v] = p[v]
PROOF
  <1>1. v \in Nat BY TableOf
  <1>2. v \notin va..(va + size - 1) BY <1>1
  <1> QED BY <1>2 DEF Mapped

\* So does a region apart from it.
LEMMA HasKept ==
  ASSUME NEW p, NEW va, NEW size, NEW pa, va \in Nat, size \in Nat,
         NEW b \in Nat, NEW n \in Nat, NEW x, Inside(b, n), Has(p, b, n, x),
         b + n <= va \/ va + size <= b
  PROVE  Has(Mapped(p, va, size, pa), b, n, x)
PROOF
  <1>1. SUFFICES ASSUME NEW i \in 0..(n - 1)
                 PROVE  Mapped(p, va, size, pa)[b + i] = x + i
    BY DEF Has
  <1>2. PICK v : v = b + i OBVIOUS
  <1>3. v \in Vas /\ p[v] = x + i BY <1>2 DEF Inside, Has
  <1>4. v < va \/ va + size <= v BY <1>2
  <1>5. Mapped(p, va, size, pa)[v] = p[v] BY <1>3, <1>4, Outside
  <1> QED BY <1>2, <1>3, <1>5

\* The pages of a gap are between the stacks.
LEMMA GapFacts ==
  ASSUME NEW c \in 0..(NCPU - 1), NEW i \in 1..KSTKGAP
  PROVE  /\ Slot(c) - i \in Vas /\ 4 * NENT <= Slot(c) - i /\ Slot(c) - i < 5 * NENT
         /\ \A d \in 0..(NCPU - 1) : Slot(c) - i < Slot(d) \/ Slot(d) + KSTKSIZE <= Slot(c) - i
PROOF
  <1>1. PICK n, s, g, v : n = NENT /\ s = KSTKSIZE /\ g = KSTKGAP /\ v = Slot(c) OBVIOUS
  <1>2. n \in Nat \ {0} /\ s \in Nat \ {0} /\ g \in Nat \ {0} /\ KT \in Nat /\ i \in Nat \ {0} /\ i <= g
    BY <1>1, Constants_
  <1>3. v \in Nat /\ v - g >= 4 * n /\ v + s <= 5 * n BY <1>1, SlotFacts
  <1>4. v - i \in Nat /\ 4 * n <= v - i /\ v - i < 5 * n BY <1>2, <1>3
  <1>5. v - i \in Vas
    <2>1. PICK x, l \in Nat : x = KT * n /\ l = (5 + KT) * n BY <1>2, Products
    <2>2. (5 + KT) * n = 5 * n + KT * n BY <1>2, Products
    <2>3. l = 5 * n + x BY <2>1, <2>2
    <2>4. v - i \in 0..(l - 1) BY <1>2, <1>4, <2>1, <2>3
    <2> QED BY <1>1, <2>1, <2>4 DEF Vas
  <1>6. ASSUME NEW d \in 0..(NCPU - 1) PROVE v - i < Slot(d) \/ Slot(d) + s <= v - i
    <2>1. PICK w : w = Slot(d) OBVIOUS
    <2>2. w \in Nat BY <2>1, SlotFacts
    <2>3. c \in Int /\ d \in Int BY Constants_
    <2>4. CASE c < d
      <3>1. w + s <= v - g BY <1>1, <2>1, <2>4, SlotFacts
      <3> QED BY <1>2, <1>3, <2>1, <2>2, <3>1
    <2>5. CASE d < c
      <3>1. v + s <= w - g BY <1>1, <2>1, <2>5, SlotFacts
      <3> QED BY <1>2, <1>3, <2>1, <2>2, <3>1
    <2>6. CASE c = d BY <1>1, <1>2, <1>3, <2>1, <2>6
    <2> QED BY <2>3, <2>4, <2>5, <2>6
  <1> QED BY <1>1, <1>4, <1>5, <1>6

\* A region that is not in the table of the stacks leaves the gaps.
LEMMA GapsFar ==
  ASSUME NEW p, NEW va \in Nat, NEW size \in Nat, NEW pa, Gaps(p),
         va + size <= 4 * NENT \/ 5 * NENT <= va
  PROVE  Gaps(Mapped(p, va, size, pa))
PROOF
  <1>1. SUFFICES ASSUME NEW c \in 0..(NCPU - 1), NEW i \in 1..KSTKGAP
                 PROVE  Mapped(p, va, size, pa)[Slot(c) - i] = None
    BY DEF Gaps
  <1>2. PICK v : v = Slot(c) - i OBVIOUS
  <1>3. v \in Vas /\ 4 * NENT <= v /\ v < 5 * NENT /\ p[v] = None
    BY <1>2, GapFacts DEF Gaps
  <1>4. v < va \/ va + size <= v BY <1>3, TableOf, Constants_
  <1>5. Mapped(p, va, size, pa)[v] = p[v] BY <1>3, <1>4, Outside
  <1> QED BY <1>2, <1>3, <1>5

\* A stack leaves the gaps.
LEMMA GapsStack ==
  ASSUME NEW p, NEW d \in 0..(NCPU - 1), NEW pa, Gaps(p)
  PROVE  Gaps(Mapped(p, Slot(d), KSTKSIZE, pa))
PROOF
  <1>1. SUFFICES ASSUME NEW c \in 0..(NCPU - 1), NEW i \in 1..KSTKGAP
                 PROVE  Mapped(p, Slot(d), KSTKSIZE, pa)[Slot(c) - i] = None
    BY DEF Gaps
  <1>2. PICK v : v = Slot(c) - i OBVIOUS
  <1>3. v \in Vas /\ p[v] = None /\ (v < Slot(d) \/ Slot(d) + KSTKSIZE <= v)
    BY <1>2, GapFacts DEF Gaps
  <1>4. Slot(d) \in Nat /\ KSTKSIZE \in Nat BY SlotFacts, Constants_
  <1>5. Mapped(p, Slot(d), KSTKSIZE, pa)[v] = p[v] BY <1>3, <1>4, Outside
  <1> QED BY <1>2, <1>3, <1>5

-----------------------------------------------------------------------------
(* What has been mapped so far *)

Upages(m) == m.pgdir[1] # None /\ Has(m.pte, UPAGES, InfoPages, KEND + 1)
Uenvs(m) == m.pgdir[0] # None /\ Has(m.pte, UENVS, ENVPAGES, KEND + 1 + InfoPages)
Memory(m) ==
  /\ Has(m.pte, KERNBASE, KT * NENT, 0)
  /\ \A t \in 5..(4 + KT) : m.pgdir[t] # None /\ (pse => m.pgdir[t] = Large)
StacksTo(m, n) == \A c \in 0..(n - 1) : Has(m.pte, Slot(c), KSTKSIZE, Stack(c))
\* After n of the five steps from check_page on.
Done(m, n) ==
  /\ Gaps(m.pte) /\ m.pgdir[2] # None /\ m.pgdir[3] # None
  /\ n >= 1 => Upages(m)
  /\ n >= 2 => Uenvs(m)
  /\ n >= 3 => m.pgdir[4] # None
  /\ n >= 4 => Memory(m)
  /\ n >= 5 => StacksTo(m, NCPU)

\* The regions are below one another.
LEMMA Layout ==
  ASSUME npages \in Sizes
  PROVE  /\ UPAGES \in Nat /\ UPAGES = NENT /\ InfoPages \in Nat /\ UPAGES + InfoPages <= 2 * NENT
         /\ UENVS = 0 /\ ENVPAGES \in Nat /\ UENVS + ENVPAGES <= NENT
         /\ KERNBASE \in Nat /\ KERNBASE = 5 * NENT /\ KT * NENT \in Nat
         /\ Inside(UPAGES, InfoPages) /\ Inside(UENVS, ENVPAGES) /\ Inside(KERNBASE, KT * NENT)
         /\ \A c \in 0..(NCPU - 1) : Inside(Slot(c), KSTKSIZE)
PROOF
  <1>1. InfoPages \in Nat /\ InfoPages <= NENT BY InfoFacts
  <1>2. UPAGES = NENT /\ UENVS = 0 /\ KERNBASE = 5 * NENT
    BY DEF UPAGES, UENVS, KERNBASE, KSTACKTOP
  <1>3. KT * NENT \in Nat BY Constants_, Products
  <1>4. /\ Fits(UPAGES, InfoPages, KEND + 1) /\ Fits(UENVS, ENVPAGES, KEND + 1 + InfoPages)
        /\ \A c \in 0..(NCPU - 1) : Fits(Slot(c), KSTKSIZE, Stack(c))
    BY RegionFits
  <1>5. Fits(KERNBASE, KT * NENT, 0) BY KernbaseFits
  <1>6. /\ Inside(UPAGES, InfoPages) /\ Inside(UENVS, ENVPAGES) /\ Inside(KERNBASE, KT * NENT)
        /\ \A c \in 0..(NCPU - 1) : Inside(Slot(c), KSTKSIZE)
    BY <1>4, <1>5 DEF Fits, Inside
  <1> QED BY <1>1, <1>2, <1>3, <1>6, Constants_

\* Tables stay where they are.
LEMMA TablesKept ==
  ASSUME NEW m, NEW q, NEW va, NEW size, NEW pa, RegionAt(m, q, va, size, pa, size),
         NEW t \in Tables
  PROVE  m.pgdir[t] # None => q.pgdir[t] # None
BY DEF RegionAt

\* The `pages` array is mapped.
LEMMA PagesStep ==
  ASSUME npages \in Sizes, NEW m, NEW q, Done(m, 0),
         RegionAt(m, q, UPAGES, InfoPages, KEND + 1, InfoPages)
  PROVE  Done(q, 1)
PROOF
  <1>1. q.pte = Mapped(m.pte, UPAGES, InfoPages, KEND + 1) BY DEF RegionAt
  <1>2. 1 \in Tables /\ 2 \in Tables /\ 3 \in Tables BY Constants_ DEF Tables
  <1>3. Gaps(q.pte)
    <2>1. UPAGES \in Nat /\ InfoPages \in Nat /\ UPAGES + InfoPages <= 4 * NENT
      BY Layout, Constants_
    <2>2. Gaps(m.pte) BY DEF Done
    <2> QED BY <1>1, <2>1, <2>2, GapsFar
  <1>4. q.pgdir[2] # None /\ q.pgdir[3] # None BY <1>2, TablesKept DEF Done
  <1>5. Fits(UPAGES, InfoPages, KEND + 1) /\ Covered(UPAGES, InfoPages) = {1} BY RegionFits
  <1>6. Upages(q)
    <2>1. Has(q.pte, UPAGES, InfoPages, KEND + 1) BY <1>1, <1>5, HasNow
    <2>2. q.pgdir[1] # None BY <1>2, <1>5 DEF RegionAt
    <2> QED BY <2>1, <2>2 DEF Upages
  <1> QED BY <1>3, <1>4, <1>6 DEF Done

\* The `pages` array stays mapped.
LEMMA UpagesKept ==
  ASSUME npages \in Sizes, NEW m, NEW q, Upages(m), NEW va \in Nat, NEW size \in Nat, NEW pa,
         RegionAt(m, q, va, size, pa, size), va + size <= NENT \/ 2 * NENT <= va
  PROVE  Upages(q)
PROOF
  <1>1. q.pte = Mapped(m.pte, va, size, pa) BY DEF RegionAt
  <1>2. 1 \in Tables BY Constants_ DEF Tables
  <1>3. q.pgdir[1] # None BY <1>2, TablesKept DEF Upages
  <1>4. Has(m.pte, UPAGES, InfoPages, KEND + 1) BY DEF Upages
  <1>5. /\ UPAGES \in Nat /\ InfoPages \in Nat /\ Inside(UPAGES, InfoPages)
        /\ UPAGES + InfoPages <= va \/ va + size <= UPAGES
    BY Layout, Constants_
  <1>6. Has(q.pte, UPAGES, InfoPages, KEND + 1) BY <1>1, <1>4, <1>5, HasKept
  <1> QED BY <1>3, <1>6 DEF Upages

\* The environments are mapped.
LEMMA EnvsStep ==
  ASSUME npages \in Sizes, NEW m, NEW q, Done(m, 1),
         RegionAt(m, q, UENVS, ENVPAGES, KEND + 1 + InfoPages, ENVPAGES)
  PROVE  Done(q, 2)
PROOF
  <1>1. q.pte = Mapped(m.pte, UENVS, ENVPAGES, KEND + 1 + InfoPages) BY DEF RegionAt
  <1>2. 0 \in Tables /\ 2 \in Tables /\ 3 \in Tables BY Constants_ DEF Tables
  <1>3. UENVS \in Nat /\ ENVPAGES \in Nat /\ UENVS + ENVPAGES <= NENT BY Layout
  <1>4. Gaps(q.pte)
    <2>1. Gaps(m.pte) BY DEF Done
    <2>2. UENVS + ENVPAGES <= 4 * NENT BY <1>3, Constants_
    <2> QED BY <1>1, <1>3, <2>1, <2>2, GapsFar
  <1>5. q.pgdir[2] # None /\ q.pgdir[3] # None BY <1>2, TablesKept DEF Done
  <1>6. Upages(q)
    <2>1. Upages(m) BY DEF Done
    <2> QED BY <1>3, <2>1, UpagesKept
  <1>7. /\ Fits(UENVS, ENVPAGES, KEND + 1 + InfoPages) /\ Covered(UENVS, ENVPAGES) = {0}
    BY RegionFits
  <1>8. Uenvs(q)
    <2>1. Has(q.pte, UENVS, ENVPAGES, KEND + 1 + InfoPages) BY <1>1, <1>7, HasNow
    <2>2. q.pgdir[0] # None BY <1>2, <1>7 DEF RegionAt
    <2> QED BY <2>1, <2>2 DEF Uenvs
  <1> QED BY <1>4, <1>5, <1>6, <1>8 DEF Done

\* The environments stay mapped.
LEMMA UenvsKept ==
  ASSUME npages \in Sizes, NEW m, NEW q, Uenvs(m), NEW va \in Nat, NEW size \in Nat, NEW pa,
         RegionAt(m, q, va, size, pa, size), NENT <= va
  PROVE  Uenvs(q)
PROOF
  <1>1. q.pte = Mapped(m.pte, va, size, pa) BY DEF RegionAt
  <1>2. 0 \in Tables BY Constants_ DEF Tables
  <1>3. q.pgdir[0] # None BY <1>2, TablesKept DEF Uenvs
  <1>4. PICK x : x = KEND + 1 + InfoPages OBVIOUS
  <1>5. Has(m.pte, UENVS, ENVPAGES, x) BY <1>4 DEF Uenvs
  <1>6. /\ UENVS \in Nat /\ ENVPAGES \in Nat /\ Inside(UENVS, ENVPAGES)
        /\ UENVS + ENVPAGES <= va
    BY Layout, Constants_
  <1>7. Has(q.pte, UENVS, ENVPAGES, x) BY <1>1, <1>5, <1>6, HasKept
  <1> QED BY <1>3, <1>4, <1>7 DEF Uenvs

\* The table of the stacks is filled.
LEMMA BootstackStep ==
  ASSUME npages \in Sizes, NEW m, NEW q, Done(m, 2),
         RegionAt(m, q, Slot(0), KSTKSIZE, Stack(0), KSTKSIZE)
  PROVE  Done(q, 3)
PROOF
  <1>1. q.pte = Mapped(m.pte, Slot(0), KSTKSIZE, Stack(0)) BY DEF RegionAt
  <1>2. 4 \in Tables /\ 2 \in Tables /\ 3 \in Tables BY Constants_ DEF Tables
  <1>3. 0 \in 0..(NCPU - 1) BY Constants_
  <1>4. Slot(0) \in Nat /\ KSTKSIZE \in Nat /\ NENT <= Slot(0) /\ 2 * NENT <= Slot(0)
    BY <1>3, SlotFacts, Constants_
  <1>5. Gaps(q.pte)
    <2>1. Gaps(m.pte) BY DEF Done
    <2> QED BY <1>1, <1>3, <2>1, GapsStack
  <1>6. q.pgdir[2] # None /\ q.pgdir[3] # None BY <1>2, TablesKept DEF Done
  <1>7. Upages(q)
    <2>1. Upages(m) BY DEF Done
    <2> QED BY <1>4, <2>1, UpagesKept
  <1>8. Uenvs(q)
    <2>1. Uenvs(m) BY DEF Done
    <2> QED BY <1>4, <2>1, UenvsKept
  <1>9. q.pgdir[4] # None
    <2>1. Covered(Slot(0), KSTKSIZE) = {4} BY <1>3, RegionFits
    <2> QED BY <1>2, <2>1 DEF RegionAt
  <1> QED BY <1>5, <1>6, <1>7, <1>8, <1>9 DEF Done

\* All memory is mapped.
LEMMA KernbaseStep ==
  ASSUME npages \in Sizes, NEW m, NEW q, Done(m, 3),
         RegionAt(m, q, KERNBASE, KT * NENT, 0, KT * NENT)
  PROVE  Done(q, 4)
PROOF
  <1>1. q.pte = Mapped(m.pte, KERNBASE, KT * NENT, 0) BY DEF RegionAt
  <1>2. 4 \in Tables /\ 2 \in Tables /\ 3 \in Tables BY Constants_ DEF Tables
  <1>3. KERNBASE \in Nat /\ KT * NENT \in Nat /\ 5 * NENT <= KERNBASE BY Layout, Constants_
  <1>4. NENT <= KERNBASE /\ 2 * NENT <= KERNBASE BY <1>3, Constants_
  <1>5. Gaps(q.pte)
    <2>1. Gaps(m.pte) BY DEF Done
    <2> QED BY <1>1, <1>3, <2>1, GapsFar
  <1>6. q.pgdir[2] # None /\ q.pgdir[3] # None /\ q.pgdir[4] # None
    BY <1>2, TablesKept DEF Done
  <1>7. Upages(q)
    <2>1. Upages(m) BY DEF Done
    <2> QED BY <1>3, <1>4, <2>1, UpagesKept
  <1>8. Uenvs(q)
    <2>1. Uenvs(m) BY DEF Done
    <2> QED BY <1>3, <1>4, <2>1, UenvsKept
  <1>9. Memory(q)
    <2>1. Fits(KERNBASE, KT * NENT, 0) /\ Covered(KERNBASE, KT * NENT) = 5..(4 + KT)
      BY KernbaseFits
    <2>2. Has(q.pte, KERNBASE, KT * NENT, 0) BY <1>1, <2>1, HasNow
    <2>3. \A t \in 5..(4 + KT) : t \in Tables BY Constants_ DEF Tables
    <2>4. \A t \in 5..(4 + KT) : q.pgdir[t] # None BY <2>1, <2>3 DEF RegionAt
    <2>5. pse => \A t \in 5..(4 + KT) : q.pgdir[t] = Large BY <2>1, KernbaseFits DEF RegionAt
    <2> QED BY <2>2, <2>4, <2>5 DEF Memory
  <1> QED BY <1>5, <1>6, <1>7, <1>8, <1>9 DEF Done

\* One more stack is mapped, and the ones before stay.
LEMMA StackStep ==
  ASSUME npages \in Sizes, NEW N, NEW R, NEW m, MapOK(m, N, R), Done(m, 4),
         NEW c \in 0..(NCPU - 1), StacksTo(m, c), NEW q, q = map_stack(m, c)
  PROVE  MapOK(q, N, R) /\ Done(q, 4) /\ StacksTo(q, c + 1)
PROOF
  <1>1. Fits(Slot(c), KSTKSIZE, Stack(c)) /\ Covered(Slot(c), KSTKSIZE) = {4} BY RegionFits
  <1>2. q = boot_map_region(m, Slot(c), KSTKSIZE, Stack(c)) BY DEF map_stack, Slot
  <1>3. MapOK(q, N, R) /\ RegionAt(m, q, Slot(c), KSTKSIZE, Stack(c), KSTKSIZE)
    BY <1>1, <1>2, RegionLemma
  <1>4. q.pte = Mapped(m.pte, Slot(c), KSTKSIZE, Stack(c)) BY <1>3 DEF RegionAt
  <1>5. 4 \in Tables /\ 2 \in Tables /\ 3 \in Tables BY Constants_ DEF Tables
  <1>6. /\ Slot(c) \in Nat /\ KSTKSIZE \in Nat /\ NENT <= Slot(c) /\ 2 * NENT <= Slot(c)
        /\ Slot(c) + KSTKSIZE <= 5 * NENT
    BY SlotFacts, Constants_
  <1>7. Gaps(q.pte)
    <2>1. Gaps(m.pte) BY DEF Done
    <2> QED BY <1>4, <2>1, GapsStack
  <1>8. q.pgdir[2] # None /\ q.pgdir[3] # None /\ q.pgdir[4] # None
    BY <1>3, <1>5, TablesKept DEF Done
  <1>9. Upages(q)
    <2>1. Upages(m) BY DEF Done
    <2> QED BY <1>3, <1>6, <2>1, UpagesKept
  <1>10. Uenvs(q)
    <2>1. Uenvs(m) BY DEF Done
    <2> QED BY <1>3, <1>6, <2>1, UenvsKept
  <1>11. Memory(q)
    <2>1. Memory(m) BY DEF Done
    <2>2. KERNBASE \in Nat /\ KT * NENT \in Nat /\ KERNBASE = 5 * NENT /\ Inside(KERNBASE, KT * NENT)
      BY Layout
    <2>3. Has(m.pte, KERNBASE, KT * NENT, 0) BY <2>1 DEF Memory
    <2>4. Has(q.pte, KERNBASE, KT * NENT, 0) BY <1>4, <1>6, <2>2, <2>3, HasKept
    <2>5. \A t \in 5..(4 + KT) : t \in Tables /\ t \notin {4} BY Constants_ DEF Tables
    <2>6. \A t \in 5..(4 + KT) : q.pgdir[t] = m.pgdir[t] BY <1>1, <1>3, <2>5 DEF RegionAt
    <2> QED BY <2>1, <2>4, <2>6 DEF Memory
  <1>12. Done(q, 4) BY <1>7, <1>8, <1>9, <1>10, <1>11 DEF Done
  <1>13. ASSUME NEW d \in 0..(c + 1 - 1) PROVE Has(q.pte, Slot(d), KSTKSIZE, Stack(d))
    <2>1. c \in Nat /\ c <= NCPU - 1 /\ d \in 0..(NCPU - 1) /\ (d = c \/ d \in 0..(c - 1)) /\ d <= c
      BY Constants_
    <2>2. CASE d = c BY <1>1, <1>4, <2>2, HasNow
    <2>3. CASE d \in 0..(c - 1)
      <3>1. Has(m.pte, Slot(d), KSTKSIZE, Stack(d)) BY <2>3 DEF StacksTo
      <3>2. d < c BY <2>1, <2>3
      <3>3. Slot(c) + KSTKSIZE <= Slot(d) - KSTKGAP BY <2>1, <3>2, SlotFacts
      <3>4. Slot(d) \in Nat /\ Inside(Slot(d), KSTKSIZE) BY <2>1, SlotFacts, Layout
      <3>5. Slot(c) + KSTKSIZE <= Slot(d) BY <1>6, <3>3, <3>4, Constants_
      <3> QED BY <1>4, <1>6, <3>1, <3>4, <3>5, HasKept
    <2> QED BY <2>1, <2>2, <2>3
  <1>14. StacksTo(q, c + 1) BY <1>13 DEF StacksTo
  <1> QED BY <1>3, <1>12, <1>14

\* The states of the loop of mem_init_mp.
StacksRun(m, t) == t[0] = m /\ \A k \in 1..NCPU : t[k] = map_stack(t[k - 1], k - 1)

\* map_stacks is the last state of the loop.
LEMMA StacksIs ==
  ASSUME npages \in Sizes, NEW N, NEW R, NEW m, MapOK(m, N, R)
  PROVE  \E t : StacksRun(m, t) /\ map_stacks(m) = t[NCPU]
PROOF
  <1> DEFINE S == {a \in Mems : MapOK(a, N, R)}
             F == [y \in S \X (1..NCPU) |-> map_stack(y[1], y[2] - 1)]
             Is(t) == t = [k \in 0..NCPU |-> IF k = 0 THEN m ELSE map_stack(t[k - 1], k - 1)]
             e == CHOOSE t : Is(t)
  <1>1. NCPU \in Nat BY Constants_
  <1>2. m \in S BY DEF MapOK
  <1>3. map_stacks(m) = e[NCPU] BY Zenon DEF map_stacks
  <1>4. ASSUME NEW a \in S, NEW k \in 1..NCPU PROVE map_stack(a, k - 1) \in S
    <2>1. PICK c : c = k - 1 OBVIOUS
    <2>2. c \in 0..(NCPU - 1) /\ MapOK(a, N, R) BY <1>1, <2>1
    <2>3. map_stack(a, c) = boot_map_region(a, Slot(c), KSTKSIZE, Stack(c)) BY DEF map_stack, Slot
    <2>4. MapOK(map_stack(a, c), N, R) BY <2>2, <2>3, RegionFits, RegionLemma
    <2> QED BY <2>1, <2>4 DEF MapOK
  <1> HIDE DEF S
  <1>6. \A x \in S, k \in 1..NCPU : F[<<x, k>>] = map_stack(x, k - 1) OBVIOUS
  <1> HIDE DEF F
  <1>7. PICK t \in [0..NCPU -> S] : t[0] = m /\ \A k \in 1..NCPU : t[k] = F[<<t[k - 1], k>>]
    <2>1. StepsIn(NCPU, S, F) BY <1>4, <1>6 DEF StepsIn
    <2>2. PICK t \in [0..NCPU -> S] : Runs(NCPU, m, F, t) BY <1>1, <1>2, <2>1, LoopRuns
    <2> QED BY <2>2 DEF Runs
  <1>8. Is(t)
    <2>1. \A k \in 0..NCPU : k # 0 => k \in 1..NCPU /\ k - 1 \in 0..NCPU BY <1>1
    <2>2. \A k \in 0..NCPU : k # 0 => t[k] = map_stack(t[k - 1], k - 1) BY <1>6, <1>7, <2>1
    <2>3. t = [k \in 0..NCPU |-> t[k]] BY <1>7
    <2> QED BY <1>7, <2>2, <2>3
  <1>9. Is(e) BY <1>8
  <1> HIDE DEF e
  <1>10. e[0] = m /\ \A k \in 1..NCPU : e[k] = map_stack(e[k - 1], k - 1) BY <1>1, <1>9
  <1> QED BY <1>3, <1>10 DEF StacksRun

\* mem_init_mp maps all stacks.
LEMMA StacksStep ==
  ASSUME npages \in Sizes, NEW N, NEW R, NEW m, MapOK(m, N, R), Done(m, 4),
         NEW q, q = map_stacks(m)
  PROVE  MapOK(q, N, R) /\ Done(q, 5)
PROOF
  <1>1. PICK t : StacksRun(m, t) /\ q = t[NCPU] BY StacksIs
  <1>2. NCPU \in Nat BY Constants_
  <1> DEFINE P == {k \in 0..NCPU : MapOK(t[k], N, R) /\ Done(t[k], 4) /\ StacksTo(t[k], k)}
  <1>3. 0 \in P
    <2>1. t[0] = m /\ 0 \in 0..NCPU BY <1>1, <1>2 DEF StacksRun
    <2>2. StacksTo(m, 0) BY DEF StacksTo
    <2> QED BY <2>1, <2>2
  <1>4. ASSUME NEW k \in 1..NCPU, k - 1 \in P PROVE k \in P
    <2>1. PICK c, a, w : c = k - 1 /\ a = t[c] /\ w = t[k] OBVIOUS
    <2>2. c \in 0..(NCPU - 1) /\ k = c + 1 /\ k \in 0..NCPU BY <1>2, <2>1
    <2>3. MapOK(a, N, R) /\ Done(a, 4) /\ StacksTo(a, c) BY <1>4, <2>1
    <2>4. w = map_stack(a, c) BY <1>1, <2>1 DEF StacksRun
    <2>5. MapOK(w, N, R) /\ Done(w, 4) /\ StacksTo(w, c + 1) BY <2>2, <2>3, <2>4, StackStep
    <2> QED BY <2>1, <2>2, <2>5
  <1> HIDE DEF P
  <1>5. \A k \in 0..NCPU : k \in P BY <1>2, <1>3, <1>4, RoundsKeep
  <1>6. NCPU \in P BY <1>2, <1>5
  <1>7. MapOK(q, N, R) /\ Done(q, 4) /\ StacksTo(q, NCPU) BY <1>1, <1>6 DEF P
  <1>8. Done(q, 5) BY <1>7 DEF Done
  <1> QED BY <1>7, <1>8

-----------------------------------------------------------------------------
(* check_page *)

\* Most tables are to come when check_page begins.
LEMMA EmptyAtFirst ==
  ASSUME NEW m, m.pgdir = [t \in Tables |-> IF t = UVPT THEN Self ELSE None]
  PROVE  Cardinality(Empty(m)) = KT + 4
PROOF
  <1>1. UVPT \in Tables /\ Self # None BY Constants_ DEF UVPT, Tables, Self, None
  <1>2. Empty(m) = Tables \ {UVPT} BY <1>1 DEF Empty
  <1>3. PICK h \in Nat : h = 4 + KT BY Constants_
  <1>4. 0 \in Int /\ h \in Int OBVIOUS
  <1>7. IsFiniteSet(0..h) /\ Cardinality(0..h) = IF 0 > h THEN 0 ELSE h - 0 + 1
    BY <1>4, FS_Interval
  <1>5. IsFiniteSet(Tables) /\ Cardinality(Tables) = KT + 5
    BY <1>3, <1>7, Constants_ DEF Tables
  <1>6. Cardinality(Tables \ {UVPT}) = Cardinality(Tables) - 1 BY <1>1, <1>5, FS_RemoveElement
  <1> QED BY <1>2, <1>5, <1>6, Constants_

\* Turning the first three pages of a list leaves it what it was.
LEMMA TurnedLemma ==
  ASSUME NEW N, NEW R, NEW s, ListOK(s, N, R), LowFirst(s, KT + 4), NEW q, q = Turned(s)
  PROVE  ListOK(q, N, R) /\ LowFirst(q, KT + 4)
PROOF
  <1>1. s \in Seq(Nat) BY DEF ListOK
  <1>2. PICK n \in Nat : n = Len(s) BY <1>1
  <1>3. n >= KT + 4 /\ n >= 5
    <2>1. KT + 4 \in 1..(KT + 4) BY Constants_
    <2>2. KT + 4 <= n BY <1>2, <2>1 DEF LowFirst
    <2> QED BY <1>2, <2>2, Constants_
  <1> DEFINE g(i) == IF i <= 3 THEN 4 - i ELSE i
  <1>4. \A i \in 1..n : g(i) \in 1..n BY <1>3
  <1>5. \A i, j \in 1..n : g(i) = g(j) => i = j BY <1>2
  <1>6. \A i \in 1..n : s[i] \in Nat BY <1>1, <1>2
  <1>7. q = [i \in 1..n |-> s[g(i)]] BY <1>2 DEF Turned
  <1>9. \A i \in 1..(KT + 4) : i \in 1..n /\ g(i) \in 1..(KT + 4) BY <1>3, Constants_
  <1> HIDE DEF g
  <1>8. q \in Seq(Nat) /\ Len(q) = n /\ \A i \in 1..n : q[i] = s[g(i)] BY <1>4, <1>6, <1>7
  <1>10. \A i \in 1..Len(q) : q[i] < N /\ q[i] \notin R BY <1>2, <1>4, <1>8 DEF ListOK
  <1>11. ASSUME NEW i \in 1..Len(q), NEW j \in 1..Len(q), q[i] = q[j] PROVE i = j
    <2>1. i \in 1..n /\ j \in 1..n BY <1>8
    <2>2. s[g(i)] = s[g(j)] BY <1>8, <1>11, <2>1
    <2>3. g(i) = g(j) BY <1>2, <1>4, <2>1, <2>2 DEF ListOK
    <2> QED BY <1>5, <2>1, <2>3
  <1>12. ASSUME NEW i \in 1..(KT + 4) PROVE i <= Len(q) /\ q[i] < LOW
    <2>1. i \in 1..n /\ g(i) \in 1..(KT + 4) BY <1>9
    <2>2. s[g(i)] < LOW BY <2>1 DEF LowFirst
    <2> QED BY <1>2, <1>8, <2>1, <2>2
  <1> QED BY <1>8, <1>10, <1>11, <1>12 DEF ListOK, LowFirst

-----------------------------------------------------------------------------
(* The inductive invariant *)

Lists == {"check", "check_alloc", "check_page"}
Late == {"upages", "uenvs", "kstack", "kernbase", "mp", "lcr3", "done"}
Stages == {"start", "pages", "envs", "init", "panic"} \cup Lists \cup Late
What == {"pgdir", "pages", "envs"}

\* What boot_alloc has given out by now lies end to end.
Allocated ==
  /\ at = "start" => nextfree = KEND
  /\ at = "pages" => nextfree = KEND + 1
  /\ at = "envs" => nextfree = KEND + 1 + InfoPages
  /\ at \notin {"start", "pages", "envs"} => nextfree = KEND + 1 + InfoPages + ENVPAGES
  /\ at # "start" => boot["pgdir"] = Pages(KEND, 1)
  /\ at \notin {"start", "pages"} => boot["pages"] = Pages(KEND + 1, InfoPages)
  /\ at \notin {"start", "pages", "envs"} => boot["envs"] = Pages(KEND + 1 + InfoPages, ENVPAGES)
  /\ at \in Lists \cup Late => nextfree <= npages
\* Until check_page nothing is mapped.
Unmapped ==
  at \notin Late =>
    /\ pte = [va \in Vas |-> None] /\ mmio = MMIOBASE
    /\ pgdir = [t \in Tables |-> IF t = UVPT /\ at # "start" THEN Self ELSE None]
\* The free list before there are page tables.
Listed ==
  /\ at \in Lists => ListOK(freelist, npages, Reserved)
  /\ at = "check" => BaseFree(freelist)
  /\ at \in {"check_alloc", "check_page"} => LowFirst(freelist, KT + 4)
\* Then there is a page for each, that can be touched.
Laid ==
  at \in Late =>
    /\ mmio \in Nat /\ MapOK(Map, npages, Reserved)
    /\ at = "upages" => Done(Map, 0)
    /\ at = "uenvs" => Done(Map, 1)
    /\ at = "kstack" => Done(Map, 2)
    /\ at = "kernbase" => Done(Map, 3)
    /\ at = "mp" => Done(Map, 4)
    /\ at = "lcr3" => Done(Map, 5)
BInv ==
  /\ npages \in Sizes /\ pse \in BOOLEAN /\ at \in Stages /\ DOMAIN boot = What
  /\ touched \subseteq entry_pgdir
  /\ at # "panic" => Allocated /\ Unmapped /\ Listed /\ Laid

\* Nothing is allocated or mapped at first.
LEMMA BInvInit == BootInit => BInv
PROOF
  <1> SUFFICES ASSUME BootInit PROVE BInv OBVIOUS
  <1>1. Allocated BY DEF BootInit, Allocated, Lists, Late
  <1>2. Unmapped BY DEF BootInit, Unmapped
  <1>3. Listed /\ Laid BY DEF BootInit, Listed, Laid, Lists, Late
  <1> QED BY <1>1, <1>2, <1>3 DEF BootInit, BInv, Stages, What

\* After a panic only what has been touched counts.
LEMMA PanicStep ==
  ASSUME BInv, at' = "panic", npages' = npages, pse' = pse, DOMAIN boot' = What,
         touched' \subseteq entry_pgdir
  PROVE  BInv'
BY DEF BInv, Stages, entry_pgdir, What

\* boot_alloc gives out the next pages, and they can be touched.
LEMMA AllocStep ==
  ASSUME BInv, NEW what \in What, NEW n \in Nat, NEW next, boot_alloc(what, n, next),
         nextfree \in Nat, nextfree + n <= LOW
  PROVE  /\ DOMAIN boot' = What /\ touched' \subseteq entry_pgdir
         /\ \/ at' = "panic"
            \/ /\ at' = next /\ nextfree' = nextfree + n /\ boot'[what] = Pages(nextfree, n)
               /\ \A x \in What : x # what => boot'[x] = boot[x]
PROOF
  <1>1. DOMAIN boot = What /\ touched \subseteq entry_pgdir BY DEF BInv
  <1>2. CASE nextfree > npages BY <1>1, <1>2 DEF boot_alloc
  <1>3. CASE ~(nextfree > npages)
    <2>1. /\ nextfree' = nextfree + n /\ at' = next
          /\ boot' = [boot EXCEPT ![what] = Pages(nextfree, n)]
          /\ touched' = touched \cup Pages(nextfree, n)
      BY <1>3 DEF boot_alloc
    <2>2. Pages(nextfree, n) \subseteq entry_pgdir BY Constants_ DEF Pages, entry_pgdir
    <2> QED BY <1>1, <2>1, <2>2
  <1> QED BY <1>2, <1>3

\* The page directory.
LEMMA PgdirStep == BInv /\ alloc_pgdir => BInv'
PROOF
  <1> SUFFICES ASSUME BInv, alloc_pgdir PROVE BInv' OBVIOUS
  <1>1. /\ at = "start" /\ boot_alloc("pgdir", 1, "pages") /\ pgdir' = [pgdir EXCEPT ![UVPT] = Self]
        /\ npages' = npages /\ pse' = pse /\ freelist' = freelist /\ pte' = pte /\ mmio' = mmio
    BY DEF alloc_pgdir
  <1>2. Allocated /\ Unmapped /\ Listed /\ Laid /\ npages \in Sizes BY <1>1 DEF BInv
  <1>3. nextfree = KEND /\ KEND + 1 <= LOW
    <2>1. nextfree = KEND BY <1>1, <1>2 DEF Allocated
    <2>2. InfoPages \in Nat /\ KEND + 1 + InfoPages + ENVPAGES <= LOW BY <1>2, InfoFacts
    <2> QED BY <2>1, <2>2, Constants_
  <1>4. /\ DOMAIN boot' = What /\ touched' \subseteq entry_pgdir
        /\ \/ at' = "panic"
           \/ at' = "pages" /\ nextfree' = nextfree + 1 /\ boot'["pgdir"] = Pages(nextfree, 1)
    <2>1. "pgdir" \in What /\ 1 \in Nat /\ nextfree \in Nat BY <1>3, Constants_ DEF What
    <2> QED BY <1>1, <1>3, <2>1, AllocStep
  <1>5. CASE at' = "panic" BY <1>1, <1>4, <1>5, PanicStep
  <1>6. CASE at' # "panic"
    <2>1. at' = "pages" /\ nextfree' = KEND + 1 /\ boot'["pgdir"] = Pages(KEND, 1)
      BY <1>3, <1>4, <1>6
    <2>2. Allocated' BY <2>1 DEF Allocated, Lists, Late
    <2>3. Unmapped'
      <3>1. pte = [va \in Vas |-> None] /\ mmio = MMIOBASE /\ pgdir = [t \in Tables |-> None]
        BY <1>1, <1>2 DEF Unmapped, Late
      <3>2. pgdir' = [t \in Tables |-> IF t = UVPT THEN Self ELSE None] BY <1>1, <3>1
      <3> QED BY <1>1, <2>1, <3>1, <3>2 DEF Unmapped
    <2>4. Listed' /\ Laid' BY <2>1 DEF Listed, Laid, Lists, Late
    <2>5. npages' \in Sizes /\ pse' \in BOOLEAN /\ at' \in Stages BY <1>1, <2>1 DEF BInv, Stages
    <2>6. (touched \subseteq entry_pgdir)' BY <1>4 DEF entry_pgdir
    <2> QED BY <1>4, <2>2, <2>3, <2>4, <2>5, <2>6 DEF BInv, What
  <1> QED BY <1>5, <1>6

\* The PageInfo array.
LEMMA InfoStep == BInv /\ alloc_pages => BInv'
PROOF
  <1> SUFFICES ASSUME BInv, alloc_pages PROVE BInv' OBVIOUS
  <1>1. /\ at = "pages" /\ boot_alloc("pages", InfoPages, "envs") /\ pgdir' = pgdir
        /\ npages' = npages /\ pse' = pse /\ freelist' = freelist /\ pte' = pte /\ mmio' = mmio
    BY DEF alloc_pages
  <1>2. Allocated /\ Unmapped /\ Listed /\ Laid /\ npages \in Sizes BY <1>1 DEF BInv
  <1>3. InfoPages \in Nat /\ KEND + 1 + InfoPages + ENVPAGES <= LOW BY <1>2, InfoFacts
  <1>4. PICK n \in Nat : n = InfoPages BY <1>3
  <1>5. nextfree = KEND + 1 /\ nextfree + n <= LOW /\ boot["pgdir"] = Pages(KEND, 1) /\ nextfree \in Nat
    <2>1. nextfree = KEND + 1 /\ boot["pgdir"] = Pages(KEND, 1) BY <1>1, <1>2 DEF Allocated
    <2> QED BY <1>3, <1>4, <2>1, Constants_
  <1>6. /\ DOMAIN boot' = What /\ touched' \subseteq entry_pgdir
        /\ \/ at' = "panic"
           \/ /\ at' = "envs" /\ nextfree' = nextfree + n /\ boot'["pages"] = Pages(nextfree, n)
              /\ \A x \in What : x # "pages" => boot'[x] = boot[x]
    <2>1. "pages" \in What BY DEF What
    <2>2. boot_alloc("pages", n, "envs") BY <1>1, <1>4
    <2> QED BY <1>5, <2>1, <2>2, AllocStep
  <1>7. CASE at' = "panic" BY <1>1, <1>6, <1>7, PanicStep
  <1>8. CASE at' # "panic"
    <2>1. /\ at' = "envs" /\ nextfree' = KEND + 1 + n /\ boot'["pages"] = Pages(KEND + 1, n)
          /\ boot'["pgdir"] = Pages(KEND, 1)
      BY <1>5, <1>6, <1>8 DEF What
    <2>2. InfoPages' = n BY <1>1, <1>4 DEF InfoPages, RoundUp
    <2>3. Allocated' BY <2>1, <2>2 DEF Allocated, Lists, Late
    <2>4. Unmapped' BY <1>1, <1>2, <2>1 DEF Unmapped, Late
    <2>5. Listed' /\ Laid' BY <2>1 DEF Listed, Laid, Lists, Late
    <2>6. npages' \in Sizes /\ pse' \in BOOLEAN /\ at' \in Stages BY <1>1, <2>1 DEF BInv, Stages
    <2>7. (touched \subseteq entry_pgdir)' BY <1>6 DEF entry_pgdir
    <2> QED BY <1>6, <2>3, <2>4, <2>5, <2>6, <2>7 DEF BInv, What
  <1> QED BY <1>7, <1>8

\* The array of environments.
LEMMA EnvsAllocStep == BInv /\ alloc_envs => BInv'
PROOF
  <1> SUFFICES ASSUME BInv, alloc_envs PROVE BInv' OBVIOUS
  <1>1. /\ at = "envs" /\ boot_alloc("envs", ENVPAGES, "init") /\ pgdir' = pgdir
        /\ npages' = npages /\ pse' = pse /\ freelist' = freelist /\ pte' = pte /\ mmio' = mmio
    BY DEF alloc_envs
  <1>2. Allocated /\ Unmapped /\ Listed /\ Laid /\ npages \in Sizes BY <1>1 DEF BInv
  <1>3. InfoPages \in Nat /\ KEND + 1 + InfoPages + ENVPAGES <= LOW BY <1>2, InfoFacts
  <1>4. PICK n \in Nat : n = InfoPages BY <1>3
  <1>5. /\ nextfree = KEND + 1 + n /\ nextfree + ENVPAGES <= LOW /\ nextfree \in Nat
        /\ boot["pgdir"] = Pages(KEND, 1) /\ boot["pages"] = Pages(KEND + 1, n)
    <2>1. /\ nextfree = KEND + 1 + n /\ boot["pgdir"] = Pages(KEND, 1)
          /\ boot["pages"] = Pages(KEND + 1, n)
      BY <1>1, <1>2, <1>4 DEF Allocated
    <2> QED BY <1>3, <1>4, <2>1, Constants_
  <1>6. /\ DOMAIN boot' = What /\ touched' \subseteq entry_pgdir
        /\ \/ at' = "panic"
           \/ /\ at' = "init" /\ nextfree' = nextfree + ENVPAGES
              /\ boot'["envs"] = Pages(nextfree, ENVPAGES)
              /\ \A x \in What : x # "envs" => boot'[x] = boot[x]
    <2>1. "envs" \in What /\ ENVPAGES \in Nat BY Constants_ DEF What
    <2> QED BY <1>1, <1>5, <2>1, AllocStep
  <1>7. CASE at' = "panic" BY <1>1, <1>6, <1>7, PanicStep
  <1>8. CASE at' # "panic"
    <2>1. /\ at' = "init" /\ nextfree' = KEND + 1 + n + ENVPAGES
          /\ boot'["envs"] = Pages(KEND + 1 + n, ENVPAGES)
          /\ boot'["pgdir"] = Pages(KEND, 1) /\ boot'["pages"] = Pages(KEND + 1, n)
      BY <1>5, <1>6, <1>8 DEF What
    <2>2. InfoPages' = n BY <1>1, <1>4 DEF InfoPages, RoundUp
    <2>3. Allocated' BY <2>1, <2>2 DEF Allocated, Lists, Late
    <2>4. Unmapped' BY <1>1, <1>2, <2>1 DEF Unmapped, Late
    <2>5. Listed' /\ Laid' BY <2>1 DEF Listed, Laid, Lists, Late
    <2>6. npages' \in Sizes /\ pse' \in BOOLEAN /\ at' \in Stages BY <1>1, <2>1 DEF BInv, Stages
    <2>7. (touched \subseteq entry_pgdir)' BY <1>6 DEF entry_pgdir
    <2> QED BY <1>6, <2>3, <2>4, <2>5, <2>6, <2>7 DEF BInv, What
  <1> QED BY <1>7, <1>8

\* From page_init on boot data ends where it ends.
LEMMA AllocatedKept ==
  ASSUME Allocated, at \in Lists \cup Late \cup {"init"}, at' \in Lists \cup Late,
         nextfree' = nextfree, boot' = boot, npages' = npages, nextfree <= npages
  PROVE  Allocated'
PROOF
  <1>1. InfoPages' = InfoPages BY DEF InfoPages, RoundUp
  <1>2. at \notin {"start", "pages", "envs"} /\ at' \notin {"start", "pages", "envs"}
    BY DEF Lists, Late
  <1> QED BY <1>1, <1>2 DEF Allocated

\* The free list.
LEMMA PageInitStep == BInv /\ page_init => BInv'
PROOF
  <1> SUFFICES ASSUME BInv, page_init PROVE BInv' OBVIOUS
  <1>1. /\ at = "init" /\ npages' = npages /\ pse' = pse /\ nextfree' = nextfree /\ boot' = boot
        /\ pgdir' = pgdir /\ pte' = pte /\ touched' = touched /\ mmio' = mmio
    BY DEF page_init
  <1>2. Allocated /\ Unmapped /\ npages \in Sizes /\ DOMAIN boot = What /\ touched \subseteq entry_pgdir
    BY <1>1 DEF BInv
  <1>3. CASE nextfree > npages
    <2>1. at' = "panic" BY <1>3 DEF page_init
    <2> QED BY <1>1, <1>2, <2>1, PanicStep
  <1>4. CASE ~(nextfree > npages)
    <2>1. PICK s : s = Keep([k \in 1..(npages - 1) |-> k], FreePages(npages)) OBVIOUS
    <2>2. at' = "check" /\ freelist' = s BY <1>4, <2>1 DEF page_init
    <2>3. npages \in Nat /\ InfoPages \in Nat BY <1>2, InfoFacts
    <2>4. nextfree = KEND + 1 + InfoPages + ENVPAGES BY <1>1, <1>2 DEF Allocated
    <2>5. nextfree \in Nat /\ KEND <= nextfree /\ nextfree <= npages
      BY <1>4, <2>3, <2>4, Constants_
    <2>6. ListOK(s, npages, Reserved) /\ BaseFree(s) BY <2>1, <2>3, <2>5, InitList
    <2>7. Reserved' = Reserved BY <1>1 DEF Reserved
    <2>8. Listed' BY <1>1, <2>2, <2>6, <2>7 DEF Listed
    <2>9. Laid' BY <2>2 DEF Laid, Late
    <2>10. Unmapped' BY <1>1, <1>2, <2>2 DEF Unmapped, Late
    <2>11. at' \in Lists \cup Late /\ at' \in Stages BY <2>2 DEF Lists, Stages
    <2>12. Allocated' BY <1>1, <1>2, <2>5, <2>11, AllocatedKept
    <2>13. (touched \subseteq entry_pgdir)' BY <1>1, <1>2 DEF entry_pgdir
    <2>14. npages' \in Sizes /\ pse' \in BOOLEAN /\ DOMAIN boot' = What BY <1>1, <1>2 DEF BInv
    <2> QED BY <2>8, <2>9, <2>10, <2>11, <2>12, <2>13, <2>14 DEF BInv, What
  <1> QED BY <1>3, <1>4

\* The first pages of the list can be touched.
LEMMA CheckStep == BInv /\ check_page_free_list => BInv'
PROOF
  <1> SUFFICES ASSUME BInv, check_page_free_list PROVE BInv' OBVIOUS
  <1>1. PICK l, h, q : /\ l = Keep(freelist, entry_pgdir) /\ h = Keep(freelist, LOW..(npages - 1))
                       /\ q = l \o h
    OBVIOUS
  <1>2. /\ at = "check" /\ npages' = npages /\ pse' = pse /\ nextfree' = nextfree /\ boot' = boot
        /\ pgdir' = pgdir /\ pte' = pte /\ mmio' = mmio /\ at' \in {"check_alloc", "panic"}
        /\ freelist' = q /\ touched' = touched \cup Range(l)
    BY <1>1 DEF check_page_free_list
  <1>3. /\ Allocated /\ Unmapped /\ Listed /\ npages \in Sizes /\ DOMAIN boot = What
        /\ touched \subseteq entry_pgdir
    BY <1>2 DEF BInv
  <1>4. ListOK(freelist, npages, Reserved) /\ BaseFree(freelist)
    BY <1>2, <1>3 DEF Listed, Lists
  <1>5. npages \in Nat /\ IOPHYSMEM <= LOW
    <2>1. npages \in Nat /\ InfoPages \in Nat /\ KEND + 1 + InfoPages + ENVPAGES <= LOW
      BY <1>3, InfoFacts
    <2> QED BY <2>1, Constants_
  <1>6. /\ ListOK(q, npages, Reserved) /\ LowFirst(q, KT + 4)
        /\ \A i \in 1..Len(l) : l[i] \in entry_pgdir
    BY <1>1, <1>4, <1>5, CheckedList
  <1>7. touched' \subseteq entry_pgdir
    <2>1. freelist \in Seq(Nat) BY <1>4 DEF ListOK
    <2>2. l \in Seq(Nat) BY <1>1, <2>1, KeepLemma DEF KeptAt
    <2>3. \A p \in Range(l) : p \in entry_pgdir BY <1>6, <2>2 DEF Range
    <2> QED BY <1>2, <1>3, <2>3
  <1>8. CASE at' = "panic" BY <1>2, <1>3, <1>7, <1>8, PanicStep
  <1>9. CASE at' = "check_alloc"
    <2>1. Reserved' = Reserved BY <1>2 DEF Reserved
    <2>2. Listed' BY <1>2, <1>6, <1>9, <2>1 DEF Listed
    <2>3. Laid' BY <1>9 DEF Laid, Late
    <2>4. Unmapped' BY <1>2, <1>3, <1>9 DEF Unmapped, Late
    <2>5. at' \in Lists \cup Late /\ at' \in Stages BY <1>9 DEF Lists, Stages
    <2>6. nextfree <= npages /\ at \in Lists \cup Late \cup {"init"}
      BY <1>2, <1>3 DEF Allocated, Lists
    <2>7. Allocated' BY <1>2, <1>3, <2>5, <2>6, AllocatedKept
    <2>8. (touched \subseteq entry_pgdir)' BY <1>7 DEF entry_pgdir
    <2>9. npages' \in Sizes /\ pse' \in BOOLEAN /\ DOMAIN boot' = What BY <1>2, <1>3 DEF BInv
    <2> QED BY <2>2, <2>3, <2>4, <2>5, <2>7, <2>8, <2>9 DEF BInv, What
  <1> QED BY <1>2, <1>8, <1>9

\* One of them is scribbled on.
LEMMA CheckAllocStep == BInv /\ check_page_alloc => BInv'
PROOF
  <1> SUFFICES ASSUME BInv, check_page_alloc PROVE BInv' OBVIOUS
  <1>1. /\ at = "check_alloc" /\ npages' = npages /\ pse' = pse /\ nextfree' = nextfree /\ boot' = boot
        /\ pgdir' = pgdir /\ pte' = pte /\ mmio' = mmio /\ freelist' = freelist
    BY DEF check_page_alloc
  <1>2. /\ Allocated /\ Unmapped /\ Listed /\ npages \in Sizes /\ DOMAIN boot = What
        /\ touched \subseteq entry_pgdir
    BY <1>1 DEF BInv
  <1>3. ListOK(freelist, npages, Reserved) /\ LowFirst(freelist, KT + 4)
    BY <1>1, <1>2 DEF Listed, Lists
  <1>4. freelist[3] \in entry_pgdir /\ Len(freelist) >= 3
    <2>1. freelist \in Seq(Nat) BY <1>3 DEF ListOK
    <2>2. 3 \in 1..(KT + 4) BY Constants_
    <2>3. 3 <= Len(freelist) /\ freelist[3] < LOW BY <1>3, <2>2 DEF LowFirst
    <2>4. freelist[3] \in Nat BY <2>1, <2>3
    <2> QED BY <2>1, <2>3, <2>4, Constants_ DEF entry_pgdir
  <1>5. at' = "check_page" /\ touched' = touched \cup {freelist[3]}
    <2>1. ~(Len(freelist) < 3)
      <3>1. freelist \in Seq(Nat) BY <1>3 DEF ListOK
      <3> QED BY <1>4, <3>1
    <2> QED BY <2>1 DEF check_page_alloc
  <1>6. touched' \subseteq entry_pgdir BY <1>2, <1>4, <1>5
  <1>7. Reserved' = Reserved BY <1>1 DEF Reserved
  <1>8. Listed' BY <1>1, <1>3, <1>5, <1>7 DEF Listed
  <1>9. Laid' BY <1>5 DEF Laid, Late
  <1>10. Unmapped' BY <1>1, <1>2, <1>5 DEF Unmapped, Late
  <1>11. at' \in Lists \cup Late /\ at' \in Stages BY <1>5 DEF Lists, Stages
  <1>12. nextfree <= npages /\ at \in Lists \cup Late \cup {"init"}
    BY <1>1, <1>2 DEF Allocated, Lists
  <1>13. Allocated' BY <1>1, <1>2, <1>11, <1>12, AllocatedKept
  <1>14. (touched \subseteq entry_pgdir)' BY <1>6 DEF entry_pgdir
  <1>15. npages' \in Sizes /\ pse' \in BOOLEAN /\ DOMAIN boot' = What BY <1>1, <1>2 DEF BInv
  <1> QED BY <1>8, <1>9, <1>10, <1>11, <1>13, <1>14, <1>15 DEF BInv, What

\* A map that has been installed is the map.
LEMMA InstallMap ==
  ASSUME NEW q, q \in Mems, Install(q)
  PROVE  Map' = q
PROOF
  <1>1. q = [pgdir |-> q.pgdir, free |-> q.free, pte |-> q.pte, touched |-> q.touched]
    BY DEF Mems
  <1>2. pgdir' = q.pgdir /\ freelist' = q.free /\ pte' = q.pte /\ touched' = q.touched
    BY DEF Install
  <1> QED BY <1>1, <1>2 DEF Map

\* What has been done stays done when nothing changes but how far things are.
LEMMA DoneNext ==
  ASSUME NEW q, NEW n, npages' = npages, pse' = pse, Map' = q, Done(q, n)
  PROVE  Done(Map, n)'
PROOF
  <1>1. InfoPages' = InfoPages BY DEF InfoPages, RoundUp
  <1> QED BY <1>1 DEF Done, Upages, Uenvs, Memory

\* A step that maps something.
LEMMA LateStep ==
  ASSUME BInv, at \in Lists \cup Late, at' \in Late, NEW q, Install(q), MapOK(q, npages, Reserved),
         mmio' \in Nat, NEW n, Done(q, n) \/ at' = "done",
         at' = "upages" => n = 0, at' = "uenvs" => n = 1, at' = "kstack" => n = 2,
         at' = "kernbase" => n = 3, at' = "mp" => n = 4, at' = "lcr3" => n = 5
  PROVE  BInv'
PROOF
  <1>1. /\ npages' = npages /\ pse' = pse /\ nextfree' = nextfree /\ boot' = boot
        /\ touched' = q.touched
    BY DEF Install
  <1>2. q \in Mems /\ q.touched \subseteq entry_pgdir BY DEF MapOK
  <1>3. Map' = q BY <1>2, InstallMap
  <1>4. Allocated /\ npages \in Sizes /\ pse \in BOOLEAN /\ DOMAIN boot = What
    BY DEF BInv, Lists, Late
  <1>5. Reserved' = Reserved BY <1>1 DEF Reserved
  <1>6. MapOK(Map, npages, Reserved)'
    <2>1. Empty(Map)' = Empty(q) BY <1>3 DEF Empty
    <2> QED BY <1>1, <1>3, <1>5, <2>1 DEF MapOK, entry_pgdir, Mems, TablesOK
  <1>7. at' # "done" => Done(Map, n)' BY <1>1, <1>3, DoneNext
  <1>8. Laid' BY <1>6, <1>7 DEF Laid
  <1>9. Listed' /\ Unmapped' BY DEF Listed, Unmapped, Lists, Late
  <1>10. nextfree <= npages BY <1>4 DEF Allocated
  <1>11. Allocated' BY <1>1, <1>4, <1>10, AllocatedKept
  <1>12. (touched \subseteq entry_pgdir)' BY <1>1, <1>2 DEF entry_pgdir
  <1>13. npages' \in Sizes /\ pse' \in BOOLEAN /\ DOMAIN boot' = What /\ at' \in Stages
    BY <1>1, <1>4 DEF Stages
  <1> QED BY <1>8, <1>9, <1>11, <1>12, <1>13 DEF BInv, What

\* check_page leaves a table behind, and the list as long as it has to be.
LEMMA CheckPageStep == BInv /\ check_page => BInv'
PROOF
  <1> SUFFICES ASSUME BInv, check_page PROVE BInv' OBVIOUS
  <1>1. PICK a, m, q : /\ a = [Map EXCEPT !.free = Turned(@)]
                       /\ m = boot_map_region(a, mmio, 3, 0) /\ q = [m EXCEPT !.pte = pte]
    OBVIOUS
  <1>2. at = "check_page" /\ at' = "upages" /\ mmio' = mmio + 3 /\ Install(q)
    BY <1>1 DEF check_page
  <1>3. /\ Allocated /\ Unmapped /\ Listed /\ npages \in Sizes /\ touched \subseteq entry_pgdir
    BY <1>2 DEF BInv
  <1>4. ListOK(freelist, npages, Reserved) /\ LowFirst(freelist, KT + 4)
    BY <1>2, <1>3 DEF Listed, Lists
  <1>5. /\ pte = [va \in Vas |-> None] /\ mmio = MMIOBASE
        /\ pgdir = [t \in Tables |-> IF t = UVPT THEN Self ELSE None]
    BY <1>2, <1>3 DEF Unmapped, Late
  <1>6. PICK s : s = Turned(freelist) OBVIOUS
  <1>7. ListOK(s, npages, Reserved) /\ LowFirst(s, KT + 4) BY <1>4, <1>6, TurnedLemma
  <1>8. a = [pgdir |-> pgdir, free |-> s, pte |-> pte, touched |-> touched]
    BY <1>1, <1>6 DEF Map
  <1>9. MapOK(a, npages, Reserved)
    <2>1. pgdir \in [Tables -> Int] BY <1>5 DEF Self, None
    <2>2. pte \in [Vas -> Int] BY <1>5 DEF None
    <2>3. s \in Seq(Nat) BY <1>7 DEF ListOK
    <2>4. touched \in SUBSET Nat BY <1>3, Constants_ DEF entry_pgdir
    <2>5. a \in Mems BY <1>8, <2>1, <2>2, <2>3, <2>4 DEF Mems
    <2>6. a.pgdir = pgdir /\ a.free = s /\ a.touched = touched BY <1>8
    <2>7. \A t \in Tables : ~(a.pgdir[t] >= 0) BY <1>5, <2>6 DEF Self, None
    <2>8. TablesOK(a) BY <2>7 DEF TablesOK
    <2>9. Cardinality(Empty(a)) = KT + 4 BY <1>5, <2>6, EmptyAtFirst
    <2> QED BY <1>3, <1>7, <2>5, <2>6, <2>8, <2>9 DEF MapOK
  <1>10. Fits(mmio, 3, 0) /\ Covered(mmio, 3) = {3} BY <1>3, <1>5, RegionFits
  <1>11. MapOK(m, npages, Reserved) /\ RegionAt(a, m, mmio, 3, 0, 3)
    BY <1>1, <1>9, <1>10, RegionLemma
  <1>12. m \in Mems BY <1>11 DEF MapOK
  <1>13. q = [pgdir |-> m.pgdir, free |-> m.free, pte |-> pte, touched |-> m.touched]
    BY <1>1, <1>12 DEF Mems
  <1>14. q.pgdir = m.pgdir /\ q.free = m.free /\ q.pte = pte /\ q.touched = m.touched BY <1>13
  <1>15. MapOK(q, npages, Reserved)
    <2>1. pte \in [Vas -> Int] BY <1>5 DEF None
    <2>2. q \in Mems BY <1>12, <1>13, <2>1 DEF Mems
    <2>3. Empty(q) = Empty(m) BY <1>14 DEF Empty
    <2>4. TablesOK(q)
      <3>1. TablesOK(m) BY <1>11 DEF MapOK
      <3> QED BY <1>14, <3>1 DEF TablesOK
    <2> QED BY <1>11, <1>14, <2>2, <2>3, <2>4 DEF MapOK
  <1>16. Done(q, 0)
    <2>1. Gaps(q.pte)
      <3>1. SUFFICES ASSUME NEW c \in 0..(NCPU - 1), NEW i \in 1..KSTKGAP
                     PROVE  q.pte[Slot(c) - i] = None
        BY DEF Gaps
      <3>2. Slot(c) - i \in Vas BY GapFacts
      <3> QED BY <1>5, <1>14, <3>2
    <2>2. 2 \in Tables /\ 3 \in Tables BY Constants_ DEF Tables
    <2>3. m.pgdir[3] # None BY <1>10, <1>11, <2>2 DEF RegionAt
    <2>4. m.pgdir[2] # None
      <3>1. a.pgdir[2] = Self /\ Self # None BY <1>5, <1>8, <2>2 DEF UVPT, Self, None
      <3> QED BY <1>11, <2>2, <3>1, TablesKept
    <2> QED BY <1>14, <2>1, <2>3, <2>4 DEF Done
  <1>17. mmio' \in Nat BY <1>2, <1>5, Constants_ DEF MMIOBASE
  <1>18. at \in Lists \cup Late /\ at' \in Late BY <1>2 DEF Lists, Late
  <1> QED BY <1>2, <1>15, <1>16, <1>17, <1>18, LateStep

\* The set of pages that boot_alloc gives out begins with its first page.
LEMMA FirstIs ==
  ASSUME NEW what, NEW f \in Nat, NEW n \in Nat \ {0}, boot[what] = Pages(f, n)
  PROVE  First(what) = f
PROOF
  <1>1. PICK S : S = boot[what] OBVIOUS
  <1>2. \A p \in S : p \in Nat /\ f <= p BY <1>1 DEF Pages
  <1>3. f \in S BY <1>1 DEF Pages
  <1>4. First(what) = CHOOSE p \in S : \A q \in S : p <= q BY <1>1 DEF First
  <1>5. PICK x : x = First(what) OBVIOUS
  <1>6. x \in S /\ \A q \in S : x <= q BY <1>2, <1>3, <1>4, <1>5
  <1>7. x <= f /\ f <= x /\ x \in Nat BY <1>2, <1>3, <1>6
  <1> QED BY <1>5, <1>7

\* The arrays are where boot_alloc has put them.
LEMMA Firsts ==
  ASSUME BInv, at \in Late
  PROVE  First("pages") = KEND + 1 /\ First("envs") = KEND + 1 + InfoPages
PROOF
  <1>1. Allocated /\ npages \in Sizes BY DEF BInv, Late
  <1>2. /\ boot["pages"] = Pages(KEND + 1, InfoPages)
        /\ boot["envs"] = Pages(KEND + 1 + InfoPages, ENVPAGES)
    BY <1>1 DEF Allocated, Late
  <1>3. PICK n \in Nat \ {0} : n = InfoPages BY <1>1, InfoFacts
  <1>4. KEND + 1 \in Nat /\ KEND + 1 + n \in Nat /\ ENVPAGES \in Nat \ {0} BY Constants_
  <1>5. First("pages") = KEND + 1 BY <1>2, <1>3, <1>4, FirstIs
  <1>6. First("envs") = KEND + 1 + n BY <1>2, <1>3, <1>4, FirstIs
  <1> QED BY <1>3, <1>5, <1>6

\* The `pages` array, at UPAGES.
LEMMA MapPagesStep == BInv /\ map_pages => BInv'
PROOF
  <1> SUFFICES ASSUME BInv, map_pages PROVE BInv' OBVIOUS
  <1>1. /\ at = "upages" /\ at' = "uenvs" /\ mmio' = mmio /\ at \in Late /\ at' \in Late
        /\ Install(boot_map_region(Map, UPAGES, InfoPages, First("pages")))
    BY DEF map_pages, Late
  <1>2. npages \in Sizes /\ mmio \in Nat /\ MapOK(Map, npages, Reserved) /\ Done(Map, 0)
    BY <1>1 DEF BInv, Laid
  <1>3. PICK q : q = boot_map_region(Map, UPAGES, InfoPages, KEND + 1) OBVIOUS
  <1>4. Install(q) BY <1>1, <1>3, Firsts
  <1>5. MapOK(q, npages, Reserved) /\ RegionAt(Map, q, UPAGES, InfoPages, KEND + 1, InfoPages)
    BY <1>2, <1>3, RegionFits, RegionLemma
  <1>6. Done(q, 1) BY <1>2, <1>5, PagesStep
  <1> QED BY <1>1, <1>2, <1>4, <1>5, <1>6, LateStep

\* The environments, at UENVS.
LEMMA MapEnvsStep == BInv /\ map_envs => BInv'
PROOF
  <1> SUFFICES ASSUME BInv, map_envs PROVE BInv' OBVIOUS
  <1>1. /\ at = "uenvs" /\ at' = "kstack" /\ mmio' = mmio /\ at \in Late /\ at' \in Late
        /\ Install(boot_map_region(Map, UENVS, ENVPAGES, First("envs")))
    BY DEF map_envs, Late
  <1>2. npages \in Sizes /\ mmio \in Nat /\ MapOK(Map, npages, Reserved) /\ Done(Map, 1)
    BY <1>1 DEF BInv, Laid
  <1>3. PICK q : q = boot_map_region(Map, UENVS, ENVPAGES, KEND + 1 + InfoPages) OBVIOUS
  <1>4. Install(q) BY <1>1, <1>3, Firsts
  <1>5. /\ MapOK(q, npages, Reserved)
        /\ RegionAt(Map, q, UENVS, ENVPAGES, KEND + 1 + InfoPages, ENVPAGES)
    BY <1>2, <1>3, RegionFits, RegionLemma
  <1>6. Done(q, 2) BY <1>2, <1>5, EnvsStep
  <1> QED BY <1>1, <1>2, <1>4, <1>5, <1>6, LateStep

\* The first processor's stack.
LEMMA MapBootstackStep == BInv /\ map_bootstack => BInv'
PROOF
  <1> SUFFICES ASSUME BInv, map_bootstack PROVE BInv' OBVIOUS
  <1>1. /\ at = "kstack" /\ at' = "kernbase" /\ mmio' = mmio /\ at \in Late /\ at' \in Late
        /\ Install(boot_map_region(Map, KSTACKTOP - KSTKSIZE, KSTKSIZE, Stack(0)))
    BY DEF map_bootstack, Late
  <1>2. npages \in Sizes /\ mmio \in Nat /\ MapOK(Map, npages, Reserved) /\ Done(Map, 2)
    BY <1>1 DEF BInv, Laid
  <1>3. PICK q : q = boot_map_region(Map, Slot(0), KSTKSIZE, Stack(0)) OBVIOUS
  <1>4. Slot(0) = KSTACKTOP - KSTKSIZE /\ 0 \in 0..(NCPU - 1)
    BY Constants_ DEF Slot, StackTop, KSTACKTOP
  <1>5. Install(q) BY <1>1, <1>3, <1>4
  <1>6. MapOK(q, npages, Reserved) /\ RegionAt(Map, q, Slot(0), KSTKSIZE, Stack(0), KSTKSIZE)
    BY <1>2, <1>3, <1>4, RegionFits, RegionLemma
  <1>7. Done(q, 3) BY <1>2, <1>6, BootstackStep
  <1> QED BY <1>1, <1>2, <1>5, <1>6, <1>7, LateStep

\* All of memory, at KERNBASE.
LEMMA MapKernbaseStep == BInv /\ map_kernbase => BInv'
PROOF
  <1> SUFFICES ASSUME BInv, map_kernbase PROVE BInv' OBVIOUS
  <1>1. /\ at = "kernbase" /\ at' = "mp" /\ mmio' = mmio /\ at \in Late /\ at' \in Late
        /\ Install(boot_map_region(Map, KERNBASE, KT * NENT, 0))
    BY DEF map_kernbase, Late
  <1>2. npages \in Sizes /\ mmio \in Nat /\ MapOK(Map, npages, Reserved) /\ Done(Map, 3)
    BY <1>1 DEF BInv, Laid
  <1>3. PICK q : q = boot_map_region(Map, KERNBASE, KT * NENT, 0) OBVIOUS
  <1>4. MapOK(q, npages, Reserved) /\ RegionAt(Map, q, KERNBASE, KT * NENT, 0, KT * NENT)
    BY <1>2, <1>3, KernbaseFits, RegionLemma
  <1>5. Done(q, 4) BY <1>2, <1>4, KernbaseStep
  <1> QED BY <1>1, <1>2, <1>3, <1>4, <1>5, LateStep

\* The stacks, one after the other.
LEMMA MapStacksStep == BInv /\ mem_init_mp => BInv'
PROOF
  <1> SUFFICES ASSUME BInv, mem_init_mp PROVE BInv' OBVIOUS
  <1>1. /\ at = "mp" /\ at' = "lcr3" /\ mmio' = mmio /\ at \in Late /\ at' \in Late
        /\ Install(map_stacks(Map))
    BY DEF mem_init_mp, Late
  <1>2. npages \in Sizes /\ mmio \in Nat /\ MapOK(Map, npages, Reserved) /\ Done(Map, 4)
    BY <1>1 DEF BInv, Laid
  <1>3. PICK q : q = map_stacks(Map) OBVIOUS
  <1>4. MapOK(q, npages, Reserved) /\ Done(q, 5) BY <1>2, <1>3, StacksStep
  <1> QED BY <1>1, <1>2, <1>3, <1>4, LateStep

\* The directory is loaded, with no more changes to it.
LEMMA LoadStep == BInv /\ lcr3 => BInv'
PROOF
  <1> SUFFICES ASSUME BInv, lcr3 PROVE BInv' OBVIOUS
  <1>1. /\ at = "lcr3" /\ at' \in {"done", "panic"} /\ at \in Late
        /\ npages' = npages /\ pse' = pse /\ nextfree' = nextfree /\ boot' = boot
        /\ freelist' = freelist /\ pgdir' = pgdir /\ pte' = pte /\ touched' = touched
        /\ mmio' = mmio
    BY DEF lcr3, Late
  <1>2. /\ mmio \in Nat /\ MapOK(Map, npages, Reserved) /\ DOMAIN boot = What
        /\ touched \subseteq entry_pgdir
    BY <1>1 DEF BInv, Laid
  <1>3. CASE at' = "panic" BY <1>1, <1>2, <1>3, PanicStep
  <1>4. CASE at' = "done"
    <2>1. PICK q : q = Map OBVIOUS
    <2>2. Install(q) BY <1>1, <2>1 DEF Install, Map
    <2>3. at' \in Late BY <1>4 DEF Late
    <2> QED BY <1>1, <1>2, <1>4, <2>1, <2>2, <2>3, LateStep
  <1> QED BY <1>1, <1>3, <1>4

\* A device's registers: a table more at most, and there is a page for it.
LEMMA MmioStep == BInv /\ mmio_map_region => BInv'
PROOF
  <1> SUFFICES ASSUME BInv, mmio_map_region PROVE BInv' OBVIOUS
  <1>1. at = "done" /\ at \in Late BY DEF mmio_map_region, Late
  <1>2. /\ mmio \in Nat /\ MapOK(Map, npages, Reserved) /\ DOMAIN boot = What
        /\ touched \subseteq entry_pgdir
    BY <1>1 DEF BInv, Laid
  <1>3. CASE mmio + 1 > MMIOLIM
    <2>1. /\ at' = "panic" /\ npages' = npages /\ pse' = pse /\ boot' = boot
          /\ touched' = touched
      BY <1>3 DEF mmio_map_region
    <2> QED BY <1>2, <2>1, PanicStep
  <1>4. CASE ~(mmio + 1 > MMIOLIM)
    <2>1. PICK m, q : m = boot_map_region(Map, mmio, 1, Device) /\ q = [m EXCEPT !.touched = touched]
      OBVIOUS
    <2>2. Install(q) /\ mmio' = mmio + 1 /\ at' = at BY <1>4, <2>1 DEF mmio_map_region
    <2>3. Fits(mmio, 1, Device)
      <3>1. PICK x, l \in Nat : x = KT * NENT /\ l = (5 + KT) * NENT BY Constants_, Products
      <3>2. (5 + KT) * NENT = 5 * NENT + KT * NENT BY Constants_, Products
      <3>3. l = 5 * NENT + x BY <3>1, <3>2
      <3>4. mmio \in 0..(l - 1) BY <1>2, <1>4, <3>1, <3>3, Constants_ DEF MMIOLIM
      <3>5. \A i \in 0..(1 - 1) : mmio + i = mmio BY <1>2
      <3>6. Device \in Nat BY <3>1 DEF Device
      <3>7. mmio \in Vas BY <3>1, <3>4 DEF Vas
      <3> QED BY <1>2, <3>5, <3>6, <3>7 DEF Fits
    <2>4. MapOK(m, npages, Reserved) BY <1>2, <2>1, <2>3, RegionLemma
    <2>5. m \in Mems BY <2>4 DEF MapOK
    <2>6. q = [pgdir |-> m.pgdir, free |-> m.free, pte |-> m.pte, touched |-> touched]
      BY <2>1, <2>5 DEF Mems
    <2>7. q.pgdir = m.pgdir /\ q.free = m.free /\ q.touched = touched BY <2>6
    <2>8. MapOK(q, npages, Reserved)
      <3>1. touched \in SUBSET Nat BY <1>2, Constants_ DEF entry_pgdir
      <3>2. q \in Mems BY <2>5, <2>6, <3>1 DEF Mems
      <3>3. Empty(q) = Empty(m) BY <2>7 DEF Empty
      <3>4. TablesOK(q)
        <4>1. TablesOK(m) BY <2>4 DEF MapOK
        <4> QED BY <2>7, <4>1 DEF TablesOK
      <3> QED BY <1>2, <2>4, <2>7, <3>2, <3>3, <3>4 DEF MapOK
    <2>9. mmio' \in Nat BY <1>2, <2>2
    <2> QED BY <1>1, <2>2, <2>8, <2>9, LateStep
  <1> QED BY <1>3, <1>4

-----------------------------------------------------------------------------
(* The theorem *)

\* What boot_alloc has given out, all together.
LEMMA BootPages ==
  ASSUME Allocated, npages \in Sizes, at \in Lists \cup Late
  PROVE  /\ boot["pgdir"] \cup boot["pages"] \cup boot["envs"] = KEND..(nextfree - 1)
         /\ Cardinality(KEND..(nextfree - 1)) = 1 + InfoPages + ENVPAGES
         /\ nextfree \in Nat /\ nextfree <= npages
PROOF
  <1>1. PICK n \in Nat : n = InfoPages BY InfoFacts
  <1>2. PICK k, e : k = KEND /\ e = ENVPAGES OBVIOUS
  <1>3. k \in Nat /\ e \in Nat BY <1>2, Constants_
  <1>4. /\ nextfree = k + 1 + n + e /\ nextfree <= npages /\ boot["pgdir"] = k..(k + 1 - 1)
        /\ boot["pages"] = (k + 1)..(k + 1 + n - 1)
        /\ boot["envs"] = (k + 1 + n)..(k + 1 + n + e - 1)
    BY <1>1, <1>2 DEF Allocated, Lists, Late, Pages
  <1>5. /\ (k..(k + 1 - 1)) \cup ((k + 1)..(k + 1 + n - 1)) \cup ((k + 1 + n)..(k + 1 + n + e - 1))
           = k..(nextfree - 1)
    BY <1>1, <1>3, <1>4
  <1>6. PICK h : h = nextfree - 1 OBVIOUS
  <1>7. k \in Int /\ h \in Int /\ h = k + n + e BY <1>1, <1>3, <1>4, <1>6
  <1>8. Cardinality(k..h) = IF k > h THEN 0 ELSE h - k + 1 BY <1>7, FS_Interval
  <1>9. Cardinality(k..h) = 1 + n + e BY <1>1, <1>3, <1>7, <1>8
  <1>10. boot["pgdir"] \cup boot["pages"] \cup boot["envs"] = k..h
    BY <1>4, <1>5, <1>6, Zenon
  <1>11. nextfree \in Nat BY <1>1, <1>3, <1>4
  <1> QED BY <1>1, <1>2, <1>4, <1>6, <1>9, <1>10, <1>11

\* The list in use is as it has to be, and so are the tables.
LEMMA ListNow ==
  ASSUME BInv, at \in Lists \cup Late
  PROVE  /\ ListOK(freelist, npages, Reserved) /\ TablesOK(Map)
         /\ \A t \in Tables : pgdir[t] \in Int
PROOF
  <1>1. Unmapped /\ Listed /\ Laid BY DEF BInv, Lists, Late
  <1>2. Map.free = freelist /\ Map.pgdir = pgdir BY DEF Map
  <1>3. CASE at \in Late
    <2>1. MapOK(Map, npages, Reserved) BY <1>1, <1>3 DEF Laid
    <2> QED BY <1>2, <2>1 DEF MapOK, Mems
  <1>4. CASE at \in Lists
    <2>1. ListOK(freelist, npages, Reserved) BY <1>1, <1>4 DEF Listed
    <2>2. pgdir = [t \in Tables |-> IF t = UVPT /\ at # "start" THEN Self ELSE None]
      BY <1>1, <1>4 DEF Unmapped, Lists, Late
    <2>3. \A t \in Tables : pgdir[t] \in Int /\ ~(pgdir[t] >= 0) BY <2>2 DEF Self, None
    <2>4. TablesOK(Map) BY <1>2, <2>3 DEF TablesOK
    <2> QED BY <2>1, <2>3, <2>4
  <1> QED BY <1>3, <1>4

\* Nothing that is in use is free.
LEMMA FreeFact ==
  ASSUME BInv, at \in Lists \cup Late, NEW p \in Range(freelist)
  PROVE  p \in 0..(npages - 1) /\ p \notin InUse
PROOF
  <1>1. ListOK(freelist, npages, Reserved) /\ TablesOK(Map) /\ \A t \in Tables : pgdir[t] \in Int
    BY ListNow
  <1>2. Allocated /\ npages \in Sizes BY DEF BInv, Lists, Late
  <1>3. freelist \in Seq(Nat) /\ npages \in Nat BY <1>1, <1>2, InfoFacts DEF ListOK
  <1>4. PICK i \in 1..Len(freelist) : p = freelist[i] BY <1>3 DEF Range
  <1>5. p \in Nat /\ p < npages /\ p \notin Reserved BY <1>1, <1>3, <1>4 DEF ListOK
  <1>6. PICK B : B = boot["pgdir"] \cup boot["pages"] \cup boot["envs"] OBVIOUS
  <1>7. B = KEND..(nextfree - 1) /\ nextfree \in Nat BY <1>2, <1>6, BootPages
  <1>8. p \notin B BY <1>5, <1>7, Constants_ DEF Reserved
  <1>9. p \notin {0, MPENTRY} /\ p \notin IOPHYSMEM..(KEND - 1)
    <2>1. KEND <= nextfree
      <3>1. InfoPages \in Nat BY <1>2, InfoFacts
      <3>2. nextfree = KEND + 1 + InfoPages + ENVPAGES BY <1>2 DEF Allocated, Lists, Late
      <3> QED BY <3>1, <3>2, Constants_
    <2> QED BY <1>5, <1>7, <2>1, Constants_ DEF Reserved
  <1>10. ASSUME NEW t \in Tables, p = pgdir[t] PROVE FALSE
    <2>1. Map.pgdir[t] >= 0 /\ Map.free = freelist /\ Map.pgdir[t] = pgdir[t]
      BY <1>5, <1>10 DEF Map
    <2>2. freelist[i] # pgdir[t] BY <1>1, <2>1 DEF TablesOK
    <2> QED BY <1>4, <1>10, <2>2
  <1> QED BY <1>3, <1>5, <1>6, <1>8, <1>9, <1>10 DEF InUse

\* What check_kern_pgdir asserts holds when it is called.
LEMMA CheckFact ==
  ASSUME BInv, at = "lcr3"
  PROVE  check_kern_pgdir
PROOF
  <1>1. at \in Late /\ npages \in Sizes BY DEF BInv, Late
  <1>2. Done(Map, 5) BY DEF BInv, Laid, Late
  <1>3. Map.pgdir = pgdir /\ Map.pte = pte BY DEF Map
  <1>4. First("pages") = KEND + 1 /\ First("envs") = KEND + 1 + InfoPages BY <1>1, Firsts
  <1>5. \A i \in 0..(InfoPages - 1) : pte[UPAGES + i] = First("pages") + i
    <2>1. Has(pte, UPAGES, InfoPages, KEND + 1) BY <1>2, <1>3 DEF Done, Upages
    <2> QED BY <1>4, <2>1 DEF Has
  <1>6. \A i \in 0..(ENVPAGES - 1) : pte[UENVS + i] = First("envs") + i
    <2>1. Has(pte, UENVS, ENVPAGES, KEND + 1 + InfoPages) BY <1>2, <1>3 DEF Done, Uenvs
    <2> QED BY <1>4, <2>1 DEF Has
  <1>7. Memory(Map) BY <1>2 DEF Done
  <1>8. \A i \in 0..(npages - 1) : pte[KERNBASE + i] = i
    <2>1. Has(pte, KERNBASE, KT * NENT, 0) BY <1>3, <1>7 DEF Memory
    <2>2. npages \in Nat /\ npages <= KT * NENT BY <1>1, InfoFacts
    <2>3. PICK l \in Nat : l = KT * NENT BY Constants_, Products
    <2>4. \A i \in 0..(npages - 1) : i \in 0..(l - 1) /\ 0 + i = i BY <2>2, <2>3
    <2> QED BY <2>1, <2>3, <2>4 DEF Has
  <1>9. ASSUME NEW c \in 0..(NCPU - 1)
        PROVE  /\ \A i \in 0..(KSTKSIZE - 1) : pte[StackTop(c) - KSTKSIZE + i] = Stack(c) + i
               /\ \A i \in 1..KSTKGAP : pte[StackTop(c) - KSTKSIZE - i] = None
    <2>1. Has(pte, Slot(c), KSTKSIZE, Stack(c)) /\ Gaps(pte) BY <1>2, <1>3 DEF Done, StacksTo
    <2> QED BY <2>1 DEF Has, Gaps, Slot
  <1>10. \A t \in Tables : pgdir[t] # None
    <2>1. /\ pgdir[0] # None /\ pgdir[1] # None /\ pgdir[2] # None /\ pgdir[3] # None
          /\ pgdir[4] # None
      BY <1>2, <1>3 DEF Done, Upages, Uenvs
    <2>2. \A t \in 5..(4 + KT) : pgdir[t] # None BY <1>3, <1>7 DEF Memory
    <2>3. \A t \in Tables : t \in {0, 1, 2, 3, 4} \/ t \in 5..(4 + KT)
      BY Constants_ DEF Tables
    <2> QED BY <2>1, <2>2, <2>3
  <1>11. ASSUME pse PROVE \A t \in (KERNBASE \div NENT)..(4 + KT) : pgdir[t] = Large
    <2>1. KERNBASE = 5 * NENT + 0 /\ 0 \in 0..(NENT - 1) BY Constants_ DEF KERNBASE, KSTACKTOP
    <2>2. PICK b : b = KERNBASE OBVIOUS
    <2>3. b \div NENT = 5 BY <2>1, <2>2, Constants_, DivUnique
    <2> QED BY <1>3, <1>7, <1>11, <2>2, <2>3 DEF Memory
  <1> QED BY <1>5, <1>6, <1>8, <1>9, <1>10, <1>11 DEF check_kern_pgdir

\* The invariant implies the property.
LEMMA BInvSafe == BInv => BootMemorySafe
PROOF
  <1> SUFFICES ASSUME BInv PROVE BootMemorySafe OBVIOUS
  <1>1. touched \subseteq entry_pgdir BY DEF BInv
  <1>2. at = "lcr3" => check_kern_pgdir BY CheckFact
  <1>3. ASSUME at \notin {"start", "pages", "envs", "init", "panic"}
        PROVE  /\ \A p \in Range(freelist) : p \in 0..(npages - 1) /\ p \notin InUse
               /\ IsInjective(freelist)
               /\ Cardinality(boot["pgdir"] \cup boot["pages"] \cup boot["envs"])
                    = 1 + InfoPages + ENVPAGES
               /\ boot["pgdir"] \cup boot["pages"] \cup boot["envs"] \subseteq KEND..(npages - 1)
               /\ \A t, u \in Tables : pgdir[t] >= 0 /\ t # u => pgdir[t] # pgdir[u]
    <2>1. at \in Lists \cup Late /\ Allocated /\ npages \in Sizes
      BY <1>3 DEF BInv, Stages
    <2>2. \A p \in Range(freelist) : p \in 0..(npages - 1) /\ p \notin InUse BY <2>1, FreeFact
    <2>3. ListOK(freelist, npages, Reserved) /\ TablesOK(Map) BY <2>1, ListNow
    <2>4. IsInjective(freelist)
      <3>1. freelist \in Seq(Nat) BY <2>3 DEF ListOK
      <3>2. DOMAIN freelist = 1..Len(freelist) BY <3>1
      <3> QED BY <2>3, <3>2 DEF ListOK, IsInjective
    <2>5. PICK B : B = boot["pgdir"] \cup boot["pages"] \cup boot["envs"] OBVIOUS
    <2>6. B = KEND..(nextfree - 1) /\ Cardinality(B) = 1 + InfoPages + ENVPAGES
          /\ nextfree \in Nat /\ nextfree <= npages
      BY <2>1, <2>5, BootPages
    <2>7. B \subseteq KEND..(npages - 1)
      <3>1. npages \in Nat BY <2>1, InfoFacts
      <3> QED BY <2>6, <3>1, Constants_
    <2>8. ASSUME NEW t \in Tables, NEW u \in Tables, pgdir[t] >= 0, t # u
          PROVE  pgdir[t] # pgdir[u]
      <3>1. Map.pgdir = pgdir BY DEF Map
      <3> QED BY <2>3, <2>8, <3>1 DEF TablesOK
    <2> QED BY <2>2, <2>4, <2>5, <2>6, <2>7, <2>8
  <1> QED BY <1>1, <1>2, <1>3 DEF BootMemorySafe

\* Stuttering changes nothing.
LEMMA BInvStutter == BInv /\ UNCHANGED bootVars => BInv'
PROOF
  <1> SUFFICES ASSUME BInv, UNCHANGED bootVars PROVE BInv' OBVIOUS
  <1>1. /\ at' = at /\ npages' = npages /\ pse' = pse /\ nextfree' = nextfree /\ boot' = boot
        /\ freelist' = freelist /\ pgdir' = pgdir /\ pte' = pte /\ touched' = touched
        /\ mmio' = mmio
    BY DEF bootVars
  <1>2. InfoPages' = InfoPages /\ Reserved' = Reserved /\ Map' = Map
    BY <1>1 DEF InfoPages, RoundUp, Reserved, Map
  <1>3. Allocated => Allocated' BY <1>1, <1>2 DEF Allocated
  <1>4. Unmapped => Unmapped' BY <1>1 DEF Unmapped
  <1>5. Listed => Listed' BY <1>1, <1>2 DEF Listed
  <1>6. Laid => Laid'
    <2>1. \A n \in Nat : Done(Map, n) => Done(Map, n)' BY <1>1, <1>2, DoneNext
    <2>2. MapOK(Map, npages, Reserved) => MapOK(Map, npages, Reserved)'
      BY <1>1, <1>2 DEF MapOK, entry_pgdir
    <2> QED BY <1>1, <2>1, <2>2 DEF Laid
  <1>7. (touched \subseteq entry_pgdir)' BY <1>1 DEF BInv, entry_pgdir
  <1> QED BY <1>1, <1>3, <1>4, <1>5, <1>6, <1>7 DEF BInv, What

\* Whatever the amount of memory, of environments and of processors: what is
\* in use is never free, nothing is in use twice, nothing is touched that is
\* not mapped yet, and the kernel's directory is what check_kern_pgdir asserts.
THEOREM BootTheorem == BootInit /\ [][BootNext]_bootVars => []BootMemorySafe
PROOF
  <1>1. BInv /\ [BootNext]_bootVars => BInv'
    <2> SUFFICES ASSUME BInv, [BootNext]_bootVars PROVE BInv' OBVIOUS
    <2>1. CASE alloc_pgdir BY <2>1, PgdirStep
    <2>2. CASE alloc_pages BY <2>2, InfoStep
    <2>3. CASE alloc_envs BY <2>3, EnvsAllocStep
    <2>4. CASE page_init BY <2>4, PageInitStep
    <2>5. CASE check_page_free_list BY <2>5, CheckStep
    <2>6. CASE check_page_alloc BY <2>6, CheckAllocStep
    <2>7. CASE check_page BY <2>7, CheckPageStep
    <2>8. CASE map_pages BY <2>8, MapPagesStep
    <2>9. CASE map_envs BY <2>9, MapEnvsStep
    <2>10. CASE map_bootstack BY <2>10, MapBootstackStep
    <2>11. CASE map_kernbase BY <2>11, MapKernbaseStep
    <2>12. CASE mem_init_mp BY <2>12, MapStacksStep
    <2>13. CASE lcr3 BY <2>13, LoadStep
    <2>14. CASE mmio_map_region BY <2>14, MmioStep
    <2>15. CASE UNCHANGED bootVars BY <2>15, BInvStutter
    <2> QED
      BY <2>1, <2>2, <2>3, <2>4, <2>5, <2>6, <2>7, <2>8, <2>9, <2>10, <2>11, <2>12, <2>13,
         <2>14, <2>15
      DEF BootNext
  <1> QED BY <1>1, BInvInit, BInvSafe, PTL
=============================================================================
