--------------------------- MODULE LcdDriverProofs ---------------------------
(***************************************************************************)
(* Proofs about LcdDriver, for any users, messages and displays: that      *)
(* driver and display are in step, that a message written alone is on both *)
(* lines, and that the delayed work, which queues itself for ever, is gone *)
(* before the module's code is.                                            *)
(*                                                                         *)
(* First the invariant DInv of the display and the bytes still to come;    *)
(* then, from the bottom up, what a byte, a send, the initialisation and   *)
(* an operation make of a display; then the invariant QInv of the driver   *)
(* and its work; and last the steps of the specification, which need both. *)
(***************************************************************************)
EXTENDS LcdDriver, SequenceTheorems, FiniteSetTheorems, TLAPS

-----------------------------------------------------------------------------
(* The display in the course of an operation                               *)

Suffix(s, j) == SubSeq(s, j + 1, Len(s))

(* A display with 8 data lines has no half of a byte.                      *)
Whole(d) == d.bits = 8 => d.half = <<>>

(* As the initialisation leaves it, and as it is between two operations.   *)
Fit(d) == d.on /\ d.left /\ d.twoLines /\ ~d.autoshift
Rested(d) == Aligned(d) /\ Fit(d)

(* r of the six writes that make a send have been done.                    *)
High(s) == [nib |-> s.v \div 16, rs |-> s.mode]
Low(s) == [nib |-> s.v % 16, rs |-> s.mode]
AtByte(d, s, r) ==
  /\ d.bits = 4
  /\ d.half = IF r < 3 THEN <<>> ELSE <<High(s)>>
  /\ d.pins.en = (r \in {2, 5})
  /\ r \in {1, 2} => d.pins.nib = High(s).nib /\ d.pins.rs = s.mode
  /\ r \in {4, 5} => d.pins.nib = Low(s).nib /\ d.pins.rs = s.mode

(* j bytes of the operation that makes the given sends have been written.  *)
Within(d, sends, j) ==
  IF j = 6 * Len(sends) THEN Aligned(d)
  ELSE AtByte(d, sends[(j \div 6) + 1], j % 6)

(* The display's memory after m sends of a message.                        *)
Written(d, sends, m) ==
  m > 0 =>
    /\ d.ram = [x \in Cells |-> IF x < m - 1 THEN sends[x + 2].v ELSE Blank]
    /\ d.ac = (m - 1) % (2 * Line)

(* What an operation on an initialised display sends.                      *)
Tame(s) == s.mode \/ s.v \in {1, 28} \union (128 .. 255)

(* The sends of the operation c is in.                                     *)
Sending(c, s) ==
  \/ /\ call[c] = "write" /\ buf[c] # <<>>
     /\ s = layout(Len(buf[c]), Text(Terminated(buf[c])))
  \/ /\ call[c] = "write" /\ buf[c] = <<>>
     /\ \E b \in Buffers : s = layout(0, Text(b))
  \/ call[c] = "scroll" /\ s = <<scrollDisplayRight>>
  \/ call[c] = "greet" /\ greeted > 0 /\ s = greet(Greeting[greeted])
  \/ call[c] = "cursor" /\ s = <<setCursor(0, 0)>>
  \/ call[c] \in {"probed", "remove"} /\ s = <<>>

(* A message that fits.                                                    *)
Plain(c) ==
  /\ call[c] = "write" /\ buf[c] # <<>>
  /\ NUL \notin {buf[c][k] : k \in 1 .. Len(buf[c]) - 1}

Untouched(c) == Idle(c) \/ \E s : Sending(c, s) /\ todo[c] = Bytes(s)

(* The second initialisation: bits and half after m of the four nibbles,   *)
(* and what m of the settings have set.                                    *)
Three == [nib |-> 3, rs |-> FALSE]
Forced(d, m) ==
  /\ m = 1 => d.bits = 8 \/ d.half \in {<<>>, <<Three>>}
  /\ m = 2 => d.bits = 8 \/ d.half = <<Three>>
  /\ m = 3 => d.bits = 8
AtNibble(d, n, r) ==
  /\ d.pins.en = (r = 2)
  /\ r > 0 => d.pins.nib = n /\ ~d.pins.rs
Set(d, m) ==
  /\ m >= 1 => d.twoLines
  /\ m >= 2 => d.on
  /\ m >= 4 => d.left /\ ~d.autoshift
Initialising(d, q) ==
  \/ q < 0
  \/ /\ q \in 0 .. 11
     /\ Forced(d, q \div 3)
     /\ AtNibble(d, IF q < 9 THEN 3 ELSE 2, q % 3)
  \/ /\ q \in 12 .. 48
     /\ Set(d, (q - 12) \div 6)
     /\ Within(d, settings, q - 12)

Sent(c, s, j) ==
  /\ todo[c] = Suffix(Bytes(s), j) /\ Within(lcd, s, j)
  /\ Plain(c) => Written(lcd, s, j \div 6)

Working(c) ==
  \/ Idle(c) /\ Rested(lcd)
  \/ call[c] = "init" /\ \E j \in 0 .. 98 :
       todo[c] = Suffix(begin \o begin, j) /\ Initialising(lcd, j - 50)
  \/ call[c] = "light" /\ Rested(lcd) /\ todo[c] \in {expanderReset, <<>>}
  \/ Fit(lcd) /\ \E s : Sending(c, s) /\ \E j \in 0 .. 6 * Len(s) : Sent(c, s, j)

Undisturbed ==
  clean => \E c \in Contexts :
    Working(c) /\ \A d \in Contexts \ {c} : Untouched(d)

(* What the bus has to write is typed, and nothing outside an operation.   *)
BusFits ==
  /\ lcd \in Display /\ Whole(lcd)
  /\ todo \in [Contexts -> Seq(Lines)]
  /\ \A c \in Contexts : Idle(c) => todo[c] = <<>>
  /\ buf \in [Users -> Buffers \union {<<>>}]
  /\ \A u \in Users : Len(buf[u]) <= Line + 1
  /\ greeted \in 0 .. Len(Greeting)
  /\ call["driver"] = "greet" => greeted > 0
  /\ lost \in 0 .. MaxLost
  /\ backlight \in BOOLEAN /\ clean \in BOOLEAN

DInv == BusFits /\ Undisturbed

-----------------------------------------------------------------------------
(* What the display makes of its bytes                                     *)

USE LineAssumption

SameLines(e, d) == e.half = d.half /\ e.pins = d.pins
SameModes(e, d) ==
  e.on = d.on /\ e.left = d.left /\ e.twoLines = d.twoLines /\ e.autoshift = d.autoshift
SameText(e, d) == e.ram = d.ram /\ e.ac = d.ac

(* One component of the display changes, the others do not.                *)
LEMMA Addressed ==
  ASSUME NEW d \in Display, NEW a \in Cells \union {CGRAM}, NEW e, e = [d EXCEPT !.ac = a]
  PROVE  /\ e \in Display /\ SameLines(e, d) /\ SameModes(e, d) /\ e.bits = d.bits
         /\ e.ac = a /\ e.ram = d.ram
BY ZenonT(60) DEF Display, SameLines, SameModes

LEMMA Shifted ==
  ASSUME NEW d \in Display, NEW n \in 0 .. Line - 1, NEW e, e = [d EXCEPT !.shift = n]
  PROVE  /\ e \in Display /\ SameLines(e, d) /\ SameModes(e, d) /\ e.bits = d.bits
         /\ SameText(e, d)
BY DEF Display, SameLines, SameModes, SameText

Memories == [Cells -> 0 .. 255]

LEMMA Stored ==
  ASSUME NEW d \in Display, NEW r \in Memories, NEW e, e = [d EXCEPT !.ram = r]
  PROVE  /\ e \in Display /\ SameLines(e, d) /\ SameModes(e, d) /\ e.bits = d.bits
         /\ e.ac = d.ac /\ e.ram = r
BY DEF Display, SameLines, SameModes, Memories

LEMMA Halved ==
  ASSUME NEW d \in Display, NEW h \in {<<>>} \union {<<n>> : n \in Latched},
         NEW e, e = [d EXCEPT !.half = h]
  PROVE  /\ e \in Display /\ e.pins = d.pins /\ SameModes(e, d) /\ e.bits = d.bits
         /\ SameText(e, d) /\ e.half = h
BY ZenonT(60) DEF Display, SameModes, SameText

LEMMA Switched ==
  ASSUME NEW d \in Display, NEW x \in BOOLEAN, NEW e, e = [d EXCEPT !.on = x]
  PROVE  /\ e \in Display /\ SameLines(e, d) /\ e.bits = d.bits
         /\ e.on = x /\ e.left = d.left /\ e.twoLines = d.twoLines
         /\ e.autoshift = d.autoshift
BY DEF Display, SameLines

LEMMA Directed ==
  ASSUME NEW d \in Display, NEW x \in BOOLEAN, NEW e, e = [d EXCEPT !.left = x]
  PROVE  /\ e \in Display /\ SameLines(e, d) /\ e.bits = d.bits
         /\ e.on = d.on /\ e.left = x /\ e.twoLines = d.twoLines
         /\ e.autoshift = d.autoshift /\ SameText(e, d)
BY DEF Display, SameLines, SameText

LEMMA Coupled ==
  ASSUME NEW d \in Display, NEW x \in BOOLEAN, NEW e, e = [d EXCEPT !.autoshift = x]
  PROVE  /\ e \in Display /\ SameLines(e, d) /\ e.bits = d.bits
         /\ e.on = d.on /\ e.left = d.left /\ e.twoLines = d.twoLines
         /\ e.autoshift = x
BY ZenonT(60) DEF Display, SameLines

LEMMA Divided ==
  ASSUME NEW d \in Display, NEW x \in BOOLEAN, NEW e, e = [d EXCEPT !.twoLines = x]
  PROVE  /\ e \in Display /\ SameLines(e, d) /\ e.bits = d.bits
         /\ e.on = d.on /\ e.left = d.left /\ e.twoLines = x
         /\ e.autoshift = d.autoshift
BY DEF Display, SameLines

LEMMA Widened ==
  ASSUME NEW d \in Display, NEW w \in {4, 8}, NEW e, e = [d EXCEPT !.bits = w]
  PROVE  e \in Display /\ SameLines(e, d) /\ SameModes(e, d) /\ e.bits = w
BY DEF Display, SameLines, SameModes

(* Home and clear change the text and the window, and no lines.            *)
LEMMA HomedTyped ==
  ASSUME NEW d \in Display
  PROVE  /\ Homed(d) \in Display /\ SameLines(Homed(d), d) /\ SameModes(Homed(d), d)
         /\ Homed(d).bits = d.bits
         /\ Cleared(d) \in Display /\ SameLines(Cleared(d), d)
         /\ Cleared(d).bits = d.bits /\ Cleared(d).on = d.on /\ Cleared(d).left
         /\ Cleared(d).twoLines = d.twoLines /\ Cleared(d).autoshift = d.autoshift
         /\ Cleared(d).ram = [c \in Cells |-> Blank] /\ Cleared(d).ac = 0
<1> DEFINE blank == [c \in Cells |-> Blank]
           a == [d EXCEPT !.ac = 0]
           h == [a EXCEPT !.shift = 0]
           r == [h EXCEPT !.ram = blank]
<1>1. 0 \in Cells /\ 0 \in 0 .. Line - 1 /\ blank \in Memories
  BY DEF Cells, Blank, Memories
<1>2. a = [d EXCEPT !.ac = 0]
  OBVIOUS
<1>3. h = [a EXCEPT !.shift = 0] /\ Homed(d) = h
  BY DEF Homed
<1>4. r = [h EXCEPT !.ram = blank]
  OBVIOUS
<1>5. Cleared(d) = [r EXCEPT !.left = TRUE]
  BY DEF Homed, Cleared
<1> HIDE DEF a, h, r, blank
<1>6. /\ a \in Display /\ SameLines(a, d) /\ SameModes(a, d) /\ a.bits = d.bits
      /\ a.ac = 0 /\ a.ram = d.ram
  BY <1>1, <1>2, Addressed
<1>7. /\ h \in Display /\ SameLines(h, a) /\ SameModes(h, a) /\ h.bits = a.bits
      /\ SameText(h, a)
  BY <1>1, <1>3, <1>6, Shifted
<1>8. /\ r \in Display /\ SameLines(r, h) /\ SameModes(r, h) /\ r.bits = h.bits
      /\ r.ac = h.ac /\ r.ram = blank
  BY <1>1, <1>4, <1>7, Stored
<1>9. /\ Cleared(d) \in Display /\ SameLines(Cleared(d), r)
      /\ Cleared(d).bits = r.bits /\ Cleared(d).on = r.on /\ Cleared(d).left = TRUE
      /\ Cleared(d).twoLines = r.twoLines /\ Cleared(d).autoshift = r.autoshift
      /\ SameText(Cleared(d), r)
  BY <1>5, <1>8, Directed
<1>10. /\ Homed(d) \in Display /\ SameLines(Homed(d), d) /\ SameModes(Homed(d), d)
       /\ Homed(d).bits = d.bits
  BY <1>3, <1>6, <1>7 DEF SameLines, SameModes
<1> QED BY <1>6, <1>7, <1>8, <1>9, <1>10 DEF SameLines, SameModes, SameText, blank

(* So do the steps of cursor and window, the text aside.                   *)
LEMMA MovedTyped ==
  ASSUME NEW d \in Display, NEW n \in {-1, 1}, NEW right \in BOOLEAN
  PROVE  /\ Moved(d, n) \in Display /\ SameLines(Moved(d, n), d) /\ SameModes(Moved(d, n), d)
         /\ Moved(d, n).bits = d.bits /\ SameText(Moved(d, n), d)
         /\ Stepped(d, right) \in Display /\ SameLines(Stepped(d, right), d)
         /\ SameModes(Stepped(d, right), d) /\ Stepped(d, right).bits = d.bits
         /\ Stepped(d, right).ram = d.ram
         /\ right /\ d.ac # CGRAM => Stepped(d, right).ac = (d.ac + 1) % (2 * Line)
<1> DEFINE a == (d.shift + n) % Line
           b == (d.ac + (IF right THEN 1 ELSE -1)) % (2 * Line)
<1>1. Line \in Nat /\ Line > 0 /\ d.shift \in Int /\ d.ac \in Int /\ 2 * Line \in Nat
  BY DEF Display, Cells, CGRAM
<1>2. a \in 0 .. Line - 1
  BY <1>1
<1>3. b \in Cells
  BY <1>1 DEF Cells
<1>4. right => b = (d.ac + 1) % (2 * Line)
  OBVIOUS
<1>5. Moved(d, n) = [d EXCEPT !.shift = a]
  BY DEF Moved
<1>6. Stepped(d, right) = IF d.ac = CGRAM THEN d ELSE [d EXCEPT !.ac = b]
  BY DEF Stepped
<1> HIDE DEF a, b
<1>7. /\ Moved(d, n) \in Display /\ SameLines(Moved(d, n), d) /\ SameModes(Moved(d, n), d)
      /\ Moved(d, n).bits = d.bits /\ SameText(Moved(d, n), d)
  BY <1>2, <1>5, Shifted
<1>8. CASE d.ac = CGRAM
  BY <1>6, <1>7, <1>8 DEF SameLines, SameModes
<1>9. CASE d.ac # CGRAM
  <2>1. Stepped(d, right) = [d EXCEPT !.ac = b]
    BY <1>6, <1>9
  <2>2. /\ Stepped(d, right) \in Display /\ SameLines(Stepped(d, right), d)
        /\ SameModes(Stepped(d, right), d) /\ Stepped(d, right).bits = d.bits
        /\ Stepped(d, right).ram = d.ram /\ Stepped(d, right).ac = b
    BY <1>3, <2>1, Addressed
  <2> QED BY <1>4, <1>7, <2>2
<1> QED BY <1>8, <1>9

LEMMA BitOf == ASSUME NEW v \in Nat, NEW b \in {1, 2, 4, 8, 16} PROVE Odd(v, b) \in BOOLEAN
BY DEF Odd

(* An address is one of a character.                                       *)
LEMMA Addresses ==
  ASSUME NEW a \in 0 .. 127
  PROVE  AtAddress(a) \subseteq Cells
<1> DEFINE row == a \div 64
           col == a % 64
<1>1. row \in {0, 1} /\ col \in Nat /\ Line \in Nat
  OBVIOUS
<1>2. AtAddress(a) = IF col < Line THEN {row * Line + col} ELSE Cells
  BY DEF AtAddress
<1> HIDE DEF row, col
<1>3. ASSUME col < Line PROVE row * Line + col \in Cells
  <2>1. CASE row = 0
    BY <1>1, <1>3, <2>1 DEF Cells
  <2>2. CASE row = 1
    BY <1>1, <1>3, <2>2 DEF Cells
  <2> QED BY <1>1, <2>1, <2>2
<1> QED BY <1>2, <1>3

Width(v) == IF Odd(v, 16) THEN 8 ELSE 4

(* An instruction changes no lines, and the width only if it is one for it.*)
LEMMA InstructedTyped ==
  ASSUME NEW d \in Display, NEW v \in 0 .. 255, NEW e \in Instructed(d, v)
  PROVE  /\ e \in Display /\ SameLines(e, d)
         /\ e.bits = IF v \in 32 .. 63 THEN Width(v) ELSE d.bits
         /\ v >= 128 \/ v = 28 \/ v = 2 => SameModes(e, d)
<1>1. CASE v >= 128
  <2>0. Instructed(d, v) = {[d EXCEPT !.ac = a] : a \in AtAddress(v % 128)}
    BY <1>1 DEF Instructed
  <2>1. PICK a \in AtAddress(v % 128) : e = [d EXCEPT !.ac = a]
    BY <2>0
  <2>2. v % 128 \in 0 .. 127
    OBVIOUS
  <2>3. a \in Cells
    BY <2>2, Addresses
  <2>4. e \in Display /\ SameLines(e, d) /\ SameModes(e, d) /\ e.bits = d.bits
    BY <2>1, <2>3, Addressed
  <2> QED BY <1>1, <2>4
<1>2. CASE v \in 64 .. 127
  <2>0. Instructed(d, v) = {[d EXCEPT !.ac = CGRAM]}
    BY <1>2 DEF Instructed
  <2>1. e = [d EXCEPT !.ac = CGRAM]
    BY <2>0
  <2>2. e \in Display /\ SameLines(e, d) /\ e.bits = d.bits
    BY <2>1, Addressed
  <2> QED BY <1>2, <2>2
<1>3. CASE v \in 32 .. 63
  <2> DEFINE wide == [d EXCEPT !.bits = Width(v)]
             two == Odd(v, 8)
  <2>0. Instructed(d, v) = {[wide EXCEPT !.twoLines = two]}
    BY <1>3 DEF Instructed, Width
  <2>1. e = [wide EXCEPT !.twoLines = two]
    BY <2>0
  <2>2. Width(v) \in {4, 8} /\ two \in BOOLEAN
    BY BitOf DEF Width
  <2>3. wide = [d EXCEPT !.bits = Width(v)]
    OBVIOUS
  <2> HIDE DEF wide, two
  <2>4. wide \in Display /\ SameLines(wide, d) /\ wide.bits = Width(v)
    BY <2>2, <2>3, Widened
  <2>5. e \in Display /\ SameLines(e, wide) /\ e.bits = wide.bits
    BY <2>1, <2>2, <2>4, Divided
  <2> QED BY <1>3, <2>4, <2>5 DEF SameLines
<1>4. CASE v \in 16 .. 31
  <2> DEFINE n == IF Odd(v, 4) THEN 1 ELSE -1
             right == Odd(v, 4)
  <2>0. Instructed(d, v) = {IF Odd(v, 8) THEN Moved(d, n) ELSE Stepped(d, right)}
    BY <1>4 DEF Instructed
  <2>1. e = IF Odd(v, 8) THEN Moved(d, n) ELSE Stepped(d, right)
    BY <2>0
  <2>2. n \in {-1, 1} /\ right \in BOOLEAN
    BY BitOf
  <2> HIDE DEF n, right
  <2>3. /\ e \in Display /\ SameLines(e, d) /\ e.bits = d.bits /\ SameModes(e, d)
    BY <2>1, <2>2, MovedTyped
  <2> QED BY <1>4, <2>3
<1>5. CASE v \in 8 .. 15
  <2>0. Instructed(d, v) = {[d EXCEPT !.on = Odd(v, 4)]}
    BY <1>5 DEF Instructed
  <2>1. e = [d EXCEPT !.on = Odd(v, 4)]
    BY <2>0
  <2>2. Odd(v, 4) \in BOOLEAN
    BY BitOf
  <2>3. e \in Display /\ SameLines(e, d) /\ e.bits = d.bits
    BY <2>1, <2>2, Switched
  <2> QED BY <1>5, <2>3
<1>6. CASE v \in 4 .. 7
  <2> DEFINE l == [d EXCEPT !.left = Odd(v, 2)]
  <2>0. Instructed(d, v) = {[l EXCEPT !.autoshift = Odd(v, 1)]}
    BY <1>6 DEF Instructed
  <2>1. e = [l EXCEPT !.autoshift = Odd(v, 1)]
    BY <2>0
  <2>2. Odd(v, 2) \in BOOLEAN /\ Odd(v, 1) \in BOOLEAN
    BY BitOf
  <2>3. l = [d EXCEPT !.left = Odd(v, 2)]
    OBVIOUS
  <2> HIDE DEF l
  <2>4. l \in Display /\ SameLines(l, d) /\ l.bits = d.bits
    BY <2>2, <2>3, Directed
  <2>5. e \in Display /\ SameLines(e, l) /\ e.bits = l.bits
    BY <2>1, <2>2, <2>4, Coupled
  <2> QED BY <1>6, <2>4, <2>5 DEF SameLines
<1>7. CASE v \in 2 .. 3
  <2>1. e = Homed(d)
    BY <1>7 DEF Instructed
  <2> QED BY <1>7, <2>1, HomedTyped
<1>8. CASE v = 1
  <2>1. e = Cleared(d)
    BY <1>8 DEF Instructed
  <2> QED BY <1>8, <2>1, HomedTyped
<1>9. CASE v = 0
  <2>1. e = d
    BY <1>9 DEF Instructed
  <2> QED BY <1>9, <2>1 DEF SameLines
<1> QED BY <1>1, <1>2, <1>3, <1>4, <1>5, <1>6, <1>7, <1>8, <1>9

(* Clear leaves blanks, and writes from left to right.                     *)
LEMMA ClearedModes ==
  ASSUME NEW d \in Display, NEW e \in Instructed(d, 1)
  PROVE  /\ e.on = d.on /\ e.left /\ e.twoLines = d.twoLines /\ e.autoshift = d.autoshift
         /\ e.ram = [c \in Cells |-> Blank] /\ e.ac = 0
<1>1. e = Cleared(d)
  BY DEF Instructed
<1> QED BY <1>1, HomedTyped

(* A character goes where the address counter is, which moves on.          *)
LEMMA WroteTyped ==
  ASSUME NEW d \in Display, NEW v \in 0 .. 255
  PROVE  /\ Wrote(d, v) \in Display /\ SameLines(Wrote(d, v), d)
         /\ SameModes(Wrote(d, v), d) /\ Wrote(d, v).bits = d.bits
         /\ d.ac \in Cells /\ d.left /\ ~d.autoshift =>
              /\ Wrote(d, v).ram = [d.ram EXCEPT ![d.ac] = v]
              /\ Wrote(d, v).ac = (d.ac + 1) % (2 * Line)
<1> DEFINE w == IF d.ac = CGRAM THEN d ELSE [d EXCEPT !.ram = [d.ram EXCEPT ![d.ac] = v]]
           s == Stepped(w, d.left)
           n == IF d.left THEN -1 ELSE 1
<1>1. Wrote(d, v) = IF d.autoshift /\ d.ac # CGRAM THEN Moved(s, n) ELSE s
  BY DEF Wrote
<1>2. d.left \in BOOLEAN /\ n \in {-1, 1} /\ CGRAM \notin Cells
  BY DEF Display, CGRAM, Cells
<1>3. /\ w \in Display /\ SameLines(w, d) /\ SameModes(w, d) /\ w.bits = d.bits
      /\ w.ac = d.ac /\ (d.ac # CGRAM => w.ram = [d.ram EXCEPT ![d.ac] = v])
  <2> DEFINE r == [d.ram EXCEPT ![d.ac] = v]
  <2>1. r \in Memories
    BY DEF Display, Memories
  <2>2. w = IF d.ac = CGRAM THEN d ELSE [d EXCEPT !.ram = r]
    OBVIOUS
  <2> HIDE DEF r, w
  <2>3. CASE d.ac = CGRAM
    BY <2>2, <2>3 DEF SameLines, SameModes
  <2>4. CASE d.ac # CGRAM
    <3>1. w = [d EXCEPT !.ram = r]
      BY <2>2, <2>4
    <3>2. /\ w \in Display /\ SameLines(w, d) /\ SameModes(w, d) /\ w.bits = d.bits
          /\ w.ac = d.ac /\ w.ram = r
      BY <2>1, <3>1, Stored
    <3> QED BY <2>4, <3>2 DEF r
  <2> QED BY <2>3, <2>4
<1> HIDE DEF w
<1>4. /\ s \in Display /\ SameLines(s, w) /\ SameModes(s, w) /\ s.bits = w.bits
      /\ s.ram = w.ram
      /\ d.left /\ w.ac # CGRAM => s.ac = (w.ac + 1) % (2 * Line)
  BY <1>2, <1>3, MovedTyped
<1> HIDE DEF s, n
<1>5. /\ Moved(s, n) \in Display /\ SameLines(Moved(s, n), s)
      /\ SameModes(Moved(s, n), s) /\ Moved(s, n).bits = s.bits
  BY <1>2, <1>4, MovedTyped
<1>6. /\ Wrote(d, v) \in Display /\ SameLines(Wrote(d, v), s)
      /\ SameModes(Wrote(d, v), s) /\ Wrote(d, v).bits = s.bits
      /\ ~d.autoshift => Wrote(d, v) = s
  BY <1>1, <1>4, <1>5 DEF SameLines, SameModes
<1>7. /\ Wrote(d, v) \in Display /\ SameLines(Wrote(d, v), d)
      /\ SameModes(Wrote(d, v), d) /\ Wrote(d, v).bits = d.bits
  BY <1>3, <1>4, <1>6 DEF SameLines, SameModes
<1>8. ASSUME d.ac \in Cells, d.left, ~d.autoshift
      PROVE  /\ Wrote(d, v).ram = [d.ram EXCEPT ![d.ac] = v]
             /\ Wrote(d, v).ac = (d.ac + 1) % (2 * Line)
  <2>1. d.ac # CGRAM /\ w.ac = d.ac /\ w.ram = [d.ram EXCEPT ![d.ac] = v]
    BY <1>2, <1>3, <1>8
  <2>2. s.ram = w.ram /\ s.ac = (w.ac + 1) % (2 * Line) /\ Wrote(d, v) = s
    BY <1>4, <1>6, <1>8, <2>1
  <2> QED BY <2>1, <2>2
<1> QED BY <1>7, <1>8

(* A byte is executed: the lines stay, the width only changes if told to.  *)
LEMMA ExecutedTyped ==
  ASSUME NEW d \in Display, NEW rs \in BOOLEAN, NEW v \in 0 .. 255,
         NEW e \in Executed(d, rs, v)
  PROVE  /\ e \in Display /\ SameLines(e, d)
         /\ e.bits = IF ~rs /\ v \in 32 .. 63 THEN Width(v) ELSE d.bits
<1>1. CASE rs
  <2>1. e = Wrote(d, v)
    BY <1>1 DEF Executed
  <2>2. e \in Display /\ SameLines(e, d) /\ e.bits = d.bits
    BY <2>1, WroteTyped
  <2> QED BY <1>1, <2>2
<1>2. CASE ~rs
  <2>1. e \in Instructed(d, v)
    BY <1>2 DEF Executed
  <2> QED BY <1>2, <2>1, InstructedTyped
<1> QED BY <1>1, <1>2

-----------------------------------------------------------------------------
(* A nibble                                                                *)

Lit(d, p, light) == [[d EXCEPT !.pins = p] EXCEPT !.light = light]
Latch(p) == [nib |-> p.nib, rs |-> p.rs]
Empty(d) == d.half = <<>>
Unhalved(d) == [d EXCEPT !.half = <<>>]

(* The pins change, and the backlight.                                     *)
LEMMA LitTyped ==
  ASSUME NEW d \in Display, NEW p \in Lines, NEW light \in BOOLEAN
  PROVE  LET e == Lit(d, p, light)
         IN /\ e \in Display /\ e.pins = p /\ e.half = d.half /\ e.bits = d.bits
            /\ SameModes(e, d) /\ SameText(e, d)
<1> DEFINE c == [d EXCEPT !.pins = p]
           e == Lit(d, p, light)
<1>1. c = [d EXCEPT !.pins = p]
  OBVIOUS
<1>2. e = [c EXCEPT !.light = light]
  BY DEF Lit
<1> HIDE DEF c, e
<1>3. /\ c \in Display /\ c.pins = p /\ c.half = d.half /\ c.bits = d.bits
      /\ SameModes(c, d) /\ SameText(c, d)
  BY <1>1 DEF Display, SameModes, SameText
<1>4. /\ e \in Display /\ e.pins = c.pins /\ e.half = c.half /\ e.bits = c.bits
      /\ SameModes(e, c) /\ SameText(e, c)
  BY <1>2, <1>3 DEF Display, SameModes, SameText
<1> QED BY <1>3, <1>4 DEF SameModes, SameText, e

(* Ranges of what a display holds.                                         *)
LEMMA Nibbles ==
  ASSUME NEW n \in Latched
  PROVE  /\ n.nib \in 0 .. 15 /\ n.rs \in BOOLEAN
         /\ \A k \in 0 .. 15 : n.nib * 16 + k \in 0 .. 255
<1>1. n.nib \in 0 .. 15 /\ n.rs \in BOOLEAN
  BY DEF Latched, Nibble
<1>2. \A i, k \in 0 .. 15 : i * 16 + k \in 0 .. 255
  OBVIOUS
<1> QED BY <1>1, <1>2, Zenon

LEMMA Halves ==
  ASSUME NEW d \in Display
  PROVE  /\ d.bits \in {4, 8}
         /\ d.half = <<>> \/ \E h \in Latched : d.half = <<h>>
         /\ d.pins \in Lines /\ d.pins.nib \in Nibble
         /\ d.pins.rs \in BOOLEAN /\ d.pins.en \in BOOLEAN
         /\ Latch(d.pins) \in Latched
BY DEF Display, Lines, Latched, Latch

(* What the display makes of a nibble, by what it had before.              *)
LEMMA TakesEight ==
  ASSUME NEW d, NEW n, d.bits = 8, NEW e \in Taken(d, n)
  PROVE  \E low \in {0, 15} : e \in Executed(d, n.rs, n.nib * 16 + low)
<1>1. Taken(d, n) = UNION {Executed(d, n.rs, n.nib * 16 + low) : low \in {0, 15}}
  BY DEF Taken
<1> QED BY <1>1

LEMMA TakesFirst ==
  ASSUME NEW d, NEW n, d.bits = 4, d.half = <<>>, NEW e \in Taken(d, n)
  PROVE  e = [d EXCEPT !.half = <<n>>]
<1>1. Taken(d, n) = {[d EXCEPT !.half = <<n>>]}
  BY DEF Taken
<1> QED BY <1>1

LEMMA TakesSecond ==
  ASSUME NEW d, NEW n, NEW h, d.bits = 4, d.half = <<h>>, NEW e \in Taken(d, n)
  PROVE  \E rs \in {h.rs, n.rs} : e \in Executed(Unhalved(d), rs, h.nib * 16 + n.nib)
<1>1. <<h>> # <<>> /\ d.half[1] = h
  OBVIOUS
<1>2. Taken(d, n) = UNION {Executed([d EXCEPT !.half = <<>>], rs,
                                    d.half[1].nib * 16 + n.nib) :
                             rs \in {d.half[1].rs, n.rs}}
  BY <1>1 DEF Taken
<1>3. Taken(d, n) = UNION {Executed(Unhalved(d), rs, h.nib * 16 + n.nib) :
                             rs \in {h.rs, n.rs}}
  BY <1>1, <1>2 DEF Unhalved
<1> QED BY <1>3

(* The waiting half is gone once it is used.                               *)
LEMMA UnhalvedTyped ==
  ASSUME NEW d \in Display
  PROVE  /\ Unhalved(d) \in Display /\ Unhalved(d).pins = d.pins
         /\ Unhalved(d).bits = d.bits /\ Empty(Unhalved(d))
         /\ SameModes(Unhalved(d), d) /\ SameText(Unhalved(d), d)
<1>1. Unhalved(d) = [d EXCEPT !.half = <<>>]
  BY DEF Unhalved
<1> QED BY <1>1, Halved DEF Empty

LEMMA SecondTyped ==
  ASSUME NEW u \in Display, Empty(u), NEW rs \in BOOLEAN, NEW v \in 0 .. 255,
         NEW e \in Executed(u, rs, v)
  PROVE  e \in Display /\ Whole(e) /\ e.pins = u.pins
<1>1. e \in Display /\ SameLines(e, u)
  BY ExecutedTyped
<1> QED BY <1>1 DEF Whole, Empty, SameLines

(* A display never has half of a byte behind 8 data lines.                 *)
LEMMA TakenTyped ==
  ASSUME NEW d \in Display, Whole(d), NEW n \in Latched, NEW e \in Taken(d, n)
  PROVE  e \in Display /\ Whole(e) /\ e.pins = d.pins
<1>1. CASE d.bits = 8
  <2>1. PICK low \in {0, 15} : e \in Executed(d, n.rs, n.nib * 16 + low)
    BY <1>1, TakesEight
  <2>2. n.rs \in BOOLEAN /\ n.nib * 16 + low \in 0 .. 255
    <3>1. low \in 0 .. 15
      OBVIOUS
    <3> QED BY <3>1, Nibbles, Zenon
  <2>3. e \in Display /\ SameLines(e, d)
    BY <2>1, <2>2, ExecutedTyped, SMTT(40)
  <2> QED BY <1>1, <2>3 DEF Whole, SameLines
<1>2. CASE d.bits = 4 /\ d.half = <<>>
  <2>1. e = [d EXCEPT !.half = <<n>>]
    BY <1>2, TakesFirst
  <2>2. e \in Display /\ e.pins = d.pins /\ e.bits = d.bits
    BY <2>1, Halved
  <2> QED BY <1>2, <2>2 DEF Whole
<1>3. ASSUME d.bits = 4, NEW h \in Latched, d.half = <<h>>
      PROVE  e \in Display /\ Whole(e) /\ e.pins = d.pins
  <2>1. PICK rs \in {h.rs, n.rs} : e \in Executed(Unhalved(d), rs, h.nib * 16 + n.nib)
    BY <1>3, TakesSecond
  <2>2. rs \in BOOLEAN /\ h.nib * 16 + n.nib \in 0 .. 255
    BY Nibbles
  <2>3. Unhalved(d) \in Display /\ Empty(Unhalved(d)) /\ Unhalved(d).pins = d.pins
    BY UnhalvedTyped
  <2>4. \A v \in 0 .. 255 : \A x \in Executed(Unhalved(d), rs, v) :
          x \in Display /\ Whole(x) /\ x.pins = Unhalved(d).pins
    BY <2>2, <2>3, SecondTyped, ZenonT(60)
  <2> QED BY <2>1, <2>2, <2>3, <2>4
<1> QED BY <1>1, <1>2, <1>3, Halves

(* The nibble is taken when En falls, and only then.                       *)
LEMMA Steady ==
  ASSUME NEW d, NEW p, NEW light, ~(d.pins.en /\ ~p.en), NEW e \in Received(d, p, light)
  PROVE  e = Lit(d, p, light)
<1>1. Received(d, p, light) = {Lit(d, p, light)}
  BY DEF Received, Lit
<1> QED BY <1>1

LEMMA Falls ==
  ASSUME NEW d, NEW p, NEW light, d.pins.en, ~p.en, NEW e \in Received(d, p, light)
  PROVE  \E q \in {d.pins, p} : e \in Taken(Lit(d, p, light), Latch(q))
<1>1. Received(d, p, light) =
        UNION {Taken(Lit(d, p, light), n) : n \in {Latch(q) : q \in {d.pins, p}}}
  BY DEF Received, Lit, Latch
<1> QED BY <1>1

LEMMA LatchTyped == ASSUME NEW p \in Lines PROVE Latch(p) \in Latched
BY DEF Lines, Latched, Latch

(* A display stays one, whatever byte it receives.                         *)
LEMMA ReceivedTyped ==
  ASSUME NEW d \in Display, Whole(d), NEW p \in Lines, NEW light \in BOOLEAN,
         NEW e \in Received(d, p, light)
  PROVE  e \in Display /\ Whole(e) /\ e.pins = p
<1> DEFINE c == Lit(d, p, light)
<1>1. c \in Display /\ c.pins = p /\ Whole(c)
  BY LitTyped DEF Whole
<1>2. CASE d.pins.en /\ ~p.en
  <2>1. PICK q \in {d.pins, p} : e \in Taken(c, Latch(q))
    BY <1>2, Falls
  <2>2. Latch(q) \in Latched
    BY Halves, LatchTyped
  <2> HIDE DEF c
  <2>3. e \in Display /\ Whole(e) /\ e.pins = c.pins
    BY <1>1, <2>1, <2>2, TakenTyped
  <2> QED BY <1>1, <2>3
<1>3. CASE ~(d.pins.en /\ ~p.en)
  <2>1. e = c
    BY <1>3, Steady
  <2> QED BY <1>1, <2>1
<1> QED BY <1>2, <1>3

-----------------------------------------------------------------------------
(* The six bytes of a send                                                 *)

SendPins(s, r) == [nib |-> IF r < 3 THEN s.v \div 16 ELSE s.v % 16,
                   rs |-> s.mode, en |-> r \in {1, 4}]

(* A byte is its two nibbles.                                              *)
LEMMA Digits ==
  ASSUME NEW v \in 0 .. 255
  PROVE  /\ v \div 16 \in 0 .. 15 /\ v % 16 \in 0 .. 15
         /\ (v \div 16) * 16 + (v % 16) = v
<1>1. v \div 16 \in 0 .. 15
  OBVIOUS
<1>2. v % 16 \in 0 .. 15
  OBVIOUS
<1>3. (v \div 16) * 16 + (v % 16) = v
  OBVIOUS
<1> QED BY <1>1, <1>2, <1>3

LEMMA SendNibbles ==
  ASSUME NEW s \in Sends
  PROVE  /\ s.v \in 0 .. 255 /\ s.mode \in BOOLEAN
         /\ s.v \div 16 \in 0 .. 15 /\ s.v % 16 \in 0 .. 15
         /\ (s.v \div 16) * 16 + (s.v % 16) = s.v
         /\ High(s) \in Latched /\ Low(s) \in Latched
         /\ \A r \in 0 .. 5 : SendPins(s, r) \in Lines
<1>1. s.v \in 0 .. 255 /\ s.mode \in BOOLEAN
  BY DEF Sends
<1>2. /\ s.v \div 16 \in 0 .. 15 /\ s.v % 16 \in 0 .. 15
      /\ (s.v \div 16) * 16 + (s.v % 16) = s.v
  BY <1>1, Digits
<1>3. High(s) \in Latched /\ Low(s) \in Latched
  BY <1>1, <1>2 DEF High, Low, Latched, Nibble
<1>4. \A r \in 0 .. 5 : SendPins(s, r) \in Lines
  BY <1>1, <1>2 DEF SendPins, Lines, Nibble
<1> QED BY <1>1, <1>2, <1>3, <1>4

(* The pins after each of the six bytes that send s.                       *)
LEMMA Pins ==
  ASSUME NEW s, NEW r \in 0 .. 5
  PROVE  /\ SendPins(s, r).nib = IF r < 3 THEN High(s).nib ELSE Low(s).nib
         /\ SendPins(s, r).rs = s.mode
         /\ SendPins(s, r).en = (r \in {1, 4})
         /\ Latch(SendPins(s, r)) = IF r < 3 THEN High(s) ELSE Low(s)
         /\ High(s).rs = s.mode /\ Low(s).rs = s.mode
         /\ High(s).nib = s.v \div 16 /\ Low(s).nib = s.v % 16
BY DEF SendPins, High, Low, Latch

LEMMA PinsEnable ==
  ASSUME NEW s, NEW r \in 0 .. 5
  PROVE  /\ r \in {1, 4} => SendPins(s, r).en = TRUE
         /\ r \notin {1, 4} => SendPins(s, r).en = FALSE
<1>1. SendPins(s, r).en = (r \in {1, 4})
  BY DEF SendPins
<1>2. CASE r \in {1, 4}
  <2>1. (r \in {1, 4}) = TRUE
    BY <1>2
  <2>2. SendPins(s, r).en = TRUE
    BY <1>1, <2>1, Zenon
  <2> QED BY <1>2, <2>2
<1>3. CASE r \notin {1, 4}
  <2>1. (r \in {1, 4}) = FALSE
    BY <1>3
  <2>2. SendPins(s, r).en = FALSE
    BY <1>1, <2>1, Zenon
  <2> QED BY <1>3, <2>2
<1> QED BY <1>2, <1>3

(* What the controller may take when En falls is the nibble on both sides. *)
LEMMA SameLatch ==
  ASSUME NEW d, NEW p, d.pins.nib = p.nib, d.pins.rs = p.rs, NEW q \in {d.pins, p}
  PROVE  Latch(q) = Latch(p)
BY DEF Latch

(* Nothing but the pins change while En does not fall.                     *)
LEMMA SteadyStep ==
  ASSUME NEW d \in Display, NEW p \in Lines, NEW light \in BOOLEAN,
         ~(d.pins.en /\ ~p.en), NEW e \in Received(d, p, light)
  PROVE  /\ e \in Display /\ e.pins = p /\ e.half = d.half /\ e.bits = d.bits
         /\ SameModes(e, d) /\ SameText(e, d)
<1>1. e = Lit(d, p, light)
  BY Steady
<1> QED BY <1>1, LitTyped

(* En falls over a first nibble.                                           *)
LEMMA FirstNibble ==
  ASSUME NEW d \in Display, NEW p \in Lines, NEW light \in BOOLEAN, d.bits = 4,
         Empty(d), d.pins.en, ~p.en, d.pins.nib = p.nib, d.pins.rs = p.rs,
         NEW e \in Received(d, p, light)
  PROVE  /\ e \in Display /\ e.pins = p /\ e.half = <<Latch(p)>> /\ e.bits = 4
         /\ SameModes(e, d) /\ SameText(e, d)
<1> DEFINE c == Lit(d, p, light)
<1>1. /\ c \in Display /\ c.pins = p /\ c.half = d.half /\ c.bits = d.bits
      /\ SameModes(c, d) /\ SameText(c, d)
  BY LitTyped
<1>2. PICK q \in {d.pins, p} : e \in Taken(c, Latch(q))
  BY Falls
<1>3. Latch(q) = Latch(p) /\ Latch(p) \in Latched
  BY SameLatch, LatchTyped
<1> HIDE DEF c
<1>4. c.bits = 4 /\ c.half = <<>> /\ e \in Taken(c, Latch(p))
  BY <1>1, <1>2, <1>3 DEF Empty
<1>5. e = [c EXCEPT !.half = <<Latch(p)>>]
  BY <1>4, TakesFirst
<1>6. <<Latch(p)>> \in {<<>>} \union {<<n>> : n \in Latched}
  BY <1>3
<1>7. /\ e \in Display /\ e.pins = c.pins /\ SameModes(e, c) /\ e.bits = c.bits
      /\ SameText(e, c) /\ e.half = <<Latch(p)>>
  BY <1>1, <1>5, <1>6, Halved
<1> QED BY <1>1, <1>7 DEF SameModes, SameText

(* En falls over a second nibble.                                          *)
LEMMA SecondNibble ==
  ASSUME NEW d \in Display, NEW p \in Lines, NEW light \in BOOLEAN, d.bits = 4,
         NEW h \in Latched, d.half = <<h>>, d.pins.en, ~p.en, h.rs = p.rs,
         d.pins.nib = p.nib, d.pins.rs = p.rs, NEW e \in Received(d, p, light)
  PROVE  \E c \in Display :
           /\ Empty(c) /\ c.bits = 4 /\ c.pins = p /\ SameModes(c, d) /\ SameText(c, d)
           /\ e \in Executed(c, p.rs, h.nib * 16 + p.nib)
<1> DEFINE c == Lit(d, p, light)
<1>1. /\ c \in Display /\ c.pins = p /\ c.half = d.half /\ c.bits = d.bits
      /\ SameModes(c, d) /\ SameText(c, d)
  BY LitTyped
<1>2. PICK q \in {d.pins, p} : e \in Taken(c, Latch(q))
  BY Falls
<1>3. Latch(q) = Latch(p) /\ Latch(p).rs = p.rs /\ Latch(p).nib = p.nib
  BY SameLatch DEF Latch
<1> HIDE DEF c
<1>4. c.bits = 4 /\ c.half = <<h>> /\ e \in Taken(c, Latch(p))
  BY <1>1, <1>2, <1>3
<1>5. e \in Executed(Unhalved(c), p.rs, h.nib * 16 + p.nib)
  BY <1>3, <1>4, TakesSecond
<1>6. /\ Unhalved(c) \in Display /\ Unhalved(c).pins = c.pins /\ Empty(Unhalved(c))
      /\ Unhalved(c).bits = c.bits /\ SameModes(Unhalved(c), c) /\ SameText(Unhalved(c), c)
  BY <1>1, UnhalvedTyped
<1>7. /\ Unhalved(c).bits = 4 /\ Unhalved(c).pins = p
      /\ SameModes(Unhalved(c), d) /\ SameText(Unhalved(c), d)
  BY <1>1, <1>6 DEF SameModes, SameText
<1> QED BY <1>5, <1>6, <1>7

(* The first five bytes bring the nibbles to the display, the sixth makes  *)
(* it execute what was sent.                                               *)
LEMMA SendStep ==
  ASSUME NEW d \in Display, NEW s \in Sends, NEW r \in 0 .. 4, AtByte(d, s, r),
         NEW light \in BOOLEAN, NEW e \in Received(d, SendPins(s, r), light)
  PROVE  AtByte(e, s, r + 1) /\ SameModes(e, d) /\ SameText(e, d)
<1> DEFINE p == SendPins(s, r)
<1>0. r \in 0 .. 5
  OBVIOUS
<1>5. p \in Lines
  BY <1>0, SendNibbles
<1>6. Latch(p) = IF r < 3 THEN High(s) ELSE Low(s)
  BY <1>0, Pins
<1>7. /\ p.nib = IF r < 3 THEN High(s).nib ELSE Low(s).nib
      /\ p.rs = s.mode /\ p.en = (r \in {1, 4})
  BY <1>0, Pins
<1>8. r \notin {1, 4} => p.en = FALSE
  BY <1>0, PinsEnable
<1>1. /\ p.nib = IF r < 3 THEN High(s).nib ELSE Low(s).nib
      /\ p.rs = s.mode /\ p.en = (r \in {1, 4}) /\ p \in Lines
      /\ Latch(p) = IF r < 3 THEN High(s) ELSE Low(s)
  BY <1>5, <1>6, <1>7
<1>2. e \in Received(d, p, light)
  OBVIOUS
<1> HIDE DEF p
<1>3. CASE r # 2
  <2>1. ~(d.pins.en /\ ~p.en)
    BY <1>1, <1>3 DEF AtByte
  <2>2. /\ e.pins = p /\ e.half = d.half /\ e.bits = d.bits
        /\ SameModes(e, d) /\ SameText(e, d)
    BY <1>1, <1>2, <2>1, SteadyStep
  <2>3. AtByte(e, s, r + 1)
    BY <1>1, <1>3, <2>2 DEF AtByte
  <2> QED BY <2>2, <2>3
<1>4. CASE r = 2
  <2>1. /\ d.bits = 4 /\ Empty(d) /\ d.pins.en /\ ~p.en
        /\ d.pins.nib = p.nib /\ d.pins.rs = p.rs
    <3>1. Empty(d)
      BY <1>4 DEF AtByte, Empty
    <3>2. d.bits = 4 /\ d.pins.en = TRUE
      BY <1>4 DEF AtByte
    <3>3. d.pins.nib = High(s).nib /\ d.pins.rs = s.mode
      BY <1>4 DEF AtByte
    <3>4. p.nib = High(s).nib
      BY <1>1, <1>4
    <3>5. p.rs = s.mode
      BY <1>1
    <3>6. p.en = FALSE
      BY <1>4, <1>8
    <3>7. d.pins.nib = p.nib
      BY <3>3, <3>4
    <3>8. d.pins.rs = p.rs
      BY <3>3, <3>5
    <3> QED BY <3>1, <3>2, <3>6, <3>7, <3>8
  <2>2. /\ e.pins = p /\ e.half = <<Latch(p)>> /\ e.bits = 4
        /\ SameModes(e, d) /\ SameText(e, d)
    BY <1>1, <1>2, <2>1, FirstNibble
  <2>3. AtByte(e, s, 3)
    BY <1>1, <1>4, <2>2 DEF AtByte
  <2> QED BY <1>4, <2>2, <2>3
<1> QED BY <1>3, <1>4

LEMMA SendEnds ==
  ASSUME NEW d \in Display, NEW s \in Sends, AtByte(d, s, 5),
         NEW light \in BOOLEAN, NEW e \in Received(d, SendPins(s, 5), light)
  PROVE  \E c \in Display :
           /\ Aligned(c) /\ SameModes(c, d) /\ SameText(c, d)
           /\ e \in Executed(c, s.mode, s.v)
<1> DEFINE p == SendPins(s, 5)
           h == High(s)
<1>0. p \in Lines /\ h \in Latched
  BY SendNibbles
<1>8. 5 \in 0 .. 5 /\ ~(5 < 3) /\ 5 \notin {1, 4}
  OBVIOUS
<1>9. p.nib = Low(s).nib /\ p.rs = s.mode /\ p.en = FALSE
  <2>1. SendPins(s, 5).nib = Low(s).nib
    BY <1>8, Pins
  <2>2. SendPins(s, 5).rs = s.mode
    BY <1>8, Pins
  <2>3. SendPins(s, 5).en = FALSE
    BY <1>8, PinsEnable
  <2> QED BY <2>1, <2>2, <2>3
<1>10. h.rs = s.mode /\ h.nib = s.v \div 16 /\ Low(s).nib = s.v % 16
  BY <1>8, Pins
<1>6. /\ p.nib = Low(s).nib /\ p.rs = s.mode /\ p.en = FALSE
      /\ h.rs = s.mode /\ h.nib = s.v \div 16 /\ Low(s).nib = s.v % 16
  BY <1>9, <1>10
<1>7. h.nib * 16 + p.nib = s.v
  BY <1>6, SendNibbles
<1>1. /\ p.nib = Low(s).nib /\ p.rs = s.mode /\ ~p.en /\ p \in Lines
      /\ h \in Latched /\ h.rs = s.mode /\ h.nib * 16 + p.nib = s.v
  BY <1>0, <1>6, <1>7
<1>2. e \in Received(d, p, light)
  OBVIOUS
<1>3. /\ d.bits = 4 /\ d.half = <<h>> /\ d.pins.en /\ ~p.en
      /\ d.pins.nib = p.nib /\ d.pins.rs = p.rs /\ h.rs = p.rs
  <2>1. d.bits = 4 /\ d.half = <<High(s)>>
    BY DEF AtByte
  <2>2. d.pins.en = TRUE
    BY DEF AtByte
  <2>3. d.pins.nib = Low(s).nib /\ d.pins.rs = s.mode
    BY DEF AtByte
  <2> QED BY <1>1, <2>1, <2>2, <2>3
<1> HIDE DEF p, h
<1>4. PICK c \in Display :
        /\ Empty(c) /\ c.bits = 4 /\ c.pins = p /\ SameModes(c, d) /\ SameText(c, d)
        /\ e \in Executed(c, p.rs, h.nib * 16 + p.nib)
  BY <1>1, <1>2, <1>3, SecondNibble
<1>5. Aligned(c)
  BY <1>1, <1>4 DEF Aligned, Empty
<1> QED BY <1>1, <1>4, <1>5

-----------------------------------------------------------------------------
(* The sends of an operation                                               *)

LEMMA AlignedByte ==
  ASSUME NEW d \in Display, NEW s
  PROVE  Aligned(d) <=> AtByte(d, s, 0)
<1>1. d.pins.en \in BOOLEAN
  BY Halves
<1>2. AtByte(d, s, 0) <=> d.bits = 4 /\ d.half = <<>> /\ d.pins.en = FALSE
  <2>1. /\ (0 \in {2, 5}) = FALSE
        /\ 0 \notin {1, 2} /\ 0 \notin {4, 5}
    OBVIOUS
  <2>2. AtByte(d, s, 0) <=> d.bits = 4 /\ d.half = <<>> /\ d.pins.en = (0 \in {2, 5})
    <3>1. (IF 0 < 3 THEN <<>> ELSE <<High(s)>>) = <<>>
      OBVIOUS
    <3> QED BY <2>1, <3>1, Zenon DEF AtByte
  <2> QED BY <2>1, <2>2, Zenon
<1> QED BY <1>1, <1>2 DEF Aligned

(* What leaves the interface 4 bits wide.                                  *)
Four(s) == s.mode \/ s.v \notin 32 .. 63 \/ s.v = 40

(* A send that does not set 8 data lines leaves 4.                         *)
LEMMA FourStays ==
  ASSUME NEW c \in Display, Aligned(c), NEW s \in Sends, Four(s),
         NEW e \in Executed(c, s.mode, s.v)
  PROVE  e \in Display /\ Aligned(e)
<1>1. s.mode \in BOOLEAN /\ s.v \in 0 .. 255
  BY DEF Sends
<1>2. /\ e \in Display /\ SameLines(e, c)
      /\ e.bits = IF ~s.mode /\ s.v \in 32 .. 63 THEN Width(s.v) ELSE c.bits
  BY <1>1, ExecutedTyped, SMTT(40)
<1>3. c.bits = 4 /\ c.half = <<>> /\ ~c.pins.en
  BY DEF Aligned
<1>4. Width(40) = 4
  BY DEF Width, Odd
<1>5. e.bits = 4
  BY <1>1, <1>2, <1>3, <1>4 DEF Four
<1>6. e.half = c.half /\ e.pins = c.pins
  BY <1>2 DEF SameLines
<1> QED BY <1>2, <1>3, <1>5, <1>6 DEF Aligned

(* The byte after byte j is in the same send, or the first of the next.    *)
LEMMA ByteOf ==
  ASSUME NEW j \in Nat
  PROVE  /\ j \div 6 \in Nat /\ j % 6 \in 0 .. 5 /\ j = 6 * (j \div 6) + (j % 6)
         /\ j % 6 < 5 => (j + 1) \div 6 = j \div 6 /\ (j + 1) % 6 = (j % 6) + 1
         /\ j % 6 = 5 => (j + 1) \div 6 = (j \div 6) + 1 /\ (j + 1) % 6 = 0
<1>1. j \div 6 \in Nat /\ j % 6 \in 0 .. 5 /\ j = 6 * (j \div 6) + (j % 6)
  OBVIOUS
<1>2. j % 6 < 5 => (j + 1) \div 6 = j \div 6 /\ (j + 1) % 6 = (j % 6) + 1
  <2>1. \A m \in Nat, k \in 0 .. 5 : (6 * m + k) \div 6 = m
    OBVIOUS
  <2>2. \A m \in Nat, k \in 0 .. 5 : (6 * m + k) % 6 = k
    OBVIOUS
  <2> DEFINE m == j \div 6
             r == j % 6
             i == j + 1
  <2>3. m \in Nat /\ r \in 0 .. 5 /\ i = 6 * m + (r + 1)
    BY <1>1
  <2> HIDE DEF m, r, i
  <2>4. r < 5 => r + 1 \in 0 .. 5
    BY <2>3
  <2>5. r < 5 => i \div 6 = m /\ i % 6 = r + 1
    BY <2>1, <2>2, <2>3, <2>4
  <2> QED BY <2>5 DEF m, r, i
<1>3. j % 6 = 5 => (j + 1) \div 6 = (j \div 6) + 1 /\ (j + 1) % 6 = 0
  <2>1. \A m \in Nat : (6 * m + 6) \div 6 = m + 1
    OBVIOUS
  <2>2. \A m \in Nat : (6 * m + 6) % 6 = 0
    OBVIOUS
  <2>3. j % 6 = 5 => j + 1 = 6 * (j \div 6) + 6
    BY <1>1
  <2> DEFINE m == j \div 6
             i == j + 1
  <2>4. m \in Nat /\ (j % 6 = 5 => i = 6 * m + 6)
    BY <1>1, <2>3
  <2> HIDE DEF m, i
  <2>5. j % 6 = 5 => i \div 6 = m + 1 /\ i % 6 = 0
    BY <2>1, <2>2, <2>4
  <2> QED BY <2>5 DEF m, i
<1> QED BY <1>1, <1>2, <1>3

LEMMA SendOf ==
  ASSUME NEW n \in Nat, NEW j \in 0 .. 6 * n - 1
  PROVE  j \div 6 \in 0 .. n - 1 /\ (j \div 6) + 1 \in 1 .. n
<1>1. j \in Nat
  OBVIOUS
<1>2. j \div 6 \in Nat /\ j % 6 \in 0 .. 5 /\ j = 6 * (j \div 6) + (j % 6)
  BY <1>1, ByteOf
<1> QED BY <1>2

(* One byte of an operation: the display has the next one in hand.         *)
LEMMA WithinStep ==
  ASSUME NEW d \in Display, NEW s \in Seq(Sends), \A k \in 1 .. Len(s) : Four(s[k]),
         NEW j \in 0 .. 6 * Len(s) - 1, Within(d, s, j), NEW light \in BOOLEAN,
         NEW e \in Received(d, SendPins(s[(j \div 6) + 1], j % 6), light)
  PROVE  /\ e \in Display /\ Within(e, s, j + 1)
         /\ j % 6 < 5 => SameModes(e, d) /\ SameText(e, d)
         /\ j % 6 = 5 => \E c \in Display :
              /\ Aligned(c) /\ SameModes(c, d) /\ SameText(c, d)
              /\ e \in Executed(c, s[(j \div 6) + 1].mode, s[(j \div 6) + 1].v)
<1> DEFINE m == j \div 6
           r == j % 6
           x == s[m + 1]
<1>1. Len(s) \in Nat /\ j \in Nat /\ j # 6 * Len(s)
  OBVIOUS
<1>2. m \in 0 .. Len(s) - 1 /\ m + 1 \in 1 .. Len(s)
  BY <1>1, SendOf
<1>3. x \in Sends /\ Four(x)
  BY <1>2
<1>4. AtByte(d, x, r)
  BY <1>1 DEF Within
<1>5. /\ r \in 0 .. 5 /\ j = 6 * m + r
      /\ r < 5 => (j + 1) \div 6 = m /\ (j + 1) % 6 = r + 1
      /\ r = 5 => (j + 1) \div 6 = m + 1 /\ (j + 1) % 6 = 0
  BY <1>1, ByteOf
<1>6. e \in Received(d, SendPins(x, r), light)
  OBVIOUS
<1>7. Within(e, s, j + 1) <=> IF j + 1 = 6 * Len(s) THEN Aligned(e)
                              ELSE AtByte(e, s[((j + 1) \div 6) + 1], (j + 1) % 6)
  BY DEF Within
<1> HIDE DEF m, r, x
<1>8. SendPins(x, r) \in Lines
  BY <1>3, <1>5, SendNibbles
<1>9. CASE r < 5
  <2>1. r \in 0 .. 4
    BY <1>5, <1>9
  <2>2. AtByte(e, x, r + 1) /\ SameModes(e, d) /\ SameText(e, d)
    BY <1>3, <1>4, <1>6, <2>1, SendStep
  <2>3. j + 1 # 6 * Len(s)
    BY <1>1, <1>2, <1>5, <2>1
  <2>4. s[((j + 1) \div 6) + 1] = x /\ (j + 1) % 6 = r + 1
    BY <1>5, <1>9 DEF x
  <2>5. Within(e, s, j + 1)
    BY <1>7, <2>2, <2>3, <2>4
  <2>6. d.bits = 4
    BY <1>4 DEF AtByte
  <2>7. e \in Display
    BY <1>6, <1>8, <2>6, ReceivedTyped DEF Whole
  <2> QED BY <1>9, <2>2, <2>5, <2>7 DEF r
<1>10. CASE r = 5
  <2>1. PICK c \in Display :
          /\ Aligned(c) /\ SameModes(c, d) /\ SameText(c, d)
          /\ e \in Executed(c, x.mode, x.v)
    BY <1>3, <1>4, <1>6, <1>10, SendEnds
  <2>2. e \in Display /\ Aligned(e)
    BY <1>3, <2>1, FourStays
  <2>3. (j + 1) % 6 = 0
    BY <1>5, <1>10
  <2>4. Within(e, s, j + 1)
    BY <1>7, <2>2, <2>3, AlignedByte
  <2> QED BY <1>10, <2>1, <2>2, <2>4 DEF r, m, x
<1> QED BY <1>5, <1>9, <1>10

-----------------------------------------------------------------------------
(* What instructions make of the modes                                     *)

(* Characters, clear, scrolling and the cursor leave a display fit.        *)
LEMMA TameEnds ==
  ASSUME NEW c \in Display, Fit(c), NEW s \in Sends, Tame(s),
         NEW e \in Executed(c, s.mode, s.v)
  PROVE  Fit(e)
<1>1. s.mode \in BOOLEAN /\ s.v \in 0 .. 255
  BY DEF Sends
<1>2. ASSUME SameModes(e, c) PROVE Fit(e)
  BY <1>2 DEF SameModes, Fit
<1>3. CASE s.mode
  <2>1. e = Wrote(c, s.v)
    BY <1>3 DEF Executed
  <2> QED BY <1>1, <1>2, <2>1, WroteTyped
<1>4. CASE ~s.mode
  <2>1. e \in Instructed(c, s.v)
    BY <1>4 DEF Executed
  <2>2. s.v \in {1, 28} \union (128 .. 255)
    BY <1>4 DEF Tame
  <2>3. CASE s.v = 1
    BY <2>1, <2>3, ClearedModes DEF Fit
  <2>4. CASE s.v # 1
    BY <1>1, <1>2, <2>1, <2>2, <2>4, InstructedTyped
  <2> QED BY <2>3, <2>4
<1> QED BY <1>1, <1>3, <1>4

(* What the three kinds of settings do to the modes.                       *)
LEMMA TwoLined ==
  ASSUME NEW d \in Display, NEW e \in Instructed(d, 40)
  PROVE  e.twoLines /\ e.on = d.on /\ e.left = d.left /\ e.autoshift = d.autoshift
<1> DEFINE wide == [d EXCEPT !.bits = Width(40)]
<1>1. Odd(40, 8) = TRUE
  BY DEF Odd
<1>2. Width(40) \in {4, 8}
  BY DEF Width
<1>3. Instructed(d, 40) = {[wide EXCEPT !.twoLines = Odd(40, 8)]}
  BY DEF Instructed, Width
<1>4. wide = [d EXCEPT !.bits = Width(40)]
  OBVIOUS
<1> HIDE DEF wide
<1>5. wide \in Display /\ SameModes(wide, d)
  BY <1>2, <1>4, Widened
<1>6. e = [wide EXCEPT !.twoLines = TRUE]
  BY <1>1, <1>3
<1>7. /\ e.on = wide.on /\ e.left = wide.left /\ e.twoLines = TRUE
      /\ e.autoshift = wide.autoshift
  BY <1>5, <1>6, Divided
<1> QED BY <1>5, <1>7 DEF SameModes

LEMMA SwitchedOn ==
  ASSUME NEW d \in Display, NEW v \in {12, 14}, NEW e \in Instructed(d, v)
  PROVE  e.on /\ e.left = d.left /\ e.twoLines = d.twoLines /\ e.autoshift = d.autoshift
<1>1. Odd(v, 4) = TRUE
  BY DEF Odd
<1>2. Instructed(d, v) = {[d EXCEPT !.on = Odd(v, 4)]}
  BY DEF Instructed
<1>3. e = [d EXCEPT !.on = TRUE]
  BY <1>1, <1>2
<1>4. /\ e.on = TRUE /\ e.left = d.left /\ e.twoLines = d.twoLines
      /\ e.autoshift = d.autoshift
  BY <1>3, Switched
<1> QED BY <1>4

LEMMA LeftToRight ==
  ASSUME NEW d \in Display, NEW e \in Instructed(d, 6)
  PROVE  e.left /\ ~e.autoshift /\ e.on = d.on /\ e.twoLines = d.twoLines
<1> DEFINE l == [d EXCEPT !.left = Odd(6, 2)]
<1>1. Odd(6, 2) = TRUE /\ Odd(6, 1) = FALSE
  BY DEF Odd
<1>2. Instructed(d, 6) = {[l EXCEPT !.autoshift = Odd(6, 1)]}
  BY DEF Instructed
<1>3. l = [d EXCEPT !.left = TRUE]
  BY <1>1
<1> HIDE DEF l
<1>4. l \in Display /\ l.on = d.on /\ l.left = TRUE /\ l.twoLines = d.twoLines
  BY <1>3, Directed
<1>5. e = [l EXCEPT !.autoshift = FALSE]
  BY <1>1, <1>2
<1>6. e.on = l.on /\ e.left = l.left /\ e.twoLines = l.twoLines /\ e.autoshift = FALSE
  BY <1>4, <1>5, Coupled
<1> QED BY <1>4, <1>6

(* The six settings are what begin sends.                                  *)
LEMMA Settings ==
  /\ settings \in Seq(Sends) /\ Len(settings) = 6
  /\ \A k \in 1 .. 6 : ~settings[k].mode /\ Four(settings[k])
  /\ settings[1].v = 40 /\ settings[2].v = 12 /\ settings[3].v = 1
  /\ settings[4].v = 6 /\ settings[5].v = 2 /\ settings[6].v = 14
<1>1. command(40) \in Sends /\ command(12) \in Sends /\ command(1) \in Sends
  BY DEF command, Sends
<1>2. command(6) \in Sends /\ command(2) \in Sends /\ command(14) \in Sends
  BY DEF command, Sends
<1>3. settings = <<command(40), command(12), command(1), command(6), command(2), command(14)>>
  BY DEF settings, clear, home
<1>4. settings \in Seq(Sends) /\ Len(settings) = 6
  BY <1>1, <1>2, <1>3
<1>5. /\ settings[1] = command(40) /\ settings[2] = command(12) /\ settings[3] = command(1)
      /\ settings[4] = command(6) /\ settings[5] = command(2) /\ settings[6] = command(14)
  BY <1>3
<1>6. \A v : command(v).v = v /\ command(v).mode = FALSE
  BY DEF command
<1>7. \A k \in 1 .. 6 : settings[k].mode = FALSE /\ Four(settings[k])
  <2> TAKE k \in 1 .. 6
  <2>1. k \in {1, 2, 3, 4, 5, 6}
    OBVIOUS
  <2>2. \E v \in {40, 12, 1, 6, 2, 14} : settings[k] = command(v)
    BY <1>5, <2>1
  <2> QED BY <1>6, <2>2 DEF Four
<1> QED BY <1>4, <1>5, <1>6, <1>7

(* Each of the six settings adds what it sets.                             *)
LEMMA SettingEnds ==
  ASSUME NEW c \in Display, NEW m \in 0 .. 5, Set(c, m),
         NEW e \in Executed(c, settings[m + 1].mode, settings[m + 1].v)
  PROVE  Set(e, m + 1)
<1>1. m + 1 \in 1 .. 6 /\ m \in {0, 1, 2, 3, 4, 5}
  OBVIOUS
<1>2. e \in Instructed(c, settings[m + 1].v)
  BY <1>1, Settings DEF Executed
<1>3. CASE m = 0
  BY <1>2, <1>3, Settings, TwoLined DEF Set
<1>4. CASE m = 1
  BY <1>2, <1>4, Settings, SwitchedOn DEF Set
<1>5. CASE m = 2
  BY <1>2, <1>5, Settings, ClearedModes DEF Set
<1>6. CASE m = 3
  BY <1>2, <1>6, Settings, LeftToRight DEF Set
<1>7. CASE m = 4
  <2>1. e \in Instructed(c, 2)
    BY <1>2, <1>7, Settings
  <2>2. SameModes(e, c)
    BY <2>1, InstructedTyped
  <2> QED BY <1>7, <2>2 DEF Set, SameModes
<1>8. CASE m = 5
  BY <1>2, <1>8, Settings, SwitchedOn DEF Set
<1> QED BY <1>1, <1>3, <1>4, <1>5, <1>6, <1>7, <1>8

LEMMA SetStays ==
  ASSUME NEW d, NEW e, SameModes(e, d), NEW m, Set(d, m)
  PROVE  Set(e, m)
BY DEF SameModes, Set

-----------------------------------------------------------------------------
(* The initialisation                                                      *)

ForcePins(n, r) == [nib |-> n, rs |-> FALSE, en |-> r = 1]
Nib(n) == [nib |-> n, rs |-> FALSE]

LEMMA ForcePinned ==
  ASSUME NEW n \in {2, 3}, NEW r \in 0 .. 2
  PROVE  /\ ForcePins(n, r) \in Lines /\ ForcePins(n, r).nib = n
         /\ ForcePins(n, r).rs = FALSE /\ Latch(ForcePins(n, r)) = Nib(n)
         /\ r = 1 => ForcePins(n, r).en = TRUE
         /\ r # 1 => ForcePins(n, r).en = FALSE
<1>1. ForcePins(n, r).nib = n /\ ForcePins(n, r).rs = FALSE
  BY DEF ForcePins
<1>2. ForcePins(n, r) \in Lines
  BY DEF ForcePins, Lines, Nibble
<1>3. Latch(ForcePins(n, r)) = Nib(n)
  BY <1>1 DEF Latch, Nib
<1>4. ForcePins(n, r).en = (r = 1)
  BY DEF ForcePins
<1>5. CASE r = 1
  <2>1. (r = 1) = TRUE
    BY <1>5
  <2>2. ForcePins(n, r).en = TRUE
    BY <1>4, <2>1, Zenon
  <2> QED BY <1>1, <1>2, <1>3, <1>5, <2>2
<1>6. CASE r # 1
  <2>1. (r = 1) = FALSE
    BY <1>6
  <2>2. ForcePins(n, r).en = FALSE
    BY <1>4, <2>1, Zenon
  <2> QED BY <1>1, <1>2, <1>3, <1>6, <2>2
<1> QED BY <1>5, <1>6

LEMMA Widths ==
  /\ Width(48) = 8 /\ Width(63) = 8 /\ Width(51) = 8
  /\ Width(32) = 4 /\ Width(47) = 4
BY DEF Width, Odd

LEMMA NibbleHigh ==
  ASSUME NEW d, NEW n
  PROVE  AtNibble(d, n, 2) <=> d.pins.en = TRUE /\ d.pins.nib = n /\ ~d.pins.rs
<1>1. AtNibble(d, n, 2) <=> d.pins.en = (2 = 2) /\ (2 > 0 => d.pins.nib = n /\ ~d.pins.rs)
  BY Zenon DEF AtNibble
<1>2. 2 > 0
  OBVIOUS
<1> QED BY <1>1, <1>2, Zenon

LEMMA NibbleOff ==
  ASSUME NEW d, NEW n, NEW r, r # 2
  PROVE  /\ AtNibble(d, n, r) => d.pins.en = FALSE
         /\ d.pins.en = FALSE /\ (r = 0 \/ (d.pins.nib = n /\ ~d.pins.rs)) => AtNibble(d, n, r)
<1>1. AtNibble(d, n, r) <=> d.pins.en = (r = 2) /\ (r > 0 => d.pins.nib = n /\ ~d.pins.rs)
  BY Zenon DEF AtNibble
<1>2. (r = 2) = FALSE /\ (r = 0 => ~(r > 0))
  OBVIOUS
<1> QED BY <1>1, <1>2, Zenon

LEMMA NibbleFirst ==
  ASSUME NEW d, d.pins.en = FALSE
  PROVE  \A n : AtNibble(d, n, 0)
<1> TAKE n
<1>1. AtNibble(d, n, 0) <=> d.pins.en = (0 = 2) /\ (0 > 0 => d.pins.nib = n /\ ~d.pins.rs)
  BY Zenon DEF AtNibble
<1>2. (0 = 2) = FALSE /\ ~(0 > 0)
  OBVIOUS
<1> QED BY <1>1, <1>2, Zenon

LEMMA ExecutedAll ==
  ASSUME NEW d \in Display, NEW rs \in BOOLEAN, NEW v \in 0 .. 255,
         NEW e \in Executed(d, rs, v)
  PROVE  /\ e.half = d.half
         /\ ~rs /\ v \in 32 .. 63 => e.bits = Width(v)
<1>1. e \in Display /\ SameLines(e, d)
      /\ e.bits = IF ~rs /\ v \in 32 .. 63 THEN Width(v) ELSE d.bits
  BY ExecutedTyped
<1> QED BY <1>1 DEF SameLines

(* En falls over the m-th of the nibbles 3, 3, 3, 2.                       *)
LEMMA ForceEnds ==
  ASSUME NEW d \in Display, Whole(d), NEW m \in 0 .. 3, Forced(d, m),
         NEW n \in {2, 3}, m = 3 <=> n = 2, AtNibble(d, n, 2),
         NEW light \in BOOLEAN, NEW e \in Received(d, ForcePins(n, 2), light)
  PROVE  IF m = 3 THEN Aligned(e) ELSE Forced(e, m + 1)
<1> DEFINE p == ForcePins(n, 2)
           c == Lit(d, p, light)
           N == Nib(n)
<1>1. 2 \in 0 .. 2 /\ 2 # 1
  OBVIOUS
<1>2. p \in Lines /\ p.nib = n /\ p.rs = FALSE /\ Latch(p) = N /\ p.en = FALSE
  BY <1>1, ForcePinned
<1>3. d.pins.en = TRUE /\ d.pins.nib = n /\ ~d.pins.rs
  BY NibbleHigh
<1>4. d.pins.rs = p.rs /\ d.pins.nib = p.nib
  BY <1>2, <1>3, Halves
<1>5. N \in Latched /\ N.nib = n /\ N.rs = FALSE
  BY <1>1 DEF Nib, Latched, Nibble
<1>6. e \in Received(d, p, light)
  OBVIOUS
<1> HIDE DEF p, N
<1>7. PICK q \in {d.pins, p} : e \in Taken(c, Latch(q))
  BY <1>2, <1>3, <1>6, Falls
<1>8. e \in Taken(c, N)
  BY <1>2, <1>4, <1>7, SameLatch
<1>9. c \in Display /\ c.pins = p /\ c.half = d.half /\ c.bits = d.bits
  BY <1>2, LitTyped
<1>10. e \in Display /\ Whole(e) /\ e.pins = p
  BY <1>2, <1>6, ReceivedTyped
<1> HIDE DEF c
<1>11. ~e.pins.en
  BY <1>2, <1>10
<1>12. CASE c.bits = 8
  <2>1. PICK low \in {0, 15} : e \in Executed(c, N.rs, N.nib * 16 + low)
    BY <1>8, <1>12, TakesEight
  <2>2. e \in Executed(c, FALSE, n * 16 + low)
    BY <1>5, <2>1
  <2>3. n * 16 + low \in {32, 47, 48, 63} /\ n * 16 + low \in 0 .. 255
    BY <1>1
  <2> DEFINE v == n * 16 + low
  <2>10. v \in 32 .. 63 /\ v \in 0 .. 255
    BY <2>3
  <2>8. v \in 32 .. 63 /\ v \in 0 .. 255 /\ e \in Executed(c, FALSE, v)
    BY <2>2, <2>10, Zenon
  <2> HIDE DEF v
  <2>9. FALSE \in BOOLEAN
    OBVIOUS
  <2>4. e.half = c.half /\ e.bits = Width(v)
    BY <1>9, <2>8, <2>9, ExecutedAll, ZenonT(60)
  <2>5. Empty(e)
    BY <1>9, <1>12, <2>4 DEF Whole, Empty
  <2>6. CASE m = 3
    <3>1. n * 16 + low \in {32, 47}
      BY <2>6
    <3>2. e.bits = 4
      BY <2>4, <3>1, Widths DEF v
    <3> QED BY <1>11, <2>5, <2>6, <3>2 DEF Aligned, Empty
  <2>7. CASE m # 3
    <3>1. n * 16 + low \in {48, 63}
      BY <2>7
    <3>2. e.bits = 8
      BY <2>4, <3>1, Widths DEF v
    <3> QED BY <2>7, <3>2 DEF Forced
  <2> QED BY <2>6, <2>7
<1>13. ASSUME c.bits = 4, Empty(c)
       PROVE  IF m = 3 THEN Aligned(e) ELSE Forced(e, m + 1)
  <2>1. c.half = <<>>
    BY <1>13 DEF Empty
  <2>2. e = [c EXCEPT !.half = <<N>>]
    BY <1>8, <1>13, <2>1, TakesFirst
  <2>3. <<N>> \in {<<>>} \union {<<x>> : x \in Latched}
    BY <1>5
  <2>4. e.half = <<N>>
    BY <1>9, <2>2, <2>3, Halved
  <2>5. m \in {0, 1}
    BY <1>9, <1>13, <2>1 DEF Forced
  <2>6. n = 3
    BY <2>5
  <2>7. e.half = <<Three>>
    BY <2>4, <2>6 DEF N, Nib, Three
  <2> QED BY <2>5, <2>7 DEF Forced
<1>14. ASSUME c.bits = 4, NEW h \in Latched, c.half = <<h>>
       PROVE  IF m = 3 THEN Aligned(e) ELSE Forced(e, m + 1)
  <2>1. PICK rs \in {h.rs, N.rs} : e \in Executed(Unhalved(c), rs, h.nib * 16 + N.nib)
    BY <1>8, <1>14, TakesSecond
  <2>2. rs \in BOOLEAN /\ h.nib * 16 + N.nib \in 0 .. 255
    BY <1>5, Nibbles
  <2>3. Unhalved(c) \in Display /\ Empty(Unhalved(c)) /\ Unhalved(c).bits = 4
    BY <1>9, <1>14, UnhalvedTyped
  <2> DEFINE v == h.nib * 16 + N.nib
             u == Unhalved(c)
  <2>4. u \in Display /\ v \in 0 .. 255 /\ e \in Executed(u, rs, v) /\ u.bits = 4
    BY <2>1, <2>2, <2>3
  <2>9. u.half = <<>>
    BY <2>3 DEF Empty
  <2> HIDE DEF v, u
  <2>10. e.half = u.half /\ (~rs /\ v \in 32 .. 63 => e.bits = Width(v))
    BY <2>2, <2>4, ExecutedAll, ZenonT(60)
  <2>5. e.half = <<>>
    BY <2>9, <2>10
  <2>6. CASE m = 0
    BY <2>5, <2>6 DEF Forced
  <2>7. CASE m \in {1, 2}
    <3>1. d.bits = 4 /\ d.half = <<h>> /\ <<h>> # <<>>
      BY <1>9, <1>14
    <3>2. h = Three
      BY <2>7, <3>1 DEF Forced
    <3>3. h.nib = 3 /\ h.rs = FALSE
      BY <3>2 DEF Three
    <3>4. n = 3
      BY <2>7
    <3>5. rs = FALSE /\ v = 51
      BY <1>5, <2>1, <3>3, <3>4 DEF v
    <3>6. e.bits = Width(51)
      BY <2>10, <3>5
    <3>7. e.bits = 8
      BY <3>6, Widths
    <3> QED BY <2>7, <3>7 DEF Forced
  <2>8. CASE m = 3
    BY <1>9, <1>14, <2>8 DEF Forced
  <2> QED BY <2>6, <2>7, <2>8
<1> QED BY <1>9, <1>12, <1>13, <1>14, Halves DEF Empty

(* One byte of the four nibbles.                                           *)
LEMMA ForceStep ==
  ASSUME NEW d \in Display, Whole(d), NEW q \in 0 .. 11, Initialising(d, q),
         NEW n \in {2, 3}, q < 9 <=> n = 3, NEW light \in BOOLEAN,
         NEW e \in Received(d, ForcePins(n, q % 3), light)
  PROVE  Initialising(e, q + 1)
<1> DEFINE m == q \div 3
           r == q % 3
<1>1. /\ m \in 0 .. 3 /\ r \in 0 .. 2 /\ q = 3 * m + r
  OBVIOUS
<1>2. r < 2 => (q + 1) \div 3 = m /\ (q + 1) % 3 = r + 1 /\ (q + 1 < 9 <=> q < 9) /\ q + 1 <= 11
  OBVIOUS
<1>3. r = 2 => (q + 1) \div 3 = m + 1 /\ (q + 1) % 3 = 0 /\ (q + 1 <= 11 <=> m # 3)
  OBVIOUS
<1>4. Forced(d, m) /\ AtNibble(d, n, r)
  <2>1. ~(q < 0) /\ q \notin 12 .. 48 /\ (IF q < 9 THEN 3 ELSE 2) = n
    OBVIOUS
  <2>2. Forced(d, m) /\ AtNibble(d, IF q < 9 THEN 3 ELSE 2, r)
    BY <2>1 DEF Initialising
  <2> QED BY <2>1, <2>2
<1>5. e \in Received(d, ForcePins(n, r), light)
  OBVIOUS
<1>6. m = 3 <=> n = 2
  BY <1>1
<1>13. Initialising(e, q + 1) <=>
         \/ q + 1 \in 0 .. 11 /\ Forced(e, (q + 1) \div 3)
                              /\ AtNibble(e, IF q + 1 < 9 THEN 3 ELSE 2, (q + 1) % 3)
         \/ q + 1 = 12 /\ Set(e, (q + 1 - 12) \div 6) /\ Within(e, settings, q + 1 - 12)
  <2>1. ~(q + 1 < 0) /\ (q + 1 \in 12 .. 48 <=> q + 1 = 12)
    OBVIOUS
  <2> QED BY <2>1 DEF Initialising
<1>7. (IF q + 1 < 9 THEN 3 ELSE 2) = n \/ r = 2
  BY <1>2, <1>1
<1>8. q + 1 \in 0 .. 12
  OBVIOUS
<1> HIDE DEF m, r
<1>9. /\ ForcePins(n, r) \in Lines /\ ForcePins(n, r).nib = n
      /\ ForcePins(n, r).rs = FALSE
      /\ r = 1 => ForcePins(n, r).en = TRUE
      /\ r # 1 => ForcePins(n, r).en = FALSE
  BY <1>1, <1>6, ForcePinned
<1>10. e \in Display /\ Whole(e) /\ e.pins = ForcePins(n, r)
  BY <1>5, <1>9, ReceivedTyped
<1>11. CASE r < 2
  <2>2. d.pins.en = FALSE
    <3>1. r # 2
      BY <1>1, <1>11
    <3> QED BY <1>4, <3>1, NibbleOff, Zenon
  <2>3. e.half = d.half /\ e.bits = d.bits
    BY <1>5, <1>9, <2>2, SteadyStep
  <2>4. Forced(e, m)
    BY <1>4, <2>3 DEF Forced
  <2>5. /\ r = 1 => e.pins.en = TRUE
        /\ r # 1 => e.pins.en = FALSE
        /\ e.pins.nib = n /\ ~e.pins.rs
    BY <1>9, <1>10
  <2>7. r + 1 \in 0 .. 2 /\ (r + 1 = 2 <=> r = 1)
    BY <1>1, <1>11
  <2>6. AtNibble(e, n, r + 1)
    <3>1. CASE r = 1
      BY <2>5, <2>7, <3>1, NibbleHigh
    <3>2. CASE r # 1
      BY <2>5, <2>7, <3>2, NibbleOff
    <3> QED BY <3>1, <3>2
  <2> QED BY <1>1, <1>2, <1>7, <1>8, <1>11, <1>13, <2>4, <2>6
<1>12. CASE r = 2
  <2>1. IF m = 3 THEN Aligned(e) ELSE Forced(e, m + 1)
    BY <1>1, <1>4, <1>5, <1>6, <1>12, ForceEnds
  <2>2. e.pins.en = FALSE
    BY <1>9, <1>10, <1>12
  <2>3. CASE m = 3
    <3>1. q + 1 = 12
      BY <1>1, <1>12, <2>3
    <3>2. Set(e, 0)
      BY DEF Set
    <3>3. Within(e, settings, 0)
      BY <1>10, <2>1, <2>3, Settings, AlignedByte DEF Within
    <3>4. q + 1 - 12 = 0 /\ 0 \div 6 = 0
      BY <3>1
    <3> QED BY <1>13, <3>1, <3>2, <3>3, <3>4
  <2>4. CASE m # 3
    <3>1. \A x : AtNibble(e, x, 0)
      BY <2>2, NibbleFirst
    <3> QED BY <1>3, <1>8, <1>12, <1>13, <2>1, <2>4, <3>1
  <2> QED BY <2>3, <2>4
<1> QED BY <1>1, <1>11, <1>12

(* The settings follow.                                                    *)
LEMMA SettingStep ==
  ASSUME NEW d \in Display, NEW q \in 12 .. 47, Initialising(d, q), NEW light \in BOOLEAN,
         NEW e \in Received(d, SendPins(settings[((q - 12) \div 6) + 1], (q - 12) % 6), light)
  PROVE  Initialising(e, q + 1)
<1> DEFINE j == q - 12
           m == j \div 6
<1>1. j \in 0 .. 35 /\ j \in Nat /\ j \in 0 .. 6 * 6 - 1
  OBVIOUS
<1>2. Set(d, m) /\ Within(d, settings, j)
  <2>1. ~(q < 0) /\ q \notin 0 .. 11
    OBVIOUS
  <2> QED BY <2>1 DEF Initialising
<1>3. q + 1 - 12 = j + 1 /\ q + 1 \in 12 .. 48
  OBVIOUS
<1>4. e \in Received(d, SendPins(settings[m + 1], j % 6), light)
  OBVIOUS
<1> HIDE DEF j
<1>5. m \in 0 .. 5
  BY <1>1, SendOf
<1>6. /\ j % 6 \in 0 .. 5
      /\ j % 6 < 5 => (j + 1) \div 6 = m
      /\ j % 6 = 5 => (j + 1) \div 6 = m + 1
  BY <1>1, ByteOf
<1>7. /\ Within(e, settings, j + 1)
      /\ j % 6 < 5 => SameModes(e, d)
      /\ j % 6 = 5 => \E c \in Display :
           /\ SameModes(c, d)
           /\ e \in Executed(c, settings[m + 1].mode, settings[m + 1].v)
  BY <1>1, <1>2, <1>4, WithinStep, Settings
<1> HIDE DEF m
<1>8. Set(e, (j + 1) \div 6)
  <2>1. CASE j % 6 < 5
    BY <1>2, <1>6, <1>7, <2>1, SetStays
  <2>2. CASE j % 6 = 5
    <3>1. PICK c \in Display :
           /\ SameModes(c, d)
           /\ e \in Executed(c, settings[m + 1].mode, settings[m + 1].v)
      BY <1>7, <2>2
    <3>2. Set(c, m)
      BY <1>2, <3>1, SetStays
    <3> QED BY <1>5, <1>6, <2>2, <3>1, <3>2, SettingEnds
  <2> QED BY <1>6, <2>1, <2>2
<1> QED BY <1>3, <1>7, <1>8 DEF Initialising

-----------------------------------------------------------------------------
(* Sequences of bytes and of sends                                         *)

LEMMA FunctionIsSeq ==
  ASSUME NEW S, NEW n \in Nat, NEW f \in [1 .. n -> S]
  PROVE  f \in Seq(S) /\ Len(f) = n
<1>1. f \in Seq(S)
  BY SeqDef
<1>2. Len(f) \in Nat /\ 1 .. n = 1 .. Len(f)
  BY <1>1, LenProperties
<1> QED BY <1>1, <1>2

(* What is left of an operation gets shorter from its front.               *)
LEMMA Suffixes ==
  ASSUME NEW S, NEW s \in Seq(S), NEW j \in 0 .. Len(s)
  PROVE  /\ Suffix(s, j) \in Seq(S) /\ Suffix(s, 0) = s
         /\ j = Len(s) => Suffix(s, j) = <<>>
         /\ j < Len(s) => /\ Suffix(s, j) # <<>> /\ Head(Suffix(s, j)) = s[j + 1]
                          /\ Tail(Suffix(s, j)) = Suffix(s, j + 1)
<1>1. Len(s) \in Nat /\ j + 1 \in Int /\ \A i \in 1 .. Len(s) : s[i] \in S
  BY LenProperties
<1>2. \A i \in j + 1 .. Len(s) : s[i] \in S
  BY <1>1
<1>3. /\ SubSeq(s, j + 1, Len(s)) \in Seq(S)
      /\ Len(SubSeq(s, j + 1, Len(s))) = IF j + 1 <= Len(s) THEN Len(s) - (j + 1) + 1 ELSE 0
  BY <1>1, <1>2, SubSeqProperties
<1>4. SubSeq(s, 1, Len(s)) = s
  BY SubSeqFull
<1>5. ASSUME j = Len(s) PROVE SubSeq(s, j + 1, Len(s)) = <<>>
  BY <1>1, <1>5, SubSeqEmpty
<1>6. ASSUME j < Len(s)
      PROVE  /\ SubSeq(s, j + 1, Len(s)) # <<>>
             /\ Head(SubSeq(s, j + 1, Len(s))) = s[j + 1]
             /\ Tail(SubSeq(s, j + 1, Len(s))) = SubSeq(s, j + 1 + 1, Len(s))
  <2>1. j + 1 \in 1 .. Len(s) /\ Len(s) \in j + 1 .. Len(s)
    BY <1>1, <1>6
  <2>2. Len(SubSeq(s, j + 1, Len(s))) > 0
    BY <1>1, <1>3, <1>6
  <2>3. /\ Head(SubSeq(s, j + 1, Len(s))) = s[j + 1]
        /\ Tail(SubSeq(s, j + 1, Len(s))) = SubSeq(s, j + 1 + 1, Len(s))
    BY <2>1, HeadTailOfSubSeq, Zenon
  <2>4. SubSeq(s, j + 1, Len(s)) # <<>>
    <3>1. \A t : t = <<>> => ~(Len(t) > 0)
      OBVIOUS
    <3> QED BY <2>2, <3>1, Zenon
  <2> QED BY <2>3, <2>4, Zenon
<1>7. Suffix(s, 0) = s
  <2>1. 0 + 1 = 1
    OBVIOUS
  <2> QED BY <1>4, <2>1, Zenon DEF Suffix
<1> QED BY <1>3, <1>5, <1>6, <1>7, Zenon DEF Suffix

(* Nothing is left exactly at the end.                                     *)
LEMMA Spent ==
  ASSUME NEW S, NEW s \in Seq(S), NEW j \in 0 .. Len(s), Suffix(s, j) = <<>>
  PROVE  j = Len(s)
<1>1. j < Len(s) => Suffix(s, j) # <<>>
  BY Suffixes, Zenon
<1>2. Len(s) \in Nat /\ ~(j < Len(s))
  BY <1>1, LenProperties
<1> QED BY <1>2

LEMMA Unspent ==
  ASSUME NEW S, NEW s \in Seq(S), NEW j \in 0 .. Len(s), Suffix(s, j) # <<>>
  PROVE  j < Len(s)
<1>1. j # Len(s)
  BY Suffixes, Zenon
<1>2. Len(s) \in Nat
  BY LenProperties
<1> QED BY <1>1, <1>2

LEMMA Triple ==
  ASSUME NEW S, NEW x \in S, NEW y \in S
  PROVE  LET t == <<x, y, x>>
         IN t \in Seq(S) /\ Len(t) = 3 /\ t[1] = x /\ t[2] = y /\ t[3] = x
OBVIOUS

(* The bytes of a nibble, of a send and of a row of sends.                 *)
LEMMA Written4 ==
  ASSUME NEW n \in Nibble, NEW mode \in BOOLEAN
  PROVE  /\ write4bits(n, mode) \in Seq(Lines) /\ Len(write4bits(n, mode)) = 3
         /\ write4bits(n, mode)[1] = expander(n, mode, FALSE)
         /\ write4bits(n, mode)[2] = expander(n, mode, TRUE)
         /\ write4bits(n, mode)[3] = expander(n, mode, FALSE)
<1>1. expander(n, mode, FALSE) \in Lines /\ expander(n, mode, TRUE) \in Lines
  BY DEF expander, Lines
<1> QED BY <1>1, Triple, Zenon DEF write4bits

LEMMA SendBytes ==
  ASSUME NEW s \in Sends
  PROVE  /\ send(s) \in Seq(Lines) /\ Len(send(s)) = 6
         /\ \A r \in 0 .. 5 : send(s)[r + 1] = SendPins(s, r)
<1> DEFINE hi == s.v \div 16
           lo == s.v % 16
           a == write4bits(hi, s.mode)
           b == write4bits(lo, s.mode)
<1>1. hi \in Nibble /\ lo \in Nibble /\ s.mode \in BOOLEAN
  BY SendNibbles DEF Nibble
<1>2. send(s) = a \o b
  BY DEF send
<1>3. \A r : SendPins(s, r) = [nib |-> IF r < 3 THEN hi ELSE lo, rs |-> s.mode, en |-> r \in {1, 4}]
  BY DEF SendPins
<1> HIDE DEF hi, lo
<1>4. /\ a \in Seq(Lines) /\ Len(a) = 3
      /\ a[1] = expander(hi, s.mode, FALSE) /\ a[2] = expander(hi, s.mode, TRUE)
      /\ a[3] = expander(hi, s.mode, FALSE)
  BY <1>1, Written4
<1>5. /\ b \in Seq(Lines) /\ Len(b) = 3
      /\ b[1] = expander(lo, s.mode, FALSE) /\ b[2] = expander(lo, s.mode, TRUE)
      /\ b[3] = expander(lo, s.mode, FALSE)
  BY <1>1, Written4
<1> HIDE DEF a, b
<1>6. /\ send(s) \in Seq(Lines) /\ Len(send(s)) = 6
      /\ \A i \in 1 .. 6 : send(s)[i] = IF i <= 3 THEN a[i] ELSE b[i - 3]
  <2>1. Len(a) + Len(b) = 6
    BY <1>4, <1>5
  <2>2. /\ a \o b \in Seq(Lines) /\ Len(a \o b) = Len(a) + Len(b)
        /\ \A i \in 1 .. Len(a) + Len(b) :
             (a \o b)[i] = IF i <= Len(a) THEN a[i] ELSE b[i - Len(a)]
    BY <1>4, <1>5, ConcatProperties, Zenon
  <2> QED BY <1>2, <1>4, <2>1, <2>2, Zenon
<1>7. /\ SendPins(s, 0) = expander(hi, s.mode, FALSE)
      /\ SendPins(s, 1) = expander(hi, s.mode, TRUE)
      /\ SendPins(s, 2) = expander(hi, s.mode, FALSE)
      /\ SendPins(s, 3) = expander(lo, s.mode, FALSE)
      /\ SendPins(s, 4) = expander(lo, s.mode, TRUE)
      /\ SendPins(s, 5) = expander(lo, s.mode, FALSE)
  <2>1. /\ (0 \in {1, 4}) = FALSE /\ (1 \in {1, 4}) = TRUE /\ (2 \in {1, 4}) = FALSE
        /\ (3 \in {1, 4}) = FALSE /\ (4 \in {1, 4}) = TRUE /\ (5 \in {1, 4}) = FALSE
    OBVIOUS
  <2>2. /\ (IF 0 < 3 THEN hi ELSE lo) = hi /\ (IF 1 < 3 THEN hi ELSE lo) = hi
        /\ (IF 2 < 3 THEN hi ELSE lo) = hi /\ (IF 3 < 3 THEN hi ELSE lo) = lo
        /\ (IF 4 < 3 THEN hi ELSE lo) = lo /\ (IF 5 < 3 THEN hi ELSE lo) = lo
    OBVIOUS
  <2> QED BY <1>3, <2>1, <2>2, Zenon DEF expander
<1>8. /\ send(s)[1] = a[1] /\ send(s)[2] = a[2] /\ send(s)[3] = a[3]
      /\ send(s)[4] = b[1] /\ send(s)[5] = b[2] /\ send(s)[6] = b[3]
  BY <1>6
<1>9. \A r \in 0 .. 5 : send(s)[r + 1] = SendPins(s, r)
  <2> TAKE r \in 0 .. 5
  <2>1. r \in {0, 1, 2, 3, 4, 5}
    OBVIOUS
  <2>2. 0 + 1 = 1 /\ 1 + 1 = 2 /\ 2 + 1 = 3 /\ 3 + 1 = 4 /\ 4 + 1 = 5 /\ 5 + 1 = 6
    OBVIOUS
  <2> QED BY <1>4, <1>5, <1>7, <1>8, <2>1, <2>2, Zenon
<1> QED BY <1>6, <1>9

LEMMA BytesOf ==
  ASSUME NEW s \in Seq(Sends)
  PROVE  /\ Bytes(s) \in Seq(Lines) /\ Len(Bytes(s)) = 6 * Len(s)
         /\ \A j \in 0 .. 6 * Len(s) - 1 :
              Bytes(s)[j + 1] = SendPins(s[(j \div 6) + 1], j % 6)
<1>1. Len(s) \in Nat /\ 6 * Len(s) \in Nat /\ \A i \in 1 .. Len(s) : s[i] \in Sends
  BY LenProperties
<1>2. \A j \in 0 .. 6 * Len(s) - 1 :
        /\ send(s[(j \div 6) + 1])[(j % 6) + 1] = SendPins(s[(j \div 6) + 1], j % 6)
        /\ SendPins(s[(j \div 6) + 1], j % 6) \in Lines
  <2> TAKE j \in 0 .. 6 * Len(s) - 1
  <2>1. (j \div 6) + 1 \in 1 .. Len(s)
    BY <1>1, SendOf
  <2>2. j % 6 \in 0 .. 5
    BY <1>1
  <2> QED BY <1>1, <2>1, <2>2, SendBytes, SendNibbles
<1>3. \A k \in 1 .. 6 * Len(s) : k - 1 \in 0 .. 6 * Len(s) - 1
  BY <1>1
<1>4. Bytes(s) = [k \in 1 .. 6 * Len(s) |->
                    send(s[((k - 1) \div 6) + 1])[((k - 1) % 6) + 1]]
  BY DEF Bytes
<1>5. Bytes(s) \in [1 .. 6 * Len(s) -> Lines]
  BY <1>2, <1>3, <1>4
<1>6. Bytes(s) \in Seq(Lines) /\ Len(Bytes(s)) = 6 * Len(s)
  BY <1>1, <1>5, FunctionIsSeq
<1>7. \A j \in 0 .. 6 * Len(s) - 1 : j + 1 \in 1 .. 6 * Len(s) /\ (j + 1) - 1 = j
  BY <1>1
<1>8. \A j \in 0 .. 6 * Len(s) - 1 :
        Bytes(s)[j + 1] = SendPins(s[(j \div 6) + 1], j % 6)
  <2> TAKE j \in 0 .. 6 * Len(s) - 1
  <2> DEFINE k == j + 1
  <2>1. k \in 1 .. 6 * Len(s) /\ k - 1 = j
    BY <1>7
  <2> HIDE DEF k
  <2>2. Bytes(s)[k] = send(s[((k - 1) \div 6) + 1])[((k - 1) % 6) + 1]
    BY <1>4, <2>1
  <2>3. Bytes(s)[k] = SendPins(s[(j \div 6) + 1], j % 6)
    BY <1>2, <2>1, <2>2
  <2> QED BY <2>3 DEF k
<1> QED BY <1>6, <1>8

(* The bytes of one initialisation.                                        *)
LEMMA Forcing ==
  ASSUME NEW n \in {2, 3}
  PROVE  /\ write4bits(n, FALSE) \in Seq(Lines) /\ Len(write4bits(n, FALSE)) = 3
         /\ \A r \in 0 .. 2 : write4bits(n, FALSE)[r + 1] = ForcePins(n, r)
<1>1. n \in Nibble /\ FALSE \in BOOLEAN
  BY DEF Nibble
<1>2. /\ write4bits(n, FALSE) \in Seq(Lines) /\ Len(write4bits(n, FALSE)) = 3
      /\ write4bits(n, FALSE)[1] = expander(n, FALSE, FALSE)
      /\ write4bits(n, FALSE)[2] = expander(n, FALSE, TRUE)
      /\ write4bits(n, FALSE)[3] = expander(n, FALSE, FALSE)
  BY <1>1, Written4, Zenon
<1>3. /\ ForcePins(n, 0) = expander(n, FALSE, FALSE)
      /\ ForcePins(n, 1) = expander(n, FALSE, TRUE)
      /\ ForcePins(n, 2) = expander(n, FALSE, FALSE)
  <2>1. (0 = 1) = FALSE /\ (1 = 1) = TRUE /\ (2 = 1) = FALSE
    OBVIOUS
  <2> QED BY <2>1, Zenon DEF ForcePins, expander
<1>4. \A r \in 0 .. 2 : write4bits(n, FALSE)[r + 1] = ForcePins(n, r)
  <2> TAKE r \in 0 .. 2
  <2>1. r \in {0, 1, 2}
    OBVIOUS
  <2>2. 0 + 1 = 1 /\ 1 + 1 = 2 /\ 2 + 1 = 3
    OBVIOUS
  <2> QED BY <1>2, <1>3, <2>1, <2>2, Zenon
<1> QED BY <1>2, <1>4

LEMMA Joined ==
  ASSUME NEW S, NEW s \in Seq(S), NEW t \in Seq(S)
  PROVE  /\ s \o t \in Seq(S) /\ Len(s \o t) = Len(s) + Len(t)
         /\ \A i \in 1 .. Len(s) : (s \o t)[i] = s[i]
         /\ \A i \in Len(s) + 1 .. Len(s) + Len(t) : (s \o t)[i] = t[i - Len(s)]
<1>1. /\ s \o t \in Seq(S) /\ Len(s \o t) = Len(s) + Len(t)
      /\ \A i \in 1 .. Len(s) + Len(t) :
           (s \o t)[i] = IF i <= Len(s) THEN s[i] ELSE t[i - Len(s)]
  BY ConcatProperties, Zenon
<1> DEFINE u == s \o t
           m == Len(s)
           n == Len(t)
<1>2. \A i \in 1 .. m + n : u[i] = IF i <= m THEN s[i] ELSE t[i - m]
  BY <1>1, Zenon
<1>3. m \in Nat /\ n \in Nat
  BY LenProperties
<1> HIDE DEF u, m, n
<1>4. \A i \in 1 .. m : u[i] = s[i]
  BY <1>2, <1>3
<1>5. \A i \in m + 1 .. m + n : u[i] = t[i - m]
  BY <1>2, <1>3
<1> QED BY <1>1, <1>4, <1>5, Zenon DEF u, m, n

LEMMA BeginBytes ==
  /\ begin \in Seq(Lines) /\ Len(begin) = 49 /\ begin[1] = expander(0, FALSE, FALSE)
  /\ \A q \in 0 .. 11 : begin[q + 2] = ForcePins(IF q < 9 THEN 3 ELSE 2, q % 3)
  /\ \A q \in 12 .. 47 :
       begin[q + 2] = SendPins(settings[((q - 12) \div 6) + 1], (q - 12) % 6)
<1> DEFINE force == write4bits(3, FALSE)
           two == write4bits(2, FALSE)
           bs == Bytes(settings)
           c1 == expanderReset \o force
           c2 == c1 \o force
           c3 == c2 \o force
           c4 == c3 \o two
<1>1. begin = c4 \o bs
  BY DEF begin
<1>2. /\ force \in Seq(Lines) /\ Len(force) = 3
      /\ \A r \in 0 .. 2 : force[r + 1] = ForcePins(3, r)
  BY Forcing
<1>3. /\ two \in Seq(Lines) /\ Len(two) = 3
      /\ \A r \in 0 .. 2 : two[r + 1] = ForcePins(2, r)
  BY Forcing
<1>4. /\ bs \in Seq(Lines) /\ Len(bs) = 36
      /\ \A j \in 0 .. 35 : bs[j + 1] = SendPins(settings[(j \div 6) + 1], j % 6)
  <2>1. 6 * Len(settings) = 36 /\ 36 - 1 = 35 /\ settings \in Seq(Sends)
    BY Settings
  <2>2. /\ bs \in Seq(Lines) /\ Len(bs) = 6 * Len(settings)
        /\ \A j \in 0 .. 6 * Len(settings) - 1 :
             bs[j + 1] = SendPins(settings[(j \div 6) + 1], j % 6)
    BY <2>1, BytesOf, Zenon
  <2> QED BY <2>1, <2>2, Zenon
<1>5. /\ expanderReset \in Seq(Lines) /\ Len(expanderReset) = 1
      /\ expanderReset[1] = expander(0, FALSE, FALSE)
  <2>1. expander(0, FALSE, FALSE) \in Lines
    BY DEF expander, Lines, Nibble
  <2>2. \A x \in Lines : <<x>> \in Seq(Lines) /\ Len(<<x>>) = 1 /\ <<x>>[1] = x
    OBVIOUS
  <2> QED BY <2>1, <2>2, Zenon DEF expanderReset
<1> HIDE DEF force, two, bs
<1>6. /\ c1 \in Seq(Lines) /\ Len(c1) = 4 /\ c1[1] = expander(0, FALSE, FALSE)
      /\ \A r \in 0 .. 2 : c1[r + 2] = ForcePins(3, r)
  <2>1. /\ c1 \in Seq(Lines) /\ Len(c1) = 1 + 3
        /\ \A i \in 1 .. 1 : c1[i] = expanderReset[i]
        /\ \A i \in 1 + 1 .. 1 + 3 : c1[i] = force[i - 1]
    <3>1. /\ c1 \in Seq(Lines) /\ Len(c1) = Len(expanderReset) + Len(force)
          /\ \A i \in 1 .. Len(expanderReset) : c1[i] = expanderReset[i]
          /\ \A i \in Len(expanderReset) + 1 .. Len(expanderReset) + Len(force) :
               c1[i] = force[i - Len(expanderReset)]
      BY <1>2, <1>5, Joined, Zenon
    <3> QED BY <1>2, <1>5, <3>1, Zenon
  <2> HIDE DEF c1
  <2>2. \A i \in 1 .. 1 : c1[i] = expanderReset[i]
    BY <2>1, Zenon
  <2>3. \A i \in 1 + 1 .. 1 + 3 : c1[i] = force[i - 1]
    BY <2>1, Zenon
  <2>4. \A r \in 0 .. 2 : r + 2 \in 1 + 1 .. 1 + 3 /\ (r + 2) - 1 = r + 1
    OBVIOUS
  <2>5. \A r \in 0 .. 2 : c1[r + 2] = ForcePins(3, r)
    BY <1>2, <2>3, <2>4, Zenon
  <2>6. c1[1] = expander(0, FALSE, FALSE) /\ 1 + 3 = 4
    <3>1. 1 \in 1 .. 1 /\ 1 + 3 = 4
      OBVIOUS
    <3> QED BY <1>5, <2>2, <3>1, Zenon
  <2> QED BY <2>1, <2>5, <2>6, Zenon
<1> HIDE DEF c1
<1>7. /\ c2 \in Seq(Lines) /\ Len(c2) = 7 /\ c2[1] = expander(0, FALSE, FALSE)
      /\ \A q \in 0 .. 5 : c2[q + 2] = ForcePins(3, q % 3)
  <2>1. /\ c2 \in Seq(Lines) /\ Len(c2) = 4 + 3
        /\ \A i \in 1 .. 4 : c2[i] = c1[i]
        /\ \A i \in 4 + 1 .. 4 + 3 : c2[i] = force[i - 4]
    <3>1. /\ c2 \in Seq(Lines) /\ Len(c2) = Len(c1) + Len(force)
          /\ \A i \in 1 .. Len(c1) : c2[i] = c1[i]
          /\ \A i \in Len(c1) + 1 .. Len(c1) + Len(force) :
               c2[i] = force[i - Len(c1)]
      BY <1>2, <1>6, Joined, Zenon
    <3> QED BY <1>2, <1>6, <3>1, Zenon
  <2> HIDE DEF c2
  <2>2. \A i \in 1 .. 4 : c2[i] = c1[i]
    BY <2>1, Zenon
  <2>3. \A i \in 4 + 1 .. 4 + 3 : c2[i] = force[i - 4]
    BY <2>1, Zenon
  <2>4. \A q \in 0 .. 2 : q + 2 \in 1 .. 4 /\ q % 3 = q
    OBVIOUS
  <2>5. \A q \in 3 .. 5 : q + 2 \in 4 + 1 .. 4 + 3 /\ (q + 2) - 4 = (q - 3) + 1
    OBVIOUS
  <2>6. \A q \in 3 .. 5 : q % 3 = q - 3 /\ q - 3 \in 0 .. 2
    OBVIOUS
  <2>7. \A q \in 0 .. 5 : q \in 0 .. 2 \/ q \in 3 .. 5
    OBVIOUS
  <2>8. \A q \in 0 .. 2 : c2[q + 2] = ForcePins(3, q % 3)
    BY <1>6, <2>2, <2>4, Zenon
  <2>9. \A q \in 3 .. 5 : c2[q + 2] = ForcePins(3, q % 3)
    BY <1>2, <2>3, <2>5, <2>6, Zenon
  <2>10. \A q \in 0 .. 5 : c2[q + 2] = ForcePins(3, q % 3)
    BY <2>7, <2>8, <2>9, Zenon
  <2>11. 1 \in 1 .. 4 /\ 4 + 3 = 7
    OBVIOUS
  <2> QED BY <1>6, <2>1, <2>2, <2>10, <2>11, Zenon
<1> HIDE DEF c2
<1>8. /\ c3 \in Seq(Lines) /\ Len(c3) = 10 /\ c3[1] = expander(0, FALSE, FALSE)
      /\ \A q \in 0 .. 8 : c3[q + 2] = ForcePins(3, q % 3)
  <2>1. /\ c3 \in Seq(Lines) /\ Len(c3) = 7 + 3
        /\ \A i \in 1 .. 7 : c3[i] = c2[i]
        /\ \A i \in 7 + 1 .. 7 + 3 : c3[i] = force[i - 7]
    <3>1. /\ c3 \in Seq(Lines) /\ Len(c3) = Len(c2) + Len(force)
          /\ \A i \in 1 .. Len(c2) : c3[i] = c2[i]
          /\ \A i \in Len(c2) + 1 .. Len(c2) + Len(force) :
               c3[i] = force[i - Len(c2)]
      BY <1>2, <1>7, Joined, Zenon
    <3> QED BY <1>2, <1>7, <3>1, Zenon
  <2> HIDE DEF c3
  <2>2. \A i \in 1 .. 7 : c3[i] = c2[i]
    BY <2>1, Zenon
  <2>3. \A i \in 7 + 1 .. 7 + 3 : c3[i] = force[i - 7]
    BY <2>1, Zenon
  <2>4. \A q \in 0 .. 5 : q + 2 \in 1 .. 7
    OBVIOUS
  <2>5. \A q \in 6 .. 8 : q + 2 \in 7 + 1 .. 7 + 3 /\ (q + 2) - 7 = (q - 6) + 1
    OBVIOUS
  <2>6. \A q \in 6 .. 8 : q % 3 = q - 6 /\ q - 6 \in 0 .. 2
    OBVIOUS
  <2>7. \A q \in 0 .. 8 : q \in 0 .. 5 \/ q \in 6 .. 8
    OBVIOUS
  <2>8. \A q \in 0 .. 5 : c3[q + 2] = ForcePins(3, q % 3)
    BY <1>7, <2>2, <2>4, Zenon
  <2>9. \A q \in 6 .. 8 : c3[q + 2] = ForcePins(3, q % 3)
    BY <1>2, <2>3, <2>5, <2>6, Zenon
  <2>10. \A q \in 0 .. 8 : c3[q + 2] = ForcePins(3, q % 3)
    BY <2>7, <2>8, <2>9, Zenon
  <2>11. 1 \in 1 .. 7 /\ 7 + 3 = 10
    OBVIOUS
  <2> QED BY <1>7, <2>1, <2>2, <2>10, <2>11, Zenon
<1> HIDE DEF c3
<1>9. /\ c4 \in Seq(Lines) /\ Len(c4) = 13 /\ c4[1] = expander(0, FALSE, FALSE)
      /\ \A q \in 0 .. 11 : c4[q + 2] = ForcePins(IF q < 9 THEN 3 ELSE 2, q % 3)
  <2>1. /\ c4 \in Seq(Lines) /\ Len(c4) = 10 + 3
        /\ \A i \in 1 .. 10 : c4[i] = c3[i]
        /\ \A i \in 10 + 1 .. 10 + 3 : c4[i] = two[i - 10]
    <3>1. /\ c4 \in Seq(Lines) /\ Len(c4) = Len(c3) + Len(two)
          /\ \A i \in 1 .. Len(c3) : c4[i] = c3[i]
          /\ \A i \in Len(c3) + 1 .. Len(c3) + Len(two) :
               c4[i] = two[i - Len(c3)]
      BY <1>3, <1>8, Joined, Zenon
    <3> QED BY <1>3, <1>8, <3>1, Zenon
  <2> HIDE DEF c4
  <2>2. \A i \in 1 .. 10 : c4[i] = c3[i]
    BY <2>1, Zenon
  <2>3. \A i \in 10 + 1 .. 10 + 3 : c4[i] = two[i - 10]
    BY <2>1, Zenon
  <2>4. \A q \in 0 .. 8 : q + 2 \in 1 .. 10 /\ (IF q < 9 THEN 3 ELSE 2) = 3
    OBVIOUS
  <2>5. \A q \in 9 .. 11 : q + 2 \in 10 + 1 .. 10 + 3 /\ (q + 2) - 10 = (q - 9) + 1
    OBVIOUS
  <2>6. \A q \in 9 .. 11 : q % 3 = q - 9 /\ q - 9 \in 0 .. 2 /\ (IF q < 9 THEN 3 ELSE 2) = 2
    OBVIOUS
  <2>7. \A q \in 0 .. 11 : q \in 0 .. 8 \/ q \in 9 .. 11
    OBVIOUS
  <2>8. \A q \in 0 .. 8 : c4[q + 2] = ForcePins(IF q < 9 THEN 3 ELSE 2, q % 3)
    BY <1>8, <2>2, <2>4, Zenon
  <2>9. \A q \in 9 .. 11 : c4[q + 2] = ForcePins(IF q < 9 THEN 3 ELSE 2, q % 3)
    BY <1>3, <2>3, <2>5, <2>6, ZenonT(60)
  <2>10. \A q \in 0 .. 11 : c4[q + 2] = ForcePins(IF q < 9 THEN 3 ELSE 2, q % 3)
    BY <2>7, <2>8, <2>9, Zenon
  <2>11. 1 \in 1 .. 10 /\ 10 + 3 = 13
    OBVIOUS
  <2> QED BY <1>8, <2>1, <2>2, <2>10, <2>11, Zenon
<1> HIDE DEF c4
<1>10. /\ begin \in Seq(Lines) /\ Len(begin) = 13 + 36
       /\ \A i \in 1 .. 13 : begin[i] = c4[i]
       /\ \A i \in 13 + 1 .. 13 + 36 : begin[i] = bs[i - 13]
  <2>1. /\ c4 \o bs \in Seq(Lines) /\ Len(c4 \o bs) = Len(c4) + Len(bs)
        /\ \A i \in 1 .. Len(c4) : (c4 \o bs)[i] = c4[i]
        /\ \A i \in Len(c4) + 1 .. Len(c4) + Len(bs) : (c4 \o bs)[i] = bs[i - Len(c4)]
    <3>1. c4 \in Seq(Lines) /\ bs \in Seq(Lines)
      BY <1>4, <1>9
    <3> QED BY <3>1, Joined, Zenon
  <2> QED BY <1>1, <1>4, <1>9, <2>1, Zenon
<1>11. /\ 1 \in 1 .. 13 /\ 13 + 36 = 49
       /\ \A q \in 0 .. 11 : q + 2 \in 1 .. 13
  OBVIOUS
<1>12. \A q \in 12 .. 47 :
         begin[q + 2] = SendPins(settings[((q - 12) \div 6) + 1], (q - 12) % 6)
  <2> TAKE q \in 12 .. 47
  <2> DEFINE i == q + 2
             k == (q - 12) + 1
  <2>1. i \in 13 + 1 .. 13 + 36 /\ i - 13 = k /\ q - 12 \in 0 .. 35
    OBVIOUS
  <2>2. bs[k] = SendPins(settings[((q - 12) \div 6) + 1], (q - 12) % 6)
    BY <1>4, <2>1
  <2> HIDE DEF i, k
  <2>3. \A x \in 13 + 1 .. 13 + 36 : begin[x] = bs[x - 13]
    BY <1>10, ZenonT(60)
  <2>4. begin[i] = bs[i - 13]
    BY <2>1, <2>3
  <2>5. begin[i] = SendPins(settings[((q - 12) \div 6) + 1], (q - 12) % 6)
    BY <2>1, <2>2, <2>4
  <2> QED BY <2>5 DEF i
<1>13. /\ begin[1] = expander(0, FALSE, FALSE)
       /\ \A q \in 0 .. 11 : begin[q + 2] = ForcePins(IF q < 9 THEN 3 ELSE 2, q % 3)
  BY <1>9, <1>10, <1>11, Zenon
<1> QED BY <1>10, <1>11, <1>12, <1>13, ZenonT(60)

(* The second initialisation follows the first.                            *)
LEMMA Second ==
  ASSUME NEW b \in Seq(Lines)
  PROVE  /\ b \o b \in Seq(Lines) /\ Len(b \o b) = Len(b) + Len(b)
         /\ \A j \in Len(b) .. Len(b) + Len(b) - 1 : (b \o b)[j + 1] = b[j - Len(b) + 1]
<1> DEFINE n == Len(b)
           u == b \o b
<1>1. /\ u \in Seq(Lines) /\ Len(u) = n + n
      /\ \A i \in n + 1 .. n + n : u[i] = b[i - n]
  BY Joined, Zenon
<1>2. n \in Nat
  BY LenProperties
<1> HIDE DEF n, u
<1>3. \A j \in n .. n + n - 1 : j + 1 \in n + 1 .. n + n /\ (j + 1) - n = j - n + 1
  BY <1>2
<1>4. \A j \in n .. n + n - 1 : u[j + 1] = b[j - n + 1]
  <2> TAKE j \in n .. n + n - 1
  <2>1. j + 1 \in n + 1 .. n + n /\ (j + 1) - n = j - n + 1
    BY <1>3
  <2>2. u[j + 1] = b[(j + 1) - n]
    BY <1>1, <2>1, Zenon
  <2> QED BY <2>1, <2>2, Zenon
<1> QED BY <1>1, <1>4, Zenon DEF n, u

Begun2 == begin \o begin

LEMMA Twice ==
  /\ Begun2 \in Seq(Lines) /\ Len(Begun2) = 98
  /\ \A j \in 49 .. 97 : Begun2[j + 1] = begin[(j - 50) + 2]
<1> DEFINE n == Len(begin)
<1>1. begin \in Seq(Lines)
  BY BeginBytes, Zenon
<1>2. /\ Begun2 \in Seq(Lines) /\ Len(Begun2) = n + n
      /\ \A j \in n .. n + n - 1 : Begun2[j + 1] = begin[j - n + 1]
  BY <1>1, Second, Zenon DEF Begun2
<1>3. n = 49
  BY BeginBytes
<1> HIDE DEF n
<1>4. \A j \in 49 .. 97 : j \in n .. n + n - 1 /\ j - n + 1 = (j - 50) + 2
  BY <1>3
<1>5. n + n = 98
  BY <1>3
<1>6. \A j \in 49 .. 97 : Begun2[j + 1] = begin[j - n + 1]
  BY <1>2, <1>4, Zenon
<1>7. Len(Begun2) = 98
  BY <1>2, <1>5
<1>8. \A j \in 49 .. 97 : Begun2[j + 1] = begin[(j - 50) + 2]
  <2> TAKE j \in 49 .. 97
  <2>1. Begun2[j + 1] = begin[j - n + 1]
    BY <1>6
  <2>2. j - n + 1 = (j - 50) + 2
    BY <1>4
  <2> QED BY <2>1, <2>2
<1> QED BY <1>2, <1>7, <1>8

(* One byte of the initialisation.                                         *)
LEMMA InitStep ==
  ASSUME NEW d \in Display, Whole(d), NEW j \in 0 .. 97, Initialising(d, j - 50),
         NEW light \in BOOLEAN, NEW e \in Received(d, (begin \o begin)[j + 1], light)
  PROVE  Initialising(e, j - 49)
<1> DEFINE q == j - 50
<1>1. q \in -50 .. 47 /\ j - 49 = q + 1
  OBVIOUS
<1>2. Initialising(d, q)
  OBVIOUS
<1>3. j \in 49 .. 97 => e \in Received(d, begin[q + 2], light)
  BY Twice DEF Begun2
<1>4. j \in 49 .. 97 <=> q >= -1
  OBVIOUS
<1> HIDE DEF q
<1>5. CASE q < -1
  BY <1>1, <1>5 DEF Initialising
<1>6. CASE q = -1
  <2>0. q + 2 = 1 /\ q >= -1
    BY <1>6
  <2>1. begin[q + 2] = expander(0, FALSE, FALSE)
    BY <2>0, BeginBytes, Zenon
  <2>2. e \in Received(d, expander(0, FALSE, FALSE), light)
    BY <1>3, <1>4, <2>0, <2>1, Zenon
  <2>3. expander(0, FALSE, FALSE) \in Lines
    BY DEF expander, Lines, Nibble
  <2>4. e.pins = expander(0, FALSE, FALSE)
    BY <2>2, <2>3, ReceivedTyped
  <2>5. e.pins.en = FALSE
    BY <2>4 DEF expander
  <2>6. \A n : AtNibble(e, n, 0)
    BY <2>5, NibbleFirst
  <2>7. Forced(e, 0)
    BY DEF Forced
  <2>8. q + 1 = 0 /\ 0 \in 0 .. 11 /\ 0 \div 3 = 0 /\ 0 % 3 = 0
    BY <1>6
  <2>9. Initialising(e, 0)
    BY <2>6, <2>7, <2>8 DEF Initialising
  <2> QED BY <1>1, <2>8, <2>9
<1>7. CASE q \in 0 .. 11
  <2> DEFINE n == IF q < 9 THEN 3 ELSE 2
  <2>1. begin[q + 2] = ForcePins(n, q % 3)
    BY <1>7, BeginBytes, Zenon
  <2>2. n \in {2, 3} /\ (q < 9 <=> n = 3)
    OBVIOUS
  <2>3. e \in Received(d, ForcePins(n, q % 3), light)
    <3>1. q >= -1
      BY <1>7
    <3> QED BY <1>3, <1>4, <2>1, <3>1, Zenon
  <2> HIDE DEF n
  <2>4. Initialising(e, q + 1)
    BY <1>2, <1>7, <2>2, <2>3, ForceStep
  <2> QED BY <1>1, <2>4
<1>8. CASE q \in 12 .. 47
  <2>1. begin[q + 2] = SendPins(settings[((q - 12) \div 6) + 1], (q - 12) % 6)
    BY <1>8, BeginBytes, Zenon
  <2>2. e \in Received(d, SendPins(settings[((q - 12) \div 6) + 1], (q - 12) % 6), light)
    <3>1. q >= -1
      BY <1>8
    <3> QED BY <1>3, <1>4, <2>1, <3>1, Zenon
  <2>3. Initialising(e, q + 1)
    BY <1>2, <1>8, <2>2, SettingStep
  <2> QED BY <1>1, <2>3
<1> QED BY <1>1, <1>5, <1>6, <1>7, <1>8

(* The initialisation leaves the display fit, and ready for a byte.        *)
LEMMA InitEnds ==
  ASSUME NEW d, Initialising(d, 48)
  PROVE  Rested(d)
<1>1. ~(48 < 0) /\ 48 \notin 0 .. 11 /\ (48 - 12) \div 6 = 6 /\ 48 - 12 = 36
  OBVIOUS
<1>2. Set(d, 6) /\ Within(d, settings, 36)
  BY <1>1 DEF Initialising
<1>3. 36 = 6 * Len(settings)
  BY Settings
<1>4. Aligned(d)
  BY <1>2, <1>3 DEF Within
<1>5. Fit(d)
  BY <1>2 DEF Set, Fit
<1> QED BY <1>4, <1>5 DEF Rested

-----------------------------------------------------------------------------
(* What operations send                                                    *)

LEMMA TameFour == ASSUME NEW s, Tame(s) PROVE Four(s)
<1>1. \A v \in {1, 28} \union (128 .. 255) : v \notin 32 .. 63
  OBVIOUS
<1> QED BY <1>1 DEF Tame, Four

LEMMA Elements ==
  ASSUME NEW S, NEW s \in Seq(S)
  PROVE  Len(s) \in Nat /\ \A k \in 1 .. Len(s) : s[k] \in S
BY LenProperties

LEMMA Counted ==
  ASSUME NEW n \in Nat
  PROVE  IsFiniteSet(1 .. n) /\ Cardinality(1 .. n) = n
BY FS_Interval

(* A text is sent character by character.                                  *)
LEMMA CharacterSends ==
  ASSUME NEW text \in Seq(0 .. 255)
  PROVE  /\ WriteMessage(text) \in Seq(Sends) /\ Len(WriteMessage(text)) = Len(text)
         /\ \A k \in 1 .. Len(text) : WriteMessage(text)[k] = write(text[k])
         /\ \A k \in 1 .. Len(text) : WriteMessage(text)[k].mode
<1>1. Len(text) \in Nat /\ \A k \in 1 .. Len(text) : text[k] \in 0 .. 255
  BY Elements, Zenon
<1>2. \A k \in 1 .. Len(text) : write(text[k]) \in Sends /\ write(text[k]).mode
  BY <1>1 DEF write, Sends
<1>3. WriteMessage(text) = [k \in 1 .. Len(text) |-> write(text[k])]
  BY DEF WriteMessage
<1>4. WriteMessage(text) \in [1 .. Len(text) -> Sends]
  BY <1>2, <1>3
<1>5. WriteMessage(text) \in Seq(Sends) /\ Len(WriteMessage(text)) = Len(text)
  BY <1>1, <1>4, FunctionIsSeq
<1>6. \A k \in 1 .. Len(text) : WriteMessage(text)[k] = write(text[k])
  BY <1>3
<1> QED BY <1>2, <1>5, <1>6

(* An instruction and then characters.                                     *)
LEMMA Led ==
  ASSUME NEW h \in Sends, NEW t \in Seq(Sends), \A k \in 1 .. Len(t) : t[k].mode
  PROVE  /\ <<h>> \o t \in Seq(Sends) /\ Len(<<h>> \o t) = Len(t) + 1
         /\ (<<h>> \o t)[1] = h
         /\ \A k \in 1 .. Len(t) : (<<h>> \o t)[k + 1] = t[k]
         /\ \A k \in 1 .. Len(t) + 1 : k = 1 \/ (<<h>> \o t)[k].mode
<1> DEFINE l == <<h>>
           u == l \o t
           n == Len(t)
<1>1. l \in Seq(Sends) /\ Len(l) = 1 /\ l[1] = h
  OBVIOUS
<1>2. n \in Nat
  BY LenProperties, Zenon
<1> HIDE DEF l
<1>3. /\ u \in Seq(Sends) /\ Len(u) = Len(l) + n
      /\ \A i \in 1 .. Len(l) : u[i] = l[i]
      /\ \A i \in Len(l) + 1 .. Len(l) + n : u[i] = t[i - Len(l)]
  BY <1>1, Joined, Zenon
<1> HIDE DEF u, n
<1>4. /\ u \in Seq(Sends) /\ Len(u) = 1 + n
      /\ \A i \in 1 .. 1 : u[i] = l[i]
      /\ \A i \in 1 + 1 .. 1 + n : u[i] = t[i - 1]
  BY <1>1, <1>3, Zenon
<1>5. u[1] = h
  <2>1. 1 \in 1 .. 1
    OBVIOUS
  <2> QED BY <1>1, <1>4, <2>1, Zenon
<1>6. \A k \in 1 .. n : u[k + 1] = t[k]
  <2> TAKE k \in 1 .. n
  <2>1. k + 1 \in 1 + 1 .. 1 + n /\ (k + 1) - 1 = k
    BY <1>2
  <2>2. u[k + 1] = t[(k + 1) - 1]
    BY <1>4, <2>1, Zenon
  <2> QED BY <2>1, <2>2, Zenon
<1>7. \A k \in 1 .. n + 1 : k = 1 \/ u[k].mode
  <2> TAKE k \in 1 .. n + 1
  <2>1. k # 1 => k \in 1 + 1 .. 1 + n /\ k - 1 \in 1 .. n
    BY <1>2
  <2>2. k # 1 => u[k] = t[k - 1] /\ k - 1 \in 1 .. n
    BY <1>4, <2>1, Zenon
  <2>3. \A i \in 1 .. n : t[i].mode
    BY DEF n
  <2> QED BY <2>2, <2>3, Zenon
<1>8. Len(u) = n + 1
  BY <1>2, <1>4
<1> QED BY <1>4, <1>5, <1>6, <1>7, <1>8, Zenon DEF u, l, n

(* The cursor is set to an address, on each of the four rows.              *)
LEMMA ColumnsFit ==
  ASSUME NEW col \in 0 .. Cols, NEW row \in 0 .. 3, col < Cols \/ col = 0
  PROVE  setCursor(col, row) \in Sends /\ ~setCursor(col, row).mode
                                       /\ setCursor(col, row).v \in 128 .. 255
<1>1. Cols \in Nat /\ 2 * Cols <= 64
  BY DEF Cols
<1>2. /\ row_offsets[1] = 0 /\ row_offsets[2] = 64 /\ row_offsets[3] = Cols
      /\ row_offsets[4] = 64 + Cols
  BY DEF row_offsets
<1>3. setCursor(col, row) = command(128 + col + row_offsets[row + 1])
  BY DEF setCursor, NumLines
<1> DEFINE v == 128 + col + row_offsets[row + 1]
<1>4. v \in 128 .. 255
  <2>1. row \in {0, 1, 2, 3}
    OBVIOUS
  <2>2. row_offsets[row + 1] \in {0, 64, Cols, 64 + Cols}
    BY <1>2, <2>1
  <2> HIDE DEF v
  <2>3. \A o \in {0, 64, Cols, 64 + Cols} : 128 + col + o \in 128 .. 255
    BY <1>1
  <2> QED BY <2>2, <2>3 DEF v
<1> HIDE DEF v
<1>5. setCursor(col, row) = [v |-> v, mode |-> FALSE]
  BY <1>3 DEF command, v
<1> QED BY <1>4, <1>5 DEF Sends

(* The text of a buffer is no longer than the buffer.                      *)
LEMMA TextTyped ==
  ASSUME NEW b \in Seq(0 .. 255)
  PROVE  Text(b) \in Seq(0 .. 255)
<1>1. Len(b) \in Nat /\ \A k \in 1 .. Len(b) : b[k] \in 0 .. 255
  BY Elements, Zenon
<1>2. IsFiniteSet(1 .. Len(b)) /\ Cardinality(1 .. Len(b)) = Len(b)
  BY <1>1, Counted, Zenon
<1> DEFINE K == {k \in 1 .. Len(b) : \A j \in 1 .. k : b[j] # NUL}
           n == Cardinality(K)
<1>3. K \subseteq 1 .. Len(b)
  OBVIOUS
<1> HIDE DEF K
<1>4. n \in Nat /\ n <= Len(b)
  BY <1>2, <1>3, FS_Subset, FS_CardinalityType
<1> HIDE DEF n
<1>5. \A i \in 1 .. n : b[i] \in 0 .. 255
  BY <1>1, <1>4
<1>6. SubSeq(b, 1, n) \in Seq(0 .. 255)
  BY <1>4, <1>5, SubSeqProperties
<1> QED BY <1>6 DEF Text, n, K

(* A buffer without NULs, but for the one that ends it, is all text.       *)
LEMMA PlainText ==
  ASSUME NEW b \in Seq(0 .. 255), NEW n \in Nat, Len(b) = n + 1,
         \A k \in 1 .. n : b[k] # NUL
  PROVE  /\ Terminated(b) \in Seq(0 .. 255)
         /\ Text(Terminated(b)) \in Seq(0 .. 255) /\ Len(Text(Terminated(b))) = n
         /\ \A k \in 1 .. n : Text(Terminated(b))[k] = b[k]
<1> DEFINE t == Terminated(b)
           K == {k \in 1 .. Len(t) : \A j \in 1 .. k : t[j] # NUL}
<1>1. /\ t \in Seq(0 .. 255) /\ Len(t) = Len(b)
      /\ \A k \in 1 .. Len(b) : t[k] = IF k = Len(b) THEN NUL ELSE b[k]
  <2>1. Len(b) \in 1 .. Len(b) /\ NUL \in 0 .. 255
    BY DEF NUL
  <2> QED BY <2>1, ExceptSeq DEF Terminated
<1> HIDE DEF t
<1>2. Len(t) = n + 1 /\ t[n + 1] = NUL /\ \A k \in 1 .. n : t[k] = b[k] /\ t[k] # NUL
  BY <1>1
<1>3. K = 1 .. n
  <2>1. ASSUME NEW k \in 1 .. n PROVE k \in 1 .. n + 1 /\ \A j \in 1 .. k : t[j] # NUL
    BY <1>2, <2>1
  <2>2. ASSUME NEW k \in 1 .. n + 1, \A j \in 1 .. k : t[j] # NUL PROVE k \in 1 .. n
    <3>1. k # n + 1
      BY <1>2, <2>2
    <3> QED BY <3>1
  <2> QED BY <1>2, <2>1, <2>2
<1>4. Cardinality(1 .. n) = n
  BY FS_Interval
<1>5. Text(t) = SubSeq(t, 1, n)
  BY <1>3, <1>4 DEF Text
<1>6. \A i \in 1 .. n : t[i] \in 0 .. 255
  <2>1. \A i \in 1 .. n : i \in 1 .. Len(t)
    BY <1>2
  <2> QED BY <1>1, <2>1, ElementOfSeq, ZenonT(60)
<1>7. /\ SubSeq(t, 1, n) \in Seq(0 .. 255)
      /\ Len(SubSeq(t, 1, n)) = IF 1 <= n THEN n - 1 + 1 ELSE 0
      /\ \A i \in 1 .. n - 1 + 1 : SubSeq(t, 1, n)[i] = t[1 + i - 1]
  BY <1>6, SubSeqProperties
<1> DEFINE w == SubSeq(t, 1, n)
<1>8. w \in Seq(0 .. 255)
  BY <1>7, Zenon
<1>9. Len(w) = IF 1 <= n THEN n - 1 + 1 ELSE 0
  BY <1>7, Zenon
<1>10. \A i \in 1 .. n - 1 + 1 : w[i] = t[1 + i - 1]
  BY <1>7, Zenon
<1> HIDE DEF w
<1>11. Len(w) = n
  BY <1>9
<1>12. \A i \in 1 .. n : w[i] = b[i]
  <2> TAKE i \in 1 .. n
  <2>1. i \in 1 .. n - 1 + 1 /\ 1 + i - 1 = i
    OBVIOUS
  <2>2. w[i] = t[i]
    BY <1>10, <2>1, Zenon
  <2> QED BY <1>2, <2>2
<1> QED BY <1>1, <1>5, <1>8, <1>11, <1>12, Zenon DEF w, t

(* The text of a layout: the message, blanks, and the message again.       *)
LEMMA Padded ==
  ASSUME NEW n \in Nat
  PROVE  /\ Padding(n) \in Seq(0 .. 255) /\ Len(Padding(n)) = n
         /\ \A i \in 1 .. n : Padding(n)[i] = Blank
<1>1. Padding(n) \in [1 .. n -> 0 .. 255]
  BY DEF Padding, Blank
<1>2. Padding(n) \in Seq(0 .. 255) /\ Len(Padding(n)) = n
  BY <1>1, FunctionIsSeq
<1>3. \A i \in 1 .. n : Padding(n)[i] = Blank
  BY DEF Padding
<1> QED BY <1>2, <1>3

Chars(count, text) == text \o Padding(Line - (count - 1)) \o text

LEMMA CharsTyped ==
  ASSUME NEW count \in 0 .. Line + 1, NEW text \in Seq(0 .. 255), NEW n \in Nat,
         Len(text) = n
  PROVE  /\ Chars(count, text) \in Seq(0 .. 255)
         /\ Len(Chars(count, text)) = n + (Line - (count - 1)) + n
         /\ \A i \in 1 .. n : Chars(count, text)[i] = text[i]
         /\ \A i \in n + 1 .. n + (Line - (count - 1)) : Chars(count, text)[i] = Blank
         /\ \A i \in n + (Line - (count - 1)) + 1 .. n + (Line - (count - 1)) + n :
              Chars(count, text)[i] = text[i - (n + (Line - (count - 1)))]
<1> DEFINE pad == Line - (count - 1)
           p == Padding(pad)
           u == text \o p
           w == u \o text
<1>1. pad \in Nat
  OBVIOUS
<1>2. Chars(count, text) = w
  BY DEF Chars
<1> HIDE DEF pad
<1>3. p \in Seq(0 .. 255) /\ Len(p) = pad /\ \A i \in 1 .. pad : p[i] = Blank
  BY <1>1, Padded
<1> HIDE DEF p
<1>4. /\ u \in Seq(0 .. 255) /\ Len(u) = Len(text) + Len(p)
      /\ \A i \in 1 .. Len(text) : u[i] = text[i]
      /\ \A i \in Len(text) + 1 .. Len(text) + Len(p) : u[i] = p[i - Len(text)]
  BY <1>3, Joined, ZenonT(60)
<1>5. /\ u \in Seq(0 .. 255) /\ Len(u) = n + pad
      /\ \A i \in 1 .. n : u[i] = text[i]
      /\ \A i \in n + 1 .. n + pad : u[i] = p[i - n]
  BY <1>3, <1>4, Zenon
<1> HIDE DEF u
<1>6. /\ w \in Seq(0 .. 255) /\ Len(w) = Len(u) + Len(text)
      /\ \A i \in 1 .. Len(u) : w[i] = u[i]
      /\ \A i \in Len(u) + 1 .. Len(u) + Len(text) : w[i] = text[i - Len(u)]
  <2>1. u \in Seq(0 .. 255)
    BY <1>5, Zenon
  <2> QED BY <2>1, Joined, ZenonT(60)
<1>7. /\ w \in Seq(0 .. 255) /\ Len(w) = n + pad + n
      /\ \A i \in 1 .. n + pad : w[i] = u[i]
      /\ \A i \in n + pad + 1 .. n + pad + n : w[i] = text[i - (n + pad)]
  BY <1>5, <1>6, Zenon
<1> HIDE DEF w
<1>8. \A i \in 1 .. n : w[i] = text[i]
  <2>1. \A i \in 1 .. n : i \in 1 .. n + pad
    BY <1>1
  <2> QED BY <1>5, <1>7, <2>1, Zenon
<1>9. \A i \in n + 1 .. n + pad : w[i] = Blank
  <2>1. \A i \in n + 1 .. n + pad : i \in 1 .. n + pad /\ i - n \in 1 .. pad
    BY <1>1
  <2> QED BY <1>3, <1>5, <1>7, <2>1, ZenonT(60)
<1> QED BY <1>2, <1>7, <1>8, <1>9, Zenon DEF pad

LEMMA ClearTame == clear \in Sends /\ clear.mode = FALSE /\ clear.v = 1 /\ Tame(clear)
<1>1. clear = [v |-> 1, mode |-> FALSE]
  BY DEF clear, command
<1>2. clear.mode = FALSE /\ clear.v = 1
  BY <1>1
<1>3. clear \in Sends
  BY <1>1 DEF Sends
<1> QED BY <1>2, <1>3 DEF Tame

(* A layout is clear, and then that text.                                  *)
LEMMA LayoutTyped ==
  ASSUME NEW count \in 0 .. Line + 1, NEW text \in Seq(0 .. 255)
  PROVE  LET s == layout(count, text)
         IN /\ s \in Seq(Sends) /\ Len(s) = Len(Chars(count, text)) + 1 /\ s[1] = clear
            /\ \A k \in 1 .. Len(s) : k = 1 \/ s[k].mode
            /\ \A k \in 1 .. Len(Chars(count, text)) : s[k + 1].v = Chars(count, text)[k]
<1> DEFINE c == Chars(count, text)
           m == WriteMessage(c)
           s == <<clear>> \o m
<1>1. layout(count, text) = s
  BY DEF layout, Chars
<1>2. c \in Seq(0 .. 255)
  BY CharsTyped, Elements
<1> HIDE DEF c
<1>3. /\ m \in Seq(Sends) /\ Len(m) = Len(c)
      /\ \A k \in 1 .. Len(c) : m[k] = write(c[k])
      /\ \A k \in 1 .. Len(c) : m[k].mode
  BY <1>2, CharacterSends, Zenon
<1> HIDE DEF m
<1>4. /\ s \in Seq(Sends) /\ Len(s) = Len(m) + 1 /\ s[1] = clear
      /\ \A k \in 1 .. Len(m) : s[k + 1] = m[k]
      /\ \A k \in 1 .. Len(m) + 1 : k = 1 \/ s[k].mode
  BY <1>3, ClearTame, Led, Zenon
<1> HIDE DEF s
<1>5. \A x : write(x).v = x
  BY DEF write
<1>6. \A k \in 1 .. Len(c) : s[k + 1].v = c[k]
  BY <1>3, <1>4, <1>5, Zenon
<1> QED BY <1>1, <1>3, <1>4, <1>6, Zenon DEF c

(* Everything an operation sends once the display is initialised is tame.  *)
Gentle(s) == s \in Seq(Sends) /\ \A k \in 1 .. Len(s) : Tame(s[k])

(* Each operation is gentle.                                               *)
LEMMA GreetGentle ==
  ASSUME NEW g \in [col : 0 .. Cols - 1, row : 0 .. NumLines - 1, text : Seq(0 .. 255)]
  PROVE  Gentle(greet(g))
<1> DEFINE h == setCursor(g.col, g.row)
           t == WriteMessage(g.text)
<1>0. Cols \in Nat
  BY DEF Cols
<1>1. /\ g.col \in 0 .. Cols /\ g.row \in 0 .. 3 /\ (g.col < Cols \/ g.col = 0)
      /\ g.text \in Seq(0 .. 255)
  BY <1>0 DEF NumLines
<1>2. h \in Sends /\ h.v \in 128 .. 255
  BY <1>1, ColumnsFit, ZenonT(60)
<1>3. t \in Seq(Sends) /\ \A k \in 1 .. Len(t) : t[k].mode
  <2>1. /\ t \in Seq(Sends) /\ Len(t) = Len(g.text)
        /\ \A k \in 1 .. Len(g.text) : t[k].mode
    BY <1>1, CharacterSends, Zenon
  <2> QED BY <2>1, Zenon
<1>4. greet(g) = <<h>> \o t
  BY DEF greet
<1> HIDE DEF h, t
<1> DEFINE s == <<h>> \o t
<1>5. /\ s \in Seq(Sends) /\ Len(s) = Len(t) + 1 /\ s[1] = h
      /\ \A k \in 1 .. Len(t) + 1 : k = 1 \/ s[k].mode
  BY <1>2, <1>3, Led, Zenon
<1> HIDE DEF s
<1>6. Tame(h)
  BY <1>2 DEF Tame
<1>7. \A k \in 1 .. Len(s) : Tame(s[k])
  BY <1>5, <1>6, Zenon DEF Tame
<1> QED BY <1>4, <1>5, <1>7 DEF Gentle, s

LEMMA LayoutGentle ==
  ASSUME NEW count \in 0 .. Line + 1, NEW text \in Seq(0 .. 255)
  PROVE  Gentle(layout(count, text))
<1> DEFINE s == layout(count, text)
<1>1. s \in Seq(Sends) /\ s[1] = clear /\ \A k \in 1 .. Len(s) : k = 1 \/ s[k].mode
  BY LayoutTyped, Zenon
<1> HIDE DEF s
<1>2. \A k \in 1 .. Len(s) : Tame(s[k])
  BY <1>1, ClearTame, Zenon DEF Tame
<1> QED BY <1>1, <1>2 DEF Gentle, s

LEMMA SingleGentle ==
  ASSUME NEW h \in Sends, Tame(h)
  PROVE  Gentle(<<h>>) /\ Gentle(<<>>)
<1>1. <<h>> \in Seq(Sends) /\ Len(<<h>>) = 1 /\ <<h>>[1] = h
  OBVIOUS
<1>2. \A k \in 1 .. 1 : k = 1
  OBVIOUS
<1>3. Gentle(<<h>>)
  BY <1>1, <1>2, Zenon DEF Gentle
<1>4. <<>> \in Seq(Sends) /\ Len(<<>>) = 0 /\ \A k \in 1 .. 0 : FALSE
  OBVIOUS
<1>5. Gentle(<<>>)
  BY <1>4, Zenon DEF Gentle
<1> QED BY <1>3, <1>5

LEMMA Gentles ==
  /\ Gentle(<<>>) /\ Gentle(<<scrollDisplayRight>>) /\ Gentle(<<setCursor(0, 0)>>)
  /\ \A i \in 1 .. Len(Greeting) : Gentle(greet(Greeting[i]))
  /\ \A b \in Buffers : Gentle(layout(0, Text(b)))
  /\ \A b \in Buffers :
       b # <<>> /\ Len(b) <= Line + 1 => Gentle(layout(Len(b), Text(Terminated(b))))
<1>1. ASSUME NEW b \in Buffers, b # <<>>, Len(b) <= Line + 1
      PROVE  Gentle(layout(Len(b), Text(Terminated(b))))
  <2>1. b \in Seq(0 .. 255)
    BY BuffersAssumption
  <2>2. Len(b) \in 1 .. Line + 1
    BY <1>1, <2>1, EmptySeq, Elements
  <2>3. Terminated(b) \in Seq(0 .. 255)
    <3>1. Len(b) \in 1 .. Len(b) /\ NUL \in 0 .. 255
      BY <2>2 DEF NUL
    <3> QED BY <2>1, <3>1, ExceptSeq DEF Terminated
  <2>4. Text(Terminated(b)) \in Seq(0 .. 255)
    BY <2>3, TextTyped
  <2> QED BY <2>2, <2>4, LayoutGentle
<1>2. ASSUME NEW b \in Buffers PROVE Gentle(layout(0, Text(b)))
  <2>1. Text(b) \in Seq(0 .. 255)
    BY BuffersAssumption, TextTyped
  <2>2. 0 \in 0 .. Line + 1
    OBVIOUS
  <2> QED BY <2>1, <2>2, LayoutGentle
<1>3. Gentle(<<scrollDisplayRight>>)
  <2>1. scrollDisplayRight = [v |-> 28, mode |-> FALSE]
    BY DEF scrollDisplayRight, command
  <2>2. scrollDisplayRight.v = 28
    BY <2>1
  <2>3. scrollDisplayRight \in Sends
    BY <2>1 DEF Sends
  <2> QED BY <2>2, <2>3, SingleGentle DEF Tame
<1>4. ASSUME NEW i \in 1 .. Len(Greeting) PROVE Gentle(greet(Greeting[i]))
  <2>1. Greeting[i] \in
          [col : 0 .. Cols - 1, row : 0 .. NumLines - 1, text : Seq(0 .. 255)]
    BY GreetingAssumption, ElementOfSeq
  <2> QED BY <2>1, GreetGentle
<1>5. Gentle(<<setCursor(0, 0)>>)
  <2>1. 0 \in 0 .. Cols /\ 0 \in 0 .. 3
    BY DEF Cols
  <2>2. setCursor(0, 0) \in Sends /\ setCursor(0, 0).v \in 128 .. 255
    BY <2>1, ColumnsFit
  <2> QED BY <2>2, SingleGentle DEF Tame
<1>6. Gentle(<<>>)
  BY ClearTame, SingleGentle
<1> QED BY <1>1, <1>2, <1>3, <1>4, <1>5, <1>6

LEMMA OperationGentle ==
  ASSUME BusFits, NEW c \in Contexts, call[c] = "write" => c \in Users, NEW s, Sending(c, s)
  PROVE  Gentle(s)
<1>1. CASE call[c] = "write" /\ buf[c] # <<>> /\ s = layout(Len(buf[c]), Text(Terminated(buf[c])))
  <2>1. buf[c] \in Buffers /\ Len(buf[c]) <= Line + 1
    BY <1>1 DEF BusFits
  <2> QED BY <1>1, <2>1, Gentles, Zenon
<1>2. CASE greeted > 0 /\ s = greet(Greeting[greeted])
  <2>1. greeted \in 1 .. Len(Greeting)
    BY <1>2 DEF BusFits
  <2> QED BY <1>2, <2>1, Gentles, Zenon
<1> QED BY <1>1, <1>2, Gentles, Zenon DEF Sending

-----------------------------------------------------------------------------
(* What a message leaves in the display's memory                           *)

Message(s) ==
  /\ s \in Seq(Sends) /\ Len(s) \in 1 .. 2 * Line + 1 /\ s[1] = clear
  /\ \A k \in 1 .. Len(s) : k = 1 \/ s[k].mode

(* Each send of a message puts its character where it belongs.             *)
LEMMA WrittenStep ==
  ASSUME NEW c \in Display, Fit(c), NEW s, Message(s), NEW m \in 0 .. Len(s) - 1,
         Written(c, s, m), NEW e \in Executed(c, s[m + 1].mode, s[m + 1].v)
  PROVE  Written(e, s, m + 1)
<1> DEFINE x == s[m + 1]
           len == Len(s)
<1>1. len \in 1 .. 2 * Line + 1 /\ m + 1 \in 1 .. len /\ 2 * Line \in Nat
  BY DEF Message
<1>2. x \in Sends
  BY <1>1, ElementOfSeq DEF Message
<1>3. x.mode \in BOOLEAN /\ x.v \in 0 .. 255
  BY <1>2 DEF Sends
<1>4. e \in Executed(c, x.mode, x.v)
  OBVIOUS
<1>5. m # 0 => x.mode
  BY <1>1 DEF Message
<1>6. Written(e, s, m + 1) <=>
        /\ e.ram = [y \in Cells |-> IF y < m THEN s[y + 2].v ELSE Blank]
        /\ e.ac = m % (2 * Line)
  <2>1. m + 1 > 0 /\ (m + 1) - 1 = m
    OBVIOUS
  <2> QED BY <2>1 DEF Written
<1> HIDE DEF len
<1>7. CASE m = 0
  <2>1. x = clear
    BY <1>7 DEF Message
  <2>2. x.mode = FALSE /\ x.v = 1
    BY <2>1, ClearTame
  <2> HIDE DEF x
  <2>3. e \in Instructed(c, 1)
    BY <1>4, <2>2 DEF Executed
  <2>4. e.ram = [y \in Cells |-> Blank] /\ e.ac = 0
    BY <2>3, ClearedModes
  <2>5. 0 % (2 * Line) = 0
    BY <1>1
  <2>6. [y \in Cells |-> IF y < 0 THEN s[y + 2].v ELSE Blank] = [y \in Cells |-> Blank]
    BY DEF Cells
  <2> QED BY <1>6, <1>7, <2>4, <2>5, <2>6
<1>8. CASE m # 0
  <2> DEFINE r == c.ram
  <2>1. /\ r = [y \in Cells |-> IF y < m - 1 THEN s[y + 2].v ELSE Blank]
        /\ c.ac = (m - 1) % (2 * Line)
    BY <1>8 DEF Written
  <2>2. m - 1 \in Cells /\ (m - 1) % (2 * Line) = m - 1
    BY <1>1, <1>8 DEF Cells
  <2>3. c.ac = m - 1 /\ c.ac \in Cells
    BY <2>1, <2>2
  <2> HIDE DEF x, r
  <2>4. e = Wrote(c, x.v)
    BY <1>4, <1>5, <1>8 DEF Executed
  <2>5. e.ram = [r EXCEPT ![m - 1] = x.v] /\ e.ac = ((m - 1) + 1) % (2 * Line)
    BY <1>3, <2>3, <2>4, WroteTyped, ZenonT(60) DEF Fit, r
  <2>6. s[m - 1 + 2].v = x.v
    <3>1. m - 1 + 2 = m + 1
      OBVIOUS
    <3> QED BY <3>1 DEF x
  <2> DEFINE w == [y \in Cells |-> IF y < m THEN s[y + 2].v ELSE Blank]
  <2>7. [r EXCEPT ![m - 1] = x.v] = w
    <3> DEFINE u == [r EXCEPT ![m - 1] = x.v]
    <3>1. u = [y \in Cells |-> IF y = m - 1 THEN x.v ELSE r[y]]
      BY <2>1
    <3>2. \A y \in Cells : r[y] = IF y < m - 1 THEN s[y + 2].v ELSE Blank
      BY <2>1
    <3> HIDE DEF u
    <3>3. ASSUME NEW y \in Cells
          PROVE  (IF y = m - 1 THEN x.v ELSE r[y]) = IF y < m THEN s[y + 2].v ELSE Blank
      <4>1. CASE y = m - 1
        <5>1. y < m
          BY <4>1
        <5>2. s[y + 2].v = x.v
          BY <2>6, <4>1
        <5> QED BY <4>1, <5>1, <5>2
      <4>2. CASE y # m - 1
        <5>1. y < m - 1 <=> y < m
          BY <4>2 DEF Cells
        <5> QED BY <3>2, <4>2, <5>1
      <4> QED BY <4>1, <4>2
    <3> QED BY <3>1, <3>3 DEF u
  <2>8. (m - 1) + 1 = m
    OBVIOUS
  <2> QED BY <1>6, <2>5, <2>7, <2>8
<1> QED BY <1>7, <1>8

LEMMA WrittenStays ==
  ASSUME NEW d, NEW e, SameText(e, d), NEW s, NEW m, Written(d, s, m)
  PROVE  Written(e, s, m)
BY DEF SameText, Written

LEMMA FitStays ==
  ASSUME NEW d, NEW e, SameModes(e, d), Fit(d)
  PROVE  Fit(e)
BY DEF SameModes, Fit

(* One byte of an operation on an initialised display.                     *)
LEMMA OperationStep ==
  ASSUME NEW d \in Display, Fit(d), NEW s, Gentle(s), NEW j \in 0 .. 6 * Len(s) - 1,
         Within(d, s, j), NEW light \in BOOLEAN, NEW e \in Received(d, Bytes(s)[j + 1], light)
  PROVE  /\ Fit(e) /\ Within(e, s, j + 1)
         /\ Message(s) /\ Written(d, s, j \div 6) => Written(e, s, (j + 1) \div 6)
<1> DEFINE m == j \div 6
           x == s[m + 1]
<1>1. s \in Seq(Sends) /\ (\A k \in 1 .. Len(s) : Tame(s[k])) /\ \A k \in 1 .. Len(s) : Four(s[k])
  BY TameFour DEF Gentle
<1>2. Len(s) \in Nat
  BY <1>1, Elements
<1>3. Bytes(s)[j + 1] = SendPins(s[m + 1], j % 6)
  BY <1>1, BytesOf
<1>4. /\ Within(e, s, j + 1)
      /\ j % 6 < 5 => SameModes(e, d) /\ SameText(e, d)
      /\ j % 6 = 5 => \E c \in Display :
           /\ Aligned(c) /\ SameModes(c, d) /\ SameText(c, d)
           /\ e \in Executed(c, s[m + 1].mode, s[m + 1].v)
  BY <1>1, <1>3, WithinStep
<1>5. j \in Nat
  BY <1>2
<1>6. /\ j % 6 \in 0 .. 5
      /\ j % 6 < 5 => (j + 1) \div 6 = m
      /\ j % 6 = 5 => (j + 1) \div 6 = m + 1
  BY <1>5, ByteOf
<1>7. m \in 0 .. Len(s) - 1 /\ m + 1 \in 1 .. Len(s)
  BY <1>2, SendOf
<1> HIDE DEF m
<1>8. x \in Sends /\ Tame(x)
  BY <1>1, <1>7, ElementOfSeq
<1>9. CASE j % 6 < 5
  <2>1. Fit(e)
    BY <1>4, <1>9, FitStays
  <2>2. Written(d, s, m) => Written(e, s, (j + 1) \div 6)
    BY <1>4, <1>6, <1>9, WrittenStays
  <2> QED BY <1>4, <2>1, <2>2 DEF m
<1>10. CASE j % 6 = 5
  <2>1. PICK c \in Display :
           /\ Aligned(c) /\ SameModes(c, d) /\ SameText(c, d)
           /\ e \in Executed(c, s[m + 1].mode, s[m + 1].v)
    BY <1>4, <1>10
  <2>2. Fit(c)
    BY <2>1, FitStays
  <2>3. Fit(e)
    BY <1>8, <2>1, <2>2, TameEnds
  <2>4. ASSUME Message(s), Written(d, s, m) PROVE Written(e, s, (j + 1) \div 6)
    <3>1. Written(c, s, m)
      BY <2>1, <2>4, WrittenStays
    <3>2. Written(e, s, m + 1)
      BY <1>7, <2>1, <2>2, <2>4, <3>1, WrittenStep
    <3> QED BY <1>6, <1>10, <3>2
  <2> QED BY <1>4, <2>3, <2>4 DEF m
<1> QED BY <1>6, <1>9, <1>10

(* A plain message, and what is in the display once it is written.         *)
LEMMA PlainMessage ==
  ASSUME NEW b \in Seq(0 .. 255), NEW n \in 0 .. Line, Len(b) = n + 1,
         \A k \in 1 .. n : b[k] # NUL, NEW s, s = layout(n + 1, Text(Terminated(b)))
  PROVE  /\ Message(s) /\ Len(s) = 1 + Line + n
         /\ \A x \in 0 .. Line + n - 1 :
              s[x + 2].v = IF x % Line < n THEN b[(x % Line) + 1] ELSE Blank
<1> DEFINE t == Text(Terminated(b))
           c == Chars(n + 1, t)
<1>1. t \in Seq(0 .. 255) /\ Len(t) = n /\ \A k \in 1 .. n : t[k] = b[k]
  <2>1. n \in Nat
    OBVIOUS
  <2> QED BY <2>1, PlainText, Zenon
<1>2. n + 1 \in 0 .. Line + 1 /\ n \in Nat /\ n + 1 - 1 = n /\ Line \in Nat /\ Line > 0
  OBVIOUS
<1>3. s = layout(n + 1, t)
  OBVIOUS
<1> HIDE DEF t
<1>4. /\ c \in Seq(0 .. 255) /\ Len(c) = n + (Line - ((n + 1) - 1)) + n
      /\ \A i \in 1 .. n : c[i] = t[i]
      /\ \A i \in n + 1 .. n + (Line - ((n + 1) - 1)) : c[i] = Blank
      /\ \A i \in n + (Line - ((n + 1) - 1)) + 1 .. n + (Line - ((n + 1) - 1)) + n :
           c[i] = t[i - (n + (Line - ((n + 1) - 1)))]
  BY <1>1, <1>2, CharsTyped
<1> HIDE DEF c
<1>5. n + (Line - ((n + 1) - 1)) = Line
  BY <1>2
<1>6. /\ Len(c) = Line + n
      /\ \A i \in 1 .. n : c[i] = t[i]
      /\ \A i \in n + 1 .. Line : c[i] = Blank
      /\ \A i \in Line + 1 .. Line + n : c[i] = t[i - Line]
  BY <1>4, <1>5, Zenon
<1>7. /\ s \in Seq(Sends) /\ Len(s) = Len(c) + 1 /\ s[1] = clear
      /\ \A k \in 1 .. Len(s) : k = 1 \/ s[k].mode
      /\ \A k \in 1 .. Len(c) : s[k + 1].v = c[k]
  <2> DEFINE l == layout(n + 1, t)
  <2>1. /\ l \in Seq(Sends) /\ Len(l) = Len(c) + 1 /\ l[1] = clear
        /\ \A k \in 1 .. Len(l) : k = 1 \/ l[k].mode
        /\ \A k \in 1 .. Len(c) : l[k + 1].v = c[k]
    BY <1>1, <1>2, LayoutTyped, Zenon DEF c
  <2> QED BY <1>3, <2>1, Zenon
<1>8. Len(s) = 1 + Line + n
  <2>1. Len(s) = (Line + n) + 1
    BY <1>6, <1>7, Zenon
  <2>2. (Line + n) + 1 = 1 + Line + n
    OBVIOUS
  <2> QED BY <2>1, <2>2, Zenon
<1>9. Message(s)
  <2>1. 1 + Line + n \in 1 .. 2 * Line + 1
    OBVIOUS
  <2> QED BY <1>7, <1>8, <2>1, Zenon DEF Message
<1>10. ASSUME NEW x \in 0 .. Line + n - 1
       PROVE  s[x + 2].v = IF x % Line < n THEN b[(x % Line) + 1] ELSE Blank
  <2>1. x + 1 \in 1 .. Len(c) /\ x + 2 = (x + 1) + 1
    BY <1>2, <1>6
  <2>2. s[x + 2].v = c[x + 1]
    BY <1>7, <2>1, Zenon
  <2>3. CASE x < n
    <3>1. x % Line = x /\ x + 1 \in 1 .. n
      BY <1>2, <2>3
    <3>2. c[x + 1] = b[x + 1]
      BY <1>1, <1>6, <3>1
    <3> QED BY <2>2, <2>3, <3>1, <3>2
  <2>4. CASE x >= n /\ x < Line
    <3>1. x % Line = x /\ x + 1 \in n + 1 .. Line /\ ~(x < n)
      BY <1>2, <2>4
    <3>2. c[x + 1] = Blank
      BY <1>6, <3>1
    <3> QED BY <2>2, <3>1, <3>2
  <2>5. CASE x >= Line
    <3>1. x - Line \in 0 .. Line - 1 /\ x = Line + (x - Line)
      BY <1>2, <2>5
    <3>2. \A y \in 0 .. Line - 1 : (Line + y) % Line = y
      BY <1>2
    <3>3. x % Line = x - Line
      BY <3>1, <3>2
    <3>4. x + 1 \in Line + 1 .. Line + n /\ (x + 1) - Line = (x - Line) + 1 /\ x - Line < n
          /\ (x - Line) + 1 \in 1 .. n
      BY <1>2, <2>5
    <3>5. c[x + 1] = t[(x - Line) + 1]
      BY <1>6, <3>4, Zenon
    <3>6. c[x + 1] = b[(x - Line) + 1]
      BY <1>1, <3>4, <3>5, Zenon
    <3> QED BY <2>2, <3>3, <3>4, <3>6
  <2>6. x < n \/ (x >= n /\ x < Line) \/ x >= Line
    BY <1>2
  <2> QED BY <2>3, <2>4, <2>5, <2>6, Zenon
<1> QED BY <1>8, <1>9, <1>10

LEMMA Wrapped == \A y \in 0 .. Line - 1 : (Line + y) % Line = y
OBVIOUS

(* The first n characters of b are on both lines, and nothing else is.     *)
Shown(d, b, n) ==
  d.ram = [c \in Cells |-> IF c % Line < n THEN b[(c % Line) + 1] ELSE Blank]

(* Once all of it is written, a message is what the display has.           *)
LEMMA MessageShown ==
  ASSUME NEW b \in Seq(0 .. 255), NEW n \in 0 .. Line, Len(b) = n + 1,
         \A k \in 1 .. n : b[k] # NUL, NEW s, s = layout(n + 1, Text(Terminated(b))),
         NEW d, Written(d, s, Len(s))
  PROVE  Shown(d, b, n)
<1>1. /\ Len(s) = 1 + Line + n
      /\ \A x \in 0 .. Line + n - 1 :
           s[x + 2].v = IF x % Line < n THEN b[(x % Line) + 1] ELSE Blank
  BY PlainMessage
<1>2. d.ram = [x \in Cells |-> IF x < Line + n THEN s[x + 2].v ELSE Blank]
  <2>1. 1 + Line + n > 0 /\ 1 + Line + n - 1 = Line + n
    OBVIOUS
  <2>2. Written(d, s, 1 + Line + n)
    BY <1>1, Zenon
  <2> DEFINE m == 1 + Line + n
  <2>5. m > 0 /\ Written(d, s, m)
    BY <2>1, <2>2
  <2> HIDE DEF m
  <2>6. d.ram = [x \in Cells |-> IF x < m - 1 THEN s[x + 2].v ELSE Blank]
    BY <2>5 DEF Written
  <2>3. d.ram = [x \in Cells |-> IF x < 1 + Line + n - 1 THEN s[x + 2].v ELSE Blank]
    BY <2>6 DEF m
  <2>4. \A x \in Cells : x < 1 + Line + n - 1 <=> x < Line + n
    BY DEF Cells
  <2> QED BY <2>3, <2>4
<1>3. ASSUME NEW x \in Cells
      PROVE  (IF x < Line + n THEN s[x + 2].v ELSE Blank)
               = IF x % Line < n THEN b[(x % Line) + 1] ELSE Blank
  <2>1. CASE x < Line + n
    <3>1. x \in 0 .. Line + n - 1
      BY <2>1 DEF Cells
    <3> QED BY <1>1, <2>1, <3>1
  <2>2. CASE ~(x < Line + n)
    <3>1. x - Line \in 0 .. Line - 1 /\ x = Line + (x - Line) /\ Line > 0 /\ Line \in Nat
      BY <2>2 DEF Cells
    <3>2. \A y \in 0 .. Line - 1 : (Line + y) % Line = y
      BY Wrapped
    <3>3. x % Line = x - Line
      BY <3>1, <3>2
    <3>4. ~(x % Line < n)
      BY <2>2, <3>1, <3>3
    <3> QED BY <2>2, <3>4
  <2> QED BY <2>1, <2>2
<1> QED BY <1>2, <1>3 DEF Shown

-----------------------------------------------------------------------------
(* Contexts and the display                                                *)

(* Step leaves d in its operation, at the same byte.                       *)
Keeps(d) ==
  /\ call'[d] = call[d] /\ todo'[d] = todo[d]
  /\ call[d] = "write" => buf'[d] = buf[d]
  /\ call[d] = "greet" => greeted' = greeted

(* Such a step leaves what is said of d and its operation.                 *)
LEMMA SendingKept ==
  ASSUME NEW d, call'[d] = call[d], call[d] = "write" => buf'[d] = buf[d],
         call[d] = "greet" => greeted' = greeted, NEW s
  PROVE  Sending(d, s)' <=> Sending(d, s)
BY DEF Sending

LEMMA PlainKept ==
  ASSUME NEW d, call'[d] = call[d], call[d] = "write" => buf'[d] = buf[d]
  PROVE  Plain(d)' <=> Plain(d)
BY DEF Plain

LEMMA UntouchedKept ==
  ASSUME NEW d, Keeps(d), Untouched(d)
  PROVE  Untouched(d)'
<1>1. CASE Idle(d)
  BY <1>1 DEF Keeps, Untouched, Idle
<1>2. CASE ~Idle(d)
  <2>1. PICK s : Sending(d, s) /\ todo[d] = Bytes(s)
    BY <1>2 DEF Untouched
  <2>2. Sending(d, s)'
    BY <2>1, SendingKept DEF Keeps
  <2>3. todo'[d] = Bytes(s)
    BY <2>1 DEF Keeps
  <2> QED BY <2>2, <2>3 DEF Untouched
<1> QED BY <1>1, <1>2

LEMMA WorkingKept ==
  ASSUME NEW d, Keeps(d), lcd' = lcd, Working(d)
  PROVE  Working(d)'
<1>0. call'[d] = call[d] /\ todo'[d] = todo[d]
  BY DEF Keeps
<1>1. CASE Idle(d) /\ Rested(lcd)
  BY <1>0, <1>1 DEF Working, Idle
<1>2. CASE call[d] = "init" /\ \E j \in 0 .. 98 :
             todo[d] = Suffix(begin \o begin, j) /\ Initialising(lcd, j - 50)
  BY <1>0, <1>2 DEF Working
<1>3. CASE call[d] = "light" /\ Rested(lcd) /\ todo[d] \in {expanderReset, <<>>}
  BY <1>0, <1>3 DEF Working
<1>4. CASE Fit(lcd) /\ \E s : Sending(d, s) /\ \E j \in 0 .. 6 * Len(s) : Sent(d, s, j)
  <2>1. PICK s : Sending(d, s) /\ \E j \in 0 .. 6 * Len(s) : Sent(d, s, j)
    BY <1>4
  <2>2. PICK j \in 0 .. 6 * Len(s) : Sent(d, s, j)
    BY <2>1
  <2>3. Sending(d, s)'
    BY <2>1, SendingKept DEF Keeps
  <2>4. Plain(d)' <=> Plain(d)
    BY PlainKept DEF Keeps
  <2>5. Sent(d, s, j)'
    BY <1>0, <2>2, <2>4 DEF Sent
  <2>6. Fit(lcd')
    BY <1>4
  <2> QED BY <2>3, <2>5, <2>6 DEF Working
<1> QED BY <1>1, <1>2, <1>3, <1>4 DEF Working

(* A context that has written its last byte leaves the display rested.     *)
LEMMA Freed ==
  ASSUME BusFits, NEW c \in Contexts, call[c] = "write" => c \in Users,
         Working(c), todo[c] = <<>>
  PROVE  Rested(lcd)
<1>1. CASE Idle(c) /\ Rested(lcd)
  BY <1>1
<1>2. CASE call[c] = "init" /\ \E j \in 0 .. 98 :
             todo[c] = Suffix(begin \o begin, j) /\ Initialising(lcd, j - 50)
  <2>1. PICK j \in 0 .. 98 : todo[c] = Suffix(begin \o begin, j) /\ Initialising(lcd, j - 50)
    BY <1>2
  <2> DEFINE b == begin \o begin
  <2>2. b \in Seq(Lines) /\ Len(b) = 98
    BY Twice DEF Begun2
  <2>3. Suffix(b, j) = <<>>
    BY <2>1
  <2> HIDE DEF b
  <2>4. j \in 0 .. Len(b)
    BY <2>2
  <2>5. j = 98
    <3>1. j = Len(b)
      BY <2>2, <2>3, <2>4, Spent, Zenon
    <3> QED BY <2>2, <3>1
  <2>6. j - 50 = 48
    BY <2>5
  <2> QED BY <2>1, <2>6, InitEnds
<1>3. CASE Rested(lcd)
  BY <1>3
<1>4. CASE Fit(lcd) /\ \E s : Sending(c, s) /\ \E j \in 0 .. 6 * Len(s) : Sent(c, s, j)
  <2>1. PICK s : Sending(c, s) /\ \E j \in 0 .. 6 * Len(s) : Sent(c, s, j)
    BY <1>4
  <2>2. PICK j \in 0 .. 6 * Len(s) : Sent(c, s, j)
    BY <2>1
  <2>3. s \in Seq(Sends)
    BY <2>1, OperationGentle DEF Gentle
  <2> DEFINE b == Bytes(s)
  <2>4. b \in Seq(Lines) /\ Len(b) = 6 * Len(s)
    BY <2>3, BytesOf
  <2>5. Suffix(b, j) = <<>> /\ Within(lcd, s, j)
    BY <2>2 DEF Sent
  <2> HIDE DEF b
  <2>6. j \in 0 .. Len(b)
    BY <2>4
  <2>7. j = Len(b)
    BY <2>4, <2>5, <2>6, Spent, Zenon
  <2>8. Aligned(lcd)
    BY <2>4, <2>5, <2>7 DEF Within
  <2> QED BY <1>4, <2>8 DEF Rested
<1> QED BY <1>1, <1>2, <1>3, <1>4 DEF Working

(* One that has written nothing yet finds it so.                           *)
LEMMA Begins ==
  ASSUME BusFits, NEW c \in Contexts, call[c] = "write" => c \in Users,
         Rested(lcd), Untouched(c)
  PROVE  Working(c)
<1>1. CASE Idle(c)
  BY <1>1 DEF Working
<1>2. CASE ~Idle(c)
  <2>1. PICK s : Sending(c, s) /\ todo[c] = Bytes(s)
    BY <1>2 DEF Untouched
  <2>2. s \in Seq(Sends)
    BY <2>1, OperationGentle DEF Gentle
  <2>3. Bytes(s) \in Seq(Lines) /\ Len(s) \in Nat
    BY <2>2, BytesOf, Elements
  <2>4. 0 \in 0 .. Len(Bytes(s))
    BY <2>3, Elements
  <2>5. Suffix(Bytes(s), 0) = Bytes(s)
    BY <2>3, <2>4, Suffixes
  <2>6. Within(lcd, s, 0)
    <3>1. lcd \in Display /\ Aligned(lcd)
      BY DEF BusFits, Rested
    <3>2. 0 \div 6 = 0 /\ 0 % 6 = 0
      OBVIOUS
    <3>3. AtByte(lcd, s[0 + 1], 0)
      BY <3>1, AlignedByte
    <3> QED BY <3>1, <3>2, <3>3 DEF Within
  <2>7. Written(lcd, s, 0 \div 6)
    <3>1. 0 \div 6 = 0 /\ ~(0 > 0)
      OBVIOUS
    <3> QED BY <3>1 DEF Written
  <2>8. Sent(c, s, 0)
    BY <2>1, <2>5, <2>6, <2>7 DEF Sent
  <2>9. 0 \in 0 .. 6 * Len(s)
    BY <2>3
  <2>10. Fit(lcd)
    BY DEF Rested
  <2> QED BY <2>1, <2>8, <2>9, <2>10 DEF Working
<1> QED BY <1>1, <1>2

(* What a process writes that fits is a message.                           *)
LEMMA PlainBuffer ==
  ASSUME BusFits, NEW c \in Users, Plain(c), NEW s, Sending(c, s)
  PROVE  /\ buf[c] \in Seq(0 .. 255) /\ Len(buf[c]) - 1 \in 0 .. Line
         /\ \A k \in 1 .. Len(buf[c]) - 1 : buf[c][k] # NUL
         /\ s = layout(Len(buf[c]), Text(Terminated(buf[c])))
<1>1. call[c] = "write" /\ buf[c] # <<>> /\ NUL \notin {buf[c][k] : k \in 1 .. Len(buf[c]) - 1}
  BY DEF Plain
<1>2. s = layout(Len(buf[c]), Text(Terminated(buf[c])))
  BY <1>1 DEF Sending
<1>3. buf[c] \in Buffers /\ Len(buf[c]) <= Line + 1
  BY <1>1 DEF BusFits
<1>4. buf[c] \in Seq(0 .. 255)
  BY <1>3, BuffersAssumption
<1>5. Len(buf[c]) \in Nat /\ Len(buf[c]) # 0
  BY <1>1, <1>4, EmptySeq, Elements
<1>6. \A k \in 1 .. Len(buf[c]) - 1 : buf[c][k] # NUL
  BY <1>1, Zenon
<1> QED BY <1>2, <1>3, <1>4, <1>5, <1>6

LEMMA PlainSends ==
  ASSUME BusFits, NEW c \in Users, Plain(c), NEW s, Sending(c, s)
  PROVE  Message(s)
<1> DEFINE b == buf[c]
           n == Len(b) - 1
<1>1. b \in Seq(0 .. 255) /\ n \in 0 .. Line /\ \A k \in 1 .. n : b[k] # NUL
  BY PlainBuffer, Zenon
<1>2. s = layout(Len(b), Text(Terminated(b)))
  BY PlainBuffer, Zenon
<1>3. Len(b) = n + 1
  BY <1>1, Elements
<1> HIDE DEF b, n
<1>4. s = layout(n + 1, Text(Terminated(b)))
  BY <1>2, <1>3, Zenon
<1> QED BY <1>1, <1>3, <1>4, PlainMessage

(* The byte that turns the backlight on.                                   *)
LEMMA LightStep ==
  ASSUME NEW d \in Display, Rested(d), NEW light \in BOOLEAN,
         NEW e \in Received(d, expander(0, FALSE, FALSE), light)
  PROVE  Rested(e)
<1> DEFINE p == expander(0, FALSE, FALSE)
<1>1. p \in Lines
  BY DEF expander, Lines, Nibble
<1>2. p.en = FALSE
  BY DEF expander
<1> HIDE DEF p
<1>3. d.bits = 4 /\ d.half = <<>> /\ d.pins.en = FALSE /\ Fit(d)
  BY Halves DEF Rested, Aligned
<1>4. e \in Received(d, p, light)
  BY DEF p
<1>5. e.pins = p /\ e.half = d.half /\ e.bits = d.bits /\ SameModes(e, d)
  BY <1>1, <1>3, <1>4, SteadyStep
<1>6. Fit(e)
  BY <1>3, <1>5, FitStays
<1>7. e.bits = 4 /\ e.half = <<>> /\ ~e.pins.en
  BY <1>2, <1>3, <1>5
<1> QED BY <1>6, <1>7 DEF Rested, Aligned

(* The working context writes its next byte.                               *)
LEMMA ByteWorks ==
  ASSUME BusFits, NEW c \in Contexts, call[c] = "write" => c \in Users,
         Working(c), todo[c] # <<>>, todo'[c] = Tail(todo[c]),
         UNCHANGED <<call, buf, greeted>>, lcd' \in Received(lcd, Head(todo[c]), backlight)
  PROVE  Working(c)'
<1>0. lcd \in Display /\ Whole(lcd) /\ backlight \in BOOLEAN /\ ~Idle(c)
  BY DEF BusFits
<1>1. CASE call[c] = "init" /\ \E j \in 0 .. 98 :
             todo[c] = Suffix(begin \o begin, j) /\ Initialising(lcd, j - 50)
  <2>1. PICK j \in 0 .. 98 : todo[c] = Suffix(begin \o begin, j) /\ Initialising(lcd, j - 50)
    BY <1>1
  <2> DEFINE b == begin \o begin
  <2>2. b \in Seq(Lines) /\ Len(b) = 98
    BY Twice DEF Begun2
  <2>3. todo[c] = Suffix(b, j)
    BY <2>1
  <2> HIDE DEF b
  <2>4. j \in 0 .. Len(b)
    BY <2>2
  <2>5. j < Len(b)
    <3>1. b \in Seq(Lines)
      BY <2>2
    <3>2. Suffix(b, j) # <<>>
      BY <2>3, Zenon
    <3> QED BY <2>4, <3>1, <3>2, Unspent, Zenon
  <2>6. Head(Suffix(b, j)) = b[j + 1] /\ Tail(Suffix(b, j)) = Suffix(b, j + 1)
    BY <2>2, <2>4, <2>5, Suffixes, ZenonT(60)
  <2>7. Head(todo[c]) = b[j + 1] /\ todo'[c] = Suffix(b, j + 1)
    BY <2>3, <2>6, Zenon
  <2>8. lcd' \in Received(lcd, b[j + 1], backlight)
    BY <2>7, Zenon
  <2>9. j \in 0 .. 97 /\ j + 1 \in 0 .. 98 /\ (j + 1) - 50 = j - 49
    BY <2>2, <2>5
  <2>10. Initialising(lcd', j - 49)
    BY <1>0, <2>1, <2>8, <2>9, InitStep DEF b
  <2>11. call'[c] = "init"
    BY <1>1
  <2>12. call'[c] = "init" /\ \E i \in 0 .. 98 :
           todo'[c] = Suffix(begin \o begin, i) /\ Initialising(lcd', i - 50)
    BY <2>7, <2>9, <2>10, <2>11, Zenon DEF b
  <2> QED BY <2>12, Zenon DEF Working
<1>2. CASE call[c] = "light" /\ Rested(lcd) /\ todo[c] \in {expanderReset, <<>>}
  <2>1. todo[c] = <<expander(0, FALSE, FALSE)>>
    BY <1>2 DEF expanderReset
  <2>2. \A x : Head(<<x>>) = x /\ Tail(<<x>>) = <<>>
    OBVIOUS
  <2>3. todo'[c] = <<>> /\ lcd' \in Received(lcd, expander(0, FALSE, FALSE), backlight)
    BY <2>1, <2>2, Zenon
  <2>4. Rested(lcd')
    BY <1>0, <1>2, <2>3, LightStep
  <2>5. call'[c] = "light"
    BY <1>2
  <2> QED BY <2>3, <2>4, <2>5 DEF Working
<1>3. CASE Fit(lcd) /\ \E s : Sending(c, s) /\ \E j \in 0 .. 6 * Len(s) : Sent(c, s, j)
  <2>1. PICK s : Sending(c, s) /\ \E j \in 0 .. 6 * Len(s) : Sent(c, s, j)
    BY <1>3
  <2>2. PICK j \in 0 .. 6 * Len(s) : Sent(c, s, j)
    BY <2>1
  <2>3. Gentle(s) /\ s \in Seq(Sends)
    BY <2>1, OperationGentle DEF Gentle
  <2> DEFINE b == Bytes(s)
  <2>4. b \in Seq(Lines) /\ Len(b) = 6 * Len(s) /\ Len(s) \in Nat
    BY <2>3, BytesOf, Elements
  <2>5. /\ todo[c] = Suffix(b, j) /\ Within(lcd, s, j)
        /\ Plain(c) => Written(lcd, s, j \div 6)
    BY <2>2 DEF Sent
  <2> HIDE DEF b
  <2>6. j \in 0 .. Len(b)
    BY <2>4
  <2>7. j < Len(b)
    <3>1. b \in Seq(Lines)
      BY <2>4
    <3>2. Suffix(b, j) # <<>>
      BY <2>5, Zenon
    <3> QED BY <2>6, <3>1, <3>2, Unspent, Zenon
  <2>8. Head(Suffix(b, j)) = b[j + 1] /\ Tail(Suffix(b, j)) = Suffix(b, j + 1)
    BY <2>4, <2>6, <2>7, Suffixes, Zenon
  <2>9. Head(todo[c]) = b[j + 1] /\ todo'[c] = Suffix(b, j + 1)
    BY <2>5, <2>8, Zenon
  <2>10. lcd' \in Received(lcd, b[j + 1], backlight)
    BY <2>9, Zenon
  <2>11. j \in 0 .. 6 * Len(s) - 1 /\ j + 1 \in 0 .. 6 * Len(s)
    BY <2>4, <2>7
  <2>12. /\ Fit(lcd') /\ Within(lcd', s, j + 1)
         /\ Message(s) /\ Written(lcd, s, j \div 6) => Written(lcd', s, (j + 1) \div 6)
    BY <1>0, <1>3, <2>3, <2>5, <2>10, <2>11, OperationStep DEF b
  <2>13. Plain(c) => Message(s)
    BY <2>1, PlainSends DEF Plain
  <2>14. Plain(c)' <=> Plain(c)
    BY PlainKept
  <2>15. Sent(c, s, j + 1)'
    BY <2>5, <2>9, <2>12, <2>13, <2>14 DEF Sent, b
  <2>16. Sending(c, s)'
    BY <2>1, SendingKept
  <2> QED BY <2>11, <2>12, <2>15, <2>16 DEF Working
<1> QED BY <1>0, <1>1, <1>2, <1>3 DEF Working

-----------------------------------------------------------------------------
(* The driver and its work                                                 *)

USE UsersAssumption

Operations == {"none", "init", "light", "greet", "cursor", "probed",
               "write", "scroll", "remove"}

Control ==
  /\ call \in [Contexts -> Operations]
  /\ drv \in {"unloaded", "unbound", "bound", "failed"}
  /\ work \in Work /\ opened \subseteq Users

(* The worker is in the handler exactly while the work runs.               *)
WorkerFits == call["worker"] = IF work.running THEN "scroll" ELSE "none"

(* A process is in write() only with the device open.                      *)
UsersFit == \A u \in Users : call[u] = "none" \/ (call[u] = "write" /\ u \in opened)

(* The work is at rest until a probe schedules it, a remove has dequeued   *)
(* it and keeps it from queueing itself, and is through only once it is at *)
(* rest again.                                                             *)
DriverFits ==
  /\ call["driver"] \in {"none", "init", "light", "greet", "cursor", "probed", "remove"}
  /\ call["driver"] # "none" => drv = "unbound"
  /\ call["driver"] \in {"init", "light", "greet", "cursor"} => AtRest(work)
  /\ call["driver"] = "remove" => work.pending = "no" /\ work.canceling
  /\ drv = "unbound" /\ call["driver"] = "none" => AtRest(work)
  /\ drv = "unloaded" => AtRest(work) /\ opened = {}

QInv == Control /\ WorkerFits /\ UsersFit /\ DriverFits

-----------------------------------------------------------------------------
(* What the operations on a delayed work do to it.                         *)
LEMMA WorkOperations ==
  ASSUME NEW w \in Work
  PROVE  /\ ScheduleDelayed(Unqueued) \in Work /\ ~ScheduleDelayed(Unqueued).running
         /\ CancelBegun(w) \in Work /\ CancelBegun(w).pending = "no"
         /\ CancelBegun(w).canceling /\ CancelBegun(w).running = w.running
         /\ CancelEnded(w) \in Work /\ CancelEnded(w).pending = w.pending
         /\ CancelEnded(w).running = w.running
         /\ Expired(w) \in Work /\ Expired(w).running = w.running
         /\ Begun(w) \in Work /\ Begun(w).running
         /\ Ended(ModDelayed(w, "later")) \in Work
         /\ ~Ended(ModDelayed(w, "later")).running
         /\ w.canceling => /\ Ended(ModDelayed(w, "later")).pending = w.pending
                           /\ Ended(ModDelayed(w, "later")).canceling
<1>1. Unqueued \in Work /\ Unqueued.pending = "no" /\ ~Unqueued.canceling
      /\ ~Unqueued.running
  BY DEF Unqueued, Work
<1>2. ScheduleDelayed(Unqueued) = [Unqueued EXCEPT !.pending = "later"]
  BY <1>1 DEF ScheduleDelayed
<1>3. ScheduleDelayed(Unqueued) \in Work /\ ~ScheduleDelayed(Unqueued).running
  BY <1>1, <1>2 DEF Work
<1>4. /\ CancelBegun(w) \in Work /\ CancelBegun(w).pending = "no"
      /\ CancelBegun(w).canceling /\ CancelBegun(w).running = w.running
  BY DEF CancelBegun, Work
<1>5. /\ CancelEnded(w) \in Work /\ CancelEnded(w).pending = w.pending
      /\ CancelEnded(w).running = w.running
  BY DEF CancelEnded, Work
<1>6. Expired(w) \in Work /\ Expired(w).running = w.running
  BY DEF Expired, Work
<1>7. Begun(w) \in Work /\ Begun(w).running
  BY DEF Begun, Work
<1>8. /\ ModDelayed(w, "later") \in Work
      /\ w.canceling => ModDelayed(w, "later") = w
  BY DEF ModDelayed, Work
<1>9. ASSUME NEW v \in Work
      PROVE  /\ Ended(v) \in Work /\ ~Ended(v).running
             /\ Ended(v).pending = v.pending /\ Ended(v).canceling = v.canceling
  BY DEF Ended, Work
<1> QED BY <1>3, <1>4, <1>5, <1>6, <1>7, <1>8, <1>9

(* A context that enters or leaves an operation changes its own call only. *)
LEMMA OneCall ==
  ASSUME Control, NEW c \in Contexts, NEW op \in Operations,
         call' = [call EXCEPT ![c] = op]
  PROVE  /\ call' \in [Contexts -> Operations] /\ call'[c] = op
         /\ \A d \in Contexts : d # c => call'[d] = call[d]
BY DEF Control

LEMMA Names ==
  /\ "driver" \in Contexts /\ "worker" \in Contexts /\ Users \subseteq Contexts
  /\ \A u \in Users : u # "driver" /\ u # "worker"
BY DEF Contexts

-----------------------------------------------------------------------------
(* A step of the driver that leaves the files alone, and after which work  *)
(* and driver fit each other.                                              *)
LEMMA DriverStep ==
  ASSUME QInv, NEW op \in Operations, call' = [call EXCEPT !["driver"] = op],
         opened' = opened, work' \in Work, work'.running = work.running,
         drv' \in {"unloaded", "unbound", "bound", "failed"},
         call'["driver"] = op => DriverFits'
  PROVE  QInv'
<1>1. /\ call' \in [Contexts -> Operations] /\ call'["driver"] = op
      /\ \A d \in Contexts : d # "driver" => call'[d] = call[d]
  BY Names, OneCall DEF QInv
<1>2. Control' /\ DriverFits'
  BY <1>1 DEF QInv, Control
<1>3. WorkerFits'
  BY <1>1, Names DEF QInv, WorkerFits
<1>4. UsersFit'
  BY <1>1, Names DEF QInv, UsersFit
<1> QED BY <1>2, <1>3, <1>4 DEF QInv

LEMMA BeginProbeQuiet ==
  ASSUME QInv, BeginProbe
  PROVE  QInv'
<1>1. /\ call' = [call EXCEPT !["driver"] = "init"] /\ UNCHANGED <<work, opened, drv>>
      /\ drv = "unbound" /\ call["driver"] = "none"
  BY DEF BeginProbe, Enter, Idle
<1>2. AtRest(work) /\ work \in Work /\ work' \in Work
  BY <1>1 DEF QInv, DriverFits, Control
<1>3. call'["driver"] = "init" => DriverFits'
  BY <1>1, <1>2 DEF DriverFits, AtRest
<1> QED BY <1>1, <1>2, <1>3, DriverStep DEF Operations

(* The three that write, between the initialisation and the scheduling.    *)
LEMMA ProbeQuiet ==
  ASSUME QInv, ProbeLights \/ ProbeGreets \/ ProbeHomes
  PROVE  QInv'
<1>1. PICK op \in {"light", "greet", "cursor"} : call' = [call EXCEPT !["driver"] = op]
  BY DEF ProbeLights, ProbeGreets, ProbeHomes, Enter
<1>2. /\ UNCHANGED <<work, opened, drv>>
      /\ call["driver"] \in {"init", "light", "greet"}
  BY DEF ProbeLights, ProbeGreets, ProbeHomes, In
<1>3. AtRest(work) /\ work' \in Work /\ drv = "unbound"
  BY <1>2 DEF QInv, DriverFits, Control
<1>4. call'["driver"] = op => DriverFits'
  BY <1>2, <1>3 DEF DriverFits, AtRest
<1> QED BY <1>1, <1>2, <1>3, <1>4, DriverStep DEF Operations, QInv, Control

LEMMA ProbeSchedulesQuiet ==
  ASSUME QInv, ProbeSchedules
  PROVE  QInv'
<1>1. /\ call' = [call EXCEPT !["driver"] = "probed"] /\ UNCHANGED <<opened, drv>>
      /\ work' = ScheduleDelayed(Unqueued) /\ call["driver"] = "cursor"
  BY DEF ProbeSchedules, Enter, In
<1>2. AtRest(work) /\ work \in Work /\ drv = "unbound"
  BY <1>1 DEF QInv, DriverFits, Control
<1>3. work' \in Work /\ work'.running = work.running
  BY <1>1, <1>2, WorkOperations DEF AtRest, Work
<1>4. call'["driver"] = "probed" => DriverFits'
  BY <1>1, <1>2 DEF DriverFits
<1> QED BY <1>1, <1>2, <1>3, <1>4, DriverStep DEF Operations

LEMMA EndProbeQuiet ==
  ASSUME QInv, EndProbe
  PROVE  QInv'
<1>1. /\ call' = [call EXCEPT !["driver"] = "none"] /\ UNCHANGED <<work, opened>>
      /\ drv' \in {"bound", "failed"}
  BY DEF EndProbe, Leave
<1>2. work' \in Work
  BY <1>1 DEF QInv, Control
<1>3. call'["driver"] = "none" => DriverFits'
  BY <1>1 DEF DriverFits
<1> QED BY <1>1, <1>2, <1>3, DriverStep DEF Operations

LEMMA BeginRemoveQuiet ==
  ASSUME QInv, BeginRemove
  PROVE  QInv'
<1>1. /\ call' = [call EXCEPT !["driver"] = "remove"] /\ opened' = opened
      /\ drv' = "unbound" /\ work' = CancelBegun(work)
  BY DEF BeginRemove, Enter
<1>2. /\ work' \in Work /\ work'.running = work.running
      /\ work'.pending = "no" /\ work'.canceling
  BY <1>1, WorkOperations DEF QInv, Control
<1>3. call'["driver"] = "remove" => DriverFits'
  BY <1>1, <1>2 DEF DriverFits
<1> QED BY <1>1, <1>2, <1>3, DriverStep DEF Operations

LEMMA EndRemoveQuiet ==
  ASSUME QInv, EndRemove
  PROVE  QInv'
<1>1. /\ call' = [call EXCEPT !["driver"] = "none"] /\ UNCHANGED <<opened, drv>>
      /\ work' = CancelEnded(work) /\ call["driver"] = "remove" /\ ~work.running
  BY DEF EndRemove, Leave, In
<1>2. work.pending = "no" /\ drv = "unbound"
  BY <1>1 DEF QInv, DriverFits
<1>3. /\ work' \in Work /\ work'.running = work.running /\ work'.pending = work.pending
  BY <1>1, WorkOperations DEF QInv, Control
<1>4. call'["driver"] = "none" => DriverFits'
  BY <1>1, <1>2, <1>3 DEF DriverFits, AtRest
<1> QED BY <1>1, <1>2, <1>3, <1>4, DriverStep DEF Operations

(* The module comes and goes with the work at rest.                        *)
LEMMA ModuleQuiet ==
  ASSUME QInv, Unload \/ Load
  PROVE  QInv'
<1>1. /\ UNCHANGED <<call, work, opened>> /\ call["driver"] = "none"
      /\ AtRest(work) /\ opened = {} /\ drv' \in {"unloaded", "unbound"}
  BY DEF Unload, Load, Idle, QInv, DriverFits
<1> QED BY <1>1
    DEF QInv, Control, WorkerFits, UsersFit, DriverFits, AtRest

-----------------------------------------------------------------------------
(* The processes with the device open                                      *)

LEMMA UserStep ==
  ASSUME QInv, NEW u \in Users, NEW op \in {"none", "write"},
         call' = [call EXCEPT ![u] = op], op = "write" => u \in opened,
         UNCHANGED <<opened, drv, work>>
  PROVE  QInv'
<1>1. /\ call' \in [Contexts -> Operations] /\ call'[u] = op
      /\ \A d \in Contexts : d # u => call'[d] = call[d]
  BY Names, OneCall DEF QInv, Operations
<1>2. call'["driver"] = call["driver"] /\ call'["worker"] = call["worker"]
  BY <1>1, Names
<1>3. Control' /\ WorkerFits' /\ DriverFits'
  BY <1>1, <1>2 DEF QInv, Control, WorkerFits, DriverFits, AtRest
<1>4. UsersFit'
  BY <1>1, Names DEF QInv, UsersFit
<1> QED BY <1>3, <1>4 DEF QInv

LEMMA UserQuiet ==
  ASSUME QInv, NEW u \in Users, Open(u) \/ Write(u) \/ Return(u) \/ Close(u)
  PROVE  QInv'
<1>1. CASE Open(u)
  <2>1. /\ drv = "bound" /\ opened' = opened \union {u}
        /\ UNCHANGED <<call, drv, work>>
    BY <1>1 DEF Open
  <2> QED BY <2>1 DEF QInv, Control, WorkerFits, UsersFit, DriverFits, AtRest
<1>2. CASE Write(u)
  <2>1. /\ call' = [call EXCEPT ![u] = "write"] /\ u \in opened
        /\ UNCHANGED <<opened, drv, work>>
    BY <1>2 DEF Write, Enter
  <2> QED BY <2>1, UserStep
<1>3. CASE Return(u)
  BY <1>3, UserStep DEF Return, Leave
<1>4. CASE Close(u)
  <2>1. /\ call[u] = "none" /\ opened' = opened \ {u}
        /\ UNCHANGED <<call, drv, work>>
    BY <1>4 DEF Close, Idle
  <2> QED BY <2>1 DEF QInv, Control, WorkerFits, UsersFit, DriverFits, AtRest
<1> QED BY <1>1, <1>2, <1>3, <1>4

-----------------------------------------------------------------------------
(* The work                                                                *)

LEMMA TimerExpiresQuiet ==
  ASSUME QInv, TimerExpires
  PROVE  QInv'
<1>1. /\ work.pending = "later" /\ work' = Expired(work)
      /\ UNCHANGED <<call, opened, drv>>
  BY DEF TimerExpires
<1>2. work' \in Work /\ work'.running = work.running
  BY <1>1, WorkOperations DEF QInv, Control
<1>3. DriverFits'
  BY <1>1 DEF QInv, DriverFits, AtRest
<1> QED BY <1>1, <1>2, <1>3 DEF QInv, Control, WorkerFits, UsersFit

LEMMA BeginScrollQuiet ==
  ASSUME QInv, BeginScroll
  PROVE  QInv'
<1>1. /\ work.pending = "now" /\ work' = Begun(work)
      /\ call' = [call EXCEPT !["worker"] = "scroll"] /\ UNCHANGED <<opened, drv>>
  BY DEF BeginScroll, Runnable, Enter
<1>2. /\ call' \in [Contexts -> Operations] /\ call'["worker"] = "scroll"
      /\ \A d \in Contexts : d # "worker" => call'[d] = call[d]
  BY <1>1, Names, OneCall DEF QInv, Operations
<1>3. work' \in Work /\ work'.running
  BY <1>1, WorkOperations DEF QInv, Control
<1>4. Control' /\ WorkerFits'
  BY <1>1, <1>2, <1>3 DEF QInv, Control, WorkerFits
<1>5. UsersFit'
  BY <1>1, <1>2, Names DEF QInv, UsersFit
<1>6. DriverFits'
  BY <1>1, <1>2, Names DEF QInv, DriverFits, AtRest
<1> QED BY <1>4, <1>5, <1>6 DEF QInv

(* A handler that ends under a remove does not queue itself again.         *)
LEMMA EndScrollQuiet ==
  ASSUME QInv, EndScroll
  PROVE  QInv'
<1>1. /\ call["worker"] = "scroll" /\ work' = Ended(ModDelayed(work, "later"))
      /\ call' = [call EXCEPT !["worker"] = "none"] /\ UNCHANGED <<opened, drv>>
  BY DEF EndScroll, In, Leave
<1>2. /\ call' \in [Contexts -> Operations] /\ call'["worker"] = "none"
      /\ \A d \in Contexts : d # "worker" => call'[d] = call[d]
  BY <1>1, Names, OneCall DEF QInv, Operations
<1>3. /\ work' \in Work /\ ~work'.running
      /\ work.canceling => work'.pending = work.pending /\ work'.canceling
  BY <1>1, WorkOperations DEF QInv, Control
<1>4. Control' /\ WorkerFits'
  BY <1>1, <1>2, <1>3 DEF QInv, Control, WorkerFits
<1>5. UsersFit'
  BY <1>1, <1>2, Names DEF QInv, UsersFit
<1>6. work.running
  BY <1>1 DEF QInv, WorkerFits
<1>7. DriverFits'
  BY <1>1, <1>2, <1>3, <1>6, Names DEF QInv, DriverFits, AtRest
<1> QED BY <1>4, <1>5, <1>7 DEF QInv

-----------------------------------------------------------------------------
LEMMA InitQuiet == Init => QInv
<1> SUFFICES ASSUME Init PROVE QInv
  OBVIOUS
<1>1. work \in Work /\ AtRest(work) /\ ~work.running
  BY DEF Init, Unqueued, Work, AtRest
<1>2. \A c \in Contexts : call[c] = "none"
  BY DEF Init
<1>3. Control
  BY <1>1 DEF Init, Control, Operations
<1> QED BY <1>1, <1>2, <1>3, Names
    DEF Init, QInv, WorkerFits, UsersFit, DriverFits

LEMMA NextQuiet == QInv /\ [Next]_vars => QInv'
<1> SUFFICES ASSUME QInv, [Next]_vars PROVE QInv'
  OBVIOUS
<1>1. ASSUME UNCHANGED <<call, opened, drv, work>> PROVE QInv'
  BY <1>1 DEF QInv, Control, WorkerFits, UsersFit, DriverFits, AtRest
<1>2. ASSUME NEW c \in Contexts, WriteOneByte(c) \/ LoseByte(c) PROVE QInv'
  BY <1>1, <1>2 DEF WriteOneByte, LoseByte
<1>3. CASE UNCHANGED vars
  BY <1>1, <1>3 DEF vars
<1>4. CASE Next
  BY <1>2, <1>4, Names, BeginProbeQuiet, ProbeQuiet, ProbeSchedulesQuiet,
     EndProbeQuiet, BeginRemoveQuiet, EndRemoveQuiet, ModuleQuiet, UserQuiet,
     TimerExpiresQuiet, BeginScrollQuiet, EndScrollQuiet
  DEF Next, DriverProgress, WorkerProgress, UserProgress
<1> QED BY <1>3, <1>4

-----------------------------------------------------------------------------
(* The bus and its display stay as they are described                      *)

BeginsOf(c) ==
  BusFits /\ (call[c] = "write" => c \in Users) /\ Rested(lcd) /\ Untouched(c) => Working(c)

LEMMA BeginsNow == \A c \in Contexts : BeginsOf(c)
BY Begins DEF BeginsOf

LEMMA BeginsNext == \A c \in Contexts : BeginsOf(c)'
<1>1. (\A c \in Contexts : BeginsOf(c))'
  BY BeginsNow, PTL
<1> QED BY <1>1

(* Only processes write.                                                   *)
LEMMA Writers ==
  ASSUME QInv, NEW c \in Contexts, call[c] = "write"
  PROVE  c \in Users
<1>1. CASE c = "driver"
  BY <1>1 DEF QInv, DriverFits
<1>2. CASE c = "worker"
  BY <1>2 DEF QInv, WorkerFits
<1> QED BY <1>1, <1>2 DEF Contexts

WritersAre == QInv => \A c \in Contexts : call[c] = "write" => c \in Users

LEMMA WritersNext == WritersAre'
<1>1. WritersAre
  BY Writers DEF WritersAre
<1> QED BY <1>1, PTL

(* A step of c that finds or leaves it before an operation, while the      *)
(* others and the display stay where they are.                             *)
LEMMA TurnTaken ==
  ASSUME QInv, QInv', BusFits, BusFits', Undisturbed, NEW c \in Contexts,
         \A d \in Contexts \ {c} : Keeps(d), todo[c] = <<>>,
         lcd' = lcd, clean' = clean, Untouched(c)'
  PROVE  Undisturbed'
<1> SUFFICES ASSUME clean'
             PROVE  \E w \in Contexts :
                      Working(w)' /\ \A d \in Contexts \ {w} : Untouched(d)'
  BY DEF Undisturbed
<1>1. PICK w \in Contexts : Working(w) /\ \A d \in Contexts \ {w} : Untouched(d)
  BY DEF Undisturbed
<1>2. \A d \in Contexts \ {w, c} : Untouched(d)'
  BY <1>1, UntouchedKept
<1>3. CASE w = c
  <2>1. Rested(lcd)
    BY <1>1, <1>3, Writers, Freed
  <2>2. Rested(lcd')
    BY <2>1
  <2>3. call'[c] = "write" => c \in Users
    BY WritersNext DEF WritersAre
  <2>4. BeginsOf(c)'
    BY BeginsNext
  <2>5. Working(c)'
    BY <2>2, <2>3, <2>4 DEF BeginsOf
  <2> QED BY <1>2, <1>3, <2>5
<1>4. CASE w # c
  <2>1. Working(w)'
    BY <1>1, <1>4, WorkingKept
  <2> QED BY <1>2, <2>1
<1> QED BY <1>3, <1>4

(* A step that leaves every operation and the display where they are.      *)
LEMMA NothingBegun ==
  ASSUME BusFits, Undisturbed, UNCHANGED <<lcd, call, todo, buf, greeted, clean, lost>>,
         backlight' \in BOOLEAN
  PROVE  BusFits' /\ Undisturbed'
<1>1. BusFits'
  BY DEF BusFits, Idle
<1>2. \A d : Keeps(d)
  BY DEF Keeps
<1>3. Undisturbed'
  <2> SUFFICES ASSUME clean'
               PROVE  \E w \in Contexts :
                        Working(w)' /\ \A d \in Contexts \ {w} : Untouched(d)'
    BY DEF Undisturbed
  <2>1. PICK w \in Contexts : Working(w) /\ \A d \in Contexts \ {w} : Untouched(d)
    BY DEF Undisturbed
  <2>2. \A d \in Contexts \ {w} : Untouched(d)'
    BY <1>2, <2>1, UntouchedKept
  <2>3. Working(w)'
    BY <1>2, <2>1, WorkingKept
  <2> QED BY <2>2, <2>3
<1> QED BY <1>1, <1>3

(* What a context's step makes of call and todo.                           *)
LEMMA OneTurn ==
  ASSUME QInv, BusFits, NEW c \in Contexts, NEW op \in Operations,
         NEW bytes \in Seq(Lines), op = "none" => bytes = <<>>,
         call' = [call EXCEPT ![c] = op], todo' = [todo EXCEPT ![c] = bytes]
  PROVE  /\ todo' \in [Contexts -> Seq(Lines)]
         /\ \A d \in Contexts : call'[d] = "none" => todo'[d] = <<>>
         /\ call'[c] = op /\ todo'[c] = bytes
         /\ \A d \in Contexts \ {c} : call'[d] = call[d] /\ todo'[d] = todo[d]
<1>1. call \in [Contexts -> Operations] /\ todo \in [Contexts -> Seq(Lines)]
  BY DEF QInv, Control, BusFits
<1>2. \A d \in Contexts : call[d] = "none" => todo[d] = <<>>
  BY DEF BusFits, Idle
<1> QED BY <1>1, <1>2

(* An operation of c begins, goes on or ends; c's and no one else's buffer *)
(* or messages may change.                                                 *)
LEMMA Turned ==
  ASSUME QInv, QInv', BusFits, Undisturbed, NEW c \in Contexts, NEW op \in Operations,
         NEW bytes \in Seq(Lines), op = "none" => bytes = <<>>,
         call' = [call EXCEPT ![c] = op], todo' = [todo EXCEPT ![c] = bytes],
         todo[c] = <<>>, UNCHANGED <<lcd, lost, clean>>, backlight' \in BOOLEAN,
         buf' \in [Users -> Buffers \union {<<>>}],
         \A u \in Users : Len(buf'[u]) <= Line + 1,
         \A u \in Users \ {c} : buf'[u] = buf[u],
         greeted' \in 0 .. Len(Greeting), c # "driver" => greeted' = greeted,
         c = "driver" /\ op = "greet" => greeted' > 0,
         call'[c] = op /\ todo'[c] = bytes => Untouched(c)'
  PROVE  BusFits' /\ Undisturbed'
<1>1. /\ todo' \in [Contexts -> Seq(Lines)]
      /\ \A d \in Contexts : call'[d] = "none" => todo'[d] = <<>>
      /\ call'[c] = op /\ todo'[c] = bytes
      /\ \A d \in Contexts \ {c} : call'[d] = call[d] /\ todo'[d] = todo[d]
  BY OneTurn
<1>2. call'["driver"] = "greet" => greeted' > 0
  BY <1>1, Names DEF BusFits
<1>3. BusFits'
  <2>1. lcd' \in Display /\ Whole(lcd') /\ lost' \in 0 .. MaxLost /\ clean' \in BOOLEAN
    BY DEF BusFits
  <2> QED BY <1>1, <1>2, <2>1 DEF BusFits, Idle
<1>4. \A d \in Contexts \ {c} : Keeps(d)
  <2> TAKE d \in Contexts \ {c}
  <2>1. call[d] = "write" => d \in Users \ {c}
    BY Writers
  <2>2. call[d] = "greet" => d = "driver"
    BY DEF Contexts, QInv, WorkerFits, UsersFit
  <2> QED BY <1>1, <2>1, <2>2 DEF Keeps
<1>5. Untouched(c)'
  BY <1>1
<1> QED BY <1>3, <1>4, <1>5, TurnTaken

-----------------------------------------------------------------------------
(* probe, remove, write() and the work handler take their turns            *)

LEMMA GentleBytes ==
  ASSUME NEW s, Gentle(s)
  PROVE  Bytes(s) \in Seq(Lines)
BY BytesOf DEF Gentle

(* An operation that sends nothing has nothing to write.                   *)
LEMMA NoBytes == Bytes(<<>>) = <<>>
<1>1. <<>> \in Seq(Sends) /\ 6 * Len(<<>>) = 0
  OBVIOUS
<1>2. Bytes(<<>>) \in Seq(Lines) /\ Len(Bytes(<<>>)) = 0
  BY <1>1, BytesOf
<1> QED BY <1>2, EmptySeq

(* An operation other than a write or a greeting begins.                   *)
LEMMA Entered ==
  ASSUME QInv, QInv', BusFits, Undisturbed, NEW c \in Contexts,
         NEW op \in Operations \ {"none", "greet"}, NEW s, Gentle(s),
         Enter(c, op, Bytes(s)), todo[c] = <<>>,
         UNCHANGED <<lcd, backlight, buf, lost, clean>>,
         greeted' \in 0 .. Len(Greeting), c # "driver" => greeted' = greeted,
         call'[c] = op => Sending(c, s)'
  PROVE  BusFits' /\ Undisturbed'
<1> DEFINE b == Bytes(s)
<1>1. b \in Seq(Lines)
  BY GentleBytes
<1>2. call'[c] = op /\ todo'[c] = b => Untouched(c)'
  BY DEF Untouched
<1>3. call' = [call EXCEPT ![c] = op] /\ todo' = [todo EXCEPT ![c] = b]
  BY DEF Enter
<1> HIDE DEF b
<1>4. backlight' \in BOOLEAN /\ buf' \in [Users -> Buffers \union {<<>>}]
      /\ \A u \in Users : Len(buf'[u]) <= Line + 1
  BY DEF BusFits
<1> QED BY <1>1, <1>2, <1>3, <1>4, Turned

(* An operation ends.                                                      *)
LEMMA Left ==
  ASSUME QInv, QInv', BusFits, Undisturbed, NEW c \in Contexts, Leave(c), todo[c] = <<>>,
         UNCHANGED <<lcd, backlight, greeted, lost, clean>>,
         buf' \in [Users -> Buffers \union {<<>>}],
         \A u \in Users : Len(buf'[u]) <= Line + 1,
         \A u \in Users \ {c} : buf'[u] = buf[u]
  PROVE  BusFits' /\ Undisturbed'
<1>1. call' = [call EXCEPT ![c] = "none"] /\ todo' = [todo EXCEPT ![c] = <<>>]
  BY DEF Leave, BusFits
<1>2. <<>> \in Seq(Lines) /\ "none" \in Operations
  BY DEF Operations
<1>3. call'[c] = "none" => Untouched(c)'
  BY DEF Untouched, Idle
<1>4. backlight' \in BOOLEAN /\ greeted' \in 0 .. Len(Greeting)
  BY DEF BusFits
<1> QED BY <1>1, <1>2, <1>3, <1>4, Turned

(* Probe goes on to the next greeting, and to the cursor.                  *)
LEMMA ProbeGreetsFits ==
  ASSUME QInv, QInv', BusFits, Undisturbed, ProbeGreets
  PROVE  BusFits' /\ Undisturbed'
<1>1. PICK i \in 1 .. Len(Greeting) : greeted' = i
  BY GreetingAssumption, LenProperties DEF ProbeGreets, BusFits
<1> DEFINE s == greet(Greeting[i])
           b == Bytes(s)
<1>2. b \in Seq(Lines)
  BY <1>1, Gentles, GentleBytes, Zenon
<1>3. call'["driver"] = "greet" => Sending("driver", s)'
  BY <1>1 DEF Sending
<1>4. call'["driver"] = "greet" /\ todo'["driver"] = b => Untouched("driver")'
  BY <1>3 DEF Untouched
<1>5. /\ call' = [call EXCEPT !["driver"] = "greet"]
      /\ todo' = [todo EXCEPT !["driver"] = b] /\ todo["driver"] = <<>>
      /\ UNCHANGED <<lcd, backlight, buf, lost, clean>>
  BY <1>1 DEF ProbeGreets, Enter, In
<1> HIDE DEF s, b
<1>6. backlight' \in BOOLEAN /\ buf' \in [Users -> Buffers \union {<<>>}]
      /\ \A u \in Users : Len(buf'[u]) <= Line + 1 /\ buf'[u] = buf[u]
  BY <1>5 DEF BusFits
<1>7. greeted' \in 0 .. Len(Greeting) /\ greeted' > 0
  BY <1>1
<1> QED BY <1>2, <1>4, <1>5, <1>6, <1>7, Names, Turned DEF Operations

LEMMA ProbeHomesFits ==
  ASSUME QInv, QInv', BusFits, Undisturbed, ProbeHomes
  PROVE  BusFits' /\ Undisturbed'
<1> DEFINE s == <<setCursor(0, 0)>>
<1>1. Gentle(s)
  BY Gentles
<1>2. call'["driver"] = "cursor" => Sending("driver", s)'
  BY DEF Sending
<1>3. Enter("driver", "cursor", Bytes(s)) /\ todo["driver"] = <<>>
      /\ UNCHANGED <<lcd, backlight, buf, lost, clean>>
  BY DEF ProbeHomes, In
<1> HIDE DEF s
<1>4. greeted' \in 0 .. Len(Greeting)
  BY GreetingAssumption, LenProperties DEF ProbeHomes
<1>5. "cursor" \in Operations \ {"none", "greet"}
  BY DEF Operations
<1> QED BY <1>1, <1>2, <1>3, <1>4, <1>5, Names, Entered

(* Work is scheduled, or a remove begins: nothing is sent.                 *)
LEMMA NothingSent ==
  ASSUME QInv, QInv', BusFits, Undisturbed, NEW op \in {"probed", "remove"},
         Enter("driver", op, <<>>), todo["driver"] = <<>>,
         UNCHANGED <<lcd, backlight, buf, greeted, lost, clean>>
  PROVE  BusFits' /\ Undisturbed'
<1>1. Gentle(<<>>) /\ Enter("driver", op, Bytes(<<>>))
  BY Gentles, NoBytes
<1>2. call'["driver"] = op => Sending("driver", <<>>)'
  BY DEF Sending
<1>3. greeted' \in 0 .. Len(Greeting)
  BY DEF BusFits
<1>4. op \in Operations \ {"none", "greet"}
  BY DEF Operations
<1> QED BY <1>1, <1>2, <1>3, <1>4, Names, Entered

(* The work handler begins, and a process its write.                       *)
LEMMA BeginScrollFits ==
  ASSUME QInv, QInv', BusFits, Undisturbed, BeginScroll
  PROVE  BusFits' /\ Undisturbed'
<1> DEFINE s == <<scrollDisplayRight>>
<1>1. Gentle(s)
  BY Gentles
<1>2. call'["worker"] = "scroll" => Sending("worker", s)'
  BY DEF Sending
<1>3. ~work.running
  BY DEF BeginScroll, Runnable
<1>4. todo["worker"] = <<>>
  BY <1>3, Names DEF QInv, WorkerFits, BusFits, Idle
<1>5. Enter("worker", "scroll", Bytes(s))
      /\ UNCHANGED <<lcd, backlight, buf, greeted, lost, clean>>
  BY DEF BeginScroll
<1> HIDE DEF s
<1>6. greeted' \in 0 .. Len(Greeting)
  BY <1>5 DEF BusFits
<1>7. "scroll" \in Operations \ {"none", "greet"}
  BY DEF Operations
<1> QED BY <1>1, <1>2, <1>4, <1>5, <1>6, <1>7, Names, Entered

LEMMA WriteFits ==
  ASSUME QInv, QInv', BusFits, Undisturbed, NEW u \in Users, Write(u)
  PROVE  BusFits' /\ Undisturbed'
<1>1. PICK b \in Buffers :
        /\ Len(b) <= Line + 1 /\ buf' = [buf EXCEPT ![u] = b]
        /\ IF b # <<>>
           THEN Enter(u, "write", Bytes(layout(Len(b), Text(Terminated(b)))))
           ELSE \E stale \in Buffers :
                  Enter(u, "write", Bytes(layout(0, Text(stale))))
  BY DEF Write
<1>2. buf' \in [Users -> Buffers \union {<<>>}] /\ buf'[u] = b
      /\ (\A v \in Users : Len(buf'[v]) <= Line + 1) /\ \A v \in Users \ {u} : buf'[v] = buf[v]
  BY <1>1 DEF BusFits
<1>3. PICK s : /\ Gentle(s) /\ Enter(u, "write", Bytes(s))
               /\ \/ b # <<>> /\ s = layout(Len(b), Text(Terminated(b)))
                  \/ b = <<>> /\ \E stale \in Buffers : s = layout(0, Text(stale))
  <2>1. CASE b # <<>>
    <3>1. Enter(u, "write", Bytes(layout(Len(b), Text(Terminated(b)))))
      BY <1>1, <2>1, Zenon
    <3>2. Gentle(layout(Len(b), Text(Terminated(b))))
      BY <1>1, <2>1, Gentles, Zenon
    <3> QED BY <2>1, <3>1, <3>2, Zenon
  <2>2. CASE b = <<>>
    <3>1. PICK stale \in Buffers : Enter(u, "write", Bytes(layout(0, Text(stale))))
      BY <1>1, <2>2, Zenon
    <3>2. Gentle(layout(0, Text(stale)))
      BY Gentles, Zenon
    <3> QED BY <2>2, <3>1, <3>2, Zenon
  <2> QED BY <2>1, <2>2
<1>4. call'[u] = "write" => Sending(u, s)'
  BY <1>2, <1>3, Zenon DEF Sending
<1> DEFINE y == Bytes(s)
<1>5. y \in Seq(Lines)
  BY <1>3, GentleBytes
<1>6. call' = [call EXCEPT ![u] = "write"] /\ todo' = [todo EXCEPT ![u] = y]
  BY <1>3 DEF Enter
<1>7. call'[u] = "write" /\ todo'[u] = y => Untouched(u)'
  BY <1>4 DEF Untouched
<1> HIDE DEF y
<1>8. UNCHANGED <<lcd, backlight, greeted, lost, clean>> /\ todo[u] = <<>>
  BY Names DEF Write, BusFits
<1>9. backlight' \in BOOLEAN /\ greeted' \in 0 .. Len(Greeting) /\ u \in Contexts
      /\ u # "driver"
  BY <1>8, Names DEF BusFits
<1>10. "write" \in Operations /\ "write" # "none"
  BY DEF Operations
<1> QED BY <1>2, <1>5, <1>6, <1>7, <1>8, <1>9, <1>10, Turned

(* write() returns, and the others end.                                    *)
LEMMA ReturnFits ==
  ASSUME QInv, QInv', BusFits, Undisturbed, NEW u \in Users, Return(u)
  PROVE  BusFits' /\ Undisturbed'
<1>1. buf' = [buf EXCEPT ![u] = <<>>] /\ Leave(u) /\ todo[u] = <<>>
      /\ UNCHANGED <<lcd, backlight, greeted, lost, clean>>
  BY DEF Return, In
<1>2. Len(<<>>) = 0 /\ 0 <= Line + 1
  OBVIOUS
<1>3. buf' \in [Users -> Buffers \union {<<>>}]
      /\ (\A v \in Users : Len(buf'[v]) <= Line + 1) /\ \A v \in Users \ {u} : buf'[v] = buf[v]
  BY <1>1, <1>2 DEF BusFits
<1>4. u \in Contexts
  BY Names
<1> QED BY <1>1, <1>3, <1>4, Left

LEMMA LeaveFits ==
  ASSUME QInv, QInv', BusFits, Undisturbed, EndProbe \/ EndRemove \/ EndScroll
  PROVE  BusFits' /\ Undisturbed'
<1>1. PICK c \in {"driver", "worker"} : Leave(c) /\ todo[c] = <<>>
  BY DEF EndProbe, EndRemove, EndScroll, In
<1>2. UNCHANGED <<lcd, backlight, buf, greeted, lost, clean>>
  BY DEF EndProbe, EndRemove, EndScroll
<1>3. buf' \in [Users -> Buffers \union {<<>>}]
      /\ \A v \in Users : Len(buf'[v]) <= Line + 1 /\ buf'[v] = buf[v]
  BY <1>2 DEF BusFits
<1>4. c \in Contexts
  BY Names
<1> QED BY <1>1, <1>2, <1>3, <1>4, Left

-----------------------------------------------------------------------------
(* The initialisation begins and ends                                      *)

LEMMA BeginProbeFits ==
  ASSUME QInv, BusFits, BeginProbe
  PROVE  BusFits' /\ Undisturbed'
<1> DEFINE b == begin \o begin
<1>1. b \in Seq(Lines) /\ Len(b) \in Nat
  BY Twice DEF Begun2
<1>2. /\ call' = [call EXCEPT !["driver"] = "init"]
      /\ todo' = [todo EXCEPT !["driver"] = b]
      /\ UNCHANGED <<lcd, backlight, buf, greeted, lost>>
      /\ clean' = Alone("driver")
  BY DEF BeginProbe, Enter
<1>3. Suffix(b, 0) = b
  <2>1. 0 \in 0 .. Len(b)
    BY <1>1
  <2> QED BY <1>1, <2>1, Suffixes
<1> HIDE DEF b
<1>4. /\ todo' \in [Contexts -> Seq(Lines)]
      /\ \A d \in Contexts : call'[d] = "none" => todo'[d] = <<>>
      /\ call'["driver"] = "init" /\ todo'["driver"] = b
      /\ \A d \in Contexts \ {"driver"} : call'[d] = call[d] /\ todo'[d] = todo[d]
  BY <1>1, <1>2, Names, OneTurn DEF Operations
<1>5. BusFits'
  <2>1. /\ lcd' \in Display /\ Whole(lcd') /\ lost' \in 0 .. MaxLost /\ backlight' \in BOOLEAN
        /\ buf' \in [Users -> Buffers \union {<<>>}]
        /\ \A u \in Users : Len(buf'[u]) <= Line + 1
        /\ greeted' \in 0 .. Len(Greeting)
    BY <1>2 DEF BusFits
  <2>2. clean' \in BOOLEAN
    BY <1>2 DEF Alone
  <2> QED BY <1>4, <2>1, <2>2 DEF BusFits, Idle
<1>6. Working("driver")'
  <2>1. 0 \in 0 .. 98 /\ 0 - 50 < 0
    OBVIOUS
  <2>2. Initialising(lcd', 0 - 50)
    BY <2>1 DEF Initialising
  <2>3. todo'["driver"] = Suffix(begin \o begin, 0)
    BY <1>3, <1>4 DEF b
  <2> QED BY <1>4, <2>1, <2>2, <2>3 DEF Working
<1>7. clean' => \A d \in Contexts \ {"driver"} : Untouched(d)'
  BY <1>2, <1>4 DEF Alone, Untouched, Idle
<1> QED BY <1>5, <1>6, <1>7, Names DEF Undisturbed

(* The initialisation is through, and the display rested.                  *)
LEMMA ProbeLightsFits ==
  ASSUME QInv, BusFits, Undisturbed, ProbeLights
  PROVE  BusFits' /\ Undisturbed'
<1>1. expanderReset \in Seq(Lines)
  <2>1. expander(0, FALSE, FALSE) \in Lines
    BY DEF expander, Lines, Nibble
  <2>2. \A x \in Lines : <<x>> \in Seq(Lines)
    OBVIOUS
  <2> QED BY <2>1, <2>2 DEF expanderReset
<1>2. /\ call' = [call EXCEPT !["driver"] = "light"]
      /\ todo' = [todo EXCEPT !["driver"] = expanderReset]
      /\ UNCHANGED <<lcd, buf, greeted, lost, clean>> /\ backlight' = TRUE
      /\ call["driver"] = "init" /\ todo["driver"] = <<>>
  BY DEF ProbeLights, Enter, In
<1>3. /\ todo' \in [Contexts -> Seq(Lines)]
      /\ \A d \in Contexts : call'[d] = "none" => todo'[d] = <<>>
      /\ call'["driver"] = "light" /\ todo'["driver"] = expanderReset
      /\ \A d \in Contexts \ {"driver"} : call'[d] = call[d] /\ todo'[d] = todo[d]
  BY <1>1, <1>2, Names, OneTurn DEF Operations
<1>4. BusFits'
  <2>1. /\ lcd' \in Display /\ Whole(lcd') /\ lost' \in 0 .. MaxLost /\ backlight' \in BOOLEAN
        /\ clean' \in BOOLEAN /\ buf' \in [Users -> Buffers \union {<<>>}]
        /\ \A u \in Users : Len(buf'[u]) <= Line + 1
        /\ greeted' \in 0 .. Len(Greeting)
    BY <1>2 DEF BusFits
  <2> QED BY <1>3, <2>1 DEF BusFits, Idle
<1>5. ASSUME clean' PROVE Working("driver")' /\ \A d \in Contexts \ {"driver"} : Untouched(d)'
  <2>1. PICK w \in Contexts : Working(w) /\ \A d \in Contexts \ {w} : Untouched(d)
    BY <1>2, <1>5 DEF Undisturbed
  <2>2. ~Untouched("driver")
    BY <1>2 DEF Untouched, Sending, Idle
  <2>3. w = "driver"
    BY <2>1, <2>2, Names
  <2>4. Rested(lcd)
    BY <1>2, <2>1, <2>3, Freed
  <2>5. Rested(lcd')
    BY <1>2, <2>4
  <2>6. \A d \in Contexts \ {"driver"} : Keeps(d)
    BY <1>2, <1>3 DEF Keeps
  <2>7. \A d \in Contexts \ {"driver"} : Untouched(d)'
    BY <2>1, <2>3, <2>6, UntouchedKept
  <2> QED BY <1>3, <2>5, <2>7 DEF Working
<1> QED BY <1>4, <1>5, Names DEF Undisturbed

-----------------------------------------------------------------------------
(* The bytes                                                               *)

LEMMA PowerOnTyped == PowerOn \in Display /\ Whole(PowerOn)
<1> DEFINE m == [c \in Cells |-> Blank]
           l == [nib |-> 0, rs |-> FALSE, en |-> FALSE]
<1>1. m \in [Cells -> 0 .. 255]
  BY DEF Blank
<1>2. l \in Lines
  BY DEF Lines, Nibble
<1>3. 0 \in Cells /\ 0 \in 0 .. Line - 1
  BY LineAssumption DEF Cells
<1> HIDE DEF m, l
<1>4. PowerOn = [pins |-> l, bits |-> 8, half |-> <<>>, ram |-> m, ac |-> 0, left |-> TRUE,
                 autoshift |-> FALSE, on |-> FALSE, twoLines |-> FALSE, shift |-> 0,
                 light |-> FALSE]
  BY DEF PowerOn, m, l
<1>5. PowerOn \in Display
  BY <1>1, <1>2, <1>3, <1>4 DEF Display
<1>6. PowerOn.half = <<>>
  BY <1>4
<1> QED BY <1>5, <1>6 DEF Whole

(* The first byte of an operation is taken off the bus.                    *)
LEMMA ByteGone ==
  ASSUME QInv, BusFits, NEW c \in Contexts, todo[c] # <<>>,
         todo' = [todo EXCEPT ![c] = Tail(@)], UNCHANGED call
  PROVE  /\ todo' \in [Contexts -> Seq(Lines)] /\ Head(todo[c]) \in Lines
         /\ \A d \in Contexts : call'[d] = "none" => todo'[d] = <<>>
         /\ todo'[c] = Tail(todo[c]) /\ call[c] # "none"
<1>1. todo \in [Contexts -> Seq(Lines)] /\ \A d \in Contexts : call[d] = "none" => todo[d] = <<>>
  BY DEF BusFits, Idle
<1>2. Head(todo[c]) \in Lines /\ Tail(todo[c]) \in Seq(Lines)
  BY <1>1, HeadTailProperties
<1> QED BY <1>1, <1>2

(* A byte written alone is the next of the working context, or the first   *)
(* of one that begins.                                                     *)
LEMMA WriteOneByteFits ==
  ASSUME QInv, BusFits, Undisturbed, NEW c \in Contexts, WriteOneByte(c)
  PROVE  BusFits' /\ Undisturbed'
<1>1. /\ todo[c] # <<>> /\ todo' = [todo EXCEPT ![c] = Tail(@)]
      /\ UNCHANGED <<backlight, call, buf, greeted, lost>>
      /\ clean' = (clean /\ Alone(c))
  BY DEF WriteOneByte
<1>2. /\ todo' \in [Contexts -> Seq(Lines)] /\ Head(todo[c]) \in Lines
      /\ \A d \in Contexts : call'[d] = "none" => todo'[d] = <<>>
      /\ todo'[c] = Tail(todo[c]) /\ call[c] # "none"
  BY <1>1, ByteGone
<1>3. \/ lcd' \in Received(lcd, Head(todo[c]), backlight)
      \/ ~clean' /\ lcd' = PowerOn
  BY DEF WriteOneByte
<1>4. BusFits'
  <2>1. lcd' \in Display /\ Whole(lcd')
    <3>1. lcd \in Display /\ Whole(lcd) /\ backlight \in BOOLEAN
      BY DEF BusFits
    <3> QED BY <1>2, <1>3, <3>1, ReceivedTyped, PowerOnTyped
  <2>2. /\ lost' \in 0 .. MaxLost /\ backlight' \in BOOLEAN
        /\ buf' \in [Users -> Buffers \union {<<>>}]
        /\ \A u \in Users : Len(buf'[u]) <= Line + 1
        /\ greeted' \in 0 .. Len(Greeting) /\ (call'["driver"] = "greet" => greeted' > 0)
    BY <1>1 DEF BusFits
  <2>3. clean' \in BOOLEAN
    BY <1>1 DEF BusFits, Alone
  <2> QED BY <1>2, <2>1, <2>2, <2>3 DEF BusFits, Idle
<1>5. ASSUME clean' PROVE Working(c)' /\ \A d \in Contexts \ {c} : Untouched(d)'
  <2>1. clean /\ \A d \in Contexts \ {c} : call[d] = "none"
    BY <1>1, <1>5 DEF Alone, Idle
  <2>2. \A d \in Contexts \ {c} : Untouched(d)'
    BY <1>1, <2>1 DEF Untouched, Idle
  <2>3. PICK w \in Contexts : Working(w) /\ \A d \in Contexts \ {w} : Untouched(d)
    BY <2>1 DEF Undisturbed
  <2>4. Working(c)
    <3>1. CASE w = c
      BY <2>3, <3>1
    <3>2. CASE w # c
      <4>1. call[w] = "none" /\ todo[w] = <<>>
        BY <2>1, <3>2 DEF BusFits, Idle
      <4>2. Rested(lcd)
        BY <2>3, <4>1, Freed
      <4> QED BY <2>3, <3>2, <4>2, Writers, Begins
    <3> QED BY <3>1, <3>2
  <2>5. lcd' \in Received(lcd, Head(todo[c]), backlight)
    BY <1>3, <1>5
  <2>6. Working(c)'
    BY <1>1, <1>2, <2>4, <2>5, Writers, ByteWorks
  <2> QED BY <2>2, <2>6
<1> QED BY <1>4, <1>5 DEF Undisturbed

(* A byte is lost, and nothing is said of the display any more.            *)
LEMMA LoseByteFits ==
  ASSUME QInv, BusFits, NEW c \in Contexts, LoseByte(c)
  PROVE  BusFits' /\ Undisturbed'
<1>1. /\ todo[c] # <<>> /\ todo' = [todo EXCEPT ![c] = Tail(@)]
      /\ UNCHANGED <<lcd, backlight, call, buf, greeted>>
      /\ clean' = FALSE /\ lost > 0 /\ lost' = lost - 1
  BY DEF LoseByte
<1>2. /\ todo' \in [Contexts -> Seq(Lines)]
      /\ \A d \in Contexts : call'[d] = "none" => todo'[d] = <<>>
  BY <1>1, ByteGone
<1>3. lost' \in 0 .. MaxLost
  BY <1>1, LostAssumption DEF BusFits
<1>4. /\ lcd' \in Display /\ Whole(lcd') /\ backlight' \in BOOLEAN
      /\ buf' \in [Users -> Buffers \union {<<>>}]
      /\ \A u \in Users : Len(buf'[u]) <= Line + 1
      /\ greeted' \in 0 .. Len(Greeting) /\ (call'["driver"] = "greet" => greeted' > 0)
  BY <1>1 DEF BusFits
<1>5. BusFits'
  BY <1>1, <1>2, <1>3, <1>4 DEF BusFits, Idle
<1> QED BY <1>1, <1>5 DEF Undisturbed

-----------------------------------------------------------------------------
(* The initial states.                                                     *)
LEMMA InitFits == Init => DInv
<1> SUFFICES ASSUME Init PROVE DInv
  OBVIOUS
<1>1. lcd \in Display /\ Whole(lcd)
  BY StartsAssumption DEF Init, Whole
<1>2. todo \in [Contexts -> Seq(Lines)] /\ \A c \in Contexts : todo[c] = <<>>
  BY DEF Init
<1>3. buf \in [Users -> Buffers \union {<<>>}] /\ \A u \in Users : Len(buf[u]) <= Line + 1
  <2>1. Len(<<>>) = 0 /\ 0 <= Line + 1
    OBVIOUS
  <2> QED BY <2>1 DEF Init
<1>4. greeted \in 0 .. Len(Greeting) /\ lost \in 0 .. MaxLost
  BY GreetingAssumption, LenProperties, LostAssumption DEF Init
<1>5. call["driver"] = "none" /\ backlight = FALSE /\ clean = FALSE
  BY Names DEF Init
<1> QED BY <1>1, <1>2, <1>3, <1>4, <1>5 DEF DInv, BusFits, Undisturbed

(* Every step.                                                             *)
LEMMA NextFits == QInv /\ QInv' /\ DInv /\ [Next]_vars => DInv'
<1> SUFFICES ASSUME QInv, QInv', BusFits, Undisturbed, [Next]_vars
             PROVE  BusFits' /\ Undisturbed'
  BY DEF DInv
<1>1. ASSUME UNCHANGED vars \/ Unload \/ Load \/ TimerExpires
             \/ \E u \in Users : Open(u) \/ Close(u)
      PROVE  BusFits' /\ Undisturbed'
  <2>1. UNCHANGED <<lcd, call, todo, buf, greeted, clean, lost>>
    BY <1>1 DEF vars, Unload, Load, TimerExpires, Open, Close
  <2>2. backlight' \in BOOLEAN
    BY <1>1 DEF vars, Unload, Load, TimerExpires, Open, Close, BusFits
  <2> QED BY <2>1, <2>2, NothingBegun
<1>2. ASSUME ProbeSchedules \/ BeginRemove PROVE BusFits' /\ Undisturbed'
  <2>1. PICK op \in {"probed", "remove"} : Enter("driver", op, <<>>)
    BY <1>2 DEF ProbeSchedules, BeginRemove
  <2>2. UNCHANGED <<lcd, backlight, buf, greeted, lost, clean>>
    BY <1>2 DEF ProbeSchedules, BeginRemove
  <2>3. todo["driver"] = <<>>
    BY <1>2, Names DEF ProbeSchedules, BeginRemove, In, BusFits
  <2> QED BY <2>1, <2>2, <2>3, NothingSent
<1>3. CASE Next
  BY <1>1, <1>2, <1>3, Names, BeginProbeFits, ProbeLightsFits, ProbeGreetsFits, ProbeHomesFits,
     LeaveFits, BeginScrollFits, WriteFits, ReturnFits, WriteOneByteFits, LoseByteFits
  DEF Next, DriverProgress, WorkerProgress, UserProgress
<1> QED BY <1>1, <1>3

(* The invariant of driver, work and display.                              *)
LEMMA Invariant == Spec => [](QInv /\ DInv)
<1>1. Init => QInv /\ DInv
  BY InitQuiet, InitFits
<1>2. QInv /\ DInv /\ [Next]_vars => (QInv /\ DInv)'
  BY NextQuiet, NextFits
<1> QED BY <1>1, <1>2, PTL DEF Spec

-----------------------------------------------------------------------------
(* What follows of display and driver                                      *)

(* When the module's code is gone no handler runs or will run and nobody   *)
(* is in the driver: remove dequeues the work that queues itself for ever, *)
(* keeps it from queueing itself again and waits for a run that has begun  *)
(* (LCD_DelayWork.c:13-35, I2c_LcdHD44780.c:68-73).                        *)
THEOREM Unloading == Spec => []QuietWhenUnloaded
<1>1. QInv => QuietWhenUnloaded
  BY Names DEF QInv, Control, WorkerFits, UsersFit, DriverFits, AtRest,
               QuietWhenUnloaded, Idle, Contexts
<1>2. Spec => []QInv
  BY InitQuiet, NextQuiet, PTL DEF Spec
<1> QED BY <1>1, <1>2, PTL

(* Every variable keeps its type: in particular what is written to the     *)
(* expander never has more than 4 bits of data, and the display stays a    *)
(* display whatever it receives.                                           *)
THEOREM Typing == Spec => []TypeOK
<1>1. QInv /\ DInv => TypeOK
  BY DEF QInv, Control, Operations, DInv, BusFits, TypeOK
<1> QED BY <1>1, Invariant, PTL

(* From any state of the display, the two initialisations and then         *)
(* operations that do not overlap keep driver and display in step: between *)
(* operations the display waits for the first half of a byte               *)
(* (HD44780U_I2C_Burton.c:195-241).                                        *)
THEOREM Steps == Spec => []InStep
<1>1. QInv /\ DInv => InStep
  <2> SUFFICES ASSUME QInv, BusFits, Undisturbed, clean, \A c \in Contexts : Idle(c)
               PROVE  Rested(lcd)
    BY DEF DInv, InStep, Rested, Fit
  <2>1. PICK w \in Contexts : Working(w)
    BY DEF Undisturbed
  <2>2. todo[w] = <<>>
    BY DEF BusFits
  <2> QED BY <2>1, <2>2, Writers, Freed
<1> QED BY <1>1, Invariant, PTL

(* A process whose write() is through is the one that used the display.    *)
LEMMA Writer ==
  ASSUME QInv, BusFits, Undisturbed, clean, NEW u \in Users, In(u, "write"), Plain(u)
  PROVE  \E s : Sending(u, s) /\ Written(lcd, s, Len(s))
<1>1. call[u] = "write" /\ todo[u] = <<>> /\ u \in Contexts
  BY Names DEF In
<1>2. ASSUME NEW s, Sending(u, s)
      PROVE  /\ s \in Seq(Sends) /\ Len(s) \in Nat /\ Len(s) > 0
             /\ Bytes(s) \in Seq(Lines) /\ Len(Bytes(s)) = 6 * Len(s)
  <2>1. Message(s)
    BY <1>2, PlainSends
  <2>2. s \in Seq(Sends) /\ Len(s) \in Nat /\ Len(s) > 0
    BY <2>1, LenProperties DEF Message
  <2> QED BY <2>2, BytesOf
<1>3. ~Untouched(u)
  <2> SUFFICES ASSUME NEW s, Sending(u, s), <<>> = Bytes(s) PROVE FALSE
    BY <1>1 DEF Untouched, Idle
  <2>1. Len(Bytes(s)) = 6 * Len(s) /\ Len(s) \in Nat /\ Len(s) > 0
    BY <1>2
  <2>2. \A t : t = <<>> => Len(t) = 0
    OBVIOUS
  <2>3. Len(Bytes(s)) = 0
    BY <2>2, Zenon
  <2> QED BY <2>1, <2>3, SMTT(40)
<1>4. Working(u)
  BY <1>1, <1>3 DEF Undisturbed
<1>5. PICK s : Sending(u, s) /\ \E j \in 0 .. 6 * Len(s) : Sent(u, s, j)
  BY <1>1, <1>4 DEF Working, Idle
<1>6. PICK j \in 0 .. 6 * Len(s) : Sent(u, s, j)
  BY <1>5
<1> DEFINE b == Bytes(s)
<1>7. b \in Seq(Lines) /\ Len(b) = 6 * Len(s) /\ Len(s) \in Nat
  BY <1>2, <1>5
<1>8. Suffix(b, j) = <<>> /\ Written(lcd, s, j \div 6)
  BY <1>1, <1>6 DEF Sent
<1> HIDE DEF b
<1>9. j \in 0 .. Len(b)
  BY <1>7
<1>10. j = Len(b)
  <2>1. b \in Seq(Lines)
    BY <1>7
  <2> QED BY <1>8, <1>9, <2>1, Spent, Zenon
<1>11. j \div 6 = Len(s)
  BY <1>7, <1>10
<1> QED BY <1>5, <1>8, <1>11

(* A message written while nothing else used the display is on both lines  *)
(* of its memory, from their beginning, and nothing else is: the blanks in *)
(* between make up exactly one line (LCD_Char.c:60-75).                    *)
THEOREM Messages == Spec => []OnBothLines
<1>1. QInv /\ DInv => OnBothLines
  <2> SUFFICES ASSUME QInv, BusFits, Undisturbed, NEW u \in Users, clean, In(u, "write"),
                      buf[u] # <<>>, NUL \notin {buf[u][i] : i \in 1 .. Len(buf[u]) - 1}
               PROVE  lcd.ram = [c \in Cells |->
                        IF c % Line < Len(buf[u]) - 1 THEN buf[u][(c % Line) + 1] ELSE Blank]
    BY DEF DInv, OnBothLines
  <2>1. Plain(u)
    BY DEF Plain, In
  <2>2. PICK s : Sending(u, s) /\ Written(lcd, s, Len(s))
    BY <2>1, Writer
  <2> DEFINE b == buf[u]
             n == Len(b) - 1
  <2>3. /\ b \in Seq(0 .. 255) /\ n \in 0 .. Line
        /\ \A k \in 1 .. n : b[k] # NUL
        /\ s = layout(Len(b), Text(Terminated(b)))
    BY <2>1, <2>2, PlainBuffer, Zenon
  <2>4. Len(b) = n + 1
    BY <2>3, Elements
  <2> HIDE DEF b, n
  <2>5. s = layout(n + 1, Text(Terminated(b)))
    BY <2>3, <2>4, Zenon
  <2>6. Shown(lcd, b, n)
    BY <2>2, <2>3, <2>4, <2>5, MessageShown
  <2> QED BY <2>6 DEF Shown, b, n
<1> QED BY <1>1, Invariant, PTL
=============================================================================
