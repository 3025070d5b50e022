------------------------------- MODULE Hd44780 -------------------------------
(***************************************************************************)
(* The HD44780 display controller behind its I2C port expander, external   *)
(* code: what the driver in I2C_LCD_HD44780/Arduino_HD44780Driver expects  *)
(* the display to make of the bytes it writes to the expander.             *)
(*                                                                         *)
(* Each byte sets the four data lines, the register select Rs, the enable  *)
(* line En and the backlight. The controller takes the lines when En       *)
(* falls: two nibbles to an instruction or character in 4-bit mode, one    *)
(* (with the low data lines unconnected) in 8-bit mode.                    *)
(***************************************************************************)
EXTENDS Integers, Sequences

CONSTANT Line       \* characters of a line of the display memory: 40
ASSUME LineAssumption == Line \in 1 .. 64   \* the second begins at address 64

Nibble == 0 .. 15
Blank == 32
Cells == 0 .. 2 * Line - 1
CGRAM == 2 * Line    \* the address counter is in the memory of glyphs

(* What is on the expander's pins: a nibble, Rs and En.                    *)
Lines == [nib : Nibble, rs : BOOLEAN, en : BOOLEAN]
Latched == [nib : Nibble, rs : BOOLEAN]

(* bits is the interface width and half a first nibble that waits for the  *)
(* second; ac is the address counter; shift is how far the window is moved *)
(* to the right.                                                           *)
Display == [pins : Lines, bits : {4, 8},
            half : {<<>>} \union {<<n>> : n \in Latched},
            ram : [Cells -> 0 .. 255], ac : Cells \union {CGRAM},
            left : BOOLEAN, autoshift : BOOLEAN, on : BOOLEAN,
            twoLines : BOOLEAN, shift : 0 .. Line - 1, light : BOOLEAN]

PowerOn ==
  [pins |-> [nib |-> 0, rs |-> FALSE, en |-> FALSE], bits |-> 8, half |-> <<>>,
   ram |-> [c \in Cells |-> Blank], ac |-> 0, left |-> TRUE,
   autoshift |-> FALSE, on |-> FALSE, twoLines |-> FALSE, shift |-> 0,
   light |-> FALSE]

Odd(v, bit) == (v \div bit) % 2 = 1

Homed(d) == [[d EXCEPT !.ac = 0] EXCEPT !.shift = 0]
Cleared(d) == [[Homed(d) EXCEPT !.ram = [c \in Cells |-> Blank]] EXCEPT !.left = TRUE]
Moved(d, steps) == [d EXCEPT !.shift = (@ + steps) % Line]
Stepped(d, right) ==
  IF d.ac = CGRAM THEN d
  ELSE [d EXCEPT !.ac = (@ + (IF right THEN 1 ELSE -1)) % (2 * Line)]

(* Address 64 begins the second line; what the controller makes of an      *)
(* address past the end of a line is left open.                            *)
AtAddress(a) ==
  LET row == a \div 64
      col == a % 64
  IN IF col < Line THEN {row * Line + col} ELSE Cells

(* The displays that may follow d once it has instruction v.               *)
Instructed(d, v) ==
  CASE v >= 128 -> {[d EXCEPT !.ac = a] : a \in AtAddress(v % 128)}
    [] v \in 64 .. 127 -> {[d EXCEPT !.ac = CGRAM]}
    [] v \in 32 .. 63 -> {[[d EXCEPT !.bits = IF Odd(v, 16) THEN 8 ELSE 4]
                             EXCEPT !.twoLines = Odd(v, 8)]}
    [] v \in 16 .. 31 -> {IF Odd(v, 8) THEN Moved(d, IF Odd(v, 4) THEN 1 ELSE -1)
                                       ELSE Stepped(d, Odd(v, 4))}
    [] v \in 8 .. 15 -> {[d EXCEPT !.on = Odd(v, 4)]}
    [] v \in 4 .. 7 -> {[[d EXCEPT !.left = Odd(v, 2)] EXCEPT !.autoshift = Odd(v, 1)]}
    [] v \in 2 .. 3 -> {Homed(d)}
    [] v = 1 -> {Cleared(d)}
    [] v = 0 -> {d}

Wrote(d, v) ==
  LET written == IF d.ac = CGRAM THEN d ELSE [d EXCEPT !.ram = [@ EXCEPT ![d.ac] = v]]
      stepped == Stepped(written, d.left)
  IN IF d.autoshift /\ d.ac # CGRAM
     THEN Moved(stepped, IF d.left THEN -1 ELSE 1)
     ELSE stepped

Executed(d, rs, v) == IF rs THEN {Wrote(d, v)} ELSE Instructed(d, v)

(* The controller takes nibble n. Unconnected lines read as 0s or as 1s;   *)
(* the two nibbles of a byte ought to agree in Rs, and if not either may   *)
(* count.                                                                  *)
Taken(d, n) ==
  CASE d.bits = 8 -> UNION {Executed(d, n.rs, n.nib * 16 + low) : low \in {0, 15}}
    [] d.bits = 4 /\ d.half = <<>> -> {[d EXCEPT !.half = <<n>>]}
    [] OTHER -> UNION {Executed([d EXCEPT !.half = <<>>], rs,
                                d.half[1].nib * 16 + n.nib) :
                         rs \in {d.half[1].rs, n.rs}}

(* The displays after the expander outputs p, with the backlight on or     *)
(* off. If the data change in the moment En falls, either may be taken.    *)
Received(d, p, light) ==
  LET lit == [[d EXCEPT !.pins = p] EXCEPT !.light = light]
      seen == {[nib |-> l.nib, rs |-> l.rs] : l \in {d.pins, p}}
  IN IF d.pins.en /\ ~p.en THEN UNION {Taken(lit, n) : n \in seen} ELSE {lit}

(* Ready for the next byte of a well-behaved driver.                       *)
Aligned(d) == d.bits = 4 /\ d.half = <<>> /\ ~d.pins.en
=============================================================================
