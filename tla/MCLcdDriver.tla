----------------------------- MODULE MCLcdDriver -----------------------------
(* Values of the display driver's constants for TLC.                       *)
EXTENDS LcdDriver

A == 65
B == 66

(* Every state of the interface: in step, or in the middle of anything.    *)
AnyInterface ==
  {[PowerOn EXCEPT !.bits = bits, !.half = half, !.pins.nib = nib,
                   !.pins.rs = rs, !.pins.en = en] :
     bits \in {4, 8}, half \in {<<>>} \union {<<n>> : n \in Latched},
     nib \in {0, 15}, rs \in BOOLEAN, en \in BOOLEAN}

AnyStart == {d \in AnyInterface : d.bits = 8 => d.half = <<>>}
ColdStart == {PowerOn}

ShortGreeting == <<[col |-> 0, row |-> 1, text |-> <<A>>]>>

(* Too long, full, short, with a NUL inside, and empty.                    *)
MCBuffers == {<<A, B, A, B>>, <<A, B, NUL>>, <<A, A>>, <<A, NUL, B>>, <<>>}
OneBuffer == {<<A>>}
NoGreeting == <<>>
=============================================================================
