------------------------------ MODULE PcdCursor ------------------------------
(***************************************************************************)
(* What an open file of a pseudo character device promises its only user:  *)
(* a cursor over the bytes of the device. Bytes are read and written one   *)
(* after the other; a call settles when it returns, and a call that fails  *)
(* puts the cursor back to where it stood. The result of a call is the     *)
(* number of bytes it moved the cursor by, the position it was sent to, or *)
(* an error.                                                               *)
(***************************************************************************)
EXTENDS Integers

CONSTANTS Devices, Size, Perm, Files, Byte, Zero, None

VARIABLES
  mem,     \* mem[d][i]: byte i of device d
  cursor,  \* cursor[f]: device and mode of file f, the position it stands at
           \* (start) and the byte its running call moves next (next)
  result   \* result[f]: what the last call on f returned, errors alike

vars == <<mem, cursor, result>>

Error == -1
Returns(f, r) == result' = [result EXCEPT ![f] = r]

Granted(perm, mode) ==
  /\ "w" \in mode => perm # "RDONLY"
  /\ "r" \in mode => perm # "WRONLY"

Init ==
  /\ mem = [d \in Devices |-> [i \in 0 .. Size[d] - 1 |-> Zero]]
  /\ cursor = [f \in Files |->
                 [dev |-> None, mode |-> {}, start |-> 0, next |-> 0]]
  /\ result = [f \in Files |-> 0]

Settled(f) == cursor[f].next = cursor[f].start

Open(f, d, m) ==
  /\ cursor[f].dev = None /\ Granted(Perm[d], m)
  /\ cursor' = [cursor EXCEPT ![f] =
                  [dev |-> d, mode |-> m, start |-> 0, next |-> 0]]
  /\ Returns(f, 0)
  /\ UNCHANGED mem

Close(f) ==
  /\ cursor[f].dev # None /\ Settled(f)
  /\ cursor' = [cursor EXCEPT ![f] =
                  [dev |-> None, mode |-> {}, start |-> 0, next |-> 0]]
  /\ Returns(f, 0)
  /\ UNCHANGED mem

(* A call that is refused at once: opening against the permission, a seek  *)
(* out of the device, a write at its end.                                  *)
Refuse(f) ==
  /\ Settled(f)
  /\ Returns(f, Error)
  /\ UNCHANGED <<mem, cursor>>

Seek(f, p) ==
  /\ cursor[f].dev # None /\ Settled(f)
  /\ cursor' = [cursor EXCEPT ![f] =
                  [dev |-> @.dev, mode |-> @.mode, start |-> p, next |-> p]]
  /\ UNCHANGED <<mem, result>>

(* A seek returns the position it has moved to.                            *)
Tell(f) ==
  /\ cursor[f].dev # None /\ Settled(f)
  /\ Returns(f, cursor[f].start)
  /\ UNCHANGED <<mem, cursor>>

Advance(f) ==
  /\ cursor[f].next < Size[cursor[f].dev]
  /\ cursor' = [cursor EXCEPT ![f].next = @ + 1]
  /\ UNCHANGED result

ReadByte(f) ==
  /\ "r" \in cursor[f].mode
  /\ Advance(f)
  /\ UNCHANGED mem

WriteByte(f, b) ==
  /\ "w" \in cursor[f].mode
  /\ Advance(f)
  /\ mem' = [mem EXCEPT ![cursor[f].dev][cursor[f].next] = b]

(* A call that returns has moved the cursor by as many bytes as it says.   *)
Settle(f) ==
  /\ cursor[f].dev # None
  /\ cursor' = [cursor EXCEPT ![f].start = cursor[f].next]
  /\ Returns(f, cursor[f].next - cursor[f].start)
  /\ UNCHANGED mem

(* A failed call: the bytes before the cursor stay, a failed write may     *)
(* clear bytes after it.                                                   *)
Rollback(f) ==
  /\ cursor[f].dev # None
  /\ cursor' = [cursor EXCEPT ![f].next = cursor[f].start]
  /\ Returns(f, Error)
  /\ \/ UNCHANGED mem
     \/ /\ "w" \in cursor[f].mode
        /\ \E end \in cursor[f].next .. Size[cursor[f].dev] - 1 :
             mem' = [mem EXCEPT ![cursor[f].dev] = [i \in DOMAIN @ |->
                       IF i \in cursor[f].next .. end THEN Zero ELSE @[i]]]

Next ==
  \E f \in Files :
    \/ \E d \in Devices, m \in {{"r"}, {"w"}, {"r", "w"}} : Open(f, d, m)
    \/ Close(f)
    \/ Refuse(f)
    \/ cursor[f].dev # None /\ \E p \in 0 .. Size[cursor[f].dev] : Seek(f, p)
    \/ Tell(f)
    \/ ReadByte(f)
    \/ \E b \in Byte : WriteByte(f, b)
    \/ Settle(f)
    \/ Rollback(f)

Spec == Init /\ [][Next]_vars
=============================================================================
