----------------------------- MODULE ArduinoChar -----------------------------
(***************************************************************************)
(* The Arduino on the I2C bus as a character device: write and read of     *)
(* Burton_I2C_Arduino/arduino_Char.c, and the firmware                     *)
(* (arduino_Firmware.ino) at the other end. The character device of the    *)
(* display (I2C_LCD_HD44780/LCD_Char.c) has the same read without the bus. *)
(*                                                                         *)
(* A message is a run of bytes, so it is its length; on its way it is cut  *)
(* to a byte, to an SMBus block and to the buffer of the firmware's Wire   *)
(* library. A transaction is atomic; that one failed the driver never sees.*)
(*                                                                         *)
(* Definitions marked "mutant" are wrong on purpose: they show that the    *)
(* property named there depends on the code of the definition that follows.*)
(***************************************************************************)
EXTENDS Integers

CONSTANTS
  WriteCounts, ReadCounts,  \* the byte counts of user space
  Files,    \* the struct files that are open
  Displays  \* those of them that are open on the display

ConstantsType ==
  WriteCounts \union ReadCounts \subseteq Nat /\ Displays \subseteq Files

VARIABLES
  pos,      \* pos[f]: the position of file f
  sent,     \* the count of the last write that arrived
  printed,  \* the line the firmware printed last: what it is made of, and
            \* how many bytes
  got,      \* got[k]: where byte k that the last read returned comes from
  ret       \* what the last call returned

vars == <<pos, sent, printed, got, ret>>

I2C_SMBUS_BLOCK_MAX == 32
BUFFER_LENGTH == 32   \* of the Wire library
HELLO == 6            \* the length of the firmware's answer
max_size == 32
EFAULT == -14
EINVAL == -22

Least(a, b) == IF a <= b THEN a ELSE b

(* The firmware's answer, the idle bus after it, the constants the driver  *)
(* fills its buffer with, and what the stack holds.                        *)
Origins == {"hello", "idle", "filler", "stack"}
Nothing == [k \in {} |-> "stack"]

TypeOK ==
  /\ pos \in [Files -> 0 .. max_size]
  /\ sent \in 0 .. 1000
  /\ printed \in [of : {"nothing", "message", "command", "stack"},
                  len : 0 .. BUFFER_LENGTH]
  /\ \E n \in 0 .. max_size : got \in [0 .. n - 1 -> Origins]
  /\ ret \in {EFAULT, EINVAL} \union Nat

Init ==
  /\ pos = [f \in Files |-> 0]
  /\ sent = 0 /\ printed = [of |-> "nothing", len |-> 0]
  /\ got = Nothing /\ ret = 0

-----------------------------------------------------------------------------
(* The I2C core: a length is a byte, and a block at most 32.               *)
Block(length) == Least(length % 256, I2C_SMBUS_BLOCK_MAX)

(* What does not fit the library's buffer is lost.                         *)
receiveEvent(origin, n) ==
  printed' = [of |-> origin, len |-> Least(n, BUFFER_LENGTH)]

(* mutant for ArrivesWhole *)
BlockOfMessage(count) == Block(count)

(* The first byte of the message is the command byte before the block.     *)
BlockAfterCommand(count) == Block(count - 1)

(* An empty message sends what the stack holds. Whether anything arrived,   *)
(* the driver does not look at.                                            *)
arduino_i2c_write(count) ==
  /\ count <= 1000
  /\ ret' = count
  /\ \/ UNCHANGED <<sent, printed>>
     \/ /\ sent' = count
        /\ receiveEvent(IF count = 0 THEN "stack" ELSE "message",
                        1 + BlockAfterCommand(count))
  /\ UNCHANGED <<pos, got>>

WriteFails(count) ==
  /\ \/ count > 1000 /\ ret' = EINVAL
     \/ count \in 1 .. 1000 /\ ret' = EFAULT
  /\ UNCHANGED <<pos, sent, printed, got>>

-----------------------------------------------------------------------------
(* mutant for NothingOfStack *)
Uncut(f, count) == count

Cut(f, count) == IF pos[f] + count > max_size THEN max_size - pos[f] ELSE count

(* tBuffer once a block of n bytes was read to its start.                  *)
tBuffer(n) ==
  [k \in Nat |-> IF k >= max_size THEN "stack"
                 ELSE IF k >= Block(n) THEN "filler"
                 ELSE IF k < HELLO THEN "hello" ELSE "idle"]

(* copy_to_user and what follows, or a fault. The block goes to the start  *)
(* of the buffer and the copy begins at the position.                      *)
CopyToUser(f, n, buffer) ==
  \/ /\ got' = [k \in 0 .. n - 1 |-> buffer[pos[f] + k]]
     /\ pos' = [pos EXCEPT ![f] = @ + n]
     /\ ret' = n
  \/ /\ n > 0
     /\ ret' = EFAULT
     /\ UNCHANGED <<pos, got>>

(* To the firmware, the command of a block read is a message of one byte.  *)
arduino_i2c_read(f, count) ==
  /\ f \notin Displays
  /\ LET n == Cut(f, count)
     IN \/ CopyToUser(f, n, tBuffer(n)) /\ receiveEvent("command", 1)
        \/ CopyToUser(f, n, tBuffer(0)) /\ UNCHANGED printed
  /\ UNCHANGED sent

display_read(f, count) ==
  /\ f \in Displays
  /\ CopyToUser(f, Cut(f, count), tBuffer(0))
  /\ UNCHANGED <<sent, printed>>

Next ==
  \/ \E count \in WriteCounts : arduino_i2c_write(count) \/ WriteFails(count)
  \/ \E f \in Files, count \in ReadCounts :
       arduino_i2c_read(f, count) \/ display_read(f, count)

Spec == Init /\ [][Next]_vars

-----------------------------------------------------------------------------
(* Properties                                                              *)

(* A message of up to 32 bytes is printed by the firmware in its full      *)
(* length, although its first byte goes as a command and its length is cut *)
(* three times on the way (arduino_Char.c:60, arduino_Firmware.ino:34-37); *)
(* of a longer one, the beginning at most. What is counted are the bytes   *)
(* it has in its buffer: as it prints a C string, all of them are printed  *)
(* if none is NUL.                                                         *)
ArrivesWhole ==
  printed.of = "message" =>
    /\ printed.len <= sent
    /\ sent \in 1 .. BUFFER_LENGTH => printed.len = sent

(* However reads of any count follow each other on a file, none returns    *)
(* what is on the stack beyond tBuffer (arduino_Char.c:90-96): count is    *)
(* cut at the position, and what the bus did not deliver is filled.        *)
NothingOfStack == \A k \in DOMAIN got : got[k] # "stack"

=============================================================================
