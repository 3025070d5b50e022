------------------------------ MODULE LcdDriver ------------------------------
(***************************************************************************)
(* The HD44780 display driver (I2C_LCD_HD44780): the display library, the  *)
(* character device that writes messages, and the delayed work that        *)
(* scrolls the display every half second.                                  *)
(*                                                                         *)
(* Three kinds of context write to the display: the task in probe or       *)
(* remove, the processes in write(), and the work handler. No lock keeps   *)
(* them apart, so the unit of a step is one byte to the port expander.     *)
(* What each operation will write is determined when it starts. Delays are *)
(* left out, and what char_probe registers is in ModuleInit.               *)
(*                                                                         *)
(* Definitions marked "mutant" are wrong on purpose: they show that the    *)
(* property named there depends on the code of the definition that follows.*)
(***************************************************************************)
EXTENDS Hd44780, DelayedWork, FiniteSets

CONSTANTS
  Users,     \* processes that open the character device
  Buffers,   \* what they write, NULs included
  Greeting,  \* the messages of probe: [col, row, text]
  Starts,    \* the states the display may be in when the driver finds it
  Unbinds,   \* the device may be unbound while the character device is open
  MaxLost,   \* how many bytes the bus may lose
  CharFails, \* char_probe may fail
  Garbles    \* follow what the display makes of operations that overlap

ASSUME BuffersAssumption == \A b \in Buffers : b \in Seq(0 .. 255)
ASSUME UsersAssumption == Users \intersect {"driver", "worker"} = {}
ASSUME StartsAssumption ==
  \A d \in Starts : d \in Display /\ (d.bits = 8 => d.half = <<>>)

Cols == Line \div 2
NumLines == 4
ASSUME GreetingAssumption ==
  Greeting \in Seq([col : 0 .. Cols - 1, row : 0 .. NumLines - 1, text : Seq(0 .. 255)])
ASSUME LostAssumption == MaxLost \in Nat

VARIABLES
  lcd,       \* the display
  backlight, \* _backlightval, the only static that outlives an operation
  call,      \* per context: the operation it is in
  todo,      \* per context: the bytes of its operation not yet written
  buf,       \* per user: the buffer of its write
  opened,    \* the users that have the character device open
  drv,       \* how far the driver is bound to the device
  greeted,   \* the messages probe has begun to write
  work,      \* initiate_delay_work
  lost,      \* bytes the bus may still lose
  clean      \* no operations overlapped and no byte was lost since probe

vars == <<lcd, backlight, call, todo, buf, opened, drv, greeted, work, lost, clean>>

Contexts == Users \union {"driver", "worker"}
NUL == 0

TypeOK ==
  /\ lcd \in Display
  /\ call \in [Contexts -> {"none", "init", "light", "greet", "cursor", "probed",
                            "write", "scroll", "remove"}]
  /\ todo \in [Contexts -> Seq(Lines)]
  /\ buf \in [Users -> Buffers \union {<<>>}]
  /\ opened \subseteq Users
  /\ drv \in {"unloaded", "unbound", "bound", "failed"}
  /\ greeted \in 0 .. Len(Greeting)
  /\ work \in Work
  /\ lost \in 0 .. MaxLost
  /\ {backlight, clean} \subseteq BOOLEAN

Init ==
  /\ lcd \in Starts
  /\ backlight = FALSE
  /\ call = [c \in Contexts |-> "none"]
  /\ todo = [c \in Contexts |-> <<>>]
  /\ buf = [u \in Users |-> <<>>]
  /\ opened = {} /\ drv = "unbound" /\ greeted = 0 /\ work = Unqueued
  /\ lost = MaxLost /\ clean = FALSE

-----------------------------------------------------------------------------
(* The display library: the bytes each operation writes, without the       *)
(* backlight, which is added as they are written.                          *)

expander(n, mode, e) == [nib |-> n, rs |-> mode, en |-> e]
write4bits(n, mode) ==
  <<expander(n, mode, FALSE), expander(n, mode, TRUE), expander(n, mode, FALSE)>>

(* A byte for the display: an instruction, or a character.                 *)
Sends == [v : 0 .. 255, mode : BOOLEAN]
command(v) == [v |-> v, mode |-> FALSE]
write(v) == [v |-> v, mode |-> TRUE]

(* mutant for TypeOK *)
sendUnmasked(s) == write4bits(s.v \div 16, s.mode) \o write4bits(s.v, s.mode)
send(s) == write4bits(s.v \div 16, s.mode) \o write4bits(s.v % 16, s.mode)

Bytes(sends) ==
  [k \in 1 .. 6 * Len(sends) |-> send(sends[((k - 1) \div 6) + 1])[((k - 1) % 6) + 1]]

WriteMessage(text) == [k \in 1 .. Len(text) |-> write(text[k])]

clear == command(1)
home == command(2)
scrollDisplayRight == command(16 + 8 + 4)

row_offsets == <<0, 64, Cols, 64 + Cols>>
setCursor(col, row) ==
  LET counted == IF row > NumLines THEN NumLines - 1 ELSE row
  IN command(128 + col + row_offsets[counted + 1])

expanderReset == <<expander(0, FALSE, FALSE)>>

(* Two lines, the display on, cleared, written from left to right, and the *)
(* cursor on.                                                              *)
settings ==
  <<command(32 + 8), command(8 + 4), clear, command(4 + 2), home, command(8 + 4 + 2)>>

(* mutant for InStep *)
beginTwice ==
  LET force == write4bits(3, FALSE)
  IN expanderReset \o force \o force \o write4bits(2, FALSE) \o Bytes(settings)

begin ==
  LET force == write4bits(3, FALSE)
  IN expanderReset \o force \o force \o force \o write4bits(2, FALSE) \o Bytes(settings)

greet(g) == <<setCursor(g.col, g.row)>> \o WriteMessage(g.text)

-----------------------------------------------------------------------------
(* The character device's write                                            *)

(* The text of a buffer ends at its first NUL.                             *)
Text(b) ==
  SubSeq(b, 1, Cardinality({k \in 1 .. Len(b) : \A j \in 1 .. k : b[j] # NUL}))

Terminated(b) == [b EXCEPT ![Len(b)] = NUL]
Padding(n) == [i \in 1 .. n |-> Blank]

(* mutant for OnBothLines *)
layoutShort(count, text) ==
  <<clear>> \o WriteMessage(text \o Padding(Line - count) \o text)

(* clear, the text, blanks for the characters count leaves of a line, and  *)
(* the text again.                                                         *)
layout(count, text) ==
  <<clear>> \o WriteMessage(text \o Padding(Line - (count - 1)) \o text)

-----------------------------------------------------------------------------
(* Contexts and the bus                                                    *)

Idle(c) == call[c] = "none"
Enter(c, op, bytes) ==
  /\ call' = [call EXCEPT ![c] = op]
  /\ todo' = [todo EXCEPT ![c] = bytes]
In(c, op) == call[c] = op /\ todo[c] = <<>>
Leave(c) == call' = [call EXCEPT ![c] = "none"] /\ UNCHANGED todo

Alone(c) == \A d \in Contexts \ {c} : Idle(d)

(* i2c_smbus_write_byte, whose result nobody looks at. Without Garbles the  *)
(* display is forgotten while it is not clean: nothing is claimed of it    *)
(* until the next probe, which copes with any display.                     *)
WriteOneByte(c) ==
  /\ todo[c] # <<>>
  /\ clean' = (clean /\ Alone(c))
  /\ lcd' \in IF clean' \/ Garbles THEN Received(lcd, Head(todo[c]), backlight)
                                   ELSE {PowerOn}
  /\ todo' = [todo EXCEPT ![c] = Tail(@)]
  /\ UNCHANGED <<backlight, call, buf, opened, drv, greeted, work, lost>>

LoseByte(c) ==
  /\ todo[c] # <<>> /\ lost > 0
  /\ lost' = lost - 1
  /\ todo' = [todo EXCEPT ![c] = Tail(@)]
  /\ clean' = FALSE
  /\ UNCHANGED <<lcd, backlight, call, buf, opened, drv, greeted, work>>

-----------------------------------------------------------------------------
(* probe and remove                                                        *)

BeginProbe ==
  /\ drv = "unbound" /\ Idle("driver")
  /\ Enter("driver", "init", begin \o begin)
  /\ clean' = Alone("driver")
  /\ UNCHANGED <<lcd, backlight, buf, opened, drv, greeted, work, lost>>

ProbeLights ==
  /\ In("driver", "init")
  /\ backlight' = TRUE
  /\ Enter("driver", "light", expanderReset)
  /\ UNCHANGED <<lcd, buf, opened, drv, greeted, work, lost, clean>>

ProbeGreets ==
  /\ In("driver", "light") \/ In("driver", "greet")
  /\ greeted < Len(Greeting)
  /\ greeted' = greeted + 1
  /\ Enter("driver", "greet", Bytes(greet(Greeting[greeted'])))
  /\ UNCHANGED <<lcd, backlight, buf, opened, drv, work, lost, clean>>

ProbeHomes ==
  /\ In("driver", "light") \/ In("driver", "greet")
  /\ greeted = Len(Greeting) /\ greeted' = 0
  /\ Enter("driver", "cursor", Bytes(<<setCursor(0, 0)>>))
  /\ UNCHANGED <<lcd, backlight, buf, opened, drv, work, lost, clean>>

(* my_delayed_work_init                                                    *)
ProbeSchedules ==
  /\ In("driver", "cursor")
  /\ work' = ScheduleDelayed(Unqueued)
  /\ Enter("driver", "probed", <<>>)
  /\ UNCHANGED <<lcd, backlight, buf, opened, drv, greeted, lost, clean>>

(* When char_probe fails so does probe, but the work goes on; a driver that *)
(* is probed again, or unloaded, under its work is not followed.           *)
EndProbe ==
  /\ In("driver", "probed")
  /\ drv' \in {"bound"} \union (IF CharFails THEN {"failed"} ELSE {})
  /\ Leave("driver")
  /\ UNCHANGED <<lcd, backlight, buf, opened, greeted, work, lost, clean>>

(* mutant for Returns *)
RemoveCancelsOnce ==
  /\ drv = "bound" /\ Idle("driver")
  /\ Unbinds \/ opened = {}
  /\ drv' = "unbound"
  /\ work' = [work EXCEPT !.pending = "no"]
  /\ Enter("driver", "remove", <<>>)
  /\ UNCHANGED <<lcd, backlight, buf, opened, greeted, lost, clean>>

(* char_remove, and the beginning of my_delayed_work_exit. Files that are  *)
(* open keep the module, but not the device, in place.                     *)
BeginRemove ==
  /\ drv = "bound" /\ Idle("driver")
  /\ Unbinds \/ opened = {}
  /\ drv' = "unbound"
  /\ work' = CancelBegun(work)
  /\ Enter("driver", "remove", <<>>)
  /\ UNCHANGED <<lcd, backlight, buf, opened, greeted, lost, clean>>

(* mutant for QuietWhenUnloaded *)
RemoveDoesNotWait ==
  /\ In("driver", "remove")
  /\ work' = CancelEnded(work)
  /\ Leave("driver")
  /\ UNCHANGED <<lcd, backlight, buf, opened, drv, greeted, lost, clean>>

EndRemove ==
  /\ In("driver", "remove") /\ ~work.running
  /\ work' = CancelEnded(work)
  /\ Leave("driver")
  /\ UNCHANGED <<lcd, backlight, buf, opened, drv, greeted, lost, clean>>

(* Loading the module gives its statics their first values.                *)
Unload ==
  /\ drv = "unbound" /\ Idle("driver") /\ opened = {}
  /\ drv' = "unloaded"
  /\ UNCHANGED <<lcd, backlight, call, todo, buf, opened, greeted, work, lost, clean>>

Load ==
  /\ drv = "unloaded"
  /\ drv' = "unbound" /\ backlight' = FALSE
  /\ UNCHANGED <<lcd, call, todo, buf, opened, greeted, work, lost, clean>>

-----------------------------------------------------------------------------
(* open, write and close                                                   *)

Open(u) ==
  /\ drv = "bound" /\ u \notin opened
  /\ opened' = opened \union {u}
  /\ UNCHANGED <<lcd, backlight, call, todo, buf, drv, greeted, work, lost, clean>>

(* Longer buffers are refused; an empty one leaves the text of the stack's *)
(* bytes.                                                                  *)
Write(u) ==
  /\ u \in opened /\ Idle(u)
  /\ \E b \in Buffers :
       /\ Len(b) <= Line + 1
       /\ buf' = [buf EXCEPT ![u] = b]
       /\ IF b # <<>>
          THEN Enter(u, "write", Bytes(layout(Len(b), Text(Terminated(b)))))
          ELSE \E stale \in Buffers :
                 Enter(u, "write", Bytes(layout(0, Text(stale))))
  /\ UNCHANGED <<lcd, backlight, opened, drv, greeted, work, lost, clean>>

Return(u) ==
  /\ In(u, "write")
  /\ buf' = [buf EXCEPT ![u] = <<>>]
  /\ Leave(u)
  /\ UNCHANGED <<lcd, backlight, opened, drv, greeted, work, lost, clean>>

Close(u) ==
  /\ u \in opened /\ Idle(u)
  /\ opened' = opened \ {u}
  /\ UNCHANGED <<lcd, backlight, call, todo, buf, drv, greeted, work, lost, clean>>

-----------------------------------------------------------------------------
(* The work handler                                                        *)

TimerExpires ==
  /\ work.pending = "later"
  /\ work' = Expired(work)
  /\ UNCHANGED <<lcd, backlight, call, todo, buf, opened, drv, greeted, lost, clean>>

BeginScroll ==
  /\ Runnable(work) /\ drv # "unloaded"
  /\ work' = Begun(work)
  /\ Enter("worker", "scroll", Bytes(<<scrollDisplayRight>>))
  /\ UNCHANGED <<lcd, backlight, buf, opened, drv, greeted, lost, clean>>

(* mutant for KeepsScrolling *)
EndScrollForGood ==
  /\ In("worker", "scroll")
  /\ work' = Ended(work)
  /\ Leave("worker")
  /\ UNCHANGED <<lcd, backlight, buf, opened, drv, greeted, lost, clean>>

EndScroll ==
  /\ In("worker", "scroll")
  /\ work' = Ended(ModDelayed(work, "later"))
  /\ Leave("worker")
  /\ UNCHANGED <<lcd, backlight, buf, opened, drv, greeted, lost, clean>>

-----------------------------------------------------------------------------
DriverProgress ==
  \/ WriteOneByte("driver")
  \/ ProbeLights \/ ProbeGreets \/ ProbeHomes \/ ProbeSchedules \/ EndProbe \/ EndRemove
UserProgress(u) == WriteOneByte(u) \/ Return(u)
WorkerProgress == BeginScroll \/ EndScroll \/ WriteOneByte("worker")

Next ==
  \/ BeginProbe \/ BeginRemove \/ Unload \/ Load
  \/ DriverProgress \/ WorkerProgress \/ TimerExpires
  \/ \E u \in Users : Open(u) \/ Write(u) \/ Close(u) \/ UserProgress(u)
  \/ \E c \in Contexts : LoseByte(c)

Spec == Init /\ [][Next]_vars

(* An operation that has begun goes on, and so do the timer and the work   *)
(* queue; nobody has to probe, open or write.                              *)
FairSpec ==
  /\ Spec
  /\ WF_vars(DriverProgress) /\ WF_vars(WorkerProgress) /\ WF_vars(TimerExpires)
  /\ \A u \in Users : WF_vars(UserProgress(u))

-----------------------------------------------------------------------------
(* Properties                                                              *)

(* Whatever state the display was in, at power on or after an earlier user *)
(* of it stopped in the middle of a byte, the two initialisations bring    *)
(* driver and display into step, and operations that do not overlap keep   *)
(* them there (HD44780U_I2C_Burton.c:195-241).                             *)
InStep ==
  clean /\ drv \in {"bound", "failed"} /\ (\A c \in Contexts : Idle(c)) =>
    /\ Aligned(lcd)
    /\ lcd.on /\ lcd.left /\ lcd.twoLines /\ ~lcd.autoshift

(* A message written while nothing else used the display is on both lines  *)
(* of its memory, from their beginning, and nothing else is: the blanks in *)
(* between make up exactly one line (LCD_Char.c:60-75).                    *)
OnBothLines ==
  \A u \in Users :
    LET b == buf[u]
        n == Len(b) - 1
        shown(i) == IF i < n THEN b[i + 1] ELSE Blank
    IN clean /\ In(u, "write") /\ b # <<>> /\ NUL \notin {b[i] : i \in 1 .. n} =>
         lcd.ram = [c \in Cells |-> shown(c % Line)]

(* No handler is left to run once the module's code is gone: the work that *)
(* queues itself for ever is cancelled (LCD_DelayWork.c:31-35).            *)
QuietWhenUnloaded ==
  drv = "unloaded" => AtRest(work) /\ \A c \in Contexts : Idle(c)

(* While the driver is bound the display keeps scrolling, each run of the  *)
(* handler queueing the next, whatever the bus lost (LCD_DelayWork.c:21).  *)
KeepsScrolling ==
  drv = "bound" ~> (drv # "bound" \/ call["worker"] = "scroll")

(* remove and write() return: remove waits for a handler that queues       *)
(* itself.                                                                 *)
Returns ==
  \A c \in Contexts : ~Idle(c) ~> Idle(c)

(* "These commands scroll the display without changing the RAM"            *)
(* (HD44780U_I2C_Burton.c:119): no byte of the work handler changes the    *)
(* characters in the display.                                              *)
ScrollKeepsRam ==
  [][todo["worker"] # <<>> /\ todo'["worker"] = Tail(todo["worker"])
       => lcd'.ram = lcd.ram]_vars

=============================================================================
