----------------------------- MODULE ModuleInit -----------------------------
(***************************************************************************)
(* How the drivers that register their character devices themselves take   *)
(* and give back what they register: pcd_driver_init and _exit of          *)
(* 002_pseudo_char_driver (pcd) and 003_pseudo_char_driver_multiple        *)
(* (pcd_n), and the probe and remove of Burton_I2C_Arduino (arduino) and   *)
(* of I2C_LCD_HD44780's character device (lcd).                            *)
(*                                                                         *)
(* Such a function is a row of kernel calls, each of which may fail, with  *)
(* gotos into a row of calls that undo. Here it is data: for each call     *)
(* what it takes, whether the code notices that it failed, what is undone  *)
(* then and what is returned.                                              *)
(*                                                                         *)
(* Definitions marked "mutant" are wrong on purpose: they show that the    *)
(* property named there depends on the code of the definition that follows.*)
(***************************************************************************)
EXTENDS Integers, Sequences

CONSTANTS
  Drivers,        \* which of the drivers
  NO_OF_DEVICES   \* the devices of 003

ConstantsType ==
  /\ Drivers \subseteq {"pcd", "pcd_n", "arduino", "lcd"}
  /\ NO_OF_DEVICES \in Nat \ {0}

VARIABLES
  driver,  \* the driver that is loaded and unloaded
  state,   \* absent, starting, undoing, there, leaving or oops
  todo,    \* the calls that are left
  held,    \* what is registered or allocated
  ret      \* what init or probe returned last, or is going to return

vars == <<driver, state, todo, held, ret>>

Res(kind, n) == [kind |-> kind, n |-> n]
Region == Res("region", 0)
Class == Res("class", 0)
Memory == Res("memory", 0)
Cdev(i) == Res("cdev", i)
Device(i) == Res("device", i)

(* A call whose failure is noticed and returned, one whose failure is      *)
(* noticed but 0 returned, and one whose failure is not noticed.           *)
Checked(res, undo) == [res |-> res, noticed |-> TRUE, undo |-> undo, ret |-> "error"]
Unreported(res, undo) == [res |-> res, noticed |-> TRUE, undo |-> undo, ret |-> "zero"]
Unnoticed(res) == [res |-> res, noticed |-> FALSE, undo |-> <<>>, ret |-> "zero"]

-----------------------------------------------------------------------------
(* 002: one device                                                         *)

pcd_init ==
  <<Checked(Region, <<>>),
    Checked(Cdev(0), <<Region>>),
    Checked(Class, <<Cdev(0), Region>>),
    Checked(Device(0), <<Class, Cdev(0), Region>>)>>

pcd_exit == <<Device(0), Class, Cdev(0), Region>>

(* 003: a row of devices. The check after device_create looks at the       *)
(* class, so that its failure is not noticed.                              *)

(* The pairs of device and cdev in the order undone, or numbered upwards.  *)
Pair(k, n) == IF k % 2 = 1 THEN Device(n) ELSE Cdev(n)

Downto(i) ==
  [k \in 1 .. 2 * (i + 1) |-> Pair(k, i - (k - 1) \div 2)] \o <<Class, Region>>

Each ==
  [k \in 1 .. 2 * NO_OF_DEVICES |->
     LET n == (k - 1) \div 2
     IN IF k % 2 = 1 THEN Checked(Cdev(n), Downto(n)) ELSE Unnoticed(Device(n))]

pcd_n_init == <<Checked(Region, <<>>), Checked(Class, <<Region>>)>> \o Each

Upto == [k \in 1 .. 2 * NO_OF_DEVICES |-> Pair(k, (k - 1) \div 2)]

(* mutant for Nested *)
pcd_n_exit_class_first == <<Class>> \o Upto \o <<Region>>

(* mutant for TypeOK *)
pcd_n_exit_beyond ==
  Upto \o <<Device(NO_OF_DEVICES), Cdev(NO_OF_DEVICES), Class, Region>>

pcd_n_exit == Upto \o <<Class, Region>>

(* The probes of the I2C drivers compare what class_create and             *)
(* device_create return with NULL, which it never is, and return the 0 of  *)
(* the last call that succeeded when there is no memory.                   *)

(* mutant for HoldsNothing *)
probe_out_device ==
  <<Checked(Region, <<>>),
    Unnoticed(Class),
    Unreported(Memory, <<Class, Region>>),
    Checked(Cdev(0), <<Class, Region>>),
    Unnoticed(Device(0))>>

arduino_probe ==
  <<Checked(Region, <<>>),
    Unnoticed(Class),
    Unreported(Memory, <<Class, Region>>),
    Checked(Cdev(0), <<Memory, Class, Region>>),
    Unnoticed(Device(0))>>

arduino_remove == <<Device(0), Cdev(0), Memory, Class, Region>>

char_probe == arduino_probe
char_remove == arduino_remove

-----------------------------------------------------------------------------
Taking(d) ==
  CASE d = "pcd"     -> pcd_init
    [] d = "pcd_n"   -> pcd_n_init
    [] d = "arduino" -> arduino_probe
    [] d = "lcd"     -> char_probe

Giving(d) ==
  CASE d = "pcd"     -> pcd_exit
    [] d = "pcd_n"   -> pcd_n_exit
    [] d = "arduino" -> arduino_remove
    [] d = "lcd"     -> char_remove

Kinds == [kind : {"region", "class", "memory", "cdev", "device"},
          n : 0 .. NO_OF_DEVICES - 1]

TypeOK ==
  /\ driver \in Drivers
  /\ state \in {"absent", "starting", "undoing", "there", "leaving", "oops"}
  /\ held \subseteq Kinds
  /\ ret \in {"zero", "error"}
  /\ todo \in IF state = "starting"
              THEN Seq([res : Kinds, noticed : BOOLEAN, undo : Seq(Kinds),
                        ret : {"zero", "error"}])
              ELSE Seq(Kinds)

Init ==
  /\ driver \in Drivers
  /\ state = "absent" /\ todo = <<>> /\ held = {} /\ ret = "zero"

Start ==
  /\ state = "absent"
  /\ driver' \in Drivers
  /\ state' = "starting" /\ todo' = Taking(driver') /\ ret' = "zero"
  /\ UNCHANGED held

(* A device file needs its class; without one device_create fails.         *)
Succeed ==
  /\ state = "starting" /\ todo # <<>>
  /\ LET call == Head(todo)
     IN /\ call.res.kind = "device" => Class \in held
        /\ held' = held \union {call.res}
  /\ todo' = Tail(todo)
  /\ UNCHANGED <<driver, state, ret>>

Fail ==
  /\ state = "starting" /\ todo # <<>>
  /\ LET call == Head(todo)
     IN IF call.noticed
        THEN state' = "undoing" /\ todo' = call.undo /\ ret' = call.ret
        ELSE todo' = Tail(todo) /\ UNCHANGED <<state, ret>>
  /\ UNCHANGED <<driver, held>>

Started ==
  /\ state = "starting" /\ todo = <<>>
  /\ state' = "there"
  /\ UNCHANGED <<driver, todo, held, ret>>

(* Giving back what is not there is harmless: class_destroy looks for an   *)
(* error in place of the class, device_destroy for the device among those  *)
(* of its class, and the cdev of pcd_n is static and initialised. But      *)
(* device_destroy reads the class without a look at it: it oopses where    *)
(* class_create left an error, and reads freed memory where the class was  *)
(* destroyed when there was no memory for the cdev. If it survives that,   *)
(* the cdev_del after it is of the memory there was not and oopses, with   *)
(* no more and no less held: both count as an oops of device_destroy.      *)
Harmless(res) == res.kind = "device" => Class \in held

Undo ==
  /\ state \in {"undoing", "leaving"} /\ todo # <<>>
  /\ IF Harmless(Head(todo))
     THEN /\ held' = held \ {Head(todo)} /\ todo' = Tail(todo)
          /\ UNCHANGED state
     ELSE state' = "oops" /\ UNCHANGED <<todo, held>>
  /\ UNCHANGED <<driver, ret>>

(* The kernel takes a driver whose init or probe returned 0 for loaded,    *)
(* whatever was undone.                                                    *)
Undone ==
  /\ state = "undoing" /\ todo = <<>>
  /\ state' = IF ret = "zero" THEN "there" ELSE "absent"
  /\ UNCHANGED <<driver, todo, held, ret>>

Leave ==
  /\ state = "there"
  /\ state' = "leaving" /\ todo' = Giving(driver)
  /\ UNCHANGED <<driver, held, ret>>

Left ==
  /\ state = "leaving" /\ todo = <<>>
  /\ state' = "absent"
  /\ UNCHANGED <<driver, todo, held, ret>>

Next ==
  Start \/ Succeed \/ Fail \/ Started \/ Undo \/ Undone \/ Leave \/ Left

Spec == Init /\ [][Next]_vars

-----------------------------------------------------------------------------
(* Properties                                                              *)

(* Nothing is left registered or allocated when init has failed, at        *)
(* whatever call, or when exit is through. Exit is not through when it     *)
(* oopses, and what was held stays held: that can only be the remove of    *)
(* the I2C drivers at its first call (arduino_Char.c:185, LCD_Char.c:190), *)
(* before it gave anything back. No failed init oopses while it undoes,    *)
(* and neither does an exit of 002 or 003.                                 *)
HoldsNothing ==
  /\ state = "absent" => held = {}
  /\ state = "oops" => driver \in {"arduino", "lcd"} /\ todo = Giving(driver)

(* A device file never outlives the class it is in, nor a cdev the range   *)
(* of its number or the memory it is in, at any moment of coming or going. *)
Nested ==
  /\ \A i \in 0 .. NO_OF_DEVICES - 1 :
       /\ Device(i) \in held => Class \in held
       /\ Cdev(i) \in held => Region \in held
  /\ driver \in {"arduino", "lcd"} /\ Cdev(0) \in held => Memory \in held

=============================================================================
