# TLA+ models of the BeagleBone Black driver collection

The repository is a row of Linux kernel modules written while learning driver
development, plus two real ones: a touchpad and a character display on I2C.
This directory holds TLA+ specifications of the parts of them in which order,
concurrency or failure matter, TLC configurations that check them on small
instances, and TLAPS proofs that the safety properties hold for every instance.
Paths below are relative to `src/`.

## 1. The system

Every component is a kernel module; they share no state with each other, only
the kernel and (for pairs of modules) a bus. What makes them hard is who calls
them: the kernel calls file operations, work handlers, interrupt handlers and
driver callbacks from different contexts and serialises some of them and not
others.

| component | state | operations | what is hard | what makes it correct |
|---|---|---|---|---|
| `002_pseudo_char_driver/pcd.c` one memory device | buffer, position of each open file, registrations | init, exit, open, lseek, read, write | failure half-way through init | init and exit give back everything, in order |
| `003_pseudo_char_driver_multiple/pcd_n.c` four memory devices with permissions | the same, `pcdrv_data` | the same, `check_permission` | threads that share a `struct file`; faults in a copy; ends of the device; roll back of a row of devices | transfers stay in the device; positions in range; permissions hold; a private file behaves like a cursor |
| `004_`, `005_pcd_platform_driver*`, `006_pcd_sysfs` the same devices as platform devices | `pcdrv_data`, per-device data freed with the binding | probe, remove, init, exit, attributes | numbers from ids or from a count; shared `device_pcd`; failure in probe | each bound device has a file of its own; nothing is left of the others; the count is right |
| `00x/pcd_device_setup.c` | registered platform devices | init, exit | devices come and go in any order | (part of the above) |
| `006_pcd_sysfs` resizing (`store_max_size`) | size and buffer | store | replaces the buffer under readers; positions beyond a smaller size; no memory | reads and writes stay in the buffer |
| `007_gpio_sysfs/gpio-sysfs.c` | child devices, the array of them, their GPIO lines | init, exit, probe, remove, attributes | children that are disabled, failure half-way, attributes that work while probe and remove go on | a device for each enabled child; remove takes back what probe made; attributes reach held memory |
| `003_.../dev_read.c` user-space reader | buffer, remaining and total bytes | read loop | return values at the ends of their range; a device resized between reads | bytes land in its buffer; it reads what is there |
| `Synaptics_I2C_Mouse/synaptics_i2c.c` touchpad | the touchpad's page register, the delayed work, `polling_req`, parameters | probe, remove, open, close, suspend, resume, interrupt, work handler, parameter writes | two contexts on one paged register bus; work that queues itself against close, suspend and remove; spontaneous resets; bus errors | accesses hit their register; nothing runs after close; no use after free; polled while open; recovers |
| its polling rate | `scan_ms`, `no_data_count` | `adjust_delay`, `set_scan_rate` | counts runs but means time, which passes in jiffies; rate changes meanwhile | slows down without data, no sooner than after a second and as late as the counted runs take |
| `I2C_LCD_HD44780/Arduino_HD44780Driver` display library | cached display registers, backlight | begin, clear, cursor, messages, scroll | two nibbles and six bus writes to a character; display in any state at start | driver and display are in step |
| `I2C_LCD_HD44780/*.c` display driver | character device, scrolling work | probe, remove, open, read, write | the scrolling work and writers without a lock; work that queues itself against remove; failing char_probe | messages on both lines; scrolling goes on; nothing left after unload |
| `Burton_I2C_Arduino` Arduino character driver and firmware | registrations, file positions, the firmware's buffer | probe, remove, open, read, write | failure half-way; lengths cut three times on the way | as for 002; messages arrive whole; reads return nothing of the stack |
| `001hello_world`, `LCD_ktimer.c` | none, or called by nobody | | | not modelled |
| `005_..._Device_Tree_Overlays` | as 005 | as 005, with stubs for file operations | | as 005 |
| `008_lcd_platform_driver`, `*.dts*` | data | | | not modelled |
| `SampleCode` | a third party's cookbook | | | not modelled |

Interactions: user space calls the file operations (several tasks at once, with
shared files); the driver core calls probe and remove (one at a time for a
device, but not for a driver); the input core calls open and close of the
touchpad under its mutex; the interrupt and `mod_delayed_work` start the work
handlers; the power core calls suspend and resume with tasks frozen; the
touchpad and the display are reached through the I2C core, which makes single
transactions atomic and nothing more.

The hazards, each at its line and with the properties that cover it, are in
`PROJECT.json`.

## 2. Modules

| module | models | abstract counterpart, composition |
|---|---|---|
| `PcdFile` | file operations of 003 | implements `PcdCursor` |
| `PcdCursor` | what a private open file promises | |
| `PcdPlatform` | binding in 004, 005 (both copies), 006 and the setup modules | |
| `PcdResize` | file operations of 004, 005 and 006 on one device, and `store_max_size` | used by the next |
| `DevRead` | the program `dev_read` | composes program, driver and resizing |
| `ModuleInit` | registration ladders of 002, 003, the Arduino and the display driver | |
| `GpioSysfs` | the GPIO driver | |
| `ArduinoChar` | read and write of the Arduino and of the display's read, with the firmware | |
| `SmallDrivers` | the three above side by side | instances of them |
| `DelayedWork` | the kernel's delayed work (external) | used by `SynapticsI2c` and `LcdDriver` |
| `SynapticsI2c` | the touchpad driver with the touchpad | composes driver, work, bus, touchpad |
| `SynapticsPolling` | the polling delay, in jiffies | |
| `Hd44780` | the display controller (external) | |
| `LcdDriver` | display library, character device, scrolling work | composes `Hd44780` and `DelayedWork` |
| `PcdFileProofs`, `PcdPlatformProofs`, `PcdResizeProofs`, `DevReadProofs`, `SmallDriversProofs`, `SynapticsI2cProofs`, `SynapticsPollingProofs`, `LcdDriverProofs` | proofs about the module each is named after, see section 4 | `DevReadProofs` builds on `PcdResizeProofs` |
| `MCPcdFile`, `MCPcdPlatform`, `MCDevRead`, `MCSynapticsI2c`, `MCLcdDriver`, `MCSmallDrivers` | values of constants for TLC | |

Definitions marked "mutant" in the modules are wrong versions of the definition
after them. They are in no specification. Put in its place, the run of the
property they name fails, which shows that the property depends on that code.

### PcdFile

`mem` is the devices' memory, `file[f]` a `struct file` (`private_data`,
`f_mode`, `f_pos`), `call[t]` the call a task is in with the handler's locals,
`ret[t]` what the last one returned. The VFS copies `f_pos` for read and write
and stores the copy back afterwards, and takes no lock for character devices, so
a call is `BeginRead`/`BeginWrite` (position copied, count cut), one step per
byte copied (the copies may sleep), and `EndTransfer` or a fault. `pcd_lseek`
works on `filp->f_pos` itself: `BeginSeek` reads and checks, `StoreSeek` stores,
`ReturnSeek` reads again for the result. Opening follows `check_permission`;
release waits for running calls because they hold a reference. Unknown `whence`
values only return `-EINVAL` and are left out.

`PcdCursor` says what one user of a file sees: bytes one after the other from
where the file stands, moved by what was transferred when a call returns, put
back when it faults, and a result that tells the truth: as many bytes as the file
was moved by, the position a seek went to, or an error. The mapping
(`CursorOf`, `ResultOf`) takes the running call's position as the cursor's next
byte. With shared files it does not hold, and is not meant
to: two reads may return the same bytes.

### SynapticsI2c and SynapticsPolling

`ctx["task"]` is the one callback that is running (the input core's mutex, the
device lock and the freezer keep them apart), `ctx["worker"]` the work handler.
Each has a register access under way: `at`, and `sel` once it selected the
page. `Access` does what the register does (`Effect`) if the page is still the
right one, else nothing that was meant. `Fault` fails a transaction: sets
return the error, gets return a value, as in the code. Sequences of accesses
follow the code (`After`), and what callers do with their results is in the
`Work...`, `Probe...`, `End...` actions. `polling` is the global `polling_req`,
which probe sets for good when there is no interrupt. A touch freed while its
work is pending is not followed further (`BeginProbe` waits for `AtRest`);
`NoUseAfterFree` is violated first.

`power` is the power transition as this driver sees it, see section 3.

`setup` is the board, the module parameters and the kernel the driver is used
on; it is chosen in the initial state and never changes. It says whether the
device has an interrupt, whether polling was asked for, which parameters
somebody changes, how many transactions and which calls of probe may fail,
whether the touchpad resets on its own and whether there is power management.
The values, in `MCSynapticsI2c`, are combined so that each kind of trouble meets
polling and interrupts without every kind meeting every other. A
touch that was freed with its interrupt requested (`input_register_device`
failed) is followed no further: `drv` is `"unbound"`, its handler does nothing.

`SynapticsPolling` has real numbers. The driver computes in milliseconds and
queues its work in jiffies, so a delay is rounded up (`msecs_to_jiffies`), and a
run may come up to `MaxLate` jiffies later than queued: the handler's own
transactions take time, and so may the timer and the workqueue. `Jiffy` is the length
of a jiffy, 1000 / HZ, in whole milliseconds; an HZ that does not divide 1000 is left
out. The ghost `idle` is the time from the last data to the last run, which
the code never measures, in jiffies. It is measured while `steady`: since there were
data, the rate has not changed and the work was not cancelled. `Reopen` is a close
or suspend and the open or resume after it, which keep `no_data_count` and wait for
`NO_DATA_SLEEP_MSECS` first. `odd` only makes every run of the handler a step, as
fairness needs it.

### LcdDriver

The unit is one byte to the port expander. The operations of the display library
(`clear`, `setCursor`, `WriteMessage`, ...) are sequences of `Sends`, instructions
and characters, and `Bytes` makes of each the six bytes that `send` writes. Only
`begin` also writes single nibbles. A context (the task in probe or remove, each
writer, the work handler) has the bytes it still has to write in `todo`. Probe
initialises twice (`BeginProbe`), switches the light on (`ProbeLights`), writes its
greeting, a message at a time (`ProbeGreets`; `greeted` counts them), puts the
cursor back (`ProbeHomes`), and goes on to the work and the character device. `Hd44780` takes the bytes and does what
the controller does; where the datasheet leaves something open (lines that
change while the enable line falls, unconnected lines, addresses past a line),
any outcome may follow. `Line` is the length of a line of display memory, 40 in
the hardware; the code's constants that depend on it are `Cols` and the 40 and
41 of `write()`. When `char_probe` fails (`CharFails`) `drv` is `"failed"` and the
work goes on for ever; a driver that is probed again or unloaded under it is not
followed. What `char_probe` registers is in `ModuleInit`, the display's `read()`,
which does not use the display, in `ArduinoChar`. With `Garbles = FALSE` (the run
`LcdDriver`) the display is not followed once operations overlapped or a byte was
lost, until the next initialisation, since the properties of that run claim nothing of it then; with
`Garbles = TRUE` (`LcdScrollRace`) it is.

### PcdPlatform

One step per access to `pcdrv_data`: `BeginProbe` takes a number, then
`CdevAdd`, `DeviceCreate` (writes `device_pcd`), `CheckDevice` (reads it),
`Count`, and for 006 `CreateFiles`. `variant` is the driver that is loaded; it
is chosen in the initial state and decides where numbers come from (`Number`:
ids in 004, the count of bound devices in 005 and 006) and whether attributes
follow. What probe returns before it changed shared state (no platform data, no
memory) leaves no trace and is left out.

The driver core lets two devices be probed at once only when user space asks it
to, through the bind files of sysfs; `Concurrent = TRUE` adds that. The runs
leave it off, because the drivers are wrong then in a way no property needs to
restate: `device_pcd` is shared, so the check after `device_create` may look at
another probe's result, and TLC finds `OwnFile` and `NothingLeft` violated with
`Concurrent = TRUE` (a device bound without a file, and a file left of a failed
probe).

### PcdResize and DevRead

`PcdResize` has one bound device. `dev` holds `pdata.size`, `pdata.perm`, the
length of the buffer and whether it is live, freed or null; `store` says how far
the one running `store_max_size` is (`StoreSize`, `FreeBuffer`,
`AllocateBuffer`, in the code's order); `call[t]` is a task's read or write with
the size it loaded first, the buffer it loads next and the count it cut. Bytes
are not copied one by one, as in `PcdFile`: what counts here is where a copy
goes. `clean` is a ghost: no store was under way since the call began. Each task
has a file of its own, so a seek is one step. A count that became negative, with
the position behind a smaller size, is a huge `size_t` in the code, and the copy
of it is refused: `Fault` (see section 5 for kernels that zero what they do not copy). A copy from a null buffer ends the task inside the
call, which then never returns (`Mapped`).

`DevRead` adds the program's variables as `prog`. While the program runs, its
process only makes the program's calls; when it does not, the process calls what
it likes, as other processes may (`Others`). `Returned` is the test after `read`
as written, with the order of its branches: -1 passes `ret <= remaining` and
is added. `failed` and `resized` are ghosts about the run.

### GpioSysfs

`child` is the loop of probe over the device tree's children, which skips
disabled ones, `i` its count of devices and the index of remove; `dev` is the
array. What `devm_` calls allocated, a child's data and line, is `held` until the
driver core takes it back after a failed probe or a remove; `registered` are the
devices in sysfs, and each of them may have its attributes written at any moment
(`direction_store`, `value_store`). Reaching data that is not held, storing in an
array that was not allocated and unregistering a NULL device lead to `oops`,
where the model ends. `abandoned` says that a probe failed after it had
registered devices.

### ArduinoChar

A message is its length. `BlockAfterCommand` is the call in `write()`, `Block`
the SMBus core that cuts a length to a byte and to 32, `receiveEvent` the
firmware with the buffer of its library. `got` tells for every byte `read()`
returned whether it is the firmware's answer, the idle bus, the driver's filler
or the stack. Transactions may fail, which neither call looks at; copies may
fault.

### SmallDrivers

`ModuleInit`, `GpioSysfs` and `ArduinoChar` have nothing in common and few
states each, so they are checked in one run: `active` chooses at the start which
of them runs, and the others rest. This is a sum, not a product, of their state
spaces, and no property relates them.

### ModuleInit

An init is a sequence of kernel calls with, for each, what it takes, whether its
failure is noticed and what is then undone and returned; `Start`, `Succeed`,
`Fail`, `Undo`, ... interpret it. The kernel's calls that undo do nothing where
there is nothing to undo, except that `device_destroy` needs a class (`Harmless`).
The probes of the Arduino and of the display compare the class with NULL, while
`class_create` fails with an error pointer, and return 0 when there was no memory
and the class was destroyed. The remove after either hands what is no class
to `device_destroy`, its first call: the state `oops`, with all that is held still
held, where the model ends (hence no deadlock check in that run).

## 3. What the runs check

Passing runs:

| run | instance | shows |
|---|---|---|
| `PcdFileShared` | one file, two threads, a device of each permission, at most two bytes | `TypeOK`, `TransferInBounds`, `PositionInRange`, `WriteOnlyUnread`, `ReadOnlyUnchanged` under every interleaving of seeks, reads, writes and faults |
| `PcdFilePrivate` | two files, a task each, one device | `ImplementsCursor`: the driver implements `PcdCursor` |
| `Synaptics` | polling: a failing transaction, a parameter that changes, suspend and resume, failing probe; interrupts: every call of probe failing, or a failing transaction; both: spontaneous resets | `PageHolds`, `QuietWhenClosed`, `NoUseAfterFree`, `PollingAlive`, `SuspendedQuiet` (polling), `ClosedForGood`, `CallbacksReturn`, `MotionIsRead`, `RecoversOnceStarted` (both) |
| `SynapticsPolling` | five rates, changing at any time, jiffies of 10 ms, runs up to one jiffy late, closing and opening | `SlowsInTime` while the rate is steady, `SlowsEventually` |
| `LcdDriver` | every state of the interface at start, one lost byte, a failing `char_probe`, one writer with messages of every kind, unbinding while open | `InStep`, `OnBothLines`, `QuietWhenUnloaded`, `KeepsScrolling`, `Returns` |
| `PlatformBinding` | 004, 005 and 006, three devices, any of four calls failing | `OwnFile`, `NothingLeft`, `Counted`, `UnloadedClean` |
| `SmallDrivers` | four drivers' registrations, any call failing; five device tree nodes; messages and reads of lengths around every cut | `HoldsNothing`, `Nested`; `AttributesWork`, `GivesAllBack`; `ArrivesWhole`, `NothingOfStack` |
| `DevRead` | three devices, one described by hand and two by a tree; stores of -1, 0, 1 and 3 bytes at any moment; four requests | `CopiesInBuffer`, `BufferHolds`, `ReadsWhatIsThere` |

Runs that show a disagreement between the code and what a comment of the
repository says (the quotes are in `PROJECT.json`):

| run | what happens |
|---|---|
| `SynapticsBusRace` | "no race condition possible on i2c bus": with an interrupt, close, or an open after it, races with the handler |
| `SynapticsIrqLost` | a touchpad that resets before its first interrupt is never polled, so never configured again |
| `LcdScrollRace` | scrolling, "without changing the RAM", changes characters when it meets a writer |
| `PlatformRebind` | remove the first of two devices, add another: its number is taken, its probe fails |

Smaller disagreements that modelling brought up, in the modules but without a
run: a write of no bytes fails with "No space left on the device"
(`pcd_n.c:175`); the touchpad's handler postpones a run that an interrupt asked
for meanwhile to the slow poll (`synaptics_i2c.c:455`, against "no real need to
poll" at 448); an option set when the touchpad is configured and cleared before
the handler's next comparison stays on (391); polling becomes slow later than
"no data received for NO_DATA_THRES msecs" (185), since each of the periods it counts
is rounded up to jiffies (427): with HZ=100, 1.7 seconds at the default rate of 80, where
each of 83 periods of 12 ms takes two jiffies, and 10 seconds at a rate of 1000 (4 with
HZ=250), and more if the handler's own time counts; at fewer than four polls a second
the "reduced" rate is the higher one (425); a second probe of the display leaves
the backlight on (`HD44780U_I2C_Burton.c:201`); a device file that
could not be created goes unnoticed (`pcd_n.c:298`); a device tree node's
permission is read from its `org,size`
(`006_pcd_sysfs/pcd_platform_driver_dt_sysfs.c:164`, and in both copies of 005);
a store for which there is no memory, or of a negative size, leaves a null
buffer, because `devm_kzalloc` returns no error pointer (`:70`); `dev_read` adds
the -1 of a failed read to its total and reads on before its buffer
(`dev_read.c:68`), and opens `/dev/pcdev-0`, while the driver beside it makes
`pcdev-1` and up (`pcd_n.c:297`), so it is modelled over the drivers that make a
`pcdev-0`; a GPIO probe that fails half-way leaves devices whose attributes reach
freed memory (`gpio-sysfs.c:192`), and a disabled child makes remove unregister
NULL (`:156`); a message to the Arduino longer than 32 bytes loses its end, one
of 257 all but its first byte, while `write()` returns the full count, and an
empty one sends what the stack holds (`arduino_Char.c:60`); reading the Arduino at a later position returns filler,
since the answer goes to the start of the buffer (`:93`); probes that find no
memory return 0 (`:147`) and those whose class could not be created do not notice
(`:141`), and the remove after either oopses at its first call (`:185`), in the second
case with the region, the memory and the cdev held (`LCD_Char.c:145`, `:151` and
`:190` are the same).

Where a property excepts something, the code does not keep it there. The largest
exception is a resume of the touchpad while its input device is closed
(`synaptics_i2c.c:636`): it queues the work all the same, and until the next
close the work may race with an open (`PageHolds`), run on a closed device
(`QuietWhenClosed`) and outlive a removal (`NoUseAfterFree`). `power` is
`"resumed"` in that time, or `"unresumed"` when the reset in resume failed and
nothing polls. In 006 a failure to create attributes leaves the cdev and the
count behind (`LeftBehind`). That cdev is followed only by its device: `cdevs` is a
set of devices, so when the device is probed again its new cdev is taken for the old
one, and both for gone when it is removed. `Counted` says nothing of 006 at all. A read or write that a store of `max_size` overlaps may
pair one size with another buffer, or use the freed one: `CopiesInBuffer` claims
nothing of it. `AttributesWork` and `GivesAllBack` except the failures of the
GPIO driver named above, `BufferHolds` and `ReadsWhatIsThere` a failed read.
`ClosedForGood` is about a touchpad that was open; for one that never was, the
interrupt may have queued work that nothing cancels. `HoldsNothing` is about an exit
that gets through, and says which one does not.

Bounds, and why they are enough (the invariants that section 4 proves hold
without them; the bounds then matter for liveness, and for the runs that show
what goes wrong):

- PcdFile: sizes 2 and 1 and counts 0, 1 and 3 reach a count of nothing, a count
  below, at and beyond the end, and a position at the end; two threads are enough
  for a copy of the position to become stale while it is used.
- SynapticsI2c: two contexts are all there are. `faults` bounds the failing
  transactions: one may strike at every access of every callback and of the
  handler. One option is enough, since the three parameters are treated alike
  but for `no_decel`, the one chosen, which probe copies.
- LcdDriver: `Line = 2` lets a message be empty, shorter than a line, full and
  too long. Messages use two characters, a NUL and blanks. `MaxLost = 1` lets
  any byte be lost. `Starts` is every state of the display's interface
  that the initialisation can find, so nothing is lost by forgetting the display
  between a disturbance and the next probe.
- PcdPlatform: three devices, so that one can be removed from the middle;
  `MAX_DEVICES` is 4, one more than the devices, so that a count that only
  grows is seen past them; the model stops at a number outside of the range.
- DevRead: sizes 1 to 3 are below, at and above the position a file may be
  left at; requests are negative, none, some and more than there can be;
  `BufSize` is no less than any size, as the program's 2048 bytes are no fewer than
  those of the largest device the repository describes, which has 2048. One process is enough beside a
  store: processes with files of their own meet only in the device, which only a
  store changes; the module admits more.
- SmallDrivers: three children, with all, none, the first or the middle one
  disabled, so that the array has an entry too few at either place; `NO_OF_DEVICES`
  is the code's 4; message lengths lie on both sides of 32, 256 + 32 and 1000,
  read lengths let a file stop before, at and beyond the end of the 32 bytes.
- SynapticsPolling: `idle` is counted to the latest run that should be slow; the
  rates 2, 7, 80, 100 and 250 have periods that divide a second, that do not, that
  exceed the slow one, and that are whole jiffies, more than one and less than one.
  One jiffy of lateness at every run, or at none, lets the time of a number of runs
  be anything between its bounds.

Fairness: callbacks, handlers and operations that have begun go on
(`TaskProgress`, `WorkProgress`, `DriverProgress`, `UserProgress`,
`WorkerProgress`), because they run on kernel threads that only wait for each
other in the ways the model has; queued work runs and timers expire, because the
workqueue and the timer wheel guarantee it; a pending interrupt is handled.
Nobody has to open, close, write, move a finger or bind a device, and neither
failures nor resets are fair. Failing transactions are bounded (`faults`) in
`Recovers` and `RecoversOnceStarted`, resets are not: the properties allow for a
reset after recovery.

The runs of `SynapticsI2c` and of `SmallDrivers` switch deadlock checking off
where the system really stops: an interrupt-driven touchpad that is configured,
idle and closed need not do anything more; a touch freed under its work or its
interrupt, like a device that was never set up or a kernel that met a NULL
device, is not followed any further.

## 4. What is proved

For each module below there is an inductive invariant, from which the listed
properties follow. TLC has checked each invariant on small instances first. The
theorems hold for all values of the constants that satisfy the assumptions the
modules state (`ASSUME`); these say what kind of thing a constant is (sizes and
counts are naturals, tasks are no files), and where they say more, it is named
here.

### PcdFile

`Typing`, `Bounds`, `Position`, `Unread`: `TypeOK`, `TransferInBounds`,
`PositionInRange` and `WriteOnlyUnread` are invariants, and `ReadOnly`: the
action property `ReadOnlyUnchanged`, for every set of devices, sizes,
permissions, files, tasks, byte counts and offsets.

`TransferInBounds` is not inductive by itself: a call ends by storing its
position in a file that another task may use meanwhile, so `IInv` adds that a
running call's file is open (no release while a call is in it), that the
position of every open file is in range, that what a seek has checked is in
range of the same device until it is stored, that a call is only in an operation
the mode of its file allows, and that the mode of an open file was granted by
its device's permission. The argument: each step changes one file or one call;
what it leaves alone keeps its bounds because a device's size never changes and
a file keeps its device while anybody is in it.

`Refinement`: the driver implements `PcdCursor`, step by step. Its hypothesis is
`Private`: each file has one user and no task uses two files. Without it the
refinement is false (two tasks that share a file may read the same bytes), and
it is not meant to hold. `PrivateInv` adds to `IInv` that only its user is in a
file, and that the file stays where its user's transfer began until the end of
the transfer.

### PcdPlatform

`Typing`, `Ownership`, `Cleanup`, `Counting`, `Unloading`: the invariants of the
run `PlatformBinding` for any number of devices, any ids, and any kernel calls
that fail. `IInv` is about ownership: every device file belongs to a device whose
probe has come past `device_create` and has not undone it, or that is bound; no
two files have the same number; a cdev lives from `cdev_add` to the end of the
binding, except in 006; the count covers the bound devices and no fewer. What
`check` finds in `device_pcd` is the probe's own result, because only one probe
is under way.

The hypothesis is `~Concurrent`: the driver core probes and removes one device at
a time. It is what the core does unless user space writes to the bind files of
two devices at once; in that case the properties fail (see section 2), and no
theorem claims them.

`IdsGiveFiles` is about 004 alone (`Variants = {"004"}`): a device is refused a
file only when a kernel call fails. This is what `PlatformRebind` refutes for
drivers that number by counting. `IdsDiffer`, that no two devices have the same
id, is how `pcd_device_setup.c` describes them, and the platform bus refuses a
second device with the same name and id.

### PcdResize and DevRead

`Copies`: `TypeOK` and `CopiesInBuffer`, for any number of tasks and any sizes,
stores, counts and offsets. `DriverInv` says that between two stores the buffer
has the device's size or there is none, and that a call no store overlapped works
with the size the device has. `clean` is what makes a step of a store harmless to
the invariant: it ends the claim for every call under way, as the code ends its
truth.

`ReaderTyping`, `ReaderCopies`, `BufferNeverOverrun`, `TwoReadsSuffice`:
`DevReadTypeOK`, `CopiesInBuffer`, `BufferHolds` and `ReadsWhatIsThere` for the
program over the driver, for any requests. The lemmas about the driver take any
count, so that they hold for the counts the program computes. `ReaderInv` adds
that the file is where the bytes read so far end (until a read fails), that a
read's size is at most the program's buffer, and what the first read brings.
`FitsAssumption`, that the sizes of the device are at most the buffer's, is true
of every device the repository describes and is needed: a `max_size` beyond 2048
would let `dev_read` read more than its buffer holds.

### GpioSysfs, ArduinoChar and ModuleInit (SmallDriversProofs)

`AttributesReach` and `GivenBack`: `AttributesWork` and `GivesAllBack` for every
device tree node. `GInv` follows `child` and `i` through the loops of probe and
remove: as long as no probe failed half-way, what is registered is what probe
has come past or remove has not, and an array left short by disabled children
has an empty last place, which is where remove stops. A probe that failed half-way
leaves the devices of the first enabled children (`GpioStuck`), and every later
probe stops at the first of them, so that nothing is ever registered again.

`Arriving` and `Unleaked`: `ArrivesWhole` and `NothingOfStack` for any counts.

`NothingHeld` and `Nesting`: `HoldsNothing` and `Nested` for any number of
devices in 003, whichever call fails; that includes where a remove oopses, and that
nothing else does. `InitInv`: an init under way can undo
whatever it holds; what is still to be undone, or what exit will do, gives back
all that is held, and nothing is taken away from under something else on the way.
The ladders of calls are data in this model; that a row of calls has the form this
takes (`GoodRow`: each call undoes what those before it took, exit gives back
what any of them takes, a cdev comes after what it stands on) is proved for each
driver, and the invariant from that form alone. Likewise `SafeRow`: an undoing gives
back devices only where the class was certainly taken, and an init of 002 or 003 that
succeeds took it; what is left to give back then never meets a `device_destroy` without
a class (`SafeToGive`), unless it is the whole remove of one of the I2C drivers.

`Typing`: `TypeOK` of the three.

### SynapticsI2c and SynapticsPolling

`Typing`, `BusToOneself`, `ClosedIsQuiet`, `FreedIsQuiet`, `OpenIsPolled`,
`SuspendedIsQuiet`, `RemovedIsClosed`: all invariants of the run `Synaptics`, for
every set of setups, any number of failing transactions among them. One argument
carries the polling driver: it has no interrupt, so only open, resume and the
handler itself queue the work, and a cancel that waits leaves none. `IInv` says
which callback may run in which state (`CallFits`), that the worker is in the
handler exactly while the work runs (`WorkFits`), where without an interrupt
there is no work (`IrqFits`), and when a polling driver has work (`PollFits`). From
these, the two contexts are never on the bus together, and therefore a page that
was selected is still selected at the access: `PageHolds` is part of the
invariant, as its own step needs it. With an interrupt, `PageHolds` fails
(`SynapticsBusRace`).

`InTime`: `SlowsInTime` for every set of rates from 1 to 1000
(`RatesAssumption`; the code checks neither end of that range, and divides by zero
beyond them, see the hazards), for a jiffy of any whole number of milliseconds and
for runs as late as one likes (`ClockAssumption`).
The lower bound is a second, whatever the clock; the upper one is as many periods as the
code counts, each rounded up to jiffies and `MaxLate` longer, and is no better than
that (section 3 has examples).
`PInv` ties the count of runs to the time without data while the rate is left alone:
each run that was counted took at least the period in jiffies and at most `MaxLate`
more (`Counting`), and polling is slow since one run more than the threshold (`Slow`).

### LcdDriver

`Typing`, `Steps`, `Messages`, `Unloading`: `TypeOK`, `InStep`, `OnBothLines` and
`QuietWhenUnloaded`, for any users, buffers, greetings, number of lost bytes,
states of the display at the start, and with the display followed (`Garbles`) or
forgotten where nothing is claimed of it.

`InStep` and `OnBothLines` speak of the end of an operation, so neither says what
a byte in its middle must find. `DInv` does. `Undisturbed`: as long as the
display is `clean`, one context is `Working` and nobody else has written a byte of
its operation (`Untouched`). What the working context still has to write is a
`Suffix` of its operation's bytes, and the display is where the bytes before it
lead: half of a byte taken or none, the enable line up or down, the right nibble
on the data lines (`Within`); in a message, moreover, its memory holds the
characters sent so far and blanks, and the address is that of the next one
(`Written`). When nobody is at work the display is `Rested`, and so any context
may begin; a context that begins while another is at work ends `clean` with its
first byte. `BusFits` adds the types, that a display with eight data lines has no
half of a byte, and that an idle context has nothing to write.

The initialisation is the one operation that begins with a display of which
nothing is known. The bytes of the first `begin` are only shown to leave it a
display; `Initialising` then follows the second: before it the display may have
either width of its interface and half a byte left over. After one nibble of 3 it
has eight lines, or four and nothing or that nibble left over; after the second
eight, or that nibble left over; after the third eight, whatever it began with
(`Forced`). The nibble of 2 leaves four lines and no half, and from there on the
bytes are sends, each of which settles what it is about (`Set`).

The lemmas follow the same way up: what the display makes of a byte, of the six
bytes of a send, of a nibble of the initialisation, and of a step further into an
operation, for any sequence of sends (`Tame` ones: characters, clear, shift and
addresses, which leave the display's modes alone). `OnBothLines` then follows
from `Written` at the end of the message `layout` makes: `count - 1` characters,
`Line - (count - 1)` blanks and the characters again, which fill one line and
begin the next where the first ended, since the address goes from the end of the
first line to the second.

`QInv` is about the driver: the work is at rest until a probe schedules it; a
remove has dequeued it and keeps it from queueing itself; remove returns only
when it is at rest again; and a process is in `write()` only with the device open.

Assumptions, beyond types: `LineAssumption`, a line has 1 to 64 characters (the
second line begins at address 64; 40 in the hardware); `GreetingAssumption`, the
greeting's messages begin within the columns and rows the library was told of, as
the four of `I2c_LcdHD44780.c:48-55` do; `StartsAssumption`, a display with eight
data lines holds no half of a byte, as it takes its bytes whole.

### Only model-checked

- Liveness: `CallbacksReturn`, `MotionIsRead`, `RecoversOnceStarted`,
  `SlowsEventually`, `KeepsScrolling` and `Returns`. They rest on fairness, that is,
  on `ENABLED`, which the prover does not reason about.
- The four violations, which are counterexamples.

## 5. Plan

Done: the modules above. Next, in this order:

1. `PcdPlatform` composed with `PcdResize`: files that stay open across an unbind,
   which frees the memory they use.
2. Two processes that store `max_size` at once.

Not modelled, and why:

- formatting and logging, and the attributes that only show something; delays
  (they only bound how fast the contexts go);
- the file operations of 002, which are those of 003 for one device without
  permissions, and those of the Device_Tree_Overlays copy of 005, which do
  nothing;
- labels of GPIO children: they decide whether a device's name is taken, which
  `ChildFails` allows; that a long one overruns its 20 bytes (`gpio-sysfs.c:180`)
  is outside of what the model's data can show;
- `pread` and `pwrite`, which no program of the repository calls. They are not just
  `read` and `write` at another position: theirs is not range-checked, so that past
  the end the count becomes negative (`pcd_n.c:139` and `:171`), which `PcdFile`, where
  positions stay in range, cannot show;
- what a copy of a negative count does, in a write behind a size that was made smaller
  (`PcdResize`) as in such a `pwrite`: it is taken for refused, as newer kernels do,
  while `copy_from_user` of older ones, such as the 4.14 of the Makefiles of 002 and 003, fills the
  rest of the kernel's buffer, and what is behind it, with zeros;
- messages with a NUL byte to the Arduino: the firmware prints a C string, so
  `ArrivesWhole`, which counts the bytes that arrive, is about the printed line only
  for messages without one;
- library functions of the display that nobody calls, and `LCD_ktimer.c`, which
  the delayed work replaced;
- `001hello_world`, `arduino.c` (a greeting), the device trees and
  `008_lcd_platform_driver` (data), and the samples (a third party's).
