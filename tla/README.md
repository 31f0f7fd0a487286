# Formal models of the Pybricks firmware core

Pybricks runs MicroPython programs on LEGO hubs. Below the virtual machine sits a
C firmware core: a cooperative event loop, a system layer that stores, starts and
stops user programs and shuts the hub down, drivers, and a motor control library.
This directory holds TLA+ models of that core, the TLC configurations that check
them, and TLAPS proofs. All source paths are relative to the repository root.

To check: `tlc -config X.cfg M` for each run below (`PROJECT.json` lists them), and
`tlapm` on `EventLoopProofs.tla`, `SlotMapProofs.tla`, `StorageProofs.tla`,
`ProgramLifecycleProofs.tla`, `AwaitablesProofs.tla`, `HostLinkProofs.tla`,
`DrivesProofs.tla` and `RobotBaseProofs.tla`. Sections 6 and 7 say what is planned and
what is left out.

## 1. The system

```
 user buttons   hosts (BLE, USB)           user program
      |              |                          |
   hub UI        host commands           MicroPython VM, awaitables
 (sys/hmi_*)    (sys/command.c)          (bricks/, pybricks/)
      \              |       \                  |
       program lifecycle      program storage   |  motors, sensors,
   (sys/main.c, program_stop)  (sys/storage.c)  |  bluetooth, lights
              \               |                 |        |
               +---- event loop: lib/pbio/src/os.c ------+
                              |
                   interrupts, drivers, block device
```

Everything except interrupt handlers runs on one stack. A *process* is a function
with a resume state, in a linked list; `pbio_os_run_processes_once` calls every
process that has not finished. The main thread (hub UI, virtual machine, boot and
shutdown code) runs the loop whenever it waits, so between any two waits of the
main thread a host command, a connection or a button can change what it looked at.

| Component | State | Operations | Hard behaviour |
|---|---|---|---|
| Event loop `lib/pbio/src/os.c` | process list, per process result, resume state and request; the poll flag; interrupt mask | start, request, poll request, one pass, drain and sleep | interrupts between any two steps; lost wake-ups; starts during the pass |
| Program storage `lib/pbio/sys/storage.c` | slot map, program bytes in RAM, download state, write-on-shutdown | receive size 0 / data / size n, timeout, select, erase, save, load | aborted and repeated downloads; compaction; commands during save; a program's heap behind the map |
| Block device `drv/block_device/*` | erased, written and verified pages | read, write all | power loss in the middle |
| Program lifecycle `lib/pbio/sys/main.c` | requested program and start type, running flag | request start, run, stop, deinit, power off | requests at any time from two sides |
| Hub UI `lib/pbio/sys/hmi_pup.c` (also `hmi_ev3.c`, `hmi_nxt.c`, `hmi_none.c`) | position in the button loop, connection-change flag, advertising | select slot, start, advertise, cancel | radio commands that take time; button presses that span states |
| Stop and power buttons `lib/pbio/sys/program_stop.c` | stop combination, edge detector, power button timer | poll every 50 ms, stop request | soft stop vs. abort; shutdown of a program that catches everything |
| Host commands `lib/pbio/sys/command.c`, `host.c` | none of its own | start, stop, write size, write data, reset, stdin, app data | arrive during any wait |
| System status `lib/pbio/sys/status.c` | flags and selected slot | set, clear, test, report | flags as locks between components |
| Awaitables `pybricks/tools/pb_type_async.c`, `pb_type_task.c` | operation, resume state and owner of each awaitable; tasks of all/race | iterate, close, supersede, reuse | two tasks that use one motor; cancellation; reuse of awaitables |
| Robot base `pybricks/robotics/pb_type_mdrobotbase.c`, `lib/pbio/src/mdrobotbase.c` | pose, odometer references, motion type, deadlines | start a motion, iterate, close, pose update | superseded, failing and abandoned motions; state left from an earlier program |
| Bluetooth `drv/bluetooth/*` | advertising, connections, command queue | connect, scan, send, disconnect all | slots for tasks, events lost when busy |
| USB `drv/usb/*` and what the hub sends, `lib/pbio/sys/host.c` | port and subscription, pending replies, a notification per kind of event, the stdout ring buffer, the state of the call that sends app data | receive, reply, notify, write stdout, send app data | buffers topped up while they are sent; hosts that stop reading, close the port or pull the cable at any step |
| Motor control `lib/pbio/src/{servo,control,trajectory,observer,drivebase,dcmotor,parent}.c` | references, observers, trajectories, parents | run, hold, stop, update every 5 ms | numeric; a drivebase and its motors stopping each other |
| Ports, LUMP, DCM `lib/pbio/src/port*.c` | detected device, modes, buffers | detect, sync, set mode, data | protocol timeouts, replug |
| IMU, lights, battery, telemetry, clocks, other drivers | sensor filters, animations | poll | mostly data |

## 2. What is modelled

| Module | Models | State and actions |
|---|---|---|
| `EventLoop` | `lib/pbio/src/os.c` and the wait-for-event pattern of `platform` code | One variable per C variable (`list`, `err`, `state`, `request`, `pending`), the position of the main thread in the loop (`pc`, `cursor`, `caller`), the interrupt mask and latched interrupts. One action per step between which an interrupt can come. A process function is opaque: it is entered, may start, request and poll, and returns. `event` is the history variable that says which processes have something to see. |
| `Wakeups` | nothing: the abstract promise of the event loop | A live process that is signalled is eventually served. |
| `SlotMap` | the pure part of `sys/storage.c`: sizes, alignment, removing the hole in front of the selected slot | operators shared by the next two |
| `Storage` | `sys/storage.c`, what the W25Qxx block device does with the image, and a host that downloads | program bytes carry the slot and index they were sent for, so moved, torn or mixed programs show; the save is modelled byte by byte |
| `ProgramLifecycle` | `sys/main.c`, `sys/hmi_pup.c`, `sys/program_stop.c`, and the commands of `sys/command.c` that reach them | `pc` is the main thread's position; the 50 ms poll, hosts, buttons and timeouts are actions of their own |
| `Awaitables` | `pb_type_async.c`, the collections `all` and `race` of `pb_type_task.c`, the run loop and waits of `pb_module_tools.c`, and how `Motor` and `DriveBase` methods use them | `parent` is `parent_obj` of each awaitable object with its two special values, `prev` the `last_awaitable` of each device, `pc` and `cur` the position in the collection's loops. Coroutines do whatever they like in their turn; a device either still moves for an operation or does not. `want` and `op` are history: which operation a coroutine got an object for, and which operation an object was last set up for |
| `Usb` | `drv/usb/usb.c` over `drv/usb/usb_stm32.c`, and the host at the other end | the USB process as one action per stretch between two waits (`pc`, `polling`); the interrupts (cable, DTR, packets, end of a transmission) are actions that come at any step of it; the buffers are sequences of the numbers of the inputs that filled them |
| `HostLink` | `sys/host.c`: status, stdout and app data, over `Usb` and a Bluetooth notification | extends `Usb` with the calls that the rest of the hub makes between two runs of the USB process; `err`, `awaiting` are the static state of `send_event`; `sent`, `outcome` and `cut` are history |
| `MotorControl` | nothing: the abstract rule of who may drive a motor | a motor follows its servo controller, or one drive base, or neither, and a drive base takes and lets go of its motors together |
| `Drives` | `dcmotor.c`, `servo.c`, `drivebase.c`, `parent.c`, `motor_process.c` of `lib/pbio/src`, under the calls of `pb_type_motor.c` and `pb_type_drivebase.c` | one variable per link and flag (`parent`, `left`, `right`, `owned`, `loop`, `ctl`, `active`), and `turn`, the position of the control loop, which a program, a cable or the end of a program meets between two passes. `asked` and `raised` are history |
| `RobotBase` | `lib/pbio/src/mdrobotbase.c` and the motions of `pybricks/robotics/pb_type_mdrobotbase.c` | the static robot base (`motion`, `coasts`, `clock`, `ref`), the wheels, and the tasks that await its motions; one action per call and per kind of iteration |
| `SlotMapProofs` | | what the operators of `SlotMap` compute: lemmas for the next two |
| `EventLoopProofs`, `StorageProofs`, `ProgramLifecycleProofs`, `AwaitablesProofs`, `HostLinkProofs`, `DrivesProofs`, `RobotBaseProofs` | | theorems about these modules |
| `MCEventLoop`, `MCStorage`, `MCAwaitables`, `MCDrives`, `MCRobotBase` | | symmetry, views, model values and tuples for TLC |

`PROJECT.json` maps each definition to the lines it translates. Definitions that no
action uses (`RequestableAnyTime`, `BootShort`, `GapClosedByAll`, ...) are the variants
with a plausible bug, against which `PROJECT.json` tries each property ("mutants").

`HostLink` composes the USB process with `sys/host.c`; `Drives` and `MotorControl`,
`EventLoop` and `Wakeups` are pairs of a detailed and an abstract specification. The
other modules meet at narrow places: `ProgramLifecycle` shares `SlotMap` with
`Storage` and takes from `EventLoop` that a polled process is served; `RobotBase` uses
the awaitables of `Awaitables` for the one operation it has.

### Abstractions

* **Event loop.** Timers are processes that look at a clock; the tick is an
  interrupt from `NoProcess` with no fairness, so nothing relies on it. No
  firmware process starts *itself* from inside its own function, and the model
  excludes it: the result stored after the return (os.c:156) would overwrite the start.
* **Storage.** One host: a second one would go through the same checks.  The
  header of the flash image counts as one byte.  A host follows the protocol (size
  0, data in order from 0, then the size), may stop at any point and, with
  `Claim`, may announce a size other than what it sent. Power cuts do not fall
  into a save: a half-written image has a valid header, a hazard listed without
  property.
* **Lifecycle.** A radio command always succeeds. `mp_init` clears a pending soft
  stop (MicroPython, external). Between consecutive waits of the main thread that
  could pass in one go the model also lets events in; this adds interleavings and
  removes none. `MaxChanges` bounds connections and disconnections per power-on:
  the connection change is handled before a pending start, so a host that
  connects and leaves without end would postpone it for ever.
  `MoveWhileStarting` exists to keep the code's race (below) out of the passing
  run.
* **Awaitables.** An operation is told to the ongoing awaitable of its device
  ("moving") or not: with `wait=False` it starts as "untold", and `Motor.dc` and
  `brake` are "direct". One collection at a time, not nested in another, and each
  coroutine keeps a reference to at most one awaitable object, the last. A
  coroutine that is closed does not run `finally` or `except GeneratorExit` code
  that starts further operations. A drive base and motors are devices
  independent of each other. Control loops run between any two steps, except
  while a collection closes its tasks, where the code does not return to the event
  loop.
* **USB and host link.** A request, report, byte or notification is the number of the
  input that made it; framing, COBS and contents are left out, but a frame that ends
  in the middle is not (`stale`, the "stray" packet). A host opens the port as an
  application or as a probe, subscribes, has at most one request of a kind under
  way, and may stop reading, close the port or lose the cable. `Race` says which of
  these may come before the process has seen what came before. The run allows
  "close"; "reopen" and "bounce" carry state over from one opener to the next, as
  section 5 says. A request may always come as soon as the host has the last reply,
  whether or not the process has seen that it is sent; what happens then is the finding
  of `host_link_requests`, and `FreeBufferAnswers` speaks of the other requests.
  Bluetooth is the one notification that
  carries app data.
* **Drives.** Of angles, torques and trajectories only remains that a manoeuvre may
  complete and that a call may fail. A cable comes loose or is plugged in between two
  passes of the control loop, which is when the port process runs. `Loose` are the
  motors it happens to; with `Catches` a program goes on after an exception, and
  `raised` marks that one happened in this program: failing calls leave a drive base
  half taken down (section 5), so `DrivenIsSupervised` and `UnpluggedStopsBoth` hold of
  programs without. A `Motor()` may fail after it has
  claimed the motor. `ResetWhileDriving` lets programs reset the angle of a motor
  whose drive base drives it, the finding of `drives_reset`. The `DCMotor` class,
  which uses the motor without a servo, and errors of the motor driver are left out.
* **Robot base.** The pose is abstracted to the degrees of each wheel that it accounts
  for (`missing` counts the rest); geometry, the gyro, controllers and the filter for
  backlash, which delays degrees but loses none, are left out, and so is the
  arithmetic that decides when a goal is reached: that is a choice. All objects have
  the same two motors. A blocking call outside of a run loop is a task that is alone.
  `loose` marks that a task left its motion without closing it: by the exception of an
  unplugged motor, by dropping the awaitable, or by an exception in the run loop. `anchored` says that the angles have not been
  changed behind the robot base's back, by the program or by a cable. That a motor is
  unplugged is noticed at once.

## 3. What the runs show

| Run | Instance | Shows |
|---|---|---|
| `event_loop` | two processes and the tick | `NoLostEvent`, `SleepsOnlyWhenIdle`, `ListedOnce`, `StartedWillRun`, and that `EventLoop` implements `Wakeups` under its fairness |
| `storage` | three slots, word of 2, region of 18 bytes, writes of 3 bytes, save, power cut and boot | `ProgramsTiled`, `ProgramsIntact`, `SavedProgramsIntact` |
| `lifecycle` | one slot, one builtin program, three buttons with Bluetooth, two hosts that come and go three times | `PressActsOnce`, `RunsWhatWasAccepted`, `AdvertisesWhenAlone`, `ShutdownCompletes`, `AcceptedStartRuns` |
| `awaitables` | two coroutines, a motor, a drive base, one static wait object and memory for four objects, three operations | `AwaitsOwnOperation`, `CancelledIsStopped`, `OthersAreCancelled`, `ToldOperationWins`, `SupersededGoesOn` |
| `host_link` | one sender, two inputs, one disruption, a ring buffer of one byte and notifications of two | `EndpointIsFree`, `StdoutInOrder`, `ResultIsTrue`, `OutputReachesHost`, `FreeBufferAnswers`, `SendEnds` |
| `drives` | three motors, one drive base that is used for motors 1 and 2 or 2 and 3, the cable of motor 2 is loose, programs catch exceptions | `OneController`, `DrivenIsSupervised`, `AskedIsKept`, `BaseAvailable`, `UnpluggedStopsBoth`, and that `Drives` implements `MotorControl` |
| `robot_base` | two tasks, two objects, a wheel that turns by a degree | `PoseKeepsUp`, `MotionsAreWatched`, `MotionEnds` |
| `storage_save_race`, `lifecycle_moved`, `awaitables_close_fails`, `host_link_requests`, `drives_reset` | | violations: see section 5 |

Each run also checks the type invariant of its module, where it has one.

**Bounds.** Two processes give every order of starter and started in the list, a
start of an earlier and of a later process during the pass, and interrupts at
every step. Three slots are needed for a compaction with a program in front of and one
behind the hole; word 2 with writes of 3 exercises alignment; a slot's share of the
region is 6, so that programs of one and of two writes fit and the limit is reached.
Where compaction is not the question, a slot and a builtin program are two programs
to choose from, so that a second start can be for another one; the selection of the
buttons has nowhere to go then, and the proofs are for any number of slots. Two hosts
do everything several could, including that one leaves while the other stays; three
changes are a host that comes, one that joins or replaces it, and one that leaves
during the radio command for the change before. Three operations are one that starts, one that takes
its device over, and one that reuses the awaitable object of either. Two coroutines
compete for one object in every order; the third in `awaitables_close_fails` is the one
that is forgotten. Two inputs are one that is sent while the other arrives (two bytes,
two reports, a request and a report); one disruption is a host that goes away at any
point and comes back. `OutputReachesHost` says of every byte that was accepted that it
is printed unless the connection ends (`PrintedReachesHost`) and is not lost before
(`StdoutNotLost`), and of the status that a host that stays gets to know the latest.
Three motors let a drive base be made again with one of its
former motors on the other side; two bases at once share nothing but the search
for a free one, which a base with a motor of another already stresses. In
`robot_base` one wheel turns and the other does not, which is every difference between
the two that a reset of one of the angles could confuse; the proofs have no such bounds.

**Fairness.** `EventLoop`: the processor keeps executing (weak fairness of the
loop's own steps, of callers coming back to the loop and of handlers of enabled
interrupts); nobody has to raise an interrupt. `ProgramLifecycle`: the main thread
makes progress and the 50 ms poll runs, which is what `Wakeups` promises a process
with a timer. Users and hosts have no fairness; a program may run for ever.
`Awaitables`: the run loop and the collection's loops go on (they are loops of the
main thread), and a coroutine does not compute for ever without awaiting or ending;
no operation has to complete. `HostLink`: the USB process is polled, the transmit
timer expires, a host that has its port open takes what is sent. Strong fairness is
needed where a disruption may disable a step again and again: the charger detection
ends if the cable is plugged in often enough, the radio sends if it is connected often
enough, a task is iterated although it may only be so between two runs of the
USB process. A host that does not read in time (a break) is possible, and owes nothing.
`RobotBase`: the run loop iterates every task that awaits; no motion has to complete
and no cable is plugged in again. `Drives` and `Storage` are safety only.

**Views.** `MCStorage!LiveState` identifies states that differ in bytes that belong
to no program and no download, and in the offset of an empty slot. No property and
no guard reads them.

## 4. What is proved

`EventLoopProofs` proves, for every set of processes:

* `TypeCorrect`, `ProcessesListedOnce`, `StartIsNotForgotten`, `NoEventIsLost`,
  `NeverSleepsOnWork`: the safety invariants of the run;
* `LoopImplementsWakeups`: initial states map to initial states and each step is a
  step of `Wakeups` or a stutter (safety part of the refinement).

The only assumption is that `NoProcess` is not a process. None of the properties is
inductive alone. `IInv` conjoins them with `PassOK`, which says where the cursor
is and what holds of the process being called, and `MaskedOnlyToSleep`, which ties
the interrupt mask to the position in the loop. `NoLostEvent` needs both: an event
raised by a handler while the walk is past its process is carried by the flag, and
the flag cannot change between the decision to sleep and the sleep because handlers
are masked there. The proofs have one lemma per kind of step (`StartStep`,
`QuietStep`, ...) and one case per action.

`StorageProofs` proves, for any number of slots, any word and write size and any size of
the region:

* `TypeCorrect` and `StaysTiled` (`ProgramsTiled`), if hosts announce no size beyond the
  maximum. Without that hypothesis they are false: the code does not compare the size
  (section 5).
* `ProgramsStayIntact` (`ProgramsIntact`) and `SavesAreIntact` (`SavedProgramsIntact`), if
  hosts announce the size of what they sent, no program is started during a download and
  no host is heard during a save. These are the cases of section 5 in which the code loses
  programs (`Claim`, `Scenario`; `storage_save_race` is one of them).

`UsedSize`, the sum of the sizes of all slots, is a recursive function. `SlotMapProofs`
proves what is needed of it by a smallest counterexample (`IntervalInduction`, from
the well-foundedness of `Nat`): it has the value that its definition says
(`UsedIsCount`), it bounds the size of each part (`UsedBound`), it changes by what one
slot changes (`UsedChange`). `MapOK` says that slots which are not empty lie apart and
end below the sum of all sizes, as `ProgramsTiled` does, for a map in RAM or in
flash; `TilesInv` adds that a download goes behind all programs. `DataInv` adds to it
`ProgramsIntact`, that what arrived of a download lies where it will be (`Received`), and
how far a save has got (`SaveOK`: what has been written equals what is in RAM, and that
does not change meanwhile).

`ProgramLifecycleProofs` proves, for any slots, builtin programs, buttons and hosts:

* `TypeCorrect`: downloads and the selection keep the slot map and the slot in their types.
* `PressesActOnce`. Nothing in the property says where the program is, so
  `PressInv` adds it: while a press has started something and is still down, the main
  thread is at the wait for its release or past the running programs on its way off;
  while it has stopped something, it is between the virtual machine and the wait for
  release.
  `PressQuietStep` covers all steps that neither move a button nor act on one.
* `AcceptedStartsAreFinal`, from the guard of each action that sets the program.
* `RunsTheAccepted`, that is `RunsWhatWasAccepted`, if no host begins a download while a
  start is pending: `lifecycle_moved` shows what it does then. `StartInv` says that from
  acceptance to the virtual machine the program is where the slot map has it and not
  empty. That it is not empty is what the proof needs of a download that was under way
  when the start was accepted: its slot is empty until it is complete, so it is another.
* `AdvertisesAlone`, that is `AdvertisesWhenAlone`. `AdvInv` adds what the radio is
  being told while the main thread waits for its answer, and that the same holds before
  the buttons are first released; it needs no assumption.

`AwaitablesProofs` proves, for any number of coroutines, devices, objects and
operations, from `AwaitablesAssumption` (names that differ, sets that nest):

* `TypeCorrect`;
* `AwaitsItsOwn`, that is `AwaitsOwnOperation`. `HInv` adds `HoldsAlone` (two
  coroutines never hold the same object) and `AwaitingHolds`. Most steps hand out no
  object (`Keeps`, lemma `KeepsHolding`); the two that do take one that is exhausted
  or unreachable, which nobody holds because held objects are never exhausted
  (`HandsOut`);
* `CancelledStops` (`CancelledIsStopped`) and `ToldOperationsWin` (`ToldOperationWins`).
  `CInv` adds to `HInv` that operations are numbered in the order in which they start
  (`Numbered`), that the last awaitable of a device is of that device and no other object
  is (`LastIsOwn`), that a held awaitable says so while its device does what was asked
  (`HeldIsTold`), and that while it says so the device moves for nobody else,
  except with `wait=False` (`ToldIsMoved`). The last one is stated while a collection of tasks runs: outside of
  one the program itself commands the devices. All steps that start nothing are covered by
  `Settles`; `MovesKeeps`, `StartOperationKeeps` and `StartWaitKeeps` cover the rest;
* `OthersCancelled` (`OthersAreCancelled`), for two coroutines, or for any number of them
  if none awaits a drive base. With three coroutines
  and a drive base the run `awaitables_close_fails` refutes it. `TasksInv` says who may be
  left at each position of the collection's loops: only tasks not yet reached while
  tasks are closed, and nobody when it is over.
  `WinnersInv` says that a race goes on until somebody has won and has one winner.

`HostLinkProofs` proves, for any sizes of the ring buffer and the notification, any bounds
and every `Race` between cable, port and the USB process (the run has one of them):

* `TypeCorrect`: ring buffer and notification never overflow;
* `EndpointStaysFree` (`EndpointIsFree`), from `Frames`: what is at the endpoint is what
  the process sends, or has been given up, and then the process does not send again
  until it is gone;
* `OutputInOrder` (`StdoutInOrder`). `Streams` says that four parts of the output come
  one before the other: what hosts printed, a frame that was given up and may still
  arrive (`Late`), what waits in the notification or is being sent (`Ahead`), and the ring
  buffer. `Flow` lists the five things that a step may do to them, and each
  action is shown to do one of these;
* `OutputNotLost`: a byte that was accepted is lost only in a step after which no host is
  connected and subscribed. It is the safety half of `OutputReachesHost`;
* `ResultsAreTrue` (`ResultIsTrue`), if one task sends: tasks that send at the same time
  share `ble_err` and `usb_err` and may be told what became of the other's data.
  `ResultInv` follows what a call was to send through both transports (`QueuedBle`,
  `QueuedUsb`) up to what the call returns (`Ended`).

`DrivesProofs` proves, for any number of motors and any pairs of them, from
`DrivesAssumption`:

* `TypeCorrect`, `NeverTwoControllers` (`OneController`), `AskedStands` (`AskedIsKept`);
* `NeverUnsupervised`: `DrivenIsSupervised`, if programs do not reset the angle of a motor
  whose drive base drives it;
* `UnpluggedStops` (`UnpluggedStopsBoth`): `PassInv` says that in a pass of the control
  loop a base with an unplugged motor is active at most until it is the turn of that
  motor; `PassIsAtomic`, that nothing else happens in a pass;
* `FreeMotorsFindBase` (`BaseAvailable`), "there must be an available drivebase"
  (drivebase.c): if all bases were running, their wheels and the two free motors would
  be more motors than there are (`MotorsOfBases`, with the pigeonhole principle);
* `ImplementsArbiter`: every behaviour is one of `MotorControl`.

`IInv` conjoins the types, `WheelsOK` (a base that was set up has two different
wheels), `BaseOK` (an active base is the parent of its wheels, which have no controller
of their own and were told nothing else, and are in the control loop unless a call has
raised), `ServoOK` (the same of a servo controller) and `AskedIsKept`. The parent links
are what makes it inductive: `StopParentsLinks` says that stopping the parent of a motor
stops each active base that has it as a wheel, because an active base is the parent of
its wheels. The refinement maps `tracking` to the servo controllers that are active and
`driven` to the wheels of the active bases.

`RobotBaseProofs` proves, for any tasks and objects and any bound on the angles, from
`RobotBaseAssumption` (names that differ):

* `TypeCorrect`, `PoseIsKept` (`PoseKeepsUp`), `MotionsStayWatched`
  (`MotionsAreWatched`).

`IInv` conjoins the types, the pose, `Watched` and `LastGoesOn`: a task that is
not exhausted is the one that `last_awaitable` of its object names. That there
is one such task per object follows (`LastIsOne`). `SucceedEffect` and `AgainEffect` say
once what an iteration does to wheels and pose, `AwaitOthers` and `LeaveOthers` what a
call does to the other tasks.

All invariants and action properties of the passing runs are stated by a theorem. Only
model-checked is liveness (the fair part of `ImplementsWakeups`, `ShutdownCompletes`,
`AcceptedStartRuns`, `SupersededGoesOn`, `FreeBufferAnswers`, `PrintedReachesHost` and
`StatusReachesHost` of `OutputReachesHost`, `SendEnds`, `MotionEnds`), which with fairness and `ENABLED` is out of this prover's
reach. Induction over data is so too where the induction theorem takes an operator;
`SlotMapProofs` and `HostLinkProofs` go by smallest counterexamples and by facts about
indices instead.

## 5. Where code and comments disagree

Each of the first five is a run that TLC finds violated.

* **`storage_save_race`**: the number of bytes to save is computed before the event
  loop runs again. A download that ends meanwhile is in the saved map but not in
  the saved bytes.
* **`lifecycle_moved`**: a start is accepted with pointers to the program, and
  until the button is released a host can begin a download that moves it.
* **`awaitables_close_fails`**: "On failure of one task, cancel others", but closing a
  task that awaits a drive base fails when a motor is unplugged. It is retried once;
  with two such tasks, those after them are never closed.
* **`host_link_requests`**: "The host keeps a single command outstanding at a time [...],
  so a single command response slot is sufficient" (usb.c:358). A host that has its reply
  may send the next command before the process has seen that the reply is sent. The
  process then puts the next reply into the slot and, seeing the end of the transmission,
  clears it (usb.c:503, for reads usb.c:513): the reply is lost.
* **`drives_reset`**: resetting the angle of a motor stops what moves it, but when a drive
  base did, the voltage it had applied is applied again with nobody updating it.

Modelling showed more, without a document that promises otherwise or outside of what
the runs let happen:

* A program started during a download has its heap where the download goes
  (main.c:59). With `runDuringDownload` in `Scenario`, `ProgramsIntact` is violated.
* Any announced program size is stored (storage.c:292), and with sizes other than what
  was sent in `Claim` programs grow beyond the region.
* `send_event` keeps its errors in static variables (host.c:231): with two tasks
  that send app data at the same time, `FailureMeansNotSent` is violated.
* "New operation always wins; ongoing awaitable motor motion is cancelled"
  (pb_type_motor.c:315), but every operation with `wait=False` (pb_type_motor.c:336, 389,
  414; pb_type_drivebase.c:145, 168, 254, 286), also of a coroutine in the run loop, starts
  without ending the awaitable of the operation it replaces, as do `Motor.dc` and
  `Motor.brake`. The older coroutine then awaits the newer operation, and when it is
  cancelled before that is complete, its close stops the device (pb_type_async.c:41) and
  with it the newer operation. `Awaitables` has these steps; without "untold" or "direct"
  in its last line `ToldOperationWins` is violated.
* A motor that was closed and then offered to `DriveBase` stays taken, also for the next
  program (dcmotor.c:50). A second `Motor()` on a port raises BUSY after taking the
  servo out of the control loop (servo.c:328), and the first no longer works. One that
  fails later (servo.c:347-358) leaves the motor taken until the program ends.
* A drive command that fails has stopped the servo controllers without coasting the
  motors; a drive base object of the program keeps using pbio's drive base
  after another object took it.
* A transmit timeout makes the hub believe that the port is closed (usb.c:452). A host
  that has it open can still subscribe; when it then closes it, the hub sees no change
  of DTR and the subscription is there for the next opener (usb.c:175). App data
  queued on a port that is closed then waits until the cable is unplugged or somebody
  subscribes, although "if it disconnected while sending, this completes as well"
  (usb.c:303): `SendEnds` excuses a transport that is disconnected.
* A port that is closed and opened again before the process has run (`Race` with "reopen")
  hands what the first opener sent last to the second: a request, a subscription, or the
  part of a frame that the change of DTR came too early to drop (usb.c:172). With a
  "bounce" of the cable (usb_stm32.c:147) the subscription survives the host.
* Robot base: it is static and keeps its motion into the next program; two objects
  share it; a motion whose `then` is refused has already replaced the timeout and
  the pivot; an unplugged motor ends the motion with an exception and leaves the
  other wheel running, as does a dropped awaitable; a timeout stops the
  motors even after somebody else ended the motion.

## 6. Plan

1. **`BluetoothTasks`**: the task slots of peripherals and advertising, the queues of
   status and stdout, and closing user tasks. Property: a task that was started ends,
   and its result goes to the one who started it; nothing of one program reaches the
   next.
2. **`LumpModes`**: mode switches of `port_lump.c` requested by several user tasks.
   Property: data is read in the mode it was requested for.
3. **Boot**: `block_device_w25qxx_stm32.c` with power cuts during a save.
4. **Composition**: the devices of `Awaitables` replaced by those of `Drives`, and the
   timers of `os.c` with `EventLoop`.

Theorems after that: `OthersAreCancelled` for drive bases that stay plugged in; `ListedOnce`
and `NoLostEvent` for the event loop of the devices composed in 4; what several senders
of `HostLink` may be told.

## 7. What is not modelled

* USB: shutting the driver down, the drivers of the EV3, NXT and the virtual hub, and
  the two transports' common stdout on Bluetooth.
* Numeric control (`control.c`, `trajectory.c`, `observer.c`, `integrator.c`, `imu.c`,
  the controllers of `mdrobotbase.c`): arithmetic over ranges that TLC cannot
  enumerate. Their outcome, an operation that completes or does not, is a choice.
* The 32-bit clock of timers (os.c:56) and of download offsets (storage.c:318), and data of an
  abandoned download that arrives after its timeout in the next one.
* `race()` without tasks, which never ends (pb_type_task.c:145).
* Drivers of particular processors, DMA, interrupts other than as sources of events.
* Displays, lights, sound, telemetry, logging, menus of the EV3 and NXT: output.
* LUMP devices, the radio process and boot: see section 6.
* MicroPython itself: a program is what it may do between two returns to C.
* Vendored libraries.

`PROJECT.json` lists every component with the files it consists of.
