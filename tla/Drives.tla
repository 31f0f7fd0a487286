-------------------------------- MODULE Drives --------------------------------
(* Motors, their servo controllers and drive bases: pbio's dcmotor.c,       *)
(* servo.c and drivebase.c with the links of parent.c between them, as      *)
(* driven by the calls of user programs (pb_type_motor.c,                   *)
(* pb_type_drivebase.c), by the control loop (motor_process.c), by cables   *)
(* and by the end of programs.  All of these run in one thread, so a call   *)
(* and a cable come between two passes of the control loop.  Angles,        *)
(* torques and trajectories are left out, but not that they end a manoeuvre *)
(* or make a call fail.                                                     *)
EXTENDS Naturals

CONSTANTS
    NumMotors,         \* motor ports
    Pair,              \* the pairs of motors that programs use as a drive base
    Loose,             \* motors whose cable may come loose and be plugged in again
    Catches,           \* whether programs catch exceptions and go on
    ResetWhileDriving  \* whether programs reset the angle of a motor while
                       \* its drive base drives it

Motor == 1..NumMotors
Base == 1..(NumMotors \div 2)   \* PBIO_CONFIG_NUM_DRIVEBASES

ASSUME DrivesAssumption ==
    /\ NumMotors \in Nat
    /\ Pair \subseteq {p \in Motor \X Motor : p[1] # p[2]}
    /\ Loose \subseteq Motor
    /\ Catches \in BOOLEAN /\ ResetWhileDriving \in BOOLEAN

NoBase == 0
NoMotor == 0

VARIABLES
    plugged,      \* the motors that are plugged in
    owned,        \* dcmotor.parent is the servo
    loop,         \* srv.run_update_loop
    ctl,          \* srv.control is active
    parent,       \* srv.parent, a drive base
    power,        \* what dcmotor applies: nothing, a fixed voltage, or a controller's
    left, right,  \* db.left, db.right
    active,       \* db.control_distance and db.control_heading are active
    turn,         \* whose turn it is in the control loop, or 0: between two passes
    motors,       \* the motors that the program has an object for
    bases,        \* the drive bases that the program has an object for
    asked,        \* history: what a motor was last told, unless a controller moves it
    raised        \* history: a call has raised an exception

servoVars == <<owned, loop, ctl, parent>>
baseVars == <<left, right, active>>
objectVars == <<motors, bases>>
historyVars == <<asked, raised>>
vars == <<plugged, servoVars, power, baseVars, turn, objectVars, historyVars>>

Passive == {"coast", "voltage"}

TypeOK ==
    /\ plugged \subseteq Motor /\ motors \subseteq Motor /\ bases \subseteq Base
    /\ owned \in [Motor -> BOOLEAN] /\ loop \in [Motor -> BOOLEAN]
    /\ ctl \in [Motor -> BOOLEAN] /\ active \in [Base -> BOOLEAN]
    /\ parent \in [Motor -> Base \union {NoBase}]
    /\ power \in [Motor -> Passive \union {"driven"}]
    /\ asked \in [Motor -> Passive \union {"none"}]
    /\ left \in [Base -> Motor \union {NoMotor}] /\ right \in [Base -> Motor \union {NoMotor}]
    /\ turn \in 0..(NumMotors \div 2 + NumMotors)
    /\ raised \in BOOLEAN

Init ==
    /\ plugged \in {Motor, Motor \ Loose} /\ motors = {} /\ bases = {}
    /\ owned = [m \in Motor |-> FALSE] /\ loop = owned /\ ctl = owned
    /\ parent = [m \in Motor |-> NoBase]
    /\ power = [m \in Motor |-> "coast"] /\ asked = power
    /\ left = [b \in Base |-> NoMotor] /\ right = left
    /\ active = [b \in Base |-> FALSE]
    /\ turn = 0 /\ raised = FALSE

(* f with the value v for the elements of S. *)
With(f, S, v) == [x \in DOMAIN f |-> IF x \in S THEN v ELSE f[x]]

Wheels(b) == {left[b], right[b]}

Running(m) == owned[m] /\ loop[m]
AttachedOnce(b) == left[b] # NoMotor
Attached(b) == left[b] # NoMotor /\ \A m \in Wheels(b) : parent[m] = b
BaseRunning(b) == Attached(b) /\ \A m \in Wheels(b) : Running(m)

(* To ask whether a servo is running takes it out of the loop if it is not *)
(* the parent of its motor; the right servo is asked if the left one runs. *)
AskedOf(b) ==
    IF Attached(b) THEN IF Running(left[b]) THEN Wheels(b) ELSE {left[b]} ELSE {}
LoopAsked(S) == [m \in Motor |-> loop[m] /\ (m \in S => owned[m])]

StoppedByNobody(S) == {}
CoastedByNobody(S) == {}

(* The drive bases that stop when the parent of one of S is stopped, and   *)
(* the motors that they coast.                                             *)
StoppedBy(S) == {b \in Base : active[b] /\ \E m \in S : parent[m] = b}
CoastedBy(S) == UNION {Wheels(b) : b \in StoppedBy(S)}
StopNobody(S) == UNCHANGED active
StopParents(S) == active' = With(active, StoppedBy(S), FALSE)

(* pbio_servo_stop_from_dcmotor without clear_parent: the servos of S that *)
(* have no controller to stop stop their parents.                          *)
UncontrolledOnly(S) == {}
Uncontrolled(S) == {m \in S : owned[m] /\ ~ctl[m]}
Controlled(S) == {m \in S : owned[m] /\ ctl[m]}
-------------------------------------------------------------------------------
(* Calls of the user program.                                              *)
CanCall == turn = 0 /\ (raised => Catches)
Call(S) == CanCall /\ S \subseteq motors
BaseCall(b) == CanCall /\ b \in bases

Raise == raised' = TRUE

(* A call that finds its servo or drive base not running. *)
NoDev(S) ==
    /\ Raise /\ loop' = LoopAsked(S)
    /\ UNCHANGED <<plugged, owned, ctl, parent, power, baseVars, turn, objectVars, asked>>

(* Motor(port) on a port without a motor. *)
NoMotorThere(m) ==
    /\ CanCall /\ m \notin plugged /\ Raise
    /\ UNCHANGED <<plugged, servoVars, power, baseVars, turn, objectVars, asked>>

(* Motor(port): BUSY comes after the servo has left the control loop, and   *)
(* other errors, of the settings or the angle, after the motor is claimed.  *)
MakeMotor(m) ==
    /\ CanCall /\ m \in plugged
    /\ IF owned[m]
       THEN UNCHANGED <<owned, ctl, power, asked>>
       ELSE /\ owned' = [owned EXCEPT ![m] = TRUE]
            /\ ctl' = [ctl EXCEPT ![m] = FALSE]
            /\ power' = [power EXCEPT ![m] = "coast"]
            /\ asked' = [asked EXCEPT ![m] = "coast"]
    /\ \/ /\ Raise
          /\ loop' = [loop EXCEPT ![m] = FALSE]
          /\ UNCHANGED motors
       \/ /\ ~owned[m] /\ UNCHANGED raised
          /\ loop' = [loop EXCEPT ![m] = TRUE]
          /\ motors' = motors \union {m}
    /\ UNCHANGED <<plugged, parent, baseVars, turn, bases>>

(* Motor.stop, brake and dc. *)
Actuate(m, p) ==
    /\ Call({m})
    /\ StopParents(Uncontrolled({m}))
    /\ ctl' = With(ctl, Controlled({m}), FALSE)
    /\ power' = [With(power, CoastedBy(Uncontrolled({m})), "coast") EXCEPT ![m] = p]
    /\ asked' = [asked EXCEPT ![m] = p]
    /\ UNCHANGED <<plugged, owned, loop, parent, left, right, turn, objectVars, raised>>

(* The servo stops its drive base, which coasts both motors. *)
StopParent(m) ==
    /\ Call({m}) /\ Running(m)
    /\ StopParents({m})
    /\ UNCHANGED <<plugged, owned, loop, parent, left, right, turn, objectVars>>

(* Motor.track_target, and the end of hold. *)
Track(m) ==
    /\ StopParent(m)
    /\ power' = With(power, CoastedBy({m}), "coast")
    /\ ctl' = [ctl EXCEPT ![m] = TRUE]
    /\ asked' = [asked EXCEPT ![m] = "none"]
    /\ UNCHANGED raised

(* Motor.run, run_time, run_angle, run_target, hold, ...: the drive base   *)
(* has stopped when the angle cannot be read or the trajectory is refused. *)
Run(m) ==
    \/ m \in plugged /\ Track(m)
    \/ /\ StopParent(m) /\ Raise
       /\ power' = With(power, CoastedBy({m}), "coast")
       /\ UNCHANGED <<ctl, asked>>

(* Motor.reset_angle stops the servo and its parent, and then applies the  *)
(* stop mode of the servo controller it stopped, or what the motor applied *)
(* before.                                                                 *)
ResetAngle(m) ==
    /\ StopParent(m)
    /\ \/ ~ctl[m] /\ (ResetWhileDriving \/ power[m] # "driven")
          /\ power' = [With(power, CoastedBy({m}), "coast") EXCEPT ![m] = power[m]]
          /\ UNCHANGED <<ctl, asked, raised>>
       \/ ctl[m] /\ \E p \in Passive :
          /\ power' = [With(power, CoastedBy({m}), "coast") EXCEPT ![m] = p]
          /\ asked' = [asked EXCEPT ![m] = p]
          /\ ctl' = [ctl EXCEPT ![m] = FALSE]
          /\ UNCHANGED raised
       \/ ctl[m]   \* hold
          /\ power' = With(power, CoastedBy({m}) \union {m}, "coast")
          /\ UNCHANGED <<ctl, asked, raised>>
       \/ Raise    \* no angle
          /\ power' = With(power, CoastedBy({m}) \union {m}, "coast")
          /\ ctl' = [ctl EXCEPT ![m] = FALSE]
          /\ asked' = [asked EXCEPT ![m] = "none"]

(* Motor.close and the end of a program release the motors of S, up to     *)
(* their drive bases.                                                      *)
Clear(S) ==
    LET with == {m \in S : owned[m]} IN
    /\ StopParents(with)
    /\ power' = With(power, S \union CoastedBy(with), "coast")
    /\ asked' = With(asked, S, "coast")
    /\ owned' = With(owned, S, FALSE)
    /\ ctl' = With(ctl, with, FALSE)
    /\ parent' = With(parent, with, NoBase)
    /\ UNCHANGED <<plugged, loop, left, right, turn>>

Close(m) == Call({m}) /\ Clear({m}) /\ UNCHANGED <<objectVars, raised>>
-------------------------------------------------------------------------------
(* DriveBase(left, right): takes the first drive base that is not running. *)
Busy(l, r) == parent[l] # NoBase \/ parent[r] # NoBase
FirstFree == {b \in Base : ~BaseRunning(b) /\ \A a \in 1..(b - 1) : BaseRunning(a)}

(* The parents are set before it turns out whether both servos run. *)
SetUp(b, l, r) ==
    LET first == IF Running(l) THEN {l, r} ELSE {l} IN
    /\ left' = [left EXCEPT ![b] = l] /\ right' = [right EXCEPT ![b] = r]
    /\ parent' = With(parent, {l, r}, b)
    /\ active' = [active EXCEPT ![b] = FALSE]
    /\ ctl' = With(ctl, {l, r}, FALSE)
    /\ loop' = LoopAsked(UNION {AskedOf(a) : a \in 1..b} \union first)
    /\ IF Running(l) /\ Running(r)
       THEN /\ power' = With(power, {l, r}, "coast")
            /\ asked' = With(asked, {l, r}, "coast")
            /\ \/ bases' = bases \union {b} /\ UNCHANGED raised
               \/ Raise /\ UNCHANGED bases   \* bad dimensions
       ELSE Raise /\ UNCHANGED <<power, asked, bases>>
    /\ UNCHANGED <<plugged, owned, turn, motors>>

NoneToSetUp(l, r) ==
    /\ Busy(l, r) \/ FirstFree = {}
    /\ Raise
    /\ UNCHANGED <<plugged, servoVars, power, baseVars, turn, objectVars, asked>>

MakeBase(l, r) ==
    /\ Call({l, r})
    /\ \/ NoneToSetUp(l, r)
       \/ ~Busy(l, r) /\ \E b \in FirstFree : SetUp(b, l, r)

DriveOnTop(b) ==
    /\ BaseCall(b) /\ BaseRunning(b)
    /\ active' = [active EXCEPT ![b] = TRUE]
    /\ asked' = With(asked, Wheels(b), "none")
    /\ UNCHANGED <<plugged, servoVars, power, left, right, turn, objectVars, raised>>

(* DriveBase.straight, turn, curve, drive, and stop with hold: the servo   *)
(* controllers have stopped when a motor turns out to be unplugged or the  *)
(* trajectory is refused.                                                  *)
Drive(b) ==
    /\ BaseCall(b) /\ BaseRunning(b)
    /\ ctl' = With(ctl, Wheels(b), FALSE)
    /\ \/ /\ Wheels(b) \subseteq plugged
          /\ active' = [active EXCEPT ![b] = TRUE]
          /\ asked' = With(asked, Wheels(b), "none")
          /\ UNCHANGED raised
       \/ Raise /\ UNCHANGED <<active, asked>>
    /\ UNCHANGED <<plugged, owned, loop, parent, power, left, right, turn, objectVars>>

(* DriveBase.stop, brake, reset, use_gyro, and the end of a manoeuvre. *)
Halt(b, p) ==
    /\ active' = [active EXCEPT ![b] = FALSE]
    /\ ctl' = With(ctl, Wheels(b), FALSE)
    /\ power' = With(power, Wheels(b), p)
    /\ UNCHANGED <<plugged, owned, loop, parent, left, right, objectVars, raised>>

StopBase(b, p) ==
    /\ BaseCall(b) /\ BaseRunning(b)
    /\ Halt(b, p)
    /\ asked' = With(asked, Wheels(b), p)
    /\ UNCHANGED turn

(* A call on a motor or a drive base that is not running. *)
Refused ==
    \/ \E m \in motors : Call({m}) /\ ~Running(m) /\ NoDev({m})
    \/ \E b \in bases : BaseCall(b) /\ ~BaseRunning(b) /\ NoDev(AskedOf(b))
-------------------------------------------------------------------------------
(* The end of a program frees its motors; to enter the REPL only stops them. *)
EndProgram ==
    /\ turn = 0
    /\ Clear(Motor)
    /\ motors' = {} /\ bases' = {} /\ raised' = FALSE

SoftStop ==
    /\ turn = 0
    /\ StopParents(Uncontrolled(Motor))
    /\ ctl' = With(ctl, Controlled(Motor), FALSE)
    /\ power' = With(power, Motor, "coast")
    /\ asked' = With(asked, Motor, "coast")
    /\ UNCHANGED <<plugged, owned, loop, parent, left, right, turn, objectVars, raised>>
-------------------------------------------------------------------------------
(* The control loop: the drive bases, then the servos.                     *)
NextTurnUnbounded == turn' = turn + 1
NextTurn == turn' = (turn + 1) % (NumMotors \div 2 + NumMotors + 1)

BeginPass == turn = 0 /\ NextTurn
             /\ UNCHANGED <<plugged, servoVars, power, baseVars, objectVars, historyVars>>

(* A base that cannot read an angle waits for the servo to notice. *)
UpdateBase(b) ==
    /\ turn = b /\ NextTurn
    /\ IF BaseRunning(b) /\ active[b] /\ Wheels(b) \subseteq plugged
       THEN \/ /\ power' = With(power, Wheels(b), "driven")
               /\ UNCHANGED <<plugged, servoVars, baseVars, objectVars, raised>>
            \/ \E p \in Passive : Halt(b, p)
       ELSE /\ loop' = LoopAsked(AskedOf(b))
            /\ UNCHANGED <<plugged, owned, ctl, parent, power, baseVars, objectVars, raised>>
    /\ UNCHANGED asked

(* A servo that cannot read its angle stops itself and its drive base. *)
ServoFails(m) ==
    /\ loop[m] /\ m \notin plugged
    /\ loop' = [loop EXCEPT ![m] = FALSE]
    /\ ctl' = [ctl EXCEPT ![m] = FALSE]
    /\ StopParents({m})
    /\ power' = With(power, CoastedBy({m}) \union {m}, "coast")
    /\ asked' = [asked EXCEPT ![m] = "none"]
    /\ UNCHANGED <<owned, parent, left, right>>

ServoActuates(m) ==
    /\ loop[m] /\ m \in plugged /\ ctl[m]
    /\ \/ power' = [power EXCEPT ![m] = "driven"] /\ UNCHANGED ctl
       \/ \E p \in Passive : /\ power' = [power EXCEPT ![m] = p]
                             /\ ctl' = [ctl EXCEPT ![m] = FALSE]
    /\ UNCHANGED <<owned, loop, parent, baseVars, asked>>

ServoIsPassive(m) ==
    /\ (loop[m] => m \in plugged /\ ~ctl[m])
    /\ UNCHANGED <<servoVars, power, baseVars, asked>>

UpdateServo(m) ==
    /\ turn = NumMotors \div 2 + m /\ NextTurn
    /\ ServoFails(m) \/ ServoActuates(m) \/ ServoIsPassive(m)
    /\ UNCHANGED <<plugged, objectVars, raised>>

ControlLoop == BeginPass \/ (\E b \in Base : UpdateBase(b)) \/ \E m \in Motor : UpdateServo(m)

(* The process of a port notices a cable, between two passes. *)
Cable(m) ==
    /\ turn = 0
    /\ plugged' = IF m \in plugged THEN plugged \ {m} ELSE plugged \union {m}
    /\ UNCHANGED <<servoVars, power, baseVars, turn, objectVars, historyVars>>

Next ==
    \/ \E m \in Motor : \/ NoMotorThere(m) \/ MakeMotor(m) \/ Close(m)
                        \/ Track(m) \/ Run(m) \/ ResetAngle(m)
                        \/ \E p \in Passive : Actuate(m, p)
    \/ \E p \in Pair : MakeBase(p[1], p[2])
    \/ \E b \in Base : Drive(b) \/ \E p \in Passive : StopBase(b, p)
    \/ Refused \/ EndProgram \/ SoftStop
    \/ ControlLoop
    \/ \E m \in Loose : Cable(m)

Spec == Init /\ [][Next]_vars
-------------------------------------------------------------------------------
(* A drive base that is active is the parent of both of its motors, and    *)
(* neither follows a servo controller: the two never fight over a motor    *)
(* (servo.c and drivebase.c stop each other on every command).             *)
OneController ==
    \A b \in Base : active[b] => /\ Attached(b)
                                 /\ \A m \in Wheels(b) : ~ctl[m]

(* A motor does not go on with the voltage of a controller that no longer  *)
(* updates it, unless a call of this program has raised an exception.      *)
Supervised(m) == \/ ctl[m] /\ Running(m)
                 \/ \E b \in Base : active[b] /\ BaseRunning(b) /\ m \in Wheels(b)
DrivenIsSupervised == raised \/ \A m \in Motor : power[m] = "driven" => Supervised(m)

(* What the program last told a motor stands until it tells it, or its     *)
(* drive base, to move: no controller, cable or other motor overrides it.  *)
AskedIsKept == \A m \in Motor : asked[m] # "none" => power[m] = asked[m]

(* Two motors that are free always find a drive base that is not running   *)
(* (drivebase.c: "there must be an available drivebase").                  *)
BaseAvailable == \A p \in Pair : Busy(p[1], p[2]) \/ FirstFree # {}

(* When one motor of a drive base that drives is unplugged, the next pass  *)
(* of the control loop stops the other one as well, unless a call of this  *)
(* program has raised an exception.                                        *)
UnpluggedStopsBoth ==
    [][turn # 0 /\ turn' = 0 /\ ~raised =>
        \A b \in Base : active'[b] => Wheels(b) \subseteq plugged]_vars

(* Motors are taken and released as MotorControl says. *)
Arbiter == INSTANCE MotorControl WITH
    tracking <- {m \in Motor : ctl[m]},
    driven <- [b \in Base |-> IF active[b] THEN Wheels(b) ELSE {}]
ArbiterSpec == Arbiter!Spec
===============================================================================
