------------------------------- MODULE RobotBase -------------------------------
(* MDRobotBase: mdrobotbase.c and the motions of pb_type_mdrobotbase.c.     *)
(* All MDRobotBase objects share one static robot base.  A motion method    *)
(* sets the robot base up and returns an awaitable; the motion proceeds in  *)
(* the iterations of whoever awaits it, each of which updates the pose from *)
(* the angles of the wheels and commands both motors to run for ever, until *)
(* the goal, a stall or the timeout.  The pose is abstracted to the degrees *)
(* of each wheel that it has taken into account; geometry, controllers and  *)
(* the backlash filter, which delays degrees but loses none, are left out.  *)
EXTENDS Integers

CONSTANTS
    Task,       \* tasks of the user program
    Object,     \* MDRobotBase objects that a program may make
    NoTask,
    NoObject,
    MaxTurns    \* bound: the angle up to which each wheel turns

Wheel == {"left", "right"}

ASSUME RobotBaseAssumption ==
    NoTask \notin Task /\ NoObject \notin Object /\ MaxTurns \in [Wheel -> Nat]

(* The motions of the robot base.  "heading" is the end of "navigate", with *)
(* rb.align_final_heading set, and a pivot turns around the wheel it names. *)
Pivot == {"pivot left", "pivot right"}
Motion == {"navigate", "heading", "turn", "trajectory"} \union Pivot
HeldBy(m) == {w \in Wheel : m = (IF w = "left" THEN "pivot left" ELSE "pivot right")}

VARIABLES
    motion,     \* rb.motion_type, with what it reads in pivot_left and align_final_heading
    coasts,     \* rb.stop_behavior is COAST
    clock,      \* rb.timeout_ms is 0, or has not passed, or has, since rb.start_time_ms
    ref,        \* rb.last_left_deg, rb.last_right_deg
    missing,    \* history: degrees that each wheel turned and the pose does not show
    anchored,   \* history: the pose was set when it knew the angles, which are not reset
    angle,      \* the angle of each motor
    running,    \* the motors whose control loop is running
    moving,     \* the motors that run for ever at the speed of a motion
    made,       \* the objects of the program
    last,       \* self.last_awaitable, by the task that got it
    awaits,     \* the object whose awaitable a task awaits
    told,       \* the tasks for whose awaitable parent_obj is MP_OBJ_SENTINEL
    loose       \* history: a task has left its motion without closing it

motionVars == <<motion, coasts, clock>>
poseVars == <<ref, missing, anchored>>
wheelVars == <<angle, running, moving>>
taskVars == <<made, last, awaits, told, loose>>
vars == <<motionVars, poseVars, wheelVars, taskVars>>

TypeOK ==
    /\ motion \in Motion \union {"none"} /\ coasts \in BOOLEAN
    /\ clock \in {"off", "running", "expired"}
    /\ ref \in [Wheel -> Nat] /\ missing \in [Wheel -> Int] /\ anchored \in BOOLEAN
    /\ angle \in [Wheel -> Nat] /\ running \subseteq Wheel /\ moving \subseteq Wheel
    /\ made \subseteq Object /\ last \in [Object -> Task \union {NoTask}]
    /\ awaits \in [Task -> Object \union {NoObject}] /\ told \subseteq Task
    /\ loose \in BOOLEAN

Zero == [w \in Wheel |-> 0]

(* The robot base is static: zero at boot, and then as it was left. *)
Init ==
    /\ motion = "none" /\ coasts = TRUE /\ clock = "off"
    /\ ref = Zero /\ missing = Zero /\ anchored = FALSE
    /\ angle = Zero /\ running = Wheel /\ moving = {}
    /\ made = {} /\ last = [o \in Object |-> NoTask] /\ loose = FALSE
    /\ awaits = [t \in Task |-> NoObject] /\ told = {}
-------------------------------------------------------------------------------
AllRunning == running = Wheel

(* A motor is stopped, or told anything else; one that is not there is not. *)
Stop(S) == moving' = moving \ S

(* pbio_mdrobotbase_update_state *)
Count == missing' = [w \in Wheel |->
                        IF anchored THEN missing[w] - (angle[w] - ref[w]) ELSE 0]

(* Both motors return to angle 0, and so do the references of the pose. *)
SubtractReferences == angle' = [w \in Wheel |-> ref[w] - angle[w]] /\ ref' = Zero
ForgetReferences == angle' = Zero /\ ref' = angle
ZeroAngles == angle' = Zero /\ ref' = Zero

(* Those who are exhausted next: all who were, and the last to get an      *)
(* awaitable of object o.                                                  *)
ScheduleStop(o) == told \union {t \in Task : t = last[o] /\ awaits[t] = o}

(* Task t awaits object o, or leaves, when those of S are exhausted next. *)
Await(t, o, S) ==
    /\ awaits' = [awaits EXCEPT ![t] = o]
    /\ told' = S \ {t}
Leave(t) == Await(t, NoObject, told)
-------------------------------------------------------------------------------
(* MDRobotBase(left_motor, right_motor, ...): the pose is zero, as the      *)
(* angles of the motors are assumed to be.                                 *)
Make(o) ==
    /\ o \notin made
    /\ made' = made \union {o} /\ last' = [last EXCEPT ![o] = NoTask]
    /\ ref' = Zero /\ missing' = Zero /\ anchored' = (angle = Zero)
    /\ UNCHANGED <<motionVars, wheelVars, awaits, told, loose>>

(* A motion is set up in the robot base.  A pivot holds one wheel.         *)
SetUp(m) ==
    /\ motion' = m /\ coasts' \in BOOLEAN /\ clock' \in {"off", "running"}
    /\ Stop(HeldBy(m))

(* A motion method that task t awaits. *)
Start(t, o) ==
    /\ awaits[t] = NoObject /\ o \in made
    /\ \E m \in Motion \ {"heading"} : SetUp(m)
    /\ Await(t, o, ScheduleStop(o))
    /\ last' = [last EXCEPT ![o] = t]
    /\ UNCHANGED <<poseVars, angle, running, made, loose>>

(* A motion method that raises because `then` is no Stop has replaced the  *)
(* timeout and the wheel of a pivot, but not the motion.                   *)
Refuse(o) ==
    /\ o \in made
    /\ motion' \in IF motion \in Pivot THEN Pivot ELSE {motion}
    /\ clock' \in {"off", "running", "expired"}
    /\ UNCHANGED <<coasts, poseVars, wheelVars, taskVars>>
-------------------------------------------------------------------------------
(* pb_type_mdrobotbase_motion_iterate_once                                 *)

FinishOneWheel(zero) ==
    /\ Stop({"left"}) /\ motion' = "none"
    /\ Count
    /\ IF zero /\ ~coasts THEN ZeroAngles ELSE ref' = angle /\ UNCHANGED angle

(* A motion ends, and the angles return to zero or not.  *)
Finish(zero) ==
    /\ Stop(Wheel) /\ motion' = "none"
    /\ Count
    /\ IF zero /\ ~coasts THEN ZeroAngles ELSE ref' = angle /\ UNCHANGED angle

TimedOutNever == FALSE
TimedOut == clock = "expired"

(* The goal is reached. *)
Reached == motion # "heading" /\ Finish(TRUE)

(* Stalled, or the heading is reached. *)
GiveUp == motion # "trajectory" /\ Finish(FALSE)

(* The goal is reached, and it has a heading. *)
ToHeading ==
    /\ motion = "navigate" /\ motion' = "heading"
    /\ Count /\ ref' = angle
    /\ UNCHANGED <<angle, moving>>

Go ==
    /\ moving' = moving \union (Wheel \ HeldBy(motion))
    /\ Count /\ ref' = angle
    /\ UNCHANGED <<motion, angle>>

(* Somebody else ended the motion. *)
NothingToDo ==
    /\ Count /\ ref' = angle
    /\ UNCHANGED <<motion, angle, moving>>

(* Returns PBIO_SUCCESS, or PBIO_ERROR_AGAIN. *)
Succeed == IF TimedOut THEN Finish(TRUE)
           ELSE IF motion = "none" THEN NothingToDo ELSE Reached \/ GiveUp
Again == ~TimedOut /\ motion # "none" /\ (ToHeading \/ Go)

Awaiting(t) == awaits[t] # NoObject
Iterates(t) == Awaiting(t) /\ t \notin told

Exhausted(t) ==
    /\ Awaiting(t) /\ t \in told
    /\ Leave(t)
    /\ UNCHANGED <<motionVars, poseVars, wheelVars, made, last, loose>>

IterateOnce(t) ==
    /\ Iterates(t) /\ AllRunning
    /\ \/ Succeed /\ Leave(t)
       \/ Again /\ UNCHANGED <<awaits, told>>
    /\ UNCHANGED <<coasts, clock, anchored, running, made, last, loose>>

(* A motor is not there: the exception ends the task, and nothing else.    *)
NoDev(t) ==
    /\ Iterates(t) /\ ~AllRunning
    /\ Leave(t) /\ loose' = TRUE
    /\ UNCHANGED <<motionVars, poseVars, wheelVars, made, last>>

Iterate(t) == Exhausted(t) \/ IterateOnce(t) \/ NoDev(t)
-------------------------------------------------------------------------------
(* A task is cancelled: pb_type_MDRobotBase_stop, unless it was superseded. *)
Close(t) ==
    /\ Awaiting(t)
    /\ IF t \in told THEN Leave(t) /\ UNCHANGED <<motion, moving>>
       ELSE /\ Stop(Wheel) /\ motion' = "none"
            /\ Await(t, NoObject, ScheduleStop(awaits[t]))
    /\ UNCHANGED <<coasts, clock, poseVars, angle, running, made, last, loose>>

(* A task forgets its awaitable: it never awaits it, or the run loop ends  *)
(* by an exception.                                                        *)
Abandon(t) ==
    /\ Awaiting(t)
    /\ Leave(t) /\ loose' = TRUE
    /\ UNCHANGED <<motionVars, poseVars, wheelVars, made, last>>

(* MDRobotBase.update_state and reset_state *)
UpdateState(o) ==
    /\ o \in made /\ AllRunning
    /\ Count /\ ref' = angle
    /\ UNCHANGED <<motionVars, anchored, wheelVars, taskVars>>

ResetState(o) ==
    /\ o \in made /\ AllRunning
    /\ ref' = angle /\ missing' = Zero /\ anchored' = TRUE
    /\ UNCHANGED <<motionVars, wheelVars, taskVars>>

(* The program uses a motor by itself: Motor.run, stop, reset_angle, ...   *)
UseMotor(w) ==
    /\ w \in running
    /\ Stop({w})
    /\ UNCHANGED <<motionVars, poseVars, angle, running, taskVars>>

ResetAngle(w) ==
    /\ w \in running
    /\ angle' = [angle EXCEPT ![w] = 0] /\ Stop({w})
    /\ IF angle[w] = 0 THEN UNCHANGED <<missing, anchored>>
       ELSE missing' = Zero /\ anchored' = FALSE
    /\ UNCHANGED <<motionVars, ref, running, taskVars>>

(* The world: wheels turn, cables come loose, and time passes. *)
Turn(w) ==
    /\ w \in running /\ angle[w] < MaxTurns[w]
    /\ angle' = [angle EXCEPT ![w] = @ + 1]
    /\ missing' = IF anchored THEN [missing EXCEPT ![w] = @ + 1] ELSE missing
    /\ UNCHANGED <<motionVars, ref, anchored, running, moving, taskVars>>

Unplug(w) ==
    /\ w \in running
    /\ running' = running \ {w} /\ Stop({w})
    /\ missing' = Zero /\ anchored' = FALSE
    /\ UNCHANGED <<motionVars, ref, angle, taskVars>>

Expire ==
    /\ clock = "running" /\ clock' = "expired"
    /\ UNCHANGED <<motion, coasts, poseVars, wheelVars, taskVars>>

(* The program ends, and the next one sets its motors up.                  *)
EndProgram ==
    /\ running' = Wheel /\ Stop(Wheel)
    /\ angle' \in {angle, Zero} /\ missing' = Zero /\ anchored' = FALSE
    /\ made' = {} /\ last' = [o \in Object |-> NoTask] /\ loose' = FALSE
    /\ awaits' = [t \in Task |-> NoObject] /\ told' = {}
    /\ UNCHANGED <<motionVars, ref>>
-------------------------------------------------------------------------------
TaskStep(t) ==
    \/ Iterate(t) \/ Close(t) \/ Abandon(t)
    \/ \E o \in Object : Start(t, o)

ObjectCall(o) == Make(o) \/ Refuse(o) \/ UpdateState(o) \/ ResetState(o)

WheelStep(w) ==
    \/ UseMotor(w) \/ ResetAngle(w) \/ Turn(w) \/ Unplug(w)

Next ==
    \/ \E t \in Task : TaskStep(t)
    \/ \E o \in Object : ObjectCall(o)
    \/ \E w \in Wheel : WheelStep(w)
    \/ Expire \/ EndProgram

(* The run loop goes on. *)
Spec == Init /\ [][Next]_vars /\ \A t \in Task : WF_vars(Iterate(t))
-------------------------------------------------------------------------------
(* The pose accounts for every degree that a wheel has turned since the     *)
(* pose was set, although both the angles and the references return to 0   *)
(* in the middle: as long as the program does not reset an angle itself,   *)
(* and made the robot base or reset the pose when it knew the angles.      *)
PoseKeepsUp == anchored => \A w \in Wheel : missing[w] = angle[w] - ref[w]

(* The motors run for ever: while one does so for a motion, there is a      *)
(* motion, and a task that will end it, unless a task has left its motion   *)
(* without closing it.                                                     *)
Watched == ~loose /\ moving # {} => motion # "none" /\ \E t \in Task : Iterates(t)

(* Of all tasks that await motions of one object, only the last proceeds:   *)
(* no task mistakes another task's motion for its own.                     *)
OneTaskPerObject ==
    \A t, u \in Task : Iterates(t) /\ Iterates(u) /\ awaits[t] = awaits[u] => t = u

(* A motion has its watcher, and the watcher has its motion.                *)
MotionsAreWatched == Watched /\ OneTaskPerObject

(* Nobody awaits for ever a motion whose timeout has passed, unless it is   *)
(* started again and again.                                                *)
MotionEnds ==
    \A t \in Task :
        (Awaiting(t) /\ clock = "expired") ~> (~Awaiting(t) \/ clock # "expired")
===============================================================================
