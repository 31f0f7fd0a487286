---------------------------- MODULE RobotBaseProofs ----------------------------
(* The pose keeps up with the wheels and every motion is watched, for any   *)
(* number of tasks and objects.                                             *)
EXTENDS RobotBase, TLAPS

(* Who goes on is the last to have got an awaitable of an object that exists. *)
LastGoesOn ==
    \A t \in Task :
        /\ awaits[t] \in made \union {NoObject}
        /\ Iterates(t) => last[awaits[t]] = t

IInv == TypeOK /\ PoseKeepsUp /\ Watched /\ LastGoesOn

(* Being the last is being the only one. *)
LEMMA LastIsOne == LastGoesOn => OneTaskPerObject
  BY DEF LastGoesOn, OneTaskPerObject, Iterates, Awaiting

(* All angles are zero. *)
LEMMA ZeroType ==
  Zero \in [Wheel -> Nat] /\ Zero \in [Wheel -> Int] /\ \A w \in Wheel : Zero[w] = 0
  BY DEF Zero

(* The invariant holds at boot. *)
LEMMA InitIInv == Init => IInv
<1> SUFFICES ASSUME Init
             PROVE  IInv
  OBVIOUS
<1>1. TypeOK
  BY ZeroType DEF Init, TypeOK, Wheel
<1>2. PoseKeepsUp /\ Watched
  BY DEF Init, PoseKeepsUp, Watched
<1>3. LastGoesOn
  BY DEF Init, LastGoesOn, Iterates, Awaiting
<1> QED
  BY <1>1, <1>2, <1>3 DEF IInv
-------------------------------------------------------------------------------
(* A task that leaves disturbs nobody else. *)
LEMMA LeaveOthers ==
  ASSUME TypeOK, NEW t \in Task, Leave(t)
  PROVE  /\ awaits' \in [Task -> Object \union {NoObject}]
         /\ told' \subseteq Task
         /\ awaits'[t] = NoObject /\ t \notin told'
         /\ \A u \in Task \ {t} : awaits'[u] = awaits[u] /\ (u \in told' <=> u \in told)
  BY DEF Leave, Await, TypeOK

(* A new call, or a close, exhausts the last one of the object and nobody else. *)
LEMMA AwaitOthers ==
  ASSUME TypeOK, NEW t \in Task, NEW o \in Object \union {NoObject}, NEW p \in Object,
         Await(t, o, ScheduleStop(p))
  PROVE  /\ awaits' \in [Task -> Object \union {NoObject}]
         /\ told' \subseteq Task
         /\ awaits'[t] = o /\ t \notin told'
         /\ \A u \in Task \ {t} :
               /\ awaits'[u] = awaits[u]
               /\ (u \in told' <=> u \in told \/ (u = last[p] /\ awaits[u] = p))
  BY DEF Await, ScheduleStop, TypeOK

(* A motor that an iteration commands and a pose that it updates. *)
LEMMA SucceedEffect ==
  ASSUME TypeOK, PoseKeepsUp, Succeed, UNCHANGED <<clock, coasts, anchored>>
  PROVE  /\ motion' = "none" /\ moving' \subseteq Wheel
         /\ moving' = {} \/ (motion = "none" /\ moving' = moving)
         /\ ref' \in [Wheel -> Nat] /\ angle' \in [Wheel -> Nat]
         /\ missing' \in [Wheel -> Int] /\ PoseKeepsUp'
<1>1. ASSUME NEW zero \in BOOLEAN, Finish(zero)
      PROVE  /\ motion' = "none" /\ moving' = {} /\ moving' \subseteq Wheel
             /\ ref' \in [Wheel -> Nat] /\ angle' \in [Wheel -> Nat]
             /\ missing' \in [Wheel -> Int] /\ PoseKeepsUp'
  BY <1>1 DEF Finish, Stop, Count, ZeroAngles, Zero, TypeOK, PoseKeepsUp
<1>2. CASE NothingToDo /\ motion = "none"
  BY <1>2 DEF NothingToDo, Count, TypeOK, PoseKeepsUp
<1>3. (NothingToDo /\ motion = "none") \/ Finish(TRUE) \/ Finish(FALSE)
  BY DEF Succeed, Reached, GiveUp
<1> QED
  BY <1>1, <1>2, <1>3

(* The other iterations leave a motion, and the angles as they are. *)
LEMMA AgainEffect ==
  ASSUME TypeOK, PoseKeepsUp, Again, UNCHANGED anchored
  PROVE  /\ motion' \in Motion /\ moving' \subseteq Wheel
         /\ ref' \in [Wheel -> Nat] /\ angle' = angle
         /\ missing' \in [Wheel -> Int] /\ PoseKeepsUp'
<1>1. ref' = angle /\ angle' = angle /\ Count
  BY DEF Again, ToHeading, Go
<1>2. missing' \in [Wheel -> Int] /\ PoseKeepsUp'
  BY <1>1 DEF Count, TypeOK, PoseKeepsUp
<1>3. motion' \in Motion /\ moving' \subseteq Wheel
  BY DEF Again, ToHeading, Go, TypeOK, Motion
<1> QED
  BY <1>1, <1>2, <1>3 DEF TypeOK
-------------------------------------------------------------------------------
(* Every step of a task keeps the invariant. *)
LEMMA TaskStepIInv ==
  ASSUME IInv, NEW t \in Task, TaskStep(t)
  PROVE  IInv'
<1> USE DEF IInv
<1>1. CASE Exhausted(t)
  <2>1. UNCHANGED <<motionVars, poseVars, wheelVars, made, last, loose>> /\ Leave(t) /\ t \in told
    BY <1>1 DEF Exhausted
  <2>2. TypeOK' /\ PoseKeepsUp'
    BY <2>1, LeaveOthers DEF TypeOK, PoseKeepsUp, motionVars, poseVars, wheelVars
  <2>3. Watched' /\ LastGoesOn'
    BY <2>1, LeaveOthers
    DEF Watched, LastGoesOn, Iterates, Awaiting, motionVars, wheelVars, TypeOK
  <2> QED
    BY <2>2, <2>3
<1>2. CASE IterateOnce(t)
  <2>1. /\ Iterates(t)
        /\ UNCHANGED <<coasts, clock, anchored, running, made, last, loose>>
    BY <1>2 DEF IterateOnce
  <2>2. CASE Succeed /\ Leave(t)
    <3>1. TypeOK' /\ PoseKeepsUp'
      BY <2>1, <2>2, SucceedEffect, LeaveOthers DEF TypeOK
    <3>2. Watched'
      BY <2>1, <2>2, SucceedEffect DEF Watched
    <3>3. LastGoesOn'
      BY <2>1, <2>2, LeaveOthers DEF LastGoesOn, Iterates, Awaiting, TypeOK
    <3> QED
      BY <3>1, <3>2, <3>3
  <2>3. CASE Again /\ UNCHANGED <<awaits, told>>
    <3>1. TypeOK' /\ PoseKeepsUp'
      BY <2>1, <2>3, AgainEffect DEF TypeOK
    <3>2. motion' # "none"
      BY <2>1, <2>3, AgainEffect DEF Motion, Pivot
    <3>3. Watched' /\ LastGoesOn'
      BY <2>1, <2>3, <3>2 DEF Watched, LastGoesOn, Iterates, Awaiting
    <3> QED
      BY <3>1, <3>3
  <2> QED
    BY <1>2, <2>2, <2>3 DEF IterateOnce
<1>3. CASE NoDev(t) \/ Abandon(t)
  <2>1. UNCHANGED <<motionVars, poseVars, wheelVars, made, last>> /\ Leave(t) /\ loose' = TRUE
    BY <1>3 DEF NoDev, Abandon
  <2>2. TypeOK' /\ PoseKeepsUp' /\ Watched'
    BY <2>1, LeaveOthers DEF TypeOK, PoseKeepsUp, Watched, motionVars, poseVars, wheelVars
  <2>3. LastGoesOn'
    BY <2>1, LeaveOthers DEF LastGoesOn, Iterates, Awaiting, TypeOK
  <2> QED
    BY <2>2, <2>3
<1>4. CASE Close(t)
  <2>1. UNCHANGED <<coasts, clock, poseVars, angle, running, made, last, loose>> /\ Awaiting(t)
    BY <1>4 DEF Close
  <2>2. CASE t \in told
    <3>1. UNCHANGED <<motion, moving>> /\ Leave(t)
      BY <1>4, <2>2 DEF Close
    <3>2. TypeOK' /\ PoseKeepsUp'
      BY <2>1, <3>1, LeaveOthers DEF TypeOK, PoseKeepsUp, poseVars
    <3>3. Watched' /\ LastGoesOn'
      BY <2>1, <2>2, <3>1, LeaveOthers DEF Watched, LastGoesOn, Iterates, Awaiting, TypeOK
    <3> QED
      BY <3>2, <3>3
  <2>3. CASE t \notin told
    <3>1. moving' = {} /\ motion' = "none" /\ Await(t, NoObject, ScheduleStop(awaits[t]))
      BY <1>4, <2>3 DEF Close, Stop, TypeOK
    <3>2. awaits[t] \in Object
      BY <2>1 DEF Awaiting, TypeOK
    <3>3. TypeOK' /\ PoseKeepsUp' /\ Watched'
      BY <2>1, <3>1, <3>2, AwaitOthers DEF TypeOK, PoseKeepsUp, Watched, poseVars
    <3>4. LastGoesOn'
      <4>1. \A u \in Task : u # t => awaits'[u] = awaits[u] /\ (Iterates(u)' => Iterates(u))
        BY <3>1, <3>2, AwaitOthers DEF Iterates, Awaiting, TypeOK
      <4>2. ~Iterates(t)' /\ awaits'[t] = NoObject
        BY <3>1, <3>2, AwaitOthers DEF Iterates, Awaiting
      <4> QED BY <2>1, <4>1, <4>2 DEF LastGoesOn
    <3> QED
      BY <3>3, <3>4
  <2> QED
    BY <2>2, <2>3
<1>5. ASSUME NEW o \in Object, Start(t, o)
      PROVE  IInv'
  <2>1. PICK m \in Motion \ {"heading"} : SetUp(m)
    BY <1>5 DEF Start
  <2>2. /\ o \in made /\ Await(t, o, ScheduleStop(o))
        /\ last' = [last EXCEPT ![o] = t]
        /\ UNCHANGED <<poseVars, angle, running, made, loose>>
    BY <1>5 DEF Start
  <2>3. motion' \in Motion /\ motion' # "none" /\ moving' \subseteq Wheel
        /\ coasts' \in BOOLEAN /\ clock' \in {"off", "running", "expired"}
    BY <2>1 DEF SetUp, Stop, Motion, Pivot, TypeOK
  <2>4. TypeOK' /\ PoseKeepsUp'
    BY <2>2, <2>3, AwaitOthers DEF TypeOK, PoseKeepsUp, poseVars
  <2>5. Iterates(t)'
    BY <2>2, AwaitOthers, RobotBaseAssumption DEF Iterates, Awaiting
  <2>6. LastGoesOn'
    <3> SUFFICES ASSUME NEW u \in Task
                 PROVE  /\ awaits'[u] \in made' \union {NoObject}
                        /\ Iterates(u)' => last'[awaits'[u]] = u
      BY DEF LastGoesOn
    <3>1. CASE u = t
      BY <2>2, <3>1, AwaitOthers DEF TypeOK
    <3>2. CASE u # t
      <4>1. /\ awaits'[u] = awaits[u]
            /\ (u \in told' <=> u \in told \/ (u = last[o] /\ awaits[u] = o))
        BY <2>2, <3>2, AwaitOthers
      <4>2. Iterates(u)' => Iterates(u) /\ awaits[u] # o
        BY <4>1 DEF Iterates, Awaiting, LastGoesOn
      <4> QED
        BY <2>2, <4>1, <4>2 DEF LastGoesOn, TypeOK, Iterates, Awaiting
    <3> QED
      BY <3>1, <3>2
  <2> QED
    BY <2>3, <2>4, <2>5, <2>6 DEF Watched
<1> QED
  BY <1>1, <1>2, <1>3, <1>4, <1>5 DEF TaskStep, Iterate
-------------------------------------------------------------------------------
(* Calls that start no motion, the wheels, the clock and the end of the     *)
(* program keep the invariant.                                              *)
LEMMA OtherStepIInv ==
  ASSUME IInv,
         \/ \E o \in Object : ObjectCall(o)
         \/ \E w \in Wheel : WheelStep(w)
         \/ Expire \/ EndProgram
  PROVE  IInv'
<1> USE DEF IInv
<1>1. ASSUME NEW o \in Object, Make(o)
      PROVE  IInv'
  <2>1. TypeOK' /\ PoseKeepsUp'
    <3>1. /\ ref' = Zero /\ missing' = Zero /\ UNCHANGED <<motionVars, wheelVars, awaits, told, loose>>
          /\ made' \subseteq Object /\ last' \in [Object -> Task \union {NoTask}]
      BY <1>1 DEF Make, TypeOK
    <3>2. anchored' \in BOOLEAN /\ (anchored' => angle = Zero)
      BY <1>1 DEF Make
    <3>3. PoseKeepsUp'
      BY <3>1, <3>2, ZeroType DEF PoseKeepsUp, wheelVars
    <3> QED
      BY <3>1, <3>2, <3>3, ZeroType DEF TypeOK, motionVars, wheelVars
  <2>2. Watched'
    BY <1>1 DEF Make, Watched, Iterates, Awaiting, motionVars, wheelVars
  <2>3. \A t \in Task : awaits[t] # o
    BY <1>1, RobotBaseAssumption DEF Make, LastGoesOn
  <2>4. LastGoesOn'
    BY <1>1, <2>3 DEF Make, LastGoesOn, Iterates, Awaiting, TypeOK
  <2> QED
    BY <2>1, <2>2, <2>4
<1>2. ASSUME NEW o \in Object, Refuse(o)
      PROVE  IInv'
  <2>1. motion' \in Motion \union {"none"} /\ (motion # "none" => motion' # "none")
    BY <1>2 DEF Refuse, Motion, Pivot, TypeOK
  <2> QED
    BY <1>2, <2>1
    DEF Refuse, TypeOK, PoseKeepsUp, Watched, LastGoesOn, Iterates, Awaiting, poseVars,
        wheelVars, taskVars
<1>3. ASSUME NEW o \in Object, UpdateState(o) \/ ResetState(o)
      PROVE  IInv'
  <2>1. ASSUME UpdateState(o)
        PROVE  TypeOK' /\ PoseKeepsUp'
    BY <2>1 DEF UpdateState, Count, TypeOK, PoseKeepsUp, motionVars, wheelVars, taskVars
  <2>2. ASSUME ResetState(o)
        PROVE  TypeOK' /\ PoseKeepsUp'
    BY <2>2, ZeroType DEF ResetState, TypeOK, PoseKeepsUp, motionVars, wheelVars, taskVars
  <2>3. TypeOK' /\ PoseKeepsUp'
    BY <1>3, <2>1, <2>2
  <2> QED
    BY <1>3, <2>3
    DEF UpdateState, ResetState, Watched, LastGoesOn, Iterates, Awaiting, motionVars, wheelVars,
        taskVars
<1>4. ASSUME NEW w \in Wheel, WheelStep(w)
      PROVE  IInv'
  <2>1. TypeOK' /\ PoseKeepsUp'
    <3>1. CASE UseMotor(w)
      BY <3>1 DEF UseMotor, Stop, TypeOK, PoseKeepsUp, motionVars, poseVars, taskVars
    <3>2. CASE ResetAngle(w)
      BY <3>2, ZeroType DEF ResetAngle, Stop, TypeOK, PoseKeepsUp, motionVars, taskVars
    <3>3. CASE Turn(w)
      BY <3>3, RobotBaseAssumption DEF Turn, TypeOK, PoseKeepsUp, motionVars, taskVars
    <3>4. CASE Unplug(w)
      BY <3>4, ZeroType DEF Unplug, Stop, TypeOK, PoseKeepsUp, motionVars, taskVars
    <3> QED
      BY <1>4, <3>1, <3>2, <3>3, <3>4 DEF WheelStep
  <2>2. moving' \subseteq moving /\ UNCHANGED <<motionVars, taskVars>>
    BY <1>4 DEF WheelStep, UseMotor, ResetAngle, Turn, Unplug, Stop
  <2> QED
    BY <2>1, <2>2 DEF Watched, LastGoesOn, Iterates, Awaiting, motionVars, taskVars
<1>5. CASE Expire
  BY <1>5 DEF Expire, TypeOK, PoseKeepsUp, Watched, LastGoesOn, Iterates, Awaiting, poseVars,
              wheelVars, taskVars
<1>6. CASE EndProgram
  <2>1. TypeOK' /\ PoseKeepsUp'
    BY <1>6, ZeroType DEF EndProgram, Stop, TypeOK, PoseKeepsUp, motionVars
  <2>2. moving' = {} /\ \A t \in Task : awaits'[t] = NoObject
    BY <1>6 DEF EndProgram, Stop, TypeOK
  <2> QED
    BY <2>1, <2>2 DEF Watched, LastGoesOn, Iterates, Awaiting
<1> QED
  BY <1>1, <1>2, <1>3, <1>4, <1>5, <1>6 DEF ObjectCall

(* A stutter changes none of it. *)
LEMMA StutterIInv == IInv /\ UNCHANGED vars => IInv'
  BY DEF IInv, vars, motionVars, poseVars, wheelVars, taskVars, TypeOK, PoseKeepsUp, Watched,
         LastGoesOn, Iterates, Awaiting

(* The inductive invariant holds in every state. *)
THEOREM Inductive == Spec => []IInv
<1>1. IInv /\ [Next]_vars => IInv'
  BY TaskStepIInv, OtherStepIInv, StutterIInv DEF Next
<1> QED
  BY <1>1, InitIInv, PTL DEF Spec
-------------------------------------------------------------------------------
(* Every variable of RobotBase keeps its type. *)
THEOREM TypeCorrect == Spec => []TypeOK
<1>1. IInv => TypeOK
  BY DEF IInv
<1> QED
  BY <1>1, Inductive, PTL

(* Every degree that a wheel turned is in the pose, or will be with the next *)
(* update, through any sequence of motions that reset the angles.           *)
THEOREM PoseIsKept == Spec => []PoseKeepsUp
<1>1. IInv => PoseKeepsUp
  BY DEF IInv
<1> QED
  BY <1>1, Inductive, PTL

(* Motors that run for ever for a motion have a task that will end it, and  *)
(* of the tasks that await one object only the last goes on.                *)
THEOREM MotionsStayWatched == Spec => []MotionsAreWatched
<1>1. IInv => MotionsAreWatched
  BY LastIsOne DEF IInv, MotionsAreWatched
<1> QED
  BY <1>1, Inductive, PTL
===============================================================================
