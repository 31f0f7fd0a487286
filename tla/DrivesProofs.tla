----------------------------- MODULE DrivesProofs -----------------------------
(* Proofs about Drives, for any number of motors and any pairs of them: no *)
(* two controllers fight over a motor, what a motor was told stands, and   *)
(* the code's two levels of controllers implement MotorControl.            *)
EXTENDS Drives, FiniteSetTheorems, TLAPS

(* A drive base that was set up has two wheels. *)
WheelsOK == \A b \in Base :
    left[b] # NoMotor => right[b] # NoMotor /\ left[b] # right[b]

(* What an active drive base knows of its wheels: they are its own, have a *)
(* servo without a controller, and nobody else told them anything.  Only a *)
(* program that caught an exception can have them out of the control loop. *)
BaseOK == \A b \in Base : active[b] =>
    /\ Attached(b)
    /\ \A m \in Wheels(b) : owned[m] /\ ~ctl[m] /\ asked[m] = "none" /\ (raised \/ loop[m])

(* The same of a motor that follows its servo controller. *)
ServoOK == \A m \in Motor : ctl[m] => owned[m] /\ asked[m] = "none" /\ (raised \/ loop[m])

IInv == TypeOK /\ WheelsOK /\ BaseOK /\ ServoOK /\ AskedIsKept

------------------------------------------------------------------------------
(* The turns of the control loop are numbers.                             *)
LEMMA Sizes ==
    /\ NumMotors \in Nat /\ NumMotors \div 2 \in Nat
    /\ NumMotors \div 2 + NumMotors \in Nat
<1>1. NumMotors \in Nat
  BY DrivesAssumption
<1>2. NumMotors \div 2 \in Nat
  BY <1>1
<1> QED BY <1>1, <1>2

(* The hub starts with values of the right types.                          *)
LEMMA TypeInit == Init => TypeOK
<1> SUFFICES ASSUME Init PROVE TypeOK
  OBVIOUS
<1>1. turn \in 0..(NumMotors \div 2 + NumMotors)
  BY Sizes DEF Init
<1>2. plugged \subseteq Motor
  BY DEF Init
<1> QED BY <1>1, <1>2 DEF Init, TypeOK, Passive, NoBase, NoMotor

(* The turn stays within the control loop. *)
LEMMA NextTurnInRange ==
    ASSUME TypeOK, NextTurn
    PROVE  turn' \in 0..(NumMotors \div 2 + NumMotors)
<1> DEFINE K == NumMotors \div 2 + NumMotors
<1>1. K \in Nat /\ turn \in 0..K /\ turn' = (turn + 1) % (K + 1)
  BY Sizes DEF TypeOK, NextTurn
<1> HIDE DEF K
<1>2. turn' \in 0..K
  BY <1>1
<1> QED BY <1>2 DEF K

(* Setting some of the values of a function keeps its type.                *)
LEMMA WithType ==
    ASSUME NEW D, NEW R, NEW f \in [D -> R], NEW S, NEW v \in R
    PROVE  With(f, S, v) \in [D -> R]
BY DEF With

(* So does stopping the parents of some motors, and coasting some.         *)
LEMMA StopParentsType ==
    ASSUME TypeOK, NEW S, StopParents(S)
    PROVE  active' \in [Base -> BOOLEAN]
BY WithType DEF TypeOK, StopParents

(* And making some motors coast, brake or hold.                            *)
LEMMA PassiveType ==
    ASSUME TypeOK, NEW S, NEW p \in Passive
    PROVE  With(power, S, p) \in [Motor -> Passive \union {"driven"}]
BY WithType DEF TypeOK

(* Each operation, and each part of a pass of the control loop, keeps the  *)
(* types.                                                                  *)
LEMMA TypeStep == TypeOK /\ [Next]_vars => TypeOK'
<1> SUFFICES ASSUME TypeOK, [Next]_vars PROVE TypeOK'
  OBVIOUS
<1> USE DEF TypeOK, Passive, NoBase, NoMotor, With, LoopAsked
<1>1. ASSUME NEW m \in Motor, NoMotorThere(m) PROVE TypeOK'
  BY <1>1 DEF NoMotorThere, Raise, servoVars, baseVars, objectVars
<1>2. ASSUME NEW m \in Motor, MakeMotor(m) PROVE TypeOK'
  <2>1. UNCHANGED <<plugged, parent, baseVars, turn, bases>>
        /\ \E b \in BOOLEAN : loop' = [loop EXCEPT ![m] = b]
        /\ raised' \in BOOLEAN /\ motors' \subseteq Motor
    BY <1>2 DEF MakeMotor, Raise
  <2>2. CASE owned[m]
    BY <1>2, <2>1, <2>2 DEF MakeMotor, Raise, baseVars
  <2>3. CASE ~owned[m]
    <3>1. /\ owned' = [owned EXCEPT ![m] = TRUE] /\ ctl' = [ctl EXCEPT ![m] = FALSE]
          /\ power' = [power EXCEPT ![m] = "coast"] /\ asked' = [asked EXCEPT ![m] = "coast"]
      BY <1>2, <2>3 DEF MakeMotor
    <3>2. /\ power' \in [Motor -> Passive \union {"driven"}]
          /\ asked' \in [Motor -> Passive \union {"none"}]
      BY <3>1
    <3> QED BY <2>1, <3>1, <3>2 DEF baseVars
  <2> QED BY <2>2, <2>3
<1>3. ASSUME NEW m \in Motor, Close(m) PROVE TypeOK'
  BY <1>3 DEF Close, Clear, StopParents, objectVars
<1>4. ASSUME NEW m \in Motor, Track(m) PROVE TypeOK'
  BY <1>4 DEF Track, StopParent, StopParents, objectVars
<1>5. ASSUME NEW m \in Motor, Run(m) PROVE TypeOK'
  BY <1>4, <1>5 DEF Run, StopParent, StopParents, Raise, objectVars
<1>6. ASSUME NEW m \in Motor, ResetAngle(m) PROVE TypeOK'
  <2>1. UNCHANGED <<plugged, owned, loop, parent, left, right, turn, objectVars>>
        /\ active' \in [Base -> BOOLEAN]
    BY <1>6, StopParentsType DEF ResetAngle, StopParent
  <2>2. power' \in [Motor -> Passive \union {"driven"}]
    <3> DEFINE W == With(power, CoastedBy({m}), "coast")
               V == With(power, CoastedBy({m}) \union {m}, "coast")
    <3>1. {W, V} \subseteq [Motor -> Passive \union {"driven"}]
      BY PassiveType
    <3>2. power' = V \/ \E v \in Passive \union {"driven"} : power' = [W EXCEPT ![m] = v]
      BY <1>6 DEF ResetAngle
    <3> HIDE DEF W, V
    <3> QED BY <3>1, <3>2
  <2>3. asked' \in [Motor -> Passive \union {"none"}]
    BY <1>6 DEF ResetAngle
  <2>4. ctl' \in [Motor -> BOOLEAN] /\ raised' \in BOOLEAN
    BY <1>6 DEF ResetAngle, Raise
  <2> QED BY <2>1, <2>2, <2>3, <2>4 DEF objectVars
<1>7. ASSUME NEW m \in Motor, NEW p \in Passive, Actuate(m, p) PROVE TypeOK'
  BY <1>7 DEF Actuate, StopParents, objectVars
<1>8. ASSUME NEW p \in Pair, MakeBase(p[1], p[2]) PROVE TypeOK'
  <2>1. p[1] \in Motor /\ p[2] \in Motor
    BY DrivesAssumption
  <2>2. CASE NoneToSetUp(p[1], p[2])
    BY <2>2 DEF NoneToSetUp, Raise, servoVars, baseVars, objectVars
  <2>3. ASSUME NEW b \in FirstFree, SetUp(b, p[1], p[2]) PROVE TypeOK'
    <3>1. b \in Base /\ UNCHANGED <<plugged, owned, turn, motors>>
          /\ left' = [left EXCEPT ![b] = p[1]] /\ right' = [right EXCEPT ![b] = p[2]]
          /\ active' = [active EXCEPT ![b] = FALSE]
          /\ parent' = With(parent, {p[1], p[2]}, b)
          /\ ctl' = With(ctl, {p[1], p[2]}, FALSE)
      BY <2>3 DEF SetUp, FirstFree
    <3>2. loop' \in [Motor -> BOOLEAN]
      BY <2>3 DEF SetUp
    <3>3. power' \in {power, With(power, {p[1], p[2]}, "coast")}
          /\ asked' \in {asked, With(asked, {p[1], p[2]}, "coast")}
          /\ bases' \in {bases, bases \union {b}} /\ raised' \in {raised, TRUE}
      BY <2>3 DEF SetUp, Raise
    <3>4. /\ parent' \in [Motor -> Base \union {NoBase}] /\ ctl' \in [Motor -> BOOLEAN]
          /\ power' \in [Motor -> Passive \union {"driven"}]
          /\ asked' \in [Motor -> Passive \union {"none"}]
      <4>1. parent' \in [Motor -> Base \union {NoBase}]
        BY <3>1, WithType DEF TypeOK
      <4>2. ctl' \in [Motor -> BOOLEAN]
        BY <3>1, WithType DEF TypeOK
      <4>3. power' \in [Motor -> Passive \union {"driven"}]
        BY <3>3, PassiveType
      <4>4. asked' \in [Motor -> Passive \union {"none"}]
        BY <3>3, WithType DEF TypeOK
      <4> QED BY <4>1, <4>2, <4>3, <4>4
    <3>5. /\ left' \in [Base -> Motor \union {NoMotor}]
          /\ right' \in [Base -> Motor \union {NoMotor}] /\ active' \in [Base -> BOOLEAN]
          /\ bases' \subseteq Base /\ raised' \in BOOLEAN
      BY <2>1, <3>1, <3>3
    <3> QED BY <3>1, <3>2, <3>4, <3>5
  <2> QED BY <1>8, <2>2, <2>3 DEF MakeBase
<1>9. ASSUME NEW b \in Base, Drive(b) PROVE TypeOK'
  BY <1>9 DEF Drive, Raise, objectVars
<1>10. ASSUME NEW b \in Base, NEW p \in Passive, StopBase(b, p) PROVE TypeOK'
  BY <1>10 DEF StopBase, Halt, objectVars
<1>11. ASSUME Refused PROVE TypeOK'
  BY <1>11 DEF Refused, NoDev, Raise, baseVars, objectVars
<1>12. ASSUME EndProgram PROVE TypeOK'
  BY <1>12 DEF EndProgram, Clear, StopParents
<1>13. ASSUME SoftStop PROVE TypeOK'
  BY <1>13 DEF SoftStop, StopParents, objectVars
<1>14. ASSUME ControlLoop PROVE TypeOK'
  <2>1. CASE BeginPass
    BY <2>1, NextTurnInRange
       DEF BeginPass, servoVars, baseVars, objectVars, historyVars
  <2>2. ASSUME NEW b \in Base, UpdateBase(b) PROVE TypeOK'
    <3>1. turn' \in 0..(NumMotors \div 2 + NumMotors) /\ asked' = asked
          /\ UNCHANGED <<plugged, owned, parent, left, right, objectVars, raised>>
      BY <2>2, NextTurnInRange DEF UpdateBase, Halt, servoVars, baseVars
    <3>2. /\ active' \in {active, [active EXCEPT ![b] = FALSE]}
          /\ ctl' \in {ctl, With(ctl, Wheels(b), FALSE)}
          /\ loop' \in {loop, LoopAsked(AskedOf(b))}
      BY <2>2 DEF UpdateBase, Halt, servoVars, baseVars
    <3>3. \E v \in Passive \union {"driven"} : power' \in {power, With(power, Wheels(b), v)}
      BY <2>2 DEF UpdateBase, Halt
    <3>4. power' \in [Motor -> Passive \union {"driven"}]
      BY <3>3
    <3>5. ctl' \in [Motor -> BOOLEAN]
      BY <3>2
    <3>6. active' \in [Base -> BOOLEAN] /\ loop' \in [Motor -> BOOLEAN]
      BY <3>2
    <3> QED BY <3>1, <3>4, <3>5, <3>6 DEF objectVars
  <2>3. ASSUME NEW m \in Motor, UpdateServo(m) PROVE TypeOK'
    <3>1. turn' \in 0..(NumMotors \div 2 + NumMotors) /\ UNCHANGED <<plugged, objectVars, raised>>
      BY <2>3, NextTurnInRange DEF UpdateServo
    <3>2. CASE ServoFails(m)
      BY <3>1, <3>2 DEF ServoFails, StopParents, objectVars
    <3>3. CASE ServoActuates(m)
      <4>1. UNCHANGED <<owned, loop, parent, left, right, active, asked>>
        BY <3>3 DEF ServoActuates, baseVars
      <4>2. ctl' \in {ctl, [ctl EXCEPT ![m] = FALSE]}
            /\ \E v \in Passive \union {"driven"} : power' = [power EXCEPT ![m] = v]
        BY <3>3 DEF ServoActuates
      <4> QED BY <3>1, <4>1, <4>2 DEF objectVars
    <3>4. CASE ServoIsPassive(m)
      BY <3>1, <3>4 DEF ServoIsPassive, servoVars, baseVars, objectVars
    <3> QED BY <2>3, <3>2, <3>3, <3>4 DEF UpdateServo
  <2> QED BY <1>14, <2>1, <2>2, <2>3 DEF ControlLoop
<1>15. ASSUME NEW m \in Loose, Cable(m) PROVE TypeOK'
  BY <1>15, DrivesAssumption DEF Cable, servoVars, baseVars, objectVars, historyVars
<1>16. CASE UNCHANGED vars
  BY <1>16 DEF vars, servoVars, baseVars, objectVars, historyVars
<1> QED
  BY <1>1, <1>2, <1>3, <1>4, <1>5, <1>6, <1>7, <1>8, <1>9, <1>10, <1>11,
     <1>12, <1>13, <1>14, <1>15, <1>16 DEF Next

------------------------------------------------------------------------------
(* What stands for no drive base and no motor is neither.                  *)
LEMMA NoneIsNone == NoBase \notin Base /\ NoMotor \notin Motor
BY Sizes DEF Base, Motor, NoBase, NoMotor

(* BaseOK, for one wheel. *)
LEMMA ActiveWheels ==
    ASSUME IInv, NEW b \in Base, active[b], NEW m \in Wheels(b)
    PROVE  /\ m \in Motor /\ parent[m] = b /\ asked[m] = "none"
           /\ owned[m] /\ ~ctl[m] /\ (raised \/ loop[m])
           /\ left[b] # NoMotor /\ right[b] # NoMotor /\ left[b] # right[b]
<1>1. Attached(b) /\ owned[m] /\ ~ctl[m] /\ asked[m] = "none" /\ (raised \/ loop[m])
  BY DEF IInv, BaseOK
<1>2. left[b] # NoMotor /\ right[b] # NoMotor /\ left[b] # right[b] /\ parent[m] = b
  BY <1>1 DEF IInv, WheelsOK, Attached
<1>3. left[b] \in Motor /\ right[b] \in Motor
  BY <1>2 DEF IInv, TypeOK
<1> QED BY <1>1, <1>2, <1>3 DEF Wheels

(* To stop the parents of S leaves those drive bases active that have no  *)
(* wheel in S and none among the motors that it coasts.                   *)
LEMMA StopParentsLinks ==
    ASSUME IInv, NEW S \in SUBSET Motor, StopParents(S)
    PROVE  /\ \A b \in Base : active'[b] =>
                active[b] /\ \A m \in Wheels(b) : m \notin S /\ m \notin CoastedBy(S)
           /\ \A m \in CoastedBy(S) : m \in Motor /\ asked[m] = "none" /\ ~ctl[m]
<1>1. ASSUME NEW b \in Base, active'[b]
      PROVE  active[b] /\ \A m \in S : parent[m] # b
  BY <1>1 DEF IInv, TypeOK, StopParents, StoppedBy, With
<1>2. ASSUME NEW m \in CoastedBy(S)
      PROVE  \E b \in Base : active[b] /\ m \in Wheels(b) /\ \E n \in S : parent[n] = b
  BY <1>2 DEF CoastedBy, StoppedBy
<1>3. ASSUME NEW b \in Base, active[b], NEW m \in Wheels(b)
      PROVE  m \in Motor /\ parent[m] = b /\ asked[m] = "none" /\ ~ctl[m]
  BY <1>3, ActiveWheels
<1> QED BY <1>1, <1>2, <1>3

Functions ==
    /\ owned \in [Motor -> BOOLEAN] /\ loop \in [Motor -> BOOLEAN] /\ ctl \in [Motor -> BOOLEAN]
    /\ parent \in [Motor -> Base \union {NoBase}]
    /\ active \in [Base -> BOOLEAN]
    /\ power \in [Motor -> Passive \union {"driven"}]
    /\ asked \in [Motor -> Passive \union {"none"}]
    /\ left \in [Base -> Motor \union {NoMotor}] /\ right \in [Base -> Motor \union {NoMotor}]

(* Every step keeps what an active drive base knows of its wheels: whoever *)
(* takes one of them stops the drive base first.                           *)
LEMMA BaseStep == IInv /\ TypeOK' /\ [Next]_vars => BaseOK'
<1> SUFFICES ASSUME IInv, TypeOK', [Next]_vars, NEW b \in Base, active'[b]
             PROVE  /\ Attached(b)'
                    /\ \A m \in Wheels(b)' :
                         owned'[m] /\ ~ctl'[m] /\ asked'[m] = "none" /\ (raised' \/ loop'[m])
  BY DEF BaseOK
<1> DEFINE Goal == /\ Attached(b)'
                   /\ \A m \in Wheels(b)' :
                        owned'[m] /\ ~ctl'[m] /\ asked'[m] = "none" /\ (raised' \/ loop'[m])
<1>a. ASSUME active[b]
      PROVE  Attached(b) /\ Wheels(b) \subseteq Motor /\ \A m \in Wheels(b) :
                 parent[m] = b /\ owned[m] /\ ~ctl[m] /\ asked[m] = "none" /\ (raised \/ loop[m])
  BY <1>a, ActiveWheels DEF IInv, BaseOK
<1>c. ASSUME active[b], left'[b] = left[b], right'[b] = right[b], raised => raised',
             \A m \in Wheels(b) : /\ parent'[m] = parent[m]
                                 /\ (asked[m] = "none" => asked'[m] = "none")
                                 /\ (owned[m] => owned'[m])
                                 /\ (ctl'[m] => ctl[m])
                                 /\ (owned[m] /\ loop[m] => loop'[m])
      PROVE  Goal
  <2>1. Attached(b) /\ \A m \in Wheels(b) :
          parent[m] = b /\ owned[m] /\ ~ctl[m] /\ asked[m] = "none" /\ (raised \/ loop[m])
    BY <1>a, <1>c
  <2>2. Attached(b)'
    BY <2>1, <1>c DEF Attached, Wheels
  <2>3. Wheels(b)' = Wheels(b)
    BY <1>c DEF Wheels
  <2> QED BY <1>c, <2>1, <2>2, <2>3
<1>0. Functions
  BY DEF IInv, TypeOK, Functions
<1> USE <1>0 DEF Functions
<1>b. ASSUME NEW S \in SUBSET Motor, StopParents(S)
      PROVE  active[b] /\ \A m \in Wheels(b) : m \notin S /\ m \notin CoastedBy(S)
  BY <1>b, StopParentsLinks
<1>1. ASSUME NEW m \in Motor, NoMotorThere(m) PROVE Goal
  BY <1>a, <1>1 DEF NoMotorThere, Raise, servoVars, baseVars, Attached, Wheels
<1>2. ASSUME NEW m \in Motor, MakeMotor(m) PROVE Goal
  BY <1>a, <1>2 DEF MakeMotor, Raise, baseVars, Attached, Wheels
<1>3. ASSUME NEW S \in SUBSET Motor, Clear(S), raised => raised' PROVE Goal
  <2>1. active[b] /\ \A m \in Wheels(b) : m \notin {n \in S : owned[n]}
    BY <1>b, <1>3 DEF Clear
  <2>2. \A m \in Wheels(b) : m \notin S
    BY <2>1, <1>a
  <2>3. ASSUME NEW m \in Wheels(b)
        PROVE  /\ parent'[m] = parent[m] /\ owned'[m] = owned[m] /\ ctl'[m] = ctl[m]
               /\ asked'[m] = asked[m] /\ loop'[m] = loop[m]
    BY <1>a, <2>1, <2>2, <1>3 DEF Clear, With
  <2> QED BY <1>a, <1>c, <2>1, <2>3, <1>3 DEF Clear
<1>4. ASSUME NEW m \in Motor, StopParent(m), raised => raised',
             \A n \in Motor : n # m => ctl'[n] = ctl[n] /\ asked'[n] = asked[n]
      PROVE  Goal
  <2>1. active[b] /\ m \notin Wheels(b)
    BY <1>b, <1>4 DEF StopParent
  <2>2. UNCHANGED <<left, right, parent, owned, loop>>
    BY <1>4 DEF StopParent
  <2> QED BY <1>a, <2>1, <2>2, <1>4 DEF Attached, Wheels
<1>5. ASSUME NEW m \in Motor, Track(m) PROVE Goal
  BY <1>4, <1>5 DEF Track
<1>6. ASSUME NEW m \in Motor, Run(m) PROVE Goal
  BY <1>4, <1>5, <1>6 DEF Run, Raise
<1>7. ASSUME NEW m \in Motor, ResetAngle(m) PROVE Goal
  <2>1. StopParent(m) /\ (raised => raised')
    BY <1>7 DEF ResetAngle, Raise
  <2>2. \A n \in Motor : n # m => ctl'[n] = ctl[n] /\ asked'[n] = asked[n]
    BY <1>7 DEF ResetAngle
  <2> QED BY <1>4, <2>1, <2>2
<1>8. ASSUME NEW m \in Motor, NEW p \in Passive, Actuate(m, p) PROVE Goal
  <2>1. active[b] /\ m \notin Wheels(b)
    BY <1>a, <1>b, <1>8 DEF Actuate, Uncontrolled
  <2> QED BY <1>a, <2>1, <1>8 DEF Actuate, With, Attached, Wheels
<1>9. ASSUME NEW p \in Pair, MakeBase(p[1], p[2]) PROVE Goal
  <2>1. CASE NoneToSetUp(p[1], p[2])
    BY <1>a, <2>1 DEF NoneToSetUp, Raise, servoVars, baseVars, Attached, Wheels
  <2>2. ASSUME NEW c \in FirstFree, ~Busy(p[1], p[2]), SetUp(c, p[1], p[2]) PROVE Goal
    <3>1. p[1] \in Motor /\ p[2] \in Motor /\ c \in Base
      BY DrivesAssumption DEF FirstFree
    <3>2. active[b] /\ b # c /\ left'[b] = left[b] /\ right'[b] = right[b]
      BY <2>2, <3>1 DEF SetUp
    <3>3. p[1] \notin Wheels(b) /\ p[2] \notin Wheels(b)
      BY <1>a, <2>2, <3>1, <3>2, NoneIsNone DEF Busy
    <3>4. ASSUME NEW m \in Wheels(b)
          PROVE  /\ parent'[m] = parent[m] /\ owned'[m] = owned[m] /\ ctl'[m] = ctl[m]
                 /\ asked'[m] = asked[m]
                 /\ (owned[m] /\ loop[m] => loop'[m])
      <4>1. m \in Motor /\ m \notin {p[1], p[2]}
        BY <1>a, <3>2, <3>3
      <4>2. parent'[m] = parent[m] /\ owned'[m] = owned[m] /\ ctl'[m] = ctl[m]
        BY <2>2, <4>1 DEF SetUp, With
      <4>3. asked'[m] = asked[m]
        BY <2>2, <4>1 DEF SetUp, With
      <4>4. owned[m] /\ loop[m] => loop'[m]
        BY <2>2, <4>1 DEF SetUp, LoopAsked
      <4> QED BY <4>2, <4>3, <4>4
    <3>5. raised => raised'
      BY <2>2 DEF SetUp, Raise
    <3> QED BY <1>c, <3>2, <3>4, <3>5
  <2> QED BY <1>9, <2>1, <2>2 DEF MakeBase
<1>10. ASSUME NEW c \in Base, Drive(c) PROVE Goal
  <2>1. Attached(c) /\ \A m \in Wheels(c) : owned[m] /\ loop[m]
    BY <1>10 DEF Drive, BaseRunning, Running
  <2>2. UNCHANGED <<owned, loop, parent, left, right>> /\ (raised => raised')
    BY <1>10 DEF Drive, Raise
  <2>3. CASE ~active[b]
    <3>1. b = c /\ asked' = With(asked, Wheels(c), "none") /\ ctl' = With(ctl, Wheels(c), FALSE)
      BY <1>10, <2>3 DEF Drive
    <3>2. \A m \in Wheels(b) : m \in Motor
      BY <2>1, <3>1, NoneIsNone DEF Attached, IInv, WheelsOK, Wheels
    <3>3. \A m \in Wheels(b) : ~ctl'[m] /\ asked'[m] = "none"
      BY <3>1, <3>2 DEF With
    <3>4. Wheels(b)' = Wheels(b) /\ Attached(b)'
      BY <2>1, <2>2, <3>1 DEF Attached, Wheels
    <3> QED BY <2>1, <2>2, <3>1, <3>3, <3>4
  <2>4. CASE active[b]
    <3>1. \A m \in Wheels(b) : (ctl'[m] => ctl[m]) /\ asked'[m] \in {asked[m], "none"}
      BY <1>a, <1>10, <2>4 DEF Drive, With
    <3> QED BY <1>c, <2>2, <2>4, <3>1
  <2> QED BY <2>3, <2>4
<1>11. ASSUME NEW c \in Base, NEW p \in Passive, StopBase(c, p) PROVE Goal
  <2>1. active[b] /\ b # c
    BY <1>11 DEF StopBase, Halt
  <2>2. \A m \in Wheels(b) : m \notin Wheels(c)
    BY <1>a, <2>1, <1>11 DEF StopBase, BaseRunning, Attached
  <2> QED BY <1>a, <1>11, <2>1, <2>2 DEF StopBase, Halt, With, Attached, Wheels
<1>12. ASSUME NEW S, NoDev(S) PROVE Goal
  BY <1>a, <1>12 DEF NoDev, Raise, LoopAsked, baseVars, Attached, Wheels
<1>13. CASE Refused
  BY <1>12, <1>13 DEF Refused
<1>14. CASE EndProgram
  <2>1. active[b] /\ \A m \in Wheels(b) : m \notin {n \in Motor : owned[n]}
    BY <1>b, <1>14 DEF EndProgram, Clear
  <2> QED BY <1>a, <2>1 DEF Wheels
<1>15. CASE SoftStop
  <2>1. active[b] /\ \A m \in Wheels(b) : m \notin Uncontrolled(Motor)
    BY <1>b, <1>15 DEF SoftStop, Uncontrolled
  <2> QED BY <1>a, <2>1 DEF Uncontrolled, Wheels
<1>16. CASE BeginPass
  BY <1>a, <1>16 DEF BeginPass, servoVars, baseVars, historyVars, Attached, Wheels
<1>17. ASSUME NEW c \in Base, UpdateBase(c) PROVE Goal
  <2>1. UNCHANGED <<owned, parent, left, right, asked, raised>>
    BY <1>17 DEF UpdateBase, Halt, servoVars, baseVars
  <2>2. active[b] /\ \A m \in Motor : /\ (ctl'[m] => ctl[m])
                                     /\ (owned[m] /\ loop[m] => loop'[m])
    <3>1. /\ active' \in {active, [active EXCEPT ![c] = FALSE]}
          /\ ctl' \in {ctl, With(ctl, Wheels(c), FALSE)}
          /\ loop' \in {loop, LoopAsked(AskedOf(c))}
      BY <1>17 DEF UpdateBase, Halt, servoVars, baseVars
    <3>2. active[b]
      BY <3>1 DEF IInv, TypeOK
    <3>3. \A m \in Motor : ctl'[m] => ctl[m]
      <4>1. ctl \in [Motor -> BOOLEAN]
        BY DEF IInv, TypeOK
      <4> QED BY <3>1, <4>1 DEF With
    <3>4. \A m \in Motor : owned[m] /\ loop[m] => loop'[m]
      BY <3>1 DEF LoopAsked
    <3> QED BY <3>2, <3>3, <3>4
  <2> QED BY <1>a, <1>c, <2>1, <2>2
<1>18. ASSUME NEW m \in Motor, UpdateServo(m) PROVE Goal
  <2>1. UNCHANGED raised
    BY <1>18 DEF UpdateServo
  <2>2. CASE ServoFails(m)
    <3>1. active[b] /\ m \notin Wheels(b)
      BY <1>b, <2>2 DEF ServoFails
    <3> QED BY <1>a, <2>1, <2>2, <3>1 DEF ServoFails, Attached, Wheels
  <2>3. CASE ServoActuates(m)
    BY <1>a, <2>1, <2>3 DEF ServoActuates, baseVars, Attached, Wheels
  <2>4. CASE ServoIsPassive(m)
    BY <1>a, <2>1, <2>4 DEF ServoIsPassive, servoVars, baseVars, Attached, Wheels
  <2> QED BY <1>18, <2>2, <2>3, <2>4 DEF UpdateServo
<1>19. ASSUME NEW m \in Loose, Cable(m) PROVE Goal
  BY <1>a, <1>19 DEF Cable, servoVars, baseVars, historyVars, Attached, Wheels
<1>20. CASE UNCHANGED vars
  BY <1>a, <1>20 DEF vars, servoVars, baseVars, historyVars, Attached, Wheels
<1>21. ASSUME NEW m \in Motor, Close(m) PROVE Goal
  BY <1>3, <1>21 DEF Close
<1> QED
  BY <1>1, <1>2, <1>5, <1>6, <1>7, <1>8, <1>9, <1>10, <1>11, <1>13, <1>14,
     <1>15, <1>16, <1>17, <1>18, <1>19, <1>20, <1>21 DEF Next, ControlLoop

(* Only to set up a drive base moves wheels, and it moves two.             *)
LEMMA WheelsStep == IInv /\ TypeOK' /\ [Next]_vars => WheelsOK'
<1> SUFFICES ASSUME IInv, TypeOK', [Next]_vars PROVE WheelsOK'
  OBVIOUS
<1>1. ASSUME UNCHANGED <<left, right>> PROVE WheelsOK'
  BY <1>1 DEF IInv, WheelsOK
<1>2. ASSUME NEW p \in Pair, NEW c \in FirstFree, SetUp(c, p[1], p[2]) PROVE WheelsOK'
  <2>1. p[1] \in Motor /\ p[2] \in Motor /\ p[1] # p[2] /\ c \in Base
    BY DrivesAssumption DEF FirstFree
  <2>2. left' = [left EXCEPT ![c] = p[1]] /\ right' = [right EXCEPT ![c] = p[2]]
    BY <1>2 DEF SetUp
  <2>3. left \in [Base -> Motor \union {NoMotor}] /\ right \in [Base -> Motor \union {NoMotor}]
    BY DEF IInv, TypeOK
  <2> QED BY <2>1, <2>2, <2>3, NoneIsNone DEF IInv, WheelsOK
<1>3. ASSUME NEW m \in Motor, NoMotorThere(m) \/ MakeMotor(m) \/ Close(m) \/ Track(m)
                              \/ Run(m) \/ ResetAngle(m) \/ \E p \in Passive : Actuate(m, p)
      PROVE  WheelsOK'
  BY <1>1, <1>3 DEF NoMotorThere, MakeMotor, Close, Clear, Track, Run, ResetAngle,
                    StopParent, Actuate, baseVars
<1>4. ASSUME NEW p \in Pair, MakeBase(p[1], p[2]) PROVE WheelsOK'
  BY <1>1, <1>2, <1>4 DEF MakeBase, NoneToSetUp, baseVars
<1>5. ASSUME NEW b \in Base, Drive(b) \/ \E p \in Passive : StopBase(b, p) PROVE WheelsOK'
  BY <1>1, <1>5 DEF Drive, StopBase, Halt
<1>6. CASE Refused \/ EndProgram \/ SoftStop
  BY <1>1, <1>6 DEF Refused, NoDev, EndProgram, Clear, SoftStop, baseVars
<1>7. CASE ControlLoop
  BY <1>1, <1>7 DEF ControlLoop, BeginPass, UpdateBase, Halt, UpdateServo, ServoFails,
                    ServoActuates, ServoIsPassive, baseVars
<1>8. ASSUME NEW m \in Loose, Cable(m) PROVE WheelsOK'
  BY <1>1, <1>8 DEF Cable, baseVars
<1>9. CASE UNCHANGED vars
  BY <1>1, <1>9 DEF vars, baseVars
<1> QED BY <1>3, <1>4, <1>5, <1>6, <1>7, <1>8, <1>9 DEF Next

(* Every step keeps what is known of a motor that follows its servo        *)
(* controller: whoever takes the motor takes it off its controller first.  *)
LEMMA ServoStep == IInv /\ TypeOK' /\ [Next]_vars => ServoOK'
<1> SUFFICES ASSUME IInv, TypeOK', [Next]_vars, NEW n \in Motor, ctl'[n]
             PROVE  owned'[n] /\ asked'[n] = "none" /\ (raised' \/ loop'[n])
  BY DEF ServoOK
<1> DEFINE Goal == owned'[n] /\ asked'[n] = "none" /\ (raised' \/ loop'[n])
<1>a. ASSUME ctl[n]
      PROVE  owned[n] /\ asked[n] = "none" /\ (raised \/ loop[n])
  BY <1>a DEF IInv, ServoOK
<1>c. ASSUME ctl[n], owned[n] => owned'[n], asked[n] = "none" => asked'[n] = "none",
             raised => raised', loop[n] => loop'[n]
      PROVE  Goal
  BY <1>a, <1>c
<1>0. Functions
  BY DEF IInv, TypeOK, Functions
<1> USE <1>0 DEF Functions
<1>1. ASSUME NEW m \in Motor, NoMotorThere(m) PROVE Goal
  BY <1>c, <1>1 DEF NoMotorThere, Raise, servoVars
<1>2. ASSUME NEW m \in Motor, MakeMotor(m) PROVE Goal
  BY <1>a, <1>2 DEF MakeMotor, Raise
<1>3. ASSUME NEW S \in SUBSET Motor, Clear(S) PROVE ctl[n] /\ owned[n] /\ n \notin S
  BY <1>a, <1>3 DEF Clear, With
<1>4. ASSUME NEW m \in Motor, Close(m) PROVE Goal
  <2>1. ctl[n] /\ owned[n] /\ n \notin {m}
    BY <1>3, <1>4 DEF Close
  <2>2. owned'[n] = owned[n] /\ asked'[n] = asked[n] /\ UNCHANGED <<loop, raised>>
    BY <2>1, <1>4 DEF Close, Clear, With
  <2> QED BY <1>c, <2>1, <2>2
<1>5. ASSUME NEW m \in Motor, StopParent(m), raised => raised',
             \A k \in Motor : k # m => ctl'[k] = ctl[k] /\ asked'[k] = asked[k],
             ctl'[m] => asked'[m] = "none"
      PROVE  Goal
  <2>1. UNCHANGED <<owned, loop>> /\ owned[m] /\ loop[m]
    BY <1>5 DEF StopParent, Running
  <2> QED BY <1>a, <1>5, <2>1
<1>6. ASSUME NEW m \in Motor, Track(m) PROVE Goal
  BY <1>5, <1>6 DEF Track
<1>7. ASSUME NEW m \in Motor, Run(m) PROVE Goal
  <2>1. CASE Track(m)
    BY <1>6, <2>1
  <2>2. CASE StopParent(m) /\ Raise /\ UNCHANGED <<ctl, asked>>
    BY <1>c, <2>2 DEF StopParent, Raise
  <2> QED BY <1>7, <2>1, <2>2 DEF Run
<1>8. ASSUME NEW m \in Motor, ResetAngle(m) PROVE Goal
  <2>1. StopParent(m) /\ (raised => raised')
    BY <1>8 DEF ResetAngle, Raise
  <2>2. \A k \in Motor : k # m => ctl'[k] = ctl[k] /\ asked'[k] = asked[k]
    BY <1>8 DEF ResetAngle
  <2>3. ctl'[m] => ctl[m] /\ UNCHANGED asked
    BY <1>8 DEF ResetAngle
  <2>4. ctl'[m] => asked'[m] = "none"
    BY <2>3 DEF IInv, ServoOK
  <2> QED BY <1>5, <2>1, <2>2, <2>4
<1>9. ASSUME NEW m \in Motor, NEW p \in Passive, Actuate(m, p) PROVE Goal
  <2>1. ctl[n] /\ n # m
    BY <1>a, <1>9 DEF Actuate, Controlled, With
  <2>2. UNCHANGED <<owned, loop, raised>> /\ asked'[n] = asked[n]
    BY <1>9, <2>1 DEF Actuate
  <2> QED BY <1>c, <2>1, <2>2
<1>10. ASSUME NEW p \in Pair, MakeBase(p[1], p[2]) PROVE Goal
  <2>1. CASE NoneToSetUp(p[1], p[2])
    BY <1>c, <2>1 DEF NoneToSetUp, Raise, servoVars
  <2>2. ASSUME NEW c \in FirstFree, SetUp(c, p[1], p[2]) PROVE Goal
    <3>1. ctl[n] /\ n \notin {p[1], p[2]}
      BY <2>2 DEF SetUp, With
    <3>2. UNCHANGED owned /\ (raised => raised')
      BY <2>2 DEF SetUp, Raise
    <3>3. asked'[n] = asked[n]
      BY <2>2, <3>1 DEF SetUp, With
    <3>4. loop[n] => loop'[n]
      BY <1>a, <2>2, <3>1 DEF SetUp, LoopAsked
    <3> QED BY <1>c, <3>1, <3>2, <3>3, <3>4
  <2> QED BY <1>10, <2>1, <2>2 DEF MakeBase
<1>11. ASSUME NEW c \in Base, Drive(c) PROVE Goal
  <2>1. ctl[n] /\ n \notin Wheels(c)
    BY <1>11 DEF Drive, With
  <2>2. UNCHANGED <<owned, loop>> /\ (raised => raised')
    BY <1>11 DEF Drive, Raise
  <2>3. asked'[n] = asked[n]
    BY <1>11, <2>1 DEF Drive, With
  <2> QED BY <1>c, <2>1, <2>2, <2>3
<1>12. ASSUME NEW c \in Base, NEW p \in Passive, StopBase(c, p) PROVE Goal
  <2>1. ctl[n] /\ n \notin Wheels(c)
    BY <1>12 DEF StopBase, Halt, With
  <2>2. UNCHANGED <<owned, loop, raised>> /\ asked'[n] = asked[n]
    BY <1>12, <2>1 DEF StopBase, Halt, With
  <2> QED BY <1>c, <2>1, <2>2
<1>13. ASSUME NEW S, NoDev(S) PROVE Goal
  BY <1>a, <1>13 DEF NoDev, Raise, LoopAsked
<1>14. CASE Refused
  BY <1>13, <1>14 DEF Refused
<1>15. CASE EndProgram
  BY <1>3, <1>15 DEF EndProgram
<1>16. CASE SoftStop
  BY <1>a, <1>16 DEF SoftStop, Controlled, With
<1>17. CASE BeginPass
  BY <1>c, <1>17 DEF BeginPass, servoVars, historyVars
<1>18. ASSUME NEW c \in Base, UpdateBase(c) PROVE Goal
  <2>1. UNCHANGED <<owned, asked, raised>>
    BY <1>18 DEF UpdateBase, Halt, servoVars
  <2>2. ctl[n]
    BY <1>18 DEF UpdateBase, Halt, servoVars, With
  <2>3. loop[n] => loop'[n]
    BY <1>a, <2>2, <1>18 DEF UpdateBase, Halt, servoVars, LoopAsked
  <2> QED BY <1>c, <2>1, <2>2, <2>3
<1>19. ASSUME NEW m \in Motor, UpdateServo(m) PROVE Goal
  <2>1. UNCHANGED raised
    BY <1>19 DEF UpdateServo
  <2>2. CASE ServoFails(m)
    BY <1>c, <2>1, <2>2 DEF ServoFails
  <2>3. CASE ServoActuates(m)
    BY <1>c, <2>1, <2>3 DEF ServoActuates
  <2>4. CASE ServoIsPassive(m)
    BY <1>c, <2>1, <2>4 DEF ServoIsPassive, servoVars
  <2> QED BY <1>19, <2>2, <2>3, <2>4 DEF UpdateServo
<1>20. ASSUME NEW m \in Loose, Cable(m) PROVE Goal
  BY <1>c, <1>20 DEF Cable, servoVars, historyVars
<1>21. CASE UNCHANGED vars
  BY <1>c, <1>21 DEF vars, servoVars, historyVars
<1> QED
  BY <1>1, <1>2, <1>4, <1>6, <1>7, <1>8, <1>9, <1>10, <1>11, <1>12, <1>14, <1>15,
     <1>16, <1>17, <1>18, <1>19, <1>20, <1>21 DEF Next, ControlLoop

(* No controller actuates a motor after a program told it what to apply,   *)
(* until the program starts a controller for it.                           *)
LEMMA AskedStep == IInv /\ TypeOK' /\ [Next]_vars => AskedIsKept'
<1> SUFFICES ASSUME IInv, TypeOK', [Next]_vars, NEW n \in Motor, asked'[n] # "none"
             PROVE  power'[n] = asked'[n]
  BY DEF AskedIsKept
<1> DEFINE Goal == power'[n] = asked'[n]
<1>a. ASSUME asked[n] # "none"
      PROVE  power[n] = asked[n] /\ ~ctl[n]
  BY <1>a DEF IInv, AskedIsKept, ServoOK
<1>b. ASSUME NEW S \in SUBSET Motor, StopParents(S), asked[n] # "none"
      PROVE  n \notin CoastedBy(S)
  BY <1>b, StopParentsLinks
<1>c. ASSUME asked'[n] = asked[n], power'[n] = power[n]
      PROVE  Goal
  BY <1>a, <1>c
<1>d. ASSUME NEW b \in Base, active[b], NEW m \in Wheels(b)
      PROVE  m \in Motor /\ asked[m] = "none"
  BY <1>d, ActiveWheels
<1>0. Functions
  BY DEF IInv, TypeOK, Functions
<1> USE <1>0 DEF Functions
<1>1. ASSUME NEW m \in Motor, NoMotorThere(m) PROVE Goal
  BY <1>c, <1>1 DEF NoMotorThere
<1>2. ASSUME NEW m \in Motor, MakeMotor(m) PROVE Goal
  BY <1>a, <1>2 DEF MakeMotor
<1>3. ASSUME NEW S \in SUBSET Motor, Clear(S) PROVE Goal
  <2>1. CASE n \in S
    BY <1>3, <2>1 DEF Clear, With
  <2>2. CASE n \notin S
    <3>1. asked'[n] = asked[n] /\ StopParents({m \in S : owned[m]})
      BY <1>3, <2>2 DEF Clear, With
    <3>2. n \notin CoastedBy({m \in S : owned[m]})
      BY <1>b, <3>1
    <3>3. power'[n] = power[n]
      BY <1>3, <2>2, <3>2 DEF Clear, With
    <3> QED BY <1>c, <3>1, <3>3
  <2> QED BY <2>1, <2>2
<1>4. ASSUME NEW m \in Motor, StopParent(m), asked[n] # "none"
      PROVE  n \notin CoastedBy({m})
  BY <1>b, <1>4 DEF StopParent
<1>5. ASSUME NEW m \in Motor, Track(m) PROVE Goal
  <2>1. n # m /\ asked'[n] = asked[n]
    BY <1>5 DEF Track
  <2>2. n \notin CoastedBy({m})
    BY <1>4, <1>5, <2>1 DEF Track
  <2> QED BY <1>c, <1>5, <2>1, <2>2 DEF Track, With
<1>6. ASSUME NEW m \in Motor, Run(m) PROVE Goal
  <2>1. CASE StopParent(m) /\ power' = With(power, CoastedBy({m}), "coast") /\ UNCHANGED asked
    BY <1>4, <1>c, <2>1 DEF With
  <2> QED BY <1>5, <1>6, <2>1 DEF Run
<1>7. ASSUME NEW m \in Motor, ResetAngle(m) PROVE Goal
  <2>1. StopParent(m)
    BY <1>7 DEF ResetAngle
  <2>2. CASE n # m
    <3>1. asked'[n] = asked[n]
      BY <1>7, <2>2 DEF ResetAngle
    <3>2. n \notin CoastedBy({m})
      BY <1>4, <2>1, <3>1
    <3>3. power'[n] = power[n]
      BY <1>7, <2>2, <3>2 DEF ResetAngle, With
    <3> QED BY <1>c, <3>1, <3>3
  <2>3. CASE n = m
    <3>1. CASE UNCHANGED asked
      <4>1. ~ctl[m]
        BY <1>a, <2>3, <3>1
      <4>2. power'[n] = power[n] \/ asked'[m] = "none"
        BY <1>7, <2>3, <4>1 DEF ResetAngle, With
      <4> QED BY <1>c, <2>3, <3>1, <4>2
    <3>2. CASE ~UNCHANGED asked
      BY <1>7, <2>3, <3>2 DEF ResetAngle, With
    <3> QED BY <3>1, <3>2
  <2> QED BY <2>2, <2>3
<1>8. ASSUME NEW m \in Motor, NEW p \in Passive, Actuate(m, p) PROVE Goal
  <2>1. CASE n = m
    BY <1>8, <2>1 DEF Actuate, With
  <2>2. CASE n # m
    <3>1. asked'[n] = asked[n] /\ StopParents(Uncontrolled({m})) /\ Uncontrolled({m}) \subseteq Motor
      BY <1>8, <2>2 DEF Actuate, Uncontrolled
    <3>2. n \notin CoastedBy(Uncontrolled({m}))
      BY <1>b, <3>1
    <3> QED BY <1>c, <1>8, <2>2, <3>1, <3>2 DEF Actuate, With
  <2> QED BY <2>1, <2>2
<1>9. ASSUME NEW p \in Pair, MakeBase(p[1], p[2]) PROVE Goal
  <2>1. CASE NoneToSetUp(p[1], p[2])
    BY <1>c, <2>1 DEF NoneToSetUp
  <2>2. ASSUME NEW c \in FirstFree, SetUp(c, p[1], p[2]) PROVE Goal
    <3>1. CASE UNCHANGED <<power, asked>>
      BY <1>c, <3>1
    <3>2. CASE /\ power' = With(power, {p[1], p[2]}, "coast")
               /\ asked' = With(asked, {p[1], p[2]}, "coast")
      BY <1>a, <3>2 DEF With
    <3> QED BY <2>2, <3>1, <3>2 DEF SetUp
  <2> QED BY <1>9, <2>1, <2>2 DEF MakeBase
<1>10. ASSUME NEW c \in Base, Drive(c) PROVE Goal
  BY <1>a, <1>10 DEF Drive, With
<1>11. ASSUME NEW c \in Base, NEW p \in Passive, StopBase(c, p) PROVE Goal
  BY <1>a, <1>11 DEF StopBase, Halt, With
<1>12. CASE Refused
  BY <1>c, <1>12 DEF Refused, NoDev
<1>13. CASE EndProgram
  BY <1>3, <1>13 DEF EndProgram
<1>14. CASE SoftStop
  BY <1>14 DEF SoftStop, With
<1>15. CASE BeginPass
  BY <1>c, <1>15 DEF BeginPass, historyVars
<1>16. ASSUME NEW c \in Base, UpdateBase(c) PROVE Goal
  <2>1. asked'[n] = asked[n]
    BY <1>16 DEF UpdateBase
  <2>2. CASE BaseRunning(c) /\ active[c] /\ Wheels(c) \subseteq plugged
    <3>1. n \notin Wheels(c)
      BY <1>d, <2>1, <2>2
    <3> QED BY <1>c, <1>16, <2>1, <2>2, <3>1 DEF UpdateBase, Halt, With
  <2>3. CASE ~(BaseRunning(c) /\ active[c] /\ Wheels(c) \subseteq plugged)
    BY <1>c, <1>16, <2>1, <2>3 DEF UpdateBase
  <2> QED BY <2>2, <2>3
<1>17. ASSUME NEW m \in Motor, UpdateServo(m) PROVE Goal
  <2>1. CASE ServoFails(m)
    <3>1. n # m /\ asked'[n] = asked[n] /\ StopParents({m})
      BY <2>1 DEF ServoFails
    <3>2. n \notin CoastedBy({m})
      BY <1>b, <3>1
    <3> QED BY <1>c, <2>1, <3>1, <3>2 DEF ServoFails, With
  <2>2. CASE ServoActuates(m)
    BY <1>a, <1>c, <2>2 DEF ServoActuates
  <2>3. CASE ServoIsPassive(m)
    BY <1>c, <2>3 DEF ServoIsPassive
  <2> QED BY <1>17, <2>1, <2>2, <2>3 DEF UpdateServo
<1>18. ASSUME NEW m \in Loose, Cable(m) PROVE Goal
  BY <1>c, <1>18 DEF Cable, historyVars
<1>19. CASE UNCHANGED vars
  BY <1>c, <1>19 DEF vars, historyVars
<1>20. ASSUME NEW m \in Motor, Close(m) PROVE Goal
  BY <1>3, <1>20 DEF Close
<1> QED
  BY <1>1, <1>2, <1>5, <1>6, <1>7, <1>8, <1>9, <1>10, <1>11, <1>12, <1>13, <1>14,
     <1>15, <1>16, <1>17, <1>18, <1>19, <1>20 DEF Next, ControlLoop

(* The invariant holds in every state: what an active controller knows of  *)
(* its motors has to be part of it, since the control loop acts on it.     *)
THEOREM Invariance == Spec => []IInv
<1>1. Init => IInv
  <2> SUFFICES ASSUME Init PROVE IInv
    OBVIOUS
  <2>1. TypeOK
    BY TypeInit
  <2>2. WheelsOK /\ BaseOK /\ ServoOK /\ AskedIsKept
    BY DEF Init, WheelsOK, BaseOK, ServoOK, AskedIsKept
  <2> QED BY <2>1, <2>2 DEF IInv
<1>2. IInv /\ [Next]_vars => IInv'
  <2> SUFFICES ASSUME IInv, [Next]_vars PROVE IInv'
    OBVIOUS
  <2>1. TypeOK'
    BY TypeStep DEF IInv
  <2>2. WheelsOK' /\ BaseOK' /\ ServoOK' /\ AskedIsKept'
    BY <2>1, WheelsStep, BaseStep, ServoStep, AskedStep
  <2> QED BY <2>1, <2>2 DEF IInv
<1> QED BY <1>1, <1>2, PTL DEF Spec

(* Every value stays in its type, for any number of motors and any pairs.  *)
THEOREM TypeCorrect == Spec => []TypeOK
<1>1. IInv => TypeOK
  BY DEF IInv
<1> QED BY <1>1, Invariance, PTL

(* A motor never has two masters: an active drive base is the parent of    *)
(* both of its motors, and neither follows its own servo controller.       *)
THEOREM NeverTwoControllers == Spec => []OneController
<1>1. IInv => OneController
  BY DEF IInv, BaseOK, OneController
<1> QED BY <1>1, Invariance, PTL

(* What a program last told a motor is what the motor applies, until the   *)
(* program tells it or its drive base to move, whatever other motors,      *)
(* drive bases, cables and the control loop do.                            *)
THEOREM AskedStands == Spec => []AskedIsKept
<1>1. IInv => AskedIsKept
  BY DEF IInv
<1> QED BY <1>1, Invariance, PTL

------------------------------------------------------------------------------
(* A motor that is driven keeps a controller that updates it: what stops   *)
(* the controller also stops the motor.                                    *)
LEMMA SupervisedStep ==
    ASSUME ~ResetWhileDriving, IInv, IInv', DrivenIsSupervised, [Next]_vars
    PROVE  DrivenIsSupervised'
<1> SUFFICES ASSUME NEW n \in Motor, ~raised', power'[n] = "driven"
             PROVE  Supervised(n)'
  BY DEF DrivenIsSupervised
<1> DEFINE Goal == Supervised(n)'
<1>g. ASSUME ctl'[n] \/ \E b \in Base : active'[b] /\ n \in Wheels(b)'
      PROVE  Goal
  BY <1>g DEF IInv, BaseOK, ServoOK, Supervised, Running, BaseRunning
<1>a. ASSUME ~raised, power[n] = "driven"
      PROVE  ctl[n] \/ \E b \in Base : active[b] /\ n \in Wheels(b)
  BY <1>a DEF DrivenIsSupervised, Supervised
<1>c. ASSUME ~raised, power'[n] = power[n], ctl[n] => ctl'[n],
             \A b \in Base : active[b] /\ n \in Wheels(b) => active'[b] /\ n \in Wheels(b)'
      PROVE  Goal
  BY <1>a, <1>c, <1>g
<1>k. ASSUME ~raised, power'[n] = power[n], UNCHANGED <<ctl, left, right, active>>
      PROVE  Goal
  BY <1>c, <1>k DEF Wheels
<1>s. ASSUME NEW S, StopParents(S), UNCHANGED <<left, right>>, n \notin CoastedBy(S)
      PROVE  \A b \in Base : active[b] /\ n \in Wheels(b) => active'[b] /\ n \in Wheels(b)'
  BY <1>s DEF IInv, TypeOK, StopParents, CoastedBy, StoppedBy, With, Wheels
<1>0. Functions
  BY DEF IInv, TypeOK, Functions
<1> USE <1>0 DEF Functions
<1>1. ASSUME Raise PROVE FALSE
  BY <1>1 DEF Raise
<1>2. ASSUME NEW m \in Motor, NoMotorThere(m) PROVE Goal
  BY <1>1, <1>2 DEF NoMotorThere
<1>3. ASSUME NEW m \in Motor, MakeMotor(m) PROVE Goal
  <2>1. ~owned[m] /\ n # m /\ ~raised
    BY <1>1, <1>3 DEF MakeMotor
  <2>2. power'[n] = power[n] /\ ctl'[n] = ctl[n] /\ UNCHANGED baseVars
    BY <1>3, <2>1 DEF MakeMotor
  <2> QED BY <1>c, <2>1, <2>2 DEF baseVars, Wheels
<1>4. ASSUME NEW S \in SUBSET Motor, Clear(S), ~raised PROVE Goal
  <2> DEFINE with == {m \in S : owned[m]}
  <2>1. /\ power' = With(power, S \union CoastedBy(with), "coast")
        /\ StopParents(with) /\ UNCHANGED <<left, right>> /\ ctl' = With(ctl, with, FALSE)
    BY <1>4 DEF Clear
  <2>2. n \notin S /\ n \notin CoastedBy(with) /\ power'[n] = power[n]
    BY <2>1 DEF With
  <2>3. ctl'[n] = ctl[n]
    BY <2>1, <2>2 DEF With
  <2> QED BY <1>4, <1>c, <1>s, <2>1, <2>2, <2>3
<1>5. ASSUME NEW m \in Motor, Close(m) PROVE Goal
  BY <1>4, <1>5 DEF Close
<1>6. ASSUME NEW m \in Motor, Track(m) PROVE Goal
  <2>1. n \notin CoastedBy({m}) /\ power'[n] = power[n]
    BY <1>6 DEF Track, With
  <2>2. ~raised /\ (ctl[n] => ctl'[n]) /\ StopParents({m}) /\ UNCHANGED <<left, right>>
    BY <1>6 DEF Track, StopParent
  <2> QED BY <1>c, <1>s, <2>1, <2>2
<1>7. ASSUME NEW m \in Motor, Run(m) PROVE Goal
  BY <1>1, <1>6, <1>7 DEF Run
<1>8. ASSUME NEW m \in Motor, ResetAngle(m) PROVE Goal
  <2>1. StopParents({m}) /\ UNCHANGED <<left, right>> /\ ~raised
    BY <1>1, <1>8 DEF ResetAngle, StopParent
  <2>2. n # m
    BY <1>1, <1>8 DEF ResetAngle, With, Passive
  <2>3. \/ power' = With(power, CoastedBy({m}) \union {m}, "coast")
        \/ \E p : power' = [With(power, CoastedBy({m}), "coast") EXCEPT ![m] = p]
    BY <1>8 DEF ResetAngle
  <2>5. n \notin CoastedBy({m}) /\ power'[n] = power[n]
    BY <2>2, <2>3 DEF With
  <2>4. ctl'[n] = ctl[n]
    BY <1>8, <2>2 DEF ResetAngle
  <2> QED BY <1>c, <1>s, <2>1, <2>5, <2>4
<1>9. ASSUME NEW m \in Motor, NEW p \in Passive, Actuate(m, p) PROVE Goal
  <2>1. n # m
    BY <1>9 DEF Actuate, With, Passive
  <2>2. n \notin CoastedBy(Uncontrolled({m})) /\ power'[n] = power[n]
    BY <1>9, <2>1 DEF Actuate, With
  <2>3. ctl'[n] = ctl[n]
    BY <1>9, <2>1 DEF Actuate, Controlled, With
  <2>4. StopParents(Uncontrolled({m})) /\ UNCHANGED <<left, right>> /\ ~raised
    BY <1>9 DEF Actuate
  <2> QED BY <1>c, <1>s, <2>2, <2>3, <2>4
<1>10. ASSUME NEW p \in Pair, MakeBase(p[1], p[2]) PROVE Goal
  <2>1. CASE NoneToSetUp(p[1], p[2])
    BY <1>1, <2>1 DEF NoneToSetUp
  <2>2. ASSUME NEW c \in FirstFree, SetUp(c, p[1], p[2]) PROVE Goal
    <3>1. ~raised /\ power' = With(power, {p[1], p[2]}, "coast")
      BY <1>1, <2>2 DEF SetUp
    <3>2. n \notin {p[1], p[2]} /\ power'[n] = power[n]
      BY <3>1 DEF With
    <3>3. ctl'[n] = ctl[n]
      BY <2>2, <3>2 DEF SetUp, With
    <3>4. c \in Base /\ ~active[c]
      BY <3>1 DEF FirstFree, BaseRunning, Running, IInv, BaseOK
    <3>5. \A b \in Base : active[b] => active'[b] /\ left'[b] = left[b] /\ right'[b] = right[b]
      BY <2>2, <3>4 DEF SetUp
    <3> QED BY <1>c, <3>1, <3>2, <3>3, <3>5 DEF Wheels
  <2> QED BY <1>10, <2>1, <2>2 DEF MakeBase
<1>11. ASSUME NEW c \in Base, Drive(c) PROVE Goal
  <2>1. ~raised /\ active' = [active EXCEPT ![c] = TRUE] /\ UNCHANGED <<left, right, power>>
    BY <1>1, <1>11 DEF Drive
  <2>2. CASE n \in Wheels(c)
    <3>1. active'[c] /\ n \in Wheels(c)'
      BY <2>1, <2>2 DEF Wheels
    <3> QED BY <1>g, <3>1
  <2>3. CASE n \notin Wheels(c)
    <3>1. ctl'[n] = ctl[n]
      BY <1>11, <2>3 DEF Drive, With
    <3> QED BY <1>c, <2>1, <3>1 DEF Wheels
  <2> QED BY <2>2, <2>3
<1>12. ASSUME NEW c \in Base, NEW p \in Passive, Halt(c, p), ~raised PROVE Goal
  <2>1. n \notin Wheels(c) /\ power'[n] = power[n]
    BY <1>12 DEF Halt, With, Passive
  <2>2. ctl'[n] = ctl[n]
    BY <1>12, <2>1 DEF Halt, With
  <2>3. UNCHANGED <<left, right>> /\ \A b \in Base : b # c => active'[b] = active[b]
    BY <1>12 DEF Halt
  <2> QED BY <1>12, <1>c, <2>1, <2>2, <2>3 DEF Wheels
<1>13. ASSUME NEW c \in Base, NEW p \in Passive, StopBase(c, p) PROVE Goal
  BY <1>12, <1>13 DEF StopBase, Halt
<1>14. CASE Refused
  BY <1>1, <1>14 DEF Refused, NoDev
<1>15. CASE EndProgram
  BY <1>15 DEF EndProgram, Clear, With
<1>16. CASE SoftStop
  BY <1>16 DEF SoftStop, With
<1>17. CASE BeginPass
  BY <1>k, <1>17 DEF BeginPass, servoVars, baseVars, historyVars
<1>18. ASSUME NEW c \in Base, UpdateBase(c) PROVE Goal
  <2>1. ~raised
    BY <1>18 DEF UpdateBase, Halt
  <2>2. CASE /\ BaseRunning(c) /\ active[c] /\ Wheels(c) \subseteq plugged
             /\ power' = With(power, Wheels(c), "driven") /\ UNCHANGED <<servoVars, baseVars>>
    <3>1. CASE n \in Wheels(c)
      <4>1. active'[c] /\ n \in Wheels(c)'
        BY <2>2, <3>1 DEF baseVars, Wheels
      <4> QED BY <1>g, <4>1
    <3>2. CASE n \notin Wheels(c)
      BY <1>k, <2>1, <2>2, <3>2 DEF With, servoVars, baseVars
    <3> QED BY <3>1, <3>2
  <2>3. CASE UNCHANGED <<ctl, power, baseVars>>
    BY <1>k, <2>1, <2>3 DEF baseVars
  <2>4. CASE \E p \in Passive : Halt(c, p)
    BY <1>12, <2>1, <2>4
  <2> QED BY <1>18, <2>2, <2>3, <2>4 DEF UpdateBase
<1>19. ASSUME NEW m \in Motor, UpdateServo(m) PROVE Goal
  <2>1. ~raised
    BY <1>19 DEF UpdateServo
  <2>2. CASE ServoFails(m)
    <3>1. n # m /\ n \notin CoastedBy({m}) /\ power'[n] = power[n]
      BY <2>2 DEF ServoFails, With
    <3>2. ctl'[n] = ctl[n] /\ StopParents({m}) /\ UNCHANGED <<left, right>>
      BY <2>2, <3>1 DEF ServoFails
    <3> QED BY <1>c, <1>s, <2>1, <3>1, <3>2
  <2>3. CASE ServoActuates(m)
    <3>1. CASE n = m
      <4>1. ctl'[n]
        BY <2>3, <3>1 DEF ServoActuates, Passive
      <4> QED BY <1>g, <4>1
    <3>2. CASE n # m
      <4>1. power'[n] = power[n] /\ ctl'[n] = ctl[n] /\ UNCHANGED baseVars
        BY <2>3, <3>2 DEF ServoActuates
      <4> QED BY <1>c, <2>1, <4>1 DEF baseVars, Wheels
    <3> QED BY <3>1, <3>2
  <2>4. CASE ServoIsPassive(m)
    BY <1>k, <2>1, <2>4 DEF ServoIsPassive, servoVars, baseVars
  <2> QED BY <1>19, <2>2, <2>3, <2>4 DEF UpdateServo
<1>20. ASSUME NEW m \in Loose, Cable(m) PROVE Goal
  BY <1>k, <1>20 DEF Cable, servoVars, baseVars, historyVars
<1>21. CASE UNCHANGED vars
  BY <1>k, <1>21 DEF vars, servoVars, baseVars, historyVars
<1> QED
  BY <1>2, <1>3, <1>5, <1>6, <1>7, <1>8, <1>9, <1>10, <1>11, <1>13, <1>14, <1>15,
     <1>16, <1>17, <1>18, <1>19, <1>20, <1>21 DEF Next, ControlLoop

(* A motor never goes on with the voltage of a controller that no longer   *)
(* updates it, as long as programs do not reset the angle of a motor that  *)
(* its drive base drives and let an exception end them.                    *)
THEOREM NeverUnsupervised ==
    ASSUME ~ResetWhileDriving
    PROVE  Spec => []DrivenIsSupervised
<1>1. Init => DrivenIsSupervised
  BY DEF Init, DrivenIsSupervised
<1>2. IInv /\ IInv' /\ DrivenIsSupervised /\ [Next]_vars => DrivenIsSupervised'
  BY SupervisedStep
<1> QED BY <1>1, <1>2, Invariance, PTL DEF Spec

------------------------------------------------------------------------------
(* While a pass of the control loop goes on, a drive base with an unplugged *)
(* motor is active only until it is the turn of that motor.                *)
Unnoticed(b, m) == active[b] /\ m \in Wheels(b) /\ m \notin plugged

PassInv ==
    ~raised /\ turn # 0 =>
        \A b \in Base, m \in Motor : Unnoticed(b, m) => turn <= NumMotors \div 2 + m

(* Nothing but the control loop itself happens during one of its passes.   *)
LEMMA PassIsAtomic ==
    ASSUME [Next]_vars, turn # 0
    PROVE  \/ \E b \in Base : UpdateBase(b)
           \/ \E m \in Motor : UpdateServo(m)
           \/ UNCHANGED vars
<1>1. ~CanCall /\ ~EndProgram /\ ~SoftStop /\ ~BeginPass /\ \A m \in Loose : ~Cable(m)
  BY DEF CanCall, EndProgram, SoftStop, BeginPass, Cable
<1>2. ~\E m \in Motor : \/ NoMotorThere(m) \/ MakeMotor(m) \/ Close(m)
                       \/ Track(m) \/ Run(m) \/ ResetAngle(m)
                       \/ \E p \in Passive : Actuate(m, p)
  BY <1>1 DEF NoMotorThere, MakeMotor, Close, Track, Run, ResetAngle, StopParent, Actuate, Call
<1>3. ~\E p \in Pair : MakeBase(p[1], p[2])
  BY <1>1 DEF MakeBase, Call
<1>4. ~\E b \in Base : Drive(b) \/ \E p \in Passive : StopBase(b, p)
  BY <1>1 DEF Drive, StopBase, BaseCall
<1>5. ~Refused
  BY <1>1 DEF Refused, Call, BaseCall
<1> QED BY <1>1, <1>2, <1>3, <1>4, <1>5 DEF Next, ControlLoop

(* In a pass the turns follow each other; after the last one comes 0.      *)
LEMMA NextTurnIs ==
    ASSUME TypeOK, NextTurn
    PROVE  turn' = IF turn = NumMotors \div 2 + NumMotors THEN 0 ELSE turn + 1
<1> DEFINE K == NumMotors \div 2 + NumMotors
<1>1. K \in Nat /\ turn \in 0..K /\ turn' = (turn + 1) % (K + 1)
  BY Sizes DEF TypeOK, NextTurn
<1> HIDE DEF K
<1>2. turn = K => (turn + 1) % (K + 1) = 0
  BY <1>1
<1>3. turn # K => (turn + 1) % (K + 1) = turn + 1
  BY <1>1
<1> QED BY <1>1, <1>2, <1>3 DEF K

(* The turn of an unplugged motor stops its drive base, so a pass does not *)
(* get beyond that turn with the drive base active.                        *)
LEMMA PassStep ==
    ASSUME IInv, PassInv, [Next]_vars, turn # 0, ~raised,
           NEW b \in Base, NEW m \in Motor, Unnoticed(b, m)'
    PROVE  turn' # 0 /\ turn' <= NumMotors \div 2 + m
<1>0. /\ NumMotors \in Nat /\ NumMotors \div 2 \in Nat /\ m \in 1..NumMotors
      /\ turn \in 0..(NumMotors \div 2 + NumMotors) /\ TypeOK /\ Functions
  BY Sizes DEF Motor, IInv, TypeOK, Functions
<1>1. ASSUME Unnoticed(b, m), NextTurn, turn < NumMotors \div 2 + m
      PROVE  turn' # 0 /\ turn' <= NumMotors \div 2 + m
  BY <1>0, <1>1, NextTurnIs
<1>2. ASSUME NEW c \in Base, UpdateBase(c)
      PROVE  turn' # 0 /\ turn' <= NumMotors \div 2 + m
  <2>1. turn < NumMotors \div 2 + m /\ NextTurn
    BY <1>0, <1>2 DEF UpdateBase, Base
  <2>2. /\ active' \in {active, [active EXCEPT ![c] = FALSE]}
        /\ UNCHANGED <<left, right, plugged>>
    BY <1>2 DEF UpdateBase, Halt, baseVars
  <2>3. active[b]
    BY <1>0, <2>2 DEF Unnoticed, Functions
  <2>4. Unnoticed(b, m)
    BY <2>2, <2>3 DEF Unnoticed, Wheels
  <2> QED BY <1>1, <2>1, <2>4
<1>3. ASSUME NEW n \in Motor, UpdateServo(n)
      PROVE  turn' # 0 /\ turn' <= NumMotors \div 2 + m
  <2>1. turn = NumMotors \div 2 + n /\ NextTurn /\ plugged' = plugged
    BY <1>3 DEF UpdateServo
  <2>2. UNCHANGED <<left, right>> /\ (active' = active \/ ServoFails(n))
    BY <1>3 DEF UpdateServo, ServoFails, ServoActuates, ServoIsPassive, baseVars
  <2>3. CASE ServoFails(n)
    <3>1. StopParents({n})
      BY <2>3 DEF ServoFails
    <3>2. active[b] /\ n \notin Wheels(b)
      BY <3>1, StopParentsLinks DEF Unnoticed
    <3>3. Unnoticed(b, m) /\ n # m
      BY <2>1, <2>2, <3>2 DEF Unnoticed, Wheels
    <3>4. turn <= NumMotors \div 2 + m
      BY <3>3 DEF PassInv
    <3>5. turn < NumMotors \div 2 + m
      BY <1>0, <2>1, <3>3, <3>4 DEF Motor
    <3> QED BY <1>1, <2>1, <3>3, <3>5
  <2>4. CASE ~ServoFails(n)
    <3>1. Unnoticed(b, m)
      BY <2>1, <2>2, <2>4 DEF Unnoticed, Wheels
    <3>2. turn <= NumMotors \div 2 + m
      BY <3>1 DEF PassInv
    <3>3. loop[m] /\ m \notin plugged
      BY <3>1, ActiveWheels DEF Unnoticed
    <3>4. n # m
      BY <1>3, <2>4, <3>3 DEF UpdateServo, ServoActuates, ServoIsPassive
    <3>5. turn < NumMotors \div 2 + m
      BY <1>0, <2>1, <3>2, <3>4 DEF Motor
    <3> QED BY <1>1, <2>1, <3>1, <3>5
  <2> QED BY <2>3, <2>4
<1>4. CASE UNCHANGED vars
  <2>1. Unnoticed(b, m) /\ turn' = turn
    BY <1>4 DEF vars, baseVars, Unnoticed, Wheels
  <2> QED BY <2>1 DEF PassInv
<1> QED BY <1>2, <1>3, <1>4, PassIsAtomic

(* A drive base whose motors are not both plugged in does not get through a *)
(* pass of the control loop: the servo of the motor that is missing stops  *)
(* it, and with it the other motor.                                        *)
THEOREM UnpluggedStops == Spec => UnpluggedStopsBoth
<1>1. Init => PassInv
  BY DEF Init, PassInv
<1>2. IInv /\ IInv' /\ PassInv /\ [Next]_vars => PassInv'
  <2> SUFFICES ASSUME IInv, IInv', PassInv, [Next]_vars, ~raised', turn' # 0,
                      NEW b \in Base, NEW m \in Motor, Unnoticed(b, m)'
               PROVE  turn' <= NumMotors \div 2 + m
    BY DEF PassInv
  <2>1. CASE turn # 0
    <3>1. ~raised
      BY <2>1, PassIsAtomic DEF UpdateBase, UpdateServo, Halt, vars, historyVars
    <3> QED BY <2>1, <3>1, PassStep
  <2>2. CASE turn = 0
    <3>1. NextTurn
      BY <2>2 DEF Next, NoMotorThere, MakeMotor, Close, Clear, Track, Run, ResetAngle,
            StopParent, Actuate, MakeBase, NoneToSetUp, SetUp, Drive, StopBase, Refused,
            NoDev, EndProgram, SoftStop, ControlLoop, BeginPass, UpdateBase, UpdateServo,
            Cable, vars
    <3>2. /\ NumMotors \in Nat /\ NumMotors \div 2 \in Nat /\ m \in 1..NumMotors
      BY Sizes DEF Motor
    <3> QED BY <2>2, <3>1, <3>2, NextTurnIs DEF IInv
  <2> QED BY <2>1, <2>2
<1>3. IInv /\ PassInv /\ [Next]_vars =>
        [turn # 0 /\ turn' = 0 /\ ~raised =>
            \A b \in Base : active'[b] => Wheels(b) \subseteq plugged]_vars
  <2> SUFFICES ASSUME IInv, PassInv, [Next]_vars, turn # 0, turn' = 0, ~raised,
                      NEW b \in Base, active'[b], NEW m \in Wheels(b)
               PROVE  m \in plugged
    OBVIOUS
  <2>1. /\ UNCHANGED <<left, right, plugged>> /\ (active'[b] => active[b])
    <3>1. ASSUME NEW c \in Base, UpdateBase(c)
          PROVE  /\ UNCHANGED <<left, right, plugged>>
                 /\ active' \in {active, [active EXCEPT ![c] = FALSE]}
      BY <3>1 DEF UpdateBase, Halt, baseVars
    <3>2. ASSUME NEW n \in Motor, UpdateServo(n)
          PROVE  /\ UNCHANGED <<left, right, plugged>>
                 /\ active' = active \/ StopParents({n})
      BY <3>2 DEF UpdateServo, ServoFails, ServoActuates, ServoIsPassive, baseVars
    <3> QED BY <3>1, <3>2, PassIsAtomic DEF vars, baseVars, StopParents, With, IInv, TypeOK
  <2>2. m \in Motor
    BY <2>1, ActiveWheels
  <2>3. ~Unnoticed(b, m)'
    BY <2>2, PassStep
  <2> QED BY <2>1, <2>3 DEF Unnoticed, Wheels
<1> QED BY <1>1, <1>2, <1>3, Invariance, PTL DEF Spec, UnpluggedStopsBoth

------------------------------------------------------------------------------
(* A set of numbers that is not empty has a smallest one.                  *)
LEMMA SmallestNumber ==
    ASSUME NEW S \in SUBSET Nat, S # {}
    PROVE  \E n \in S : \A m \in S : n <= m
<1> DEFINE R == OpToRel(<, Nat)
<1>1. IsWellFoundedOn(R, Nat)
  BY NatLessThanWellFounded
<1>2. \A m, n \in Nat : m < n => <<m, n>> \in R
  BY DEF OpToRel
<1> HIDE DEF R
<1>3. PICK n \in S : \A m \in S : ~(<<m, n>> \in R)
  BY <1>1, WFMin
<1>4. ASSUME NEW m \in S PROVE n <= m
  <2>1. m \in Nat /\ n \in Nat
    OBVIOUS
  <2>2. ~(m < n)
    BY <1>2, <1>3, <2>1
  <2> QED BY <2>1, <2>2
<1> QED BY <1>4

(* Of the wheels f and g of k drive bases and the motors l and r, some are *)
(* the same.                                                               *)
Crowded(k, f, g, l, r) ==
    \/ l = r
    \/ \E a \in 1..k : f[a] \in {l, r} \/ g[a] \in {l, r}
    \/ \E a, b \in 1..k : f[a] = g[b] \/ (a # b /\ (f[a] = f[b] \/ g[a] = g[b]))

(* Two wheels for each of k drive bases, and two motors more, are more     *)
(* than 2 k + 1 motors.                                                    *)
LEMMA MotorsOfBases ==
    ASSUME NEW n \in Nat, NEW k \in Nat, n < 2 * k + 2,
           NEW f \in [1..k -> 1..n], NEW g \in [1..k -> 1..n],
           NEW l \in 1..n, NEW r \in 1..n
    PROVE  Crowded(k, f, g, l, r)
<1>a. SUFFICES ASSUME ~Crowded(k, f, g, l, r) PROVE FALSE
  OBVIOUS
<1>b. /\ l # r
      /\ \A a \in 1..k : f[a] \notin {l, r} /\ g[a] \notin {l, r}
      /\ \A a, b \in 1..k : f[a] # g[b] /\ (a # b => f[a] # f[b] /\ g[a] # g[b])
  BY <1>a DEF Crowded
<1> DEFINE S == 1..2 * k + 2
           h == [i \in S |-> IF i <= k THEN f[i]
                             ELSE IF i <= 2 * k THEN g[i - k]
                             ELSE IF i = 2 * k + 1 THEN l ELSE r]
<1>1. h \in [S -> 1..n]
  <2>1. ASSUME NEW i \in S, k < i, i <= 2 * k PROVE i - k \in 1..k
    BY <2>1
  <2>2. ASSUME NEW i \in S PROVE h[i] \in 1..n
    BY <2>1, <2>2
  <2> QED BY <2>2
<1>2. /\ IsFiniteSet(S) /\ Cardinality(S) = 2 * k + 2
      /\ IsFiniteSet(1..n) /\ Cardinality(1..n) = n
  <2>1. 1 \in Int /\ n \in Int /\ 2 * k + 2 \in Int
    OBVIOUS
  <2>2. IsFiniteSet(S) /\ Cardinality(S) = 2 * k + 2
    BY <2>1, FS_Interval
  <2>3. IsFiniteSet(1..n) /\ Cardinality(1..n) = n
    BY <2>1, FS_Interval
  <2> QED BY <2>2, <2>3
<1>3. PICK x, y \in S : x # y /\ h[x] = h[y]
  <2>1. Cardinality(1..n) < Cardinality(S)
    BY <1>2
  <2> HIDE DEF S, h
  <2> QED BY <1>1, <1>2, <2>1, FS_PigeonHole
<1>4. ASSUME NEW i \in S
      PROVE  \/ i \in 1..k /\ h[i] = f[i]
             \/ i - k \in 1..k /\ h[i] = g[i - k]
             \/ i = 2 * k + 1 /\ h[i] = l
             \/ i = 2 * k + 2 /\ h[i] = r
  BY <1>4
<1> HIDE DEF h
<1> DEFINE Left(i) == i \in 1..k /\ h[i] = f[i]
           Right(i) == i - k \in 1..k /\ h[i] = g[i - k]
           Free(i) == (i = 2 * k + 1 /\ h[i] = l) \/ (i = 2 * k + 2 /\ h[i] = r)
<1>5. ASSUME NEW i \in S, NEW j \in S, Left(i), h[i] = h[j] PROVE i = j
  <2>1. ~Right(j) /\ ~Free(j)
    BY <1>b, <1>5
  <2> QED BY <1>b, <1>4, <1>5, <2>1
<1>6. ASSUME NEW i \in S, NEW j \in S, Right(i), h[i] = h[j] PROVE i = j
  <2>1. ~Left(j) /\ ~Free(j)
    BY <1>b, <1>6
  <2>2. Right(j)
    BY <1>4, <2>1
  <2>3. i - k = j - k
    BY <1>b, <1>6, <2>2
  <2>4. i \in Int /\ j \in Int
    OBVIOUS
  <2> QED BY <2>3, <2>4
<1>7. Free(x) /\ Free(y)
  BY <1>3, <1>4, <1>5, <1>6
<1> QED BY <1>b, <1>3, <1>7

(* Two free motors find a drive base: if all of them were running, they    *)
(* would have two motors each, none of them free, of a number that is too  *)
(* small for that.                                                         *)
THEOREM FreeMotorsFindBase == Spec => []BaseAvailable
<1>1. ASSUME IInv, NEW p \in Pair, ~Busy(p[1], p[2]) PROVE FirstFree # {}
  <2>1. SUFFICES ASSUME \A b \in Base : BaseRunning(b) PROVE FALSE
    <3>1. ASSUME NEW c \in Base, ~BaseRunning(c) PROVE FirstFree # {}
      <4>1. {b \in Base : ~BaseRunning(b)} \in SUBSET Nat
        BY DEF Base
      <4>2. PICK b \in Base : ~BaseRunning(b) /\ \A a \in Base : ~BaseRunning(a) => b <= a
        BY <3>1, <4>1, SmallestNumber
      <4>3. \A a \in 1..b - 1 : a \in Base /\ ~(b <= a)
        BY Sizes DEF Base
      <4>4. b \in FirstFree
        BY <4>2, <4>3 DEF FirstFree
      <4> QED BY <4>4
    <3> QED BY <3>1
  <2>2. p[1] \in Motor /\ p[2] \in Motor /\ p[1] # p[2]
    BY DrivesAssumption
  <2>3. /\ left \in [Base -> Motor \union {NoMotor}] /\ right \in [Base -> Motor \union {NoMotor}]
    BY <1>1 DEF IInv, TypeOK
  <2>4. ASSUME NEW b \in Base
        PROVE  /\ left[b] \in Motor /\ right[b] \in Motor /\ left[b] # right[b]
               /\ parent[left[b]] = b /\ parent[right[b]] = b /\ b # NoBase
    BY <1>1, <2>1, <2>3, NoneIsNone DEF BaseRunning, Attached, IInv, WheelsOK, Wheels
  <2>5. left \in [Base -> Motor] /\ right \in [Base -> Motor]
    BY <2>3, <2>4
  <2>6. parent[p[1]] = NoBase /\ parent[p[2]] = NoBase
    BY <1>1 DEF Busy
  <2>7. NumMotors < 2 * (NumMotors \div 2) + 2
    BY Sizes
  <2>8. \A a, b \in Base : left[a] # right[b] /\ (a # b => left[a] # left[b] /\ right[a] # right[b])
    BY <2>4
  <2>9. \A a \in Base : {left[a], right[a]} \intersect {p[1], p[2]} = {}
    BY <2>4, <2>6
  <2> DEFINE k == NumMotors \div 2
  <2>10. NumMotors \in Nat /\ k \in Nat /\ NumMotors < 2 * k + 2
    BY Sizes, <2>7
  <2>11. Base = 1..k /\ Motor = 1..NumMotors
    BY DEF Base, Motor
  <2> HIDE DEF k
  <2>12. left \in [1..k -> 1..NumMotors] /\ right \in [1..k -> 1..NumMotors]
    BY <2>5, <2>11
  <2>13. p[1] \in 1..NumMotors /\ p[2] \in 1..NumMotors
    BY <2>2, <2>11
  <2>14. Crowded(k, left, right, p[1], p[2])
    BY <2>10, <2>12, <2>13, MotorsOfBases
  <2> QED BY <2>2, <2>8, <2>9, <2>11, <2>14 DEF Crowded
<1>2. IInv => BaseAvailable
  BY <1>1 DEF BaseAvailable
<1> QED BY <1>2, Invariance, PTL

------------------------------------------------------------------------------
(* A step in which no servo controller and no drive base starts is a        *)
(* Release of MotorControl, or changes nothing there.                      *)
LEMMA StopsRelease ==
    ASSUME Functions, Functions',
           \A m \in Motor : ctl'[m] => ctl[m],
           \A b \in Base : active'[b] =>
               active[b] /\ left'[b] = left[b] /\ right'[b] = right[b]
    PROVE  Arbiter!Next
<1> DEFINE tr == {m \in Motor : ctl[m]}
           dr == [b \in Base |-> IF active[b] THEN Wheels(b) ELSE {}]
<1>1. PICK ms \in SUBSET Motor : ms = {m \in Motor : ctl[m] /\ ~ctl'[m]}
  OBVIOUS
<1>2. PICK bs \in SUBSET Base : bs = {b \in Base : active[b] /\ ~active'[b]}
  OBVIOUS
<1>3. tr' = tr \ ms
  BY <1>1
<1>4. dr' = [b \in Base |-> IF b \in bs THEN {} ELSE dr[b]]
  BY <1>2 DEF Wheels, Functions
<1>5. Arbiter!Release(ms, bs)
  BY <1>3, <1>4 DEF Arbiter!Release, Arbiter!Without
<1> QED BY <1>5 DEF Arbiter!Next

(* To start a servo controller is a Track of MotorControl.                 *)
LEMMA TrackRefines ==
    ASSUME IInv, NEW m \in Motor, StopParent(m), ctl' = [ctl EXCEPT ![m] = TRUE]
    PROVE  Arbiter!Track(m)
<1> DEFINE tr == {n \in Motor : ctl[n]}
           dr == [b \in Base |-> IF active[b] THEN Wheels(b) ELSE {}]
           bs == StoppedBy({m})
<1>1. tr' = tr \union {m}
  BY DEF IInv, TypeOK
<1>2. dr' = [b \in Base |-> IF b \in bs THEN {} ELSE dr[b]]
  BY DEF StopParent, StopParents, StoppedBy, With, Wheels, IInv, TypeOK
<1>3. {b \in Base : m \in dr[b]} \subseteq bs
  BY ActiveWheels DEF StoppedBy
<1>4. bs \in SUBSET Base
  BY DEF StoppedBy
<1> QED BY <1>1, <1>2, <1>3, <1>4 DEF Arbiter!Track, Arbiter!Without

(* A drive command of a drive base is a Drive of MotorControl.             *)
LEMMA DriveRefines ==
    ASSUME IInv, NEW c \in Base, BaseRunning(c), UNCHANGED <<left, right>>,
           ctl' = With(ctl, Wheels(c), FALSE), active' = [active EXCEPT ![c] = TRUE]
    PROVE  Arbiter!Next
<1> DEFINE tr == {n \in Motor : ctl[n]}
           dr == [b \in Base |-> IF active[b] THEN Wheels(b) ELSE {}]
<1>1. PICK l, r \in Motor : l = left[c] /\ r = right[c] /\ l # r
  BY DEF BaseRunning, Attached, IInv, WheelsOK, TypeOK
<1>2. tr' = tr \ Wheels(c)
  BY DEF With, IInv, TypeOK
<1>3. dr' = [dr EXCEPT ![c] = Wheels(c)]
  BY DEF Wheels, IInv, TypeOK
<1>4. ASSUME NEW a \in Base \ {c} PROVE dr[a] \intersect Wheels(c) = {}
  BY ActiveWheels DEF BaseRunning, Attached
<1>5. Arbiter!Drive(c, {l, r})
  BY <1>1, <1>2, <1>3, <1>4 DEF Arbiter!Drive, Wheels
<1> QED BY <1>1, <1>5 DEF Arbiter!Next

(* Every step is one of MotorControl or changes nothing there.             *)
LEMMA StepRefines == IInv /\ IInv' /\ [Next]_vars => [Arbiter!Next]_(Arbiter!vars)
<1> SUFFICES ASSUME IInv, IInv', [Next]_vars PROVE [Arbiter!Next]_(Arbiter!vars)
  OBVIOUS
<1> DEFINE Goal == [Arbiter!Next]_(Arbiter!vars)
<1>0. Functions /\ Functions'
  BY DEF IInv, TypeOK, Functions
<1>c. ASSUME UNCHANGED <<left, right>>, \A m \in Motor : ctl'[m] => ctl[m],
             \A b \in Base : active'[b] => active[b]
      PROVE  Goal
  BY <1>0, <1>c, StopsRelease
<1>s. ASSUME NEW S, StopParents(S), UNCHANGED <<left, right>>,
             \A m \in Motor : ctl'[m] => ctl[m]
      PROVE  Goal
  <2>1. \A b \in Base : active'[b] => active[b]
    BY <1>0, <1>s DEF StopParents, With, Functions
  <2> QED BY <1>c, <1>s, <2>1
<1> USE <1>0 DEF Functions
<1>1. ASSUME NEW m \in Motor, NoMotorThere(m) PROVE Goal
  BY <1>c, <1>1 DEF NoMotorThere, servoVars, baseVars
<1>2. ASSUME NEW m \in Motor, MakeMotor(m) PROVE Goal
  BY <1>c, <1>2 DEF MakeMotor, baseVars
<1>3. ASSUME NEW S \in SUBSET Motor, Clear(S) PROVE Goal
  BY <1>s, <1>3 DEF Clear, With
<1>4. ASSUME NEW m \in Motor, Track(m) PROVE Goal
  BY <1>4, TrackRefines DEF Track, Arbiter!Next
<1>5. ASSUME NEW m \in Motor, Run(m) PROVE Goal
  BY <1>4, <1>5, <1>s DEF Run, StopParent
<1>6. ASSUME NEW m \in Motor, ResetAngle(m) PROVE Goal
  BY <1>6, <1>s DEF ResetAngle, StopParent
<1>7. ASSUME NEW m \in Motor, NEW p \in Passive, Actuate(m, p) PROVE Goal
  BY <1>7, <1>s DEF Actuate, With
<1>8. ASSUME NEW p \in Pair, MakeBase(p[1], p[2]) PROVE Goal
  <2>1. CASE NoneToSetUp(p[1], p[2])
    BY <1>c, <2>1 DEF NoneToSetUp, servoVars, baseVars
  <2>2. ASSUME NEW c \in FirstFree, SetUp(c, p[1], p[2]) PROVE Goal
    <3>1. \A m \in Motor : ctl'[m] => ctl[m]
      BY <2>2 DEF SetUp, With
    <3>2. \A b \in Base : active'[b] => active[b] /\ left'[b] = left[b] /\ right'[b] = right[b]
      BY <2>2 DEF SetUp, FirstFree
    <3> QED BY <3>1, <3>2, StopsRelease
  <2> QED BY <1>8, <2>1, <2>2 DEF MakeBase
<1>9. ASSUME NEW c \in Base, Drive(c) PROVE Goal
  <2>1. BaseRunning(c) /\ ctl' = With(ctl, Wheels(c), FALSE) /\ UNCHANGED <<left, right>>
    BY <1>9 DEF Drive
  <2>2. CASE active' = [active EXCEPT ![c] = TRUE]
    BY <2>1, <2>2, DriveRefines
  <2>3. CASE UNCHANGED active
    BY <1>c, <2>1, <2>3 DEF With
  <2> QED BY <1>9, <2>2, <2>3 DEF Drive
<1>10. ASSUME NEW c \in Base, NEW p \in Passive, Halt(c, p) PROVE Goal
  BY <1>10, <1>c DEF Halt, With
<1>11. CASE Refused
  BY <1>c, <1>11 DEF Refused, NoDev, baseVars
<1>12. CASE EndProgram
  BY <1>3, <1>12 DEF EndProgram
<1>13. CASE SoftStop
  BY <1>s, <1>13 DEF SoftStop, With
<1>14. CASE BeginPass
  BY <1>c, <1>14 DEF BeginPass, servoVars, baseVars
<1>15. ASSUME NEW c \in Base, UpdateBase(c) PROVE Goal
  BY <1>10, <1>c, <1>15 DEF UpdateBase, servoVars, baseVars
<1>16. ASSUME NEW m \in Motor, UpdateServo(m) PROVE Goal
  <2>1. CASE ServoFails(m)
    BY <1>s, <2>1 DEF ServoFails
  <2>2. CASE ServoActuates(m) \/ ServoIsPassive(m)
    BY <1>c, <2>2 DEF ServoActuates, ServoIsPassive, servoVars, baseVars
  <2> QED BY <1>16, <2>1, <2>2 DEF UpdateServo
<1>17. ASSUME NEW m \in Loose, Cable(m) PROVE Goal
  BY <1>c, <1>17 DEF Cable, servoVars, baseVars
<1>18. CASE UNCHANGED vars
  BY <1>c, <1>18 DEF vars, servoVars, baseVars
<1> QED
  BY <1>1, <1>2, <1>3, <1>4, <1>5, <1>6, <1>7, <1>8, <1>9, <1>10, <1>11, <1>12,
     <1>13, <1>14, <1>15, <1>16, <1>17, <1>18 DEF Next, ControlLoop, Close, StopBase

(* The servo controllers and drive bases take and release motors only as   *)
(* MotorControl says: one at a time, and a drive base both of its motors.  *)
THEOREM ImplementsArbiter == Spec => ArbiterSpec
<1>1. Init => Arbiter!Init
  BY DEF Init, Arbiter!Init
<1> QED BY <1>1, StepRefines, Invariance, PTL DEF Spec, ArbiterSpec, Arbiter!Spec
===============================================================================
