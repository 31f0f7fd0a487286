------------------------------ MODULE MCRobotBase ------------------------------
(* Two tasks, two objects and a wheel whose turning is followed.            *)
EXTENDS RobotBase

MCMaxTurns == [w \in Wheel |-> IF w = "left" THEN 1 ELSE 0]
===============================================================================
