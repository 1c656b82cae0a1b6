------------------------------ MODULE MCKaasPt ------------------------------
(* KaasPt for TLC: the names and types of the rows. *)
EXTENDS KaasPt

CONSTANTS r1, r2

(* A light that the first start creates, and a sensor of the same name. *)
OneName == [r \in {r1, r2} |-> "n"]
OneOn == [r \in {r1} |-> "on"]
LightAndSensor == [r \in {r1, r2} |-> IF r = r1 THEN "light" ELSE "sensor"]
=============================================================================
