--------------------------- MODULE MCStressTester ---------------------------
(* StressTester for TLC: the translators of the test threads. *)
EXTENDS StressTester

CONSTANTS t1, t2, p1

(* Two threads that share one translator. *)
OnePt == [t \in {t1, t2} |-> p1]
=============================================================================
