-------------------------------- MODULE MCTcc --------------------------------
(* Four participants, the second optional, the third without a cancel        *)
(* method, the fourth without a confirm method in some runs.                 *)
EXTENDS Tcc

MCAttempts == [ph \in Phases |-> IF ph = "CONFIRM" THEN <<2, 1, 1, 1>> ELSE <<1, 2, 1, 2>>]
=============================================================================
