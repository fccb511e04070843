-------------------------- MODULE MCEvaluationManager --------------------------
(* EvaluationManager: two instances where all is calm, one where it is not.     *)
EXTENDS EvaluationManager

CONSTANTS c1, handler

MCMaxInstances == [b \in BOOLEAN |-> IF b THEN 2 ELSE 1]
MCMaxRequests == [b \in BOOLEAN |-> IF b THEN <<4, 1>> ELSE <<2>>]
================================================================================
