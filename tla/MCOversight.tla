----------------------------- MODULE MCOversight ----------------------------
(* Oversight with the records TLC checks it on: alerts at both ends of the *)
(* bands, transactions on either side of midnight in the officer's time.   *)
EXTENDS Oversight

MCAlertScore == [a \in {1, 2} |-> IF a = 1 THEN 100 ELSE 20]
MCTxHour == [t \in 1..3 |-> CASE t = 1 -> 10 [] t = 2 -> 15 [] t = 3 -> 16]
MCTxScore == [t \in 1..3 |-> CASE t = 1 -> 0 [] t = 2 -> 80 [] t = 3 -> 100]
MCTxClient == [t \in 1..3 |-> IF t = 2 THEN "b" ELSE "a"]
=============================================================================
