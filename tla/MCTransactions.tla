---------------------------- MODULE MCTransactions ----------------------------
(* Transactions for TLC: of the initial states that differ only in the names *)
(* of the loops, one is enough.                                              *)
EXTENDS Transactions

MCInit ==
  /\ Init
  /\ LET r == CHOOSE q \in Request : TRUE
         l == CHOOSE k \in Loop : TRUE
     IN  loop[r] = l

MCSpec == MCInit /\ [][Next]_txVars /\ Fairness
=============================================================================
