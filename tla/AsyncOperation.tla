---------------------------- MODULE AsyncOperation ----------------------------
(***************************************************************************)
(* What an asynchronous route assumes of an operation it suspends on: its  *)
(* outcome is delivered once, a value or an error, to a client that is     *)
(* still there, and dropped for one that has gone.  HttpCalls implements   *)
(* it; OperationSlot is what comes of it when one follows the other.       *)
(***************************************************************************)
CONSTANT Call           \* the operations started by asynchronous routes

VARIABLES op,           \* the state of each operation
          connected     \* whether the client of its route is still there

operationVars == <<op, connected>>

OperationInit == /\ op = [c \in Call |-> "none"]
                 /\ connected = [c \in Call |-> TRUE]

(* The operation is started; it may fail at once. *)
Begin(c) == /\ op[c] = "none"
            /\ \E o \in {"pending", "err", "dropped"} :
                  /\ o = "dropped" => ~connected[c]
                  /\ o = "err" => connected[c]
                  /\ op' = [op EXCEPT ![c] = o]
            /\ UNCHANGED connected

Deliver(c) == /\ op[c] = "pending" /\ connected[c]
              /\ \E result \in {"ok", "err"} : op' = [op EXCEPT ![c] = result]
              /\ UNCHANGED connected

Drop(c) == /\ op[c] = "pending" /\ ~connected[c]
           /\ op' = [op EXCEPT ![c] = "dropped"]
           /\ UNCHANGED connected

Depart(c) == /\ connected[c]
             /\ connected' = [connected EXCEPT ![c] = FALSE]
             /\ UNCHANGED op

OperationNext == \E c \in Call : Begin(c) \/ Deliver(c) \/ Drop(c) \/ Depart(c)

OperationSafety == OperationInit /\ [][OperationNext]_operationVars
(* The outcome of a pending operation comes. *)
Outcome(c) == WF_operationVars(Deliver(c) \/ Drop(c))

OperationSpec == OperationSafety /\ \A c \in Call : Outcome(c)
=============================================================================
